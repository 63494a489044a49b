------------------------------- MODULE MCIndexer -------------------------------
EXTENDS IndexerSafety
CONSTANTS t1, t2

\* Two of the four kinds: enough for a window to be left between them.
TwoKinds == <<"epochOpened", "intentSubmitted">>
===============================================================================
