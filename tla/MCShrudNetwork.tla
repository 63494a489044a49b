---------------------------- MODULE MCShrudNetwork ---------------------------
(* Values for the constants of the network that a .cfg cannot write. *)
EXTENDS NetworkRefinement, DocumentedClaims, TLC

CONSTANTS m1, m2, e1, e2

\* One treasury owns the odd orders, another the even ones.
MCModuleOf == [i \in Intents |-> IF i % 2 = 1 THEN m1 ELSE m2]

\* Every order in the first epoch, or the last order in the second one.
MCOneEpochOf == [i \in Intents |-> e1]
MCTwoEpochOf == [i \in Intents |-> IF i = 1 THEN e1 ELSE e2]

MCBatchSizes == {0, 1, MaxCandidates}
==============================================================================
