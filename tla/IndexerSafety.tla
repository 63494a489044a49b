----------------------------- MODULE IndexerSafety -----------------------------
(* What the indexer may leave out of what it serves, and why. *)
EXTENDS Indexer

Task == [pc : {"idle", "head", "logs"}, head : 0 .. MaxBlock, cursor : 0 .. MaxBlock,
         to : 0 .. MaxBlock, inner : 0 .. MaxBlock, kind : DOMAIN Kinds]

TypeOK ==
  /\ head \in Blocks /\ last \in 0 .. head
  /\ log \in [Blocks -> SUBSET KindSet]
  /\ caughtUp \in BOOLEAN /\ polling \in BOOLEAN
  /\ stored \in [Events -> Nat]
  /\ range \in Nat \ {0}
  /\ task \in [Ticks -> Task]
  /\ \A t \in Ticks : task[t].pc = "logs" =>
       /\ task[t].cursor < task[t].inner /\ task[t].inner <= task[t].to
       /\ task[t].to <= task[t].head /\ task[t].head <= head
  /\ mishaps \in [{"failed", "throttled", "overlapped"} -> Nat]
  /\ skipped \subseteq Events

Emitted == {e \in Events : e[2] \in log[e[1]]}
\* The first block read is the one after Start, which the cursor begins with, though
\* the comment of follow calls it the first of the backfill.
Due == {e \in Emitted : Start < e[1] /\ e[1] <= last}
Served(e) == stored[e] > 0 \/ Total(stored, From(e[1])) >= Keep

\* Every event up to the block the status page reports is in the store, was
\* pushed out by Keep newer ones, or lay in a window the provider refused:
\* neither a failing tick nor ticks that overlap lose anything.
CompleteBelowCursor ==
  /\ TypeOK
  /\ \A e \in Due : Served(e) \/ e \in skipped

\* A duplicate costs a mishap: an event is stored once, and once more for every
\* tick that failed between its kinds or started while another was running.
CopiesAreExplained ==
  \A e \in Events : stored[e] <= 1 + mishaps.failed + mishaps.overlapped

\* The indexer gets to every block: overlapping ticks that write the cursor
\* back, failures and refusals only delay it.
CatchesUp == \A b \in Blocks : head >= b ~> last >= b

\* NOT true of the code: when it says it has caught up, what it serves is the
\* whole history (but for the trim).
CaughtUpMeansComplete == caughtUp => \A e \in Due : Served(e)
=============================================================================
