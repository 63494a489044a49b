-------------------------------- MODULE Indexer --------------------------------
(***************************************************************************)
(* The read-only indexer (packages/indexer): ticks that follow the head of *)
(* the chain window by window, kind by kind, and narrow the window when    *)
(* the provider refuses it.  A tick starts every POLL_MS whether or not    *)
(* the one before it has ended, and all of them share `state` and          *)
(* `logRange`; the interleaving is at their awaits.                        *)
(*                                                                         *)
(* An event is a block and a kind.  The store is a bag: its order is the   *)
(* sort's (newest first), so only which copies the trim drops matters.     *)
(***************************************************************************)
EXTENDS Naturals, Sequences, FiniteSets, FiniteSetsExt

CONSTANTS
  Kinds,       \* EVENTS, in the order they are asked for
  Ticks,       \* bound: the ticks alive at once
  Start,       \* SHRUD_START_BLOCK
  StartRange,  \* SEPOLIA_LOG_RANGE
  Limit,       \* the widest window the provider serves
  Keep,        \* the 5000 events kept
  MaxBlock,    \* bound: the chain
  MaxMishaps   \* bound: failures, throttlings and overlapping starts, together

ASSUME IndexerAssumption ==
  /\ Kinds \in Seq(STRING) \ {<<>>} /\ \A i, j \in DOMAIN Kinds : Kinds[i] = Kinds[j] => i = j
  /\ {Start, MaxBlock, MaxMishaps} \subseteq Nat
  /\ {StartRange, Limit, Keep} \subseteq Nat \ {0}
  /\ Start < MaxBlock

VARIABLES
  head,      \* the chain's
  log,       \* the chain's: the kinds of event each block emitted
  last,      \* state.lastIndexedBlock
  caughtUp,  \* state.caughtUp
  stored,    \* state.events: how many copies of each event
  range,     \* logRange
  task,      \* the awaits of each tick
  polling,   \* setInterval runs: the first tick is over
  mishaps,   \* history: what went wrong so far, by kind
  skipped    \* history: the events in windows that were narrowed and not read again

vars == <<head, log, last, caughtUp, stored, range, task, polling, mishaps, skipped>>
stateVars == <<last, caughtUp, stored, range>>

Blocks == 1 .. MaxBlock
KindSet == {Kinds[i] : i \in DOMAIN Kinds}
Events == Blocks \X KindSet

Idle == [pc |-> "idle", head |-> 0, cursor |-> 0, to |-> 0, inner |-> 0, kind |-> 1]
Running == {t \in Ticks : task[t].pc # "idle"}

Mishap(what) == mishaps' = [mishaps EXCEPT ![what] = @ + 1]
MayGoWrong == mishaps.failed + mishaps.throttled + mishaps.overlapped < MaxMishaps

-----------------------------------------------------------------------------
(* follow *)

\* The last block indexed; zero stands for a configuration without a start block.
Cursor == IF last # 0 THEN last ELSE IF Start > 0 THEN Start - 1 ELSE head - 1

\* The window after the cursor, and its first request.
Window(h, cursor) ==
  LET to == Min({cursor + range, h})
  IN [pc |-> "logs", head |-> h, cursor |-> cursor, to |-> to, inner |-> to, kind |-> 1]

\* Mutant: an interval that is never set.
StartTick_Once(t) ==
  /\ ~polling /\ Running = {} /\ task[t] = Idle
  /\ task' = [task EXCEPT ![t].pc = "head"]
  /\ UNCHANGED <<head, log, stateVars, polling, mishaps, skipped>>

\* The first tick is awaited; the interval starts the others regardless.
StartTick(t) ==
  /\ task[t] = Idle
  /\ \/ Running = {} /\ UNCHANGED mishaps
     \/ Running # {} /\ polling /\ MayGoWrong /\ Mishap("overlapped")
  /\ task' = [task EXCEPT ![t].pc = "head"]
  /\ UNCHANGED <<head, log, stateVars, polling, skipped>>

\* getBlockNumber answers.
ReadHead(t) ==
  /\ task[t].pc = "head"
  /\ IF Cursor < head
     THEN /\ task' = [task EXCEPT ![t] = Window(head, Cursor)]
          /\ UNCHANGED <<caughtUp, polling>>
     ELSE /\ task' = [task EXCEPT ![t] = Idle]
          /\ caughtUp' = TRUE /\ polling' = TRUE
  /\ UNCHANGED <<head, log, last, stored, range, mishaps, skipped>>

-----------------------------------------------------------------------------
(* indexRange *)

Width(t) == task[t].inner - task[t].cursor

\* Half the width, for this request and for every window after it.  The bound
\* of the outer loop, `to`, is the caller's and stays.
Narrow(t) ==
  /\ range' = Max({1, Width(t) \div 2})
  /\ task' = [task EXCEPT ![t].inner = task[t].cursor + range']
  /\ UNCHANGED <<head, log, last, caughtUp, stored, polling, skipped>>

\* "block range", "query returned more than".
Reject(t) ==
  /\ task[t].pc = "logs" /\ Width(t) > Limit /\ Narrow(t) /\ UNCHANGED mishaps

\* "limit exceeded" is also what a provider says of a request rate.
Throttle(t) ==
  /\ task[t].pc = "logs" /\ Width(t) > 1 /\ MayGoWrong /\ Narrow(t) /\ Mishap("throttled")

Total(bag, S) == Cardinality(UNION {{e} \X (1 .. bag[e]) : e \in S})

From(b) == {e \in Events : e[1] >= b}

Cut(bag, cut, room) ==
  {[e \in Events |-> IF e[1] > cut THEN bag[e] ELSE IF e[1] < cut THEN 0 ELSE part[e[2]]] :
     part \in {q \in [KindSet -> 0 .. room] :
                 (\A k \in KindSet : q[k] <= bag[<<cut, k>>]) /\ Total(q, KindSet) = room}}

\* The copies a trim may leave: the Keep newest, and of the block where the cut
\* falls any that fit.
Trimmed(bag) ==
  IF Total(bag, Events) <= Keep THEN {bag}
  ELSE UNION {Cut(bag, b, Keep - Total(bag, From(b + 1))) :
                b \in {c \in Blocks : Total(bag, From(c)) > Keep /\ Total(bag, From(c + 1)) <= Keep}}

\* Mutant: a window that begins with the block the one before it ended with.
Pushed_FromCursor(t) ==
  [e \in Events |->
     IF e[2] = Kinds[task[t].kind] /\ e[2] \in log[e[1]] /\ e[1] \in task[t].cursor .. task[t].inner
     THEN stored[e] + 1 ELSE stored[e]]

\* The logs of one kind in the window that was accepted are pushed.
Pushed(t) ==
  [e \in Events |->
     IF e[2] = Kinds[task[t].kind] /\ e[2] \in log[e[1]] /\ e[1] \in task[t].cursor + 1 .. task[t].inner
     THEN stored[e] + 1 ELSE stored[e]]

\* What the narrowed window leaves out although the cursor moves past it.
LeftOut(t) == (task[t].inner + 1 .. task[t].to) \X {Kinds[task[t].kind]}

ReadLogs(t) ==
  /\ task[t].pc = "logs" /\ Width(t) <= Limit /\ task[t].kind < Len(Kinds)
  /\ stored' = Pushed(t) /\ skipped' = skipped \cup LeftOut(t)
  /\ task' = [task EXCEPT ![t].kind = @ + 1]
  /\ UNCHANGED <<head, log, last, caughtUp, range, polling, mishaps>>

\* Mutant: the cursor is saved before the window is read.
Advance_Early(t) == last' = task[t].head

\* follow, when indexRange returns.
Advance(t) == last' = task[t].to

\* The last kind: sort, trim, and the cursor moves to the end the caller asked for.
FinishWindow(t) ==
  /\ task[t].pc = "logs" /\ Width(t) <= Limit /\ task[t].kind = Len(Kinds)
  /\ \E bag \in {Pushed(t)} : stored' \in Trimmed(bag)
  /\ skipped' = skipped \cup LeftOut(t)
  /\ Advance(t)
  /\ IF task[t].to < task[t].head
     THEN /\ task' = [task EXCEPT ![t] = Window(task[t].head, task[t].to)]
          /\ UNCHANGED <<caughtUp, polling>>
     ELSE /\ task' = [task EXCEPT ![t] = Idle]
          /\ caughtUp' = TRUE /\ polling' = TRUE
  /\ UNCHANGED <<head, log, range, mishaps>>

\* Any other error ends the tick; what it pushed stays.
FailTick(t) ==
  /\ task[t].pc # "idle" /\ MayGoWrong /\ Mishap("failed")
  /\ task' = [task EXCEPT ![t] = Idle] /\ polling' = TRUE
  /\ UNCHANGED <<head, log, stateVars, skipped>>

Mine(kinds) ==
  /\ head < MaxBlock /\ head' = head + 1
  /\ log' = [log EXCEPT ![head'] = kinds]
  /\ UNCHANGED <<stateVars, task, polling, mishaps, skipped>>

Init ==
  /\ head = Max({1, Start}) /\ log = [b \in Blocks |-> {}]
  /\ last = Start /\ caughtUp = FALSE /\ stored = [e \in Events |-> 0] /\ range = StartRange
  /\ task = [t \in Ticks |-> Idle] /\ polling = FALSE
  /\ mishaps = [failed |-> 0, throttled |-> 0, overlapped |-> 0] /\ skipped = {}

TickStep(t) ==
  ReadHead(t) \/ Reject(t) \/ ReadLogs(t) \/ FinishWindow(t)

Next ==
  \/ \E t \in Ticks : StartTick(t) \/ TickStep(t) \/ Throttle(t) \/ FailTick(t)
  \/ \E kinds \in SUBSET KindSet : Mine(kinds)

Spec == Init /\ [][Next]_vars

\* The interval fires and the provider answers.
FairSpec ==
  /\ Spec
  /\ WF_vars(\E t \in Ticks : TickStep(t))
  /\ WF_vars(\E t \in Ticks : StartTick(t) /\ Running = {})
=============================================================================
