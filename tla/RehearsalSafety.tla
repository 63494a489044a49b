---------------------------- MODULE RehearsalSafety ----------------------------
(* What an interrupted rehearsal costs, and when it comes to its end all the same. *)
EXTENDS Rehearsal

Treasury == [safe : SafeIds, order : Orders \cup {NoOrder}]
StateFile == [treasuries : Seq(Treasury), sealed : BOOLEAN]
Call == [by : Scripts, op : Steps, safe : 0 .. MaxSafes,
         order : Orders \cup {NoOrder} \cup {<<s, MaxMishaps + MaxRefused + 1>> : s \in SafeIds},
         awaited : BOOLEAN, set : SUBSET Orders, stage : 0 .. 7]

TypeOK ==
  /\ made \in 0 .. MaxSafes
  /\ safe \in [0 .. MaxSafes -> SUBSET Features] /\ safe[0] = {}
  /\ nonce \in [0 .. MaxSafes -> 0 .. MaxMishaps + MaxRefused + 1]
  /\ epoch.fixed \in {"None", "Open", "Sealed"} /\ epoch.hour \in {"None", "Open"}
  /\ orders \in [Orders -> OrderStatus]
  /\ members \subseteq Orders /\ stage \in 0 .. 7
  /\ published \in BOOLEAN /\ calm \in BOOLEAN /\ expired \subseteq Orders
  /\ pending \in Seq(Call)
  /\ file \in [Scripts -> StateFile] /\ mem \in [Scripts -> StateFile]
  /\ cur \in [Scripts -> [safe : 0 .. MaxSafes, order : Orders \cup {NoOrder}]]
  /\ pc \in [Scripts -> Steps \cup {"off", "save", "done"}]

Known(m) == {m.treasuries[i].safe : i \in DOMAIN m.treasuries}
\* An epoch that the script sealed has one order of each of N installed and
\* shielded treasuries; the orders an interruption left beside are not in it.
SealedSetIsWhole ==
  /\ TypeOK
  /\ file["clearing"].sealed =>
    /\ members = OrdersOf(file["clearing"]) /\ Cardinality(members) = N
    /\ \A o \in members : orders[o] = "Sealed" /\ safe[o[1]] = Features
    /\ \A o, q \in members : o[1] = q[1] => o = q

\* An order of a treasury that wrapped nothing is of prove-order, it never gets
\* further than its submission, and some other Safe had backed the wrapper, which
\* is why the script skipped the wrapping of its own.
UnbackedIsExplained ==
  \A o \in Orders : orders[o] # "None" /\ "shielded" \notin safe[o[1]] =>
    /\ o[1] \in Known(file["order"]) /\ orders[o] = "Submitted"
    /\ \E s \in 1 .. made : "shielded" \in safe[s]

\* What no run of prove-clearing gets past: an epoch sealed by a call it has no
\* record of, or a recorded order that expired before the seal.
Stranded ==
  ~file["clearing"].sealed /\ (stage > 0 \/ OrdersOf(file["clearing"]) \cap expired # {})

\* What no run of prove-order gets past: its Safe wrapped nothing before another
\* one backed the wrapper, so that each run submits an order it cannot activate.
LockedOut ==
  \E s \in Known(file["order"]), other \in 1 .. made :
    "shielded" \notin safe[s] /\ "shielded" \in safe[other]

Placed ==
  \E o \in Orders : o[1] \in Known(file["order"]) /\ orders[o] \in {"Authorised", "Sealed"}

\* Both scripts are resumable but for that: run again often enough, prove-clearing
\* publishes its epoch and prove-order has its order authorised.
Resumes == <>[](published \/ Stranded) /\ <>[](Placed \/ LockedOut)
=============================================================================
