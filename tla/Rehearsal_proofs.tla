---------------------------- MODULE Rehearsal_proofs ----------------------------
(***************************************************************************)
(* What the rehearsal scripts leave behind, for any number of treasuries   *)
(* and however often their processes die: what their files say is so on    *)
(* the chain, and what is on the chain besides is accounted for.           *)
(***************************************************************************)
EXTENDS RehearsalSafety, FiniteSetTheorems, TLAPS

-----------------------------------------------------------------------------
(* The inductive invariant. *)

\* A script that runs, and the ones that have ended or not begun.
Busy(b) == pc[b] \notin {"off", "done"}

\* Some Safe has backed the wrapper.
Backed == \E s \in 1 .. made : "shielded" \in safe[s]

\* The treasuries with an order.
Ordered(m) == {m.treasuries[i].safe : i \in DOMAIN m.treasuries \ Unordered(m)}

\* What the submissions that are not a Safe's last have cost.
Paid == mishaps.crashed + mishaps.refused

\* What the chain holds: Safes that exist, orders below the next nonce.
ChainOK ==
  /\ epoch \in [{"fixed", "hour"} -> {"None", "Open", "Sealed"}]
  /\ mishaps \in [{"crashed", "expired", "moved", "refused"} -> Nat]
  /\ mishaps.crashed + mishaps.expired + mishaps.moved <= MaxMishaps
  /\ mishaps.refused <= MaxRefused
  /\ \A s \in SafeIds : safe[s] # {} => s <= made
  /\ \A o \in Orders : orders[o] # "None" => o[2] < nonce[o[1]]

\* A file of prove-clearing: its treasuries are shielded Safes of their own, their
\* orders are theirs, and a recorded seal is of exactly these.
ClearingFile(m) ==
  /\ Len(m.treasuries) <= N
  /\ \A i \in DOMAIN m.treasuries :
       LET y == m.treasuries[i] IN
       /\ y.safe <= made /\ safe[y.safe] = Features /\ y.safe \notin Known(file["order"])
       /\ y.order # NoOrder => y.order[1] = y.safe
  /\ \A i, j \in DOMAIN m.treasuries : m.treasuries[i].safe = m.treasuries[j].safe => i = j
  /\ m.sealed =>
       /\ Len(m.treasuries) = N /\ Unordered(m) = {}
       /\ members = OrdersOf(m) /\ epoch["fixed"] = "Sealed"
       /\ \A o \in members : orders[o] = "Sealed"

\* A file of prove-order: at most one Safe, of its own.
OrderFile(m) ==
  /\ Len(m.treasuries) <= 1
  /\ \A i \in DOMAIN m.treasuries : m.treasuries[i].safe <= made

\* What a process holds is what its file says, but for what it is about to save.
FilesOK ==
  /\ ClearingFile(file["clearing"]) /\ OrderFile(file["order"])
  /\ \A b \in Scripts : Busy(b) /\ pc[b] # "save" => mem[b] = file[b]
  /\ pc["clearing"] = "save" =>
       ClearingFile(mem["clearing"]) /\ Ordered(file["clearing"]) \subseteq Ordered(mem["clearing"])
  /\ pc["order"] = "save" =>
       /\ OrderFile(mem["order"]) /\ Len(mem["order"].treasuries) = 1 /\ file["order"].treasuries = <<>>
       /\ Known(mem["order"]) \cap Known(file["clearing"]) = {}

\* One script runs at a time, with at most one call it waits for.
OneRuns ==
  /\ \A b, c \in Scripts : Busy(b) /\ Busy(c) => b = c
  /\ \A i, j \in DOMAIN pending : pending[i].awaited /\ pending[j].awaited => i = j

\* A script between its submission and the receipt of its activation.
ActivatingOK ==
  \A b \in Scripts : pc[b] = "activate" =>
    LET o == cur[b].order IN
    /\ o \in Orders /\ o[1] = cur[b].safe /\ cur[b].safe <= made
    /\ orders[o] = "Submitted" /\ Installed \subseteq safe[o[1]]
    /\ \A i \in DOMAIN pending :
         pending[i].op = "activate" /\ pending[i].order = o => pending[i].awaited

NextTreasury == mem["clearing"].treasuries[FirstUnordered(mem["clearing"])].safe

ClearingAt ==
  LET p == pc["clearing"] m == mem["clearing"] s == cur["clearing"].safe IN
  /\ p \in {"create", "deploy", "enable", "guard", "fund", "shield"} => Len(m.treasuries) < N
  /\ p \in {"deploy", "enable", "guard", "fund", "shield"} =>
       s \in 1 .. made /\ s \notin Known(m) \cup Known(file["order"])
  /\ p \in {"submit", "activate"} => Unordered(m) # {}
  /\ p = "activate" => s = NextTreasury
  /\ p = "seal" => Len(m.treasuries) = N /\ Unordered(m) = {}

OrderAt ==
  LET p == pc["order"] IN
  /\ p \notin {"seal", "clear", "publish"}
  /\ p \in {"deploy", "enable", "guard", "fund", "shield", "open", "submit", "activate", "done"} =>
       Len(file["order"].treasuries) = 1
  /\ p \in {"open", "submit", "activate"} => Backed
  /\ p = "activate" => cur["order"].safe = OrderSafe
  /\ p \notin {"off", "done"} => mishaps.refused < MaxRefused

\* A pending call, its script alive or not.
CallOK(t) ==
  /\ t.op \in DOMAIN Gains \cup {"submit", "activate"} => t.safe \in 1 .. made
  /\ t.op = "submit" =>
       /\ t.order \in Orders /\ t.order[1] = t.safe
       /\ t.by = "clearing" => safe[t.safe] = Features
       /\ t.by = "order" => t.safe \in Known(file["order"]) /\ Backed
       /\ t.order[2] <= Paid /\ (~t.awaited => t.order[2] < Paid)
  /\ t.op = "activate" =>
       t.order \in Orders /\ t.order[1] = t.safe /\ orders[t.order] # "None"
  /\ t.op = "seal" => t.by = "clearing"

\* One that its script waits for.
AwaitedOK(t) ==
  /\ pc[t.by] = t.op
  /\ t.op \notin {"create", "seal", "open", "clear", "publish"} =>
       t.safe = cur[t.by].safe /\ t.order = cur[t.by].order
  /\ t.op = "submit" => t.safe = IF t.by = "clearing" THEN NextTreasury ELSE OrderSafe
  /\ t.op = "activate" => "shielded" \in safe[t.safe]
  /\ t.op = "seal" => t.set = OrdersOf(mem["clearing"])
  /\ t.op = "create" /\ t.by = "order" => file["order"].treasuries = <<>>

PendingOK ==
  \A i \in DOMAIN pending : CallOK(pending[i]) /\ (pending[i].awaited => AwaitedOK(pending[i]))

\* A Safe's last submission is of a run that goes on to record it; every other one
\* cost a crash or a refused activation.
Past(s) ==
  \/ \E b \in Scripts : pc[b] = "activate" /\ cur[b].safe = s
  \/ pc["clearing"] = "save" /\ s \in Ordered(mem["clearing"])
  \/ s \in Ordered(file["clearing"])
  \/ pc["order"] = "done" /\ s \in Known(file["order"])

NoncesPaid ==
  \A s \in SafeIds : nonce[s] <= Paid + 1 /\ (nonce[s] <= Paid \/ Past(s))

IInv ==
  /\ TypeOK /\ ChainOK /\ FilesOK /\ OneRuns /\ ActivatingOK /\ ClearingAt /\ OrderAt
  /\ PendingOK /\ NoncesPaid /\ UnbackedIsExplained

-----------------------------------------------------------------------------
(* The vocabulary. *)

Installing == {"deploy", "enable", "guard", "fund", "shield"}

\* What each installing call gives a Safe.
LEMMA GainsListed ==
  /\ DOMAIN Gains = Installing
  /\ Gains["deploy"] = "module" /\ Gains["enable"] = "enabled" /\ Gains["guard"] = "guard"
  /\ Gains["fund"] = "funds" /\ Gains["shield"] = "shielded"
  /\ \A op \in Installing : Gains[op] \in Features
BY DEF Gains, Installing, Features, Installed

\* The two epochs.
LEMMA EpochsListed ==
  /\ Scripts = {"clearing", "order"}
  /\ EpochOf["clearing"] = "fixed" /\ EpochOf["order"] = "hour"
BY DEF Scripts, EpochOf

\* An order is a Safe and a nonce, and NoOrder is none.
LEMMA OrderParts ==
  /\ NoOrder \notin Orders
  /\ \A o \in Orders : o[1] \in SafeIds /\ o[2] \in 0 .. MaxMishaps + MaxRefused /\ o = <<o[1], o[2]>>
  /\ \A s \in SafeIds : \A k \in 0 .. MaxMishaps + MaxRefused :
       <<s, k>> \in Orders /\ <<s, k>>[1] = s /\ <<s, k>>[2] = k
BY DEF NoOrder, Orders, SafeIds

\* What the mishaps come to.
LEMMA PaidTyped ==
  ASSUME ChainOK
  PROVE  /\ Paid \in Nat /\ mishaps.crashed \in Nat /\ mishaps.refused \in Nat
         /\ mishaps.expired \in Nat /\ mishaps.moved \in Nat
         /\ MaxMishaps \in Nat /\ MaxRefused \in Nat /\ Paid <= MaxMishaps + MaxRefused
<1>1. /\ mishaps.crashed \in Nat /\ mishaps.refused \in Nat
      /\ mishaps.expired \in Nat /\ mishaps.moved \in Nat
      /\ mishaps.crashed + mishaps.expired + mishaps.moved <= MaxMishaps /\ mishaps.refused <= MaxRefused
  BY DEF ChainOK
<1>2. MaxMishaps \in Nat /\ MaxRefused \in Nat
  BY RehearsalAssumption DEF RehearsalAssumption
<1> QED BY <1>1, <1>2 DEF Paid

Cursor == [safe : 0 .. MaxSafes, order : Orders \cup {NoOrder}]

\* The types of the chain, and of the scripts.
ChainTypes ==
  /\ made \in 0 .. MaxSafes
  /\ safe \in [0 .. MaxSafes -> SUBSET Features] /\ safe[0] = {}
  /\ nonce \in [0 .. MaxSafes -> 0 .. MaxMishaps + MaxRefused + 1]
  /\ epoch.fixed \in {"None", "Open", "Sealed"} /\ epoch.hour \in {"None", "Open"}
  /\ orders \in [Orders -> OrderStatus]
  /\ members \subseteq Orders /\ stage \in 0 .. 7
  /\ published \in BOOLEAN /\ calm \in BOOLEAN /\ expired \subseteq Orders

ScriptTypes ==
  /\ file \in [Scripts -> StateFile] /\ mem \in [Scripts -> StateFile]
  /\ cur \in [Scripts -> [safe : 0 .. MaxSafes, order : Orders \cup {NoOrder}]]
  /\ pc \in [Scripts -> Steps \cup {"off", "save", "done"}]

LEMMA TypesSplit == TypeOK <=> ChainTypes /\ ScriptTypes /\ pending \in Seq(Call)
BY DEF TypeOK, ChainTypes, ScriptTypes

\* The fields of a pending call, of a file and of a script's cursor.
LEMMA CallFields ==
  ASSUME NEW t \in Call
  PROVE  /\ t.by \in Scripts /\ t.op \in Steps /\ t.safe \in 0 .. MaxSafes
         /\ t.awaited \in BOOLEAN /\ t.set \in SUBSET Orders /\ t.stage \in 0 .. 7
BY DEF Call

LEMMA FileFields ==
  ASSUME NEW m \in StateFile
  PROVE  /\ m.treasuries \in Seq(Treasury) /\ m.sealed \in BOOLEAN
         /\ DOMAIN m.treasuries = 1 .. Len(m.treasuries) /\ Len(m.treasuries) \in Nat
         /\ \A i \in DOMAIN m.treasuries :
              /\ m.treasuries[i] \in Treasury
              /\ m.treasuries[i].safe \in SafeIds /\ m.treasuries[i].order \in Orders \cup {NoOrder}
<1>1. m.treasuries \in Seq(Treasury) /\ m.sealed \in BOOLEAN
  BY DEF StateFile
<1> DEFINE q == m.treasuries
<1>2. q \in Seq(Treasury)
  BY <1>1
<1> HIDE DEF q
<1>3. DOMAIN q = 1 .. Len(q) /\ Len(q) \in Nat /\ \A i \in DOMAIN q : q[i] \in Treasury
  BY <1>2
<1>4. \A y \in Treasury : y.safe \in SafeIds /\ y.order \in Orders \cup {NoOrder}
  BY DEF Treasury
<1> QED BY <1>1, <1>3, <1>4 DEF q

\* A set of naturals that is not empty has a least element.
LEMMA Smallest ==
  ASSUME NEW T \in SUBSET Nat, T # {}
  PROVE  \E n \in T : \A m \in T : n <= m
<1> DEFINE R == OpToRel(<, Nat)
<1>1. PICK n \in T : \A m \in T : ~ (<<m, n>> \in R)
  <2>1. IsWellFoundedOn(R, Nat)
    BY NatLessThanWellFounded
  <2> HIDE DEF R
  <2> QED BY <2>1, WFMin
<1>2. \A m \in T : n <= m
  <2> TAKE m \in T
  <2>1. m \in Nat /\ n \in Nat
    OBVIOUS
  <2>2. ~(m < n)
    BY <1>1, <2>1 DEF OpToRel
  <2> QED BY <2>1, <2>2
<1> QED BY <1>2

\* The next treasury to submit for is one without an order.
LEMMA FirstIsUnordered ==
  ASSUME NEW m \in StateFile, Unordered(m) # {}
  PROVE  /\ FirstUnordered(m) \in DOMAIN m.treasuries
         /\ m.treasuries[FirstUnordered(m)].order = NoOrder
<1>1. Unordered(m) \in SUBSET Nat
  BY FileFields DEF Unordered
<1>2. \E n \in Unordered(m) : \A k \in Unordered(m) : n <= k
  BY <1>1, Smallest
<1>3. FirstUnordered(m) \in Unordered(m)
  BY <1>2 DEF FirstUnordered
<1> QED BY <1>3 DEF Unordered

-----------------------------------------------------------------------------
(* The chain only grows. *)

\* What no step takes back.
Grows ==
  /\ made <= made'
  /\ \A s \in 0 .. MaxSafes : safe[s] \subseteq safe'[s]
  /\ \A o \in Orders : orders[o] # "None" => orders'[o] # "None"
  /\ epoch["fixed"] = "Sealed" =>
       /\ epoch'["fixed"] = "Sealed" /\ members' = members
       /\ \A o \in Orders : orders[o] = "Sealed" => orders'[o] = "Sealed"

\* A step that keeps the chain is one that grows by nothing.
LEMMA StillGrows ==
  ASSUME TypeOK, UNCHANGED chainVars
  PROVE  Grows /\ ChainTypes'
BY DEF Grows, chainVars, safeVars, bookVars, ChainTypes, TypeOK

\* A Safe with all features keeps them, and no others come.
LEMMA FeaturesStay ==
  ASSUME ChainTypes, ChainTypes', Grows, NEW s \in 0 .. MaxSafes
  PROVE  safe[s] = Features => safe'[s] = Features
<1>1. safe'[s] \subseteq Features
  BY DEF ChainTypes
<1> QED BY <1>1 DEF Grows

\* Files and a chain that stand still.
LEMMA FilesUnmoved ==
  ASSUME FilesOK, UNCHANGED <<made, safe, file, members, epoch, orders>>
  PROVE  ClearingFile(file["clearing"])' /\ OrderFile(file["order"])'
<1>1. OrderFile(file["order"])'
  BY DEF FilesOK, OrderFile
<1>2. OrdersOf(file["clearing"])' = OrdersOf(file["clearing"]) /\ Unordered(file["clearing"])' = Unordered(file["clearing"])
      /\ Known(file["order"])' = Known(file["order"])
  BY DEF OrdersOf, Unordered, Known
<1>3. ClearingFile(file["clearing"])'
  <2>1. ClearingFile(file["clearing"]) /\ file' = file /\ made' = made /\ safe' = safe
        /\ members' = members /\ epoch' = epoch /\ orders' = orders
    BY DEF FilesOK
  <2> QED BY <1>2, <2>1 DEF ClearingFile
<1> QED BY <1>1, <1>3

\* A file that was right stays right.
LEMMA ClearingFileStays ==
  ASSUME ChainTypes, ChainTypes', Grows, NEW m \in StateFile, ClearingFile(m),
         \A i \in DOMAIN m.treasuries : m.treasuries[i].safe \notin Known(file'["order"])
  PROVE  ClearingFile(m)'
<1>1. \A i \in DOMAIN m.treasuries :
        /\ m.treasuries[i].safe \in 0 .. MaxSafes /\ m.treasuries[i].safe \in Nat
        /\ m.treasuries[i].safe <= made'
  <2> TAKE i \in DOMAIN m.treasuries
  <2>1. m.treasuries[i].safe \in SafeIds /\ m.treasuries[i].safe <= made
    BY FileFields DEF ClearingFile
  <2>2. m.treasuries[i].safe \in 1 .. MaxSafes /\ MaxSafes \in Nat
    BY <2>1, RehearsalAssumption DEF SafeIds, RehearsalAssumption
  <2>3. made \in Nat /\ made' \in Nat /\ made <= made'
    BY <2>2 DEF Grows, ChainTypes
  <2>4. m.treasuries[i].safe \in 0 .. MaxSafes /\ m.treasuries[i].safe \in Nat
    BY <2>2
  <2> QED BY <2>1, <2>3, <2>4
<1>2. \A i \in DOMAIN m.treasuries : safe'[m.treasuries[i].safe] = Features
  BY <1>1, FeaturesStay DEF ClearingFile
<1>3. m.sealed => /\ members' = OrdersOf(m) /\ epoch'["fixed"] = "Sealed"
                  /\ \A o \in members' : orders'[o] = "Sealed"
  BY DEF ClearingFile, Grows, ChainTypes
<1>4. /\ Len(m.treasuries) <= N
      /\ \A i \in DOMAIN m.treasuries :
           m.treasuries[i].order # NoOrder => m.treasuries[i].order[1] = m.treasuries[i].safe
      /\ \A i, j \in DOMAIN m.treasuries : m.treasuries[i].safe = m.treasuries[j].safe => i = j
      /\ m.sealed => Len(m.treasuries) = N /\ Unordered(m) = {}
  BY DEF ClearingFile
<1> QED BY <1>1, <1>2, <1>3, <1>4 DEF ClearingFile

LEMMA OrderFileStays ==
  ASSUME ChainTypes, ChainTypes', Grows, NEW m \in StateFile, OrderFile(m)
  PROVE  OrderFile(m)'
<1>1. ASSUME NEW i \in DOMAIN m.treasuries PROVE m.treasuries[i].safe <= made'
  <2>1. m.treasuries[i].safe \in SafeIds /\ m.treasuries[i].safe <= made
    BY FileFields DEF OrderFile
  <2> QED BY <2>1, RehearsalAssumption DEF Grows, ChainTypes, SafeIds, RehearsalAssumption
<1> QED BY <1>1 DEF OrderFile

LEMMA BackedStays ==
  ASSUME ChainTypes, ChainTypes', Grows, Backed
  PROVE  Backed'
<1>1. PICK s \in 1 .. made : "shielded" \in safe[s]
  BY DEF Backed
<1>2. s \in 0 .. MaxSafes /\ s \in 1 .. made'
  BY RehearsalAssumption DEF Grows, ChainTypes, RehearsalAssumption
<1> QED BY <1>1, <1>2 DEF Grows, Backed

\* So does a pending call, while crashes only add up.
LEMMA CallStays ==
  ASSUME ChainTypes, ChainTypes', Grows, NEW t \in Call, CallOK(t),
         Known(file["order"]) \subseteq Known(file'["order"]),
         Paid \in Nat, Paid' \in Nat, Paid <= Paid'
  PROVE  CallOK(t)'
<1>1. ASSUME t.safe \in 1 .. made PROVE t.safe \in 1 .. made' /\ t.safe \in 0 .. MaxSafes
  BY <1>1, CallFields DEF Grows, ChainTypes
<1>2. ASSUME t.op = "submit"
      PROVE  /\ t.by = "clearing" => safe'[t.safe] = Features
             /\ t.by = "order" => t.safe \in Known(file'["order"]) /\ Backed'
             /\ t.order[2] <= Paid' /\ (~t.awaited => t.order[2] < Paid')
  <2>1. t.by = "clearing" => safe'[t.safe] = Features
    BY <1>2, CallFields, FeaturesStay DEF CallOK
  <2>2. t.by = "order" => t.safe \in Known(file'["order"]) /\ Backed'
    BY <1>2, BackedStays DEF CallOK
  <2>3. t.order[2] \in Nat
    BY <1>2, OrderParts, RehearsalAssumption DEF CallOK
  <2>4. t.order[2] <= Paid' /\ (~t.awaited => t.order[2] < Paid')
    BY <1>2, <2>3 DEF CallOK
  <2> QED BY <2>1, <2>2, <2>4
<1>3. t.op = "activate" =>
        t.order \in Orders /\ t.order[1] = t.safe /\ orders'[t.order] # "None"
  BY DEF CallOK, Grows
<1>4. t.op = "submit" => t.order \in Orders /\ t.order[1] = t.safe
  BY DEF CallOK
<1>5. t.op = "seal" => t.by = "clearing"
  BY DEF CallOK
<1> QED BY <1>1, <1>2, <1>3, <1>4, <1>5 DEF CallOK

\* What is unbacked stays explained, unless a submission adds to it.
LEMMA ExplainedStays ==
  ASSUME ChainTypes, ChainTypes', Grows, UnbackedIsExplained,
         Known(file["order"]) \subseteq Known(file'["order"]),
         \A o \in Orders : orders[o] = "None" /\ orders'[o] # "None" /\ "shielded" \notin safe'[o[1]] =>
           o[1] \in Known(file'["order"]) /\ Backed' /\ orders'[o] = "Submitted",
         \A o \in Orders : orders[o] = "Submitted" /\ "shielded" \notin safe[o[1]] => orders'[o] = orders[o]
  PROVE  UnbackedIsExplained'
<1> SUFFICES ASSUME NEW o \in Orders, orders'[o] # "None", "shielded" \notin safe'[o[1]]
             PROVE  o[1] \in Known(file'["order"]) /\ Backed' /\ orders'[o] = "Submitted"
  BY DEF UnbackedIsExplained, Backed
<1>1. CASE orders[o] = "None"
  BY <1>1
<1>2. CASE orders[o] # "None"
  <2>1. o[1] \in 0 .. MaxSafes
    BY OrderParts, RehearsalAssumption DEF SafeIds, RehearsalAssumption
  <2>2. "shielded" \notin safe[o[1]]
    BY <2>1 DEF Grows
  <2>3. o[1] \in Known(file["order"]) /\ Backed /\ orders[o] = "Submitted"
    BY <1>2, <2>2 DEF UnbackedIsExplained, Backed
  <2> QED BY <2>2, <2>3, BackedStays
<1> QED BY <1>1, <1>2

-----------------------------------------------------------------------------
(* What a call that goes through does to the chain. *)

\* An order's status moves forward, one call at a time.
OrdersMove(t) ==
  \A o \in Orders :
    \/ orders'[o] = orders[o]
    \/ t.op = "submit" /\ o = t.order /\ orders[o] = "None" /\ orders'[o] = "Submitted"
    \/ t.op = "activate" /\ o = t.order /\ orders[o] = "Submitted" /\ "shielded" \in safe[o[1]]
    \/ t.op = "seal" /\ orders[o] = "Authorised"

NoncesMove(t) ==
  \A s \in SafeIds :
    \/ nonce'[s] = nonce[s]
    \/ t.op = "submit" /\ s = t.safe /\ nonce'[s] = t.order[2] + 1

\* Sealing, by whomever.
LEMMA SealEffect ==
  ASSUME ChainTypes, ChainOK, NEW set \in SUBSET Orders, epoch["fixed"] = "Open",
         \A o \in set : orders[o] = "Authorised", SealWith(set),
         UNCHANGED <<safeVars, published, calm, expired, mishaps>>
  PROVE  /\ ChainTypes' /\ ChainOK' /\ Grows
         /\ \A o \in Orders : orders'[o] = orders[o] \/ (orders[o] = "Authorised" /\ orders'[o] = "Sealed")
<1>1. \A o \in Orders : orders'[o] = IF o \in set THEN "Sealed" ELSE orders[o]
  BY DEF SealWith
<1>2. orders' \in [Orders -> OrderStatus]
  BY <1>1 DEF SealWith, ChainTypes, OrderStatus
<1>3. /\ epoch' \in [{"fixed", "hour"} -> {"None", "Open", "Sealed"}]
      /\ epoch'.fixed \in {"None", "Open", "Sealed"} /\ epoch'.hour \in {"None", "Open"}
  BY DEF SealWith, ChainOK, ChainTypes
<1>4. members' \subseteq Orders /\ stage' \in 0 .. 7
  BY DEF SealWith
<1>5. ChainTypes'
  BY <1>2, <1>3, <1>4 DEF ChainTypes, safeVars
<1>6. ChainOK'
  BY <1>1, <1>3 DEF ChainOK, safeVars
<1>7. Grows
  BY <1>1 DEF Grows, safeVars, ChainTypes
<1> QED BY <1>1, <1>5, <1>6, <1>7

\* A Safe gets a feature.
LEMMA GainEffect ==
  ASSUME ChainTypes, ChainOK, NEW t \in Call, CallOK(t), Valid(t), t.op \in Installing,
         Effect(t), UNCHANGED <<calm, expired, mishaps>>
  PROVE  /\ ChainTypes' /\ ChainOK' /\ Grows /\ OrdersMove(t) /\ NoncesMove(t) /\ made' = made
         /\ t.op = "shield" => safe'[t.safe] = Features
<1>1. t.safe \in 1 .. made /\ t.safe \in 0 .. MaxSafes /\ t.safe # 0
  BY GainsListed, CallFields DEF CallOK, ChainTypes
<1>2. /\ safe' = [safe EXCEPT ![t.safe] = safe[t.safe] \cup {Gains[t.op]}]
      /\ UNCHANGED <<made, nonce, bookVars>>
  BY GainsListed DEF Effect, Installing
<1>3. Gains[t.op] \in Features
  BY GainsListed
<1>4. safe' \in [0 .. MaxSafes -> SUBSET Features] /\ safe'[0] = {}
  BY <1>1, <1>2, <1>3 DEF ChainTypes
<1>5. \A s \in 0 .. MaxSafes : safe[s] \subseteq safe'[s] /\ (s # t.safe => safe'[s] = safe[s])
  BY <1>1, <1>2 DEF ChainTypes
<1>6. ChainTypes'
  BY <1>2, <1>4 DEF ChainTypes, bookVars
<1>7. \A s \in SafeIds : safe'[s] # {} => s <= made'
  <2> TAKE s \in SafeIds
  <2>1. s \in 0 .. MaxSafes
    BY RehearsalAssumption DEF SafeIds, RehearsalAssumption
  <2> QED BY <1>1, <1>2, <1>5, <2>1 DEF ChainOK
<1>8. ChainOK'
  BY <1>2, <1>7 DEF ChainOK, bookVars
<1>9. Grows
  BY <1>2, <1>5 DEF Grows, bookVars, ChainTypes
<1>10. t.op = "shield" => safe'[t.safe] = Features
  <2> SUFFICES ASSUME t.op = "shield" PROVE safe'[t.safe] = Features
    OBVIOUS
  <2>1. Installed \cup {"funds"} \subseteq safe[t.safe]
    BY DEF Valid
  <2>2. safe'[t.safe] = safe[t.safe] \cup {"shielded"}
    BY <1>1, <1>2, GainsListed DEF ChainTypes
  <2>3. safe'[t.safe] \subseteq Features
    BY <1>1, <1>4
  <2> QED BY <2>1, <2>2, <2>3 DEF Features
<1> QED BY <1>2, <1>6, <1>8, <1>9, <1>10 DEF OrdersMove, NoncesMove, bookVars

\* A submission takes the next nonce of its Safe, so its order is new.
LEMMA SubmitEffect ==
  ASSUME ChainTypes, ChainOK, NEW t \in Call, CallOK(t), Valid(t), t.op = "submit",
         Effect(t), UNCHANGED <<calm, expired, mishaps>>
  PROVE  /\ ChainTypes' /\ ChainOK' /\ Grows /\ OrdersMove(t) /\ NoncesMove(t) /\ made' = made
         /\ orders[t.order] = "None" /\ orders'[t.order] = "Submitted"
         /\ Installed \subseteq safe'[t.safe]
<1> DEFINE n == t.order[2]
<1>1. /\ t.order \in Orders /\ t.order[1] = t.safe /\ t.safe \in SafeIds /\ t.safe \in 0 .. MaxSafes
      /\ n \in 0 .. MaxMishaps + MaxRefused /\ n \in Nat /\ MaxMishaps \in Nat /\ MaxRefused \in Nat
  BY OrderParts, CallFields, RehearsalAssumption DEF CallOK, SafeIds, RehearsalAssumption
<1>2. nonce[t.safe] = n /\ Installed \subseteq safe[t.safe]
  BY DEF Valid
<1>3. /\ orders' = [orders EXCEPT ![t.order] = "Submitted"]
      /\ nonce' = [nonce EXCEPT ![t.safe] = nonce[t.safe] + 1]
      /\ UNCHANGED <<made, safe, epoch, members, stage, published>>
  BY GainsListed DEF Effect, Installing
<1>4. orders[t.order] = "None"
  <2>1. orders[t.order] # "None" => n < nonce[t.safe]
    BY <1>1 DEF ChainOK
  <2> QED BY <1>1, <1>2, <2>1
<1>5. /\ \A s \in 0 .. MaxSafes : nonce'[s] = IF s = t.safe THEN n + 1 ELSE nonce[s]
      /\ \A o \in Orders : orders'[o] = IF o = t.order THEN "Submitted" ELSE orders[o]
  BY <1>1, <1>2, <1>3 DEF ChainTypes
<1>6. nonce' \in [0 .. MaxSafes -> 0 .. MaxMishaps + MaxRefused + 1] /\ orders' \in [Orders -> OrderStatus]
  BY <1>1, <1>2, <1>3 DEF ChainTypes, OrderStatus
<1>7. ChainTypes'
  BY <1>3, <1>6 DEF ChainTypes
<1>8. \A o \in Orders : orders'[o] # "None" => o[2] < nonce'[o[1]]
  <2> TAKE o \in Orders
  <2>1. o[1] \in 0 .. MaxSafes /\ o[2] \in Nat
    BY OrderParts, RehearsalAssumption DEF SafeIds, RehearsalAssumption
  <2>2. CASE o = t.order
    BY <1>1, <1>5, <2>1, <2>2
  <2>3. CASE o # t.order
    <3>1. orders'[o] = orders[o] /\ (orders[o] # "None" => o[2] < nonce[o[1]])
      BY <1>5, <2>3 DEF ChainOK
    <3> QED BY <1>1, <1>2, <1>5, <2>1, <3>1
  <2> QED BY <2>2, <2>3
<1>9. ChainOK'
  BY <1>3, <1>8 DEF ChainOK
<1>10. Grows
  BY <1>3, <1>4, <1>5 DEF Grows, ChainTypes
<1>11. NoncesMove(t)
  <2>1. \A s \in SafeIds : s \in 0 .. MaxSafes
    BY RehearsalAssumption DEF SafeIds, RehearsalAssumption
  <2> QED BY <1>5, <2>1 DEF NoncesMove
<1>12. OrdersMove(t)
  BY <1>4, <1>5 DEF OrdersMove
<1> QED BY <1>1, <1>2, <1>3, <1>4, <1>5, <1>7, <1>9, <1>10, <1>11, <1>12

\* The other calls.
LEMMA OtherEffect ==
  ASSUME ChainTypes, ChainOK, NEW t \in Call, CallOK(t), Valid(t),
         t.op \in {"open", "create", "activate", "clear", "publish"},
         Effect(t), UNCHANGED <<calm, expired, mishaps>>
  PROVE  /\ ChainTypes' /\ ChainOK' /\ Grows /\ OrdersMove(t) /\ NoncesMove(t)
         /\ made' = IF t.op = "create" THEN made + 1 ELSE made
<1>0. t.op \notin DOMAIN Gains
  BY GainsListed DEF Installing
<1>1. CASE t.op = "open"
  <2>1. epoch' = [epoch EXCEPT ![EpochOf[t.by]] = "Open"]
        /\ UNCHANGED <<safeVars, orders, members, stage, published>>
    BY <1>0, <1>1 DEF Effect
  <2>2. EpochOf[t.by] \in {"fixed", "hour"} /\ epoch[EpochOf[t.by]] = "None"
    BY <1>1, EpochsListed, CallFields DEF Valid
  <2>3. /\ epoch' \in [{"fixed", "hour"} -> {"None", "Open", "Sealed"}]
        /\ epoch'.fixed \in {"None", "Open", "Sealed"} /\ epoch'.hour \in {"None", "Open"}
        /\ epoch["fixed"] = "Sealed" => epoch'["fixed"] = "Sealed"
    BY <2>1, <2>2 DEF ChainOK, ChainTypes
  <2>4. ChainTypes'
    BY <2>1, <2>3 DEF ChainTypes, safeVars
  <2>5. ChainOK'
    BY <2>1, <2>3 DEF ChainOK, safeVars
  <2>6. Grows
    BY <2>1, <2>3 DEF Grows, safeVars, ChainTypes
  <2> QED BY <1>1, <2>1, <2>4, <2>5, <2>6 DEF OrdersMove, NoncesMove, safeVars
<1>2. CASE t.op = "create"
  <2>1. made' = made + 1 /\ UNCHANGED <<safe, nonce, bookVars>>
    BY <1>0, <1>2 DEF Effect
  <2>2. made < MaxSafes /\ made \in Nat /\ MaxSafes \in Nat
    BY <1>2, RehearsalAssumption DEF Valid, ChainTypes, RehearsalAssumption
  <2>3. ChainTypes'
    BY <2>1, <2>2 DEF ChainTypes, bookVars
  <2>4. \A s \in SafeIds : safe'[s] # {} => s <= made'
    BY <2>1, <2>2 DEF ChainOK, SafeIds
  <2>5. ChainOK'
    BY <2>1, <2>4 DEF ChainOK, bookVars
  <2>6. Grows
    BY <2>1, <2>2 DEF Grows, bookVars, ChainTypes
  <2> QED BY <1>2, <2>1, <2>3, <2>5, <2>6 DEF OrdersMove, NoncesMove, bookVars
<1>3. CASE t.op = "activate"
  <2>1. orders' = [orders EXCEPT ![t.order] = "Authorised"]
        /\ UNCHANGED <<safeVars, epoch, members, stage, published>>
    BY <1>0, <1>3 DEF Effect
  <2>2. t.order \in Orders /\ orders[t.order] = "Submitted" /\ "shielded" \in safe[t.order[1]]
    BY <1>3 DEF Valid, CallOK
  <2>3. orders' \in [Orders -> OrderStatus]
    BY <2>1, <2>2 DEF ChainTypes, OrderStatus
  <2>4. \A o \in Orders : orders'[o] = IF o = t.order THEN "Authorised" ELSE orders[o]
    BY <2>1 DEF ChainTypes
  <2>5. ChainTypes'
    BY <2>1, <2>3 DEF ChainTypes, safeVars
  <2>6. ChainOK'
    BY <2>1, <2>2, <2>4 DEF ChainOK, safeVars
  <2>7. Grows
    BY <2>1, <2>2, <2>4 DEF Grows, safeVars, ChainTypes
  <2> QED BY <1>3, <2>1, <2>2, <2>4, <2>5, <2>6, <2>7 DEF OrdersMove, NoncesMove, safeVars
<1>4. CASE t.op \in {"clear", "publish"}
  <2>1. UNCHANGED <<safeVars, epoch, orders, members>>
    BY <1>0, <1>4 DEF Effect
  <2>2. stage' \in 0 .. 7 /\ published' \in BOOLEAN
    <3>1. CASE t.op = "clear"
      <4>1. stage \in 1 .. 6 /\ stage' = stage + 1 /\ published' = published
        BY <1>0, <3>1 DEF Effect, Valid
      <4> QED BY <4>1 DEF ChainTypes
    <3>2. CASE t.op = "publish"
      BY <1>0, <3>2 DEF Effect, ChainTypes
    <3> QED BY <1>4, <3>1, <3>2
  <2>3. ChainTypes'
    BY <2>1, <2>2 DEF ChainTypes, safeVars
  <2>4. ChainOK'
    BY <2>1 DEF ChainOK, safeVars
  <2>5. Grows
    BY <2>1 DEF Grows, safeVars, ChainTypes
  <2> QED BY <1>4, <2>1, <2>3, <2>4, <2>5 DEF OrdersMove, NoncesMove, safeVars
<1> QED BY <1>1, <1>2, <1>3, <1>4

\* All of them together.
LEMMA ChainMoves ==
  ASSUME ChainTypes, ChainOK, NEW t \in Call, CallOK(t), Valid(t), Effect(t),
         UNCHANGED <<calm, expired, mishaps>>
  PROVE  /\ ChainTypes' /\ ChainOK' /\ Grows /\ OrdersMove(t) /\ NoncesMove(t)
         /\ made' = IF t.op = "create" THEN made + 1 ELSE made
<1>1. t.op \in Installing \cup {"submit", "seal"} \cup {"open", "create", "activate", "clear", "publish"}
  BY CallFields DEF Steps, Installing
<1>2. CASE t.op \in Installing
  BY <1>2, GainEffect DEF Installing
<1>3. CASE t.op = "submit"
  BY <1>3, SubmitEffect
<1>4. CASE t.op = "seal"
  <2>1. SealWith(t.set) /\ UNCHANGED <<safeVars, published>>
    BY <1>4, GainsListed DEF Effect, Installing
  <2>2. t.set \in SUBSET Orders /\ epoch["fixed"] = "Open" /\ \A o \in t.set : orders[o] = "Authorised"
    BY <1>4, CallFields DEF Valid
  <2>3. /\ ChainTypes' /\ ChainOK' /\ Grows
        /\ \A o \in Orders : orders'[o] = orders[o] \/ (orders[o] = "Authorised" /\ orders'[o] = "Sealed")
    BY <2>1, <2>2, SealEffect
  <2> QED BY <1>4, <2>1, <2>3 DEF OrdersMove, NoncesMove, safeVars
<1>5. CASE t.op \in {"open", "create", "activate", "clear", "publish"}
  BY <1>5, OtherEffect
<1> QED BY <1>1, <1>2, <1>3, <1>4, <1>5

-----------------------------------------------------------------------------
(* A stage of a script. *)

CallOf(b, step, s, o) ==
  [by |-> b, op |-> step, safe |-> s, order |-> o, awaited |-> TRUE,
   set |-> IF step = "seal" THEN OrdersOf(mem[b]) ELSE {}, stage |-> stage]

\* What every stage does, and the three ways it goes on.
Begins(b, step, s, o) ==
  /\ pc[b] = step /\ ~Waits(b)
  /\ cur' = [cur EXCEPT ![b] = [safe |-> s, order |-> o]]
  /\ UNCHANGED <<chainVars, file, mem, mishaps>>

Skips(b) == Go(b, After(b)) /\ UNCHANGED pending
Sends(b, step, s, o) ==
  /\ Valid(CallOf(b, step, s, o))
  /\ pending' = Append(pending, CallOf(b, step, s, o)) /\ UNCHANGED pc
Stops(b) == Go(b, "off") /\ UNCHANGED pending

\* While a script runs and waits for nothing, nobody waits.
LEMMA NoneAwaited ==
  ASSUME TypeOK, OneRuns, PendingOK, NEW b \in Scripts, Busy(b), ~Waits(b)
  PROVE  \A i \in DOMAIN pending : pending[i] \in Call /\ pending[i].awaited = FALSE
<1> TAKE i \in DOMAIN pending
<1>1. pending[i] \in Call
  BY DEF TypeOK
<1>2. ASSUME pending[i].awaited PROVE FALSE
  <2>1. pc[pending[i].by] = pending[i].op /\ pending[i].op \in Steps /\ pending[i].by \in Scripts
    BY <1>1, <1>2, CallFields DEF PendingOK, AwaitedOK
  <2>2. Busy(pending[i].by)
    BY <2>1 DEF Busy, Steps
  <2>3. pending[i].by = b
    BY <2>1, <2>2 DEF OneRuns
  <2> QED BY <1>2, <2>3 DEF Waits
<1> QED BY <1>1, <1>2, CallFields

\* The call a stage sends.
Describes(t, b, step, s, o) ==
  /\ t \in Call /\ t.by = b /\ t.op = step /\ t.safe = s /\ t.order = o /\ t.awaited = TRUE
  /\ step = "seal" => t.set = OrdersOf(mem[b])

LEMMA CallOfTyped ==
  ASSUME TypeOK, NEW b \in Scripts, NEW step \in Steps, NEW s \in 0 .. MaxSafes,
         NEW o \in Orders \cup {NoOrder}, NEW t, t = CallOf(b, step, s, o)
  PROVE  Describes(t, b, step, s, o)
<1>1. OrdersOf(mem[b]) \subseteq Orders
  <2>1. mem[b] \in StateFile
    BY DEF TypeOK
  <2> QED BY <2>1, FileFields DEF OrdersOf
<1>2. stage \in 0 .. 7
  BY DEF TypeOK
<1> DEFINE S == IF step = "seal" THEN OrdersOf(mem[b]) ELSE {}
<1>3. S \in SUBSET Orders
  BY <1>1
<1> HIDE DEF S
<1>4. CallOf(b, step, s, o) = [by |-> b, op |-> step, safe |-> s, order |-> o, awaited |-> TRUE,
                               set |-> S, stage |-> stage]
  BY DEF CallOf, S
<1>5. CallOf(b, step, s, o) \in Call
  BY <1>2, <1>3, <1>4 DEF Call
<1> QED BY <1>4, <1>5 DEF S, Describes

\* Where a script is does not change for the others.
LEMMA OtherScriptStays ==
  ASSUME UNCHANGED <<chainVars, file, mem, mishaps>>
  PROVE  /\ (ClearingAt /\ pc'["clearing"] = pc["clearing"] /\ cur'["clearing"] = cur["clearing"])
              => ClearingAt'
         /\ (OrderAt /\ pc'["order"] = pc["order"] /\ cur'["order"] = cur["order"]) => OrderAt'
<1>1. made' = made /\ safe' = safe /\ file' = file /\ mem' = mem /\ mishaps' = mishaps
  BY DEF chainVars, safeVars
<1> QED BY <1>1 DEF ClearingAt, OrderAt, NextTreasury, Known, Backed, OrderSafe

\* A stage that sends nothing, to a place its script may be at.
LEMMA StageMoves ==
  ASSUME IInv, NEW b \in Scripts, NEW step \in Steps \ {"activate"}, NEW s \in 0 .. MaxSafes,
         NEW o \in Orders \cup {NoOrder}, Begins(b, step, s, o),
         NEW p \in (Steps \cup {"off", "done"}) \ {"activate"},
         pc' = [pc EXCEPT ![b] = p], UNCHANGED pending,
         b = "clearing" => ClearingAt', b = "order" => OrderAt'
  PROVE  IInv'
<1>1. /\ TypeOK /\ ChainOK /\ FilesOK /\ OneRuns /\ ActivatingOK /\ ClearingAt /\ OrderAt
      /\ PendingOK /\ NoncesPaid /\ UnbackedIsExplained
  BY DEF IInv
<1>2. /\ pc[b] = step /\ ~Waits(b) /\ cur' = [cur EXCEPT ![b] = [safe |-> s, order |-> o]]
      /\ UNCHANGED <<chainVars, file, mem, mishaps>> /\ Paid' = Paid
      /\ UNCHANGED <<made, safe, nonce, epoch, orders, members, stage, published, calm, expired>>
  BY DEF Begins, chainVars, safeVars, bookVars, Paid
<1>3. Busy(b) /\ step # "save"
  BY <1>2 DEF Busy, Steps
<1>4. /\ pc'[b] = p
      /\ \A c \in Scripts \ {b} : pc'[c] = pc[c] /\ cur'[c] = cur[c] /\ ~Busy(c)
  BY <1>1, <1>2, <1>3 DEF TypeOK, OneRuns
<1>5. TypeOK'
  <2>1. cur' \in [Scripts -> [safe : 0 .. MaxSafes, order : Orders \cup {NoOrder}]]
    BY <1>1, <1>2 DEF TypeOK
  <2>2. pc' \in [Scripts -> Steps \cup {"off", "save", "done"}]
    BY <1>1 DEF TypeOK
  <2> QED BY <1>1, <1>2, <2>1, <2>2 DEF TypeOK
<1>6. ChainOK' /\ UnbackedIsExplained'
  BY <1>1, <1>2 DEF ChainOK, UnbackedIsExplained, Known
<1>7. FilesOK'
  <2>1. \A c \in Scripts : Busy(c)' /\ pc'[c] # "save" => mem[c] = file[c]
    BY <1>1, <1>2, <1>3, <1>4 DEF FilesOK, Busy
  <2>2. pc'["clearing"] # "save" /\ pc'["order"] # "save"
    BY <1>3, <1>4, EpochsListed DEF Busy, Steps
  <2>3. ClearingFile(file["clearing"])' /\ OrderFile(file["order"])'
    BY <1>1, <1>2, FilesUnmoved
  <2>4. mem' = mem /\ file' = file
    BY <1>2
  <2> QED BY <2>1, <2>2, <2>3, <2>4 DEF FilesOK
<1>8. OneRuns'
  BY <1>1, <1>4 DEF OneRuns, Busy
<1>9. \A c \in Scripts : pc'[c] # "activate" /\ pc[c] # "activate" /\ pc[c] # "save"
  BY <1>2, <1>3, <1>4 DEF Busy
<1>10. ActivatingOK'
  BY <1>9 DEF ActivatingOK
<1>11. ClearingAt' /\ OrderAt'
  BY <1>1, <1>2, <1>4, OtherScriptStays, EpochsListed
<1>12. PendingOK'
  <2>1. \A i \in DOMAIN pending : CallOK(pending[i]) /\ pending[i].awaited = FALSE
    BY <1>1, <1>2, <1>3, NoneAwaited DEF PendingOK
  <2> QED BY <1>2, <2>1 DEF PendingOK, CallOK, Known, Backed
<1>13. NoncesPaid'
  <2>1. ASSUME NEW x \in SafeIds, Past(x) PROVE Past(x)'
    <3>1. CASE x \in Ordered(file["clearing"])
      BY <1>2, <3>1 DEF Past, Ordered, Unordered
    <3>2. CASE pc["order"] = "done" /\ x \in Known(file["order"])
      BY <1>2, <1>3, <1>4, <3>2, EpochsListed DEF Past, Known, Busy
    <3> QED BY <1>9, <2>1, <3>1, <3>2, EpochsListed DEF Past
  <2> QED BY <1>1, <1>2, <2>1 DEF NoncesPaid
<1> QED BY <1>5, <1>6, <1>7, <1>8, <1>10, <1>11, <1>12, <1>13 DEF IInv

\* A sequence with one more element.
LEMMA AppendHolds ==
  ASSUME NEW S, NEW q \in Seq(S), NEW z \in S
  PROVE  /\ Append(q, z) \in Seq(S)
         /\ DOMAIN Append(q, z) = 1 .. Len(q) + 1 /\ DOMAIN q = 1 .. Len(q) /\ Len(q) \in Nat
         /\ Append(q, z)[Len(q) + 1] = z /\ \A i \in 1 .. Len(q) : Append(q, z)[i] = q[i]
OBVIOUS

\* The call that a stage sends may wait like any other.
LEMMA StageSends ==
  ASSUME IInv, NEW b \in Scripts, NEW step \in Steps, NEW s \in 0 .. MaxSafes,
         NEW o \in Orders \cup {NoOrder}, Begins(b, step, s, o), Sends(b, step, s, o),
         step \in Installing \cup {"submit", "activate"} => s \in 1 .. made,
         b = "clearing" /\ step \in Installing => s = cur[b].safe,
         step = "activate" => s = cur[b].safe /\ o = cur[b].order /\ "shielded" \in safe[s],
         step = "submit" =>
           /\ o \in Orders /\ o[1] = s /\ o[2] <= Paid
           /\ s = IF b = "clearing" THEN NextTreasury ELSE OrderSafe
           /\ b = "clearing" => safe[s] = Features
           /\ b = "order" => s \in Known(file["order"]) /\ Backed,
         step = "seal" => b = "clearing",
         step = "create" /\ b = "order" => file["order"].treasuries = <<>>
  PROVE  IInv'
<1>1. /\ TypeOK /\ ChainOK /\ FilesOK /\ OneRuns /\ ActivatingOK /\ ClearingAt /\ OrderAt
      /\ PendingOK /\ NoncesPaid /\ UnbackedIsExplained
  BY DEF IInv
<1>2. /\ pc[b] = step /\ ~Waits(b) /\ cur' = [cur EXCEPT ![b] = [safe |-> s, order |-> o]]
      /\ UNCHANGED <<chainVars, file, mem, mishaps>> /\ UNCHANGED pc /\ Paid' = Paid
      /\ UNCHANGED <<made, safe, nonce, epoch, orders, members, stage, published, calm, expired>>
  BY DEF Begins, Sends, chainVars, safeVars, bookVars, Paid
<1>3. Busy(b) /\ step # "save"
  BY <1>2 DEF Busy, Steps
<1>4. /\ cur'[b] = [safe |-> s, order |-> o]
      /\ \A c \in Scripts \ {b} : cur'[c] = cur[c] /\ ~Busy(c)
  BY <1>1, <1>2, <1>3 DEF TypeOK, OneRuns
<1>5. PICK t \in Call :
        /\ t.by = b /\ t.op = step /\ t.safe = s /\ t.order = o /\ t.awaited = TRUE
        /\ step = "seal" => t.set = OrdersOf(mem[b])
        /\ pending' = Append(pending, t)
  <2>1. PICK t : t = CallOf(b, step, s, o)
    OBVIOUS
  <2>2. /\ t \in Call /\ t.by = b /\ t.op = step /\ t.safe = s /\ t.order = o /\ t.awaited = TRUE
        /\ step = "seal" => t.set = OrdersOf(mem[b])
    <3>1. Describes(t, b, step, s, o)
      BY <1>1, <2>1, CallOfTyped, Zenon
    <3> QED BY <3>1 DEF Describes
  <2>3. pending' = Append(pending, t)
    BY <2>1 DEF Sends
  <2> QED BY <2>2, <2>3
<1>6. /\ pending' \in Seq(Call) /\ DOMAIN pending' = 1 .. Len(pending) + 1
      /\ DOMAIN pending = 1 .. Len(pending) /\ Len(pending) \in Nat
      /\ pending'[Len(pending) + 1] = t
      /\ \A i \in DOMAIN pending : pending'[i] = pending[i]
  <2>1. pending \in Seq(Call)
    BY <1>1 DEF TypeOK
  <2> QED BY <1>5, <2>1, AppendHolds
<1>7. \A i \in DOMAIN pending' : i \in DOMAIN pending \/ i = Len(pending) + 1
  BY <1>6
<1>8. \A i \in DOMAIN pending : CallOK(pending[i]) /\ pending[i].awaited = FALSE
  BY <1>1, <1>2, <1>3, NoneAwaited DEF PendingOK
<1>9. TypeOK'
  <2>1. cur' \in [Scripts -> [safe : 0 .. MaxSafes, order : Orders \cup {NoOrder}]]
    BY <1>1, <1>2 DEF TypeOK
  <2> QED BY <1>1, <1>2, <1>6, <2>1 DEF TypeOK
<1>10. ChainOK' /\ UnbackedIsExplained'
  BY <1>1, <1>2 DEF ChainOK, UnbackedIsExplained, Known
<1>11. FilesOK'
  <2>1. \A c \in Scripts : Busy(c)' /\ pc'[c] # "save" => mem[c] = file[c]
    BY <1>1, <1>2 DEF FilesOK, Busy
  <2>2. pc'["clearing"] # "save" /\ pc'["order"] # "save"
    BY <1>2, <1>3, <1>4, EpochsListed DEF Busy
  <2>3. ClearingFile(file["clearing"])' /\ OrderFile(file["order"])'
    BY <1>1, <1>2, FilesUnmoved
  <2>4. \A c \in Scripts : Busy(c)' /\ pc'[c] # "save" => mem'[c] = file'[c]
    BY <1>2, <2>1
  <2> QED BY <2>2, <2>3, <2>4 DEF FilesOK
<1>12. OneRuns'
  <2>1. \A i, j \in DOMAIN pending' : pending'[i].awaited /\ pending'[j].awaited => i = j
    BY <1>6, <1>7, <1>8
  <2> QED BY <1>1, <1>2, <2>1 DEF OneRuns, Busy
<1>13. \A c \in Scripts : pc[c] = "activate" =>
         c = b /\ cur'[c].safe = cur[c].safe /\ cur'[c].order = cur[c].order
  BY <1>2, <1>4 DEF Busy
<1>14. ActivatingOK'
  <2> SUFFICES ASSUME NEW c \in Scripts, pc'[c] = "activate"
               PROVE  LET x == cur'[c].order IN
                      /\ x \in Orders /\ x[1] = cur'[c].safe /\ cur'[c].safe <= made'
                      /\ orders'[x] = "Submitted" /\ Installed \subseteq safe'[x[1]]
                      /\ \A i \in DOMAIN pending' :
                           pending'[i].op = "activate" /\ pending'[i].order = x => pending'[i].awaited
    BY DEF ActivatingOK
  <2>1. pc[c] = "activate" /\ cur'[c].safe = cur[c].safe /\ cur'[c].order = cur[c].order
    BY <1>2, <1>13
  <2>2. \A i \in DOMAIN pending' :
          pending'[i].op = "activate" /\ pending'[i].order = cur[c].order => pending'[i].awaited
    BY <1>1, <1>5, <1>6, <1>7, <2>1 DEF ActivatingOK
  <2> QED BY <1>1, <1>2, <2>1, <2>2 DEF ActivatingOK
<1>15. ClearingAt' /\ OrderAt'
  <2>1. CASE b = "clearing"
    <3>1. ClearingAt'
      BY <1>1, <1>2, <1>4, <2>1 DEF ClearingAt, NextTreasury, Known, Installing
    <3>2. OrderAt'
      BY <1>1, <1>2, <1>4, <2>1, OtherScriptStays, EpochsListed
    <3> QED BY <3>1, <3>2
  <2>2. CASE b = "order"
    <3>1. OrderAt'
      BY <1>1, <1>2, <1>4, <2>2 DEF OrderAt, OrderSafe, Backed
    <3>2. ClearingAt'
      BY <1>1, <1>2, <1>4, <2>2, OtherScriptStays, EpochsListed
    <3> QED BY <3>1, <3>2
  <2> QED BY <2>1, <2>2, EpochsListed
<1>16. CallOK(t)'
  <2>1. step = "activate" => o \in Orders /\ o[1] = s /\ orders[o] # "None"
    BY <1>1, <1>2 DEF ActivatingOK
  <2>2. (t.op \in DOMAIN Gains \cup {"submit", "activate"} => t.safe \in 1 .. made')
    BY <1>2, <1>5, GainsListed
  <2>3. t.op = "submit" =>
          /\ t.order \in Orders /\ t.order[1] = t.safe
          /\ t.by = "clearing" => safe'[t.safe] = Features
          /\ t.by = "order" => t.safe \in Known(file'["order"]) /\ Backed'
          /\ t.order[2] <= Paid'
    BY <1>2, <1>5 DEF Backed
  <2> QED BY <1>2, <1>5, <2>1, <2>2, <2>3 DEF CallOK
<1>17. AwaitedOK(t)'
  <2>1. t.safe = cur'[t.by].safe /\ t.order = cur'[t.by].order /\ pc'[t.by] = t.op
    BY <1>2, <1>4, <1>5
  <2>2. t.op = "submit" => t.safe = IF t.by = "clearing" THEN NextTreasury' ELSE OrderSafe'
    BY <1>2, <1>5 DEF NextTreasury, OrderSafe
  <2>3. t.op = "seal" => t.set = OrdersOf(mem'["clearing"])
    BY <1>2, <1>5
  <2>4. t.op = "activate" => "shielded" \in safe'[t.safe]
    BY <1>2, <1>5
  <2> QED BY <1>2, <1>5, <2>1, <2>2, <2>3, <2>4 DEF AwaitedOK
<1>18. PendingOK'
  <2> SUFFICES ASSUME NEW i \in DOMAIN pending'
               PROVE  (CallOK(pending[i]) /\ (pending[i].awaited => AwaitedOK(pending[i])))'
    BY DEF PendingOK
  <2>1. CASE i = Len(pending) + 1
    <3>1. pending'[i] = t
      BY <1>6, <2>1
    <3> QED BY <1>16, <1>17, <3>1
  <2>2. CASE i \in DOMAIN pending
    <3>1. PICK u : u = pending[i]
      OBVIOUS
    <3>2. CallOK(u) /\ u.awaited = FALSE /\ pending'[i] = u
      BY <1>6, <1>8, <2>2, <3>1
    <3>3. CallOK(u)'
      BY <1>2, <3>2 DEF CallOK, Known, Backed
    <3> QED BY <3>2, <3>3
  <2> QED BY <1>7, <2>1, <2>2
<1>19. NoncesPaid'
  <2>1. ASSUME NEW x \in SafeIds, Past(x) PROVE Past(x)'
    <3>1. CASE \E c \in Scripts : pc[c] = "activate" /\ cur[c].safe = x
      BY <1>2, <1>13, <3>1 DEF Past
    <3>2. CASE pc["clearing"] = "save" /\ x \in Ordered(mem["clearing"])
      BY <1>2, <3>2 DEF Past, Ordered, Unordered
    <3>3. CASE x \in Ordered(file["clearing"])
      BY <1>2, <3>3 DEF Past, Ordered, Unordered
    <3>4. CASE pc["order"] = "done" /\ x \in Known(file["order"])
      BY <1>2, <3>4 DEF Past, Known
    <3> QED BY <2>1, <3>1, <3>2, <3>3, <3>4 DEF Past
  <2> QED BY <1>1, <1>2, <2>1 DEF NoncesPaid
<1> QED BY <1>9, <1>10, <1>11, <1>12, <1>14, <1>15, <1>18, <1>19 DEF IInv

-----------------------------------------------------------------------------
(* The stages of prove-order. *)

\* A stage whose call cannot be sent ends the script, wherever it was.
LEMMA StageStops ==
  ASSUME IInv, NEW b \in Scripts, NEW step \in Steps \ {"activate"}, NEW s \in 0 .. MaxSafes,
         NEW o \in Orders \cup {NoOrder}, Begins(b, step, s, o), Stops(b)
  PROVE  IInv'
<1>1. pc' = [pc EXCEPT ![b] = "off"] /\ UNCHANGED pending
  BY DEF Stops, Go
<1>2. pc'[b] = "off"
  BY <1>1 DEF IInv, TypeOK
<1>3. b = "clearing" => ClearingAt'
  BY <1>2 DEF ClearingAt
<1>4. b = "order" => OrderAt'
  BY <1>2 DEF OrderAt
<1> QED BY <1>1, <1>3, <1>4, StageMoves

\* A script under way works on what its file says.
LEMMA OrderUnderWay ==
  ASSUME IInv, pc["order"] \in Steps
  PROVE  /\ mem["order"] = file["order"] /\ mem["order"] \in StateFile /\ OrderFile(mem["order"])
         /\ \A i \in DOMAIN pending : ~Waits("order") => ~pending[i].awaited
         /\ pc["clearing"] \in {"off", "done"}
         /\ OrderSafe \in 0 .. MaxSafes
         /\ OrderSafe # 0 <=> Len(file["order"].treasuries) = 1
         /\ OrderSafe # 0 => OrderSafe \in 1 .. made /\ OrderSafe \in Known(file["order"])
         /\ OrderSafe = 0 => file["order"].treasuries = <<>>
         /\ mishaps.refused < MaxRefused
<1>0. mishaps.refused < MaxRefused
  BY DEF IInv, OrderAt, Steps
<1>1. TypeOK /\ FilesOK /\ OneRuns /\ PendingOK
  BY DEF IInv
<1>2. Busy("order") /\ pc["order"] # "save" /\ "order" \in Scripts /\ "clearing" \in Scripts
  BY DEF Busy, Steps, Scripts
<1>3. mem["order"] = file["order"] /\ mem["order"] \in StateFile /\ OrderFile(mem["order"])
  BY <1>1, <1>2 DEF FilesOK, TypeOK
<1>4. pc["clearing"] \in {"off", "done"}
  BY <1>1, <1>2 DEF OneRuns, Busy
<1>5. \A i \in DOMAIN pending : ~Waits("order") => ~pending[i].awaited
  BY <1>1, <1>2, NoneAwaited
<1> DEFINE q == mem["order"].treasuries
<1>6. q \in Seq(Treasury) /\ Len(q) <= 1 /\ DOMAIN q = 1 .. Len(q) /\ Len(q) \in Nat
      /\ \A i \in DOMAIN q : q[i].safe \in SafeIds /\ q[i].safe <= made
  BY <1>3, FileFields DEF OrderFile
<1>7. OrderSafe = IF q = <<>> THEN 0 ELSE q[1].safe
  BY DEF OrderSafe
<1> HIDE DEF q
<1>8. q = <<>> <=> Len(q) # 1
  BY <1>6
<1>9. CASE q = <<>>
  <2>1. OrderSafe = 0 /\ 0 \in 0 .. MaxSafes
    BY <1>7, <1>9, RehearsalAssumption DEF RehearsalAssumption
  <2> QED BY <1>0, <1>3, <1>4, <1>5, <1>8, <1>9, <2>1 DEF q
<1>10. CASE q # <<>>
  <2>1. 1 \in DOMAIN q /\ Len(q) = 1
    BY <1>6, <1>8, <1>10
  <2>2. OrderSafe = q[1].safe /\ q[1].safe \in SafeIds /\ q[1].safe <= made
    BY <1>6, <1>7, <1>10, <2>1
  <2>3. OrderSafe \in 0 .. MaxSafes /\ OrderSafe # 0 /\ OrderSafe \in 1 .. made
    BY <1>1, <2>2, RehearsalAssumption DEF SafeIds, RehearsalAssumption, TypeOK
  <2>4. OrderSafe \in Known(mem["order"])
    BY <2>1, <2>2 DEF Known, q
  <2> QED BY <1>0, <1>3, <1>4, <1>5, <2>1, <2>3, <2>4 DEF q
<1> QED BY <1>9, <1>10

\* Its first five steps: a Safe, and what it has.
LEMMA OrderCreates ==
  ASSUME IInv, OrderCreate
  PROVE  IInv'
<1>1. /\ Begins("order", "create", OrderSafe, NoOrder)
      /\ \/ OrderSafe # 0 /\ Skips("order")
         \/ OrderSafe = 0 /\ Sends("order", "create", OrderSafe, NoOrder)
         \/ Stops("order")
  BY DEF OrderCreate, OrderStage, Stage, Begins, Skips, Sends, Stops, CallOf
<1>2. pc["order"] = "create" /\ "create" \in Steps \ {"activate"} /\ "order" \in Scripts
  BY <1>1 DEF Begins, Steps, Scripts
<1>3. PICK s : s = OrderSafe
  OBVIOUS
<1>4. s \in 0 .. MaxSafes
  BY <1>2, <1>3, OrderUnderWay
<1>5. CASE OrderSafe # 0 /\ Skips("order")
  <2>1. pc' = [pc EXCEPT !["order"] = "deploy"] /\ UNCHANGED pending
    BY <1>2, <1>5 DEF Skips, Go, After
  <2>2. pc'["order"] = "deploy" /\ "deploy" \in Steps
    BY <1>2, <2>1 DEF IInv, TypeOK, Steps
  <2>3. file' = file /\ mishaps' = mishaps
    BY <1>1 DEF Begins
  <2>4. OrderAt'
    BY <1>2, <1>5, <2>2, <2>3, OrderUnderWay DEF OrderAt
  <2> QED BY <1>1, <1>2, <1>3, <1>4, <2>1, <2>2, <2>4, StageMoves
<1>6. CASE OrderSafe = 0 /\ Sends("order", "create", OrderSafe, NoOrder)
  <2>1. file["order"].treasuries = <<>>
    BY <1>2, <1>6, OrderUnderWay
  <2>2. "create" \notin Installing \cup {"submit", "activate", "seal"}
    BY DEF Installing
  <2>3. NoOrder \in Orders \cup {NoOrder}
    OBVIOUS
  <2> QED BY <1>1, <1>2, <1>3, <1>4, <1>6, <2>1, <2>2, <2>3, StageSends
<1>7. CASE Stops("order")
  BY <1>1, <1>2, <1>3, <1>4, <1>7, StageStops
<1> QED BY <1>1, <1>5, <1>6, <1>7

LEMMA OrderInstalls ==
  ASSUME IInv, OrderDeploy \/ OrderEnable \/ OrderGuard \/ OrderFund
  PROVE  IInv'
<1>1. PICK step \in {"deploy", "enable", "guard", "fund"} :
        /\ Begins("order", step, OrderSafe, NoOrder)
        /\ \/ Skips("order") \/ Sends("order", step, OrderSafe, NoOrder) \/ Stops("order")
  BY DEF OrderDeploy, OrderEnable, OrderGuard, OrderFund, OrderStage, Stage, Begins, Skips, Sends,
         Stops, CallOf
<1>2. pc["order"] = step /\ step \in Steps \ {"activate"} /\ step \in Installing /\ "order" \in Scripts
  BY <1>1 DEF Begins, Steps, Scripts, Installing
<1>3. PICK s : s = OrderSafe
  OBVIOUS
<1>4. /\ s \in 0 .. MaxSafes /\ s \in 1 .. made /\ Len(file["order"].treasuries) = 1
      /\ mishaps.refused < MaxRefused
  <2>1. Len(file["order"].treasuries) = 1
    BY <1>1, <1>2 DEF IInv, OrderAt
  <2> QED BY <1>2, <1>3, <2>1, OrderUnderWay
<1>5. CASE Skips("order")
  <2>1. PICK p \in {"enable", "guard", "fund", "shield"} : p = After("order")
    BY <1>1, <1>2 DEF After
  <2>2. pc' = [pc EXCEPT !["order"] = p] /\ UNCHANGED pending
    BY <1>5, <2>1 DEF Skips, Go
  <2>3. pc'["order"] = p /\ p \in (Steps \cup {"off", "done"}) \ {"activate"}
    BY <1>2, <2>2 DEF IInv, TypeOK, Steps
  <2>4. file' = file /\ mishaps' = mishaps
    BY <1>1 DEF Begins
  <2>5. OrderAt'
    BY <1>4, <2>1, <2>3, <2>4 DEF OrderAt
  <2> QED BY <1>1, <1>2, <1>3, <1>4, <2>2, <2>3, <2>5, StageMoves
<1>6. CASE Sends("order", step, OrderSafe, NoOrder)
  <2>1. step \notin {"create", "submit", "activate", "seal"} /\ NoOrder \in Orders \cup {NoOrder}
    BY <1>1
  <2> QED BY <1>1, <1>2, <1>3, <1>4, <1>6, <2>1, StageSends
<1>7. CASE Stops("order")
  BY <1>1, <1>2, <1>3, <1>4, <1>7, StageStops
<1> QED BY <1>1, <1>5, <1>6, <1>7

\* It goes on without shielding when the wrapper is backed.
LEMMA OrderShields ==
  ASSUME IInv, OrderShield
  PROVE  IInv'
<1>1. /\ Begins("order", "shield", OrderSafe, NoOrder)
      /\ \/ (\E x \in SafeIds : "shielded" \in safe[x]) /\ Skips("order")
         \/ Sends("order", "shield", OrderSafe, NoOrder) \/ Stops("order")
  BY DEF OrderShield, OrderStage, Stage, Begins, Skips, Sends, Stops, CallOf
<1>2. /\ pc["order"] = "shield" /\ "shield" \in Steps \ {"activate"} /\ "shield" \in Installing
      /\ "order" \in Scripts
  BY <1>1 DEF Begins, Steps, Scripts, Installing
<1>3. PICK s : s = OrderSafe
  OBVIOUS
<1>4. /\ s \in 0 .. MaxSafes /\ s \in 1 .. made /\ Len(file["order"].treasuries) = 1
      /\ mishaps.refused < MaxRefused
  <2>1. Len(file["order"].treasuries) = 1
    BY <1>1, <1>2 DEF IInv, OrderAt
  <2> QED BY <1>2, <1>3, <2>1, OrderUnderWay
<1>5. CASE (\E x \in SafeIds : "shielded" \in safe[x]) /\ Skips("order")
  <2>1. PICK x \in SafeIds : "shielded" \in safe[x]
    BY <1>5
  <2>2. x \in 1 .. made
    BY <2>1 DEF IInv, ChainOK, SafeIds, TypeOK
  <2>3. pc' = [pc EXCEPT !["order"] = "open"] /\ UNCHANGED pending
    BY <1>2, <1>5 DEF Skips, Go, After
  <2>4. pc'["order"] = "open" /\ "open" \in Steps
    BY <1>2, <2>3 DEF IInv, TypeOK, Steps
  <2>5. file' = file /\ made' = made /\ safe' = safe /\ mishaps' = mishaps
    BY <1>1 DEF Begins, chainVars, safeVars
  <2>6. OrderAt'
    BY <1>4, <2>1, <2>2, <2>4, <2>5 DEF OrderAt, Backed
  <2> QED BY <1>1, <1>2, <1>3, <1>4, <2>3, <2>4, <2>6, StageMoves
<1>6. CASE Sends("order", "shield", OrderSafe, NoOrder)
  BY <1>1, <1>2, <1>3, <1>4, <1>6, StageSends
<1>7. CASE Stops("order")
  BY <1>1, <1>2, <1>3, <1>4, <1>7, StageStops
<1> QED BY <1>1, <1>5, <1>6, <1>7

LEMMA OrderOpens ==
  ASSUME IInv, OrderOpen
  PROVE  IInv'
<1>1. /\ Begins("order", "open", OrderSafe, NoOrder)
      /\ Skips("order") \/ Sends("order", "open", OrderSafe, NoOrder) \/ Stops("order")
  BY DEF OrderOpen, OrderStage, Stage, Begins, Skips, Sends, Stops, CallOf
<1>2. /\ pc["order"] = "open" /\ "open" \in Steps \ {"activate"} /\ "open" \notin Installing
      /\ "order" \in Scripts
  BY <1>1 DEF Begins, Steps, Scripts, Installing
<1>3. PICK s : s = OrderSafe
  OBVIOUS
<1>4. /\ s \in 0 .. MaxSafes /\ Len(file["order"].treasuries) = 1 /\ Backed
      /\ mishaps.refused < MaxRefused
  BY <1>2, <1>3, OrderUnderWay DEF IInv, OrderAt
<1>5. CASE Skips("order")
  <2>1. pc' = [pc EXCEPT !["order"] = "submit"] /\ UNCHANGED pending
    BY <1>2, <1>5, EpochsListed DEF Skips, Go, After
  <2>2. pc'["order"] = "submit" /\ "submit" \in Steps
    BY <1>2, <2>1 DEF IInv, TypeOK, Steps
  <2>3. file' = file /\ made' = made /\ safe' = safe /\ mishaps' = mishaps
    BY <1>1 DEF Begins, chainVars, safeVars
  <2>4. OrderAt'
    BY <1>4, <2>2, <2>3 DEF OrderAt, Backed
  <2> QED BY <1>1, <1>2, <1>3, <1>4, <2>1, <2>2, <2>4, StageMoves
<1>6. CASE Sends("order", "open", OrderSafe, NoOrder)
  BY <1>1, <1>2, <1>3, <1>4, <1>6, StageSends
<1>7. CASE Stops("order")
  BY <1>1, <1>2, <1>3, <1>4, <1>7, StageStops
<1> QED BY <1>1, <1>5, <1>6, <1>7

\* A nonce that nothing has paid for is of a run that has recorded it.
LEMMA OrderOfNext ==
  ASSUME IInv, NEW s \in SafeIds, ~Past(s)
  PROVE  /\ <<s, nonce[s]>> \in Orders
         /\ <<s, nonce[s]>>[1] = s /\ <<s, nonce[s]>>[2] <= Paid
<1>1. nonce[s] <= Paid
  BY DEF IInv, NoncesPaid
<1>2. nonce[s] \in Nat
  <2>1. s \in 0 .. MaxSafes
    BY RehearsalAssumption DEF SafeIds, RehearsalAssumption
  <2> QED BY <2>1, RehearsalAssumption DEF IInv, TypeOK, RehearsalAssumption
<1>3. /\ Paid \in Nat /\ MaxMishaps \in Nat /\ MaxRefused \in Nat
      /\ Paid <= MaxMishaps + MaxRefused
  BY PaidTyped DEF IInv
<1>4. nonce[s] \in 0 .. MaxMishaps + MaxRefused
  BY <1>1, <1>2, <1>3
<1> QED BY <1>1, <1>4, OrderParts

LEMMA OrderSubmits ==
  ASSUME IInv, OrderSubmit
  PROVE  IInv'
<1>1. PICK s, o : s = OrderSafe /\ o = <<OrderSafe, nonce[OrderSafe]>>
  OBVIOUS
<1>2. /\ Begins("order", "submit", s, o)
      /\ Sends("order", "submit", s, o) \/ Stops("order")
  BY <1>1 DEF OrderSubmit, Stage, Begins, Skips, Sends, Stops, CallOf
<1>3. /\ pc["order"] = "submit" /\ "submit" \in Steps \ {"activate"} /\ "submit" \notin Installing
      /\ "order" \in Scripts
  BY <1>2 DEF Begins, Steps, Scripts, Installing
<1>4. /\ s \in 0 .. MaxSafes /\ s \in 1 .. made /\ s \in SafeIds /\ s \in Known(file["order"]) /\ Backed
      /\ pc["clearing"] \in {"off", "done"}
  <2>1. Len(file["order"].treasuries) = 1 /\ Backed
    BY <1>3 DEF IInv, OrderAt
  <2>2. /\ s \in 0 .. MaxSafes /\ s \in 1 .. made /\ s \in Known(file["order"])
        /\ pc["clearing"] \in {"off", "done"}
    BY <1>1, <1>3, <2>1, OrderUnderWay
  <2> QED BY <2>1, <2>2, RehearsalAssumption DEF SafeIds, RehearsalAssumption
<1>5. ~Past(s)
  <2>1. \A b \in Scripts : pc[b] # "activate"
    BY <1>3, <1>4, EpochsListed
  <2>2. s \notin Ordered(file["clearing"])
    BY <1>4 DEF IInv, FilesOK, ClearingFile, Ordered
  <2> QED BY <1>3, <1>4, <2>1, <2>2 DEF Past
<1>6. o \in Orders /\ o[1] = s /\ o[2] <= Paid
  BY <1>1, <1>4, <1>5, OrderOfNext
<1>7. CASE Sends("order", "submit", s, o)
  BY <1>1, <1>2, <1>3, <1>4, <1>6, <1>7, StageSends
<1>8. CASE Stops("order")
  BY <1>2, <1>3, <1>4, <1>6, <1>8, StageStops
<1> QED BY <1>2, <1>7, <1>8

\* Between the two calls of an order nothing but its script can touch it: what is
\* left to ask is whether its Safe has wrapped anything.
LEMMA ActivationHolds ==
  ASSUME IInv, NEW b \in Scripts, NEW s, NEW o, pc[b] = "activate", s = cur[b].safe, o = cur[b].order,
         NEW t, t = CallOf(b, "activate", s, o)
  PROVE  /\ Valid(t) <=> "shielded" \in safe[s]
         /\ s \in 1 .. made /\ s \in 0 .. MaxSafes /\ o \in Orders
<1>1. /\ o \in Orders /\ o[1] = s /\ s <= made
      /\ orders[o] = "Submitted" /\ Installed \subseteq safe[s]
  BY DEF IInv, ActivatingOK
<1>2. s \in SafeIds /\ s \in 1 .. made /\ s \in 0 .. MaxSafes
  BY <1>1, OrderParts, RehearsalAssumption DEF SafeIds, RehearsalAssumption, IInv, TypeOK
<1>3. TypeOK /\ "activate" \in Steps
  BY DEF IInv, Steps
<1>4. Describes(t, b, "activate", s, o)
  BY <1>1, <1>2, <1>3, CallOfTyped
<1>5. t.op = "activate" /\ t.safe = s /\ t.order = o
  BY <1>4 DEF Describes
<1>6. Valid(t) <=> Installed \cup {"shielded"} \subseteq safe[s] /\ orders[o] = "Submitted"
  BY <1>5 DEF Valid
<1> QED BY <1>1, <1>2, <1>6

\* An activation that is refused ends its run, and pays for its submission.
LEMMA ActivationRefused ==
  ASSUME IInv, pc["order"] = "activate", ~Waits("order"), NEW k \in Cursor,
         cur' = [cur EXCEPT !["order"] = k], pc' = [pc EXCEPT !["order"] = "off"],
         Mishap("refused"), UNCHANGED <<chainVars, file, mem, pending>>
  PROVE  IInv'
<1>1. /\ TypeOK /\ ChainOK /\ FilesOK /\ OneRuns /\ ActivatingOK /\ ClearingAt /\ OrderAt
      /\ PendingOK /\ NoncesPaid /\ UnbackedIsExplained
  BY DEF IInv
<1>2. /\ mishaps' = [mishaps EXCEPT !["refused"] = mishaps["refused"] + 1]
      /\ UNCHANGED <<made, safe, nonce, epoch, orders, members, stage, published, calm, expired>>
  BY DEF Mishap, chainVars, safeVars, bookVars
<1>3. Busy("order") /\ "order" \in Scripts /\ "activate" \in Steps
  BY DEF Busy, Scripts, Steps
<1>4. /\ pc'["order"] = "off"
      /\ pc'["clearing"] = pc["clearing"] /\ pc["clearing"] \in {"off", "done"}
  BY <1>1, <1>3, EpochsListed DEF TypeOK, OneRuns, Busy
<1>5. /\ mishaps' \in [{"crashed", "expired", "moved", "refused"} -> Nat]
      /\ Paid' = Paid + 1 /\ Paid \in Nat /\ Paid' \in Nat /\ mishaps'.refused <= MaxRefused
      /\ mishaps'.crashed + mishaps'.expired + mishaps'.moved <= MaxMishaps
  <2>1. mishaps \in [{"crashed", "expired", "moved", "refused"} -> Nat]
        /\ mishaps.crashed + mishaps.expired + mishaps.moved <= MaxMishaps
    BY <1>1 DEF ChainOK
  <2>2. /\ mishaps.crashed \in Nat /\ mishaps.refused \in Nat /\ MaxRefused \in Nat
        /\ Paid \in Nat
    BY <1>1, PaidTyped
  <2>3. mishaps.refused < MaxRefused
    BY <1>1 DEF OrderAt
  <2>4. /\ mishaps' \in [{"crashed", "expired", "moved", "refused"} -> Nat]
        /\ mishaps'.refused = mishaps.refused + 1 /\ mishaps'.crashed = mishaps.crashed
        /\ mishaps'.expired = mishaps.expired /\ mishaps'.moved = mishaps.moved
    BY <1>2, <2>1, <2>2
  <2>5. Paid' = Paid + 1
    BY <2>2, <2>4 DEF Paid
  <2> QED BY <2>1, <2>2, <2>3, <2>4, <2>5
<1>6. TypeOK'
  <2>1. cur' \in [Scripts -> [safe : 0 .. MaxSafes, order : Orders \cup {NoOrder}]]
    BY <1>1 DEF TypeOK, Cursor
  <2>2. pc' \in [Scripts -> Steps \cup {"off", "save", "done"}]
    BY <1>1 DEF TypeOK
  <2> QED BY <1>1, <1>2, <2>1, <2>2 DEF TypeOK
<1>7. ChainTypes /\ ChainTypes' /\ Grows
  BY <1>1, TypesSplit, StillGrows
<1>8. ChainOK'
  BY <1>1, <1>2, <1>5 DEF ChainOK
<1>9. UnbackedIsExplained'
  BY <1>1, <1>2 DEF UnbackedIsExplained, Known
<1>10. FilesOK'
  <2>1. \A c \in Scripts : ~Busy(c)' /\ pc'[c] # "save"
    BY <1>4, EpochsListed DEF Busy
  <2>2. ClearingFile(file["clearing"])' /\ OrderFile(file["order"])'
    BY <1>1, <1>2, FilesUnmoved
  <2> QED BY <2>1, <2>2, EpochsListed DEF FilesOK
<1>11. OneRuns'
  <2>1. \A c \in Scripts : ~Busy(c)'
    BY <1>4, EpochsListed DEF Busy
  <2>2. \A i, j \in DOMAIN pending : pending[i].awaited /\ pending[j].awaited => i = j
    BY <1>1 DEF OneRuns
  <2> QED BY <2>1, <2>2 DEF OneRuns
<1>12. \A c \in Scripts : pc'[c] \in {"off", "done"}
  BY <1>4, EpochsListed
<1>13. ActivatingOK'
  BY <1>12 DEF ActivatingOK
<1>14. ClearingAt'
  BY <1>4 DEF ClearingAt
<1>15. OrderAt'
  BY <1>4 DEF OrderAt
<1>16. PendingOK'
  <2> SUFFICES ASSUME NEW i \in DOMAIN pending
               PROVE  (CallOK(pending[i]))' /\ ~pending'[i].awaited
    BY DEF PendingOK
  <2>1. PICK u : u = pending[i]
    OBVIOUS
  <2>2. u \in Call /\ CallOK(u) /\ ~u.awaited
    BY <1>1, <1>3, <2>1, NoneAwaited DEF PendingOK
  <2>3. Paid <= Paid' /\ Known(file["order"]) \subseteq Known(file'["order"])
    BY <1>5
  <2>4. CallOK(u)'
    BY <1>5, <1>7, <2>2, <2>3, CallStays
  <2> QED BY <2>1, <2>2, <2>4
<1>17. NoncesPaid'
  <2>1. ASSUME NEW s \in SafeIds PROVE nonce[s] <= Paid + 1 /\ nonce[s] \in Nat
    <3>1. s \in 0 .. MaxSafes
      BY RehearsalAssumption DEF SafeIds, RehearsalAssumption
    <3> QED BY <1>1, <3>1, RehearsalAssumption DEF NoncesPaid, TypeOK, RehearsalAssumption
  <2>2. \A s \in SafeIds : nonce'[s] <= Paid' /\ nonce'[s] <= Paid' + 1
    BY <1>2, <1>5, <2>1
  <2> QED BY <2>2 DEF NoncesPaid
<1> QED BY <1>6, <1>8, <1>9, <1>10, <1>11, <1>13, <1>14, <1>15, <1>16, <1>17 DEF IInv

LEMMA OrderActivates ==
  ASSUME IInv, OrderActivate
  PROVE  IInv'
<1>1. PICK s, o, t : s = OrderSafe /\ o = cur["order"].order /\ t = CallOf("order", "activate", s, o)
  OBVIOUS
<1>2. /\ pc["order"] = "activate" /\ ~Waits("order")
      /\ cur' = [cur EXCEPT !["order"] = [safe |-> s, order |-> o]]
      /\ UNCHANGED <<chainVars, file, mem>>
      /\ Valid(t) => Begins("order", "activate", s, o) /\ Sends("order", "activate", s, o)
      /\ ~Valid(t) => pc' = [pc EXCEPT !["order"] = "off"] /\ UNCHANGED pending /\ Mishap("refused")
  BY <1>1 DEF OrderActivate, Stage, Begins, Sends, CallOf, Go
<1>3. "activate" \in Steps /\ "order" \in Scripts /\ "activate" \notin Installing
  BY DEF Steps, Scripts, Installing
<1>4. s = cur["order"].safe
  BY <1>1, <1>2 DEF IInv, OrderAt
<1>5. (Valid(t) <=> "shielded" \in safe[s]) /\ s \in 1 .. made /\ s \in 0 .. MaxSafes /\ o \in Orders
  BY <1>1, <1>2, <1>3, <1>4, ActivationHolds
<1>6. CASE Valid(t)
  BY <1>1, <1>2, <1>3, <1>4, <1>5, <1>6, StageSends
<1>7. CASE ~Valid(t)
  <2>1. [safe |-> s, order |-> o] \in Cursor
    BY <1>5 DEF Cursor
  <2> QED BY <1>2, <1>7, <2>1, ActivationRefused
<1> QED BY <1>6, <1>7

-----------------------------------------------------------------------------
(* The stages of prove-clearing. *)

LEMMA ClearingUnderWay ==
  ASSUME IInv, pc["clearing"] \in Steps
  PROVE  /\ mem["clearing"] = file["clearing"] /\ mem["clearing"] \in StateFile
         /\ ClearingFile(mem["clearing"]) /\ pc["order"] \in {"off", "done"}
<1>1. TypeOK /\ FilesOK /\ OneRuns
  BY DEF IInv
<1>2. Busy("clearing") /\ pc["clearing"] # "save" /\ "order" \in Scripts /\ "clearing" \in Scripts
  BY DEF Busy, Steps, Scripts
<1>3. mem["clearing"] = file["clearing"] /\ mem["clearing"] \in StateFile
  BY <1>1, <1>2 DEF FilesOK, TypeOK
<1>4. pc["order"] \in {"off", "done"}
  BY <1>1, <1>2 DEF OneRuns, Busy
<1> QED BY <1>1, <1>3, <1>4 DEF FilesOK

\* Where a file that is right lets the script go on.
LEMMA ResumeFits ==
  ASSUME NEW m \in StateFile, Len(m.treasuries) <= N
  PROVE  /\ Resume(m) \in {"create", "submit", "seal", "clear"}
         /\ Resume(m) = "create" => Len(m.treasuries) < N
         /\ Resume(m) = "submit" => Unordered(m) # {}
         /\ Resume(m) = "seal" => Len(m.treasuries) = N /\ Unordered(m) = {}
<1>1. Len(m.treasuries) \in Nat /\ N \in Nat
  BY FileFields, RehearsalAssumption DEF RehearsalAssumption
<1> QED BY <1>1 DEF Resume

LEMMA ClearingOpens ==
  ASSUME IInv, ClearingOpen
  PROVE  IInv'
<1>1. /\ Begins("clearing", "open", 0, NoOrder)
      /\ Skips("clearing") \/ Sends("clearing", "open", 0, NoOrder) \/ Stops("clearing")
  BY DEF ClearingOpen, Stage, Begins, Skips, Sends, Stops, CallOf
<1>2. /\ pc["clearing"] = "open" /\ "open" \in Steps \ {"activate"} /\ "open" \notin Installing
      /\ "clearing" \in Scripts /\ 0 \in 0 .. MaxSafes
  BY <1>1, RehearsalAssumption DEF Begins, Steps, Scripts, Installing, RehearsalAssumption
<1>3. CASE Skips("clearing")
  <2>1. PICK p : p = Resume(mem["clearing"])
    OBVIOUS
  <2>2. /\ p \in {"create", "submit", "seal", "clear"}
        /\ p = "create" => Len(mem["clearing"].treasuries) < N
        /\ p = "submit" => Unordered(mem["clearing"]) # {}
        /\ p = "seal" => Len(mem["clearing"].treasuries) = N /\ Unordered(mem["clearing"]) = {}
    <3>1. mem["clearing"] \in StateFile /\ Len(mem["clearing"].treasuries) <= N
      BY <1>2, ClearingUnderWay DEF ClearingFile
    <3> QED BY <2>1, <3>1, ResumeFits
  <2>3. pc' = [pc EXCEPT !["clearing"] = p] /\ UNCHANGED pending
    BY <1>2, <1>3, <2>1 DEF Skips, Go, After
  <2>4. pc'["clearing"] = p /\ p \in (Steps \cup {"off", "done"}) \ {"activate"}
    BY <1>2, <2>2, <2>3 DEF IInv, TypeOK, Steps
  <2>5. mem' = mem
    BY <1>1 DEF Begins
  <2>6. ClearingAt'
    BY <2>2, <2>4, <2>5 DEF ClearingAt, Unordered
  <2> QED BY <1>1, <1>2, <2>3, <2>4, <2>6, StageMoves
<1>4. CASE Sends("clearing", "open", 0, NoOrder)
  BY <1>1, <1>2, <1>4, StageSends
<1>5. CASE Stops("clearing")
  BY <1>1, <1>2, <1>5, StageStops
<1> QED BY <1>1, <1>3, <1>4, <1>5

\* The calls that need no Safe.
LEMMA ClearingSendsAlone ==
  ASSUME IInv, ClearingCreate \/ ClearingSeal \/ ClearingStages \/ ClearingPublish
  PROVE  IInv'
<1>1. PICK step \in {"create", "seal", "clear", "publish"} :
        /\ Begins("clearing", step, 0, NoOrder)
        /\ \/ step = "clear" /\ stage > 6 /\ Skips("clearing")
           \/ Sends("clearing", step, 0, NoOrder) \/ Stops("clearing")
  BY DEF ClearingCreate, ClearingSeal, ClearingStages, ClearingPublish, Stage, Begins, Skips, Sends,
         Stops, CallOf
<1>2. /\ pc["clearing"] = step /\ step \in Steps \ {"activate"}
      /\ step \notin Installing \cup {"submit", "activate"}
      /\ "clearing" \in Scripts /\ 0 \in 0 .. MaxSafes
  BY <1>1, RehearsalAssumption DEF Begins, Steps, Scripts, Installing, RehearsalAssumption
<1>3. CASE step = "clear" /\ stage > 6 /\ Skips("clearing")
  <2>1. pc' = [pc EXCEPT !["clearing"] = "publish"] /\ UNCHANGED pending
    BY <1>2, <1>3 DEF Skips, Go, After
  <2>2. pc'["clearing"] = "publish" /\ "publish" \in Steps
    BY <1>2, <2>1 DEF IInv, TypeOK, Steps
  <2>3. ClearingAt'
    BY <2>2 DEF ClearingAt
  <2> QED BY <1>1, <1>2, <2>1, <2>2, <2>3, StageMoves
<1>4. CASE Sends("clearing", step, 0, NoOrder)
  BY <1>1, <1>2, <1>4, StageSends
<1>5. CASE Stops("clearing")
  BY <1>1, <1>2, <1>5, StageStops
<1> QED BY <1>1, <1>3, <1>4, <1>5

\* The calls that make a treasury of a Safe.
LEMMA ClearingInstalls ==
  ASSUME IInv, ClearingInstall \/ ClearingShield
  PROVE  IInv'
<1>1. PICK s : s = cur["clearing"].safe
  OBVIOUS
<1>2. PICK step \in Installing :
        /\ Begins("clearing", step, s, NoOrder)
        /\ Sends("clearing", step, s, NoOrder) \/ Stops("clearing")
  BY <1>1 DEF ClearingInstall, ClearingShield, Stage, Begins, Skips, Sends, Stops, CallOf, Installing
<1>3. /\ pc["clearing"] = step /\ step \in Steps \ {"activate"}
      /\ step \notin {"create", "submit", "activate", "seal"} /\ "clearing" \in Scripts
  BY <1>2 DEF Begins, Steps, Scripts, Installing
<1>4. s \in 1 .. made /\ s \in 0 .. MaxSafes
  BY <1>1, <1>2, <1>3, RehearsalAssumption
     DEF IInv, ClearingAt, TypeOK, Installing, RehearsalAssumption
<1>5. CASE Sends("clearing", step, s, NoOrder)
  BY <1>1, <1>2, <1>3, <1>4, <1>5, StageSends
<1>6. CASE Stops("clearing")
  BY <1>2, <1>3, <1>4, <1>6, StageStops
<1> QED BY <1>2, <1>5, <1>6

\* The treasury it submits for has no recorded order.
LEMMA ClearingSubmits ==
  ASSUME IInv, ClearingSubmit
  PROVE  IInv'
<1>1. PICK s, o : s = NextTreasury /\ o = <<NextTreasury, nonce[NextTreasury]>>
  OBVIOUS
<1>2. /\ Begins("clearing", "submit", s, o)
      /\ Sends("clearing", "submit", s, o) \/ Stops("clearing")
  BY <1>1 DEF ClearingSubmit, NextTreasury, Stage, Begins, Skips, Sends, Stops, CallOf
<1>3. /\ pc["clearing"] = "submit" /\ "submit" \in Steps \ {"activate"} /\ "submit" \notin Installing
      /\ "clearing" \in Scripts
  BY <1>2 DEF Begins, Steps, Scripts, Installing
<1>4. PICK m : m = mem["clearing"]
  OBVIOUS
<1>5. /\ m = file["clearing"] /\ m \in StateFile /\ ClearingFile(m) /\ pc["order"] \in {"off", "done"}
      /\ Unordered(m) # {}
  BY <1>3, <1>4, ClearingUnderWay DEF IInv, ClearingAt
<1>6. PICK j \in DOMAIN m.treasuries : j \in Unordered(m) /\ s = m.treasuries[j].safe
  <2>1. /\ FirstUnordered(m) \in DOMAIN m.treasuries
        /\ m.treasuries[FirstUnordered(m)].order = NoOrder
    BY <1>5, FirstIsUnordered
  <2> QED BY <1>1, <1>4, <2>1 DEF NextTreasury, Unordered
<1>7. /\ s \in SafeIds /\ s \in 1 .. made /\ s \in 0 .. MaxSafes /\ safe[s] = Features
      /\ s \notin Known(file["order"])
  <2>1. s \in SafeIds /\ s <= made /\ safe[s] = Features /\ s \notin Known(file["order"])
    BY <1>5, <1>6, FileFields DEF ClearingFile
  <2> QED BY <2>1, RehearsalAssumption DEF SafeIds, RehearsalAssumption, IInv, TypeOK
<1>8. ~Past(s)
  <2>1. \A b \in Scripts : pc[b] # "activate"
    BY <1>3, <1>5, EpochsListed
  <2>2. s \notin Ordered(file["clearing"])
    BY <1>5, <1>6 DEF ClearingFile, Ordered
  <2> QED BY <1>3, <1>7, <2>1, <2>2 DEF Past
<1>9. o \in Orders /\ o[1] = s /\ o[2] <= Paid
  BY <1>1, <1>7, <1>8, OrderOfNext
<1>10. CASE Sends("clearing", "submit", s, o)
  BY <1>1, <1>2, <1>3, <1>7, <1>9, <1>10, StageSends
<1>11. CASE Stops("clearing")
  BY <1>2, <1>3, <1>7, <1>9, <1>11, StageStops
<1> QED BY <1>2, <1>10, <1>11

\* A treasury of the file has wrapped its funds, so its activation is not refused.
LEMMA ClearingActivates ==
  ASSUME IInv, ClearingActivate
  PROVE  IInv'
<1>1. PICK s, o, t : /\ s = cur["clearing"].safe /\ o = cur["clearing"].order
                     /\ t = CallOf("clearing", "activate", s, o)
  OBVIOUS
<1>2. /\ pc["clearing"] = "activate"
      /\ Valid(t) => Begins("clearing", "activate", s, o) /\ Sends("clearing", "activate", s, o)
  BY <1>1 DEF ClearingActivate, Stage, Begins, Sends, CallOf
<1>3. "activate" \in Steps /\ "clearing" \in Scripts /\ "activate" \notin Installing
  BY DEF Steps, Scripts, Installing
<1>4. "shielded" \in safe[s]
  <2>1. PICK m : m = mem["clearing"]
    OBVIOUS
  <2>2. m \in StateFile /\ ClearingFile(m)
    BY <1>2, <1>3, <2>1, ClearingUnderWay
  <2>3. Unordered(m) # {} /\ s = m.treasuries[FirstUnordered(m)].safe
    BY <1>1, <1>2, <2>1 DEF IInv, ClearingAt, NextTreasury
  <2>4. FirstUnordered(m) \in DOMAIN m.treasuries
    BY <2>2, <2>3, FirstIsUnordered
  <2>5. safe[s] = Features
    BY <2>2, <2>3, <2>4 DEF ClearingFile
  <2> QED BY <2>5 DEF Features
<1>5. Valid(t) /\ s \in 1 .. made /\ s \in 0 .. MaxSafes /\ o \in Orders
  BY <1>1, <1>2, <1>3, <1>4, ActivationHolds
<1> QED BY <1>1, <1>2, <1>3, <1>4, <1>5, StageSends

-----------------------------------------------------------------------------
(* A block: the first pending call is mined. *)

LEMMA TailHolds ==
  ASSUME NEW S, NEW q \in Seq(S), q # <<>>
  PROVE  /\ Head(q) = q[1] /\ Head(q) \in S /\ 1 \in DOMAIN q /\ Tail(q) \in Seq(S)
         /\ \A i \in DOMAIN Tail(q) : i \in Nat \ {0} /\ i + 1 \in DOMAIN q /\ Tail(q)[i] = q[i + 1]
OBVIOUS

\* What a block does whoever waits for the call.
Mined(t) ==
  /\ ChainTypes' /\ ChainOK' /\ Grows /\ UnbackedIsExplained'
  /\ OrdersMove(t) /\ NoncesMove(t) /\ UNCHANGED <<file, mishaps>>
  /\ pending' \in Seq(Call)
  /\ \A i \in DOMAIN pending' :
       /\ i \in Nat \ {0} /\ i + 1 \in DOMAIN pending /\ pending'[i] = pending[i + 1]
       /\ CallOK(pending[i])'

LEMMA MineMines ==
  ASSUME IInv, Mine, NEW t, t = Head(pending)
  PROVE  /\ t \in Call /\ 1 \in DOMAIN pending /\ t = pending[1] /\ CallOK(t)
         /\ t.awaited => AwaitedOK(t) /\ Busy(t.by)
         /\ Mined(t) /\ Receipt(t) /\ (Valid(t) => Effect(t))
         /\ made' = IF Valid(t) /\ t.op = "create" THEN made + 1 ELSE made
<1>1. /\ pending # <<>> /\ pending' = Tail(pending) /\ Receipt(t)
      /\ IF Valid(t) THEN Effect(t) ELSE UNCHANGED <<safeVars, bookVars>>
      /\ UNCHANGED <<calm, expired, file, mishaps>>
  BY DEF Mine
<1>2. /\ TypeOK /\ ChainOK /\ PendingOK /\ UnbackedIsExplained /\ ChainTypes /\ pending \in Seq(Call)
  BY TypesSplit DEF IInv
<1>3. /\ t = pending[1] /\ t \in Call /\ 1 \in DOMAIN pending /\ pending' \in Seq(Call)
      /\ \A i \in DOMAIN pending' :
           i \in Nat \ {0} /\ i + 1 \in DOMAIN pending /\ pending'[i] = pending[i + 1]
  BY <1>1, <1>2, TailHolds
<1>4. CallOK(t) /\ (t.awaited => AwaitedOK(t))
  BY <1>2, <1>3 DEF PendingOK
<1>5. t.awaited => Busy(t.by)
  BY <1>3, <1>4, CallFields DEF AwaitedOK, Busy, Steps
<1>6. /\ ChainTypes' /\ ChainOK' /\ Grows /\ OrdersMove(t) /\ NoncesMove(t)
      /\ made' = IF Valid(t) /\ t.op = "create" THEN made + 1 ELSE made
  <2>1. CASE Valid(t)
    <3>1. Effect(t)
      BY <1>1, <2>1
    <3> QED BY <1>1, <1>2, <1>3, <1>4, <2>1, <3>1, ChainMoves
  <2>2. CASE ~Valid(t)
    <3>1. UNCHANGED chainVars
      BY <1>1, <2>2 DEF chainVars
    <3>2. UNCHANGED <<made, safe, nonce, epoch, orders>>
      BY <3>1 DEF chainVars, safeVars, bookVars
    <3>3. ChainTypes' /\ Grows
      BY <1>2, <3>1, StillGrows
    <3>4. ChainOK'
      BY <1>1, <1>2, <3>2 DEF ChainOK
    <3> QED BY <2>2, <3>2, <3>3, <3>4 DEF OrdersMove, NoncesMove
  <2> QED BY <2>1, <2>2
<1>7. Paid' = Paid /\ Paid \in Nat
  BY <1>1, <1>2, PaidTyped DEF Paid
<1>8. \A i \in DOMAIN pending' : CallOK(pending[i])'
  <2> TAKE i \in DOMAIN pending'
  <2>1. PICK u : u = pending'[i]
    OBVIOUS
  <2>2. u \in Call /\ CallOK(u)
    BY <1>2, <1>3, <2>1 DEF PendingOK
  <2>3. Known(file["order"]) \subseteq Known(file'["order"])
    BY <1>1
  <2>4. CallOK(u)'
    BY <1>2, <1>6, <1>7, <2>2, <2>3, CallStays
  <2> QED BY <2>1, <2>4
<1>9. UnbackedIsExplained'
  <2>1. ASSUME NEW o \in Orders, orders[o] = "None", orders'[o] # "None", "shielded" \notin safe'[o[1]]
        PROVE  o[1] \in Known(file'["order"]) /\ Backed' /\ orders'[o] = "Submitted"
    <3>1. t.op = "submit" /\ o = t.order /\ t.order[1] = t.safe /\ orders'[o] = "Submitted"
      BY <1>4, <1>6, <2>1 DEF OrdersMove, CallOK
    <3>2. t.by # "clearing"
      <4>1. SUFFICES ASSUME t.by = "clearing" PROVE FALSE
        OBVIOUS
      <4>2. safe[t.safe] = Features /\ t.safe \in 0 .. MaxSafes
        BY <1>3, <1>4, <3>1, <4>1, CallFields DEF CallOK
      <4>3. "shielded" \in safe'[t.safe]
        BY <1>6, <4>2 DEF Grows, Features
      <4> QED BY <2>1, <3>1, <4>3
    <3>3. t.by = "order"
      BY <1>3, <3>2, CallFields, EpochsListed
    <3>4. t.safe \in Known(file["order"]) /\ Backed
      BY <1>4, <3>1, <3>3 DEF CallOK
    <3>5. Backed'
      BY <1>2, <1>6, <3>4, BackedStays
    <3> QED BY <1>1, <3>1, <3>4, <3>5
  <2>2. Known(file["order"]) \subseteq Known(file'["order"])
    BY <1>1
  <2>3. \A o \in Orders : orders[o] = "Submitted" /\ "shielded" \notin safe[o[1]] => orders'[o] = orders[o]
    BY <1>6 DEF OrdersMove
  <2> QED BY <1>2, <1>6, <2>1, <2>2, <2>3, ExplainedStays
<1>10. Mined(t)
  BY <1>1, <1>3, <1>6, <1>8, <1>9 DEF Mined
<1> QED BY <1>1, <1>3, <1>4, <1>5, <1>6, <1>10

\* A file stays right when a call is mined, whoever holds it.
LEMMA HeldFilesStay ==
  ASSUME IInv, NEW t, Mined(t), NEW m \in StateFile
  PROVE  /\ ClearingFile(m) => ClearingFile(m)'
         /\ OrderFile(m) => OrderFile(m)'
<1>1. ChainTypes /\ ChainTypes' /\ Grows /\ file' = file
  BY TypesSplit DEF IInv, Mined
<1>2. ASSUME ClearingFile(m) PROVE ClearingFile(m)'
  <2>1. \A i \in DOMAIN m.treasuries : m.treasuries[i].safe \notin Known(file'["order"])
    BY <1>1, <1>2 DEF ClearingFile
  <2> QED BY <1>1, <1>2, <2>1, ClearingFileStays
<1>3. ASSUME OrderFile(m) PROVE OrderFile(m)'
  BY <1>1, <1>3, OrderFileStays
<1> QED BY <1>2, <1>3

\* A nonce that a mined call takes is one its script records, or one that is paid for.
LEMMA NoncesStayPaid ==
  ASSUME IInv, NEW t \in Call, CallOK(t), Mined(t),
         \A s \in SafeIds : Past(s) => Past(s)',
         t.op = "submit" /\ t.awaited /\ nonce' # nonce => Past(t.safe)'
  PROVE  NoncesPaid'
<1>1. NoncesPaid /\ NoncesMove(t) /\ Paid' = Paid /\ Paid \in Nat
  BY PaidTyped DEF IInv, Mined, Paid
<1> SUFFICES ASSUME NEW s \in SafeIds
             PROVE  nonce'[s] <= Paid' + 1 /\ (nonce'[s] <= Paid' \/ Past(s)')
  BY DEF NoncesPaid
<1>2. CASE nonce'[s] = nonce[s]
  BY <1>1, <1>2 DEF NoncesPaid
<1>3. CASE nonce'[s] # nonce[s]
  <2>1. t.op = "submit" /\ s = t.safe /\ nonce'[s] = t.order[2] + 1
    BY <1>1, <1>3 DEF NoncesMove
  <2>2. t.order[2] \in Nat /\ t.order[2] <= Paid /\ (~t.awaited => t.order[2] < Paid)
    BY <2>1, OrderParts, RehearsalAssumption DEF CallOK
  <2>3. t.awaited => Past(s)'
    BY <1>3, <2>1
  <2> QED BY <1>1, <2>1, <2>2, <2>3
<1> QED BY <1>2, <1>3

\* A call that nobody waits for moves the chain alone.
LEMMA MineUnawaited ==
  ASSUME IInv, Mine, ~Head(pending).awaited
  PROVE  IInv'
<1>1. PICK t : t = Head(pending)
  OBVIOUS
<1>2. /\ t \in Call /\ 1 \in DOMAIN pending /\ t = pending[1] /\ CallOK(t) /\ ~t.awaited
      /\ Mined(t) /\ Receipt(t)
  BY <1>1, MineMines
<1>3. UNCHANGED <<mem, cur, pc, file, mishaps>>
  BY <1>2 DEF Receipt, Mined
<1>4. /\ TypeOK /\ ChainOK /\ FilesOK /\ OneRuns /\ ActivatingOK /\ ClearingAt /\ OrderAt
      /\ PendingOK /\ NoncesPaid /\ UnbackedIsExplained /\ ChainTypes /\ ScriptTypes
  BY TypesSplit DEF IInv
<1>5. /\ ChainTypes' /\ ChainOK' /\ Grows /\ UnbackedIsExplained' /\ OrdersMove(t) /\ NoncesMove(t)
      /\ pending' \in Seq(Call)
      /\ \A i \in DOMAIN pending' :
           /\ i \in Nat \ {0} /\ i + 1 \in DOMAIN pending /\ pending'[i] = pending[i + 1]
           /\ CallOK(pending[i])'
  BY <1>2 DEF Mined
<1>6. TypeOK'
  <2>1. ScriptTypes'
    BY <1>3, <1>4 DEF ScriptTypes
  <2> QED BY <1>5, <2>1 DEF TypeOK, ChainTypes, ScriptTypes
<1>7. FilesOK'
  <2>1. \A b \in Scripts : file[b] \in StateFile /\ mem[b] \in StateFile
    BY <1>4 DEF ScriptTypes
  <2>2. PICK f, g, m, n : f = file["clearing"] /\ g = file["order"] /\ m = mem["clearing"] /\ n = mem["order"]
    OBVIOUS
  <2>3. f \in StateFile /\ g \in StateFile /\ m \in StateFile /\ n \in StateFile
    BY <2>1, <2>2, EpochsListed
  <2>4. ClearingFile(f)' /\ OrderFile(g)'
    BY <1>2, <1>4, <2>2, <2>3, HeldFilesStay DEF FilesOK
  <2>5. pc["clearing"] = "save" => ClearingFile(m)'
    BY <1>2, <1>4, <2>2, <2>3, HeldFilesStay DEF FilesOK
  <2>6. pc["order"] = "save" => OrderFile(n)'
    BY <1>2, <1>4, <2>2, <2>3, HeldFilesStay DEF FilesOK
  <2>7. \A b \in Scripts : Busy(b)' /\ pc'[b] # "save" => mem'[b] = file'[b]
    BY <1>3, <1>4 DEF FilesOK, Busy
  <2>8. pc'["clearing"] = "save" =>
          ClearingFile(mem["clearing"])' /\ Ordered(file'["clearing"]) \subseteq Ordered(mem'["clearing"])
    BY <1>3, <1>4, <2>2, <2>5 DEF FilesOK
  <2>9. pc'["order"] = "save" =>
          /\ OrderFile(mem["order"])' /\ Len(mem'["order"].treasuries) = 1
          /\ file'["order"].treasuries = <<>>
          /\ Known(mem'["order"]) \cap Known(file'["clearing"]) = {}
    BY <1>3, <1>4, <2>2, <2>6 DEF FilesOK
  <2>10. ClearingFile(file["clearing"])' /\ OrderFile(file["order"])'
    BY <1>3, <2>2, <2>4
  <2> QED BY <2>7, <2>8, <2>9, <2>10 DEF FilesOK, Known, Ordered, Unordered
<1>8. OneRuns'
  <2>1. \A i, j \in DOMAIN pending' : pending'[i].awaited /\ pending'[j].awaited => i = j
    <3> TAKE i, j \in DOMAIN pending'
    <3> HAVE pending'[i].awaited /\ pending'[j].awaited
    <3>1. i + 1 = j + 1
      BY <1>4, <1>5 DEF OneRuns
    <3> QED BY <1>5, <3>1
  <2> QED BY <1>3, <1>4, <2>1 DEF OneRuns, Busy
<1>9. ActivatingOK'
  <2> SUFFICES ASSUME NEW b \in Scripts, pc[b] = "activate"
               PROVE  LET o == cur[b].order IN
                      /\ o \in Orders /\ o[1] = cur[b].safe /\ cur[b].safe <= made'
                      /\ orders'[o] = "Submitted" /\ Installed \subseteq safe'[o[1]]
                      /\ \A i \in DOMAIN pending' :
                           pending'[i].op = "activate" /\ pending'[i].order = o => pending'[i].awaited
    BY <1>3 DEF ActivatingOK
  <2>1. PICK o : o = cur[b].order
    OBVIOUS
  <2>2. /\ o \in Orders /\ o[1] = cur[b].safe /\ cur[b].safe <= made
        /\ orders[o] = "Submitted" /\ Installed \subseteq safe[o[1]]
        /\ \A i \in DOMAIN pending :
             pending[i].op = "activate" /\ pending[i].order = o => pending[i].awaited
    BY <1>4, <2>1 DEF ActivatingOK
  <2>3. orders'[o] = "Submitted"
    BY <1>2, <1>5, <2>2 DEF OrdersMove
  <2>4. o[1] \in 0 .. MaxSafes /\ o[1] \in Nat
    BY <2>2, OrderParts, RehearsalAssumption DEF SafeIds, RehearsalAssumption
  <2>5. cur[b].safe <= made' /\ Installed \subseteq safe'[o[1]]
    BY <1>4, <1>5, <2>2, <2>4 DEF Grows, ChainTypes
  <2>6. \A i \in DOMAIN pending' :
          pending'[i].op = "activate" /\ pending'[i].order = o => pending'[i].awaited
    BY <1>5, <2>2
  <2> QED BY <2>1, <2>2, <2>3, <2>5, <2>6
<1>10. ClearingAt'
  <2>1. \A s : s \in 1 .. made => s \in 1 .. made'
    BY <1>4, <1>5 DEF Grows, ChainTypes
  <2> QED BY <1>3, <1>4, <2>1 DEF ClearingAt, NextTreasury, Known, Unordered
<1>11. OrderAt'
  <2>1. Backed => Backed'
    BY <1>4, <1>5, BackedStays
  <2> QED BY <1>3, <1>4, <2>1 DEF OrderAt, OrderSafe
<1>12. PendingOK'
  <2> SUFFICES ASSUME NEW i \in DOMAIN pending'
               PROVE  (CallOK(pending[i]) /\ (pending[i].awaited => AwaitedOK(pending[i])))'
    BY DEF PendingOK
  <2>1. PICK u : u = pending'[i]
    OBVIOUS
  <2>2. u.awaited => AwaitedOK(u)
    BY <1>4, <1>5, <2>1 DEF PendingOK
  <2>3. u.op = "activate" /\ "shielded" \in safe[u.safe] => "shielded" \in safe'[u.safe]
    <3>1. u \in Call
      BY <1>5, <2>1
    <3> QED BY <1>5, <3>1, CallFields DEF Grows
  <2>4. u.awaited => AwaitedOK(u)'
    BY <1>3, <2>2, <2>3 DEF AwaitedOK, NextTreasury, OrderSafe
  <2> QED BY <1>5, <2>1, <2>4
<1>13. NoncesPaid'
  <2>1. \A s \in SafeIds : Past(s) => Past(s)'
    BY <1>3 DEF Past, Ordered, Unordered, Known
  <2> QED BY <1>2, <2>1, NoncesStayPaid
<1> QED BY <1>5, <1>6, <1>7, <1>8, <1>9, <1>10, <1>11, <1>12, <1>13 DEF IInv

\* A receipt that takes its script to a place it may be at, with the file it may hold there.
Lands(t, b, p, m, k) ==
  /\ t = Head(pending) /\ t.awaited /\ b = t.by
  /\ p \in Steps \cup {"off", "save", "done"} /\ m \in StateFile /\ k \in Cursor
  /\ pc' = [pc EXCEPT ![b] = p] /\ mem' = [mem EXCEPT ![b] = m] /\ cur' = [cur EXCEPT ![b] = k]
  /\ p \in Steps => m = file[b]
  /\ p = "save" /\ b = "clearing" => ClearingFile(m)' /\ Ordered(file[b]) \subseteq Ordered(m)
  /\ p = "save" /\ b = "order" =>
       /\ OrderFile(m)' /\ Len(m.treasuries) = 1 /\ file["order"].treasuries = <<>>
       /\ Known(m) \cap Known(file["clearing"]) = {}
  /\ p = "activate" => t.op = "submit" /\ Valid(t) /\ k = cur[b]
  /\ b = "clearing" => ClearingAt'
  /\ b = "order" => OrderAt'
  /\ t.op = "submit" /\ nonce' # nonce => p = "activate"
  /\ t.op = "activate" => Past(t.safe)'

\* Then everything else stays as it should be.
LEMMA ReceiptKeeps ==
  ASSUME IInv, Mine, NEW t, NEW b, NEW p, NEW m, NEW k, Lands(t, b, p, m, k)
  PROVE  IInv'
<1>0. /\ t = Head(pending) /\ t.awaited /\ b = t.by
      /\ p \in Steps \cup {"off", "save", "done"} /\ m \in StateFile /\ k \in Cursor
      /\ pc' = [pc EXCEPT ![b] = p] /\ mem' = [mem EXCEPT ![b] = m] /\ cur' = [cur EXCEPT ![b] = k]
      /\ p \in Steps => m = file[b]
      /\ p = "save" /\ b = "clearing" => ClearingFile(m)' /\ Ordered(file[b]) \subseteq Ordered(m)
      /\ p = "save" /\ b = "order" =>
           /\ OrderFile(m)' /\ Len(m.treasuries) = 1 /\ file["order"].treasuries = <<>>
           /\ Known(m) \cap Known(file["clearing"]) = {}
      /\ p = "activate" => t.op = "submit" /\ Valid(t) /\ k = cur[b]
      /\ b = "clearing" => ClearingAt'
      /\ b = "order" => OrderAt'
      /\ t.op = "submit" /\ nonce' # nonce => p = "activate"
      /\ t.op = "activate" => Past(t.safe)'
  BY DEF Lands
<1> USE <1>0
<1>1. /\ t \in Call /\ 1 \in DOMAIN pending /\ t = pending[1] /\ CallOK(t)
      /\ AwaitedOK(t) /\ Busy(b) /\ Mined(t) /\ (Valid(t) => Effect(t))
  BY MineMines
<1>2. /\ TypeOK /\ ChainOK /\ FilesOK /\ OneRuns /\ ActivatingOK /\ ClearingAt /\ OrderAt
      /\ PendingOK /\ NoncesPaid /\ UnbackedIsExplained /\ ChainTypes /\ ScriptTypes
  BY TypesSplit DEF IInv
<1>3. /\ ChainTypes' /\ ChainOK' /\ Grows /\ UnbackedIsExplained' /\ OrdersMove(t) /\ NoncesMove(t)
      /\ pending' \in Seq(Call) /\ file' = file /\ mishaps' = mishaps
      /\ \A i \in DOMAIN pending' :
           /\ i \in Nat \ {0} /\ i + 1 \in DOMAIN pending /\ pending'[i] = pending[i + 1]
           /\ CallOK(pending[i])'
  BY <1>1 DEF Mined
<1>4. /\ b \in Scripts /\ pc[b] = t.op /\ t.op \in Steps /\ pc[b] \notin {"off", "done", "save"}
      /\ t.op \notin {"create", "seal", "open", "clear", "publish"} =>
           t.safe = cur[b].safe /\ t.order = cur[b].order
  BY <1>1, CallFields DEF AwaitedOK, Steps
<1>5. /\ pc'[b] = p /\ mem'[b] = m /\ cur'[b] = k
      /\ \A c \in Scripts \ {b} : /\ pc'[c] = pc[c] /\ mem'[c] = mem[c] /\ cur'[c] = cur[c]
                                  /\ pc[c] \in {"off", "done"}
  BY <1>1, <1>2, <1>4 DEF ScriptTypes, OneRuns, Busy
<1>6. \A i \in DOMAIN pending' : ~pending'[i].awaited
  <2> SUFFICES ASSUME NEW i \in DOMAIN pending', pending'[i].awaited PROVE FALSE
    OBVIOUS
  <2>1. i + 1 = 1 /\ i \in Nat \ {0}
    BY <1>1, <1>2, <1>3 DEF OneRuns
  <2> QED BY <2>1
<1>7. TypeOK'
  <2>1. ScriptTypes'
    BY <1>2, <1>3, <1>4 DEF ScriptTypes, Cursor
  <2> QED BY <1>3, <2>1 DEF TypeOK, ChainTypes, ScriptTypes
<1>8. FilesOK'
  <2>1. PICK f, g : f = file["clearing"] /\ g = file["order"]
    OBVIOUS
  <2>2. f \in StateFile /\ g \in StateFile
    BY <1>2, <2>1, EpochsListed DEF ScriptTypes
  <2>3. ClearingFile(f)' /\ OrderFile(g)'
    BY <1>1, <1>2, <2>1, <2>2, HeldFilesStay DEF FilesOK
  <2>4. \A c \in Scripts : Busy(c)' /\ pc'[c] # "save" => mem'[c] = file'[c]
    <3> SUFFICES ASSUME NEW c \in Scripts, Busy(c)', pc'[c] # "save" PROVE mem'[c] = file'[c]
      OBVIOUS
    <3>1. c = b
      BY <1>5 DEF Busy
    <3>2. p \in Steps
      BY <1>5, <3>1 DEF Busy
    <3> QED BY <1>3, <1>5, <3>1, <3>2
  <2>5. pc'["clearing"] = "save" =>
          ClearingFile(mem["clearing"])' /\ Ordered(file'["clearing"]) \subseteq Ordered(mem'["clearing"])
    <3> SUFFICES ASSUME pc'["clearing"] = "save"
                 PROVE  /\ ClearingFile(mem["clearing"])'
                        /\ Ordered(file'["clearing"]) \subseteq Ordered(mem'["clearing"])
      OBVIOUS
    <3>1. b = "clearing" /\ p = "save"
      BY <1>5, EpochsListed
    <3> QED BY <1>3, <1>5, <3>1
  <2>6. pc'["order"] = "save" =>
          /\ OrderFile(mem["order"])' /\ Len(mem'["order"].treasuries) = 1
          /\ file'["order"].treasuries = <<>>
          /\ Known(mem'["order"]) \cap Known(file'["clearing"]) = {}
    <3> SUFFICES ASSUME pc'["order"] = "save"
                 PROVE  /\ OrderFile(mem["order"])' /\ Len(mem'["order"].treasuries) = 1
                        /\ file'["order"].treasuries = <<>>
                        /\ Known(mem'["order"]) \cap Known(file'["clearing"]) = {}
      OBVIOUS
    <3>1. b = "order" /\ p = "save"
      BY <1>5, EpochsListed
    <3> QED BY <1>3, <1>5, <3>1
  <2> QED BY <1>3, <2>1, <2>3, <2>4, <2>5, <2>6 DEF FilesOK, Known, Ordered, Unordered
<1>9. OneRuns'
  BY <1>5, <1>6 DEF OneRuns, Busy
<1>10. ActivatingOK'
  <2> SUFFICES ASSUME NEW c \in Scripts, pc'[c] = "activate"
               PROVE  LET o == cur'[c].order IN
                      /\ o \in Orders /\ o[1] = cur'[c].safe /\ cur'[c].safe <= made'
                      /\ orders'[o] = "Submitted" /\ Installed \subseteq safe'[o[1]]
                      /\ \A i \in DOMAIN pending' :
                           pending'[i].op = "activate" /\ pending'[i].order = o => pending'[i].awaited
    BY DEF ActivatingOK
  <2>1. c = b /\ p = "activate" /\ t.op = "submit" /\ Valid(t) /\ cur'[c] = cur[b]
    BY <1>5
  <2>2. t.safe = cur[b].safe /\ t.order = cur[b].order
    BY <1>4, <2>1
  <2>3. orders[t.order] = "None" /\ orders'[t.order] = "Submitted" /\ Installed \subseteq safe'[t.safe]
        /\ made' = made
    <3>1. Effect(t) /\ UNCHANGED <<calm, expired, mishaps>>
      BY <1>1, <2>1 DEF Mine
    <3> QED BY <1>1, <1>2, <2>1, <3>1, SubmitEffect
  <2>4. t.order \in Orders /\ t.order[1] = t.safe /\ t.safe <= made
    BY <1>1, <2>1 DEF CallOK
  <2>5. ASSUME NEW i \in DOMAIN pending', pending'[i].op = "activate", pending'[i].order = t.order
        PROVE  FALSE
    BY <1>2, <1>3, <2>3, <2>5 DEF PendingOK, CallOK
  <2> QED BY <2>1, <2>2, <2>3, <2>4, <2>5
<1>11. ClearingAt'
  <2>1. CASE b = "clearing"
    BY <2>1
  <2>2. CASE b = "order"
    BY <1>5, <2>2, EpochsListed DEF ClearingAt
  <2> QED BY <1>4, <2>1, <2>2, EpochsListed
<1>12. OrderAt'
  <2>1. CASE b = "order"
    BY <2>1
  <2>2. CASE b = "clearing"
    <3>1. pc'["order"] = pc["order"] /\ pc["order"] \in {"off", "done"} /\ cur'["order"] = cur["order"]
      BY <1>5, <2>2, EpochsListed
    <3> QED BY <1>2, <1>3, <3>1 DEF OrderAt
  <2> QED BY <1>4, <2>1, <2>2, EpochsListed
<1>13. PendingOK'
  BY <1>3, <1>6 DEF PendingOK
<1>14. NoncesPaid'
  <2>1. ASSUME NEW x \in SafeIds, Past(x) PROVE Past(x)'
    <3>1. CASE \E c \in Scripts : pc[c] = "activate" /\ cur[c].safe = x
      <4>1. pc[b] = "activate" /\ cur[b].safe = x
        BY <1>5, <3>1
      <4> QED BY <1>4, <4>1
    <3>2. CASE pc["clearing"] = "save" /\ x \in Ordered(mem["clearing"])
      BY <1>4, <1>5, <3>2, EpochsListed
    <3>3. CASE x \in Ordered(file["clearing"])
      BY <1>3, <3>3 DEF Past, Ordered, Unordered
    <3>4. CASE pc["order"] = "done" /\ x \in Known(file["order"])
      <4>1. pc'["order"] = "done"
        BY <1>4, <1>5, <3>4, EpochsListed
      <4> QED BY <1>3, <3>4, <4>1 DEF Past, Known
    <3> QED BY <2>1, <3>1, <3>2, <3>3, <3>4 DEF Past
  <2>2. t.op = "submit" /\ t.awaited /\ nonce' # nonce => Past(t.safe)'
    <3> SUFFICES ASSUME t.op = "submit", nonce' # nonce PROVE Past(t.safe)'
      OBVIOUS
    <3>1. p = "activate" /\ k = cur[b] /\ t.safe = cur[b].safe
      BY <1>4
    <3>2. pc'[b] = "activate" /\ cur'[b].safe = t.safe
      BY <1>5, <3>1
    <3> QED BY <1>4, <3>2 DEF Past
  <2> QED BY <1>1, <2>1, <2>2, NoncesStayPaid
<1> QED BY <1>3, <1>7, <1>8, <1>9, <1>10, <1>11, <1>12, <1>13, <1>14 DEF IInv

\* What is so when a script gets the receipt it waits for.
LEMMA ReceiptBegins ==
  ASSUME IInv, Mine, NEW t, t = Head(pending), t.awaited, NEW b, b = t.by
  PROVE  /\ t \in Call /\ CallOK(t) /\ AwaitedOK(t) /\ Mined(t)
         /\ b \in Scripts /\ pc[b] = t.op /\ t.op \in Steps
         /\ mem[b] = file[b] /\ mem[b] \in StateFile /\ cur[b] \in Cursor
         /\ UNCHANGED <<calm, expired, mishaps, file>>
         /\ Valid(t) => /\ Effect(t) /\ mem' = [mem EXCEPT ![b] = Landed(t)]
                        /\ pc' = [pc EXCEPT ![b] = IF Landed(t) # mem[b] THEN "save" ELSE After(b)]
                        /\ cur' = IF t.op = "create" THEN [cur EXCEPT ![b].safe = made'] ELSE cur
         /\ Valid(t) /\ Landed(t) = mem[b] =>
              mem' = mem /\ pc' = [pc EXCEPT ![b] = After(b)] /\ pc'[b] = After(b)
         /\ Valid(t) /\ Landed(t) # mem[b] =>
              mem'[b] = Landed(t) /\ pc' = [pc EXCEPT ![b] = "save"] /\ pc'[b] = "save"
         /\ ~Valid(t) =>
              pc' = [pc EXCEPT ![b] = "off"] /\ pc'[b] = "off" /\ UNCHANGED <<mem, cur, nonce>>
<1>1. /\ t \in Call /\ CallOK(t) /\ AwaitedOK(t) /\ Busy(b) /\ Mined(t) /\ Receipt(t)
      /\ (Valid(t) => Effect(t))
  BY MineMines
<1>2. TypeOK /\ FilesOK /\ ScriptTypes
  BY TypesSplit DEF IInv
<1>3. b \in Scripts /\ pc[b] = t.op /\ t.op \in Steps
  BY <1>1, CallFields DEF AwaitedOK
<1>4. mem[b] = file[b] /\ mem[b] \in StateFile /\ cur[b] \in Cursor
  BY <1>1, <1>2, <1>3 DEF FilesOK, ScriptTypes, Cursor, Steps
<1>5. UNCHANGED <<calm, expired, mishaps, file>>
  BY DEF Mine
<1>6. ASSUME ~Valid(t)
      PROVE  pc' = [pc EXCEPT ![b] = "off"] /\ pc'[b] = "off" /\ UNCHANGED <<mem, cur, nonce>>
  <2>1. pc' = [pc EXCEPT ![b] = "off"] /\ UNCHANGED <<mem, cur>>
    BY <1>1, <1>6 DEF Receipt, Go
  <2>2. UNCHANGED nonce
    BY <1>6 DEF Mine, safeVars
  <2> QED BY <1>2, <1>3, <2>1, <2>2 DEF ScriptTypes
<1>7. ASSUME Valid(t)
      PROVE  /\ mem' = [mem EXCEPT ![b] = Landed(t)]
             /\ pc' = [pc EXCEPT ![b] = IF Landed(t) # mem[b] THEN "save" ELSE After(b)]
             /\ cur' = IF t.op = "create" THEN [cur EXCEPT ![b].safe = made'] ELSE cur
  BY <1>1, <1>7 DEF Receipt, Go
<1>8. ASSUME Valid(t), Landed(t) = mem[b]
      PROVE  mem' = mem /\ pc' = [pc EXCEPT ![b] = After(b)] /\ pc'[b] = After(b)
  <2>1. PICK m : m = mem[b]
    OBVIOUS
  <2>2. mem' = [mem EXCEPT ![b] = m] /\ pc' = [pc EXCEPT ![b] = After(b)]
    BY <1>7, <1>8, <2>1
  <2> QED BY <1>2, <1>3, <2>1, <2>2 DEF ScriptTypes
<1>9. ASSUME Valid(t), Landed(t) # mem[b]
      PROVE  mem'[b] = Landed(t) /\ pc' = [pc EXCEPT ![b] = "save"] /\ pc'[b] = "save"
  BY <1>2, <1>3, <1>7, <1>9 DEF ScriptTypes
<1> QED BY <1>1, <1>3, <1>4, <1>5, <1>6, <1>7, <1>8, <1>9

\* What the receipt of prove-order finds.
LEMMA OrderReceipt ==
  ASSUME IInv, Mine, NEW t, t = Head(pending), t.awaited, Valid(t), t.by = "order"
  PROVE  /\ t \in Call /\ CallOK(t) /\ AwaitedOK(t) /\ pc["order"] = t.op /\ Effect(t) /\ Mined(t)
         /\ mem["order"] = file["order"] /\ mem["order"] \in StateFile /\ OrderAt
         /\ file["clearing"] \in StateFile /\ ClearingFile(file["clearing"])
         /\ file' = file /\ UNCHANGED <<calm, expired, mishaps>> /\ ChainTypes /\ ChainTypes' /\ Grows
         /\ mishaps'.refused < MaxRefused
         /\ (Landed(t) = mem["order"] => mem' = mem /\ pc'["order"] = After("order"))
         /\ (t.op # "create" => cur' = cur)
<1>1. PICK b : b = t.by
  OBVIOUS
<1>2. FilesOK /\ TypeOK /\ OrderAt /\ ChainTypes
  BY TypesSplit DEF IInv
<1>3. Mined(t)
  BY <1>1, ReceiptBegins
<1>4. ChainTypes' /\ Grows
  BY <1>3 DEF Mined
<1>5. mishaps'.refused < MaxRefused
  <2>1. pc["order"] \in Steps /\ mishaps' = mishaps
    BY <1>1, ReceiptBegins
  <2> QED BY <2>1, OrderUnderWay
<1> QED BY <1>1, <1>2, <1>4, <1>5, ReceiptBegins, EpochsListed DEF FilesOK, TypeOK

\* A call that reverts ends its script; an activation does not revert.
LEMMA ReceiptReverts ==
  ASSUME IInv, Mine, NEW t, t = Head(pending), t.awaited, ~Valid(t)
  PROVE  IInv'
<1>1. PICK b, k, m : b = t.by /\ k = cur[b] /\ m = mem[b]
  OBVIOUS
<1>2. /\ t \in Call /\ AwaitedOK(t) /\ b \in Scripts /\ pc[b] = t.op
      /\ m \in StateFile /\ k \in Cursor
      /\ pc' = [pc EXCEPT ![b] = "off"] /\ pc'[b] = "off" /\ UNCHANGED <<mem, cur, nonce>>
  BY <1>1, ReceiptBegins
<1>3. t.op # "activate"
  <2> SUFFICES ASSUME t.op = "activate" PROVE FALSE
    OBVIOUS
  <2>1. t.safe = cur[b].safe /\ t.order = cur[b].order
    BY <1>1, <1>2 DEF AwaitedOK
  <2>2. cur[b].order[1] = cur[b].safe /\ orders[cur[b].order] = "Submitted"
        /\ Installed \subseteq safe[cur[b].order[1]]
    BY <1>2 DEF IInv, ActivatingOK
  <2>3. "shielded" \in safe[t.safe]
    BY <1>2 DEF AwaitedOK
  <2>4. Valid(t)
    BY <2>1, <2>2, <2>3 DEF Valid
  <2> QED BY <2>4
<1>4. mem' = [mem EXCEPT ![b] = m] /\ cur' = [cur EXCEPT ![b] = k]
  BY <1>1, <1>2, TypesSplit DEF IInv, ScriptTypes
<1>5. b = "clearing" => ClearingAt'
  BY <1>2 DEF ClearingAt
<1>6. b = "order" => OrderAt'
  BY <1>2 DEF OrderAt
<1>7. "off" \notin Steps
  BY DEF Steps
<1>8. Lands(t, b, "off", m, k)
  BY <1>1, <1>2, <1>3, <1>4, <1>5, <1>6, <1>7 DEF Lands
<1> QED BY <1>8, ReceiptKeeps

\* One that leaves the file as it is takes it a step further.
LEMMA ReceiptGoesOn ==
  ASSUME IInv, Mine, NEW t, t = Head(pending), t.awaited, Valid(t), t.op # "create", NEW b, b = t.by,
         Landed(t) = mem[b], NEW p \in Steps \cup {"done"}, p = After(b),
         p = "activate" <=> t.op = "submit", t.op = "activate" => Past(t.safe)',
         b = "clearing" => ClearingAt', b = "order" => OrderAt'
  PROVE  IInv'
<1>1. PICK k, m : k = cur[b] /\ m = mem[b]
  OBVIOUS
<1>2. /\ b \in Scripts /\ m = file[b] /\ m \in StateFile /\ k \in Cursor
      /\ mem' = mem /\ cur' = cur /\ pc' = [pc EXCEPT ![b] = p]
  BY <1>1, ReceiptBegins
<1>3. mem' = [mem EXCEPT ![b] = m] /\ cur' = [cur EXCEPT ![b] = k]
  BY <1>1, <1>2, TypesSplit DEF IInv, ScriptTypes
<1>4. p # "save"
  BY DEF Steps
<1>5. Lands(t, b, p, m, k)
  BY <1>1, <1>2, <1>3, <1>4 DEF Lands
<1> QED BY <1>5, ReceiptKeeps

\* One that changes the file is saved before anything else.
LEMMA ReceiptSaves ==
  ASSUME IInv, Mine, NEW t, t = Head(pending), t.awaited, Valid(t), t.op \notin {"submit"}, NEW b, b = t.by,
         NEW m \in StateFile, m = Landed(t), m # mem[b], made' \in 0 .. MaxSafes,
         b = "clearing" => ClearingFile(m)' /\ Ordered(mem[b]) \subseteq Ordered(m),
         b = "order" =>
           /\ OrderFile(m)' /\ Len(m.treasuries) = 1 /\ file["order"].treasuries = <<>>
           /\ Known(m) \cap Known(file["clearing"]) = {},
         t.op = "activate" => Past(t.safe)'
  PROVE  IInv'
<1>1. /\ b \in Scripts /\ cur[b] \in Cursor /\ Mined(t) /\ t \in Call /\ mem[b] = file[b]
      /\ mem' = [mem EXCEPT ![b] = m] /\ pc' = [pc EXCEPT ![b] = "save"] /\ pc'[b] = "save"
      /\ cur' = IF t.op = "create" THEN [cur EXCEPT ![b].safe = made'] ELSE cur
  BY ReceiptBegins
<1>2. PICK k \in Cursor : cur' = [cur EXCEPT ![b] = k]
  <2>1. cur \in [Scripts -> Cursor]
    BY TypesSplit DEF IInv, ScriptTypes, Cursor
  <2>2. CASE t.op = "create"
    <3>1. PICK k : k = [cur[b] EXCEPT !.safe = made']
      OBVIOUS
    <3>2. k \in Cursor /\ cur' = [cur EXCEPT ![b] = k]
      BY <1>1, <2>2, <3>1 DEF Cursor
    <3> QED BY <3>2
  <2>3. CASE t.op # "create"
    <3>1. cur' = [cur EXCEPT ![b] = cur[b]]
      BY <1>1, <2>1, <2>3
    <3> QED BY <1>1, <3>1
  <2> QED BY <2>2, <2>3
<1>3. b = "clearing" => ClearingAt'
  BY <1>1 DEF ClearingAt
<1>4. b = "order" => OrderAt'
  <2> SUFFICES ASSUME b = "order" PROVE OrderAt'
    OBVIOUS
  <2>1. mishaps'.refused < MaxRefused
    BY OrderReceipt
  <2> QED BY <1>1, <2>1 DEF OrderAt
<1>5. "save" \notin Steps
  BY DEF Steps
<1>6. Lands(t, b, "save", m, k)
  BY <1>1, <1>2, <1>3, <1>4, <1>5 DEF Lands
<1> QED BY <1>6, ReceiptKeeps

\* What the receipt of prove-clearing finds.
LEMMA ClearingReceipt ==
  ASSUME IInv, Mine, NEW t, t = Head(pending), t.awaited, Valid(t), t.by = "clearing"
  PROVE  /\ t \in Call /\ CallOK(t) /\ AwaitedOK(t) /\ pc["clearing"] = t.op /\ Effect(t) /\ Mined(t)
         /\ mem["clearing"] = file["clearing"] /\ mem["clearing"] \in StateFile
         /\ ClearingFile(mem["clearing"]) /\ OrderFile(file["order"]) /\ file["order"] \in StateFile
         /\ file' = file /\ UNCHANGED <<calm, expired, mishaps>>
         /\ (Landed(t) = mem["clearing"] => mem' = mem /\ pc'["clearing"] = After("clearing"))
         /\ (t.op # "create" => cur' = cur)
<1>1. PICK b : b = t.by
  OBVIOUS
<1>2. FilesOK /\ TypeOK
  BY DEF IInv
<1> QED BY <1>1, <1>2, ReceiptBegins, EpochsListed DEF FilesOK, TypeOK

\* A new Safe is in no file.
LEMMA ClearingCreated ==
  ASSUME IInv, Mine, NEW t, t = Head(pending), t.awaited, Valid(t), t.by = "clearing", t.op = "create"
  PROVE  IInv'
<1>1. PICK b, m, f : b = "clearing" /\ m = mem["clearing"] /\ f = file["order"]
  OBVIOUS
<1>2. /\ AwaitedOK(t) /\ pc[b] = "create" /\ m = file[b] /\ m \in StateFile /\ f \in StateFile
      /\ ClearingFile(m) /\ OrderFile(f) /\ file' = file
  BY <1>1, ClearingReceipt
<1>3. Landed(t) = m
  BY <1>1 DEF Landed
<1>4. /\ b \in Scripts /\ cur[b] \in Cursor /\ mem' = mem /\ pc' = [pc EXCEPT ![b] = After(b)]
      /\ pc'[b] = After(b) /\ cur' = [cur EXCEPT ![b].safe = made']
  BY <1>1, <1>3, ReceiptBegins
<1>5. After(b) = "deploy" /\ "deploy" \in Steps
  BY <1>2 DEF After, Steps
<1>6. made' = made + 1 /\ made \in Nat /\ made' \in 0 .. MaxSafes /\ nonce' = nonce
  <2>1. made' = made + 1 /\ Mined(t) /\ Effect(t)
    BY MineMines
  <2>2. nonce' = nonce
    BY <2>1, GainsListed DEF Effect, Installing
  <2> QED BY <2>1, <2>2 DEF IInv, TypeOK, Mined, ChainTypes
<1>7. PICK k : k = [cur[b] EXCEPT !.safe = made']
  OBVIOUS
<1>8. k \in Cursor /\ cur' = [cur EXCEPT ![b] = k] /\ cur'[b].safe = made'
  <2>1. cur \in [Scripts -> Cursor]
    BY TypesSplit DEF IInv, ScriptTypes, Cursor
  <2> QED BY <1>4, <1>6, <1>7, <2>1 DEF Cursor
<1>9. made' \notin Known(m) \cup Known(f)
  <2>1. \A i \in DOMAIN m.treasuries : m.treasuries[i].safe <= made
    BY <1>2 DEF ClearingFile
  <2>2. \A i \in DOMAIN f.treasuries : f.treasuries[i].safe <= made
    BY <1>2 DEF OrderFile
  <2>3. ~(made' <= made)
    BY <1>6
  <2> QED BY <2>1, <2>2, <2>3 DEF Known
<1>10. ClearingAt'
  <2>1. Len(m.treasuries) < N
    BY <1>1, <1>2 DEF IInv, ClearingAt
  <2>2. made' \in 1 .. made'
    BY <1>6
  <2>3. /\ pc'["clearing"] = "deploy" /\ mem'["clearing"] = m /\ file'["order"] = f
        /\ cur'["clearing"].safe = made'
    BY <1>1, <1>2, <1>4, <1>5, <1>8
  <2> QED BY <1>9, <2>1, <2>2, <2>3 DEF ClearingAt, Known
<1>11. mem' = [mem EXCEPT ![b] = m]
  BY <1>1, <1>4, TypesSplit DEF IInv, ScriptTypes
<1>12. Lands(t, b, "deploy", m, k)
  BY <1>1, <1>2, <1>4, <1>5, <1>6, <1>8, <1>10, <1>11 DEF Lands
<1> QED BY <1>12, ReceiptKeeps

\* A call that gives its Safe a feature, but the last.
LEMMA ClearingGains ==
  ASSUME IInv, Mine, NEW t, t = Head(pending), t.awaited, Valid(t), t.by = "clearing",
         t.op \in {"deploy", "enable", "guard", "fund"}
  PROVE  IInv'
<1>1. PICK b, p : b = t.by /\ p = After(b)
  OBVIOUS
<1>2. Landed(t) = mem[b]
  BY <1>1 DEF Landed
<1>3. /\ pc["clearing"] = t.op /\ mem' = mem /\ file' = file /\ cur' = cur /\ pc'["clearing"] = p
      /\ t \in Call /\ CallOK(t) /\ Effect(t) /\ Mined(t)
  BY <1>1, <1>2, ClearingReceipt
<1>4. p \in {"enable", "guard", "fund", "shield"}
  BY <1>1, <1>3 DEF After
<1>5. made' = made
  BY MineMines
<1>6. ClearingAt'
  BY <1>3, <1>4, <1>5 DEF IInv, ClearingAt, Known
<1>7. p \in Steps /\ p # "activate"
  BY <1>4 DEF Steps
<1> QED BY <1>1, <1>2, <1>6, <1>7, ReceiptGoesOn

\* The calls after which it only goes on.
LEMMA ClearingGoesOn ==
  ASSUME IInv, Mine, NEW t, t = Head(pending), t.awaited, Valid(t), t.by = "clearing",
         t.op \in {"open", "clear", "publish"}
  PROVE  IInv'
<1>1. PICK b, p, m : b = t.by /\ p = After(b) /\ m = mem["clearing"]
  OBVIOUS
<1>2. Landed(t) = mem[b]
  BY <1>1 DEF Landed
<1>3. /\ pc["clearing"] = t.op /\ mem' = mem /\ file' = file /\ cur' = cur /\ pc'["clearing"] = p
      /\ m \in StateFile /\ ClearingFile(m)
  BY <1>1, <1>2, ClearingReceipt
<1>4. /\ p \in {"create", "submit", "seal", "clear", "publish", "done"}
      /\ p = "create" => Len(m.treasuries) < N
      /\ p = "submit" => Unordered(m) # {}
      /\ p = "seal" => Len(m.treasuries) = N /\ Unordered(m) = {}
  <2>1. CASE t.op = "open"
    <3>1. p = Resume(m)
      BY <1>1, <1>3, <2>1 DEF After
    <3> QED BY <1>3, <3>1, ResumeFits DEF ClearingFile
  <2>2. CASE t.op \in {"clear", "publish"}
    BY <1>1, <1>3, <2>2 DEF After
  <2> QED BY <2>1, <2>2
<1>5. ClearingAt'
  BY <1>1, <1>3, <1>4 DEF ClearingAt, Unordered
<1>6. p \in Steps \cup {"done"} /\ p # "activate"
  BY <1>4 DEF Steps
<1> QED BY <1>1, <1>2, <1>5, <1>6, ReceiptGoesOn

LEMMA ClearingSubmitted ==
  ASSUME IInv, Mine, NEW t, t = Head(pending), t.awaited, Valid(t), t.by = "clearing", t.op = "submit"
  PROVE  IInv'
<1>1. PICK b, p : b = t.by /\ p = After(b)
  OBVIOUS
<1>2. Landed(t) = mem[b]
  BY <1>1 DEF Landed
<1>3. /\ pc["clearing"] = t.op /\ mem' = mem /\ file' = file /\ cur' = cur /\ pc'["clearing"] = p
      /\ AwaitedOK(t)
  BY <1>1, <1>2, ClearingReceipt
<1>4. p = "activate" /\ "activate" \in Steps
  BY <1>1, <1>3 DEF After, Steps
<1>5. ClearingAt'
  BY <1>3, <1>4 DEF IInv, ClearingAt, Unordered, NextTreasury, AwaitedOK
<1> QED BY <1>1, <1>2, <1>4, <1>5, ReceiptGoesOn

-----------------------------------------------------------------------------
(* The receipts that prove-clearing writes down. *)

\* A treasury that is made has all features, and is no other's.
LEMMA ClearingShielded ==
  ASSUME IInv, Mine, NEW t, t = Head(pending), t.awaited, Valid(t), t.by = "clearing", t.op = "shield"
  PROVE  IInv'
<1>1. PICK b, m, x : b = t.by /\ m = mem["clearing"] /\ x = [safe |-> t.safe, order |-> NoOrder]
  OBVIOUS
<1>2. /\ t \in Call /\ CallOK(t) /\ AwaitedOK(t) /\ Effect(t) /\ Mined(t) /\ pc["clearing"] = "shield"
      /\ m = file[b] /\ m \in StateFile /\ ClearingFile(m) /\ file' = file
      /\ UNCHANGED <<calm, expired, mishaps>>
  BY <1>1, ClearingReceipt
<1>3. t.safe \in 1 .. made /\ t.safe \in SafeIds /\ t.safe = cur["clearing"].safe
  <2>1. t.op \in DOMAIN Gains
    BY GainsListed DEF Installing
  <2>2. t.safe \in 1 .. made
    BY <1>2, <2>1 DEF CallOK
  <2>3. made \in 0 .. MaxSafes /\ MaxSafes \in Nat
    BY RehearsalAssumption DEF RehearsalAssumption, IInv, TypeOK
  <2>4. t.safe \in SafeIds
    BY <2>2, <2>3 DEF SafeIds
  <2>5. t.safe = cur["clearing"].safe
    BY <1>2 DEF AwaitedOK
  <2> QED BY <2>2, <2>4, <2>5
<1>4. t.safe \notin Known(m) /\ t.safe \notin Known(file["order"]) /\ Len(m.treasuries) < N
  BY <1>1, <1>2, <1>3 DEF IInv, ClearingAt
<1>5. safe'[t.safe] = Features /\ made' = made /\ ChainTypes' /\ Grows /\ ChainTypes
  <2>1. ChainTypes /\ ChainOK /\ t.op \in Installing
    BY TypesSplit DEF IInv, Installing
  <2>2. safe'[t.safe] = Features
    BY <1>2, <2>1, GainEffect
  <2>3. made' = made
    BY MineMines
  <2> QED BY <1>2, <2>1, <2>2, <2>3 DEF Mined
<1> DEFINE q == m.treasuries
<1>6. /\ q \in Seq(Treasury) /\ Len(q) \in Nat /\ DOMAIN q = 1 .. Len(q) /\ m.sealed \in BOOLEAN
      /\ x \in Treasury /\ x.safe = t.safe /\ x.order = NoOrder
  BY <1>1, <1>2, <1>3, FileFields DEF Treasury
<1>7. PICK r : r = Append(q, x)
  OBVIOUS
<1>8. /\ r \in Seq(Treasury) /\ Len(r) = Len(q) + 1 /\ r # q
      /\ DOMAIN r = 1 .. Len(q) + 1 /\ r[Len(q) + 1] = x /\ \A i \in DOMAIN q : r[i] = q[i]
  <2> HIDE DEF q
  <2>1. q \in Seq(Treasury) /\ x \in Treasury
    BY <1>6
  <2>2. /\ Append(q, x) \in Seq(Treasury)
        /\ DOMAIN Append(q, x) = 1 .. Len(q) + 1 /\ DOMAIN q = 1 .. Len(q)
        /\ Append(q, x)[Len(q) + 1] = x /\ \A i \in 1 .. Len(q) : Append(q, x)[i] = q[i]
    BY <2>1, AppendHolds
  <2>3. Len(Append(q, x)) = Len(q) + 1
    BY <2>1
  <2>4. Append(q, x) # q
    <3>1. PICK k : k = Len(q)
      OBVIOUS
    <3>2. k \in Nat
      BY <1>6, <3>1, Zenon
    <3>3. k + 1 # k
      BY <3>2
    <3> QED BY <2>3, <3>1, <3>3
  <2> QED BY <1>7, <2>2, <2>3, <2>4
<1>9. PICK n : n = [m EXCEPT !.treasuries = r]
  OBVIOUS
<1>10. n \in StateFile /\ n.treasuries = r /\ n.sealed = m.sealed /\ n # m /\ n = Landed(t)
  <2>1. n = [m EXCEPT !.treasuries = Append(m.treasuries, x)]
    BY <1>7, <1>9
  <2>2. n = Landed(t)
    BY <1>1, <2>1 DEF Landed
  <2>3. n \in StateFile /\ n.treasuries = r /\ n.sealed = m.sealed
    BY <1>2, <1>8, <1>9 DEF StateFile
  <2> QED BY <1>8, <2>2, <2>3
<1>11. ~m.sealed
  BY <1>2, <1>4, <1>6, RehearsalAssumption DEF ClearingFile, RehearsalAssumption
<1>12. ClearingFile(m)'
  <2>1. \A i \in DOMAIN m.treasuries : m.treasuries[i].safe \notin Known(file'["order"])
    BY <1>2 DEF ClearingFile
  <2> QED BY <1>2, <1>5, <2>1, ClearingFileStays
<1>13. ClearingFile(n)'
  <2>1. Len(r) <= N
    BY <1>4, <1>6, <1>8, RehearsalAssumption DEF RehearsalAssumption
  <2>2. \A i \in DOMAIN q :
          /\ q[i].safe <= made' /\ safe'[q[i].safe] = Features /\ q[i].safe \notin Known(file'["order"])
          /\ q[i].order # NoOrder => q[i].order[1] = q[i].safe
          /\ q[i].safe # t.safe
    BY <1>4, <1>12 DEF ClearingFile, Known
  <2>3. \A i, j \in DOMAIN q : q[i].safe = q[j].safe => i = j
    BY <1>2 DEF ClearingFile
  <2>4. x.safe <= made' /\ safe'[x.safe] = Features /\ x.safe \notin Known(file'["order"])
    BY <1>2, <1>3, <1>4, <1>5, <1>6
  <2> HIDE DEF q
  <2>5. \A i \in DOMAIN r : (i \in DOMAIN q /\ r[i] = q[i]) \/ (i = Len(q) + 1 /\ r[i] = x)
    BY <1>6, <1>8
  <2>6. \A i \in DOMAIN r :
          /\ r[i].safe <= made' /\ safe'[r[i].safe] = Features /\ r[i].safe \notin Known(file'["order"])
          /\ r[i].order # NoOrder => r[i].order[1] = r[i].safe
    BY <1>6, <2>2, <2>4, <2>5
  <2>7. \A i, j \in DOMAIN r : r[i].safe = r[j].safe => i = j
    BY <1>6, <2>2, <2>3, <2>5
  <2> QED BY <1>10, <1>11, <2>1, <2>6, <2>7 DEF ClearingFile
<1>14. made' \in 0 .. MaxSafes
  BY <1>5 DEF ChainTypes
<1>15. Ordered(m) \subseteq Ordered(n)
  <2> SUFFICES ASSUME NEW i \in DOMAIN q, q[i].order # NoOrder PROVE q[i].safe \in Ordered(n)
    BY DEF Ordered, Unordered
  <2> HIDE DEF q
  <2>1. i \in DOMAIN r /\ r[i] = q[i]
    BY <1>6, <1>8
  <2> QED BY <1>10, <2>1 DEF Ordered, Unordered
<1> QED BY <1>1, <1>10, <1>13, <1>14, <1>15, ReceiptSaves

\* A sequence with one element replaced.
LEMMA ReplaceHolds ==
  ASSUME NEW S, NEW q \in Seq(S), NEW j \in DOMAIN q, NEW y \in S
  PROVE  /\ [q EXCEPT ![j] = y] \in Seq(S) /\ Len([q EXCEPT ![j] = y]) = Len(q)
         /\ DOMAIN [q EXCEPT ![j] = y] = DOMAIN q
         /\ \A i \in DOMAIN q : [q EXCEPT ![j] = y][i] = IF i = j THEN y ELSE q[i]
OBVIOUS

\* The order that is recorded is the treasury's own.
LEMMA ClearingActivated ==
  ASSUME IInv, Mine, NEW t, t = Head(pending), t.awaited, Valid(t), t.by = "clearing", t.op = "activate"
  PROVE  IInv'
<1>1. PICK b, m, j : b = t.by /\ m = mem["clearing"] /\ j = FirstUnordered(m)
  OBVIOUS
<1>2. /\ t \in Call /\ AwaitedOK(t) /\ Mined(t) /\ pc["clearing"] = "activate"
      /\ m = file[b] /\ m \in StateFile /\ ClearingFile(m) /\ file' = file
  BY <1>1, ClearingReceipt
<1>3. /\ t.safe = cur["clearing"].safe /\ t.order = cur["clearing"].order
      /\ t.order \in Orders /\ t.order[1] = t.safe /\ t.safe \in SafeIds
  <2>1. "clearing" \in Scripts
    BY DEF Scripts
  <2>2. t.safe = cur["clearing"].safe /\ t.order = cur["clearing"].order
    BY <1>2 DEF AwaitedOK
  <2>3. t.order \in Orders /\ t.order[1] = t.safe
    BY <1>2, <2>1, <2>2 DEF IInv, ActivatingOK
  <2> QED BY <2>2, <2>3, OrderParts
<1>4. Unordered(m) # {} /\ t.safe = m.treasuries[j].safe
  BY <1>1, <1>2, <1>3 DEF IInv, ClearingAt, NextTreasury
<1>5. j \in DOMAIN m.treasuries /\ m.treasuries[j].order = NoOrder
  BY <1>1, <1>2, <1>4, FirstIsUnordered
<1>6. PICK y : y = [m.treasuries[j] EXCEPT !.order = t.order]
  OBVIOUS
<1>7. y \in Treasury /\ y.safe = m.treasuries[j].safe /\ y.order = t.order
  <2>1. m.treasuries[j] \in Treasury
    BY <1>2, <1>5, FileFields
  <2> QED BY <1>3, <1>6, <2>1 DEF Treasury
<1> DEFINE q == m.treasuries
<1>8. q \in Seq(Treasury) /\ j \in DOMAIN q
  BY <1>2, <1>5, FileFields
<1>9. PICK r : r = [q EXCEPT ![j] = y]
  OBVIOUS
<1>10. /\ r \in Seq(Treasury) /\ Len(r) = Len(q) /\ DOMAIN r = DOMAIN q
       /\ \A i \in DOMAIN q : r[i] = IF i = j THEN y ELSE q[i]
  <2> HIDE DEF q
  <2>1. /\ [q EXCEPT ![j] = y] \in Seq(Treasury) /\ Len([q EXCEPT ![j] = y]) = Len(q)
        /\ DOMAIN [q EXCEPT ![j] = y] = DOMAIN q
        /\ \A i \in DOMAIN q : [q EXCEPT ![j] = y][i] = IF i = j THEN y ELSE q[i]
    BY <1>7, <1>8, ReplaceHolds
  <2> QED BY <1>9, <2>1
<1>11. PICK n : n = [m EXCEPT !.treasuries = r]
  OBVIOUS
<1>12. n \in StateFile /\ n.treasuries = r /\ n.sealed = m.sealed
  BY <1>2, <1>10, <1>11 DEF StateFile
<1>13. n = Landed(t)
  <2>1. n = [m EXCEPT !.treasuries[FirstUnordered(m)].order = t.order]
    BY <1>1, <1>6, <1>9, <1>11
  <2> QED BY <1>1, <2>1 DEF Landed
<1>14. n # m
  BY <1>3, <1>5, <1>7, <1>8, <1>10, <1>12, OrderParts
<1>15. ~m.sealed
  BY <1>2, <1>4 DEF ClearingFile
<1>16. ChainTypes /\ ChainTypes' /\ Grows
  BY <1>2, TypesSplit DEF IInv, Mined
<1>17. ClearingFile(n)'
  <2>1. ClearingFile(m)'
    <3>1. \A i \in DOMAIN m.treasuries : m.treasuries[i].safe \notin Known(file'["order"])
      BY <1>2 DEF ClearingFile
    <3> QED BY <1>2, <1>16, <3>1, ClearingFileStays
  <2>2. /\ Len(q) <= N
        /\ \A i \in DOMAIN q :
             /\ q[i].safe <= made' /\ safe'[q[i].safe] = Features /\ q[i].safe \notin Known(file'["order"])
             /\ q[i].order # NoOrder => q[i].order[1] = q[i].safe
        /\ \A i, k \in DOMAIN q : q[i].safe = q[k].safe => i = k
    BY <2>1 DEF ClearingFile
  <2>3. y.safe = q[j].safe /\ y.order[1] = y.safe
    BY <1>3, <1>4, <1>7
  <2> HIDE DEF q
  <2>4. \A i \in DOMAIN r : r[i].safe = q[i].safe /\ (i # j => r[i] = q[i]) /\ (i = j => r[i] = y)
    BY <1>10, <2>3
  <2>5. \A i \in DOMAIN r :
          /\ r[i].safe <= made' /\ safe'[r[i].safe] = Features /\ r[i].safe \notin Known(file'["order"])
          /\ r[i].order # NoOrder => r[i].order[1] = r[i].safe
    BY <1>10, <2>2, <2>3, <2>4
  <2>6. \A i, k \in DOMAIN r : r[i].safe = r[k].safe => i = k
    BY <1>10, <2>2, <2>4
  <2>7. Len(r) <= N
    BY <1>10, <2>2
  <2> QED BY <1>12, <1>15, <2>5, <2>6, <2>7 DEF ClearingFile
<1>18. Past(t.safe)'
  <2>1. mem'["clearing"] = n /\ pc'["clearing"] = "save"
    BY <1>1, <1>13, <1>14, ReceiptBegins
  <2>2. j \in DOMAIN n.treasuries /\ n.treasuries[j].safe = t.safe /\ n.treasuries[j].order # NoOrder
    BY <1>3, <1>4, <1>7, <1>8, <1>10, <1>12, OrderParts
  <2>3. t.safe \in Ordered(n)
    BY <2>2 DEF Ordered, Unordered
  <2>4. Ordered(mem'["clearing"]) = Ordered(n)
    BY <2>1
  <2> QED BY <2>1, <2>3, <2>4 DEF Past, Ordered, Unordered
<1>19. made' \in 0 .. MaxSafes
  BY <1>16 DEF ChainTypes
<1>20. Ordered(m) \subseteq Ordered(n)
  <2> SUFFICES ASSUME NEW i \in DOMAIN q, q[i].order # NoOrder PROVE q[i].safe \in Ordered(n)
    BY DEF Ordered, Unordered
  <2>1. i # j
    BY <1>5
  <2> HIDE DEF q
  <2>2. i \in DOMAIN r /\ r[i] = q[i]
    BY <1>10, <2>1
  <2> QED BY <1>12, <2>2 DEF Ordered, Unordered
<1> QED BY <1>1, <1>12, <1>13, <1>14, <1>17, <1>18, <1>19, <1>20, ReceiptSaves

\* A seal that went through sealed the orders of the file, all N of them.
LEMMA ClearingSealed ==
  ASSUME IInv, Mine, NEW t, t = Head(pending), t.awaited, Valid(t), t.by = "clearing", t.op = "seal"
  PROVE  IInv'
<1>1. PICK b, m, n : b = t.by /\ m = mem["clearing"] /\ n = [m EXCEPT !.sealed = TRUE]
  OBVIOUS
<1>2. /\ t \in Call /\ AwaitedOK(t) /\ Effect(t) /\ Mined(t) /\ pc["clearing"] = "seal"
      /\ m = file[b] /\ m \in StateFile /\ ClearingFile(m) /\ file' = file
  BY <1>1, ClearingReceipt
<1>3. t.set = OrdersOf(m) /\ t.set \in SUBSET Orders
  BY <1>1, <1>2, CallFields DEF AwaitedOK
<1>4. Len(m.treasuries) = N /\ Unordered(m) = {}
  BY <1>1, <1>2 DEF IInv, ClearingAt
<1>5. n \in StateFile /\ n.treasuries = m.treasuries /\ n.sealed = TRUE /\ n = Landed(t)
  BY <1>1, <1>2 DEF StateFile, Landed
<1>6. ~m.sealed
  BY <1>2 DEF Valid, ClearingFile
<1>7. ChainTypes /\ ChainTypes' /\ ChainOK /\ Grows
  BY <1>2, TypesSplit DEF IInv, Mined
<1>8. /\ members' = t.set /\ epoch'["fixed"] = "Sealed"
      /\ \A o \in members' : orders'[o] = "Sealed"
  <2>1. SealWith(t.set)
    BY <1>2, GainsListed DEF Effect, Installing
  <2> QED BY <1>3, <1>7, <2>1 DEF SealWith, ChainOK
<1>9. ClearingFile(m)'
  <2>1. \A i \in DOMAIN m.treasuries : m.treasuries[i].safe \notin Known(file'["order"])
    BY <1>2 DEF ClearingFile
  <2> QED BY <1>2, <1>7, <2>1, ClearingFileStays
<1>10. ClearingFile(n)'
  <2>1. OrdersOf(n) = t.set /\ Unordered(n) = {}
    BY <1>3, <1>4, <1>5 DEF OrdersOf, Unordered
  <2> QED BY <1>4, <1>5, <1>8, <1>9, <2>1 DEF ClearingFile
<1>11. made' \in 0 .. MaxSafes /\ n # m
  BY <1>5, <1>6, <1>7 DEF ChainTypes
<1>12. Ordered(m) \subseteq Ordered(n)
  BY <1>5 DEF Ordered, Unordered
<1> QED BY <1>1, <1>5, <1>10, <1>11, <1>12, ReceiptSaves

-----------------------------------------------------------------------------
(* The receipts of prove-order. *)

\* Its Safe is new too, and the only one of its file.
LEMMA OrderCreated ==
  ASSUME IInv, Mine, NEW t, t = Head(pending), t.awaited, Valid(t), t.by = "order", t.op = "create"
  PROVE  IInv'
<1>1. PICK b, m, f, x, q : /\ b = t.by /\ m = mem["order"] /\ f = file["clearing"]
                           /\ x = [safe |-> made', order |-> NoOrder] /\ q = <<x>>
  OBVIOUS
<1>2. PICK n : n = [m EXCEPT !.treasuries = q]
  OBVIOUS
<1>3. /\ AwaitedOK(t) /\ m = file["order"] /\ m \in StateFile /\ f \in StateFile /\ ClearingFile(f)
      /\ ChainTypes /\ ChainTypes'
  BY <1>1, OrderReceipt
<1>4. m.treasuries = <<>> /\ file["order"].treasuries = <<>>
  BY <1>3 DEF AwaitedOK
<1>5. made' = made + 1 /\ made \in Nat /\ made' \in 0 .. MaxSafes /\ made' \in SafeIds
  <2>1. made' = made + 1
    BY MineMines
  <2> QED BY <1>3, <2>1, RehearsalAssumption DEF ChainTypes, SafeIds, RehearsalAssumption
<1>6. x \in Treasury /\ x.safe = made'
  BY <1>1, <1>5 DEF Treasury
<1>7. q \in Seq(Treasury) /\ Len(q) = 1 /\ DOMAIN q = {1} /\ q[1] = x /\ q # <<>>
  BY <1>1, <1>6
<1>8. n \in StateFile /\ n.treasuries = q /\ n # m
  <2>1. n \in StateFile /\ n.treasuries = q
    BY <1>2, <1>3, <1>7 DEF StateFile
  <2> QED BY <1>4, <1>7, <2>1
<1>9. n = Landed(t)
  BY <1>1, <1>2 DEF Landed
<1>10. OrderFile(n)'
  <2>1. Len(n.treasuries) <= 1
    <3>1. Len(n.treasuries) = 1
      BY <1>7, <1>8, Zenon
    <3> QED BY <3>1
  <2>2. \A i \in DOMAIN n.treasuries : n.treasuries[i].safe = made'
    BY <1>6, <1>7, <1>8
  <2>3. made' <= made'
    BY <1>5
  <2> QED BY <2>1, <2>2, <2>3 DEF OrderFile
<1>11. Known(n) \cap Known(f) = {}
  <2>1. \A i \in DOMAIN f.treasuries : f.treasuries[i].safe <= made
    BY <1>3 DEF ClearingFile
  <2>2. \A i \in DOMAIN f.treasuries : f.treasuries[i].safe # made'
    BY <1>5, <2>1
  <2> QED BY <1>6, <1>7, <1>8, <2>2 DEF Known
<1> QED BY <1>1, <1>4, <1>5, <1>7, <1>8, <1>9, <1>10, <1>11, ReceiptSaves

\* A call after which it only goes on; shielding backs the wrapper.
LEMMA OrderGoesOn ==
  ASSUME IInv, Mine, NEW t, t = Head(pending), t.awaited, Valid(t), t.by = "order",
         t.op \in Installing \cup {"open"}
  PROVE  IInv'
<1>1. PICK b, p : b = t.by /\ p = After(b)
  OBVIOUS
<1>2. Landed(t) = mem[b] /\ t.op # "create" /\ t.op \notin {"submit", "activate"}
  BY <1>1 DEF Landed, Installing
<1>3. /\ t \in Call /\ CallOK(t) /\ pc["order"] = t.op /\ Effect(t) /\ OrderAt /\ mem' = mem /\ file' = file
      /\ cur' = cur /\ pc'["order"] = p /\ ChainTypes /\ ChainTypes' /\ Grows
      /\ UNCHANGED <<calm, expired, mishaps>> /\ mishaps'.refused < MaxRefused
  BY <1>1, <1>2, OrderReceipt
<1>4. /\ p \in {"enable", "guard", "fund", "shield", "open", "submit"}
      /\ p = "open" => t.op = "shield"
      /\ p = "submit" => t.op = "open"
  BY <1>1, <1>3, EpochsListed DEF After, Installing
<1>5. Len(file["order"].treasuries) = 1
  BY <1>3 DEF OrderAt, Installing
<1>6. t.op = "shield" => Backed'
  <2> SUFFICES ASSUME t.op = "shield" PROVE Backed'
    OBVIOUS
  <2>1. safe'[t.safe] = Features /\ made' = made
    BY <1>3, GainEffect DEF Installing, IInv
  <2>2. t.safe \in 1 .. made
    BY <1>3, GainsListed DEF CallOK, Installing
  <2> QED BY <2>1, <2>2 DEF Backed, Features
<1>7. t.op = "open" => Backed'
  BY <1>3, BackedStays DEF OrderAt
<1>8. OrderAt'
  BY <1>3, <1>4, <1>5, <1>6, <1>7 DEF OrderAt
<1>9. p \in Steps /\ p # "activate"
  BY <1>4 DEF Steps
<1> QED BY <1>1, <1>2, <1>8, <1>9, ReceiptGoesOn

LEMMA OrderSubmitted ==
  ASSUME IInv, Mine, NEW t, t = Head(pending), t.awaited, Valid(t), t.by = "order", t.op = "submit"
  PROVE  IInv'
<1>1. PICK b, p : b = t.by /\ p = After(b)
  OBVIOUS
<1>2. Landed(t) = mem[b]
  BY <1>1 DEF Landed
<1>3. /\ AwaitedOK(t) /\ pc["order"] = t.op /\ OrderAt /\ mem' = mem /\ file' = file
      /\ cur' = cur /\ pc'["order"] = p /\ ChainTypes /\ ChainTypes' /\ Grows
      /\ mishaps'.refused < MaxRefused
  BY <1>1, <1>2, OrderReceipt
<1>4. p = "activate" /\ "activate" \in Steps
  BY <1>1, <1>3 DEF After, Steps
<1>5. Len(file["order"].treasuries) = 1 /\ Backed'
  BY <1>3, BackedStays DEF OrderAt
<1>6. cur["order"].safe = OrderSafe
  BY <1>3 DEF AwaitedOK
<1>7. OrderAt'
  BY <1>3, <1>4, <1>5, <1>6 DEF OrderAt, OrderSafe
<1> QED BY <1>1, <1>2, <1>4, <1>7, ReceiptGoesOn

LEMMA OrderActivated ==
  ASSUME IInv, Mine, NEW t, t = Head(pending), t.awaited, Valid(t), t.by = "order", t.op = "activate"
  PROVE  IInv'
<1>1. PICK b, p : b = t.by /\ p = After(b)
  OBVIOUS
<1>2. Landed(t) = mem[b]
  BY <1>1 DEF Landed
<1>3. /\ AwaitedOK(t) /\ pc["order"] = t.op /\ OrderAt /\ mem' = mem /\ file' = file
      /\ cur' = cur /\ pc'["order"] = p
  BY <1>1, <1>2, OrderReceipt
<1>4. p = "done"
  BY <1>1, <1>3 DEF After
<1>5. Len(file["order"].treasuries) = 1 /\ t.safe = OrderSafe
  BY <1>3 DEF OrderAt, AwaitedOK
<1>6. OrderAt'
  BY <1>3, <1>4, <1>5 DEF OrderAt
<1>7. Past(t.safe)'
  <2>1. pc["order"] \in Steps
    BY <1>3 DEF Steps
  <2>2. t.safe \in Known(file["order"])
    BY <1>5, <2>1, OrderUnderWay
  <2> QED BY <1>3, <1>4, <2>2 DEF Past, Known
<1> QED BY <1>1, <1>2, <1>4, <1>6, <1>7, ReceiptGoesOn

\* All of them together.
LEMMA MineKeeps ==
  ASSUME IInv, Mine
  PROVE  IInv'
<1>1. PICK t : t = Head(pending)
  OBVIOUS
<1>2. CASE ~t.awaited
  BY <1>1, <1>2, MineUnawaited
<1>3. CASE t.awaited /\ ~Valid(t)
  BY <1>1, <1>3, ReceiptReverts
<1>4. CASE t.awaited /\ Valid(t)
  <2>1. t \in Call
    BY <1>1, MineMines
  <2>2. t.by \in {"clearing", "order"} /\ t.op \in Steps
    BY <2>1, CallFields, EpochsListed
  <2>3. CASE t.by = "clearing"
    <3>1. CASE t.op \in {"deploy", "enable", "guard", "fund"}
      BY <1>1, <1>4, <2>3, <3>1, ClearingGains
    <3>2. CASE t.op \in {"open", "clear", "publish"}
      BY <1>1, <1>4, <2>3, <3>2, ClearingGoesOn
    <3> QED BY <1>1, <1>4, <2>2, <2>3, <3>1, <3>2, ClearingCreated, ClearingSubmitted, ClearingShielded,
               ClearingActivated, ClearingSealed DEF Steps
  <2>4. CASE t.by = "order"
    <3>1. CASE t.op \in Installing \cup {"open"}
      BY <1>1, <1>4, <2>4, <3>1, OrderGoesOn
    <3>2. t.op \notin {"seal", "clear", "publish"}
      <4>1. pc["order"] = t.op /\ OrderAt
        BY <1>1, <1>4, <2>4, OrderReceipt
      <4> QED BY <4>1 DEF OrderAt
    <3> QED BY <1>1, <1>4, <2>2, <2>4, <3>1, <3>2, OrderCreated, OrderSubmitted, OrderActivated
               DEF Steps, Installing
  <2> QED BY <2>2, <2>3, <2>4
<1> QED BY <1>2, <1>3, <1>4

-----------------------------------------------------------------------------
(* The process around the calls: start, save and crash. *)

\* While no script waits for a call, none that is pending is awaited.
LEMMA NobodyWaits ==
  ASSUME IInv, \A b \in Scripts : pc[b] \in {"off", "done", "save"}
  PROVE  \A i \in DOMAIN pending : pending[i] \in Call /\ CallOK(pending[i]) /\ ~pending[i].awaited
<1> TAKE i \in DOMAIN pending
<1>1. pending[i] \in Call /\ CallOK(pending[i]) /\ (pending[i].awaited => AwaitedOK(pending[i]))
  BY DEF IInv, TypeOK, PendingOK
<1>2. pending[i].by \in Scripts /\ pending[i].op \in Steps
  BY <1>1, CallFields
<1> QED BY <1>1, <1>2 DEF AwaitedOK, Steps

LEMMA StartKeeps ==
  ASSUME IInv, NEW b \in Scripts, Start(b)
  PROVE  IInv'
<1>1. /\ TypeOK /\ ChainOK /\ FilesOK /\ OneRuns /\ ActivatingOK /\ ClearingAt /\ OrderAt
      /\ PendingOK /\ NoncesPaid /\ UnbackedIsExplained
  BY DEF IInv
<1>2. /\ pc[b] = "off" /\ \A c \in Scripts : pc[c] \in {"off", "done"}
      /\ mem' = [mem EXCEPT ![b] = file[b]]
      /\ cur' = [cur EXCEPT ![b] = [safe |-> 0, order |-> NoOrder]]
      /\ UNCHANGED <<chainVars, pending, file, mishaps>> /\ Paid' = Paid
      /\ UNCHANGED <<made, safe, nonce, epoch, orders, members, stage, published, calm, expired>>
      /\ b = "order" => mishaps.refused < MaxRefused
  BY DEF Start, chainVars, safeVars, bookVars, Paid
<1>3. PICK p \in {"open", "create"} : pc' = [pc EXCEPT ![b] = p] /\ (b = "order" => p = "create")
                                      /\ (b = "clearing" => p = "open")
  BY EpochsListed DEF Start, Go
<1>4. /\ pc'[b] = p /\ mem'[b] = file[b]
      /\ \A c \in Scripts \ {b} : pc'[c] = pc[c] /\ pc[c] \in {"off", "done"}
  BY <1>1, <1>2, <1>3 DEF TypeOK
<1>5. TypeOK'
  <2>1. mem' \in [Scripts -> StateFile]
    BY <1>1, <1>2 DEF TypeOK
  <2>2. cur' \in [Scripts -> [safe : 0 .. MaxSafes, order : Orders \cup {NoOrder}]]
    BY <1>1, <1>2, RehearsalAssumption DEF TypeOK, RehearsalAssumption
  <2>3. pc' \in [Scripts -> Steps \cup {"off", "save", "done"}]
    BY <1>1, <1>3 DEF TypeOK, Steps
  <2> QED BY <1>1, <1>2, <2>1, <2>2, <2>3 DEF TypeOK
<1>6. ChainOK' /\ UnbackedIsExplained'
  BY <1>1, <1>2 DEF ChainOK, UnbackedIsExplained, Known
<1>7. FilesOK'
  <2>1. \A c \in Scripts : Busy(c)' /\ pc'[c] # "save" => mem'[c] = file'[c]
    BY <1>2, <1>4 DEF Busy
  <2>2. pc'["clearing"] # "save" /\ pc'["order"] # "save"
    BY <1>4, EpochsListed
  <2>3. ClearingFile(file["clearing"])' /\ OrderFile(file["order"])'
    BY <1>1, <1>2, FilesUnmoved
  <2> QED BY <2>1, <2>2, <2>3 DEF FilesOK
<1>8. \A i \in DOMAIN pending : CallOK(pending[i]) /\ ~pending[i].awaited
  BY <1>2, NobodyWaits
<1>9. OneRuns'
  BY <1>2, <1>4, <1>8 DEF OneRuns, Busy
<1>10. \A c \in Scripts : pc'[c] # "activate" /\ pc[c] # "activate" /\ pc[c] # "save"
  BY <1>2, <1>4
<1>11. ActivatingOK'
  BY <1>10 DEF ActivatingOK
<1>12. ClearingAt'
  <2>1. pc'["clearing"] \in {"off", "done", "open"}
    BY <1>3, <1>4, EpochsListed
  <2> QED BY <2>1 DEF ClearingAt
<1>13. OrderAt'
  <2>1. \/ pc'["order"] = "off" \/ (pc'["order"] = "create" /\ mishaps.refused < MaxRefused)
        \/ pc'["order"] = "done" /\ pc["order"] = "done"
    BY <1>2, <1>3, <1>4, EpochsListed
  <2> QED BY <1>1, <1>2, <2>1 DEF OrderAt
<1>14. PendingOK'
  BY <1>2, <1>8 DEF PendingOK, CallOK, Known, Backed
<1>15. NoncesPaid'
  <2>1. ASSUME NEW x \in SafeIds, Past(x) PROVE Past(x)'
    <3>1. CASE x \in Ordered(file["clearing"])
      BY <1>2, <3>1 DEF Past, Ordered, Unordered
    <3>2. CASE pc["order"] = "done" /\ x \in Known(file["order"])
      BY <1>2, <1>4, <3>2, EpochsListed DEF Past, Known
    <3> QED BY <1>10, <2>1, <3>1, <3>2, EpochsListed DEF Past
  <2> QED BY <1>1, <1>2, <2>1 DEF NoncesPaid
<1> QED BY <1>5, <1>6, <1>7, <1>9, <1>11, <1>12, <1>13, <1>14, <1>15 DEF IInv

\* What is saved is right, and takes nothing out of the file.
LEMMA SaveKeeps ==
  ASSUME IInv, NEW b \in Scripts, Save(b)
  PROVE  IInv'
<1>1. /\ TypeOK /\ ChainOK /\ FilesOK /\ OneRuns /\ ActivatingOK /\ ClearingAt /\ OrderAt
      /\ PendingOK /\ NoncesPaid /\ UnbackedIsExplained
  BY DEF IInv
<1>2. /\ pc[b] = "save" /\ file' = [file EXCEPT ![b] = mem[b]]
      /\ UNCHANGED <<chainVars, pending, mem, cur, mishaps>> /\ Paid' = Paid
      /\ UNCHANGED <<made, safe, nonce, epoch, orders, members, stage, published, calm, expired>>
  BY DEF Save, chainVars, safeVars, bookVars, Paid
<1>3. PICK p, m : m = mem[b] /\ p = (IF b = "clearing" THEN Resume(m) ELSE "deploy")
                  /\ pc' = [pc EXCEPT ![b] = p]
  BY DEF Save, Go
<1>4. /\ m \in StateFile /\ file'[b] = m /\ pc'[b] = p
      /\ \A c \in Scripts \ {b} : /\ pc'[c] = pc[c] /\ file'[c] = file[c] /\ pc[c] \in {"off", "done"}
  BY <1>1, <1>2, <1>3 DEF TypeOK, OneRuns, Busy
<1>5. /\ p \in {"deploy", "create", "submit", "seal", "clear"}
      /\ b = "clearing" =>
           /\ p # "deploy"
           /\ p = "create" => Len(m.treasuries) < N
           /\ p = "submit" => Unordered(m) # {}
           /\ p = "seal" => Len(m.treasuries) = N /\ Unordered(m) = {}
      /\ b = "order" => p = "deploy"
  <2>1. CASE b = "clearing"
    <3>1. Len(m.treasuries) <= N
      BY <1>1, <1>2, <1>3, <2>1 DEF FilesOK, ClearingFile
    <3> QED BY <1>3, <1>4, <2>1, <3>1, ResumeFits
  <2>2. CASE b = "order"
    BY <1>3, <2>2
  <2> QED BY <2>1, <2>2, EpochsListed
<1>6. TypeOK'
  <2>1. file' \in [Scripts -> StateFile]
    BY <1>1, <1>2, <1>3, <1>4 DEF TypeOK
  <2>2. pc' \in [Scripts -> Steps \cup {"off", "save", "done"}]
    BY <1>1, <1>3, <1>5 DEF TypeOK, Steps
  <2> QED BY <1>1, <1>2, <2>1, <2>2 DEF TypeOK
<1>7. Known(file["order"]) \subseteq Known(file'["order"])
  <2>1. CASE b = "order"
    BY <1>1, <1>2, <2>1 DEF FilesOK, Known
  <2>2. CASE b = "clearing"
    BY <1>4, <2>2, EpochsListed
  <2> QED BY <2>1, <2>2, EpochsListed
<1>8. ChainTypes /\ ChainTypes' /\ Grows
  BY <1>1, <1>2, TypesSplit, StillGrows
<1>9. ChainOK'
  BY <1>1, <1>2 DEF ChainOK
<1>10. UnbackedIsExplained'
  <2>1. \A o \in Orders : orders'[o] = orders[o]
    BY <1>2
  <2> QED BY <1>1, <1>7, <1>8, <2>1, ExplainedStays
<1>11. FilesOK'
  <2>1. CASE b = "clearing"
    <3>1. PICK g : g = file["order"]
      OBVIOUS
    <3>2. file'["clearing"] = m /\ file'["order"] = g /\ g \in StateFile
      BY <1>1, <1>4, <2>1, <3>1, EpochsListed DEF TypeOK
    <3>3. ClearingFile(m) /\ OrderFile(g)
      BY <1>1, <1>2, <1>3, <2>1, <3>1 DEF FilesOK
    <3>4. \A i \in DOMAIN m.treasuries : m.treasuries[i].safe \notin Known(file'["order"])
      BY <3>1, <3>2, <3>3 DEF ClearingFile
    <3>5. ClearingFile(m)' /\ OrderFile(g)'
      BY <1>4, <1>8, <3>2, <3>3, <3>4, ClearingFileStays, OrderFileStays
    <3>6. \A c \in Scripts : Busy(c)' => c = b
      BY <1>4 DEF Busy
    <3>7. pc'["clearing"] # "save" /\ pc'["order"] # "save"
      BY <1>4, <1>5, <2>1, EpochsListed
    <3> QED BY <1>2, <1>3, <1>4, <3>2, <3>5, <3>6, <3>7 DEF FilesOK
  <2>2. CASE b = "order"
    <3>1. PICK f : f = file["clearing"]
      OBVIOUS
    <3>2. file'["order"] = m /\ file'["clearing"] = f /\ f \in StateFile
      BY <1>1, <1>4, <2>2, <3>1, EpochsListed DEF TypeOK
    <3>3. ClearingFile(f) /\ OrderFile(m) /\ Known(m) \cap Known(f) = {}
      BY <1>1, <1>2, <1>3, <2>2, <3>1 DEF FilesOK
    <3>4. \A i \in DOMAIN f.treasuries : f.treasuries[i].safe \notin Known(file'["order"])
      BY <3>2, <3>3 DEF Known
    <3>5. ClearingFile(f)' /\ OrderFile(m)'
      BY <1>4, <1>8, <3>2, <3>3, <3>4, ClearingFileStays, OrderFileStays
    <3>6. \A c \in Scripts : Busy(c)' => c = b
      BY <1>4 DEF Busy
    <3>7. pc'["clearing"] # "save" /\ pc'["order"] # "save"
      BY <1>4, <1>5, <2>2, EpochsListed
    <3> QED BY <1>2, <1>3, <1>4, <3>2, <3>5, <3>6, <3>7 DEF FilesOK
  <2> QED BY <2>1, <2>2, EpochsListed
<1>12. \A i \in DOMAIN pending : pending[i] \in Call /\ CallOK(pending[i]) /\ ~pending[i].awaited
  <2>1. \A c \in Scripts : pc[c] \in {"off", "done", "save"}
    BY <1>2, <1>4
  <2> QED BY <2>1, NobodyWaits
<1>13. OneRuns'
  BY <1>2, <1>4, <1>12 DEF OneRuns, Busy
<1>14. ActivatingOK'
  BY <1>4, <1>5 DEF ActivatingOK
<1>15. ClearingAt'
  <2>1. CASE b = "clearing"
    <3>1. pc'["clearing"] = p /\ mem'["clearing"] = m
      BY <1>2, <1>3, <1>4, <2>1
    <3> QED BY <1>5, <2>1, <3>1 DEF ClearingAt, Unordered
  <2>2. CASE b = "order"
    BY <1>4, <2>2, EpochsListed DEF ClearingAt
  <2> QED BY <2>1, <2>2, EpochsListed
<1>16. OrderAt'
  <2>1. CASE b = "order"
    <3>1. pc'["order"] = "deploy" /\ Len(file'["order"].treasuries) = 1
      BY <1>1, <1>2, <1>3, <1>4, <1>5, <2>1 DEF FilesOK
    <3>2. mishaps'.refused < MaxRefused
      BY <1>1, <1>2, <2>1 DEF OrderAt
    <3> QED BY <3>1, <3>2 DEF OrderAt
  <2>2. CASE b = "clearing"
    <3>1. pc'["order"] = pc["order"] /\ pc["order"] \in {"off", "done"} /\ file'["order"] = file["order"]
      BY <1>4, <2>2, EpochsListed
    <3> QED BY <1>1, <3>1 DEF OrderAt
  <2> QED BY <2>1, <2>2, EpochsListed
<1>17. PendingOK'
  <2> SUFFICES ASSUME NEW i \in DOMAIN pending
               PROVE  (CallOK(pending[i]))' /\ ~pending'[i].awaited
    BY <1>2 DEF PendingOK
  <2>1. PICK u : u = pending[i]
    OBVIOUS
  <2>2. u \in Call /\ CallOK(u) /\ ~u.awaited /\ Paid \in Nat
    BY <1>1, <1>12, <2>1, PaidTyped
  <2>3. Paid <= Paid' /\ Paid' \in Nat
    BY <1>2, <2>2
  <2>4. CallOK(u)'
    BY <1>7, <1>8, <2>2, <2>3, CallStays
  <2> QED BY <1>2, <2>1, <2>2, <2>4
<1>18. NoncesPaid'
  <2>1. ASSUME NEW x \in SafeIds, Past(x) PROVE Past(x)'
    <3>1. \A c \in Scripts : pc[c] # "activate"
      BY <1>2, <1>4
    <3>2. CASE pc["clearing"] = "save" /\ x \in Ordered(mem["clearing"])
      <4>1. b = "clearing" /\ file'["clearing"] = mem["clearing"]
        BY <1>3, <1>4, <3>2, EpochsListed
      <4> QED BY <3>2, <4>1 DEF Past, Ordered, Unordered
    <3>3. CASE x \in Ordered(file["clearing"])
      <4>1. CASE b = "clearing"
        <5>1. x \in Ordered(mem["clearing"]) /\ file'["clearing"] = mem["clearing"]
          BY <1>1, <1>2, <1>3, <1>4, <3>3, <4>1 DEF FilesOK
        <5> QED BY <5>1 DEF Past, Ordered, Unordered
      <4>2. CASE b = "order"
        <5>1. file'["clearing"] = file["clearing"]
          BY <1>4, <4>2, EpochsListed
        <5> QED BY <3>3, <5>1 DEF Past, Ordered, Unordered
      <4> QED BY <4>1, <4>2, EpochsListed
    <3>4. CASE pc["order"] = "done" /\ x \in Known(file["order"])
      <4>1. pc'["order"] = "done" /\ file'["order"] = file["order"]
        BY <1>2, <1>4, <3>4, EpochsListed
      <4> QED BY <3>4, <4>1 DEF Past, Known
    <3> QED BY <2>1, <3>1, <3>2, <3>3, <3>4 DEF Past
  <2> QED BY <1>1, <1>2, <2>1 DEF NoncesPaid
<1> QED BY <1>6, <1>9, <1>10, <1>11, <1>13, <1>14, <1>15, <1>16, <1>17, <1>18 DEF IInv

\* A crash pays for the submission its script may leave behind.
LEMMA CrashKeeps ==
  ASSUME IInv, NEW b \in Scripts, Crash(b)
  PROVE  IInv'
<1>1. /\ TypeOK /\ ChainOK /\ FilesOK /\ OneRuns /\ ActivatingOK /\ ClearingAt /\ OrderAt
      /\ PendingOK /\ NoncesPaid /\ UnbackedIsExplained
  BY DEF IInv
<1>2. /\ Busy(b) /\ MayGoWrong /\ mishaps' = [mishaps EXCEPT !["crashed"] = mishaps["crashed"] + 1]
      /\ pc' = [pc EXCEPT ![b] = "off"]
      /\ pending' = [i \in DOMAIN pending |->
                       IF pending[i].by = b THEN [pending[i] EXCEPT !.awaited = FALSE] ELSE pending[i]]
      /\ UNCHANGED <<chainVars, file, mem, cur>>
      /\ UNCHANGED <<made, safe, nonce, epoch, orders, members, stage, published, calm, expired>>
  BY DEF Crash, Mishap, Go, Busy, chainVars, safeVars, bookVars
<1>3. /\ pc'[b] = "off"
      /\ \A c \in Scripts \ {b} : pc'[c] = pc[c] /\ pc[c] \in {"off", "done"}
  BY <1>1, <1>2 DEF TypeOK, OneRuns, Busy
<1>4. /\ mishaps' \in [{"crashed", "expired", "moved", "refused"} -> Nat]
      /\ Paid' = Paid + 1 /\ Paid \in Nat /\ Paid' \in Nat /\ mishaps'.refused <= MaxRefused
      /\ mishaps'.crashed + mishaps'.expired + mishaps'.moved <= MaxMishaps
  <2>1. mishaps \in [{"crashed", "expired", "moved", "refused"} -> Nat] /\ mishaps.refused <= MaxRefused
    BY <1>1 DEF ChainOK
  <2>2. /\ mishaps.crashed \in Nat /\ mishaps.refused \in Nat /\ mishaps.expired \in Nat
        /\ mishaps.moved \in Nat /\ MaxMishaps \in Nat /\ Paid \in Nat
    BY <1>1, PaidTyped
  <2>3. mishaps.crashed + mishaps.expired + mishaps.moved < MaxMishaps
    BY <1>2 DEF MayGoWrong
  <2>4. /\ mishaps' \in [{"crashed", "expired", "moved", "refused"} -> Nat]
        /\ mishaps'.crashed = mishaps.crashed + 1 /\ mishaps'.refused = mishaps.refused
        /\ mishaps'.expired = mishaps.expired /\ mishaps'.moved = mishaps.moved
    BY <1>2, <2>1, <2>2
  <2>5. Paid' = Paid + 1
    BY <2>2, <2>4 DEF Paid
  <2> QED BY <2>1, <2>2, <2>3, <2>4, <2>5
<1>5. ASSUME NEW i \in DOMAIN pending
      PROVE  /\ pending'[i] \in Call /\ ~pending'[i].awaited
             /\ pending'[i].by = pending[i].by /\ pending'[i].op = pending[i].op
             /\ pending'[i].safe = pending[i].safe /\ pending'[i].order = pending[i].order
  <2>1. PICK u : u = pending[i]
    OBVIOUS
  <2>2. u \in Call /\ (u.awaited => AwaitedOK(u))
    BY <1>1, <2>1 DEF TypeOK, PendingOK
  <2>3. u.awaited => u.by = b
    <3>1. u.by \in Scripts /\ u.op \in Steps
      BY <2>2, CallFields
    <3> QED BY <1>3, <2>2, <3>1 DEF AwaitedOK, Steps
  <2>4. CASE u.by = b
    <3>1. PICK w : w = [u EXCEPT !.awaited = FALSE]
      OBVIOUS
    <3>2. /\ w \in Call /\ w.awaited = FALSE /\ w.by = u.by /\ w.op = u.op /\ w.safe = u.safe
          /\ w.order = u.order
      BY <2>2, <3>1 DEF Call
    <3>3. pending'[i] = w
      BY <1>2, <2>1, <2>4, <3>1
    <3> QED BY <2>1, <3>2, <3>3
  <2>5. CASE u.by # b
    <3>1. pending'[i] = u
      BY <1>2, <2>1, <2>5
    <3> QED BY <2>1, <2>2, <2>3, <2>5, <3>1
  <2> QED BY <2>4, <2>5
<1>6. DOMAIN pending' = DOMAIN pending /\ pending' \in Seq(Call)
  <2>1. pending \in Seq(Call)
    BY <1>1 DEF TypeOK
  <2>2. DOMAIN pending' = DOMAIN pending /\ \A i \in DOMAIN pending : pending'[i] \in Call
    BY <1>2, <1>5
  <2>3. Len(pending) \in Nat /\ DOMAIN pending = 1 .. Len(pending)
    BY <2>1
  <2>4. pending' \in [1 .. Len(pending) -> Call]
    BY <1>2, <2>2, <2>3
  <2> QED BY <2>2, <2>3, <2>4
<1>7. TypeOK'
  <2>1. pc' \in [Scripts -> Steps \cup {"off", "save", "done"}]
    BY <1>1, <1>2 DEF TypeOK
  <2> QED BY <1>1, <1>2, <1>6, <2>1 DEF TypeOK
<1>8. ChainOK'
  BY <1>1, <1>2, <1>4 DEF ChainOK
<1>9. UnbackedIsExplained'
  BY <1>1, <1>2 DEF UnbackedIsExplained, Known
<1>10. FilesOK'
  <2>1. \A c \in Scripts : ~Busy(c)' /\ pc'[c] # "save"
    BY <1>3 DEF Busy
  <2>2. ClearingFile(file["clearing"])' /\ OrderFile(file["order"])'
    BY <1>1, <1>2, FilesUnmoved
  <2> QED BY <2>1, <2>2, EpochsListed DEF FilesOK
<1>11. OneRuns'
  BY <1>3, <1>5, <1>6 DEF OneRuns, Busy
<1>12. ActivatingOK'
  BY <1>3 DEF ActivatingOK
<1>13. ClearingAt'
  <2>1. pc'["clearing"] \in {"off", "done"}
    BY <1>3, EpochsListed
  <2> QED BY <2>1 DEF ClearingAt
<1>14. OrderAt'
  <2>1. pc'["order"] = "off" \/ (pc'["order"] = "done" /\ pc["order"] = "done")
    BY <1>3, EpochsListed
  <2> QED BY <1>1, <1>2, <2>1 DEF OrderAt
<1>15. PendingOK'
  <2> SUFFICES ASSUME NEW i \in DOMAIN pending
               PROVE  (CallOK(pending[i]))' /\ ~pending'[i].awaited
    BY <1>6 DEF PendingOK
  <2>1. PICK u, w : u = pending[i] /\ w = pending'[i]
    OBVIOUS
  <2>2. /\ CallOK(u) /\ w \in Call /\ ~w.awaited /\ w.by = u.by /\ w.op = u.op /\ w.safe = u.safe
        /\ w.order = u.order
    BY <1>1, <1>5, <2>1 DEF PendingOK
  <2>3. w.op = "submit" => w.order[2] <= Paid' /\ w.order[2] < Paid'
    <3> SUFFICES ASSUME w.op = "submit"
                 PROVE  w.order[2] <= Paid' /\ w.order[2] < Paid'
      OBVIOUS
    <3>1. u.order \in Orders /\ u.order[2] <= Paid
      BY <2>2 DEF CallOK
    <3>2. u.order[2] \in Nat
      BY <3>1, OrderParts, RehearsalAssumption
    <3> QED BY <1>4, <2>2, <3>1, <3>2
  <2>4. CallOK(w)'
    BY <1>2, <2>2, <2>3 DEF CallOK, Known, Backed
  <2> QED BY <2>1, <2>2, <2>4
<1>16. NoncesPaid'
  <2>1. ASSUME NEW s \in SafeIds PROVE nonce[s] <= Paid + 1 /\ nonce[s] \in Nat
    <3>1. s \in 0 .. MaxSafes
      BY RehearsalAssumption DEF SafeIds, RehearsalAssumption
    <3> QED BY <1>1, <3>1, RehearsalAssumption DEF NoncesPaid, TypeOK, RehearsalAssumption
  <2>2. \A s \in SafeIds : nonce'[s] <= Paid' /\ nonce'[s] <= Paid' + 1
    BY <1>2, <1>4, <2>1
  <2> QED BY <2>2 DEF NoncesPaid
<1> QED BY <1>7, <1>8, <1>9, <1>10, <1>11, <1>12, <1>13, <1>14, <1>15, <1>16 DEF IInv

-----------------------------------------------------------------------------
(* What happens outside the scripts. *)

\* A step of nobody's script, that at most seals.
LEMMA OutsideKeeps ==
  ASSUME IInv, ChainTypes', ChainOK', Grows,
         UNCHANGED <<made, safe, nonce, pending, file, mem, cur, pc>>,
         Paid' = Paid, mishaps'.refused = mishaps.refused,
         \A o \in Orders : orders'[o] = orders[o] \/ (orders[o] = "Authorised" /\ orders'[o] = "Sealed")
  PROVE  IInv'
<1>1. /\ TypeOK /\ ChainOK /\ FilesOK /\ OneRuns /\ ActivatingOK /\ ClearingAt /\ OrderAt
      /\ PendingOK /\ NoncesPaid /\ UnbackedIsExplained /\ ChainTypes
  BY TypesSplit DEF IInv
<1>2. TypeOK'
  <2>1. ScriptTypes' /\ pending' \in Seq(Call)
    BY <1>1, TypesSplit DEF ScriptTypes
  <2> QED BY <2>1 DEF TypeOK, ChainTypes, ScriptTypes
<1>3. UnbackedIsExplained'
  <2>1. \A o \in Orders : orders[o] = "None" => orders'[o] = "None"
    BY <1>1 DEF ChainTypes
  <2>2. \A o \in Orders : orders[o] = "Submitted" => orders'[o] = orders[o]
    OBVIOUS
  <2> QED BY <1>1, <2>1, <2>2, ExplainedStays
<1>4. FilesOK'
  <2>1. PICK f, g, m, n : f = file["clearing"] /\ g = file["order"] /\ m = mem["clearing"] /\ n = mem["order"]
    OBVIOUS
  <2>2. f \in StateFile /\ g \in StateFile /\ m \in StateFile /\ n \in StateFile
    BY <1>1, <2>1, EpochsListed DEF TypeOK
  <2>3. \A x \in StateFile : ClearingFile(x) =>
          \A i \in DOMAIN x.treasuries : x.treasuries[i].safe \notin Known(file'["order"])
    BY DEF ClearingFile
  <2>4. ClearingFile(f)' /\ OrderFile(g)'
    BY <1>1, <2>1, <2>2, <2>3, ClearingFileStays, OrderFileStays DEF FilesOK
  <2>5. pc["clearing"] = "save" => ClearingFile(m)'
    BY <1>1, <2>1, <2>2, <2>3, ClearingFileStays DEF FilesOK
  <2>6. pc["order"] = "save" => OrderFile(n)'
    BY <1>1, <2>1, <2>2, OrderFileStays DEF FilesOK
  <2>7. \A b \in Scripts : Busy(b)' /\ pc'[b] # "save" => mem'[b] = file'[b]
    BY <1>1 DEF FilesOK, Busy
  <2>8. pc'["clearing"] = "save" =>
          ClearingFile(mem["clearing"])' /\ Ordered(file'["clearing"]) \subseteq Ordered(mem'["clearing"])
    BY <1>1, <2>1, <2>5 DEF FilesOK
  <2>9. pc'["order"] = "save" =>
          /\ OrderFile(mem["order"])' /\ Len(mem'["order"].treasuries) = 1
          /\ file'["order"].treasuries = <<>>
          /\ Known(mem'["order"]) \cap Known(file'["clearing"]) = {}
    BY <1>1, <2>1, <2>6 DEF FilesOK
  <2>10. ClearingFile(file["clearing"])' /\ OrderFile(file["order"])'
    BY <2>1, <2>4
  <2> QED BY <2>7, <2>8, <2>9, <2>10 DEF FilesOK, Known, Ordered, Unordered
<1>5. OneRuns'
  BY <1>1 DEF OneRuns, Busy
<1>6. ActivatingOK'
  <2>1. \A o \in Orders : orders[o] = "Submitted" => orders'[o] = "Submitted"
    OBVIOUS
  <2> QED BY <1>1, <2>1 DEF ActivatingOK
<1>7. ClearingAt' /\ OrderAt'
  BY <1>1 DEF ClearingAt, OrderAt, NextTreasury, OrderSafe, Known, Unordered, Backed
<1>8. PendingOK'
  <2> SUFFICES ASSUME NEW i \in DOMAIN pending
               PROVE  (CallOK(pending[i]) /\ (pending[i].awaited => AwaitedOK(pending[i])))'
    BY DEF PendingOK
  <2>1. PICK u : u = pending[i]
    OBVIOUS
  <2>2. u \in Call /\ CallOK(u) /\ (u.awaited => AwaitedOK(u)) /\ Paid \in Nat
    BY <1>1, <2>1, PaidTyped DEF TypeOK, PendingOK
  <2>3. CallOK(u)'
    <3>1. Known(file["order"]) \subseteq Known(file'["order"])
      OBVIOUS
    <3>2. Paid' \in Nat /\ Paid <= Paid'
      BY <2>2
    <3> QED BY <1>1, <2>2, <3>1, <3>2, CallStays
  <2>4. u.awaited => AwaitedOK(u)'
    BY <2>2 DEF AwaitedOK, NextTreasury, OrderSafe, OrdersOf
  <2> QED BY <2>1, <2>3, <2>4
<1>9. NoncesPaid'
  <2>1. \A s \in SafeIds : Past(s) => Past(s)'
    BY DEF Past, Ordered, Unordered, Known
  <2> QED BY <1>1, <2>1 DEF NoncesPaid
<1> QED BY <1>2, <1>3, <1>4, <1>5, <1>6, <1>7, <1>8, <1>9 DEF IInv

\* The outside's steps are such.
LEMMA OthersKeep ==
  ASSUME IInv, \/ \E o \in Orders : Expire(o)
               \/ \E set \in SUBSET {o \in Orders : orders[o] = "Authorised"} : OutsiderSeals(set)
               \/ OutsiderClears \/ Move \/ Settle
  PROVE  IInv'
<1>1. TypeOK /\ ChainOK /\ ChainTypes
  BY TypesSplit DEF IInv
<1>2. CASE (\E o \in Orders : Expire(o)) \/ Move \/ Settle
  <2>1. /\ UNCHANGED <<safeVars, bookVars, pending, file, mem, cur, pc>>
        /\ UNCHANGED <<made, safe, nonce, epoch, orders, members, stage, published>>
        /\ calm' \in BOOLEAN /\ expired' \subseteq Orders
    BY <1>1, <1>2 DEF Expire, Move, Settle, safeVars, bookVars, ChainTypes
  <2>2. /\ mishaps' \in [{"crashed", "expired", "moved", "refused"} -> Nat] /\ Paid' = Paid
        /\ mishaps'.crashed + mishaps'.expired + mishaps'.moved <= MaxMishaps
        /\ mishaps'.refused = mishaps.refused
    <3>1. mishaps \in [{"crashed", "expired", "moved", "refused"} -> Nat]
          /\ mishaps.crashed + mishaps.expired + mishaps.moved <= MaxMishaps
      BY <1>1 DEF ChainOK
    <3>2. /\ mishaps.crashed \in Nat /\ mishaps.expired \in Nat /\ mishaps.moved \in Nat
          /\ MaxMishaps \in Nat
      BY <1>1, PaidTyped
    <3>3. CASE mishaps' = mishaps
      BY <3>1, <3>3 DEF Paid
    <3>4. CASE MayGoWrong /\ \E what \in {"expired", "moved"} : Mishap(what)
      <4>1. PICK what \in {"expired", "moved"} : mishaps' = [mishaps EXCEPT ![what] = mishaps[what] + 1]
        BY <3>4 DEF Mishap
      <4>2. mishaps.crashed + mishaps.expired + mishaps.moved < MaxMishaps
        BY <3>4 DEF MayGoWrong
      <4>3. /\ mishaps' \in [{"crashed", "expired", "moved", "refused"} -> Nat]
            /\ mishaps'.crashed = mishaps.crashed /\ mishaps'.refused = mishaps.refused
            /\ \/ mishaps'.expired = mishaps.expired + 1 /\ mishaps'.moved = mishaps.moved
               \/ mishaps'.expired = mishaps.expired /\ mishaps'.moved = mishaps.moved + 1
        <5>1. CASE what = "expired"
          BY <3>1, <3>2, <4>1, <5>1
        <5>2. CASE what = "moved"
          BY <3>1, <3>2, <4>1, <5>2
        <5> QED BY <5>1, <5>2
      <4>4. Paid' = Paid
        BY <4>3 DEF Paid
      <4> QED BY <3>2, <4>2, <4>3, <4>4
    <3> QED BY <1>2, <3>3, <3>4 DEF Expire, Move, Settle
  <2>3. ChainTypes'
    BY <1>1, <2>1 DEF ChainTypes
  <2>4. ChainOK'
    BY <1>1, <2>1, <2>2 DEF ChainOK
  <2>5. Grows
    BY <1>1, <2>1 DEF Grows, ChainTypes
  <2> QED BY <2>1, <2>2, <2>3, <2>4, <2>5, OutsideKeeps
<1>3. CASE \E set \in SUBSET {o \in Orders : orders[o] = "Authorised"} : OutsiderSeals(set)
  <2>1. PICK set \in SUBSET Orders : OutsiderSeals(set)
    BY <1>3
  <2>2. /\ epoch["fixed"] = "Open" /\ \A o \in set : orders[o] = "Authorised"
        /\ SealWith(set) /\ UNCHANGED <<safeVars, published, calm, expired, mishaps>>
        /\ UNCHANGED <<made, safe, nonce, pending, file, mem, cur, pc>>
        /\ Paid' = Paid /\ mishaps'.refused = mishaps.refused
    BY <2>1 DEF OutsiderSeals, safeVars, Paid
  <2>3. /\ ChainTypes' /\ ChainOK' /\ Grows
        /\ \A o \in Orders : orders'[o] = orders[o] \/ (orders[o] = "Authorised" /\ orders'[o] = "Sealed")
    BY <1>1, <2>2, SealEffect
  <2> QED BY <2>2, <2>3, OutsideKeeps
<1>4. CASE OutsiderClears
  <2>1. /\ UNCHANGED <<made, safe, nonce, epoch, orders, members, calm, expired, pending, file, mem, cur, pc,
                       mishaps>>
        /\ stage' \in 0 .. 7 /\ published' \in BOOLEAN
        /\ Paid' = Paid /\ mishaps'.refused = mishaps.refused
    <3>1. /\ UNCHANGED <<made, safe, nonce, epoch, orders, members, calm, expired, pending, file, mem, cur, pc,
                         mishaps>>
          /\ Paid' = Paid /\ mishaps'.refused = mishaps.refused
      BY <1>4 DEF OutsiderClears, safeVars, Paid
    <3>2. CASE stage \in 1 .. 6 /\ stage' = stage + 1 /\ UNCHANGED published
      <4>1. stage' \in 0 .. 7
        BY <3>2
      <4>2. published' \in BOOLEAN
        BY <1>1, <3>2 DEF ChainTypes
      <4> QED BY <3>1, <4>1, <4>2
    <3>3. CASE published' = TRUE /\ UNCHANGED stage
      BY <1>1, <3>1, <3>3 DEF ChainTypes
    <3> QED BY <1>4, <3>2, <3>3 DEF OutsiderClears
  <2>2. ChainTypes'
    BY <1>1, <2>1 DEF ChainTypes
  <2>3. ChainOK'
    BY <1>1, <2>1 DEF ChainOK
  <2>4. Grows
    BY <1>1, <2>1 DEF Grows, ChainTypes
  <2> QED BY <2>1, <2>2, <2>3, <2>4, OutsideKeeps
<1> QED BY <1>2, <1>3, <1>4

-----------------------------------------------------------------------------
(* The invariant is inductive. *)

LEMMA InitHolds ==
  ASSUME Init
  PROVE  IInv
<1> DEFINE empty == [treasuries |-> <<>>, sealed |-> FALSE]
           zero == [safe |-> 0, order |-> NoOrder]
<1> USE RehearsalAssumption DEF RehearsalAssumption
<1>1. /\ made = 0 /\ safe = [s \in 0 .. MaxSafes |-> {}] /\ nonce = [s \in 0 .. MaxSafes |-> 0]
      /\ epoch = [fixed |-> "None", hour |-> "None"] /\ orders = [o \in Orders |-> "None"]
      /\ members = {} /\ stage = 0 /\ published = FALSE /\ calm = TRUE /\ expired = {}
      /\ pending = <<>>
      /\ file = [b \in Scripts |-> empty] /\ mem = [b \in Scripts |-> empty]
      /\ cur = [b \in Scripts |-> zero] /\ pc = [b \in Scripts |-> "off"]
      /\ mishaps = [crashed |-> 0, expired |-> 0, moved |-> 0, refused |-> 0]
  BY DEF Init
<1>2. /\ empty \in StateFile /\ empty.treasuries = <<>> /\ empty.sealed = FALSE
      /\ DOMAIN empty.treasuries = {} /\ Len(empty.treasuries) = 0
  BY DEF StateFile
<1>3. zero \in [safe : 0 .. MaxSafes, order : Orders \cup {NoOrder}]
  OBVIOUS
<1>4. \A b \in Scripts : file[b] = empty /\ mem[b] = empty /\ pc[b] = "off" /\ cur[b] = zero
  BY <1>1
<1>5. /\ file["clearing"] = empty /\ file["order"] = empty /\ pc["clearing"] = "off" /\ pc["order"] = "off"
  BY <1>4, EpochsListed
<1> HIDE DEF empty, zero
<1>6. TypeOK
  <2>1. ChainTypes
    <3>1. 0 \in 0 .. MaxSafes /\ 0 \in 0 .. MaxMishaps + MaxRefused + 1 /\ 0 \in 0 .. 7
      OBVIOUS
    <3>2. safe \in [0 .. MaxSafes -> SUBSET Features] /\ safe[0] = {}
      BY <1>1, <3>1
    <3>3. nonce \in [0 .. MaxSafes -> 0 .. MaxMishaps + MaxRefused + 1]
      BY <1>1, <3>1
    <3>4. epoch.fixed \in {"None", "Open", "Sealed"} /\ epoch.hour \in {"None", "Open"}
      BY <1>1
    <3>5. orders \in [Orders -> OrderStatus]
      BY <1>1 DEF OrderStatus
    <3>6. members \subseteq Orders /\ published \in BOOLEAN /\ calm \in BOOLEAN /\ expired \subseteq Orders
      BY <1>1
    <3> QED BY <1>1, <3>1, <3>2, <3>3, <3>4, <3>5, <3>6 DEF ChainTypes
  <2>2. ScriptTypes
    BY <1>1, <1>2, <1>3 DEF ScriptTypes
  <2>3. pending \in Seq(Call)
    BY <1>1
  <2> QED BY <2>1, <2>2, <2>3, TypesSplit
<1>7. ChainOK
  <2>1. epoch \in [{"fixed", "hour"} -> {"None", "Open", "Sealed"}]
    BY <1>1
  <2>2. mishaps \in [{"crashed", "expired", "moved", "refused"} -> Nat]
        /\ mishaps.crashed + mishaps.expired + mishaps.moved <= MaxMishaps /\ mishaps.refused <= MaxRefused
    BY <1>1
  <2>3. \A s \in SafeIds : safe[s] = {}
    BY <1>1 DEF SafeIds
  <2>4. \A o \in Orders : orders[o] = "None"
    BY <1>1
  <2> QED BY <2>1, <2>2, <2>3, <2>4 DEF ChainOK
<1>8. FilesOK
  <2>1. ClearingFile(empty) /\ OrderFile(empty)
    BY <1>2 DEF ClearingFile, OrderFile
  <2>2. \A b \in Scripts : ~Busy(b)
    BY <1>4 DEF Busy
  <2> QED BY <1>5, <2>1, <2>2 DEF FilesOK
<1>9. OneRuns
  BY <1>1, <1>4 DEF OneRuns, Busy
<1>10. ActivatingOK
  BY <1>4 DEF ActivatingOK
<1>11. ClearingAt /\ OrderAt
  BY <1>5 DEF ClearingAt, OrderAt
<1>12. PendingOK
  BY <1>1 DEF PendingOK
<1>13. NoncesPaid
  BY <1>1 DEF NoncesPaid, SafeIds, Paid
<1>14. UnbackedIsExplained
  BY <1>1 DEF UnbackedIsExplained
<1> QED BY <1>6, <1>7, <1>8, <1>9, <1>10, <1>11, <1>12, <1>13, <1>14 DEF IInv

LEMMA NextKeeps ==
  ASSUME IInv, [Next]_vars
  PROVE  IInv'
<1>1. CASE OrderStep
  BY <1>1, OrderCreates, OrderInstalls, OrderShields, OrderOpens, OrderSubmits, OrderActivates DEF OrderStep
<1>2. CASE ClearingStep
  BY <1>2, ClearingOpens, ClearingSendsAlone, ClearingInstalls, ClearingSubmits, ClearingActivates
     DEF ClearingStep
<1>3. CASE Mine
  BY <1>3, MineKeeps
<1>4. CASE \E b \in Scripts : Start(b) \/ Save(b) \/ Crash(b)
  BY <1>4, StartKeeps, SaveKeeps, CrashKeeps
<1>5. CASE \/ \E o \in Orders : Expire(o)
           \/ \E set \in SUBSET {o \in Orders : orders[o] = "Authorised"} : OutsiderSeals(set)
           \/ OutsiderClears \/ Move \/ Settle
  BY <1>5, OthersKeep
<1>6. CASE UNCHANGED vars
  <2>1. /\ UNCHANGED <<made, safe, nonce, orders, epoch, pending, file, mem, cur, pc, mishaps>>
        /\ UNCHANGED chainVars /\ Paid' = Paid /\ mishaps'.refused = mishaps.refused
    BY <1>6 DEF vars, chainVars, safeVars, bookVars, Paid
  <2>2. ChainTypes' /\ Grows
    BY <2>1, StillGrows DEF IInv
  <2>3. ChainOK'
    BY <2>1 DEF IInv, ChainOK
  <2> QED BY <2>1, <2>2, <2>3, OutsideKeeps
<1> QED BY <1>1, <1>2, <1>3, <1>4, <1>5, <1>6 DEF Next

-----------------------------------------------------------------------------
(* What follows from it. *)

\* As many orders as treasuries, when each treasury has its own.
LEMMA OrdersCounted ==
  ASSUME NEW m \in StateFile, Unordered(m) = {},
         \A i \in DOMAIN m.treasuries : m.treasuries[i].order[1] = m.treasuries[i].safe,
         \A i, j \in DOMAIN m.treasuries : m.treasuries[i].safe = m.treasuries[j].safe => i = j
  PROVE  Cardinality(OrdersOf(m)) = Len(m.treasuries)
<1>1. PICK n, q : n = Len(m.treasuries) /\ q = m.treasuries
  OBVIOUS
<1>2. n \in Nat /\ DOMAIN q = 1 .. n
  BY <1>1, FileFields
<1>3. PICK f : f = [i \in 1 .. n |-> q[i].order]
  OBVIOUS
<1>4. \A i \in 1 .. n : q[i].order # NoOrder
  BY <1>1, <1>2 DEF Unordered
<1>5. OrdersOf(m) = {q[i].order : i \in 1 .. n}
  BY <1>1, <1>2, <1>4 DEF OrdersOf
<1>6. \A i, j \in 1 .. n : f[i] = f[j] => i = j
  BY <1>1, <1>2, <1>3
<1>7. f \in [1 .. n -> OrdersOf(m)] /\ \A o \in OrdersOf(m) : \E i \in 1 .. n : f[i] = o
  BY <1>3, <1>5
<1>8. ExistsBijection(1 .. n, OrdersOf(m))
  <2>1. DOMAIN f = 1 .. n
    BY <1>7
  <2>2. IsInjective(f)
    BY <1>6, <2>1 DEF IsInjective
  <2>3. f \in Injection(1 .. n, OrdersOf(m)) /\ f \in Surjection(1 .. n, OrdersOf(m))
    BY <1>7, <2>2 DEF Injection, Surjection
  <2>4. f \in Bijection(1 .. n, OrdersOf(m))
    BY <2>3 DEF Bijection
  <2> QED BY <2>4 DEF ExistsBijection
<1> QED BY <1>1, <1>2, <1>8, FS_CountingElements

LEMMA WholeWhenSealed ==
  ASSUME IInv
  PROVE  SealedSetIsWhole
<1>1. TypeOK
  BY DEF IInv
<1> SUFFICES ASSUME file["clearing"].sealed
             PROVE  /\ members = OrdersOf(file["clearing"]) /\ Cardinality(members) = N
                    /\ \A o \in members : orders[o] = "Sealed" /\ safe[o[1]] = Features
                    /\ \A o, q \in members : o[1] = q[1] => o = q
  BY <1>1 DEF SealedSetIsWhole
<1>2. PICK m : m = file["clearing"]
  OBVIOUS
<1>3. m \in StateFile /\ ClearingFile(m)
  BY <1>1, <1>2, EpochsListed DEF IInv, FilesOK, TypeOK
<1>4. /\ Len(m.treasuries) = N /\ Unordered(m) = {} /\ members = OrdersOf(m)
      /\ \A o \in members : orders[o] = "Sealed"
  BY <1>2, <1>3 DEF ClearingFile
<1>5. \A i \in DOMAIN m.treasuries :
        m.treasuries[i].order[1] = m.treasuries[i].safe /\ safe[m.treasuries[i].safe] = Features
  BY <1>3, <1>4 DEF ClearingFile, Unordered
<1>6. \A i, j \in DOMAIN m.treasuries : m.treasuries[i].safe = m.treasuries[j].safe => i = j
  BY <1>3 DEF ClearingFile
<1>7. Cardinality(members) = N
  BY <1>3, <1>4, <1>5, <1>6, OrdersCounted
<1>8. \A o \in members : \E i \in DOMAIN m.treasuries : o = m.treasuries[i].order
  BY <1>4 DEF OrdersOf
<1>9. \A o \in members : safe[o[1]] = Features
  BY <1>5, <1>8
<1>10. \A o, q \in members : o[1] = q[1] => o = q
  BY <1>5, <1>6, <1>8
<1> QED BY <1>2, <1>4, <1>7, <1>9, <1>10

LEMMA Invariant == Spec => []IInv
<1>1. Init => IInv
  BY InitHolds
<1>2. IInv /\ [Next]_vars => IInv'
  BY NextKeeps
<1> QED BY <1>1, <1>2, PTL DEF Spec

\* However often prove-clearing died and was run again, whatever it had left pending,
\* and whoever sealed before it: an epoch that its file calls sealed holds one order
\* of each of its N treasuries and no other, and each treasury is installed and shielded.
THEOREM SealedSetsAreWhole == Spec => []SealedSetIsWhole
BY Invariant, WholeWhenSealed, PTL

\* An order on the chain of a Safe that wrapped nothing is prove-order's own, which
\* asked the wrapper's whole backing when another Safe had provided it; and no run,
\* crash or outsider brings such an order further than its submission.
THEOREM UnbackedAlwaysExplained == Spec => []UnbackedIsExplained
<1>1. IInv => UnbackedIsExplained
  BY DEF IInv
<1> QED BY <1>1, Invariant, PTL

\* A script under way holds what its file says; one script runs at a time and waits for
\* one call at most; and each submission but a Safe's last has cost a crash or an
\* activation that was refused, for a Safe that wrapped nothing.
THEOREM RunsAreOrderly == Spec => [](FilesOK /\ OneRuns /\ NoncesPaid)
<1>1. IInv => FilesOK /\ OneRuns /\ NoncesPaid
  BY DEF IInv
<1> QED BY <1>1, Invariant, PTL
=============================================================================
