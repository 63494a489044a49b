--------------------------- MODULE SafeSetup_proofs ---------------------------
(***************************************************************************)
(* What a page may conclude from its scan of a Safe, for any number of     *)
(* pages, of transactions sent and of transactions made elsewhere.  A scan *)
(* is put together from reads of different blocks, so the invariant says   *)
(* of every read that came back that it still holds of an undisturbed      *)
(* Safe; of a transaction on its way that nothing makes doubtful, that the *)
(* Safe as it is now allows its button.                                    *)
(***************************************************************************)
EXTENDS SafeSetupSafety, TLAPS

\* The variables by name, wherever a step leaves some alone.
USE DEF chain, query, transaction, elsewhere

-----------------------------------------------------------------------------
(* The invariant. *)

\* What the reads of an undisturbed page returned still holds.
ReadsOK(p) ==
  ~disturbed[p] /\ phase[p] # "confirmed" =>
    /\ fetch[p] = "none" /\ ~errored[p] /\ scan[p] # NoScan => scan[p] = safe
    /\ fetch[p] \in {"owners", "guard", "enabled"} => partial[p].deployed = safe.deployed
    /\ fetch[p] \in {"guard", "enabled"} =>
         partial[p].quorum = safe.quorum /\ partial[p].nonce = safe.nonce
    /\ fetch[p] = "enabled" => partial[p].guard = safe.guard

\* A transaction that nothing makes doubtful is one that a scan of the Safe as it
\* is would offer, and signs the nonce that the Safe still has.
SentOK(p) ==
  phase[p] \in {"wallet", "pending"} /\ ~doubted[p] =>
    /\ Offered(safe, sent[p].op)
    /\ sent[p].op \in {"shield", "vault shield"} => sent[p].nonce = safe.nonce

\* The guard of a Safe is the module's only when there is a module.
GuardHasModule == safe.guard = "ours" => safe.deployed

Failed(p) ==
  (phase[p] = "failed" /\ sent[p].op # "vault shield")
    => doubted[p] \/ (safe.enabled /\ ~safe.deployed)

SetupInv ==
  /\ TypeOK /\ GuardHasModule
  /\ \A p \in Pages : ReadsOK(p) /\ SentOK(p) /\ Failed(p)

-----------------------------------------------------------------------------
(* Types. *)

\* A subset of each field's values makes a subset of the records.
LEMMA SafeSubset ==
  ASSUME NEW D \in SUBSET BOOLEAN, NEW E \in SUBSET BOOLEAN, NEW G \in SUBSET Guards,
         NEW Q \in SUBSET Quorums, NEW N \in SUBSET Nat
  PROVE  [deployed : D, enabled : E, guard : G, quorum : Q, nonce : N] \subseteq Safe
BY DEF Safe

LEMMA InitSetup == Init => SetupInv
<1> SUFFICES ASSUME Init PROVE SetupInv
  OBVIOUS
<1>1. safe \in Safe /\ version \in BOOLEAN /\ safe.guard # "ours"
  <2>1. safe \in [deployed : BOOLEAN, enabled : {FALSE}, guard : {"none", "other"},
                  quorum : {"solo", "many"}, nonce : {0}] /\ version \in BOOLEAN
    BY DEF Init
  <2>2. BOOLEAN \in SUBSET BOOLEAN /\ {FALSE} \in SUBSET BOOLEAN
    BY Zenon
  <2>3. /\ {"none", "other"} \in SUBSET Guards /\ {"solo", "many"} \in SUBSET Quorums
        /\ {0} \in SUBSET Nat
    BY DEF Guards, Quorums
  <2>4. safe \in Safe
    BY <2>1, <2>2, <2>3, SafeSubset, Zenon
  <2>5. safe.guard # "ours"
    BY <2>1
  <2> QED
    BY <2>1, <2>4, <2>5
<1>2. Unread \in Safe
  BY DEF Safe, Guards, Quorums, Unread
<1>3. [op |-> "deploy", nonce |-> 0] \in [op : Operations, nonce : Nat]
  BY DEF Operations
<1>4. TypeOK
  BY <1>1, <1>2, <1>3, SetupAssumption
  DEF Init, TypeOK, Reads, Phases, SetupAssumption
<1> QED
  BY <1>1, <1>4 DEF Init, SetupInv, GuardHasModule, ReadsOK, SentOK, Failed

LEMMA UnreadType == Unread \in Safe
BY DEF Unread, Safe, Guards, Quorums

LEMMA ReadType ==
  ASSUME TypeOK, NEW p \in Pages, QueryStep(p)
  PROVE  TypeOK'
<1>1. CASE ReadFactory(p)
  BY <1>1 DEF ReadFactory, Read, TypeOK, Safe, Reads
<1>2. CASE ReadOwners(p)
  BY <1>2 DEF ReadOwners, Read, TypeOK, Safe, Reads
<1>3. CASE ReadModuleGuard(p)
  BY <1>3 DEF ReadModuleGuard, Read, TypeOK, Safe, Reads
<1>4. CASE FinishScan(p)
  <2>1. partial \in [Pages -> Safe] /\ safe \in Safe /\ safe.enabled \in BOOLEAN
    BY DEF TypeOK, Safe
  <2>2. [partial[p] EXCEPT !.enabled = safe.enabled] \in Safe
    BY <2>1 DEF Safe
  <2>3. scan' = [scan EXCEPT ![p] = [partial[p] EXCEPT !.enabled = safe.enabled]]
    BY <1>4 DEF FinishScan
  <2>4. /\ scan' \in [Pages -> Safe \cup {NoScan}]
        /\ \A q \in Pages : scan[q] # NoScan => scan'[q] # NoScan
    BY <2>2, <2>3, NoScanAssumption DEF TypeOK
  <2>5. partial' \in [Pages -> Safe]
    BY <1>4, UnreadType DEF FinishScan, TypeOK
  <2> QED
    BY <1>4, <2>4, <2>5 DEF FinishScan, TypeOK, Reads
<1>5. CASE FailScan(p)
  BY <1>5, UnreadType DEF FailScan, TypeOK, Reads
<1> QED
  BY <1>1, <1>2, <1>3, <1>4, <1>5 DEF QueryStep

LEMMA ButtonType ==
  ASSUME TypeOK, NEW p \in Pages, Install(p) \/ Shield(p)
  PROVE  TypeOK'
<1>1. PICK op \in Operations :
        Press(p, op) /\ \E n \in Nat : sent' = [sent EXCEPT ![p] = [op |-> op, nonce |-> n]]
  <2>1. CASE Install(p)
    BY <2>1 DEF Install, Operations
  <2>2. CASE Shield(p)
    <3>1. PICK op \in {"shield", "vault shield"} :
            Press(p, op) /\ sent' = [sent EXCEPT ![p] = ShieldMessage(p, op)]
      BY <2>2 DEF Shield
    <3>2. scan[p] \in Safe
      BY <3>1 DEF Press, TypeOK
    <3>3. scan[p].nonce \in Nat
      BY <3>2 DEF Safe
    <3> QED
      BY <3>1, <3>3 DEF ShieldMessage, Operations
  <2> QED
    BY <2>1, <2>2
<1> QED
  BY <1>1, SetupAssumption DEF Press, TypeOK, Phases, SetupAssumption

LEMMA SafeUpdates ==
  ASSUME NEW s \in Safe
  PROVE  /\ [s EXCEPT !.deployed = TRUE] \in Safe
         /\ [s EXCEPT !.enabled = TRUE, !.nonce = @ + 1] \in Safe
         /\ [s EXCEPT !.guard = "ours", !.nonce = @ + 1] \in Safe
         /\ [s EXCEPT !.guard = @, !.nonce = @ + 1] \in Safe
<1>1. [s EXCEPT !.deployed = TRUE] \in Safe
  BY DEF Safe
<1>2. s.nonce + 1 \in Nat
  BY DEF Safe
<1>3. [s EXCEPT !.enabled = TRUE, !.nonce = @ + 1] \in Safe
  BY <1>2 DEF Safe
<1>4. [s EXCEPT !.guard = "ours", !.nonce = @ + 1] \in Safe
  BY <1>2 DEF Safe, Guards
<1>5. [s EXCEPT !.guard = @, !.nonce = @ + 1] \in Safe
  BY <1>2 DEF Safe, Guards
<1> QED
  BY <1>1, <1>3, <1>4, <1>5

LEMMA SafeType ==
  ASSUME TypeOK, NEW op \in Operations, Apply(op)
  PROVE  safe' \in Safe /\ wrapped' \in Nat
<1>1. safe \in Safe /\ wrapped \in Nat
  BY DEF TypeOK
<1>2. CASE op = "deploy"
  BY <1>1, <1>2, SafeUpdates DEF Apply
<1>3. CASE op = "enable"
  BY <1>1, <1>3, SafeUpdates DEF Apply
<1>4. CASE op = "guard"
  <2>1. CASE version
    BY <1>1, <1>4, <2>1, SafeUpdates DEF Apply
  <2>2. CASE ~version
    BY <1>1, <1>4, <2>2, SafeUpdates DEF Apply
  <2> QED
    BY <2>1, <2>2
<1>5. CASE op \in {"shield", "vault shield"}
  <2>1. safe' = safe /\ wrapped' = wrapped + 1
    BY <1>5 DEF Apply
  <2> QED
    BY <1>1, <2>1
<1> QED
  BY <1>2, <1>3, <1>4, <1>5 DEF Operations

LEMMA MineType ==
  ASSUME TypeOK, NEW p \in Pages, Mine(p)
  PROVE  TypeOK'
<1>1. /\ safe' \in Safe /\ wrapped' \in Nat
      /\ disturbed' \in [Pages -> BOOLEAN] /\ doubted' \in [Pages -> BOOLEAN]
  <2>1. sent[p].op \in Operations /\ safe \in Safe /\ wrapped \in Nat
    BY DEF TypeOK
  <2>2. safe' \in Safe /\ wrapped' \in Nat
    BY <2>1, SafeType DEF Mine
  <2>3. disturbed' \in [Pages -> BOOLEAN] /\ doubted' \in [Pages -> BOOLEAN]
    <3>1. ASSUME NEW T, Disturb(T)
          PROVE  disturbed' \in [Pages -> BOOLEAN] /\ doubted' \in [Pages -> BOOLEAN]
      BY <3>1, Zenon DEF Disturb, TypeOK
    <3>2. (\E T : Disturb(T)) \/ UNCHANGED <<disturbed, doubted>>
      BY DEF Mine
    <3> QED
      BY <3>1, <3>2 DEF TypeOK
  <2> QED
    BY <2>2, <2>3
<1>2. phase' \in [Pages -> Phases] /\ \A q \in Pages : phase'[q] # "idle" => phase[q] # "idle"
  BY DEF Mine, TypeOK, Phases
<1> QED
  BY <1>1, <1>2 DEF Mine, TypeOK

LEMMA OtherType ==
  ASSUME TypeOK, NEW p \in Pages,
         Connect(p) \/ Confirm(p) \/ Refuse(p) \/ Rescan(p) \/ RefetchAgain(p)
  PROVE  TypeOK'
<1>1. CASE Connect(p)
  BY <1>1, UnreadType, SetupAssumption
  DEF Connect, Begin, TypeOK, Reads, SetupAssumption
<1>2. CASE Confirm(p)
  BY <1>2 DEF Confirm, TypeOK, Phases
<1>3. CASE Refuse(p)
  BY <1>3 DEF Refuse, TypeOK, Phases
<1>4. CASE Rescan(p)
  BY <1>4, UnreadType DEF Rescan, Begin, TypeOK, Reads, Phases
<1>5. CASE RefetchAgain(p)
  BY <1>5, UnreadType DEF RefetchAgain, Begin, TypeOK, Reads
<1> QED
  BY <1>1, <1>2, <1>3, <1>4, <1>5

LEMMA OutsideType ==
  ASSUME TypeOK, Outside
  PROVE  TypeOK'
<1>1. /\ safe' \in Safe
      /\ disturbed' \in [Pages -> BOOLEAN] /\ doubted' \in [Pages -> BOOLEAN]
  BY DEF Outside, Disturb, TypeOK, Safe
<1> QED
  BY <1>1, SetupAssumption DEF Outside, TypeOK, SetupAssumption
-----------------------------------------------------------------------------
(* One step, as one page sees it. *)

PageOK(p) == ReadsOK(p) /\ SentOK(p) /\ Failed(p)

\* A step that does not touch page q.
Untouched(q) ==
  /\ scan'[q] = scan[q] /\ fetch'[q] = fetch[q] /\ partial'[q] = partial[q]
  /\ errored'[q] = errored[q] /\ phase'[q] = phase[q] /\ sent'[q] = sent[q]
  /\ version' = version

\* It either leaves the Safe alone, or makes what the page sent doubtful.
Elsewhere(q) ==
  \/ UNCHANGED safe /\ disturbed'[q] = disturbed[q] /\ doubted'[q] = doubted[q]
  \/ disturbed'[q] /\ (phase[q] # "idle" => doubted'[q])

LEMMA UntouchedKeeps ==
  ASSUME NEW q \in Pages, PageOK(q), Untouched(q), Elsewhere(q)
  PROVE  PageOK(q)'
<1>1. CASE UNCHANGED safe /\ disturbed'[q] = disturbed[q] /\ doubted'[q] = doubted[q]
  <2>1. Offered(safe, sent[q].op)' <=> Offered(safe, sent[q].op)
    BY <1>1 DEF Untouched, Offered, WrapOffered, VaultWrapOffered, FullyInstalled,
                CanSelfAuthorise
  <2> QED
    BY <1>1, <2>1 DEF PageOK, ReadsOK, SentOK, Failed, Untouched
<1>2. CASE disturbed'[q] /\ (phase[q] # "idle" => doubted'[q])
  BY <1>2 DEF PageOK, ReadsOK, SentOK, Failed, Untouched
<1> QED
  BY <1>1, <1>2 DEF Elsewhere

\* A step that leaves page q and the Safe alone keeps what holds of its transaction.
LEMMA SameTransaction ==
  ASSUME NEW q \in Pages, SentOK(q), Failed(q), UNCHANGED <<safe, version>>,
         phase'[q] = phase[q], sent'[q] = sent[q], doubted'[q] = doubted[q]
  PROVE  SentOK(q)' /\ Failed(q)'
<1>1. Offered(safe, sent[q].op)' <=> Offered(safe, sent[q].op)
  BY DEF Offered, WrapOffered, VaultWrapOffered, FullyInstalled, CanSelfAuthorise
<1> QED
  BY <1>1 DEF SentOK, Failed

\* A read adds what it found to what the earlier ones did.
LEMMA ReadKeeps ==
  ASSUME TypeOK, NEW p \in Pages, PageOK(p),
         ReadFactory(p) \/ ReadOwners(p) \/ ReadModuleGuard(p)
  PROVE  PageOK(p)'
<1>1. partial[p] \in Safe /\ safe \in Safe
  BY DEF TypeOK
<1>2. /\ fetch[p] # "none" /\ fetch'[p] # "none" /\ phase'[p] = phase[p]
      /\ doubted'[p] = doubted[p] /\ sent'[p] = sent[p] /\ disturbed'[p] = disturbed[p]
      /\ UNCHANGED <<safe, version>>
  BY DEF ReadFactory, ReadOwners, ReadModuleGuard, Read, TypeOK
<1>3. SentOK(p)' /\ Failed(p)'
  BY <1>2, SameTransaction DEF PageOK
<1>4. CASE ReadFactory(p)
  <2>1. fetch'[p] = "owners" /\ partial'[p].deployed = safe.deployed
    BY <1>1, <1>4 DEF ReadFactory, Read, TypeOK, Safe
  <2> QED
    BY <1>2, <1>3, <2>1 DEF PageOK, ReadsOK
<1>5. CASE ReadOwners(p)
  <2>1. /\ fetch[p] = "owners" /\ fetch'[p] = "guard"
        /\ partial'[p].deployed = partial[p].deployed
        /\ partial'[p].quorum = safe.quorum /\ partial'[p].nonce = safe.nonce
    BY <1>1, <1>5 DEF ReadOwners, Read, TypeOK, Safe
  <2> QED
    BY <1>2, <1>3, <2>1 DEF PageOK, ReadsOK
<1>6. CASE ReadModuleGuard(p)
  <2>1. /\ fetch[p] = "guard" /\ fetch'[p] = "enabled"
        /\ partial'[p].deployed = partial[p].deployed
        /\ partial'[p].quorum = partial[p].quorum /\ partial'[p].nonce = partial[p].nonce
        /\ partial'[p].guard = safe.guard
    BY <1>1, <1>6 DEF ReadModuleGuard, Read, TypeOK, Safe
  <2> QED
    BY <1>2, <1>3, <2>1 DEF PageOK, ReadsOK
<1> QED
  BY <1>4, <1>5, <1>6

LEMMA SameSafe ==
  ASSUME NEW s \in Safe, NEW t \in Safe, s.deployed = t.deployed, s.enabled = t.enabled,
         s.guard = t.guard, s.quorum = t.quorum, s.nonce = t.nonce
  PROVE  s = t
BY DEF Safe

\* The last read completes the scan.
LEMMA FinishKeeps ==
  ASSUME TypeOK, NEW p \in Pages, PageOK(p), FinishScan(p)
  PROVE  PageOK(p)'
<1>1. partial[p] \in Safe /\ safe \in Safe
  BY DEF TypeOK
<1>2. /\ fetch[p] = "enabled" /\ fetch'[p] = "none" /\ phase'[p] = phase[p]
      /\ doubted'[p] = doubted[p] /\ sent'[p] = sent[p] /\ disturbed'[p] = disturbed[p]
      /\ UNCHANGED <<safe, version>>
      /\ scan'[p] = [partial[p] EXCEPT !.enabled = safe.enabled]
  BY DEF FinishScan, TypeOK
<1>3. SentOK(p)' /\ Failed(p)'
  BY <1>2, SameTransaction DEF PageOK
<1>4. /\ scan'[p] \in Safe /\ scan'[p].enabled = safe.enabled
      /\ scan'[p].deployed = partial[p].deployed /\ scan'[p].guard = partial[p].guard
      /\ scan'[p].quorum = partial[p].quorum /\ scan'[p].nonce = partial[p].nonce
  BY <1>1, <1>2 DEF Safe
<1>5. ~disturbed[p] /\ phase[p] # "confirmed" => scan'[p] = safe
  <2> SUFFICES ASSUME ~disturbed[p], phase[p] # "confirmed" PROVE scan'[p] = safe
    OBVIOUS
  <2>1. /\ partial[p].deployed = safe.deployed /\ partial[p].quorum = safe.quorum
        /\ partial[p].nonce = safe.nonce /\ partial[p].guard = safe.guard
    BY <1>2 DEF PageOK, ReadsOK
  <2> QED
    BY <1>1, <1>4, <2>1, SameSafe
<1> QED
  BY <1>2, <1>3, <1>5 DEF PageOK, ReadsOK

\* A query that fails leaves its error beside the last scan.
LEMMA FailKeeps ==
  ASSUME TypeOK, NEW p \in Pages, PageOK(p), FailScan(p)
  PROVE  PageOK(p)'
<1>1. /\ fetch'[p] = "none" /\ errored'[p] /\ phase'[p] = phase[p]
      /\ doubted'[p] = doubted[p] /\ sent'[p] = sent[p] /\ UNCHANGED <<safe, version>>
  BY DEF FailScan, TypeOK
<1>2. SentOK(p)' /\ Failed(p)'
  BY <1>1, SameTransaction DEF PageOK
<1> QED
  BY <1>1, <1>2 DEF PageOK, ReadsOK

\* A query that begins has read nothing yet.
LEMMA BeginKeeps ==
  ASSUME TypeOK, NEW p \in Pages, PageOK(p), Connect(p) \/ Rescan(p) \/ RefetchAgain(p)
  PROVE  PageOK(p)'
<1>1. fetch'[p] = "factory" /\ UNCHANGED <<safe, version, sent>>
  BY DEF Connect, Rescan, RefetchAgain, Begin, TypeOK
<1>2. ReadsOK(p)'
  BY <1>1 DEF ReadsOK
<1>3. SentOK(p)' /\ Failed(p)'
  <2>1. CASE Connect(p) \/ RefetchAgain(p)
    BY <1>1, <2>1, SameTransaction DEF Connect, RefetchAgain, PageOK
  <2>2. CASE Rescan(p)
    BY <2>2 DEF Rescan, TypeOK, SentOK, Failed
  <2> QED
    BY <2>1, <2>2
<1> QED
  BY <1>2, <1>3 DEF PageOK

\* A button sends what the scan offers.
LEMMA ButtonKeeps ==
  ASSUME TypeOK, NEW p \in Pages, PageOK(p), Install(p) \/ Shield(p)
  PROVE  PageOK(p)'
<1>1. PICK op \in Operations : /\ Press(p, op)
        /\ \E n \in Nat : /\ sent' = [sent EXCEPT ![p] = [op |-> op, nonce |-> n]]
                          /\ op \in {"shield", "vault shield"} => n = scan[p].nonce
  <2>1. CASE Install(p)
    BY <2>1 DEF Install, Operations
  <2>2. CASE Shield(p)
    <3>1. PICK op \in {"shield", "vault shield"} :
            Press(p, op) /\ sent' = [sent EXCEPT ![p] = ShieldMessage(p, op)]
      BY <2>2 DEF Shield
    <3>2. scan[p] \in Safe
      BY <3>1 DEF Press, TypeOK
    <3>3. scan[p].nonce \in Nat
      BY <3>2 DEF Safe
    <3> QED
      BY <3>1, <3>3 DEF ShieldMessage, Operations
  <2> QED
    BY <2>1, <2>2
<1>2. /\ phase[p] # "confirmed" /\ phase'[p] = "wallet" /\ scan[p] # NoScan
      /\ Offered(scan[p], op)
      /\ doubted'[p] = (fetch[p] # "none" \/ errored[p] \/ disturbed[p])
      /\ UNCHANGED <<safe, version, scan, fetch, partial, errored, disturbed>>
  BY <1>1 DEF Press, TypeOK
<1>3. /\ sent'[p].op = op
      /\ op \in {"shield", "vault shield"} => sent'[p].nonce = scan[p].nonce
  <2>1. PICK n \in Nat : /\ sent' = [sent EXCEPT ![p] = [op |-> op, nonce |-> n]]
                         /\ op \in {"shield", "vault shield"} => n = scan[p].nonce
    BY <1>1
  <2>2. p \in DOMAIN sent
    BY DEF TypeOK
  <2>3. sent'[p] = [op |-> op, nonce |-> n]
    BY <2>1, <2>2
  <2>4. sent'[p].op = op /\ sent'[p].nonce = n
    BY <2>3
  <2> QED
    BY <2>1, <2>4
<1>4. ReadsOK(p)' /\ Failed(p)'
  BY <1>2 DEF PageOK, ReadsOK, Failed
<1>5. SentOK(p)'
  <2> SUFFICES ASSUME ~doubted'[p]
               PROVE  /\ Offered(safe, sent[p].op)'
                      /\ sent'[p].op \in {"shield", "vault shield"}
                           => sent'[p].nonce = safe'.nonce
    BY DEF SentOK
  <2>1. scan[p] = safe
    BY <1>2 DEF PageOK, ReadsOK
  <2>2. Offered(safe, op)
    BY <1>2, <2>1
  <2>3. Offered(safe, sent[p].op)'
    BY <1>2, <1>3, <2>2
    DEF Offered, WrapOffered, VaultWrapOffered, FullyInstalled, CanSelfAuthorise
  <2> QED
    BY <1>2, <1>3, <2>1, <2>3
<1> QED
  BY <1>4, <1>5 DEF PageOK

LEMMA WalletKeeps ==
  ASSUME TypeOK, NEW p \in Pages, PageOK(p), Confirm(p) \/ Refuse(p)
  PROVE  PageOK(p)'
<1>1. /\ phase[p] = "wallet" /\ phase'[p] \in {"pending", "idle"}
      /\ phase'[p] = "pending" => doubted'[p] = doubted[p]
      /\ UNCHANGED <<version, safe, scan, fetch, partial, errored, sent, disturbed>>
  BY DEF Confirm, Refuse, TypeOK
<1>2. Offered(safe, sent[p].op)' <=> Offered(safe, sent[p].op)
  BY <1>1 DEF Offered, WrapOffered, VaultWrapOffered, FullyInstalled, CanSelfAuthorise
<1> QED
  BY <1>1, <1>2 DEF PageOK, ReadsOK, SentOK, Failed

\* What a current scan offers succeeds, but for a guard without a module.
LEMMA OfferedSucceeds ==
  ASSUME TypeOK, GuardHasModule, NEW op \in Operations \ {"vault shield"}, NEW n \in Nat,
         Offered(safe, op), op = "shield" => n = safe.nonce
  PROVE  Succeeds(op, n) \/ (safe.enabled /\ ~safe.deployed)
BY DEF Offered, Succeeds, WrapOffered, FullyInstalled, CanSelfAuthorise, CallerIsOwner,
       Operations, GuardHasModule

LEMMA MineKeeps ==
  ASSUME TypeOK, GuardHasModule, NEW p \in Pages, PageOK(p), Mine(p)
  PROVE  PageOK(p)'
<1>1. phase[p] = "pending" /\ UNCHANGED <<fetch, scan, partial, errored, sent>>
  BY DEF Mine
<1>2. CASE Succeeds(sent[p].op, sent[p].nonce)
  <2>1. PICK told \in BOOLEAN :
          /\ Disturb(IF told THEN Pages \ {p} ELSE Pages)
          /\ phase' = [phase EXCEPT ![p] = IF told THEN "confirmed" ELSE "failed"]
    BY <1>2 DEF Mine
  <2>2. CASE told
    <3>1. phase'[p] = "confirmed"
      BY <2>1, <2>2 DEF TypeOK
    <3> QED
      BY <3>1 DEF PageOK, ReadsOK, SentOK, Failed
  <2>3. CASE ~told
    <3>1. phase'[p] = "failed" /\ disturbed'[p] /\ doubted'[p]
      BY <1>1, <2>1, <2>3 DEF TypeOK, Disturb
    <3> QED
      BY <3>1 DEF PageOK, ReadsOK, SentOK, Failed
  <2> QED
    BY <2>2, <2>3
<1>3. CASE ~Succeeds(sent[p].op, sent[p].nonce)
  <2>1. phase'[p] = "failed" /\ UNCHANGED <<safe, disturbed, doubted>>
    BY <1>3 DEF Mine, TypeOK
  <2>2. ReadsOK(p)' /\ SentOK(p)'
    BY <1>1, <2>1 DEF PageOK, ReadsOK, SentOK
  <2>3. ASSUME ~doubted[p], sent[p].op # "vault shield"
        PROVE  safe.enabled /\ ~safe.deployed
    <3>1. /\ Offered(safe, sent[p].op)
          /\ sent[p].op = "shield" => sent[p].nonce = safe.nonce
      BY <1>1, <2>3 DEF PageOK, SentOK
    <3>2. sent[p].op \in Operations /\ sent[p].nonce \in Nat
      BY DEF TypeOK
    <3> QED
      BY <1>3, <2>3, <3>1, <3>2, OfferedSucceeds
  <2>4. Failed(p)'
    BY <1>1, <2>1, <2>3 DEF Failed
  <2> QED
    BY <2>2, <2>4 DEF PageOK
<1> QED
  BY <1>2, <1>3
-----------------------------------------------------------------------------
(* The invariant. *)

\* A step of page p touches no other, and tells the others when it changes the
\* Safe.
PageAct(p) ==
  \/ Connect(p) \/ QueryStep(p) \/ RefetchAgain(p)
  \/ Install(p) \/ Shield(p) \/ Confirm(p) \/ Refuse(p) \/ Mine(p) \/ Rescan(p)

LEMMA OthersKeep ==
  ASSUME TypeOK, NEW p \in Pages, NEW q \in Pages, q # p, PageOK(q), PageAct(p)
  PROVE  PageOK(q)'
<1> USE DEF TypeOK, Untouched, Elsewhere
<1>1. CASE Connect(p) \/ Rescan(p) \/ RefetchAgain(p)
  <2>1. Untouched(q) /\ Elsewhere(q)
    BY <1>1 DEF Connect, Rescan, RefetchAgain, Begin
  <2> QED
    BY <2>1, UntouchedKeeps
<1>2. CASE Install(p) \/ Shield(p) \/ Confirm(p) \/ Refuse(p)
  <2>1. Untouched(q) /\ Elsewhere(q)
    BY <1>2 DEF Install, Shield, Press, Confirm, Refuse
  <2> QED
    BY <2>1, UntouchedKeeps
<1>3. CASE QueryStep(p)
  <2>1. Untouched(q) /\ Elsewhere(q)
    BY <1>3
    DEF QueryStep, ReadFactory, ReadOwners, ReadModuleGuard, Read, FinishScan, FailScan
  <2> QED
    BY <2>1, UntouchedKeeps
<1>4. CASE Mine(p)
  <2>1. Untouched(q)
    BY <1>4 DEF Mine
  <2>2. Elsewhere(q)
    <3>1. CASE Succeeds(sent[p].op, sent[p].nonce)
      <4>1. PICK told \in BOOLEAN : Disturb(IF told THEN Pages \ {p} ELSE Pages)
        BY <1>4, <3>1 DEF Mine
      <4> QED
        BY <4>1 DEF Disturb
    <3>2. CASE ~Succeeds(sent[p].op, sent[p].nonce)
      BY <1>4, <3>2 DEF Mine
    <3> QED
      BY <3>1, <3>2
  <2> QED
    BY <2>1, <2>2, UntouchedKeeps
<1> QED
  BY <1>1, <1>2, <1>3, <1>4 DEF PageAct

LEMMA GuardKeeps ==
  ASSUME TypeOK, GuardHasModule, [Next]_vars
  PROVE  GuardHasModule'
<1>1. safe \in Safe
  BY DEF TypeOK
<1>2. CASE UNCHANGED safe
  BY <1>2 DEF GuardHasModule
<1>3. ASSUME NEW op \in Operations, NEW n \in Nat, Succeeds(op, n), Apply(op)
      PROVE  GuardHasModule'
  <2>1. CASE op = "deploy"
    BY <1>1, <1>3, <2>1 DEF Apply, GuardHasModule, Safe
  <2>2. CASE op = "enable"
    BY <1>1, <1>3, <2>2 DEF Apply, GuardHasModule, Safe
  <2>3. CASE op = "guard"
    BY <1>1, <1>3, <2>3 DEF Apply, Succeeds, GuardHasModule, Safe
  <2>4. CASE op \in {"shield", "vault shield"}
    BY <1>1, <1>3, <2>4 DEF Apply, GuardHasModule
  <2> QED
    BY <2>1, <2>2, <2>3, <2>4 DEF Operations
<1>4. ASSUME NEW p \in Pages, Mine(p) PROVE GuardHasModule'
  <2>1. sent[p].op \in Operations /\ sent[p].nonce \in Nat
    BY DEF TypeOK
  <2> QED
    BY <1>2, <1>3, <1>4, <2>1 DEF Mine
<1>5. CASE Outside
  BY <1>1, <1>5 DEF Outside, GuardHasModule, Safe
<1> QED
  BY <1>2, <1>4, <1>5
  DEF Next, vars, Connect, Install, Shield, Press, Confirm, Refuse, RefetchAgain,
      QueryStep, ReadFactory, ReadOwners, ReadModuleGuard, Read, FinishScan, FailScan, Rescan

LEMMA NextSetup == SetupInv /\ [Next]_vars => SetupInv'
<1> SUFFICES ASSUME SetupInv, [Next]_vars PROVE SetupInv'
  OBVIOUS
<1>1. TypeOK /\ GuardHasModule /\ \A q \in Pages : PageOK(q)
  BY DEF SetupInv, PageOK
<1>2. GuardHasModule'
  BY <1>1, GuardKeeps
<1>3. ASSUME NEW p \in Pages, PageAct(p)
      PROVE  TypeOK' /\ \A q \in Pages : PageOK(q)'
  <2>1. TypeOK'
    BY <1>1, <1>3, ReadType, ButtonType, MineType, OtherType DEF PageAct
  <2>2. PageOK(p)'
    BY <1>1, <1>3, ReadKeeps, FinishKeeps, FailKeeps, BeginKeeps, ButtonKeeps, WalletKeeps,
       MineKeeps
    DEF PageAct, QueryStep
  <2>3. \A q \in Pages \ {p} : PageOK(q)'
    BY <1>1, <1>3, OthersKeep
  <2> QED
    BY <2>1, <2>2, <2>3
<1>4. CASE Outside
  <2>1. TypeOK'
    BY <1>1, <1>4, OutsideType
  <2>2. \A q \in Pages : Untouched(q) /\ Elsewhere(q)
    BY <1>1, <1>4 DEF Outside, Disturb, Untouched, Elsewhere, TypeOK
  <2>3. \A q \in Pages : PageOK(q)'
    BY <1>1, <2>2, UntouchedKeeps
  <2> QED
    BY <1>2, <2>1, <2>3 DEF SetupInv, PageOK
<1>5. CASE UNCHANGED vars
  <2>1. TypeOK'
    BY <1>1, <1>5 DEF vars, TypeOK
  <2>2. \A q \in Pages : PageOK(q)'
    BY <1>1, <1>5, UntouchedKeeps
    DEF vars, Untouched, Elsewhere
  <2> QED
    BY <1>2, <2>1, <2>2 DEF SetupInv, PageOK
<1> QED
  BY <1>2, <1>3, <1>4, <1>5 DEF Next, PageAct, SetupInv, PageOK

LEMMA SetupInvariant == Spec => []SetupInv
<1> QED
  BY InitSetup, NextSetup, PTL DEF Spec

\* A page at rest that reports no error shows the Safe as it is, unless somebody
\* else acted since its last scan began.
THEOREM SetupScanIsCurrent == Spec => []SettledScanIsCurrent
<1>1. SetupInv => SettledScanIsCurrent
  BY DEF SetupInv, ReadsOK, SettledScanIsCurrent
<1> QED
  BY <1>1, SetupInvariant, PTL

\* A transaction of the onboarding page fails only if the page had no settled
\* scan of the present Safe when it was sent, if somebody else acted before it
\* was mined, if its receipt could not be read, or if the module was enabled
\* before it was deployed.
THEOREM SetupFailureIsExplained == Spec => []FailureIsExplained
<1>1. SetupInv => FailureIsExplained
  BY DEF SetupInv, Failed, FailureIsExplained
<1> QED
  BY <1>1, SetupInvariant, PTL
=============================================================================
