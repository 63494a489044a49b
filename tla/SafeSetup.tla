------------------------------- MODULE SafeSetup -------------------------------
(***************************************************************************)
(* Installing the module (the onboarding and vault pages, onboarding.ts,   *)
(* packages/safe-client): a page scans one Safe with several reads, offers *)
(* what the scan says is missing, sends it, and scans again when it is     *)
(* confirmed.  A read that fails ends the scan, and the page keeps the one *)
(* it had.  The owners also use the Safe's own interface, and a second     *)
(* page may be open on the same Safe.                                      *)
(***************************************************************************)
EXTENDS Naturals, FiniteSets

CONSTANTS
  Pages,
  MaxOutside, \* bound: transactions made in the Safe's own interface
  MaxSends,   \* bound: transactions the pages send
  MaxVisits,  \* bound: how often a page is opened or comes back online
  NoScan

ASSUME SetupAssumption == MaxOutside \in Nat /\ MaxSends \in Nat /\ MaxVisits \in Nat

VARIABLES
  version,   \* chain: whether VERSION is 1.5.0
  safe,      \* chain: the module, its guard, who can sign, the Safe's nonce
  wrapped,   \* chain: how many deposits were wrapped for the Safe
  scan,      \* page: the last finished scan, or NoScan
  fetch,     \* page: the read its query is at, or "none"
  partial,   \* page: what the reads of that query returned so far
  errored,   \* page: whether its last query failed (isError)
  phase,     \* page: its transaction's state
  sent,      \* page: the operation it sent and the nonce it signed
  outside,   \* how many transactions the owners made elsewhere
  sends,     \* how many the pages sent
  visits,    \* how often a page was opened or came back online
  disturbed, \* history: the Safe changed, and not by a transaction that the page saw
             \* confirmed, since the page's query began
  doubted    \* history: the page's transaction was sent while the scan on show was being
             \* replaced, could not be replaced, or was of an earlier Safe; or the Safe
             \* changed after it was sent

chain == <<version, safe, wrapped>>
query == <<scan, fetch, partial, errored>>
transaction == <<phase, sent, sends>>
elsewhere == <<outside, visits>>
vars == <<chain, query, transaction, elsewhere, disturbed, doubted>>

\* The guard slot, and whether this browser can authorise the Safe alone: "solo"
\* (threshold 1, a connected owner), "stranger" (threshold 1, not an owner), "many".
Guards == {"none", "ours", "other"}
Quorums == {"solo", "stranger", "many"}
Safe == [deployed : BOOLEAN, enabled : BOOLEAN, guard : Guards, quorum : Quorums, nonce : Nat]
Operations == {"deploy", "enable", "guard", "shield", "vault shield"}
Reads == {"factory", "owners", "guard", "enabled"}
Phases == {"idle", "wallet", "pending", "confirmed", "failed"}

ASSUME NoScanAssumption == NoScan \notin Safe

-----------------------------------------------------------------------------
(* What a scan means to a page. *)

\* isFullyInstalled: no blocker, the module enabled, the expected guard.
FullyInstalled(s) == version /\ s.enabled /\ s.guard = "ours"

CanSelfAuthorise(s) == s.quorum = "solo"

\* Mutant: a guard that may come before the module.
Offered_GuardFirst(s, op) ==
  CASE op = "deploy" -> version /\ ~s.deployed
    [] op = "enable" -> s.deployed /\ ~s.enabled /\ CanSelfAuthorise(s)
    [] op = "guard"  -> s.guard # "ours" /\ CanSelfAuthorise(s)
    [] OTHER         -> FullyInstalled(s) /\ CanSelfAuthorise(s)

\* The wrap panel of the onboarding page, and the one of the vault page, which
\* is there as soon as a module is deployed and one signature is enough.
WrapOffered(s) == FullyInstalled(s) /\ CanSelfAuthorise(s)
VaultWrapOffered(s) == s.deployed /\ s.quorum # "many"

\* The buttons.
Offered(s, op) ==
  CASE op = "deploy" -> version /\ ~s.deployed /\ ~FullyInstalled(s)
    [] op = "enable" -> s.deployed /\ ~s.enabled /\ CanSelfAuthorise(s)
    [] op = "guard"  -> s.enabled /\ s.guard # "ours" /\ CanSelfAuthorise(s)
    [] op = "shield" -> WrapOffered(s)
    [] op = "vault shield" -> VaultWrapOffered(s)

-----------------------------------------------------------------------------
(* What the contracts do with a transaction. *)

\* The caller-is-owner signature of execTransaction.
CallerIsOwner == safe.quorum = "solo"

\* deployModule; execTransaction; shield, whose signature names the Safe's nonce
\* and which asks for the whole installation.
Succeeds(op, signed) ==
  CASE op = "deploy" -> version /\ ~safe.deployed
    [] op = "enable" -> CallerIsOwner /\ ~safe.enabled
    [] op = "guard"  -> CallerIsOwner /\ (safe.deployed \/ ~version)
    [] OTHER         -> /\ safe.deployed /\ safe.enabled /\ safe.guard = "ours"
                        /\ CallerIsOwner /\ signed = safe.nonce

\* A Safe before 1.5.0 accepts the guard and installs nothing.
\* A module's execution leaves the Safe's nonce alone; the owner's advances it.
Apply(op) ==
  /\ safe' = CASE op = "deploy" -> [safe EXCEPT !.deployed = TRUE]
               [] op = "enable" -> [safe EXCEPT !.enabled = TRUE, !.nonce = @ + 1]
               [] op = "guard"  -> [safe EXCEPT !.guard = IF version THEN "ours" ELSE @,
                                                !.nonce = @ + 1]
               [] OTHER         -> safe
  /\ wrapped' = IF op \in {"shield", "vault shield"} THEN wrapped + 1 ELSE wrapped

Disturb(others) ==
  /\ disturbed' = [p \in Pages |-> disturbed[p] \/ p \in others]
  /\ doubted' = [p \in Pages |-> doubted[p] \/ (p \in others /\ phase[p] # "idle")]

-----------------------------------------------------------------------------
(* useSafeStatus: predictAddresses and moduleOf, then the scan's first four  *)
(* reads together, then the guard's storage slot, then isModuleEnabled.      *)

Unread == [deployed |-> FALSE, enabled |-> FALSE, guard |-> "none", quorum |-> "many",
           nonce |-> 0]

\* A query starts over; the error of the last one stays beside its data.
Begin(p) ==
  /\ fetch' = [fetch EXCEPT ![p] = "factory"]
  /\ partial' = [partial EXCEPT ![p] = Unread]
  /\ errored' = [errored EXCEPT ![p] = @ /\ scan[p] # NoScan]
  /\ disturbed' = [disturbed EXCEPT ![p] = FALSE]

\* The Safe is named, or comes from the last visit (useActiveSafe); or its
\* data is stale when the page is opened again or the browser is back online.
Connect(p) ==
  /\ fetch[p] = "none" /\ visits < MaxVisits
  /\ Begin(p)
  /\ visits' = visits + 1
  /\ UNCHANGED <<chain, scan, transaction, outside, doubted>>

Read(p, from, next, value) ==
  /\ fetch[p] = from
  /\ fetch' = [fetch EXCEPT ![p] = next]
  /\ partial' = [partial EXCEPT ![p] = value]
  /\ UNCHANGED <<chain, scan, errored, transaction, elsewhere, disturbed, doubted>>

\* predictAddresses never changes; moduleOf does.
ReadFactory(p) ==
  Read(p, "factory", "owners", [partial[p] EXCEPT !.deployed = safe.deployed])

\* VERSION, the owners, the threshold and the nonce, asked for together.
ReadOwners(p) ==
  Read(p, "owners", "guard", [partial[p] EXCEPT !.quorum = safe.quorum, !.nonce = safe.nonce])

\* The guard, from the Safe's raw storage.
ReadModuleGuard(p) ==
  Read(p, "guard", "enabled", [partial[p] EXCEPT !.guard = safe.guard])

FinishScan(p) ==
  /\ fetch[p] = "enabled"
  /\ scan' = [scan EXCEPT ![p] = [partial[p] EXCEPT !.enabled = safe.enabled]]
  /\ fetch' = [fetch EXCEPT ![p] = "none"]
  /\ partial' = [partial EXCEPT ![p] = Unread]
  /\ errored' = [errored EXCEPT ![p] = FALSE]
  /\ UNCHANGED <<chain, transaction, elsewhere, disturbed, doubted>>

\* Any of the reads throws, and the query has no retry: it ends in an error, and
\* the last scan, if there is one, stays on the page.
FailScan(p) ==
  /\ fetch[p] # "none"
  /\ fetch' = [fetch EXCEPT ![p] = "none"]
  /\ partial' = [partial EXCEPT ![p] = Unread]
  /\ errored' = [errored EXCEPT ![p] = TRUE]
  /\ UNCHANGED <<chain, scan, transaction, elsewhere, disturbed, doubted>>

-----------------------------------------------------------------------------
(* One transaction at a time: busy is isPending or receipt.isLoading. *)

\* A click.
Press(p, op) ==
  /\ phase[p] \in {"idle", "failed"} /\ scan[p] # NoScan /\ sends < MaxSends
  /\ Offered(scan[p], op)
  /\ phase' = [phase EXCEPT ![p] = "wallet"]
  /\ doubted' = [doubted EXCEPT ![p] = fetch[p] # "none" \/ errored[p] \/ disturbed[p]]
  /\ sends' = sends + 1
  /\ UNCHANGED <<chain, query, elsewhere, disturbed>>

Install(p) ==
  \E op \in {"deploy", "enable", "guard"} :
    Press(p, op) /\ sent' = [sent EXCEPT ![p] = [op |-> op, nonce |-> 0]]

\* The message of a shield: it names the Safe's nonce, as the scan had it.
ShieldMessage(p, op) == [op |-> op, nonce |-> scan[p].nonce]

Shield(p) ==
  \E op \in {"shield", "vault shield"} :
    Press(p, op) /\ sent' = [sent EXCEPT ![p] = ShieldMessage(p, op)]

\* The owner confirms in the wallet, or does not.
Confirm(p) ==
  /\ phase[p] = "wallet"
  /\ phase' = [phase EXCEPT ![p] = "pending"]
  /\ UNCHANGED <<chain, query, sent, sends, elsewhere, disturbed, doubted>>

Refuse(p) ==
  /\ phase[p] = "wallet"
  /\ phase' = [phase EXCEPT ![p] = "idle"]
  /\ doubted' = [doubted EXCEPT ![p] = FALSE]
  /\ UNCHANGED <<chain, query, sent, sends, elsewhere, disturbed>>

\* The block.  A reverted transaction is an error of the receipt's query, and so
\* is a receipt that cannot be read: no scan follows either.
Mine(p) ==
  /\ phase[p] = "pending"
  /\ IF Succeeds(sent[p].op, sent[p].nonce)
     THEN /\ Apply(sent[p].op)
          /\ \E told \in BOOLEAN :
               /\ Disturb(IF told THEN Pages \ {p} ELSE Pages)
               /\ phase' = [phase EXCEPT ![p] = IF told THEN "confirmed" ELSE "failed"]
     ELSE /\ phase' = [phase EXCEPT ![p] = "failed"]
          /\ UNCHANGED <<safe, wrapped, disturbed, doubted>>
  /\ UNCHANGED <<version, query, sent, sends, elsewhere>>

\* Mutant: a refetch that joins the query already under way.
Rescan_Joined(p) ==
  /\ phase[p] = "confirmed"
  /\ phase' = [phase EXCEPT ![p] = "idle"]
  /\ IF fetch[p] = "none" THEN Begin(p) ELSE UNCHANGED <<fetch, partial, errored, disturbed>>
  /\ UNCHANGED <<chain, scan, sent, sends, elsewhere, doubted>>

\* Mutant: a page that believes it knows what its transaction did.
Rescan_Skipped(p) ==
  /\ phase[p] = "confirmed"
  /\ phase' = [phase EXCEPT ![p] = "idle"]
  /\ UNCHANGED <<chain, query, sent, sends, elsewhere, disturbed, doubted>>

\* The effect on receipt.isSuccess: refetch, which replaces a query under way,
\* and reset, which makes the page idle before the scan is back.
Rescan(p) ==
  /\ phase[p] = "confirmed"
  /\ phase' = [phase EXCEPT ![p] = "idle"]
  /\ Begin(p)
  /\ doubted' = [doubted EXCEPT ![p] = FALSE]
  /\ UNCHANGED <<chain, scan, sent, sends, elsewhere>>

\* The wrap panel refetches in an effect that depends on a closure made anew by
\* every render: once a wrap is confirmed, the end of each scan starts the next.
RefetchAgain(p) ==
  /\ phase[p] = "idle" /\ sent[p].op = "shield" /\ wrapped > 0 /\ fetch[p] = "none"
  /\ Begin(p)
  /\ UNCHANGED <<chain, scan, transaction, elsewhere, doubted>>

-----------------------------------------------------------------------------
(* Elsewhere: the Safe's own interface, and anybody's deployModule. *)

Outside ==
  /\ outside < MaxOutside /\ outside' = outside + 1
  /\ \E next \in [deployed : {safe.deployed}, enabled : BOOLEAN, guard : Guards,
                  quorum : Quorums, nonce : {safe.nonce + 1}] :
       /\ Cardinality({f \in {"enabled", "guard", "quorum"} : next[f] # safe[f]}) <= 1
       /\ next.guard = "ours" => safe.deployed
       /\ version \/ next.guard = safe.guard
       /\ safe' = next
  /\ Disturb(Pages)
  /\ UNCHANGED <<version, wrapped, query, transaction, visits>>

Init ==
  /\ version \in BOOLEAN
  /\ safe \in [deployed : BOOLEAN, enabled : {FALSE}, guard : {"none", "other"},
               quorum : {"solo", "many"}, nonce : {0}]
  /\ safe.deployed \/ safe.guard # "none" => version
  /\ wrapped = 0 /\ outside = 0 /\ sends = 0 /\ visits = 0
  /\ scan = [p \in Pages |-> NoScan] /\ fetch = [p \in Pages |-> "none"]
  /\ partial = [p \in Pages |-> Unread] /\ errored = [p \in Pages |-> FALSE]
  /\ phase = [p \in Pages |-> "idle"]
  /\ sent = [p \in Pages |-> [op |-> "deploy", nonce |-> 0]]
  /\ disturbed = [p \in Pages |-> FALSE] /\ doubted = [p \in Pages |-> FALSE]

QueryStep(p) ==
  ReadFactory(p) \/ ReadOwners(p) \/ ReadModuleGuard(p) \/ FinishScan(p) \/ FailScan(p)

Next ==
  \/ \E p \in Pages :
       \/ Connect(p) \/ QueryStep(p) \/ RefetchAgain(p)
       \/ Install(p) \/ Shield(p) \/ Confirm(p) \/ Refuse(p) \/ Mine(p) \/ Rescan(p)
  \/ Outside

Spec == Init /\ [][Next]_vars

\* Queries end, in an answer or an error, blocks come, and effects run; no read
\* has to succeed, and nobody has to press, confirm or come back to a page.
FairSpec ==
  /\ Spec
  /\ \A p \in Pages : WF_vars(QueryStep(p)) /\ WF_vars(Mine(p)) /\ WF_vars(Rescan(p))
=============================================================================
