------------------------------ MODULE Deployment ------------------------------
(***************************************************************************)
(* The release pipeline: deploy.ts, apply-registrations.ts, adapters.ts,   *)
(* apply-adapters.ts, rebuild-manifest.ts and verify-live, run one at a    *)
(* time by an operator against a chain that keeps what it was told.        *)
(*                                                                         *)
(* A script is a process that may die between any two of its transactions  *)
(* (or throw, which is the same: nothing local survives).  What survives   *)
(* is the chain and one file, the manifest.  The address of a contract is  *)
(* the nonce its creation used, so an address is a number here; contracts  *)
(* that name an address nobody has deployed to yet are the hazard.         *)
(***************************************************************************)
EXTENDS Naturals, Sequences, FiniteSets

CONSTANTS
  MaxNonce,     \* bound: transactions the deployer's account can send
  MaxMishaps,   \* bound: scripts that die and transactions sent outside the scripts
  MaxTime,      \* bound: the chain clock
  Delay,        \* the governance delay the registries enforce
  NoCode, NoManifest, NoScript

ASSUME DeploymentAssumption ==
  /\ MaxNonce \in Nat /\ MaxMishaps \in Nat /\ MaxTime \in Nat /\ Delay \in Nat

\* The order of deploy.ts, which fixes every contract's offset from the start
\* nonce; rebuild-manifest.ts repeats it.
Order == <<"PauseController", "AssetRegistry", "AdapterRegistry", "PriceRegistry",
           "IntentBook", "PositionLedger", "ClearingVault", "CapsuleFactory",
           "ClearingEngine", "SettlementEngine", "ModuleFactory", "EmergencyExit",
           "WrappedUSDC", "WrappedWETH">>

Names == {Order[k] : k \in DOMAIN Order}
Offset(c) == (CHOOSE k \in DOMAIN Order : Order[k] = c) - 1

\* Addresses deploy.ts computes before the contract exists, and asserts later.
Predicted == {"CapsuleFactory", "ClearingEngine", "SettlementEngine", "ModuleFactory"}

Adapters == <<"BuyBase", "SellBase", "AaveSupply">>
AdapterNames == {Adapters[k] : k \in DOMAIN Adapters}
Assets == <<"WrappedUSDC", "WrappedWETH">>

\* An address nothing was created at is told from every contract.
ASSUME NoCodeAssumption == NoCode \notin Names \cup AdapterNames

Addresses == 0 .. MaxNonce - 1

\* The contracts a constructor is given, by name.
ConstructorArgs(c) ==
  CASE c = "PositionLedger"   -> {"PauseController"}
    [] c = "ClearingVault"    -> {"AssetRegistry", "IntentBook", "PauseController"}
    [] c = "CapsuleFactory"   -> {"ModuleFactory", "PauseController"}
    [] c = "ClearingEngine"   -> {"IntentBook", "ClearingVault", "PriceRegistry",
                                  "SettlementEngine", "PauseController"}
    [] c = "SettlementEngine" -> {"IntentBook", "ClearingEngine", "ClearingVault",
                                  "AdapterRegistry", "PriceRegistry", "PositionLedger",
                                  "PauseController"}
    [] c = "ModuleFactory"    -> {"IntentBook", "AssetRegistry", "ClearingVault",
                                  "ClearingEngine", "CapsuleFactory", "PauseController"}
    [] c = "EmergencyExit"    -> {"ClearingVault", "IntentBook", "PauseController",
                                  "SettlementEngine"}
    [] OTHER                  -> {}

\* The one-shot wirings, in the order they are sent.
Wirings == <<"IntentBook", "ClearingVault", "PositionLedger">>
WireArgs(c) ==
  CASE c = "IntentBook"     -> {"ClearingEngine", "SettlementEngine", "ModuleFactory"}
    [] c = "ClearingVault"  -> {"ClearingEngine", "SettlementEngine", "EmergencyExit",
                                "ModuleFactory"}
    [] c = "PositionLedger" -> {"SettlementEngine"}

\* What waits out the delay: two assets, then the price route, each on its registry.
Registrations == Append(Assets, "route")
RegistryOf(item) == IF item = "route" THEN "PriceRegistry" ELSE "AssetRegistry"

VARIABLES
  nonce,      \* chain: the deployer's next nonce
  code,       \* chain: what was created at each address
  refs,       \* chain: the <<name, address>> pairs each contract was given
  wired,      \* chain: the contracts whose wire() has run
  queue,      \* chain: <<registry, item, executable after>>
  applied,    \* chain: <<registry, item>>
  position,   \* chain: <<ledger, Aave adapter>> of each position opened
  now,        \* chain: block.timestamp
  mishaps,    \* how many scripts died and foreign transactions were sent
  manifest,   \* file: deployments/<chainId>.json
  script      \* the running process, or NoScript

chainVars == <<nonce, code, refs, wired, queue, applied, position, now, mishaps>>
vars == <<nonce, code, refs, wired, queue, applied, position, now, mishaps,
          manifest, script>>

-----------------------------------------------------------------------------
(* The process and its transactions. *)

\* A script at its first statement, holding the addresses a.
Process(name, a, wait) ==
  [name |-> name, pc |-> 1, start |-> nonce, at |-> a, wait |-> wait, read |-> FALSE]

Running(name) == script # NoScript /\ script.name = name
Advance == [script EXCEPT !.pc = @ + 1, !.read = FALSE]

\* The addresses args resolve to: predictions for what does not exist yet.
Resolve(args) ==
  {<<c, IF c \in DOMAIN script.at THEN script.at[c] ELSE script.start + Offset(c)>> :
      c \in args}

\* A contract creation: the address is the nonce the transaction used.
Create(c, args) ==
  /\ nonce < MaxNonce
  /\ nonce' = nonce + 1
  /\ code' = [code EXCEPT ![nonce] = c]
  /\ refs' = [refs EXCEPT ![nonce] = Resolve(args)]

\* Nothing is queued that the bounded clock could not reach (bound: MaxTime).
Due == now + Delay
Reachable == Due <= MaxTime

\* A call that succeeded costs a nonce and creates nothing.
Call == nonce < MaxNonce /\ nonce' = nonce + 1

With(f, c, a) == [x \in DOMAIN f \cup {c} |-> IF x = c THEN a ELSE f[x]]

\* The file is written whole and is all a later script knows of an earlier one.
WriteManifest(contracts, adapters) ==
  manifest' = [contracts |-> contracts, adapters |-> adapters]

\* readManifest throws until a deployment has been recorded.
ReadManifest == manifest # NoManifest

-----------------------------------------------------------------------------
(* deploy.ts *)

StartDeploy ==
  /\ script = NoScript
  /\ script' = Process("deploy", <<>>, FALSE)
  /\ UNCHANGED <<chainVars, manifest>>

\* Mutant: a prediction nobody compares.
Misplaced_Unseen(c) == FALSE

\* assertPredicted: the contract is not where the others were told it would be.
Misplaced(c) == c \in Predicted /\ nonce # script.start + Offset(c)

\* deploy(): assertPredicted throws when another transaction took a nonce.
DeployNext ==
  /\ Running("deploy") /\ script.pc <= Len(Order)
  /\ LET c == Order[script.pc]
     IN /\ Create(c, ConstructorArgs(c))
        /\ script' = IF Misplaced(c)
                     THEN NoScript
                     ELSE [Advance EXCEPT !.at = With(@, c, nonce)]
  /\ UNCHANGED <<wired, queue, applied, position, now, mishaps, manifest>>

WireNext ==
  /\ Running("deploy") /\ script.pc - Len(Order) \in DOMAIN Wirings
  /\ LET c == Wirings[script.pc - Len(Order)]
         a == script.at[c]
     IN /\ Call
        /\ wired' = wired \cup {a}
        /\ refs' = [refs EXCEPT ![a] = @ \cup Resolve(WireArgs(c))]
  /\ script' = Advance
  /\ UNCHANGED <<code, queue, applied, position, now, mishaps, manifest>>

QueueNext ==
  /\ Running("deploy")
  /\ script.pc - Len(Order) - Len(Wirings) \in DOMAIN Registrations
  /\ LET item == Registrations[script.pc - Len(Order) - Len(Wirings)]
     IN Call /\ Reachable /\ queue' = queue \cup {<<script.at[RegistryOf(item)], item, Due>>}
  /\ script' = Advance
  /\ UNCHANGED <<code, refs, wired, applied, position, now, mishaps, manifest>>

\* writeManifest, the last thing deploy.ts does.
RecordDeployment ==
  /\ Running("deploy")
  /\ script.pc = Len(Order) + Len(Wirings) + Len(Registrations) + 1
  /\ WriteManifest(script.at, <<>>)
  /\ script' = NoScript
  /\ UNCHANGED chainVars

-----------------------------------------------------------------------------
(* apply-registrations.ts and apply-adapters.ts: for each entry, read what is *)
(* queued, wait if told to, and send the permissionless apply (from any      *)
(* account: it costs the deployer no nonce here).                            *)

\* Mutant: an entry that is gone is polled for instead of skipped.
NothingQueued_Polled(due) == due = {} /\ ~script.wait

\* Applied already, or never queued: skipped.
NothingQueued(due) == due = {}

DueOf(r, item) == {q[3] : q \in {x \in queue : x[1] = r /\ x[2] = item}}

\* What a successful apply does on the chain, whoever sends it.
ApplyOnChain(r, item) ==
  /\ \E due \in DueOf(r, item) : now >= due
  /\ queue' = {q \in queue : q[1] # r \/ q[2] # item}
  /\ applied' = applied \cup {<<r, item>>}

Outsider ==
  /\ \E q \in queue : ApplyOnChain(q[1], q[2])
  /\ UNCHANGED <<nonce, code, refs, wired, position, now, mishaps, manifest, script>>

\* With --wait or without.
StartApply ==
  /\ script = NoScript /\ ReadManifest
  /\ \E wait \in BOOLEAN : script' = Process("apply", manifest.contracts, wait)
  /\ UNCHANGED <<chainVars, manifest>>

StartApplyAdapters ==
  /\ script = NoScript /\ ReadManifest /\ manifest.adapters # <<>>
  /\ \E wait \in BOOLEAN : script' = Process("applyAdapters", manifest.contracts, wait)
  /\ UNCHANGED <<chainVars, manifest>>

Applying == script # NoScript /\ script.name \in {"apply", "applyAdapters"}

\* waitForTimelock compares the head's time; giving up after 45 minutes is a Crash.
Elapsed(due) == \E d \in due : now >= d

Look == [script EXCEPT !.read = TRUE]

ReadQueued(registry, item) ==
  /\ ~script.read
  /\ LET due == DueOf(registry, item)
     IN \/ NothingQueued(due) /\ script' = Advance
        \/ Elapsed(due) /\ script' = Look
        \/ due # {} /\ ~Elapsed(due) /\ ~script.wait /\ script' = NoScript
  /\ UNCHANGED <<chainVars, manifest>>

ReadAsset ==
  /\ Running("apply") /\ script.pc \in DOMAIN Assets
  /\ ReadQueued(script.at["AssetRegistry"], Assets[script.pc])

ReadAdapter ==
  /\ Running("applyAdapters") /\ script.pc \in DOMAIN Adapters
  /\ ReadQueued(script.at["AdapterRegistry"], manifest.adapters[Adapters[script.pc]])

\* The route is sent without a look at its delay.
ReadRoute ==
  /\ Running("apply") /\ script.pc = Len(Registrations) /\ ~script.read
  /\ script' = IF <<script.at["PriceRegistry"], "route">> \in applied THEN Advance ELSE Look
  /\ UNCHANGED <<chainVars, manifest>>

\* The apply succeeds, or reverts and leaves the script in one of the given states.
SendApply(registry, item, afterRevert) ==
  /\ script.read
  /\ \/ /\ ApplyOnChain(registry, item)
        /\ script' = Advance
        /\ UNCHANGED <<nonce, code, refs, wired, position, now, mishaps, manifest>>
     \/ /\ ~Elapsed(DueOf(registry, item))
        /\ script' \in afterRevert
        /\ UNCHANGED <<chainVars, manifest>>

\* The estimate throws; a receipt nobody looks at lets the script go on.
SendRegistration ==
  /\ Running("apply")
  /\ LET item == Registrations[script.pc]
     IN SendApply(script.at[RegistryOf(item)], item, {NoScript, Advance})

SendAdapter ==
  /\ Running("applyAdapters")
  /\ SendApply(script.at["AdapterRegistry"], manifest.adapters[Adapters[script.pc]], {NoScript})

FinishApply ==
  /\ Running("apply") /\ script.pc > Len(Registrations) /\ script' = NoScript
  /\ UNCHANGED <<chainVars, manifest>>

FinishApplyAdapters ==
  /\ Running("applyAdapters") /\ script.pc > Len(Adapters) /\ script' = NoScript
  /\ WriteManifest(manifest.contracts, manifest.adapters)
  /\ UNCHANGED chainVars

-----------------------------------------------------------------------------
(* adapters.ts: three contracts, one position, three queued registrations,  *)
(* and only then the manifest.                                               *)

StartAdapters ==
  /\ script = NoScript /\ ReadManifest
  /\ script' = Process("adapters", manifest.contracts, FALSE)
  /\ UNCHANGED <<chainVars, manifest>>

AdapterArgs(c) ==
  IF c = "AaveSupply" THEN {"PositionLedger", "SettlementEngine"}
                      ELSE {"ClearingVault", "SettlementEngine"}

DeployAdapter ==
  /\ Running("adapters") /\ script.pc \in DOMAIN Adapters
  /\ LET c == Adapters[script.pc]
     IN /\ Create(c, AdapterArgs(c))
        /\ script' = [Advance EXCEPT !.at = With(@, c, nonce)]
  /\ UNCHANGED <<wired, queue, applied, position, now, mishaps, manifest>>

\* Mutant: a position that a second attempt opens again.
PositionIsOpen_Never(ledger) == FALSE

\* openPosition reverts PositionAlreadyOpen: the id names the asset and the pool.
PositionIsOpen(ledger) == \E p \in position : p[1] = ledger

OpenPosition ==
  /\ Running("adapters") /\ script.pc = Len(Adapters) + 1
  /\ \/ /\ ~PositionIsOpen(script.at["PositionLedger"])
        /\ Call
        /\ position' = position \cup {<<script.at["PositionLedger"], script.at["AaveSupply"]>>}
        /\ script' = Advance
        /\ UNCHANGED <<code, refs, wired, queue, applied, now, mishaps, manifest>>
     \/ /\ PositionIsOpen(script.at["PositionLedger"])
        /\ script' = NoScript
        /\ UNCHANGED <<chainVars, manifest>>

QueueAdapter ==
  /\ Running("adapters") /\ script.pc - Len(Adapters) - 1 \in DOMAIN Adapters
  /\ LET c == Adapters[script.pc - Len(Adapters) - 1]
     IN /\ Call /\ Reachable
        /\ queue' = queue \cup {<<script.at["AdapterRegistry"], script.at[c], Due>>}
  /\ script' = Advance
  /\ UNCHANGED <<code, refs, wired, applied, position, now, mishaps, manifest>>

RecordAdapters ==
  /\ Running("adapters") /\ script.pc = 2 * Len(Adapters) + 2
  /\ WriteManifest(manifest.contracts, [c \in AdapterNames |-> script.at[c]])
  /\ script' = NoScript
  /\ UNCHANGED chainVars

-----------------------------------------------------------------------------
(* rebuild-manifest.ts and verify-live: reads only. *)

CodeAt(a) == IF a \in Addresses THEN code[a] ELSE NoCode

\* Accessors only some contracts have: reading another one reverts, and throws.
ReadsBack(at) ==
  /\ CodeAt(at["IntentBook"]) = "IntentBook" /\ at["IntentBook"] \in wired
  /\ \A c \in {"ClearingEngine", "SettlementEngine"} : <<c, at[c]>> \in refs[at["IntentBook"]]
  /\ CodeAt(at["AssetRegistry"]) \in {"AssetRegistry", "AdapterRegistry", "PriceRegistry"}
  /\ CodeAt(at["PriceRegistry"]) = "PriceRegistry"

\* The file rebuild-manifest.ts writes has no adapters, whatever the last one had.
RecordRebuilt(at) == WriteManifest(at, <<>>)

\* The operator passes any start nonce.
Rebuild(start) ==
  /\ script = NoScript
  /\ LET at == [c \in Names |-> start + Offset(c)]
     IN /\ \A c \in Names : CodeAt(at[c]) # NoCode
        /\ ReadsBack(at)
        /\ RecordRebuilt(at)
  /\ UNCHANGED <<chainVars, script>>

(* The sections of verify-live that depend on how the deployment went; the   *)
(* delays, the floors and the emptiness are constants of this model.         *)

RecordedAt(c) == manifest.contracts[c]
AppliedAt(registry) == {p[2] : p \in {x \in applied : x[1] = registry}}

\* Code never changes, so a recorded hash matches whatever was found there.
CodeChecks ==
  /\ \A c \in Names : CodeAt(RecordedAt(c)) # NoCode
  /\ manifest.adapters # <<>> =>
       \A c \in AdapterNames : CodeAt(manifest.adapters[c]) # NoCode

\* Three contracts are wired; only the book is asked to what.
WiringChecks ==
  /\ \A k \in DOMAIN Wirings : RecordedAt(Wirings[k]) \in wired
  /\ \A c \in {"ClearingEngine", "SettlementEngine", "ModuleFactory"} :
       <<c, RecordedAt(c)>> \in refs[RecordedAt("IntentBook")]

AssetChecks ==
  \A k \in DOMAIN Assets : Assets[k] \in AppliedAt(RecordedAt("AssetRegistry"))

RouteChecks == "route" \in AppliedAt(RecordedAt("PriceRegistry"))

\* Mutant: any adapter will do.
AdaptersServe_Some(registered) == registered # {}

\* Three adapters whose recipient is the vault or the ledger, and a route each
\* when the manifest has the routes.
AdaptersServe(registered) ==
  /\ Cardinality(registered) = Len(Adapters)
  /\ \A a \in registered : \E c \in {"ClearingVault", "PositionLedger"} :
       <<c, RecordedAt(c)>> \in refs[a]
  /\ manifest.adapters # <<>> =>
       \A c \in AdapterNames : \E a \in registered : CodeAt(a) = c

ChecksPass ==
  /\ CodeChecks /\ WiringChecks /\ AssetChecks /\ RouteChecks
  /\ AdaptersServe(AppliedAt(RecordedAt("AdapterRegistry")))

-----------------------------------------------------------------------------
(* The environment: the process dies, the account is used for something     *)
(* else, time passes.                                                        *)

Crash ==
  /\ script # NoScript /\ script' = NoScript
  /\ mishaps < MaxMishaps /\ mishaps' = mishaps + 1
  /\ UNCHANGED <<nonce, code, refs, wired, queue, applied, position, now, manifest>>

ForeignTransaction ==
  /\ mishaps < MaxMishaps /\ nonce < MaxNonce
  /\ mishaps' = mishaps + 1 /\ nonce' = nonce + 1
  /\ UNCHANGED <<code, refs, wired, queue, applied, position, now, manifest, script>>

Tick ==
  /\ now < MaxTime /\ now' = now + 1
  /\ UNCHANGED <<nonce, code, refs, wired, queue, applied, position, mishaps,
                 manifest, script>>

Init ==
  /\ nonce = 0 /\ code = [a \in Addresses |-> NoCode] /\ refs = [a \in Addresses |-> {}]
  /\ wired = {} /\ queue = {} /\ applied = {} /\ position = {} /\ now = 0 /\ mishaps = 0
  /\ manifest = NoManifest /\ script = NoScript

ScriptStep ==
  \/ DeployNext \/ WireNext \/ QueueNext \/ RecordDeployment
  \/ ReadAsset \/ ReadRoute \/ ReadAdapter \/ SendRegistration \/ SendAdapter
  \/ FinishApply \/ FinishApplyAdapters
  \/ DeployAdapter \/ OpenPosition \/ QueueAdapter \/ RecordAdapters

Operator ==
  \/ StartDeploy \/ StartAdapters \/ StartApply \/ StartApplyAdapters
  \/ \E start \in Addresses : Rebuild(start)

Next == ScriptStep \/ Operator \/ Outsider \/ Crash \/ ForeignTransaction \/ Tick

Spec == Init /\ [][Next]_vars

\* A running script keeps going and blocks keep coming.
FairSpec == Spec /\ WF_vars(ScriptStep) /\ WF_vars(Tick)
=============================================================================
