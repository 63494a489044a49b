------------------------------- MODULE Rehearsal -------------------------------
(***************************************************************************)
(* The two rehearsal scripts (prove-clearing.ts and prove-order.ts) run    *)
(* with one deployer key against one chain, each with a state file.  A     *)
(* process may die anywhere and is run again: what it had sent stays       *)
(* pending and is mined in the key's order, what it had not saved is gone. *)
(*                                                                         *)
(* Reading the chain, deciding and sending are one step: what happens in   *)
(* between shows when the call is mined, and a call that reverts ends the  *)
(* process.  A call whose estimate fails is never sent.                    *)
(***************************************************************************)
EXTENDS Naturals, Sequences, FiniteSets

CONSTANTS
  N,         \* the treasuries of the rehearsal: three
  MaxSafes,  \* bound: the Safes created
  MaxMishaps, \* bound: crashes, expiries and moves of the pool, together
  MaxRefused \* bound: the activations refused, each after a run of prove-order

ASSUME RehearsalAssumption ==
  N \in Nat \ {0} /\ MaxSafes \in Nat /\ MaxMishaps \in Nat /\ MaxRefused \in Nat

VARIABLES
  made,      \* chain: the Safes created so far are 1 .. made
  safe,      \* chain: what each Safe has
  nonce,     \* chain: each module's nextNonce of the deployer
  epoch,     \* chain: the book's status of the two epochs
  orders,    \* chain: the status of each order
  members,   \* chain: the orders sealed into the fixed epoch
  stage,     \* chain: the engine's stage of the fixed epoch
  published, \* chain: its handles are committed
  calm,      \* chain: fixPrice accepts the pool
  expired,   \* chain: the orders past their expiry
  pending,   \* the deployer's transactions, in the order of its nonces
  file,      \* .prove-clearing.json and .prove-order.json
  mem,       \* a process's copy of its file
  cur,       \* the Safe and the order it works on
  pc,        \* where it is
  mishaps    \* history

safeVars == <<made, safe, nonce>>
bookVars == <<epoch, orders, members, stage, published>>
chainVars == <<safeVars, bookVars, calm, expired>>
vars == <<chainVars, pending, file, mem, cur, pc, mishaps>>

Scripts == {"clearing", "order"}
SafeIds == 1 .. MaxSafes
Orders == SafeIds \X (0 .. MaxMishaps + MaxRefused)
NoOrder == <<0, 0>>
Installed == {"module", "enabled", "guard"}
Features == Installed \cup {"funds", "shielded"}
OrderStatus == {"None", "Submitted", "Authorised", "Sealed"}
Steps == {"open", "create", "deploy", "enable", "guard", "fund", "shield",
          "submit", "activate", "seal", "clear", "publish"}

EpochOf == [clearing |-> "fixed", order |-> "hour"]

-----------------------------------------------------------------------------
(* The state file: treasuries with their orders, and whether the seal went through. *)

Unordered(f) == {i \in DOMAIN f.treasuries : f.treasuries[i].order = NoOrder}
OrdersOf(f) == {f.treasuries[i].order : i \in DOMAIN f.treasuries} \ {NoOrder}

FirstUnordered(f) == CHOOSE i \in Unordered(f) : \A j \in Unordered(f) : i <= j

-----------------------------------------------------------------------------
(* What the contracts make of a call. *)

\* The escrow of activateIntent is a transfer by the module, which has to be the
\* operator of the Safe's wrapped tokens: only shield makes it that, for thirty days,
\* which a rehearsal does not outlast.
Valid(t) ==
  CASE t.op = "open"     -> epoch[EpochOf[t.by]] = "None"
    [] t.op = "create"   -> made < MaxSafes
    [] t.op = "deploy"   -> "module" \notin safe[t.safe]
    [] t.op = "enable"   -> "enabled" \notin safe[t.safe]
    [] t.op = "guard"    -> "module" \in safe[t.safe]
    [] t.op = "fund"     -> TRUE
    [] t.op = "shield"   -> Installed \cup {"funds"} \subseteq safe[t.safe]
    [] t.op = "submit"   -> Installed \subseteq safe[t.safe] /\ nonce[t.safe] = t.order[2]
    [] t.op = "activate" -> /\ Installed \cup {"shielded"} \subseteq safe[t.safe]
                            /\ orders[t.order] = "Submitted"
    [] t.op = "seal"     -> /\ calm /\ epoch["fixed"] = "Open" /\ t.set # {}
                            /\ \A o \in t.set : orders[o] = "Authorised" /\ o \notin expired
    [] t.op = "clear"    -> stage = t.stage /\ stage \in 1 .. 6
    [] t.op = "publish"  -> stage = 7 /\ ~published

Gains == [deploy |-> "module", enable |-> "enabled", guard |-> "guard",
          fund |-> "funds", shield |-> "shielded"]

SealWith(set) ==
  /\ epoch' = [epoch EXCEPT !["fixed"] = "Sealed"]
  /\ orders' = [o \in Orders |-> IF o \in set THEN "Sealed" ELSE orders[o]]
  /\ members' = set /\ stage' = 1

Effect(t) ==
  \/ /\ t.op = "open" /\ epoch' = [epoch EXCEPT ![EpochOf[t.by]] = "Open"]
     /\ UNCHANGED <<safeVars, orders, members, stage, published>>
  \/ /\ t.op = "create" /\ made' = made + 1
     /\ UNCHANGED <<safe, nonce, bookVars>>
  \/ /\ t.op \in DOMAIN Gains /\ safe' = [safe EXCEPT ![t.safe] = @ \cup {Gains[t.op]}]
     /\ UNCHANGED <<made, nonce, bookVars>>
  \/ /\ t.op = "submit" /\ orders' = [orders EXCEPT ![t.order] = "Submitted"]
     /\ nonce' = [nonce EXCEPT ![t.safe] = @ + 1]
     /\ UNCHANGED <<made, safe, epoch, members, stage, published>>
  \/ /\ t.op = "activate" /\ orders' = [orders EXCEPT ![t.order] = "Authorised"]
     /\ UNCHANGED <<safeVars, epoch, members, stage, published>>
  \/ t.op = "seal" /\ SealWith(t.set) /\ UNCHANGED <<safeVars, published>>
  \/ t.op = "clear" /\ stage' = stage + 1 /\ UNCHANGED <<safeVars, epoch, orders, members, published>>
  \/ t.op = "publish" /\ published' = TRUE /\ UNCHANGED <<safeVars, epoch, orders, members, stage>>

-----------------------------------------------------------------------------
(* A process: one call at a time, each awaited (spend). *)

Go(b, next) == pc' = [pc EXCEPT ![b] = next]
Mishap(what) == mishaps' = [mishaps EXCEPT ![what] = @ + 1]
Waits(b) == \E i \in DOMAIN pending : pending[i].by = b /\ pending[i].awaited

\* Mutant: a clearing that goes on with the treasuries it has.
Resume_AnyCount(m) ==
  IF m.treasuries = <<>> THEN "create"
  ELSE IF Unordered(m) # {} THEN "submit"
  ELSE IF m.sealed THEN "clear" ELSE "seal"

\* Where prove-clearing goes on, from what its file says.
Resume(m) ==
  IF Len(m.treasuries) < N THEN "create"
  ELSE IF Unordered(m) # {} THEN "submit"
  ELSE IF m.sealed THEN "clear" ELSE "seal"

\* One script runs at a time: they send with one key.
Start(b) ==
  /\ b = "order" => mishaps.refused < MaxRefused
  /\ pc[b] = "off" /\ \A other \in Scripts : pc[other] \in {"off", "done"}
  /\ mem' = [mem EXCEPT ![b] = file[b]]
  /\ cur' = [cur EXCEPT ![b] = [safe |-> 0, order |-> NoOrder]]
  /\ Go(b, IF b = "clearing" THEN "open" ELSE "create")
  /\ UNCHANGED <<chainVars, pending, file, mishaps>>

\* The step after one that went through or was found done.
After(b) ==
  CASE pc[b] = "create"   -> "deploy"
    [] pc[b] = "deploy"   -> "enable"
    [] pc[b] = "enable"   -> "guard"
    [] pc[b] = "guard"    -> "fund"
    [] pc[b] = "fund"     -> "shield"
    [] pc[b] = "shield"   -> "open"
    [] pc[b] = "open"     -> IF b = "clearing" THEN Resume(mem[b]) ELSE "submit"
    [] pc[b] = "submit"   -> "activate"
    [] pc[b] = "clear"    -> IF stage > 6 THEN "publish" ELSE "clear"
    [] OTHER              -> "done"

\* A stage: skipped when done, sent when its estimate holds, else the process ends.
Stage(b, step, isDone, s, o) ==
  LET t == [by |-> b, op |-> step, safe |-> s, order |-> o, awaited |-> TRUE,
            set |-> IF step = "seal" THEN OrdersOf(mem[b]) ELSE {}, stage |-> stage]
  IN /\ pc[b] = step /\ ~Waits(b)
     /\ cur' = [cur EXCEPT ![b] = [safe |-> s, order |-> o]]
     /\ IF isDone THEN Go(b, After(b)) /\ UNCHANGED pending
        ELSE IF Valid(t) THEN pending' = Append(pending, t) /\ UNCHANGED pc
        ELSE Go(b, "off") /\ UNCHANGED pending
     /\ IF step = "activate" /\ ~isDone /\ ~Valid(t) THEN Mishap("refused") ELSE UNCHANGED mishaps
     /\ UNCHANGED <<chainVars, file, mem>>

-----------------------------------------------------------------------------
(* prove-order: every stage but the last two asks the chain first. *)

OrderSafe == IF mem["order"].treasuries = <<>> THEN 0 ELSE mem["order"].treasuries[1].safe
OrderStage(step, isDone) == Stage("order", step, isDone, OrderSafe, NoOrder)
Has(features) == features \subseteq safe[OrderSafe]

OrderCreate == OrderStage("create", OrderSafe # 0)
OrderDeploy == OrderStage("deploy", Has({"module"}))
OrderEnable == OrderStage("enable", Has({"enabled"}))
OrderGuard == OrderStage("guard", Has(Installed))
OrderFund == OrderStage("fund", Has({"funds"}))

\* Mutant: asks the wrapper's underlying, not its backing.
OrderShield_Funded == OrderStage("shield", \E s \in SafeIds : "funds" \in safe[s])

\* The wrapper's whole backing is asked, not this Safe's share of it.
OrderShield == OrderStage("shield", \E s \in SafeIds : "shielded" \in safe[s])

OrderOpen == OrderStage("open", epoch["hour"] # "None")
OrderSubmit == Stage("order", "submit", FALSE, OrderSafe, <<OrderSafe, nonce[OrderSafe]>>)
OrderActivate == Stage("order", "activate", FALSE, OrderSafe, cur["order"].order)

OrderStep ==
  \/ OrderCreate \/ OrderDeploy \/ OrderEnable \/ OrderGuard \/ OrderFund
  \/ OrderShield \/ OrderOpen \/ OrderSubmit \/ OrderActivate

-----------------------------------------------------------------------------
(* prove-clearing: a treasury is made in one go and saved at its end. *)

\* Mutant: opens without asking.
ClearingOpen_Always == Stage("clearing", "open", FALSE, 0, NoOrder)

ClearingOpen == Stage("clearing", "open", epoch["fixed"] # "None", 0, NoOrder)

ClearingCreate == Stage("clearing", "create", FALSE, 0, NoOrder)

ClearingInstall ==
  \E step \in {"deploy", "enable", "guard"} :
    Stage("clearing", step, FALSE, cur["clearing"].safe, NoOrder)

ClearingShield ==
  \E step \in {"fund", "shield"} :
    Stage("clearing", step, FALSE, cur["clearing"].safe, NoOrder)

ClearingSubmit ==
  /\ pc["clearing"] = "submit"
  /\ LET s == mem["clearing"].treasuries[FirstUnordered(mem["clearing"])].safe
     IN Stage("clearing", "submit", FALSE, s, <<s, nonce[s]>>)

ClearingActivate ==
  Stage("clearing", "activate", FALSE, cur["clearing"].safe, cur["clearing"].order)

ClearingSeal == Stage("clearing", "seal", FALSE, 0, NoOrder)

ClearingStages == Stage("clearing", "clear", stage > 6, 0, NoOrder)

\* Published is the stage it consumes and leaves: it never counts as past.
ClearingPublish == Stage("clearing", "publish", FALSE, 0, NoOrder)

ClearingStep ==
  \/ ClearingOpen \/ ClearingCreate \/ ClearingInstall \/ ClearingShield
  \/ ClearingSubmit \/ ClearingActivate \/ ClearingSeal \/ ClearingStages \/ ClearingPublish

-----------------------------------------------------------------------------
(* A receipt, the file and the outside. *)

\* What a process keeps of a call that went through.
Landed(t) ==
  LET m == mem[t.by]
  IN CASE t.by = "order" /\ t.op = "create" ->
            [m EXCEPT !.treasuries = <<[safe |-> made', order |-> NoOrder]>>]
       [] t.by = "clearing" /\ t.op = "shield" ->
            [m EXCEPT !.treasuries = Append(@, [safe |-> t.safe, order |-> NoOrder])]
       [] t.by = "clearing" /\ t.op = "activate" ->
            [m EXCEPT !.treasuries[FirstUnordered(m)].order = t.order]
       [] t.by = "clearing" /\ t.op = "seal" -> [m EXCEPT !.sealed = TRUE]
       [] OTHER -> m

Receipt(t) ==
  IF ~t.awaited THEN UNCHANGED <<mem, cur, pc>>
  ELSE IF ~Valid(t) THEN Go(t.by, "off") /\ UNCHANGED <<mem, cur>>
  ELSE /\ mem' = [mem EXCEPT ![t.by] = Landed(t)]
       /\ Go(t.by, IF Landed(t) # mem[t.by] THEN "save" ELSE After(t.by))
       /\ cur' = IF t.op = "create" THEN [cur EXCEPT ![t.by].safe = made'] ELSE cur

Mine ==
  /\ pending # <<>>
  /\ LET t == Head(pending)
     IN /\ IF Valid(t) THEN Effect(t) ELSE UNCHANGED <<safeVars, bookVars>>
        /\ Receipt(t)
  /\ pending' = Tail(pending)
  /\ UNCHANGED <<calm, expired, file, mishaps>>

Save(b) ==
  /\ pc[b] = "save"
  /\ file' = [file EXCEPT ![b] = mem[b]]
  /\ Go(b, IF b = "clearing" THEN Resume(mem[b]) ELSE "deploy")
  /\ UNCHANGED <<chainVars, pending, mem, cur, mishaps>>

MayGoWrong == mishaps.crashed + mishaps.expired + mishaps.moved < MaxMishaps

Crash(b) ==
  /\ pc[b] \notin {"off", "done"} /\ MayGoWrong /\ Mishap("crashed") /\ Go(b, "off")
  /\ pending' = [i \in DOMAIN pending |-> IF pending[i].by = b
                                          THEN [pending[i] EXCEPT !.awaited = FALSE] ELSE pending[i]]
  /\ UNCHANGED <<chainVars, file, mem, cur>>

\* Two hours pass before the epoch is sealed.
Expire(o) ==
  /\ orders[o] # "None" /\ o \notin expired /\ MayGoWrong /\ Mishap("expired")
  /\ expired' = expired \cup {o}
  /\ UNCHANGED <<safeVars, bookVars, calm, pending, file, mem, cur, pc>>

\* The pool moves out of fixPrice's bounds and back.
Move ==
  /\ calm /\ MayGoWrong /\ Mishap("moved") /\ calm' = FALSE
  /\ UNCHANGED <<safeVars, bookVars, expired, pending, file, mem, cur, pc>>

Settle ==
  /\ ~calm /\ calm' = TRUE
  /\ UNCHANGED <<safeVars, bookVars, expired, pending, file, mem, cur, pc, mishaps>>

\* Sealing and the stages are anybody's.
OutsiderSeals(set) ==
  /\ calm /\ epoch["fixed"] = "Open" /\ set # {}
  /\ \A o \in set : orders[o] = "Authorised" /\ o \notin expired /\ o[1] # OrderSafe
  /\ SealWith(set)
  /\ UNCHANGED <<safeVars, published, calm, expired, pending, file, mem, cur, pc, mishaps>>

OutsiderClears ==
  /\ \/ stage \in 1 .. 6 /\ stage' = stage + 1 /\ UNCHANGED published
     \/ stage = 7 /\ ~published /\ published' = TRUE /\ UNCHANGED stage
  /\ UNCHANGED <<safeVars, epoch, orders, members, calm, expired, pending, file, mem, cur, pc, mishaps>>

Init ==
  /\ made = 0 /\ safe = [s \in 0 .. MaxSafes |-> {}] /\ nonce = [s \in 0 .. MaxSafes |-> 0]
  /\ epoch = [fixed |-> "None", hour |-> "None"] /\ orders = [o \in Orders |-> "None"]
  /\ members = {} /\ stage = 0 /\ published = FALSE /\ calm = TRUE /\ expired = {}
  /\ pending = <<>>
  /\ file = [b \in Scripts |-> [treasuries |-> <<>>, sealed |-> FALSE]] /\ mem = file
  /\ cur = [b \in Scripts |-> [safe |-> 0, order |-> NoOrder]]
  /\ pc = [b \in Scripts |-> "off"]
  /\ mishaps = [crashed |-> 0, expired |-> 0, moved |-> 0, refused |-> 0]

Next ==
  \/ OrderStep \/ ClearingStep \/ Mine
  \/ \E b \in Scripts : Start(b) \/ Save(b) \/ Crash(b)
  \/ \E o \in Orders : Expire(o)
  \/ \E set \in SUBSET {o \in Orders : orders[o] = "Authorised"} : OutsiderSeals(set)
  \/ OutsiderClears \/ Move \/ Settle

Spec == Init /\ [][Next]_vars

\* A script that ended is run again, however the other one fares, which must have
\* ended for it; blocks come; the pool comes to rest.
FairSpec ==
  /\ Spec
  /\ WF_vars(OrderStep) /\ WF_vars(ClearingStep) /\ WF_vars(Mine) /\ WF_vars(Settle)
  /\ \A b \in Scripts : SF_vars(Start(b)) /\ WF_vars(Save(b))
=============================================================================
