--------------------------- MODULE ClearingPromise ---------------------------
(***************************************************************************)
(* What the network promises a treasury, without its contracts, its clock, *)
(* its cursors or its price: the public life of an order (SECURITY.md, the *)
(* privacy boundary; PRD 12.1), where its value is, and how the two public *)
(* routes of an epoch end.                                                 *)
(***************************************************************************)
CONSTANTS
  Orders,   \* the orders
  Epochs,   \* the clearing epochs
  Home      \* the epoch an order names

VARIABLES
  fate,      \* Idle, Offered, Locked, Sealed, Cleared, Withdrawn or Lapsed
  custody,   \* Safe, Vault or Returned: where what the order locks is
  sealed,    \* the candidate set of an epoch, empty until it is sealed
  swap,      \* Pending, Venue, NoVenue or Recovered: how the swap route ended
  supply,    \* Pending, Venue or NoVenue: how the supply route ended
  stopped    \* has the network halted

promiseVars == <<fate, custody, sealed, swap, supply, stopped>>

Init ==
  /\ fate = [i \in Orders |-> "Idle"]
  /\ custody = [i \in Orders |-> "Safe"]
  /\ sealed = [e \in Epochs |-> {}]
  /\ swap = [e \in Epochs |-> "Pending"]
  /\ supply = [e \in Epochs |-> "Pending"]
  /\ stopped = FALSE

Offer(i) ==
  /\ ~stopped
  /\ fate[i] = "Idle"
  /\ fate' = [fate EXCEPT ![i] = "Offered"]
  /\ UNCHANGED <<custody, sealed, swap, supply, stopped>>

\* Value moves once, with the authorisation.
Lock(i) ==
  /\ ~stopped
  /\ fate[i] = "Offered"
  /\ fate' = [fate EXCEPT ![i] = "Locked"]
  /\ custody' = [custody EXCEPT ![i] = "Vault"]
  /\ UNCHANGED <<sealed, swap, supply, stopped>>

\* An order outside a sealed set can be withdrawn, and then keeps nothing here.
Withdraw(i) ==
  /\ ~stopped
  /\ fate[i] \in {"Offered", "Locked"}
  /\ fate' = [fate EXCEPT ![i] = "Withdrawn"]
  /\ custody' = [custody EXCEPT ![i] = IF fate[i] = "Locked" THEN "Returned" ELSE @]
  /\ UNCHANGED <<sealed, swap, supply, stopped>>

\* It can also lapse, halted or not; what it locked then stays where it is.
Lapse(i) ==
  /\ fate[i] \in {"Offered", "Locked"}
  /\ fate' = [fate EXCEPT ![i] = "Lapsed"]
  /\ UNCHANGED <<custody, sealed, swap, supply, stopped>>

\* A candidate set is fixed once, of locked orders that name the epoch.
Seal(e, S) ==
  /\ ~stopped
  /\ sealed[e] = {}
  /\ S # {}
  /\ \A i \in S : fate[i] = "Locked" /\ Home[i] = e
  /\ sealed' = [sealed EXCEPT ![e] = S]
  /\ fate' = [i \in Orders |-> IF i \in S THEN "Sealed" ELSE fate[i]]
  /\ UNCHANGED <<custody, swap, supply, stopped>>

\* A route ends once.  A venue spends only what is still in the vault; only a
\* recovery needs no running network.
EndSwap(e, how) ==
  /\ sealed[e] # {}
  /\ swap[e] = "Pending"
  /\ how \in {"Venue", "NoVenue"} => ~stopped
  /\ how = "Venue" => \A i \in sealed[e] : custody[i] = "Vault"
  /\ swap' = [swap EXCEPT ![e] = how]
  /\ UNCHANGED <<fate, custody, sealed, supply, stopped>>

EndSupply(e, how) ==
  /\ sealed[e] # {}
  /\ supply[e] = "Pending"
  /\ ~stopped
  /\ how = "Venue" => \A i \in sealed[e] : custody[i] = "Vault"
  /\ supply' = [supply EXCEPT ![e] = how]
  /\ UNCHANGED <<fate, custody, sealed, swap, stopped>>

\* Some candidates of an epoch whose swap route ended well become final.
Clear(e, S) ==
  /\ ~stopped
  /\ swap[e] \in {"Venue", "NoVenue"}
  /\ S # {} /\ S \subseteq sealed[e]
  /\ \A i \in S : fate[i] = "Sealed"
  /\ fate' = [i \in Orders |-> IF i \in S THEN "Cleared" ELSE fate[i]]
  /\ UNCHANGED <<custody, sealed, swap, supply, stopped>>

Stop ==
  /\ ~stopped
  /\ stopped' = TRUE
  /\ UNCHANGED <<fate, custody, sealed, swap, supply>>

\* The way out, once per order.
Leave(i) ==
  /\ stopped
  /\ custody[i] = "Vault"
  /\ custody' = [custody EXCEPT ![i] = "Returned"]
  /\ UNCHANGED <<fate, sealed, swap, supply, stopped>>

Next ==
  \/ \E i \in Orders : Offer(i) \/ Lock(i) \/ Withdraw(i) \/ Lapse(i) \/ Leave(i)
  \/ \E e \in Epochs, S \in SUBSET Orders : Seal(e, S) \/ Clear(e, S)
  \/ \E e \in Epochs :
       \/ \E how \in {"Venue", "NoVenue", "Recovered"} : EndSwap(e, how)
       \/ \E how \in {"Venue", "NoVenue"} : EndSupply(e, how)
  \/ Stop

Spec == Init /\ [][Next]_promiseVars
==============================================================================
