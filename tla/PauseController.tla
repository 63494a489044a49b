--------------------------- MODULE PauseController ---------------------------
(***************************************************************************)
(* contracts/recovery/ShrudPauseController.sol: the guardian's one-way     *)
(* switch Live -> Paused -> Halted, the sticky per-activity pauses, and    *)
(* the three gates every other contract asks before it acts.  A gate that  *)
(* reverts is a guard that is false: the whole transaction does not occur. *)
(***************************************************************************)
EXTENDS Integers

CONSTANT GuardianMay   \* what the guardian does in an instance: a subset of
                       \* {"Pause", "Halt"} and of the activities it may pause

Activity == {"Submit", "Activate", "Seal", "Clear", "Settle", "Disclose", "Shield"}
NetState == {"Live", "Paused", "Halted"}

ASSUME GuardianAssumption == GuardianMay \subseteq {"Pause", "Halt"} \cup Activity

VARIABLES
  netState,        \* _state
  activityPaused   \* the activities whose _activityPaused flag is set

pauseVars == <<netState, activityPaused>>

PauseTypeOK ==
  /\ netState \in NetState
  /\ activityPaused \subseteq Activity

PauseInit ==
  /\ netState = "Live"
  /\ activityPaused = {}

-----------------------------------------------------------------------------
(* The gates. *)

RequireLive(a) == netState = "Live" /\ a \notin activityPaused

RequireNotHalted(a) == netState # "Halted" /\ a \notin activityPaused

RequireHalted == netState = "Halted"

-----------------------------------------------------------------------------
(* The guardian's three calls.  None of them leaves Halted, and no call    *)
(* clears an activity pause.                                               *)

\* Mutant: a pause that does not look at the current state.
Pause_FromHalted ==
  /\ "Pause" \in GuardianMay
  /\ netState' = "Paused"
  /\ UNCHANGED activityPaused

Pause ==
  /\ "Pause" \in GuardianMay
  /\ netState # "Halted"
  /\ netState' = "Paused"
  /\ UNCHANGED activityPaused

PauseActivity(a) ==
  /\ a \in GuardianMay
  /\ netState # "Halted"
  /\ activityPaused' = activityPaused \cup {a}
  /\ UNCHANGED netState

Halt ==
  /\ "Halt" \in GuardianMay
  /\ netState # "Halted"
  /\ netState' = "Halted"
  /\ UNCHANGED activityPaused

GuardianNext == Pause \/ Halt \/ \E a \in Activity : PauseActivity(a)
==============================================================================
