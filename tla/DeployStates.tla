---------------------------- MODULE DeployStates ----------------------------
(***************************************************************************)
(* The vocabulary of a cluster deploy: the states a node's record goes     *)
(* through, the two orders the code puts on them, the stages of the gate   *)
(* ledger, and the meaning of the status records a node leaves in its      *)
(* BMC's system event log (SEL).                                           *)
(***************************************************************************)
EXTENDS Integers, Sequences

(* The state strings of a node's record. *)
State == { "pending", "bmc-preflight", "set-boot-pxe", "power-cycle",
           "netbooting", "preflighting", "preflight-ok", "restoring",
           "rebooting", "imaging", "imaged", "checked-in",
           "waiting-controller", "net-preflight", "applying", "applied",
           "done", "error" }

(* Stages of the "go" records a driver writes to a BMC. *)
RESTORE  == 1
REBOOT   == 2
APPLY    == 3
SETREADY == 4
Stages   == {RESTORE, REBOOT, APPLY, SETREADY}

(* The manual steps an operator walks through with "Next". *)
StepPreflight   == 1
StepRestore     == 2
StepReboot      == 3
StepApplyMaster == 4
StepApplyRest   == 5
StepSetReady    == 6

terminal(s) == s \in {"done", "error"}

(* States the agent owns: the orchestrator's own stages stop touching the  *)
(* record once one of them is set. "error" is one of them, the two imaging *)
(* states are not.                                                         *)
agentDriven(s) ==
    s \in { "preflighting", "preflight-ok", "restoring", "rebooting",
            "checked-in", "waiting-controller", "net-preflight", "applying",
            "applied", "done", "error" }

(* Where a state lies on the install pipeline; everything before the       *)
(* installer's preflight, and an error, is 0.                              *)
pipelineRank ==
    [s \in State |->
        CASE s = "preflighting" -> 1
          [] s = "preflight-ok" -> 2
          [] s = "restoring" -> 3
          [] s = "rebooting" -> 4
          [] s \in {"checked-in", "waiting-controller", "net-preflight"} -> 5
          [] s \in {"applying", "applied"} -> 6
          [] s = "done" -> 7
          [] OTHER -> 0]

(* The order an out-of-band merge advances along. An error is below all of *)
(* it (the code's -1; 0 here, and the first state is 1).                   *)
StateOrder ==
    << "pending", "bmc-preflight", "set-boot-pxe", "power-cycle",
       "netbooting", "preflighting", "preflight-ok", "restoring",
       "rebooting", "imaging", "imaged", "checked-in", "waiting-controller",
       "net-preflight", "applying", "applied", "done" >>

stateRank ==
    [s \in State |->
        IF \E i \in 1..Len(StateOrder) : StateOrder[i] = s
        THEN CHOOSE i \in 1..Len(StateOrder) : StateOrder[i] = s
        ELSE 0]

(* The status records of a node: phase and result, as one word. Preflight  *)
(* records map to no state, so an observer never returns them.             *)
Status == { "restoring", "restore-done", "rebooted", "applying", "applied",
            "error", "ready-ok", "ready-error" }
NoStatus == "none"

(* Mutant: an apply that began counts as one that ended.                   *)
selState_BeganIsDone(s) ==
    CASE s = "restoring" -> "restoring"
      [] s = "restore-done" -> "rebooting"
      [] s = "rebooted" -> "waiting-controller"
      [] s \in {"applying", "applied", "ready-ok"} -> "done"
      [] s \in {"error", "ready-error"} -> "error"

(* The state a status record confirms. "ready-ok" is mapped only so that   *)
(* the observer keeps the record; an error result wins over the phase.     *)
selState(s) ==
    CASE s = "restoring" -> "restoring"
      [] s = "restore-done" -> "rebooting"
      [] s = "rebooted" -> "waiting-controller"
      [] s = "applying" -> "applying"
      [] s \in {"applied", "ready-ok"} -> "done"
      [] s \in {"error", "ready-error"} -> "error"
=============================================================================
