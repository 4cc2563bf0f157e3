---------------------------- MODULE DeployProofs ----------------------------
(***************************************************************************)
(* Type correctness of the deploy model, for every set of nodes and every  *)
(* value of the bounds: each variable keeps to the states, gate stages and *)
(* run numbers the code can store in it.                                   *)
(***************************************************************************)
EXTENDS Deploy, TLAPS

(* The bounds are naturals. *)
LEMMA Bounds ==
    /\ MaxStarts \in Nat /\ MaxFaults \in Nat
    /\ MaxRekicks \in Nat /\ MaxApplyReboots \in Nat
BY DeployAssumption DEF DeployAssumption

(* Every state the driver assigns is a state of the record. *)
LEMMA StateMembers ==
    \A s \in { "pending", "bmc-preflight", "set-boot-pxe", "power-cycle",
           "netbooting", "preflighting", "preflight-ok", "restoring",
           "rebooting", "imaging", "imaged", "checked-in",
           "waiting-controller", "net-preflight", "applying", "applied",
           "done", "error" } : s \in State
BY DEF State

(* Every status an agent writes to the SEL is a status MergeSEL can read. *)
LEMMA StatusMembers ==
    \A s \in { "restoring", "restore-done", "rebooted", "applying", "applied",
            "error", "ready-ok", "ready-error" } : s \in Status
BY DEF Status

(* The four gates are stages of a gate record. *)
LEMMA StageMembers == {RESTORE, REBOOT, APPLY, SETREADY} \subseteq Stages
BY DEF Stages

(* MergeSEL's result is a state of the record. *)
LEMMA MergedType == ASSUME NEW s \in State, NEW x \in Status PROVE Merged(s, x) \in State
BY StateMembers DEF Merged, selState, Status

(* Moving runNode of one node to a place keeps the run types. *)
LEMMA RunToType ==
    ASSUME rn \in [Runs -> [Nodes -> RunPc]], NEW g \in Runs, NEW n \in Nodes,
           NEW pc \in RunPc, RunTo(g, n, pc)
    PROVE  rn' \in [Runs -> [Nodes -> RunPc]]
<1>1. [rn[g] EXCEPT ![n] = pc] \in [Nodes -> RunPc]
  OBVIOUS
<1>2. rn' = [rn EXCEPT ![g] = [rn[g] EXCEPT ![n] = pc]]
  BY DEF RunTo
<1> QED BY <1>1, <1>2

(* A gate write of one run, node and set of stages is a pending write. *)
LEMMA WriteType ==
    ASSUME NEW r \in 0..MaxStarts, NEW n \in Nodes, NEW s \in SUBSET Stages,
           NEW a \in BOOLEAN, NEW pc \in {"write", "ack"}
    PROVE  [run |-> r, node |-> n, stages |-> s, acks |-> a, pc |-> pc] \in Write
BY DEF Write

(* writeGosAsync leaves well-typed grants and pending writes behind. *)
LEMMA writeGosType ==
    ASSUME RecTypeOK, DrvTypeOK, NEW grants \in [Nodes -> SUBSET Stages],
           writeGos(grants)
    PROVE  ledger' \in [Nodes -> SUBSET Stages] /\ wr' \subseteq Write
<1> DEFINE led == [n \in Nodes |-> ledger[n] \cup grants[n]]
<1>1. led \in [Nodes -> SUBSET Stages]
  BY DEF RecTypeOK
<1>2. \A n \in Nodes : [run |-> reg, node |-> n, stages |-> led[n],
                        acks |-> TRUE, pc |-> "write"] \in Write
  <2> TAKE n \in Nodes
  <2>1. led[n] \in SUBSET Stages /\ reg \in 0..MaxStarts
    BY <1>1 DEF RecTypeOK
  <2> HIDE DEF led
  <2> QED BY <2>1, WriteType
<1>3. ledger' = IF reg = 0 THEN ledger ELSE led
  BY DEF writeGos
<1>4. wr' = wr \cup {[run |-> reg, node |-> n, stages |-> led[n],
                     acks |-> TRUE, pc |-> "write"] :
                    n \in {k \in Nodes : grants[k] # {} /\ reg # 0}}
  BY DEF writeGos
<1> HIDE DEF led
<1>5. ledger' \in [Nodes -> SUBSET Stages]
  BY <1>1, <1>3 DEF RecTypeOK
<1>6. wr' \subseteq Write
  BY <1>2, <1>4 DEF DrvTypeOK
<1> QED BY <1>5, <1>6

(* What AdvanceStep grants, for each step, is a set of gates per node. *)
LEMMA AdvanceGrants ==
    ASSUME RecTypeOK, AdvanceStep
    PROVE  \E grants \in [Nodes -> SUBSET Stages] : writeGos(grants)
<1> DEFINE grants == [n \in Nodes |->
           CASE step' = StepRestore     -> {RESTORE}
             [] step' = StepReboot      -> {REBOOT}
             [] step' = StepApplyMaster -> IF n = Master THEN {APPLY} ELSE {}
             [] step' = StepApplyRest   -> IF n # Master THEN {APPLY} ELSE {}
             [] step' = StepSetReady    -> IF n = Master THEN {SETREADY} ELSE {}]
<1>1. step \in 1..5
  BY DEF AdvanceStep, RecTypeOK, StepSetReady, canAdvance, StepPreflight,
         StepRestore, StepReboot, StepApplyMaster, StepApplyRest
<1>2. step' \in 2..6
  BY <1>1 DEF AdvanceStep
<1>3. grants \in [Nodes -> SUBSET Stages]
  BY <1>2, StageMembers DEF StepRestore, StepReboot, StepApplyMaster,
         StepApplyRest, StepSetReady
<1>4. writeGos(grants)
  BY DEF AdvanceStep
<1> QED BY <1>3, <1>4

(* maybeVerifyCluster leaves a well-typed set of checks behind. *)
LEMMA VerifyType ==
    ASSUME RecTypeOK, DrvTypeOK, NEW s2, maybeVerifyCluster(s2)
    PROVE  vf' \subseteq Runs
<1>1. CASE vf' = vf
  BY <1>1 DEF DrvTypeOK
<1>2. CASE vf' = vf \cup {reg} /\ reg # 0
  BY <1>2, Bounds DEF DrvTypeOK, RecTypeOK, Runs
<1> QED BY <1>1, <1>2 DEF maybeVerifyCluster

(* Every step keeps the types, one case per action. *)
LEMMA TypeOK_Next == ASSUME TypeOK, [Next]_vars PROVE TypeOK'
<1> USE DEF TypeOK
<1>1. ASSUME NEW b \in Modes,
            Start(b)
      PROVE  TypeOK'
  <2>1. BmcTypeOK' /\ NodeTypeOK'
    BY <1>1 DEF Start, BmcTypeOK, NodeTypeOK, runVars, recVars, drvVars,
       bmcVars, nodeVars, histVars
  <2>2. RunTypeOK'
    <3>1. gen + 1 \in Runs /\ gen + 1 \in 0..MaxStarts
      BY <1>1, Bounds DEF Start, RunTypeOK, Runs
    <3>2. b \in BOOLEAN
      BY DeployAssumption DEF DeployAssumption
    <3> QED BY <1>1, <3>1, <3>2 DEF Start, RunTypeOK, runVars, recVars, drvVars, bmcVars, nodeVars, histVars
  <2>3. RecTypeOK'
    <3>1. reg' \in 0..MaxStarts
      BY <1>1, Bounds DEF Start, RunTypeOK
    <3>2. step' \in 0..6
      BY <1>1 DEF Start, StepPreflight
    <3>3. st' \in [Nodes -> State]
      BY <1>1, StateMembers DEF Start
    <3>4. rekick' \in [Nodes -> 0..MaxRekicks]
      BY <1>1, Bounds DEF Start
    <3>5. /\ pf' \in [Nodes -> {"none", "fail", "pass"}]
          /\ ledger' \in [Nodes -> SUBSET Stages]
          /\ ack' \in [Nodes -> SUBSET Stages]
          /\ srDone' \in BOOLEAN /\ clusterReady' \in BOOLEAN
      BY <1>1 DEF Start
    <3> QED BY <3>1, <3>2, <3>3, <3>4, <3>5 DEF RecTypeOK
  <2>4. DrvTypeOK'
    BY <1>1, Bounds, StageMembers, StatusMembers DEF Start, DrvTypeOK,
       RecTypeOK, Runs, runVars, recVars, drvVars, bmcVars, nodeVars, histVars
  <2>5. HistTypeOK'
    BY <1>1, Bounds DEF Start, HistTypeOK, RecTypeOK, Runs, runVars, recVars,
       drvVars, bmcVars, nodeVars, histVars
  <2> QED BY <2>1, <2>2, <2>3, <2>4, <2>5 DEF TypeOK
<1>2. ASSUME NEW g \in Runs, NEW n \in Nodes,
            StartClear(g, n)
      PROVE  TypeOK'
  <2>1. RecTypeOK' /\ DrvTypeOK' /\ NodeTypeOK'
    BY <1>2 DEF StartClear, RecTypeOK, DrvTypeOK, NodeTypeOK, runVars,
       recVars, drvVars, bmcVars, nodeVars, histVars
  <2>2. RunTypeOK'
    BY <1>2, Bounds DEF StartClear, RunTypeOK, Runs, runVars, recVars,
       drvVars, bmcVars, nodeVars, histVars
  <2>3. BmcTypeOK'
    BY <1>2, Bounds, StatusMembers DEF StartClear, Fault, NoStatus, BmcTypeOK,
       Runs, runVars, recVars, drvVars, bmcVars, nodeVars, histVars
  <2>4. HistTypeOK'
    BY <1>2, Bounds DEF StartClear, Fault, HistTypeOK, RecTypeOK, Runs,
       runVars, recVars, drvVars, bmcVars, nodeVars, histVars
  <2> QED BY <2>1, <2>2, <2>3, <2>4 DEF TypeOK
<1>3. ASSUME NEW g \in Runs,
            StartArm(g)
      PROVE  TypeOK'
  <2>1. BmcTypeOK' /\ NodeTypeOK' /\ HistTypeOK'
    BY <1>3 DEF StartArm, BmcTypeOK, NodeTypeOK, HistTypeOK, runVars, recVars,
       drvVars, bmcVars, nodeVars, histVars
  <2>2. RunTypeOK'
    BY <1>3, Bounds DEF StartArm, RunTypeOK, Runs, runVars, recVars, drvVars,
       bmcVars, nodeVars, histVars
  <2>3. RecTypeOK'
    BY <1>3, Bounds, StateMembers, StageMembers DEF StartArm, writeGos,
       RecTypeOK, Runs, runVars, recVars, drvVars, bmcVars, nodeVars, histVars
  <2>4. DrvTypeOK'
    <3> DEFINE grants == [n \in Nodes |-> IF n = Master THEN {RESTORE, REBOOT, APPLY}
                                                 ELSE {RESTORE, REBOOT}]
    <3>1. grants \in [Nodes -> SUBSET Stages]
      BY StageMembers
    <3>2. UNCHANGED wr \/ writeGos(grants)
      BY <1>3 DEF StartArm
    <3> HIDE DEF grants
    <3>3. wr' \subseteq Write
      BY <3>1, <3>2, writeGosType DEF DrvTypeOK
    <3> QED BY <1>3, <3>3 DEF StartArm, DrvTypeOK
  <2> QED BY <2>1, <2>2, <2>3, <2>4 DEF TypeOK
<1>4. ASSUME NEW g \in Runs,
            StartFlip(g)
      PROVE  TypeOK'
  <2>1. BmcTypeOK' /\ NodeTypeOK'
    BY <1>4 DEF StartFlip, BmcTypeOK, NodeTypeOK, runVars, recVars, drvVars,
       bmcVars, nodeVars, histVars
  <2>2. RunTypeOK'
    BY <1>4, Bounds DEF StartFlip, RunTypeOK, Runs, runVars, recVars, drvVars,
       bmcVars, nodeVars, histVars
  <2>3. RecTypeOK'
    BY <1>4, Bounds, StateMembers, StageMembers DEF StartFlip, RecTypeOK,
       Runs, runVars, recVars, drvVars, bmcVars, nodeVars, histVars
  <2>4. DrvTypeOK'
    BY <1>4, Bounds, StageMembers, StatusMembers DEF StartFlip, DrvTypeOK,
       RecTypeOK, Runs, runVars, recVars, drvVars, bmcVars, nodeVars, histVars
  <2>5. HistTypeOK'
    BY <1>4, Bounds DEF StartFlip, Fault, HistTypeOK, RecTypeOK, Runs,
       runVars, recVars, drvVars, bmcVars, nodeVars, histVars
  <2> QED BY <2>1, <2>2, <2>3, <2>4, <2>5 DEF TypeOK
<1>5. ASSUME NEW g \in Runs, NEW n \in Nodes,
            RunBegin(g, n)
      PROVE  TypeOK'
  <2>1. DrvTypeOK' /\ BmcTypeOK' /\ NodeTypeOK'
    BY <1>5 DEF RunBegin, runUnch, DrvTypeOK, BmcTypeOK, NodeTypeOK, runVars,
       recVars, drvVars, bmcVars, nodeVars, histVars
  <2>2. RunTypeOK'
    <3>1. PICK pc \in RunPc : RunTo(g, n, pc)
      BY <1>5 DEF RunBegin, RunPc
    <3>2. rn' \in [Runs -> [Nodes -> RunPc]]
      BY <3>1, RunToType DEF RunTypeOK
    <3> QED BY <1>5, <3>2 DEF RunTypeOK, RunBegin, runUnch
  <2>3. RecTypeOK'
    BY <1>5, Bounds, StateMembers, StageMembers DEF RunBegin, SetState,
       Advanced, runUnch, RecTypeOK, Runs, runVars, recVars, drvVars, bmcVars,
       nodeVars, histVars
  <2>4. HistTypeOK'
    BY <1>5, Bounds DEF RunBegin, SetState, runUnch, HistTypeOK, RecTypeOK,
       Runs, runVars, recVars, drvVars, bmcVars, nodeVars, histVars
  <2> QED BY <2>1, <2>2, <2>3, <2>4 DEF TypeOK
<1>6. ASSUME NEW g \in Runs, NEW n \in Nodes,
            RunPreflight(g, n)
      PROVE  TypeOK'
  <2>1. DrvTypeOK' /\ BmcTypeOK' /\ NodeTypeOK'
    BY <1>6 DEF RunPreflight, runUnch, DrvTypeOK, BmcTypeOK, NodeTypeOK,
       runVars, recVars, drvVars, bmcVars, nodeVars, histVars
  <2>2. RunTypeOK'
    <3>1. PICK pc \in RunPc : RunTo(g, n, pc)
      BY <1>6 DEF RunPreflight, RunPc
    <3>2. rn' \in [Runs -> [Nodes -> RunPc]]
      BY <3>1, RunToType DEF RunTypeOK
    <3> QED BY <1>6, <3>2 DEF RunTypeOK, RunPreflight, runUnch
  <2>3. RecTypeOK'
    BY <1>6, Bounds, StateMembers, StageMembers DEF RunPreflight, SetState,
       Advanced, runUnch, RecTypeOK, Runs, runVars, recVars, drvVars, bmcVars,
       nodeVars, histVars
  <2>4. HistTypeOK'
    BY <1>6, Bounds DEF RunPreflight, CallFails, Fault, SetState, runUnch,
       HistTypeOK, RecTypeOK, Runs, runVars, recVars, drvVars, bmcVars,
       nodeVars, histVars
  <2> QED BY <2>1, <2>2, <2>3, <2>4 DEF TypeOK
<1>7. ASSUME NEW g \in Runs, NEW n \in Nodes,
            RunSetBootPXE(g, n)
      PROVE  TypeOK'
  <2>1. DrvTypeOK' /\ NodeTypeOK'
    BY <1>7 DEF RunSetBootPXE, runUnch, DrvTypeOK, NodeTypeOK, runVars,
       recVars, drvVars, bmcVars, nodeVars, histVars
  <2>2. RunTypeOK'
    <3>1. PICK pc \in RunPc : RunTo(g, n, pc)
      BY <1>7 DEF RunSetBootPXE, RunPc
    <3>2. rn' \in [Runs -> [Nodes -> RunPc]]
      BY <3>1, RunToType DEF RunTypeOK
    <3> QED BY <1>7, <3>2 DEF RunTypeOK, RunSetBootPXE, runUnch
  <2>3. RecTypeOK'
    BY <1>7, Bounds, StateMembers, StageMembers DEF RunSetBootPXE, SetState,
       Advanced, runUnch, RecTypeOK, Runs, runVars, recVars, drvVars, bmcVars,
       nodeVars, histVars
  <2>4. BmcTypeOK'
    BY <1>7, Bounds, StatusMembers DEF RunSetBootPXE, Fault, runUnch,
       BmcTypeOK, Runs, runVars, recVars, drvVars, bmcVars, nodeVars, histVars
  <2>5. HistTypeOK'
    BY <1>7, Bounds DEF RunSetBootPXE, CallFails, Fault, SetState, runUnch,
       HistTypeOK, RecTypeOK, Runs, runVars, recVars, drvVars, bmcVars,
       nodeVars, histVars
  <2> QED BY <2>1, <2>2, <2>3, <2>4, <2>5 DEF TypeOK
<1>8. ASSUME NEW g \in Runs, NEW n \in Nodes,
            RunPowerCycle(g, n)
      PROVE  TypeOK'
  <2>1. DrvTypeOK' /\ BmcTypeOK'
    BY <1>8 DEF RunPowerCycle, runUnch, DrvTypeOK, BmcTypeOK, runVars,
       recVars, drvVars, bmcVars, nodeVars, histVars
  <2>2. RunTypeOK'
    <3>1. PICK pc \in RunPc : RunTo(g, n, pc)
      BY <1>8 DEF RunPowerCycle, RunPc
    <3>2. rn' \in [Runs -> [Nodes -> RunPc]]
      BY <3>1, RunToType DEF RunTypeOK
    <3> QED BY <1>8, <3>2 DEF RunTypeOK, RunPowerCycle, runUnch
  <2>3. RecTypeOK'
    BY <1>8, Bounds, StateMembers, StageMembers DEF RunPowerCycle, SetState,
       Advanced, runUnch, RecTypeOK, Runs, runVars, recVars, drvVars, bmcVars,
       nodeVars, histVars
  <2>4. NodeTypeOK'
    <3>1. g \in 0..MaxStarts
      BY Bounds DEF Runs
    <3>2. (\E up \in BOOLEAN : PowerCycled(g, n, up)) \/ UNCHANGED nodeVars
      BY <1>8 DEF RunPowerCycle
    <3>3. CASE UNCHANGED nodeVars
      BY <3>3 DEF NodeTypeOK, nodeVars
    <3>4. ASSUME NEW up \in BOOLEAN, PowerCycled(g, n, up)
          PROVE  NodeTypeOK'
      <4>1. ag' \in [Nodes -> AgentPhase]
        <5>1. (IF up /\ boot[n] = "pxe" THEN "pxe" ELSE "off") \in AgentPhase
          BY DEF AgentPhase
        <5> QED BY <3>4, <5>1 DEF PowerCycled, NodeTypeOK
      <4> QED BY <3>1, <3>4, <4>1, Bounds DEF PowerCycled, NodeTypeOK
    <3> QED BY <3>2, <3>3, <3>4
  <2>5. HistTypeOK'
    <3>1. /\ UNCHANGED released
          /\ UNCHANGED fault \/ CallFails(g)
          /\ SetState(Advanced(n, "netbooting")) \/ SetState(Advanced(n, "error"))
      BY <1>8 DEF RunPowerCycle, runUnch
    <3>2. fault' \in 0..MaxFaults
      BY <3>1, Bounds DEF CallFails, Fault, HistTypeOK
    <3>3. everDone' \subseteq Nodes
      BY <3>1 DEF SetState, HistTypeOK
    <3> QED BY <3>1, <3>2, <3>3 DEF HistTypeOK
  <2> QED BY <2>1, <2>2, <2>3, <2>4, <2>5 DEF TypeOK
<1>9. ASSUME NEW g \in Runs, NEW n \in Nodes,
            RunPoll(g, n)
      PROVE  TypeOK'
  <2>1. DrvTypeOK' /\ BmcTypeOK' /\ NodeTypeOK'
    BY <1>9 DEF RunPoll, runUnch, DrvTypeOK, BmcTypeOK, NodeTypeOK, runVars,
       recVars, drvVars, bmcVars, nodeVars, histVars
  <2>2. RunTypeOK'
    <3>1. PICK pc \in RunPc : RunTo(g, n, pc)
      BY <1>9 DEF RunPoll, RunPc
    <3>2. rn' \in [Runs -> [Nodes -> RunPc]]
      BY <3>1, RunToType DEF RunTypeOK
    <3> QED BY <1>9, <3>2 DEF RunTypeOK, RunPoll, runUnch
  <2>3. RecTypeOK'
    BY <1>9, Bounds, StateMembers, StageMembers DEF RunPoll, SetState,
       Advanced, runUnch, RecTypeOK, Runs, runVars, recVars, drvVars, bmcVars,
       nodeVars, histVars
  <2>4. HistTypeOK'
    BY <1>9, Bounds DEF RunPoll, Fault, SetState, runUnch, HistTypeOK,
       RecTypeOK, Runs, runVars, recVars, drvVars, bmcVars, nodeVars, histVars
  <2> QED BY <2>1, <2>2, <2>3, <2>4 DEF TypeOK
<1>10. ASSUME NEW w \in wr,
            GateWrite(w)
      PROVE  TypeOK'
  <2>1. RunTypeOK' /\ RecTypeOK' /\ NodeTypeOK'
    BY <1>10 DEF GateWrite, gateUnch, RunTypeOK, RecTypeOK, NodeTypeOK,
       runVars, recVars, drvVars, bmcVars, nodeVars, histVars
  <2>2. DrvTypeOK'
    BY <1>10, Bounds, StageMembers, StatusMembers DEF GateWrite, Write,
       NoStatus, gateUnch, DrvTypeOK, RecTypeOK, Runs, runVars, recVars,
       drvVars, bmcVars, nodeVars, histVars
  <2>3. BmcTypeOK'
    <3>1. w.node \in Nodes /\ w.stages \in SUBSET Stages /\ w.run \in 0..MaxStarts
      BY DEF DrvTypeOK, Write
    <3>2. \A part \in SUBSET w.stages :
             /\ Added(w.node, w.run, part) \subseteq Stages \X (0..MaxStarts)
             /\ {<<s, w.run>> : s \in part} \subseteq Stages \X (0..MaxStarts)
      BY <3>1 DEF Added
    <3>3. sel' \in [Nodes -> SUBSET (Stages \X (0..MaxStarts))]
      BY <1>10, <3>1, <3>2 DEF GateWrite, BmcTypeOK
    <3>4. /\ oob' \in [Nodes -> Status \cup {NoStatus}]
          /\ anchor' \in [Nodes -> {"zero", "at", "gone"}]
          /\ UNCHANGED boot
      BY <1>10, <3>1 DEF GateWrite, BmcTypeOK, gateUnch
    <3> QED BY <3>3, <3>4 DEF BmcTypeOK
  <2>4. HistTypeOK'
    BY <1>10, Bounds DEF GateWrite, Fault, gateUnch, HistTypeOK, RecTypeOK,
       Runs, runVars, recVars, drvVars, bmcVars, nodeVars, histVars
  <2> QED BY <2>1, <2>2, <2>3, <2>4 DEF TypeOK
<1>11. ASSUME NEW w \in wr,
            GateAck(w)
      PROVE  TypeOK'
  <2>1. RunTypeOK' /\ BmcTypeOK' /\ NodeTypeOK' /\ HistTypeOK'
    BY <1>11 DEF GateAck, gateUnch, RunTypeOK, BmcTypeOK, NodeTypeOK,
       HistTypeOK, runVars, recVars, drvVars, bmcVars, nodeVars, histVars
  <2>2. RecTypeOK'
    <3>1. w.stages \in SUBSET Stages
      BY DEF DrvTypeOK, Write
    <3> QED BY <1>11, <3>1 DEF GateAck, RecTypeOK, gateUnch
  <2>3. DrvTypeOK'
    BY <1>11, Bounds, StageMembers, StatusMembers DEF GateAck, Write,
       gateUnch, DrvTypeOK, RecTypeOK, Runs, runVars, recVars, drvVars,
       bmcVars, nodeVars, histVars
  <2> QED BY <2>1, <2>2, <2>3 DEF TypeOK
<1>12. ASSUME NEW g \in Runs, NEW n \in Nodes,
            Reconcile(g, n)
      PROVE  TypeOK'
  <2>1. RunTypeOK' /\ RecTypeOK' /\ BmcTypeOK' /\ NodeTypeOK' /\ HistTypeOK'
    BY <1>12 DEF Reconcile, gateUnch, RunTypeOK, RecTypeOK, BmcTypeOK,
       NodeTypeOK, HistTypeOK, runVars, recVars, drvVars, bmcVars, nodeVars,
       histVars
  <2>2. DrvTypeOK'
    <3>1. [run |-> reg, node |-> n, stages |-> ledger[n], acks |-> TRUE,
           pc |-> "write"] \in Write
      BY WriteType DEF RecTypeOK
    <3> QED BY <1>12, <3>1 DEF Reconcile, DrvTypeOK, gateUnch
  <2> QED BY <2>1, <2>2 DEF TypeOK
<1>13. ASSUME NEW n \in Nodes,
            SelLost(n)
      PROVE  TypeOK'
  <2>1. RunTypeOK' /\ RecTypeOK' /\ DrvTypeOK' /\ NodeTypeOK'
    BY <1>13 DEF SelLost, gateUnch, RunTypeOK, RecTypeOK, DrvTypeOK,
       NodeTypeOK, runVars, recVars, drvVars, bmcVars, nodeVars, histVars
  <2>2. BmcTypeOK'
    BY <1>13, Bounds, StatusMembers DEF SelLost, Fault, NoStatus, gateUnch,
       BmcTypeOK, Runs, runVars, recVars, drvVars, bmcVars, nodeVars, histVars
  <2>3. HistTypeOK'
    BY <1>13, Bounds DEF SelLost, Fault, gateUnch, HistTypeOK, RecTypeOK,
       Runs, runVars, recVars, drvVars, bmcVars, nodeVars, histVars
  <2> QED BY <2>1, <2>2, <2>3 DEF TypeOK
<1>14. ASSUME NEW g \in Runs, NEW n \in Nodes,
            PollObserve(g, n)
      PROVE  TypeOK'
  <2>1. RunTypeOK' /\ RecTypeOK' /\ BmcTypeOK' /\ NodeTypeOK' /\ HistTypeOK'
    BY <1>14 DEF PollObserve, pollUnch, RunTypeOK, RecTypeOK, BmcTypeOK,
       NodeTypeOK, HistTypeOK, runVars, recVars, drvVars, bmcVars, nodeVars,
       histVars
  <2>2. DrvTypeOK'
    <3>1. oob[n] \in Status
      BY <1>14 DEF PollObserve, BmcTypeOK
    <3>2. [run |-> g, node |-> n, status |-> oob[n]] \in Observation
      BY <3>1 DEF Observation
    <3> QED BY <1>14, <3>2 DEF PollObserve, DrvTypeOK, pollUnch
  <2> QED BY <2>1, <2>2 DEF TypeOK
<1>15. ASSUME NEW g \in Runs,
            PollEnd(g)
      PROVE  TypeOK'
  <2>1. RunTypeOK' /\ RecTypeOK' /\ BmcTypeOK' /\ NodeTypeOK' /\ HistTypeOK'
    BY <1>15 DEF PollEnd, pollUnch, RunTypeOK, RecTypeOK, BmcTypeOK,
       NodeTypeOK, HistTypeOK, runVars, recVars, drvVars, bmcVars, nodeVars,
       histVars
  <2>2. DrvTypeOK'
    BY <1>15, Bounds, StageMembers, StatusMembers DEF PollEnd, pollUnch,
       DrvTypeOK, RecTypeOK, Runs, runVars, recVars, drvVars, bmcVars,
       nodeVars, histVars
  <2> QED BY <2>1, <2>2 DEF TypeOK
<1>16. ASSUME NEW o \in obs,
            PollMerge(o)
      PROVE  TypeOK'
  <2>1. RunTypeOK' /\ BmcTypeOK' /\ NodeTypeOK'
    BY <1>16 DEF PollMerge, pollUnch, RunTypeOK, BmcTypeOK, NodeTypeOK,
       runVars, recVars, drvVars, bmcVars, nodeVars, histVars
  <2>2. RecTypeOK'
    <3>1. o.node \in Nodes /\ o.status \in Status
      BY DEF DrvTypeOK, Observation
    <3>2. Merged(st[o.node], o.status) \in State
      BY <3>1, MergedType DEF RecTypeOK
    <3>3. [st EXCEPT ![o.node] = Merged(@, o.status)] \in [Nodes -> State]
      BY <3>1, <3>2 DEF RecTypeOK
    <3>4. st' \in [Nodes -> State]
      BY <1>16, <3>3 DEF PollMerge, SetState, RecTypeOK
    <3>5. srDone' \in BOOLEAN
      BY <1>16 DEF PollMerge, MarkReady, RecTypeOK
    <3> QED BY <1>16, <3>4, <3>5 DEF PollMerge, RecTypeOK, pollUnch
  <2>3. DrvTypeOK'
    <3>1. o.node \in Nodes
      BY DEF DrvTypeOK, Observation
    <3>2. ready' \in BOOLEAN
      BY <1>16 DEF PollMerge, MarkReady, DrvTypeOK
    <3>3. UNCHANGED pend \/ Completed(o.node)
      BY <1>16 DEF PollMerge
    <3>4. pend' \subseteq [run : 0..MaxStarts, node : Nodes]
      BY <3>1, <3>3 DEF Completed, DrvTypeOK, RecTypeOK
    <3>5. UNCHANGED vf \/ \E s2 : maybeVerifyCluster(s2)
      BY <1>16 DEF PollMerge
    <3>6. vf' \subseteq Runs
      BY <3>5, VerifyType DEF DrvTypeOK
    <3> QED BY <1>16, <3>2, <3>4, <3>6 DEF PollMerge, DrvTypeOK, pollUnch
  <2>4. HistTypeOK'
    BY <1>16, Bounds DEF PollMerge, SetState, pollUnch, HistTypeOK, RecTypeOK,
       Runs, runVars, recVars, drvVars, bmcVars, nodeVars, histVars
  <2> QED BY <2>1, <2>2, <2>3, <2>4 DEF TypeOK
<1>17. ASSUME NEW c \in pend,
            HandOff(c)
      PROVE  TypeOK'
  <2>1. RunTypeOK' /\ BmcTypeOK' /\ NodeTypeOK' /\ HistTypeOK'
    BY <1>17 DEF HandOff, pollUnch, RunTypeOK, BmcTypeOK, NodeTypeOK,
       HistTypeOK, runVars, recVars, drvVars, bmcVars, nodeVars, histVars
  <2>2. RecTypeOK'
    BY <1>17, Bounds, StateMembers, StageMembers DEF HandOff, writeGos,
       pollUnch, RecTypeOK, Runs, runVars, recVars, drvVars, bmcVars,
       nodeVars, histVars
  <2>3. DrvTypeOK'
    <3>1. PICK grants \in [Nodes -> SUBSET Stages] : writeGos(grants)
      BY <1>17, StageMembers DEF HandOff
    <3>2. wr' \subseteq Write
      BY <3>1, writeGosType
    <3> QED BY <1>17, <3>2 DEF HandOff, DrvTypeOK, pollUnch
  <2> QED BY <2>1, <2>2, <2>3 DEF TypeOK
<1>18. ASSUME NEW g \in vf, NEW ok \in BOOLEAN,
            VerifyEnd(g, ok)
      PROVE  TypeOK'
  <2>1. RunTypeOK' /\ BmcTypeOK' /\ NodeTypeOK' /\ HistTypeOK'
    BY <1>18 DEF VerifyEnd, pollUnch, RunTypeOK, BmcTypeOK, NodeTypeOK,
       HistTypeOK, runVars, recVars, drvVars, bmcVars, nodeVars, histVars
  <2>2. RecTypeOK'
    BY <1>18, Bounds, StateMembers, StageMembers DEF VerifyEnd, pollUnch,
       RecTypeOK, Runs, runVars, recVars, drvVars, bmcVars, nodeVars, histVars
  <2>3. DrvTypeOK'
    BY <1>18, Bounds, StageMembers, StatusMembers DEF VerifyEnd, pollUnch,
       DrvTypeOK, RecTypeOK, Runs, runVars, recVars, drvVars, bmcVars,
       nodeVars, histVars
  <2> QED BY <2>1, <2>2, <2>3 DEF TypeOK
<1>19. ASSUME NEW n \in Nodes, NEW d \in BOOLEAN, NEW b \in BOOLEAN,
            PreflightCheckin(n, d, b)
      PROVE  TypeOK'
  <2>1. RunTypeOK' /\ DrvTypeOK' /\ BmcTypeOK'
    BY <1>19 DEF PreflightCheckin, appointed, PreflightProgress, PreflightReport, agentUnch, reportUnch, RunTypeOK,
       DrvTypeOK, BmcTypeOK, runVars, recVars, drvVars, bmcVars, nodeVars,
       histVars
  <2>2. RecTypeOK'
    BY <1>19, Bounds, StateMembers, StageMembers DEF PreflightCheckin, appointed, PreflightProgress, PreflightReport,
       SetState, agentUnch, reportUnch, RecTypeOK, Runs, runVars, recVars,
       drvVars, bmcVars, nodeVars, histVars
  <2>3. NodeTypeOK'
    BY <1>19 DEF PreflightCheckin, appointed, PreflightProgress, PreflightReport, AgentPhase, NodeTypeOK, RecTypeOK
  <2>4. HistTypeOK'
    BY <1>19, Bounds DEF PreflightCheckin, appointed, PreflightProgress, PreflightReport, SetState, agentUnch, reportUnch,
       HistTypeOK, RecTypeOK, Runs, runVars, recVars, drvVars, bmcVars,
       nodeVars, histVars
  <2> QED BY <2>1, <2>2, <2>3, <2>4 DEF TypeOK
<1>20. ASSUME NEW n \in Nodes, NEW d \in BOOLEAN, NEW b \in BOOLEAN,
            PreflightRound(n, d, b)
      PROVE  TypeOK'
  <2>1. RunTypeOK' /\ DrvTypeOK' /\ BmcTypeOK'
    BY <1>20 DEF PreflightRound, PreflightReport, agentUnch, reportUnch, RunTypeOK, DrvTypeOK,
       BmcTypeOK, runVars, recVars, drvVars, bmcVars, nodeVars, histVars
  <2>2. RecTypeOK'
    BY <1>20, Bounds, StateMembers, StageMembers DEF PreflightRound, PreflightReport, SetState,
       agentUnch, reportUnch, RecTypeOK, Runs, runVars, recVars, drvVars,
       bmcVars, nodeVars, histVars
  <2>3. NodeTypeOK'
    BY <1>20, Bounds DEF PreflightRound, PreflightReport, AgentPhase, agentUnch, reportUnch,
       NodeTypeOK, RecTypeOK, RunTypeOK, Runs, runVars, recVars, drvVars,
       bmcVars, nodeVars, histVars
  <2>4. HistTypeOK'
    BY <1>20, Bounds DEF PreflightRound, PreflightReport, SetState, agentUnch, reportUnch,
       HistTypeOK, RecTypeOK, Runs, runVars, recVars, drvVars, bmcVars,
       nodeVars, histVars
  <2> QED BY <2>1, <2>2, <2>3, <2>4 DEF TypeOK
<1>21. ASSUME NEW n \in Nodes, NEW d \in BOOLEAN,
            AgentRestore(n, d)
      PROVE  TypeOK'
  <2>1. RunTypeOK' /\ DrvTypeOK'
    BY <1>21 DEF AgentRestore, agentUnch, reportUnch, RunTypeOK, DrvTypeOK,
       runVars, recVars, drvVars, bmcVars, nodeVars, histVars
  <2>2. RecTypeOK'
    BY <1>21, Bounds, StateMembers, StageMembers DEF AgentRestore, greenLit,
       SetState, agentUnch, reportUnch, RecTypeOK, Runs, runVars, recVars,
       drvVars, bmcVars, nodeVars, histVars
  <2>3. BmcTypeOK'
    BY <1>21, Bounds, StatusMembers DEF AgentRestore, WriteStatus, Fault,
       agentUnch, reportUnch, BmcTypeOK, Runs, runVars, recVars, drvVars,
       bmcVars, nodeVars, histVars
  <2>4. NodeTypeOK'
    BY <1>21, Bounds DEF AgentRestore, AgentPhase, agentUnch, reportUnch,
       NodeTypeOK, RecTypeOK, RunTypeOK, Runs, runVars, recVars, drvVars,
       bmcVars, nodeVars, histVars
  <2>5. HistTypeOK'
    BY <1>21, Bounds DEF AgentRestore, WriteStatus, Fault, SetState,
       agentUnch, reportUnch, HistTypeOK, RecTypeOK, Runs, runVars, recVars,
       drvVars, bmcVars, nodeVars, histVars
  <2> QED BY <2>1, <2>2, <2>3, <2>4, <2>5 DEF TypeOK
<1>22. ASSUME NEW n \in Nodes, NEW d \in BOOLEAN,
            AgentRestored(n, d)
      PROVE  TypeOK'
  <2>1. RunTypeOK'
    BY <1>22 DEF AgentRestored, RestoreDone, agentUnch, reportUnch, RunTypeOK, runVars,
       recVars, drvVars, bmcVars, nodeVars, histVars
  <2>2. RecTypeOK'
    BY <1>22, Bounds, StateMembers, StageMembers DEF AgentRestored, RestoreDone, SetState,
       agentUnch, reportUnch, RecTypeOK, Runs, runVars, recVars, drvVars,
       bmcVars, nodeVars, histVars
  <2>3. DrvTypeOK'
    BY <1>22, Bounds, StageMembers, StatusMembers DEF AgentRestored, RestoreDone,
       agentUnch, reportUnch, DrvTypeOK, RecTypeOK, Runs, runVars, recVars,
       drvVars, bmcVars, nodeVars, histVars
  <2>4. BmcTypeOK'
    BY <1>22, Bounds, StatusMembers DEF AgentRestored, RestoreDone, WriteStatus, Fault,
       agentUnch, reportUnch, BmcTypeOK, Runs, runVars, recVars, drvVars,
       bmcVars, nodeVars, histVars
  <2>5. NodeTypeOK'
    BY <1>22, Bounds DEF AgentRestored, RestoreDone, AgentPhase, agentUnch, reportUnch,
       NodeTypeOK, RecTypeOK, RunTypeOK, Runs, runVars, recVars, drvVars,
       bmcVars, nodeVars, histVars
  <2>6. HistTypeOK'
    BY <1>22, Bounds DEF AgentRestored, RestoreDone, WriteStatus, Fault, SetState,
       agentUnch, reportUnch, HistTypeOK, RecTypeOK, Runs, runVars, recVars,
       drvVars, bmcVars, nodeVars, histVars
  <2> QED BY <2>1, <2>2, <2>3, <2>4, <2>5, <2>6 DEF TypeOK
<1>23. ASSUME NEW n \in Nodes,
            StampBootDisk(n)
      PROVE  TypeOK'
  <2>1. RunTypeOK' /\ RecTypeOK' /\ NodeTypeOK' /\ HistTypeOK'
    BY <1>23 DEF StampBootDisk, agentUnch, reportUnch, RunTypeOK, RecTypeOK,
       NodeTypeOK, HistTypeOK, runVars, recVars, drvVars, bmcVars, nodeVars,
       histVars
  <2>2. DrvTypeOK'
    BY <1>23, Bounds, StageMembers, StatusMembers DEF StampBootDisk,
       agentUnch, reportUnch, DrvTypeOK, RecTypeOK, Runs, runVars, recVars,
       drvVars, bmcVars, nodeVars, histVars
  <2>3. BmcTypeOK'
    BY <1>23, Bounds, StatusMembers DEF StampBootDisk, agentUnch, reportUnch,
       BmcTypeOK, Runs, runVars, recVars, drvVars, bmcVars, nodeVars, histVars
  <2> QED BY <2>1, <2>2, <2>3 DEF TypeOK
<1>24. ASSUME NEW n \in Nodes,
            StampGivesUp(n)
      PROVE  TypeOK'
  <2>1. RunTypeOK' /\ RecTypeOK' /\ BmcTypeOK' /\ NodeTypeOK'
    BY <1>24 DEF StampGivesUp, agentUnch, reportUnch, RunTypeOK, RecTypeOK,
       BmcTypeOK, NodeTypeOK, runVars, recVars, drvVars, bmcVars, nodeVars,
       histVars
  <2>2. DrvTypeOK'
    BY <1>24, Bounds, StageMembers, StatusMembers DEF StampGivesUp, agentUnch,
       reportUnch, DrvTypeOK, RecTypeOK, Runs, runVars, recVars, drvVars,
       bmcVars, nodeVars, histVars
  <2>3. HistTypeOK'
    BY <1>24, Bounds DEF StampGivesUp, Fault, agentUnch, reportUnch,
       HistTypeOK, RecTypeOK, Runs, runVars, recVars, drvVars, bmcVars,
       nodeVars, histVars
  <2> QED BY <2>1, <2>2, <2>3 DEF TypeOK
<1>25. ASSUME NEW n \in Nodes,
            AgentReboot(n)
      PROVE  TypeOK'
  <2>1. RunTypeOK' /\ RecTypeOK' /\ DrvTypeOK' /\ BmcTypeOK' /\ HistTypeOK'
    BY <1>25 DEF AgentReboot, agentUnch, reportUnch, RunTypeOK, RecTypeOK,
       DrvTypeOK, BmcTypeOK, HistTypeOK, runVars, recVars, drvVars, bmcVars,
       nodeVars, histVars
  <2>2. NodeTypeOK'
    BY <1>25, Bounds DEF AgentReboot, AgentPhase, agentUnch, reportUnch,
       NodeTypeOK, RecTypeOK, RunTypeOK, Runs, runVars, recVars, drvVars,
       bmcVars, nodeVars, histVars
  <2> QED BY <2>1, <2>2 DEF TypeOK
<1>26. ASSUME NEW n \in Nodes, NEW d \in BOOLEAN,
            AgentUp(n, d)
      PROVE  TypeOK'
  <2>1. RunTypeOK' /\ DrvTypeOK'
    BY <1>26 DEF AgentUp, cameUp, ApplyStarted, ApplyProceed, WaitForMaster, agentUnch, reportUnch, RunTypeOK, DrvTypeOK,
       runVars, recVars, drvVars, bmcVars, nodeVars, histVars
  <2>2. RecTypeOK'
    BY <1>26, Bounds, StateMembers, StageMembers DEF AgentUp, cameUp, ApplyStarted, ApplyProceed, WaitForMaster, SetState,
       agentUnch, reportUnch, RecTypeOK, Runs, runVars, recVars, drvVars,
       bmcVars, nodeVars, histVars
  <2>3. BmcTypeOK'
    BY <1>26, Bounds, StatusMembers DEF AgentUp, cameUp, ApplyStarted, ApplyProceed, WaitForMaster, WriteStatus, Fault,
       agentUnch, reportUnch, BmcTypeOK, Runs, runVars, recVars, drvVars,
       bmcVars, nodeVars, histVars
  <2>4. NodeTypeOK'
    BY <1>26, Bounds DEF AgentUp, cameUp, ApplyStarted, ApplyProceed, WaitForMaster, AgentPhase, agentUnch, reportUnch,
       NodeTypeOK, RecTypeOK, RunTypeOK, Runs, runVars, recVars, drvVars,
       bmcVars, nodeVars, histVars
  <2>5. HistTypeOK'
    BY <1>26, Bounds DEF AgentUp, cameUp, ApplyStarted, ApplyProceed, WaitForMaster, WriteStatus, Fault, SetState, agentUnch,
       reportUnch, HistTypeOK, RecTypeOK, Runs, runVars, recVars, drvVars,
       bmcVars, nodeVars, histVars
  <2> QED BY <2>1, <2>2, <2>3, <2>4, <2>5 DEF TypeOK
<1>27. ASSUME NEW n \in Nodes,
            AgentApply(n)
      PROVE  TypeOK'
  <2>1. RunTypeOK' /\ RecTypeOK' /\ DrvTypeOK'
    BY <1>27 DEF AgentApply, agentUnch, reportUnch, RunTypeOK, RecTypeOK,
       DrvTypeOK, runVars, recVars, drvVars, bmcVars, nodeVars, histVars
  <2>2. BmcTypeOK'
    BY <1>27, Bounds, StatusMembers DEF AgentApply, WriteStatus, Fault,
       agentUnch, reportUnch, BmcTypeOK, Runs, runVars, recVars, drvVars,
       bmcVars, nodeVars, histVars
  <2>3. NodeTypeOK'
    BY <1>27, Bounds DEF AgentApply, AgentPhase, agentUnch, reportUnch,
       NodeTypeOK, RecTypeOK, RunTypeOK, Runs, runVars, recVars, drvVars,
       bmcVars, nodeVars, histVars
  <2>4. HistTypeOK'
    BY <1>27, Bounds DEF AgentApply, WriteStatus, Fault, agentUnch,
       reportUnch, HistTypeOK, RecTypeOK, Runs, runVars, recVars, drvVars,
       bmcVars, nodeVars, histVars
  <2> QED BY <2>1, <2>2, <2>3, <2>4 DEF TypeOK
<1>28. ASSUME NEW n \in Nodes, NEW d \in BOOLEAN,
            AgentApplied(n, d)
      PROVE  TypeOK'
  <2>1. RunTypeOK'
    BY <1>28 DEF AgentApplied, agentUnch, reportUnch, RunTypeOK, runVars,
       recVars, drvVars, bmcVars, nodeVars, histVars
  <2>2. RecTypeOK'
    BY <1>28, Bounds, StateMembers, StageMembers DEF AgentApplied, SetState,
       agentUnch, reportUnch, RecTypeOK, Runs, runVars, recVars, drvVars,
       bmcVars, nodeVars, histVars
  <2>3. DrvTypeOK'
    BY <1>28, Bounds, StageMembers, StatusMembers DEF AgentApplied, Completed,
       agentUnch, reportUnch, DrvTypeOK, RecTypeOK, Runs, runVars, recVars,
       drvVars, bmcVars, nodeVars, histVars
  <2>4. BmcTypeOK'
    BY <1>28, Bounds, StatusMembers DEF AgentApplied, WriteStatus, Fault,
       agentUnch, reportUnch, BmcTypeOK, Runs, runVars, recVars, drvVars,
       bmcVars, nodeVars, histVars
  <2>5. NodeTypeOK'
    BY <1>28, Bounds DEF AgentApplied, AgentPhase, agentUnch, reportUnch,
       NodeTypeOK, RecTypeOK, RunTypeOK, Runs, runVars, recVars, drvVars,
       bmcVars, nodeVars, histVars
  <2>6. HistTypeOK'
    BY <1>28, Bounds DEF AgentApplied, WriteStatus, Fault, SetState,
       agentUnch, reportUnch, HistTypeOK, RecTypeOK, Runs, runVars, recVars,
       drvVars, bmcVars, nodeVars, histVars
  <2> QED BY <2>1, <2>2, <2>3, <2>4, <2>5, <2>6 DEF TypeOK
<1>29. ASSUME NEW n \in Nodes,
            AgentApplyReboot(n)
      PROVE  TypeOK'
  <2>1. RunTypeOK' /\ RecTypeOK' /\ DrvTypeOK' /\ BmcTypeOK' /\ HistTypeOK'
    BY <1>29 DEF AgentApplyReboot, agentUnch, reportUnch, RunTypeOK,
       RecTypeOK, DrvTypeOK, BmcTypeOK, HistTypeOK, runVars, recVars, drvVars,
       bmcVars, nodeVars, histVars
  <2>2. NodeTypeOK'
    BY <1>29, Bounds DEF AgentApplyReboot, AgentPhase, agentUnch, reportUnch,
       NodeTypeOK, RecTypeOK, RunTypeOK, Runs, runVars, recVars, drvVars,
       bmcVars, nodeVars, histVars
  <2> QED BY <2>1, <2>2 DEF TypeOK
<1>30. ASSUME NEW n \in Nodes, NEW d \in BOOLEAN,
            AgentApplyFailed(n, d)
      PROVE  TypeOK'
  <2>1. RunTypeOK' /\ DrvTypeOK'
    BY <1>30 DEF AgentApplyFailed, agentUnch, reportUnch, RunTypeOK,
       DrvTypeOK, runVars, recVars, drvVars, bmcVars, nodeVars, histVars
  <2>2. RecTypeOK'
    BY <1>30, Bounds, StateMembers, StageMembers DEF AgentApplyFailed,
       SetState, agentUnch, reportUnch, RecTypeOK, Runs, runVars, recVars,
       drvVars, bmcVars, nodeVars, histVars
  <2>3. BmcTypeOK'
    BY <1>30, Bounds, StatusMembers DEF AgentApplyFailed, Fault, agentUnch,
       reportUnch, BmcTypeOK, Runs, runVars, recVars, drvVars, bmcVars,
       nodeVars, histVars
  <2>4. NodeTypeOK'
    BY <1>30, Bounds DEF AgentApplyFailed, AgentPhase, agentUnch, reportUnch,
       NodeTypeOK, RecTypeOK, RunTypeOK, Runs, runVars, recVars, drvVars,
       bmcVars, nodeVars, histVars
  <2>5. HistTypeOK'
    BY <1>30, Bounds DEF AgentApplyFailed, Fault, SetState, agentUnch,
       reportUnch, HistTypeOK, RecTypeOK, Runs, runVars, recVars, drvVars,
       bmcVars, nodeVars, histVars
  <2> QED BY <2>1, <2>2, <2>3, <2>4, <2>5 DEF TypeOK
<1>31. ASSUME NEW n \in Nodes, NEW d \in BOOLEAN, NEW b \in BOOLEAN,
            AgentSetReady(n, d, b)
      PROVE  TypeOK'
  <2>1. RunTypeOK'
    BY <1>31 DEF AgentSetReady, agentUnch, RunTypeOK, runVars, recVars,
       drvVars, bmcVars, nodeVars, histVars
  <2>2. RecTypeOK'
    BY <1>31, Bounds, StateMembers, StageMembers DEF AgentSetReady, MarkReady,
       agentUnch, RecTypeOK, Runs, runVars, recVars, drvVars, bmcVars,
       nodeVars, histVars
  <2>3. DrvTypeOK'
    BY <1>31, Bounds, StageMembers, StatusMembers DEF AgentSetReady,
       MarkReady, agentUnch, DrvTypeOK, RecTypeOK, Runs, runVars, recVars,
       drvVars, bmcVars, nodeVars, histVars
  <2>4. BmcTypeOK'
    BY <1>31, Bounds, StatusMembers DEF AgentSetReady, WriteStatus, Fault,
       agentUnch, BmcTypeOK, Runs, runVars, recVars, drvVars, bmcVars,
       nodeVars, histVars
  <2>5. NodeTypeOK'
    BY <1>31, Bounds DEF AgentSetReady, AgentPhase, agentUnch, NodeTypeOK,
       RecTypeOK, RunTypeOK, Runs, runVars, recVars, drvVars, bmcVars,
       nodeVars, histVars
  <2>6. HistTypeOK'
    BY <1>31, Bounds DEF AgentSetReady, WriteStatus, Fault, agentUnch,
       HistTypeOK, RecTypeOK, Runs, runVars, recVars, drvVars, bmcVars,
       nodeVars, histVars
  <2> QED BY <2>1, <2>2, <2>3, <2>4, <2>5, <2>6 DEF TypeOK
<1>32. ASSUME NEW n \in Nodes,
            AgentInBand(n)
      PROVE  TypeOK'
  <2>1. RunTypeOK' /\ RecTypeOK' /\ DrvTypeOK' /\ BmcTypeOK' /\ HistTypeOK'
    BY <1>32 DEF AgentInBand, inBandUnch, agentUnch, reportUnch, RunTypeOK,
       RecTypeOK, DrvTypeOK, BmcTypeOK, HistTypeOK, runVars, recVars, drvVars,
       bmcVars, nodeVars, histVars
  <2>2. NodeTypeOK'
    BY <1>32, Bounds DEF AgentInBand, AgentPhase, inBandUnch, agentUnch,
       reportUnch, NodeTypeOK, RecTypeOK, RunTypeOK, Runs, runVars, recVars,
       drvVars, bmcVars, nodeVars, histVars
  <2> QED BY <2>1, <2>2 DEF TypeOK
<1>33. ASSUME NEW n \in Nodes, NEW d \in BOOLEAN, NEW b \in BOOLEAN,
            InBandCheckin(n, d, b)
      PROVE  TypeOK'
  <2>1. RunTypeOK' /\ DrvTypeOK' /\ BmcTypeOK'
    BY <1>33 DEF InBandCheckin, appointed, inBandUnch, agentUnch, reportUnch, RunTypeOK,
       DrvTypeOK, BmcTypeOK, runVars, recVars, drvVars, bmcVars, nodeVars,
       histVars
  <2>2. RecTypeOK'
    BY <1>33, Bounds, StateMembers, StageMembers DEF InBandCheckin, appointed, CheckedIn,
       SetState, inBandUnch, agentUnch, reportUnch, RecTypeOK, Runs, runVars,
       recVars, drvVars, bmcVars, nodeVars, histVars
  <2>3. NodeTypeOK'
    BY <1>33, Bounds DEF InBandCheckin, appointed, AgentPhase, inBandUnch, agentUnch,
       reportUnch, NodeTypeOK, RecTypeOK, RunTypeOK, Runs, runVars, recVars,
       drvVars, bmcVars, nodeVars, histVars
  <2>4. HistTypeOK'
    BY <1>33, Bounds DEF InBandCheckin, appointed, SetState, inBandUnch, agentUnch,
       reportUnch, HistTypeOK, RecTypeOK, Runs, runVars, recVars, drvVars,
       bmcVars, nodeVars, histVars
  <2> QED BY <2>1, <2>2, <2>3, <2>4 DEF TypeOK
<1>34. ASSUME NEW n \in Nodes, NEW d \in BOOLEAN,
            InBandApply(n, d)
      PROVE  TypeOK'
  <2>1. RunTypeOK' /\ DrvTypeOK' /\ BmcTypeOK'
    BY <1>34 DEF InBandApply, appointed, inBandUnch, agentUnch, reportUnch, RunTypeOK,
       DrvTypeOK, BmcTypeOK, runVars, recVars, drvVars, bmcVars, nodeVars,
       histVars
  <2>2. RecTypeOK'
    BY <1>34, Bounds, StateMembers, StageMembers DEF InBandApply, appointed, CheckedIn,
       SetState, inBandUnch, agentUnch, reportUnch, RecTypeOK, Runs, runVars,
       recVars, drvVars, bmcVars, nodeVars, histVars
  <2>3. NodeTypeOK'
    BY <1>34, Bounds DEF InBandApply, appointed, AgentPhase, inBandUnch, agentUnch,
       reportUnch, NodeTypeOK, RecTypeOK, RunTypeOK, Runs, runVars, recVars,
       drvVars, bmcVars, nodeVars, histVars
  <2>4. HistTypeOK'
    BY <1>34, Bounds DEF InBandApply, appointed, SetState, inBandUnch, agentUnch,
       reportUnch, HistTypeOK, RecTypeOK, Runs, runVars, recVars, drvVars,
       bmcVars, nodeVars, histVars
  <2> QED BY <2>1, <2>2, <2>3, <2>4 DEF TypeOK
<1>35. ASSUME NEW n \in Nodes, NEW d \in BOOLEAN, NEW b \in BOOLEAN,
            InBandReport(n, d, b)
      PROVE  TypeOK'
  <2>1. RunTypeOK' /\ BmcTypeOK'
    BY <1>35 DEF InBandReport, inBandUnch, agentUnch, reportUnch, RunTypeOK,
       BmcTypeOK, runVars, recVars, drvVars, bmcVars, nodeVars, histVars
  <2>2. RecTypeOK'
    BY <1>35, Bounds, StateMembers, StageMembers DEF InBandReport, SetState,
       inBandUnch, agentUnch, reportUnch, RecTypeOK, Runs, runVars, recVars,
       drvVars, bmcVars, nodeVars, histVars
  <2>3. DrvTypeOK'
    <3>1. UNCHANGED vf \/ \E s2 : maybeVerifyCluster(s2)
      BY <1>35 DEF InBandReport
    <3>2. vf' \subseteq Runs
      BY <3>1, VerifyType DEF DrvTypeOK
    <3> QED BY <1>35, <3>2
         DEF InBandReport, DrvTypeOK, inBandUnch, agentUnch, reportUnch
  <2>4. NodeTypeOK'
    BY <1>35, Bounds DEF InBandReport, AgentPhase, inBandUnch, agentUnch,
       reportUnch, NodeTypeOK, RecTypeOK, RunTypeOK, Runs, runVars, recVars,
       drvVars, bmcVars, nodeVars, histVars
  <2>5. HistTypeOK'
    BY <1>35, Bounds DEF InBandReport, Fault, SetState, inBandUnch, agentUnch,
       reportUnch, HistTypeOK, RecTypeOK, Runs, runVars, recVars, drvVars,
       bmcVars, nodeVars, histVars
  <2> QED BY <2>1, <2>2, <2>3, <2>4, <2>5 DEF TypeOK
<1>36. ASSUME AdvanceStep
      PROVE  TypeOK'
  <2>1. RunTypeOK' /\ BmcTypeOK' /\ NodeTypeOK' /\ HistTypeOK'
    BY <1>36 DEF AdvanceStep, operUnch, RunTypeOK, BmcTypeOK, NodeTypeOK,
       HistTypeOK, runVars, recVars, drvVars, bmcVars, nodeVars, histVars
  <2>2. RecTypeOK'
    <3>1. step' \in 0..6
      BY <1>36 DEF AdvanceStep, RecTypeOK, StepSetReady
    <3>2. PICK grants \in [Nodes -> SUBSET Stages] : writeGos(grants)
      BY <1>36, AdvanceGrants
    <3>3. ledger' \in [Nodes -> SUBSET Stages]
      BY <3>2, writeGosType
    <3> QED BY <1>36, <3>1, <3>3 DEF AdvanceStep, RecTypeOK, operUnch
  <2>3. DrvTypeOK'
    <3>1. PICK grants \in [Nodes -> SUBSET Stages] : writeGos(grants)
      BY <1>36, AdvanceGrants
    <3>2. wr' \subseteq Write
      BY <3>1, writeGosType
    <3> QED BY <1>36, <3>2 DEF AdvanceStep, DrvTypeOK, operUnch
  <2> QED BY <2>1, <2>2, <2>3 DEF TypeOK
<1>37. ASSUME Cancel
      PROVE  TypeOK'
  <2>1. DrvTypeOK' /\ BmcTypeOK' /\ NodeTypeOK'
    BY <1>37 DEF Cancel, operUnch, DrvTypeOK, BmcTypeOK, NodeTypeOK, runVars,
       recVars, drvVars, bmcVars, nodeVars, histVars
  <2>2. RunTypeOK'
    BY <1>37, Bounds DEF Cancel, operUnch, RunTypeOK, Runs, runVars, recVars,
       drvVars, bmcVars, nodeVars, histVars
  <2>3. RecTypeOK'
    BY <1>37, Bounds, StateMembers, StageMembers DEF Cancel, SetState,
       operUnch, RecTypeOK, Runs, runVars, recVars, drvVars, bmcVars,
       nodeVars, histVars
  <2>4. HistTypeOK'
    BY <1>37, Bounds DEF Cancel, SetState, operUnch, HistTypeOK, RecTypeOK,
       Runs, runVars, recVars, drvVars, bmcVars, nodeVars, histVars
  <2> QED BY <2>1, <2>2, <2>3, <2>4 DEF TypeOK
<1>38. ASSUME NEW n \in Nodes,
            ReleaseNode(n)
      PROVE  TypeOK'
  <2>1. RunTypeOK' /\ BmcTypeOK' /\ NodeTypeOK'
    BY <1>38 DEF ReleaseNode, operUnch, RunTypeOK, BmcTypeOK, NodeTypeOK,
       runVars, recVars, drvVars, bmcVars, nodeVars, histVars
  <2>2. RecTypeOK'
    BY <1>38, Bounds, StateMembers, StageMembers DEF ReleaseNode, operUnch,
       RecTypeOK, Runs, runVars, recVars, drvVars, bmcVars, nodeVars, histVars
  <2>3. DrvTypeOK'
    <3>1. ledger'[n] \in SUBSET Stages
      BY <1>38, StageMembers DEF ReleaseNode, RecTypeOK
    <3>2. PICK s \in SUBSET Stages :
             wr' = wr \cup {[run |-> reg, node |-> n, stages |-> s,
                             acks |-> FALSE, pc |-> "write"]}
      BY <1>38, <3>1, StageMembers DEF ReleaseNode
    <3>3. wr' \subseteq Write
      BY <3>2, WriteType DEF DrvTypeOK, RecTypeOK
    <3> QED BY <1>38, <3>3 DEF ReleaseNode, DrvTypeOK, operUnch
  <2>4. HistTypeOK'
    BY <1>38, Bounds DEF ReleaseNode, operUnch, HistTypeOK, RecTypeOK, Runs,
       runVars, recVars, drvVars, bmcVars, nodeVars, histVars
  <2> QED BY <2>1, <2>2, <2>3, <2>4 DEF TypeOK
<1>39. ASSUME NEW n \in Nodes,
            RekickPreflight(n)
      PROVE  TypeOK'
  <2>1. RunTypeOK' /\ DrvTypeOK' /\ BmcTypeOK' /\ NodeTypeOK'
    BY <1>39 DEF RekickPreflight, operUnch, RunTypeOK, DrvTypeOK, BmcTypeOK,
       NodeTypeOK, runVars, recVars, drvVars, bmcVars, nodeVars, histVars
  <2>2. RecTypeOK'
    BY <1>39, Bounds, StateMembers, StageMembers DEF RekickPreflight,
       SetState, operUnch, RecTypeOK, Runs, runVars, recVars, drvVars,
       bmcVars, nodeVars, histVars
  <2>3. HistTypeOK'
    BY <1>39, Bounds DEF RekickPreflight, SetState, operUnch, HistTypeOK,
       RecTypeOK, Runs, runVars, recVars, drvVars, bmcVars, nodeVars, histVars
  <2> QED BY <2>1, <2>2, <2>3 DEF TypeOK
<1>40. ASSUME DriverRestart
      PROVE  TypeOK'
  <2>1. BmcTypeOK' /\ NodeTypeOK'
    BY <1>40 DEF DriverRestart, BmcTypeOK, NodeTypeOK, runVars, recVars,
       drvVars, bmcVars, nodeVars, histVars
  <2>2. RunTypeOK'
    BY <1>40, Bounds DEF DriverRestart, RunTypeOK, Runs, runVars, recVars,
       drvVars, bmcVars, nodeVars, histVars
  <2>3. RecTypeOK'
    BY <1>40, Bounds, StateMembers, StageMembers DEF DriverRestart, RecTypeOK,
       Runs, runVars, recVars, drvVars, bmcVars, nodeVars, histVars
  <2>4. DrvTypeOK'
    BY <1>40, Bounds, StageMembers, StatusMembers DEF DriverRestart,
       DrvTypeOK, RecTypeOK, Runs, runVars, recVars, drvVars, bmcVars,
       nodeVars, histVars
  <2>5. HistTypeOK'
    BY <1>40, Bounds DEF DriverRestart, Fault, HistTypeOK, RecTypeOK, Runs,
       runVars, recVars, drvVars, bmcVars, nodeVars, histVars
  <2> QED BY <2>1, <2>2, <2>3, <2>4, <2>5 DEF TypeOK
<1>41. CASE UNCHANGED vars
  BY <1>41 DEF vars, TypeOK, RunTypeOK, RecTypeOK, DrvTypeOK, BmcTypeOK,
     NodeTypeOK, HistTypeOK, runVars, recVars, drvVars, bmcVars, nodeVars,
     histVars
<1> QED
  BY <1>1, <1>2, <1>3, <1>4, <1>5, <1>6, <1>7, <1>8, <1>9, <1>10, <1>11,
     <1>12, <1>13, <1>14, <1>15, <1>16, <1>17, <1>18, <1>19, <1>20, <1>21,
     <1>22, <1>23, <1>24, <1>25, <1>26, <1>27, <1>28, <1>29, <1>30, <1>31,
     <1>32, <1>33, <1>34, <1>35, <1>36, <1>37, <1>38, <1>39, <1>40, <1>41 DEF
     Next, StartStep, RunStep, AgentStep, Delivery

(* NewManager's state is well typed. *)
LEMMA TypeOK_Init == Init => TypeOK
<1> SUFFICES ASSUME Init PROVE TypeOK
  OBVIOUS
<1>1. RunTypeOK
  BY Bounds DEF Init, RunTypeOK, Runs, RunPc
<1>2. RecTypeOK
  <2>1. st \in [Nodes -> State]
    BY StateMembers DEF Init
  <2>2. rekick \in [Nodes -> 0..MaxRekicks] /\ reg \in 0..MaxStarts /\ step \in 0..6
    BY Bounds DEF Init
  <2> QED BY <2>1, <2>2 DEF Init, RecTypeOK
<1>3. DrvTypeOK
  BY DEF Init, DrvTypeOK
<1>4. BmcTypeOK
  BY DEF Init, BmcTypeOK
<1>5. NodeTypeOK
  BY Bounds DEF Init, NodeTypeOK, AgentPhase
<1>6. HistTypeOK
  BY Bounds DEF Init, HistTypeOK
<1> QED BY <1>1, <1>2, <1>3, <1>4, <1>5, <1>6 DEF TypeOK

(* Every reachable state is well typed, whatever the numbers of nodes,     *)
(* starts, failures and re-runs, in either mode and under every order of   *)
(* the goroutines' steps.                                                  *)
THEOREM TypeCorrect == Spec => []TypeOK
<1>1. TypeOK /\ [Next]_vars => TypeOK'
  BY TypeOK_Next
<1> QED BY TypeOK_Init, <1>1, PTL DEF Spec
=============================================================================
