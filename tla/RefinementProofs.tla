-------------------------- MODULE RefinementProofs --------------------------
(***************************************************************************)
(* Consequences of the rollout invariant: done is final, a confirmed gate  *)
(* was authorized and is in the SEL, "Next" waits for the nodes and not    *)
(* just for their records, and a deploy that is started once implements    *)
(* Rollout. And an aborted Start spares the run that superseded it.        *)
(***************************************************************************)
EXTENDS RolloutProofs

-----------------------------------------------------------------------------
(* Done is final *)

(* What a step other than Start may do to the record: its run number stays *)
(* or the record goes, and a node that is done stays done unless its apply *)
(* has not ended at all.                                                   *)
Keeps ==
    /\ gen' = gen /\ reg' \in {reg, 0}
    /\ reg # 0 => \A k \in Nodes :
                     st[k] = "done" => st'[k] = "done" \/ k \notin Applied

(* The steps of Start, of runNode and of the gate writers keep done.       *)
LEMMA DriverKeeps ==
    ASSUME TypeOK, Next,
           \/ \E g \in Runs : StartStep(g) \/ PollEnd(g)
           \/ \E g \in Runs, n \in Nodes : RunStep(g, n) \/ Reconcile(g, n) \/ PollObserve(g, n)
           \/ \E w \in wr : GateWrite(w) \/ GateAck(w)
           \/ \E n \in Nodes : SelLost(n) \/ StampBootDisk(n) \/ StampGivesUp(n)
    PROVE  Keeps
<1> USE DEF TypeOK, RecTypeOK, Keeps
<1>1. ASSUME NEW g \in Runs, StartStep(g)
      PROVE  Keeps
  BY <1>1 DEF StartStep, StartClear, StartArm, StartFlip, recVars
<1>2. ASSUME NEW g \in Runs, NEW n \in Nodes, RunStep(g, n)
      PROVE  Keeps
  <2>1. \A s \in State : \A k \in Nodes : st[k] = "done" => Advanced(n, s)[k] = "done"
    BY DEF Advanced, agentDriven
  <2>2. gen' = gen /\ reg' = reg
    BY <1>2 DEF RunStep, RunBegin, RunPreflight, RunSetBootPXE, RunPowerCycle, RunPoll, runUnch
  <2>3. \/ st' = st
        \/ \E s \in State : SetState(Advanced(n, s))
    BY <1>2 DEF RunStep, RunBegin, RunPreflight, RunSetBootPXE, RunPowerCycle, RunPoll, State
  <2> QED BY <2>1, <2>2, <2>3 DEF SetState
<1>3. ASSUME NEW w \in wr, GateWrite(w) \/ GateAck(w)
      PROVE  Keeps
  BY <1>3 DEF GateWrite, GateAck, gateUnch, runVars
<1>4. ASSUME NEW g \in Runs, NEW n \in Nodes, Reconcile(g, n) \/ PollObserve(g, n)
      PROVE  Keeps
  BY <1>4 DEF Reconcile, PollObserve, gateUnch, pollUnch, runVars, recVars
<1>5. ASSUME NEW g \in Runs, PollEnd(g)
      PROVE  Keeps
  BY <1>5 DEF PollEnd, pollUnch, runVars, recVars
<1>6. ASSUME NEW n \in Nodes, SelLost(n) \/ StampBootDisk(n) \/ StampGivesUp(n)
      PROVE  Keeps
  BY <1>6 DEF SelLost, StampBootDisk, StampGivesUp, gateUnch, agentUnch, runVars
<1> QED BY <1>1, <1>2, <1>3, <1>4, <1>5, <1>6

(* So do the out-of-band poll, the hand-off, the check and the operator.   *)
LEMMA OperatorKeeps ==
    ASSUME TypeOK, Next,
           \/ \E o \in obs : PollMerge(o)
           \/ \E c \in pend : HandOff(c)
           \/ \E g \in vf, ok \in BOOLEAN : VerifyEnd(g, ok)
           \/ \E n \in Nodes : ReleaseNode(n) \/ RekickPreflight(n)
           \/ AdvanceStep \/ Cancel \/ DriverRestart
    PROVE  Keeps
<1> USE DEF TypeOK, RecTypeOK, Keeps
<1>1. ASSUME NEW o \in obs, PollMerge(o)
      PROVE  Keeps
  BY <1>1 DEF PollMerge, Merged, SetState, pollUnch, runVars
<1>2. ASSUME NEW c \in pend, HandOff(c)
      PROVE  Keeps
  BY <1>2 DEF HandOff, pollUnch, runVars
<1>3. ASSUME NEW g \in vf, NEW ok \in BOOLEAN, VerifyEnd(g, ok)
      PROVE  Keeps
  BY <1>3 DEF VerifyEnd, pollUnch, runVars
<1>4. ASSUME NEW n \in Nodes, ReleaseNode(n)
      PROVE  Keeps
  BY <1>4 DEF ReleaseNode, operUnch
<1>5. ASSUME NEW n \in Nodes, RekickPreflight(n)
      PROVE  Keeps
  BY <1>5 DEF RekickPreflight, SetState, operUnch
<1>6. ASSUME AdvanceStep
      PROVE  Keeps
  BY <1>6 DEF AdvanceStep, operUnch
<1>7. ASSUME Cancel
      PROVE  Keeps
  BY <1>7 DEF Cancel, SetState, terminal, operUnch
<1>8. ASSUME DriverRestart
      PROVE  Keeps
  BY <1>8 DEF DriverRestart
<1> QED BY <1>1, <1>2, <1>3, <1>4, <1>5, <1>6, <1>7, <1>8

(* So do the agents' reports: the ones that overwrite any state come from  *)
(* agents whose apply has not ended.                                       *)
LEMMA AgentKeeps ==
    ASSUME TypeOK, NEW n \in Nodes, AgentStep(n)
    PROVE  Keeps
<1> USE DEF TypeOK, RecTypeOK, Keeps, SetState, agentUnch, runVars, Applied
<1>1. ASSUME NEW d \in BOOLEAN, NEW b \in BOOLEAN, PreflightCheckin(n, d, b)
      PROVE  Keeps
  BY <1>1 DEF PreflightCheckin, PreflightProgress, PreflightReport
<1>2. ASSUME NEW d \in BOOLEAN, NEW b \in BOOLEAN, PreflightRound(n, d, b)
      PROVE  Keeps
  BY <1>2 DEF PreflightRound, PreflightReport
<1>3. ASSUME NEW d \in BOOLEAN, NEW b \in BOOLEAN, AgentSetReady(n, d, b)
      PROVE  Keeps
  BY <1>3 DEF AgentSetReady
<1>4. ASSUME NEW d \in BOOLEAN, NEW b \in BOOLEAN, InBandReport(n, d, b)
      PROVE  Keeps
  BY <1>4 DEF InBandReport, inBandUnch
<1>5. ASSUME NEW d \in BOOLEAN, AgentRestore(n, d)
      PROVE  Keeps
  BY <1>5 DEF AgentRestore, greenLit
<1>6. ASSUME NEW d \in BOOLEAN, AgentRestored(n, d)
      PROVE  Keeps
  <2>1. ag[n] = "restoring"
    BY <1>6 DEF AgentRestored
  <2> QED BY <1>6, <2>1 DEF AgentRestored, RestoreDone
<1>7. ASSUME NEW d \in BOOLEAN, AgentUp(n, d)
      PROVE  Keeps
  BY <1>7 DEF AgentUp, cameUp, ApplyStarted, WaitForMaster
<1>8. ASSUME NEW d \in BOOLEAN, AgentApplied(n, d)
      PROVE  Keeps
  BY <1>8 DEF AgentApplied
<1>9. ASSUME NEW d \in BOOLEAN, AgentApplyFailed(n, d)
      PROVE  Keeps
  BY <1>9 DEF AgentApplyFailed
<1>10. ASSUME NEW d \in BOOLEAN, NEW b \in BOOLEAN, InBandCheckin(n, d, b)
      PROVE  Keeps
  BY <1>10 DEF InBandCheckin, CheckedIn, inBandUnch
<1>11. ASSUME NEW d \in BOOLEAN, InBandApply(n, d)
      PROVE  Keeps
  BY <1>11 DEF InBandApply, CheckedIn, inBandUnch
<1>12. ASSUME AgentReboot(n) \/ AgentApply(n) \/ AgentApplyReboot(n) \/ AgentInBand(n)
      PROVE  Keeps
  BY <1>12 DEF AgentReboot, AgentApply, AgentApplyReboot, AgentInBand, inBandUnch
<1> QED
  BY <1>1, <1>2, <1>3, <1>4, <1>5, <1>6, <1>7, <1>8, <1>9, <1>10, <1>11, <1>12
     DEF AgentStep, Delivery

(* Every step either begins a run or keeps done.                           *)
LEMMA StepKeeps ==
    ASSUME TypeOK, Next
    PROVE  Keeps \/ \E b \in Modes : Start(b)
BY DriverKeeps, OperatorKeeps, AgentKeeps DEF Next

Current == reg <= gen

(* The record is never of a run that has not begun.                        *)
LEMMA CurrentAlways == Spec => []Current
<1>1. Init => Current
  BY DEF Init, Current
<1>2. TypeOK /\ Current /\ [Next]_vars => Current'
  <2> SUFFICES ASSUME TypeOK, Current, [Next]_vars
               PROVE  Current'
    OBVIOUS
  <2> USE DEF Current, TypeOK, RunTypeOK, RecTypeOK
  <2>1. CASE Keeps
    BY <2>1, Bounds DEF Keeps
  <2>2. ASSUME NEW b \in Modes, Start(b)
        PROVE  Current'
    BY <2>2, Bounds DEF Start
  <2>3. CASE UNCHANGED vars
    BY <2>3 DEF vars, runVars, recVars
  <2> QED BY <2>1, <2>2, <2>3, StepKeeps
<1> QED BY <1>1, <1>2, TypeCorrect, PTL DEF Spec

(* In a first run a node that is done stays done as long as the record     *)
(* stays: neither Cancel, a failing IPMI stage, a record read out of band  *)
(* nor a report of the node's own agent takes it back.                     *)
THEOREM DoneIsFinalAlways == ASSUME Master \in Nodes PROVE Spec => DoneIsFinal
<1>1. TypeOK /\ RolloutInv /\ Current /\ [Next]_vars =>
         [FirstRun /\ reg # 0 /\ reg' = reg =>
            \A n \in Nodes : st[n] = "done" => st'[n] = "done"]_vars
  <2> SUFFICES ASSUME TypeOK, RolloutInv, Current, Next, FirstRun, reg # 0, reg' = reg,
                      NEW n \in Nodes, st[n] = "done"
               PROVE  st'[n] = "done"
    OBVIOUS
  <2>1. n \in Applied
    BY DEF RolloutInv, NewsSound
  <2>2. ~ \E b \in Modes : Start(b)
    BY Bounds DEF Start, Current, TypeOK, RunTypeOK, RecTypeOK
  <2> QED BY <2>1, <2>2, StepKeeps DEF Keeps
<1> QED BY <1>1, TypeCorrect, RolloutInvariant, CurrentAlways, PTL DEF DoneIsFinal, Spec

-----------------------------------------------------------------------------
(* The deploy implements Rollout *)

(* Only the master takes itself for the master, and what waits for the     *)
(* set_ready gate is a master that applied its local snapshot.             *)
MasterKnows ==
    \A n \in Nodes : /\ agMaster[n] => n = Master
                     /\ ag[n] = "waitready" => agMaster[n] /\ snap[n]

(* Both hold from the check-ins' answers on, whatever is lost.             *)
LEMMA MasterKnowsAlways == Spec => []MasterKnows
<1>1. Init => MasterKnows
  BY DEF Init, MasterKnows
<1>2. TypeOK /\ MasterKnows /\ [Next]_vars => MasterKnows'
  <2> SUFFICES ASSUME TypeOK, MasterKnows, [Next]_vars
               PROVE  MasterKnows'
    OBVIOUS
  <2> USE DEF MasterKnows, TypeOK, NodeTypeOK
  <2>1. CASE UNCHANGED nodeVars
    BY <2>1 DEF nodeVars
  <2>2. ASSUME NEW g \in Runs, NEW n \in Nodes, RunPowerCycle(g, n)
        PROVE  MasterKnows'
    BY <2>2 DEF RunPowerCycle, PowerCycled, nodeVars
  <2>3. ASSUME NEW n \in Nodes, AgentStep(n)
        PROVE  MasterKnows'
    <3>1. PICK x \in AgentPhase : AgentEffect(n, x)
      BY <2>3, AgentEffects
    <3> QED BY <3>1 DEF AgentEffect, Waiting
  <2>4. CASE UNCHANGED vars
    BY <2>1, <2>4 DEF vars
  <2> QED BY <2>1, <2>2, <2>3, <2>4, NodeMoves
<1> QED BY <1>1, <1>2, TypeCorrect, PTL DEF Spec

(* The operator alone excuses a node, one at a time.                       *)
LEMMA Releases ==
    ASSUME Next
    PROVE  \/ UNCHANGED released
           \/ \E b \in Modes : Start(b)
           \/ \E n \in Nodes : ReleaseNode(n)
<1>1. ASSUME NEW g \in Runs, StartStep(g) \/ PollEnd(g)
      PROVE  UNCHANGED released
  BY <1>1 DEF StartStep, StartClear, StartArm, StartFlip, PollEnd, histVars, pollUnch
<1>2. ASSUME NEW g \in Runs, NEW n \in Nodes,
             RunStep(g, n) \/ Reconcile(g, n) \/ PollObserve(g, n)
      PROVE  UNCHANGED released
  BY <1>2 DEF RunStep, RunBegin, RunPreflight, RunSetBootPXE, RunPowerCycle, RunPoll,
              runUnch, Reconcile, PollObserve, gateUnch, histVars, pollUnch
<1>3. ASSUME NEW w \in wr, GateWrite(w) \/ GateAck(w)
      PROVE  UNCHANGED released
  BY <1>3 DEF GateWrite, GateAck, gateUnch, histVars
<1>4. ASSUME NEW o \in obs, PollMerge(o)
      PROVE  UNCHANGED released
  BY <1>4 DEF PollMerge, pollUnch
<1>5. ASSUME NEW c \in pend, HandOff(c)
      PROVE  UNCHANGED released
  BY <1>5 DEF HandOff, pollUnch
<1>6. ASSUME NEW g \in vf, NEW ok \in BOOLEAN, VerifyEnd(g, ok)
      PROVE  UNCHANGED released
  BY <1>6 DEF VerifyEnd, pollUnch
<1>7. ASSUME NEW n \in Nodes,
             SelLost(n) \/ StampBootDisk(n) \/ StampGivesUp(n) \/ RekickPreflight(n)
      PROVE  UNCHANGED released
  BY <1>7 DEF SelLost, StampBootDisk, StampGivesUp, RekickPreflight, gateUnch, histVars,
              agentUnch
<1>8. ASSUME NEW n \in Nodes, AgentStep(n)
      PROVE  UNCHANGED released
  BY <1>8 DEF AgentStep, Delivery, PreflightCheckin, PreflightRound, AgentSetReady,
              InBandReport, AgentRestore, AgentRestored, AgentUp, AgentApplied,
              AgentApplyFailed, InBandCheckin, InBandApply, AgentReboot, AgentApply,
              AgentApplyReboot, AgentInBand, inBandUnch, agentUnch
<1>9. ASSUME AdvanceStep \/ Cancel \/ DriverRestart
      PROVE  UNCHANGED released
  BY <1>9 DEF AdvanceStep, Cancel, DriverRestart, histVars
<1> QED BY <1>1, <1>2, <1>3, <1>4, <1>5, <1>6, <1>7, <1>8, <1>9 DEF Next

(* The initial states of a deploy are initial states of a rollout.         *)
LEMMA RolloutStarts == Init => R!Init
BY DEF Init, R!Init, phaseOf, finalized, Applied

(* A step of an agent is a step of the rollout, or none.                   *)
LEMMA AgentRefines ==
    ASSUME Master \in Nodes, Staged, TypeOK, RolloutInv, RolloutInv', MasterKnows, FirstRun,
           FirstRun', Next, NEW n \in Nodes, AgentStep(n)
    PROVE  R!Next \/ UNCHANGED R!vars
<1> USE DEF TypeOK, NodeTypeOK, phaseOf, Applied
<1>1. PICK x \in AgentPhase : AgentEffect(n, x)
  BY AgentEffects
<1>2. /\ ag' = [ag EXCEPT ![n] = x] /\ released' = released
      /\ \A k \in Nodes \ {n} : ag'[k] = ag[k]
      /\ ag'[n] = x
      /\ \A k \in Nodes \ {n} : agMaster'[k] = agMaster[k] /\ snap'[k] = snap[k]
  BY <1>1 DEF AgentEffect
<1>3. CASE ag[n] \in Waiting /\ x \in Waiting
  <2>1. phaseOf' = phaseOf
    BY <1>2, <1>3 DEF Waiting
  <2>2. finalized' = finalized
    BY <1>2, <1>3 DEF Waiting, finalized
  <2> QED BY <2>1, <2>2, <1>2 DEF R!vars
<1>4. ASSUME UNCHANGED <<agMaster, snap>>, ag[n] \in Waiting, x = "applying"
      PROVE  R!Begin(n)
  <2>1. phaseOf' = [phaseOf EXCEPT ![n] = "applying"] /\ phaseOf[n] = "waiting"
    BY <1>2, <1>4 DEF Waiting
  <2>2. finalized' = finalized
    BY <1>2, <1>4 DEF Waiting, finalized
  <2>3. Entitled(n, APPLY)'
    BY <1>2, <1>4 DEF RolloutInv, OrdersSound, ApplyBegun
  <2>4. n = Master \/ phaseOf[Master] = "applied" \/ n \in released
    BY <1>2, <2>3 DEF Entitled
  <2> QED BY <2>1, <2>2, <2>4, <1>2 DEF R!Begin
<1>5. ASSUME UNCHANGED <<agMaster, snap>>, ag[n] = "applying", x \in Waiting \cup {"failed"}
      PROVE  R!End(n)
  <2>1. /\ phaseOf[n] = "applying"
        /\ \E p \in {"waiting", "failed"} : phaseOf' = [phaseOf EXCEPT ![n] = p]
    BY <1>2, <1>5 DEF Waiting
  <2>2. finalized' = finalized
    BY <1>2, <1>5 DEF Waiting, finalized
  <2> QED BY <2>1, <2>2, <1>2 DEF R!End
<1>6. ASSUME UNCHANGED <<agMaster, snap>>, ag[n] = "applying", x \in {"waitready", "finished"},
             x = "finished" => ~(agMaster[n] /\ snap[n])
      PROVE  R!End(n)
  <2>1. /\ phaseOf[n] = "applying"
        /\ phaseOf' = [phaseOf EXCEPT ![n] = "applied"]
    BY <1>2, <1>6
  <2>2. finalized' = finalized
    BY <1>2, <1>6 DEF finalized
  <2> QED BY <2>1, <2>2, <1>2 DEF R!End
<1>7. ASSUME UNCHANGED <<agMaster, snap>>, ag[n] = "waitready", x = "finished"
      PROVE  R!Finalize
  <2>1. Applied = Nodes
    <3>1. PICK r \in sel[n] : r[1] = SETREADY
      BY <1>2, <1>7, OnlySetReadyFinishes DEF Present
    <3> QED BY <3>1 DEF RolloutInv, OrdersSound, Entitled
  <2>2. phaseOf' = phaseOf /\ \A k \in Nodes : phaseOf[k] = "applied"
    BY <1>2, <1>7, <2>1
  <2>3. ~finalized
    BY <1>7 DEF MasterKnows, finalized
  <2>4. finalized'
    BY <1>2, <1>7 DEF MasterKnows, finalized
  <2> QED BY <2>2, <2>3, <2>4, <1>2 DEF R!Finalize
<1> QED
  BY <1>1, <1>3, <1>4, <1>5, <1>6, <1>7 DEF AgentEffect, R!Next

(* Every step of a deploy that is started once is a step of the rollout,   *)
(* or none.                                                                *)
LEMMA StepRefines ==
    ASSUME Master \in Nodes, Staged, MaxStarts = 1, TypeOK, TypeOK', RolloutInv, RolloutInv',
           MasterKnows, [Next]_vars
    PROVE  R!Next \/ UNCHANGED R!vars
<1>1. FirstRun /\ FirstRun'
  BY DEF TypeOK, RunTypeOK, FirstRun
<1>2. ASSUME UNCHANGED nodeVars, UNCHANGED released
      PROVE  UNCHANGED R!vars
  BY <1>2 DEF nodeVars, R!vars, phaseOf, Applied, finalized
<1>3. ASSUME NEW b \in Modes, Start(b)
      PROVE  UNCHANGED R!vars
  <2>1. released = {} /\ released' = {} /\ UNCHANGED nodeVars
    BY <1>3 DEF Start, TypeOK, RunTypeOK, RolloutInv, Pristine
  <2> QED BY <1>2, <2>1
<1>4. ASSUME NEW n \in Nodes, ReleaseNode(n)
      PROVE  R!Release(n)
  <2>1. UNCHANGED nodeVars /\ released' = released \cup {n}
    BY <1>4 DEF ReleaseNode, operUnch
  <2> QED BY <2>1 DEF nodeVars, R!Release, phaseOf, Applied, finalized
<1>5. ASSUME NEW g \in Runs, NEW n \in Nodes, RunPowerCycle(g, n)
      PROVE  UNCHANGED R!vars
  <2>1. g <= gen /\ rn[g][n] = "power" /\ released' = released
    BY <1>5 DEF RunPowerCycle, RunAt, RolloutInv, Started, runUnch
  <2>2. ag[n] = "off"
    BY <1>1, <2>1 DEF RolloutInv, Unpowered
  <2>3. /\ \A k \in Nodes \ {n} : ag'[k] = ag[k]
        /\ ag'[n] \in {"off", "pxe"}
        /\ UNCHANGED <<agMaster, snap>>
    BY <1>5, <2>2 DEF RunPowerCycle, PowerCycled, nodeVars, TypeOK, NodeTypeOK
  <2>4. phaseOf' = phaseOf /\ finalized' = finalized
    BY <2>2, <2>3 DEF phaseOf, Applied, finalized
  <2> QED BY <2>1, <2>4 DEF R!vars
<1>6. CASE UNCHANGED vars
  BY <1>2, <1>6 DEF vars, histVars
<1>7. CASE Next
  <2>1. ASSUME NEW n \in Nodes, AgentStep(n)
        PROVE  R!Next \/ UNCHANGED R!vars
    BY <1>1, <1>7, <2>1, AgentRefines
  <2> QED BY <1>2, <1>3, <1>4, <1>5, <1>7, <2>1, Releases, NodeMoves DEF R!Next
<1> QED BY <1>6, <1>7

(* A deploy that is started once, with the set_ready parameters staged on  *)
(* the master, implements Rollout: whatever the driver and the agents do,  *)
(* lose or fail at, the nodes apply in order and the cluster is finalized  *)
(* once and last.                                                          *)
THEOREM ImplementsRollout ==
    ASSUME Master \in Nodes, Staged, MaxStarts = 1
    PROVE  Spec => RolloutSpec
<1>1. TypeOK /\ TypeOK' /\ RolloutInv /\ RolloutInv' /\ MasterKnows /\ [Next]_vars
         => [R!Next]_R!vars
  BY StepRefines
<1> QED
  BY <1>1, RolloutStarts, TypeCorrect, RolloutInvariant, MasterKnowsAlways, PTL
     DEF Spec, RolloutSpec, R!Spec

-----------------------------------------------------------------------------
(* A confirmed gate was authorized and is there *)

(* A step that leaves the record's run, its gates and the SELs alone. Only *)
(* a run that is up moves its nodes, and only the agent of a node that was *)
(* booted makes a first report of its preflight.                           *)
Aside ==
    /\ UNCHANGED <<gen, reg, step, startPc, ledger, ack, wr, sel>>
    /\ fault <= fault'
    /\ \A g \in Runs : startPc[g] # "up" => rn'[g] = rn[g]
    /\ \A n \in Nodes : pf[n] = "none" /\ ag[n] = "off" => pf'[n] = "none"

(* The writers that confirm carry no more than the ledger does, and those  *)
(* that have read their stages back find them in the SEL.                  *)
WritersSound ==
    \A w \in wr : w.acks =>
        /\ reg # 0 => w.stages \subseteq ledger[w.node]
        /\ fault = 0 /\ w.pc = "ack" => w.stages \subseteq Present(w.node)

(* Until Start has cleared the SELs nothing was confirmed, and nothing is  *)
(* about to be: no node was powered, no preflight reported.                *)
ClearsFirst ==
    \A g \in Runs :
        /\ startPc[g] \in {"none", "clear"} => \A n \in Nodes : rn[g][n] = "idle"
        /\ startPc[g] = "clear" =>
              /\ step \in {0, StepPreflight}
              /\ \A n \in Nodes : ack[n] = {} /\ pf[n] = "none"
              /\ \A w \in wr : ~w.acks

(* Only a writer that confirms goes on to confirm. *)
Confirmers == \A w \in wr : w.pc = "ack" => w.acks

AckInv == AckIsTrue /\ (FirstRun => WritersSound /\ ClearsFirst)

(* What the steps of runNode, of the poll and of the operator leave alone. *)
LEMMA DriverAside ==
    ASSUME TypeOK,
           \/ \E g \in Runs, n \in Nodes : RunStep(g, n) \/ PollObserve(g, n)
           \/ \E o \in obs : PollMerge(o)
           \/ \E g \in Runs : PollEnd(g)
           \/ \E g \in vf, ok \in BOOLEAN : VerifyEnd(g, ok)
           \/ \E n \in Nodes : StampBootDisk(n) \/ StampGivesUp(n) \/ RekickPreflight(n)
           \/ Cancel
    PROVE  Aside
<1> USE DEF Aside, TypeOK, RunTypeOK, RecTypeOK, HistTypeOK
<1>1. ASSUME NEW g \in Runs, NEW n \in Nodes, RunStep(g, n)
      PROVE  Aside
  <2>1. UNCHANGED <<gen, reg, step, startPc, ledger, ack, wr, sel, pf>>
    BY <1>1 DEF RunStep, RunBegin, RunPreflight, RunSetBootPXE, RunPowerCycle, RunPoll,
                runUnch, drvVars
  <2>2. fault' = fault \/ Fault
    BY <1>1 DEF RunStep, RunBegin, RunPreflight, RunSetBootPXE, RunPowerCycle, RunPoll,
                CallFails
  <2>3. startPc[g] = "up" /\ \E at \in RunPc : RunTo(g, n, at)
    BY <1>1 DEF RunStep, RunBegin, RunPreflight, RunSetBootPXE, RunPowerCycle, RunPoll,
                RunAt, RunPc
  <2>4. \A h \in Runs : h # g => rn'[h] = rn[h]
    BY <2>3 DEF RunTo
  <2>5. fault <= fault'
    BY <2>2, Bounds DEF Fault
  <2> QED BY <2>1, <2>3, <2>4, <2>5
<1>2. ASSUME \/ \E g \in Runs, n \in Nodes : PollObserve(g, n)
             \/ \E o \in obs : PollMerge(o)
             \/ \E g \in Runs : PollEnd(g)
             \/ \E g \in vf, ok \in BOOLEAN : VerifyEnd(g, ok)
      PROVE  Aside
  <2>1. UNCHANGED <<gen, reg, step, startPc, ledger, ack, wr, sel, pf, rn, fault>>
    BY <1>2 DEF PollObserve, PollMerge, PollEnd, VerifyEnd, pollUnch, runVars, recVars,
                bmcVars
  <2> QED BY <2>1, Bounds
<1>3. ASSUME NEW n \in Nodes, StampBootDisk(n) \/ StampGivesUp(n)
      PROVE  Aside
  <2>1. UNCHANGED <<gen, reg, step, startPc, ledger, ack, wr, sel, pf, rn>>
    BY <1>3 DEF StampBootDisk, StampGivesUp, agentUnch, reportUnch, runVars
  <2>2. fault' = fault \/ Fault
    BY <1>3 DEF StampBootDisk, StampGivesUp
  <2> QED BY <2>1, <2>2, Bounds DEF Fault
<1>4. ASSUME NEW n \in Nodes, RekickPreflight(n)
      PROVE  Aside
  <2>1. UNCHANGED <<gen, reg, step, startPc, ledger, ack, wr, sel, rn, fault>>
    BY <1>4 DEF RekickPreflight, operUnch, bmcVars
  <2>2. pf' = [pf EXCEPT ![n] = IF pf[n] = "none" THEN pf[n] ELSE "fail"]
    BY <1>4 DEF RekickPreflight
  <2> QED BY <2>1, <2>2, Bounds
<1>5. ASSUME Cancel
      PROVE  Aside
  <2>1. UNCHANGED <<gen, reg, step, startPc, ledger, ack, wr, sel, pf, rn, fault>>
    BY <1>5 DEF Cancel, operUnch, bmcVars
  <2> QED BY <2>1, Bounds
<1> QED BY <1>1, <1>2, <1>3, <1>4, <1>5

(* The agents touch neither the ledger nor a gate.                         *)
LEMMA AgentAside == ASSUME TypeOK, NEW n \in Nodes, AgentStep(n) PROVE Aside
<1> USE DEF Aside, TypeOK, RunTypeOK, RecTypeOK, HistTypeOK
<1>0. PICK d \in BOOLEAN, b \in BOOLEAN :
         \/ PreflightCheckin(n, d, b) \/ PreflightRound(n, d, b)
         \/ AgentSetReady(n, d, b)
         \/ InBandCheckin(n, d, b) \/ InBandReport(n, d, b)
         \/ AgentRestore(n, d) \/ AgentRestored(n, d) \/ AgentUp(n, d)
         \/ AgentApplied(n, d) \/ AgentApplyFailed(n, d)
         \/ InBandApply(n, d)
         \/ AgentReboot(n) \/ AgentApply(n) \/ AgentApplyReboot(n) \/ AgentInBand(n)
  BY DEF AgentStep, Delivery
<1>1. CASE PreflightCheckin(n, d, b) \/ PreflightRound(n, d, b)
  <2>1. UNCHANGED <<gen, reg, step, startPc, ledger, ack, wr, sel, rn, fault>>
    BY <1>1 DEF PreflightCheckin, PreflightRound, agentUnch, reportUnch, runVars
  <2>2. ag[n] # "off"
    BY <1>1 DEF PreflightCheckin, PreflightRound
  <2>3. \A k \in Nodes : k # n => pf'[k] = pf[k]
    BY <1>1 DEF PreflightCheckin, PreflightRound, PreflightReport
  <2> QED BY <2>1, <2>2, <2>3, Bounds
<1>2. CASE \/ AgentSetReady(n, d, b) \/ AgentRestore(n, d) \/ AgentRestored(n, d)
           \/ AgentUp(n, d) \/ AgentApplied(n, d) \/ AgentApplyFailed(n, d)
           \/ AgentReboot(n) \/ AgentApply(n) \/ AgentApplyReboot(n)
  <2>1. UNCHANGED <<gen, reg, step, startPc, ledger, ack, wr, sel, pf, rn>>
    BY <1>2 DEF AgentSetReady, AgentRestore, AgentRestored, AgentUp, AgentApplied,
                AgentApplyFailed, AgentReboot, AgentApply, AgentApplyReboot, agentUnch,
                reportUnch, runVars
  <2>2. fault' = fault \/ Fault
    BY <1>2 DEF AgentSetReady, AgentRestore, AgentRestored, AgentUp, AgentApplied,
                AgentApplyFailed, AgentReboot, AgentApply, AgentApplyReboot, WriteStatus
  <2> QED BY <2>1, <2>2, Bounds DEF Fault
<1>3. CASE \/ InBandCheckin(n, d, b) \/ InBandReport(n, d, b) \/ InBandApply(n, d)
           \/ AgentInBand(n)
  <2>1. UNCHANGED <<gen, reg, step, startPc, ledger, ack, wr, sel, pf, rn>>
    BY <1>3 DEF InBandCheckin, InBandReport, InBandApply, AgentInBand, inBandUnch,
                agentUnch, reportUnch, runVars
  <2>2. fault' = fault \/ Fault
    BY <1>3 DEF InBandCheckin, InBandReport, InBandApply, AgentInBand
  <2> QED BY <2>1, <2>2, Bounds DEF Fault
<1> QED BY <1>0, <1>1, <1>2, <1>3

(* Every step but those of Start, the gates, their grants, the operator's  *)
(* release and a restart is such a step.                                   *)
LEMMA AsideOr ==
    ASSUME TypeOK, Next
    PROVE  \/ Aside
           \/ \E b \in Modes : Start(b)
           \/ \E g \in Runs : StartStep(g)
           \/ \E w \in wr : GateWrite(w) \/ GateAck(w)
           \/ \E g \in Runs, n \in Nodes : Reconcile(g, n)
           \/ \E n \in Nodes : SelLost(n) \/ ReleaseNode(n)
           \/ \E c \in pend : HandOff(c)
           \/ AdvanceStep \/ DriverRestart
BY DriverAside, AgentAside DEF Next

(* A granting step of a first run keeps the confirmations sound: the       *)
(* ledger only grows, and a new writer carries it.                         *)
LEMMA GrantsSound ==
    ASSUME TypeOK, AckInv, FirstRun, NEW grants \in [Nodes -> SUBSET Stages],
           writeGos(grants), UNCHANGED <<gen, reg, ack, sel>>, fault <= fault',
           reg # 0 => \A g \in Runs : startPc'[g] # "clear",
           ClearsFirst'
    PROVE  AckInv'
<1> USE DEF TypeOK, RecTypeOK, HistTypeOK
<1>1. FirstRun' => AckIsTrue'
  <2>1. \A n \in Nodes : ledger[n] \subseteq ledger'[n]
    BY DEF writeGos
  <2>2. fault' = 0 => fault = 0
    BY Bounds
  <2>3. \A n \in Nodes : ack'[n] = ack[n] /\ Present(n)' = Present(n)
    BY DEF Present
  <2> QED BY <2>1, <2>2, <2>3 DEF AckInv, AckIsTrue
<1>2. FirstRun' => WritersSound'
  <2> SUFFICES ASSUME NEW w \in wr', w.acks
               PROVE  /\ reg # 0 => w.stages \subseteq ledger'[w.node]
                      /\ fault' = 0 /\ w.pc = "ack" => w.stages \subseteq Present(w.node)
    BY DEF WritersSound, Present
  <2>1. \A n \in Nodes : ledger[n] \subseteq ledger'[n]
    BY DEF writeGos
  <2>2. fault' = 0 => fault = 0
    BY Bounds
  <2>3. CASE w \in wr
    <3>1. w.node \in Nodes
      BY <2>3 DEF DrvTypeOK, Write
    <3> QED BY <2>1, <2>2, <2>3, <3>1 DEF AckInv, WritersSound
  <2>4. CASE w \notin wr
    <3>1. reg # 0
      BY <2>4 DEF writeGos
    <3>2. PICK n \in Nodes : w = [run |-> reg, node |-> n, stages |-> ledger[n] \cup grants[n],
                                  acks |-> TRUE, pc |-> "write"]
      BY <2>4, <3>1 DEF writeGos
    <3>3. ledger'[n] = ledger[n] \cup grants[n]
      BY <3>1 DEF writeGos
    <3> QED BY <3>2, <3>3
  <2> QED BY <2>3, <2>4
<1> QED BY <1>1, <1>2 DEF AckInv, AckIsTrue

(* In a first run the only run whose SELs are being cleared is the first;  *)
(* until it is past that no node was powered.                              *)
LEMMA ClearingIsIdle ==
    ASSUME TypeOK, RolloutInv, AckInv, FirstRun, NEW g \in Runs, startPc[g] = "clear"
    PROVE  /\ gen = 1 /\ g = 1
           /\ \A n \in Nodes : ag[n] = "off"
           /\ \A h \in Runs : h # g => startPc[h] = "none"
<1> USE DEF TypeOK, RunTypeOK
<1>1. \A h \in Runs : startPc[h] # "none" => h = 1 /\ gen = 1
  BY Bounds DEF RolloutInv, Started, FirstRun, Runs
<1>2. \A n \in Nodes : rn[g][n] = "idle"
  BY DEF AckInv, ClearsFirst
<1>3. g <= gen
  BY DEF RolloutInv, Started
<1> QED BY <1>1, <1>2, <1>3 DEF RolloutInv, Unpowered

(* So none is about to be told anything: no hand-off waits, and "Next" is  *)
(* refused.                                                                *)
LEMMA NoGrantWhileClearing ==
    ASSUME TypeOK, RolloutInv, AckInv, FirstRun, Master \in Nodes,
           (\E c \in pend : HandOff(c)) \/ AdvanceStep
    PROVE  \A g \in Runs : startPc[g] # "clear"
<1> SUFFICES ASSUME NEW g \in Runs, startPc[g] = "clear" PROVE FALSE
  OBVIOUS
<1>1. \A n \in Nodes : ag[n] = "off"
  BY ClearingIsIdle
<1>2. pend = {}
  <2> SUFFICES ASSUME NEW c \in pend PROVE FALSE
    OBVIOUS
  <2>1. c.node \in Applied
    BY DEF RolloutInv, NewsSound
  <2> QED BY <2>1, <1>1 DEF Applied
<1>3. AdvanceStep
  BY <1>2
<1>4. step \in {0, StepPreflight} /\ pf[Master] = "none"
  BY DEF AckInv, ClearsFirst
<1>5. ~canAdvance
  BY <1>4 DEF canAdvance, fabricReady, StepPreflight, StepRestore, StepReboot,
              StepApplyMaster, StepApplyRest
<1> QED BY <1>3, <1>5 DEF AdvanceStep

(* The steps aside keep the confirmations sound. *)
LEMMA AckAside == ASSUME TypeOK, RolloutInv, AckInv, Aside PROVE AckInv'
<1> USE DEF TypeOK, HistTypeOK, RecTypeOK
<1> SUFFICES ASSUME FirstRun PROVE AckInv'
  BY DEF AckInv, AckIsTrue, FirstRun, Aside
<1>1. (fault' = 0 => fault = 0) /\ \A n \in Nodes : Present(n)' = Present(n)
  BY Bounds DEF Aside, Present
<1>2. AckIsTrue'
  BY <1>1 DEF AckInv, AckIsTrue, Aside
<1>3. WritersSound'
  <2> SUFFICES ASSUME NEW w \in wr, w.acks
               PROVE  /\ reg # 0 => w.stages \subseteq ledger[w.node]
                      /\ fault' = 0 /\ w.pc = "ack" => w.stages \subseteq Present(w.node)'
    BY DEF WritersSound, Aside
  <2>1. w.node \in Nodes
    BY DEF DrvTypeOK, Write
  <2> QED BY <1>1, <2>1 DEF AckInv, WritersSound
<1>4. ClearsFirst'
  <2> SUFFICES ASSUME NEW g \in Runs
               PROVE  /\ startPc[g] \in {"none", "clear"} => \A n \in Nodes : rn'[g][n] = "idle"
                      /\ startPc[g] = "clear" =>
                            /\ step \in {0, StepPreflight}
                            /\ \A n \in Nodes : ack[n] = {} /\ pf'[n] = "none"
                            /\ \A w \in wr : ~w.acks
    BY DEF ClearsFirst, Aside
  <2>1. startPc[g] \in {"none", "clear"} => \A n \in Nodes : rn'[g][n] = "idle"
    BY DEF Aside, AckInv, ClearsFirst
  <2>2. ASSUME startPc[g] = "clear"
        PROVE  \A n \in Nodes : pf'[n] = "none"
    BY <2>2, ClearingIsIdle DEF Aside, AckInv, ClearsFirst
  <2> QED BY <2>1, <2>2 DEF AckInv, ClearsFirst
<1> QED BY <1>2, <1>3, <1>4 DEF AckInv

(* So do the three steps of Start. *)
LEMMA AckStart ==
    ASSUME TypeOK, RolloutInv, AckInv, FirstRun, NEW g \in Runs, StartStep(g)
    PROVE  AckInv'
<1> USE DEF TypeOK, RunTypeOK, HistTypeOK, RecTypeOK
<1>0. g = 1 /\ gen = 1
  BY Bounds DEF StartStep, StartClear, StartArm, StartFlip, RolloutInv, Started, FirstRun, Runs
<1>1. \A h \in Runs : h # g => startPc[h] = "none"
  BY <1>0, Bounds DEF RolloutInv, Started, Runs
<1>2. ASSUME NEW k \in Nodes, StartClear(g, k)
      PROVE  AckInv'
  <2>1. UNCHANGED <<gen, reg, step, ledger, ack, wr, rn, pf>>
    BY <1>2 DEF StartClear, recVars, drvVars
  <2>2. startPc[g] = "clear" /\ startPc' = [startPc EXCEPT ![g] = startPc'[g]]
    BY <1>2 DEF StartClear
  <2>3. fault <= fault'
    BY <1>2, Bounds DEF StartClear, Fault
  <2>4. \A n \in Nodes : ack[n] = {}
    BY <2>2 DEF AckInv, ClearsFirst
  <2>5. AckIsTrue'
    BY <2>1, <2>4 DEF AckIsTrue
  <2>6. \A w \in wr : ~w.acks
    BY <2>2 DEF AckInv, ClearsFirst
  <2>7. WritersSound'
    BY <2>1, <2>6 DEF WritersSound
  <2>8. ClearsFirst'
    BY <2>1, <2>2, <2>6 DEF AckInv, ClearsFirst
  <2> QED BY <2>5, <2>7, <2>8 DEF AckInv
<1>3. CASE StartArm(g)
  <2>1. UNCHANGED <<gen, reg, step, ack, rn, pf, sel, fault>>
    BY <1>3 DEF StartArm, bmcVars
  <2>2. startPc' = [startPc EXCEPT ![g] = "flip"]
    BY <1>3 DEF StartArm
  <2>3. \A h \in Runs : startPc'[h] # "clear"
    BY <1>1, <2>2
  <2>4. ClearsFirst'
    BY <2>1, <2>2, <2>3 DEF AckInv, ClearsFirst
  <2>5. PICK grants \in [Nodes -> SUBSET Stages] :
           UNCHANGED <<ledger, wr>> \/ writeGos(grants)
    <3> DEFINE gr == [n \in Nodes |-> IF n = Master THEN {RESTORE, REBOOT, APPLY}
                                                    ELSE {RESTORE, REBOOT}]
    <3>1. gr \in [Nodes -> SUBSET Stages]
      BY StageMembers
    <3>2. UNCHANGED <<ledger, wr>> \/ writeGos(gr)
      BY <1>3 DEF StartArm
    <3> HIDE DEF gr
    <3> QED BY <3>1, <3>2
  <2>6. CASE UNCHANGED <<ledger, wr>>
    <3>1. \A n \in Nodes : Present(n)' = Present(n)
      BY <2>1 DEF Present
    <3>2. AckIsTrue'
      BY <2>1, <2>6, <3>1 DEF AckInv, AckIsTrue
    <3>3. \A w \in wr : w.node \in Nodes
      BY DEF DrvTypeOK, Write
    <3>4. WritersSound'
      BY <2>1, <2>6, <3>1, <3>3 DEF AckInv, WritersSound
    <3> QED BY <2>4, <3>2, <3>4 DEF AckInv
  <2>7. CASE writeGos(grants)
    BY <2>1, <2>3, <2>4, <2>7, Bounds, GrantsSound
  <2> QED BY <2>5, <2>6, <2>7
<1>4. CASE StartFlip(g)
  <2>1. UNCHANGED <<gen, step, ledger, ack, wr, rn, pf, sel>>
    BY <1>4 DEF StartFlip, bmcVars
  <2>2. reg' \in {reg, 0} /\ startPc' = [startPc EXCEPT ![g] = startPc'[g]]
        /\ startPc'[g] \in {"up", "dead"}
    BY <1>4 DEF StartFlip
  <2>3. fault <= fault'
    BY <1>4, Bounds DEF StartFlip, Fault
  <2>4. (fault' = 0 => fault = 0) /\ \A n \in Nodes : Present(n)' = Present(n)
    BY <2>1, <2>3, Bounds DEF Present
  <2>5. AckIsTrue'
    BY <2>1, <2>4 DEF AckInv, AckIsTrue
  <2>6. \A w \in wr : w.node \in Nodes
    BY DEF DrvTypeOK, Write
  <2>7. WritersSound'
    BY <2>1, <2>2, <2>4, <2>6 DEF AckInv, WritersSound
  <2>8. ClearsFirst'
    BY <1>1, <2>1, <2>2 DEF AckInv, ClearsFirst
  <2> QED BY <2>5, <2>7, <2>8 DEF AckInv
<1> QED BY <1>2, <1>3, <1>4 DEF StartStep

(* So do the writers: one that has read its stages back finds them, and    *)
(* without failures nothing takes them away.                               *)
LEMMA AckGates ==
    ASSUME TypeOK, RolloutInv, AckInv, Confirmers, FirstRun,
           \/ \E w \in wr : GateWrite(w) \/ GateAck(w)
           \/ \E g \in Runs, n \in Nodes : Reconcile(g, n)
           \/ \E n \in Nodes : SelLost(n)
    PROVE  AckInv'
<1> USE DEF TypeOK, HistTypeOK, RecTypeOK
<1>0. \A w \in wr : w \in Write /\ w.node \in Nodes
  BY DEF DrvTypeOK, Write
<1>1. UNCHANGED <<gen, reg, step, startPc, ledger, rn, pf>>
  BY DEF GateWrite, GateAck, Reconcile, SelLost, gateUnch, runVars
<1>2. ASSUME NEW w \in wr, GateWrite(w)
      PROVE  AckInv'
  <2>1. ack' = ack /\ fault <= fault'
    BY <1>2, Bounds DEF GateWrite, Fault
  <2>2. fault' = 0 => fault = 0
    BY <2>1, Bounds
  <2>3. ASSUME fault' = 0
        PROVE  /\ \A n \in Nodes : Present(n) \subseteq Present(n)'
               /\ w.stages \subseteq Present(w.node)'
    <3>1. sel' = [sel EXCEPT ![w.node] = sel[w.node] \cup Added(w.node, w.run, w.stages)]
      BY <1>2, <2>3, Bounds DEF GateWrite, Fault
    <3>2. \A n \in Nodes : sel[n] \subseteq sel'[n]
      BY <1>0, <3>1 DEF BmcTypeOK
    <3>3. \A n \in Nodes : Present(n) \subseteq Present(n)'
      BY <3>2 DEF Present
    <3>4. Added(w.node, w.run, w.stages) \subseteq sel'[w.node]
      BY <1>0, <3>1 DEF BmcTypeOK
    <3>5. ASSUME NEW s \in w.stages, s \notin Present(w.node)
          PROVE  s \in Present(w.node)'
      <4>1. <<s, w.run>> \in sel'[w.node]
        BY <3>4, <3>5 DEF Added
      <4> QED BY <4>1 DEF Present
    <3> QED BY <1>0, <3>3, <3>5
  <2>4. wr' \subseteq wr \cup (IF w.acks THEN {[w EXCEPT !.pc = "ack"]} ELSE {})
    BY <1>2 DEF GateWrite
  <2>5. AckIsTrue'
    BY <1>1, <2>1, <2>2, <2>3 DEF AckInv, AckIsTrue
  <2>6. WritersSound'
    <3> SUFFICES ASSUME NEW x \in wr', x.acks
                 PROVE  /\ reg # 0 => x.stages \subseteq ledger[x.node]
                        /\ fault' = 0 /\ x.pc = "ack" => x.stages \subseteq Present(x.node)'
      BY <1>1 DEF WritersSound
    <3>1. CASE x \in wr
      BY <1>0, <3>1, <2>2, <2>3 DEF AckInv, WritersSound
    <3>2. CASE w.acks /\ x = [w EXCEPT !.pc = "ack"]
      <4>1. x.stages = w.stages /\ x.node = w.node
        BY <1>0, <3>2 DEF Write
      <4> QED BY <4>1, <3>2, <2>3 DEF AckInv, WritersSound
    <3> QED BY <2>4, <3>1, <3>2
  <2>7. ASSUME \A y \in wr : ~y.acks
        PROVE  \A x \in wr' : ~x.acks
    BY <2>4, <2>7
  <2>8. ClearsFirst'
    BY <1>1, <2>1, <2>7 DEF AckInv, ClearsFirst
  <2> QED BY <2>5, <2>6, <2>8 DEF AckInv
<1>3. ASSUME NEW w \in wr, GateAck(w)
      PROVE  AckInv'
  <2>1. UNCHANGED <<sel, fault>> /\ wr' = wr \ {w} /\ w.pc = "ack"
        /\ ack' = IF reg = 0 THEN ack ELSE [ack EXCEPT ![w.node] = w.stages]
    BY <1>3 DEF GateAck
  <2>2. \A n \in Nodes : Present(n)' = Present(n)
    BY <2>1 DEF Present
  <2>3. w.acks
    BY <2>1 DEF Confirmers
  <2>4. AckIsTrue'
    <3>1. CASE reg = 0
      BY <1>1, <2>1, <2>2, <3>1 DEF AckInv, AckIsTrue
    <3>2. CASE reg # 0
      <4>1. \A n \in Nodes : ack'[n] = ack[n] \/ (n = w.node /\ ack'[n] = w.stages)
        BY <2>1, <3>2
      <4> QED BY <1>1, <2>1, <2>2, <2>3, <3>2, <4>1 DEF AckInv, AckIsTrue, WritersSound
    <3> QED BY <3>1, <3>2
  <2>5. WritersSound'
    BY <1>0, <1>1, <2>1, <2>2 DEF AckInv, WritersSound
  <2>6. ClearsFirst'
    BY <1>1, <2>1, <2>3 DEF AckInv, ClearsFirst
  <2> QED BY <2>4, <2>5, <2>6 DEF AckInv
<1>4. ASSUME NEW g \in Runs, NEW n \in Nodes, Reconcile(g, n)
      PROVE  AckInv'
  <2> DEFINE x == [run |-> reg, node |-> n, stages |-> ledger[n], acks |-> TRUE, pc |-> "write"]
  <2>1. UNCHANGED <<ack, sel, fault>> /\ wr' = wr \cup {x} /\ startPc[g] = "up"
    BY <1>4 DEF Reconcile
  <2>2. \A k \in Nodes : Present(k)' = Present(k)
    BY <2>1 DEF Present
  <2>3. AckIsTrue'
    BY <1>1, <2>1, <2>2 DEF AckInv, AckIsTrue
  <2>4. WritersSound'
    BY <1>0, <1>1, <2>1, <2>2 DEF AckInv, WritersSound
  <2>5. \A h \in Runs : startPc[h] # "clear"
    BY <2>1, ClearingIsIdle
  <2>6. ClearsFirst'
    BY <1>1, <2>5 DEF AckInv, ClearsFirst
  <2> QED BY <2>3, <2>4, <2>6 DEF AckInv
<1>5. ASSUME NEW n \in Nodes, SelLost(n)
      PROVE  AckInv'
  <2>1. UNCHANGED <<ack, wr>> /\ fault' # 0
    BY <1>5, Bounds DEF SelLost, Fault
  <2> QED BY <1>1, <2>1 DEF AckInv, AckIsTrue, WritersSound, ClearsFirst
<1> QED BY <1>2, <1>3, <1>4, <1>5

(* A new writer starts with its write. *)
LEMMA ConfirmersStep ==
    ASSUME TypeOK, Confirmers, [Next]_vars PROVE Confirmers'
<1> USE DEF Confirmers
<1>1. CASE UNCHANGED wr
  BY <1>1
<1>2. ASSUME NEW grants, writeGos(grants)
      PROVE  Confirmers'
  BY <1>2 DEF writeGos
<1>3. ASSUME NEW b \in Modes, Start(b)
      PROVE  Confirmers'
  BY <1>1, <1>3 DEF Start
<1>4. ASSUME NEW g \in Runs, StartStep(g)
      PROVE  Confirmers'
  <2>1. CASE StartArm(g)
    BY <1>1, <1>2, <2>1 DEF StartArm
  <2>2. CASE ~StartArm(g)
    BY <1>1, <1>4, <2>2 DEF StartStep, StartClear, StartFlip, drvVars
  <2> QED BY <2>1, <2>2
<1>5. ASSUME NEW w \in wr, GateWrite(w) \/ GateAck(w)
      PROVE  Confirmers'
  <2>1. w \in Write
    BY DEF TypeOK, DrvTypeOK
  <2>2. wr' \subseteq wr \cup (IF w.acks THEN {[w EXCEPT !.pc = "ack"]} ELSE {})
    BY <1>5 DEF GateWrite, GateAck
  <2>3. w.acks => [w EXCEPT !.pc = "ack"].acks
    BY <2>1 DEF Write
  <2> QED BY <2>2, <2>3
<1>6. ASSUME NEW g \in Runs, NEW n \in Nodes, Reconcile(g, n)
      PROVE  Confirmers'
  BY <1>6 DEF Reconcile
<1>7. ASSUME NEW n \in Nodes, SelLost(n) \/ ReleaseNode(n)
      PROVE  Confirmers'
  BY <1>7 DEF SelLost, ReleaseNode
<1>8. ASSUME NEW c \in pend, HandOff(c)
      PROVE  Confirmers'
  BY <1>2, <1>8 DEF HandOff
<1>9. CASE AdvanceStep \/ DriverRestart
  BY <1>2, <1>9 DEF AdvanceStep, DriverRestart
<1>10. CASE UNCHANGED vars
  BY <1>1, <1>10 DEF vars, drvVars
<1>11. CASE Aside
  BY <1>1, <1>11 DEF Aside
<1> QED BY <1>3, <1>4, <1>5, <1>6, <1>7, <1>8, <1>9, <1>10, <1>11, AsideOr

(* Every step of a first run keeps the confirmations sound. *)
LEMMA AckInv_Next ==
    ASSUME Master \in Nodes, TypeOK, TypeOK', RolloutInv, AckInv, Confirmers, [Next]_vars
    PROVE  AckInv'
<1> SUFFICES ASSUME FirstRun' PROVE AckInv'
  BY DEF AckInv, AckIsTrue
<1> USE DEF TypeOK, HistTypeOK, RecTypeOK, RunTypeOK
<1>1. ASSUME NEW b \in Modes, Start(b)
      PROVE  AckInv'
  <2>1. gen = 0 /\ wr' = wr /\ wr = {}
    BY <1>1, Bounds DEF Start, FirstRun, RolloutInv, Pristine
  <2>2. \A n \in Nodes : ack'[n] = {}
    BY <1>1 DEF Start
  <2>3. AckIsTrue'
    BY <2>2 DEF AckIsTrue
  <2>4. \A g \in Runs : startPc[g] = "none"
    BY <2>1, Bounds DEF RolloutInv, Started, Runs
  <2>5. \A g \in Runs, n \in Nodes : rn[g][n] = "idle"
    BY <2>1, <2>4 DEF AckInv, ClearsFirst, FirstRun
  <2>6. rn' = rn /\ (\A n \in Nodes : pf'[n] = "none") /\ step' \in {0, StepPreflight}
    BY <1>1 DEF Start
  <2>7. ClearsFirst'
    BY <2>1, <2>2, <2>5, <2>6 DEF ClearsFirst
  <2> QED BY <2>1, <2>3, <2>7 DEF AckInv, WritersSound
<1>2. CASE \A b \in Modes : ~Start(b)
  <2>1. gen' = gen
    BY <1>2, StepKeeps DEF Keeps, vars, runVars
  <2>2. FirstRun
    BY <2>1 DEF FirstRun
  <2>3. CASE Aside
    BY <2>3, AckAside
  <2>4. ASSUME NEW g \in Runs, StartStep(g)
        PROVE  AckInv'
    BY <2>2, <2>4, AckStart
  <2>5. CASE \/ \E w \in wr : GateWrite(w) \/ GateAck(w)
             \/ \E g \in Runs, n \in Nodes : Reconcile(g, n)
             \/ \E n \in Nodes : SelLost(n)
    BY <2>2, <2>5, AckGates
  <2>6. ASSUME NEW n \in Nodes, ReleaseNode(n)
        PROVE  AckInv'
    <3>1. UNCHANGED <<gen, reg, step, startPc, ack, rn, pf, sel, fault>>
      BY <2>6 DEF ReleaseNode, operUnch, bmcVars
    <3>2. \A k \in Nodes : ledger[k] \subseteq ledger'[k]
      BY <2>6 DEF ReleaseNode
    <3>3. \A x \in wr' : x.acks => x \in wr
      BY <2>6 DEF ReleaseNode
    <3>4. \A k \in Nodes : Present(k)' = Present(k)
      BY <3>1 DEF Present
    <3>5. AckIsTrue'
      BY <3>1, <3>2, <3>4, <2>2 DEF AckInv, AckIsTrue
    <3>6. \A x \in wr : x.node \in Nodes
      BY DEF DrvTypeOK, Write
    <3>7. WritersSound'
      BY <3>1, <3>2, <3>3, <3>4, <3>6, <2>2 DEF AckInv, WritersSound
    <3>8. ClearsFirst'
      BY <3>1, <3>3, <2>2 DEF AckInv, ClearsFirst
    <3> QED BY <3>5, <3>7, <3>8 DEF AckInv
  <2>7. CASE (\E c \in pend : HandOff(c)) \/ AdvanceStep
    <3>1. \A g \in Runs : startPc[g] # "clear"
      BY <2>2, <2>7, NoGrantWhileClearing
    <3>2. UNCHANGED <<gen, reg, startPc, ack, rn, sel, fault>>
      BY <2>7 DEF HandOff, AdvanceStep, pollUnch, operUnch, runVars, bmcVars
    <3>3. ClearsFirst'
      BY <2>2, <3>1, <3>2 DEF AckInv, ClearsFirst
    <3>4. \E grants \in [Nodes -> SUBSET Stages] : writeGos(grants)
      <4>1. CASE AdvanceStep
        BY <4>1, AdvanceGrants
      <4>2. ASSUME NEW c \in pend, HandOff(c)
            PROVE  \E grants \in [Nodes -> SUBSET Stages] : writeGos(grants)
        <5> DEFINE release == c.node = Master /\ ~Manual /\ ~ManualGate
                   arm == ~Manual /\ AllDone
                   gr == [n \in Nodes |-> IF n = Master THEN (IF arm THEN {SETREADY} ELSE {})
                                          ELSE IF release THEN {APPLY} ELSE {}]
        <5>1. gr \in [Nodes -> SUBSET Stages]
          <6> HIDE DEF release, arm
          <6> QED BY StageMembers
        <5>2. writeGos(gr)
          BY <4>2 DEF HandOff
        <5> QED BY <5>1, <5>2
      <4> QED BY <2>7, <4>1, <4>2
    <3> QED BY <2>2, <3>1, <3>2, <3>3, <3>4, Bounds, GrantsSound
  <2>8. CASE DriverRestart
    <3>1. UNCHANGED <<gen, step, ledger, ack, rn, pf, sel>> /\ wr' = {} /\ fault' # 0
      BY <2>8, Bounds DEF DriverRestart, Fault, bmcVars
    <3>2. \A g \in Runs : startPc'[g] = "none" => startPc[g] = "none"
      BY <2>8 DEF DriverRestart
    <3>3. \A g \in Runs : startPc'[g] # "clear"
      BY <2>8 DEF DriverRestart
    <3> QED BY <2>2, <3>1, <3>2, <3>3 DEF AckInv, AckIsTrue, WritersSound, ClearsFirst
  <2>9. CASE UNCHANGED vars
    <3>1. Aside
      BY <2>9, Bounds DEF Aside, vars, runVars, recVars, drvVars, bmcVars
    <3> QED BY <3>1, AckAside
  <2> QED BY <1>2, <2>3, <2>4, <2>5, <2>6, <2>7, <2>8, <2>9, AsideOr
<1> QED BY <1>1, <1>2

(* In a first run a stage counts as confirmed on a node only if it was     *)
(* authorized for it, and without failures only while a read of its SEL    *)
(* finds it, however many writers of how old a ledger confirm in whatever  *)
(* order (writeGos, runGateReconciler, ackGates).                          *)
THEOREM AckIsTrueAlways == ASSUME Master \in Nodes PROVE Spec => []AckIsTrue
<1>1. Init => AckInv /\ Confirmers
  BY DEF Init, AckInv, AckIsTrue, WritersSound, ClearsFirst, Confirmers
<1>2. /\ TypeOK /\ TypeOK' /\ RolloutInv /\ AckInv /\ Confirmers /\ [Next]_vars
      => AckInv' /\ Confirmers'
  BY AckInv_Next, ConfirmersStep
<1>3. AckInv => AckIsTrue
  BY DEF AckInv
<1> QED BY <1>1, <1>2, <1>3, TypeCorrect, RolloutInvariant, PTL DEF Spec

-----------------------------------------------------------------------------
(* An abort spares its successor *)

(* The registered run was started. *)
Registered == reg # 0 => reg \in Runs /\ startPc[reg] # "none"

(* No step unregisters a run before it began.                              *)
LEMMA RegisteredAlways == Spec => []Registered
<1>1. Init => Registered
  BY DEF Init, Registered
<1>2. TypeOK /\ Registered /\ [Next]_vars => Registered'
  <2> SUFFICES ASSUME TypeOK, Registered, [Next]_vars PROVE Registered'
    OBVIOUS
  <2> USE DEF Registered
  <2>1. ASSUME NEW b \in Modes, Start(b)
        PROVE  Registered'
    BY <2>1, Bounds DEF Start, TypeOK, RunTypeOK, Runs
  <2>2. ASSUME NEW g \in Runs, StartStep(g)
        PROVE  Registered'
    BY <2>2 DEF StartStep, StartClear, StartArm, StartFlip, recVars, TypeOK, RunTypeOK
  <2>3. CASE DriverRestart
    BY <2>3 DEF DriverRestart
  <2>4. CASE UNCHANGED <<reg, startPc>>
    BY <2>4
  <2>5. CASE UNCHANGED vars \/ Aside
    BY <2>4, <2>5 DEF vars, runVars, recVars, Aside
  <2>6. CASE \/ \E w \in wr : GateWrite(w) \/ GateAck(w)
             \/ \E g \in Runs, n \in Nodes : Reconcile(g, n)
             \/ \E n \in Nodes : SelLost(n)
    BY <2>4, <2>6 DEF GateWrite, GateAck, Reconcile, SelLost, gateUnch, runVars
  <2>7. CASE \/ \E n \in Nodes : ReleaseNode(n)
             \/ \E c \in pend : HandOff(c)
             \/ AdvanceStep
    BY <2>4, <2>7 DEF ReleaseNode, HandOff, AdvanceStep, pollUnch, runVars
  <2> QED BY <2>1, <2>2, <2>3, <2>5, <2>6, <2>7, AsideOr
<1> QED BY <1>1, <1>2, TypeCorrect, PTL DEF Spec

(* A Start that finds the PXE lock busy aborts its own run: whatever other *)
(* Start superseded it meanwhile keeps its record (the identity check      *)
(* after flipForBoot), for any number of Starts.                           *)
THEOREM AbortSparesSuccessorAlways == Spec => AbortSparesSuccessor
<1>1. TypeOK /\ Registered /\ [Next]_vars =>
         [reg # 0 /\ reg' = 0 => startPc'[reg] = "dead"]_vars
  <2> SUFFICES ASSUME TypeOK, Registered, Next, reg # 0, reg' = 0
               PROVE  startPc'[reg] = "dead"
    OBVIOUS
  <2> USE DEF TypeOK, RunTypeOK, RecTypeOK, Registered
  <2>1. ASSUME NEW g \in Runs, StartStep(g)
        PROVE  startPc'[reg] = "dead"
    <3>1. StartFlip(g)
      BY <2>1 DEF StartStep, StartClear, StartArm, recVars
    <3> QED BY <3>1 DEF StartFlip
  <2>2. CASE DriverRestart
    BY <2>2 DEF DriverRestart
  <2>3. CASE \E b \in Modes : Start(b)
    BY <2>3, Bounds DEF Start
  <2>4. CASE Aside
    BY <2>4 DEF Aside
  <2>5. CASE \/ \E w \in wr : GateWrite(w) \/ GateAck(w)
             \/ \E g \in Runs, n \in Nodes : Reconcile(g, n)
             \/ \E n \in Nodes : SelLost(n)
    BY <2>5 DEF GateWrite, GateAck, Reconcile, SelLost, gateUnch
  <2>6. CASE \/ \E n \in Nodes : ReleaseNode(n)
             \/ \E c \in pend : HandOff(c)
             \/ AdvanceStep
    BY <2>6 DEF ReleaseNode, HandOff, AdvanceStep
  <2> QED BY <2>1, <2>2, <2>3, <2>4, <2>5, <2>6, AsideOr
<1> QED BY <1>1, RegisteredAlways, TypeCorrect, PTL DEF AbortSparesSuccessor, Spec

-----------------------------------------------------------------------------
(* "Next" of a manual deploy is safe *)

(* The phases of a node before its disk is written, and before its agent   *)
(* is up in the installed system.                                          *)
Installing == {"off", "pxe", "preflight", "passed", "restoring"}
NotUp == Installing \cup {"restored", "osboot"}

(* When a node of a manual deploy may find a gate.                         *)
Due(n, s) ==
    /\ s = REBOOT => step >= StepReboot
    /\ s = APPLY => step >= StepApplyMaster \/ n \in released

GatesDue ==
    /\ \A n \in Nodes : \A s \in ledger[n] : Due(n, s)
    /\ \A w \in wr : \A s \in w.stages : Due(w.node, s)
    /\ \A n \in Nodes : \A s \in Present(n) : Due(n, s)

(* How far the nodes get without a gate. An agent without a snapshot       *)
(* applies without any.                                                    *)
PhasesDue ==
    \A n \in Nodes :
        /\ step < StepReboot => ag[n] \in Installing \cup {"restored"}
        /\ step < StepApplyMaster /\ n \notin released /\ snap[n] =>
              ag[n] \notin {"applying", "waitready", "finished", "failed"}
        /\ ag[n] \in {"checkin", "hold"} => ~snap[n]

(* What a node's rank on the pipeline says of it at the two barriers.      *)
Tells(n, r) ==
    /\ r >= 4 /\ step < StepReboot => ag[n] = "restored"
    /\ r >= 5 /\ step < StepApplyMaster /\ n \notin released => ag[n] \notin NotUp

ReachedIsReal ==
    /\ \A n \in Nodes : Tells(n, pipelineRank[st[n]])
    /\ \A n \in Nodes : oob[n] # NoStatus => Tells(n, pipelineRank[selState(oob[n])])
    /\ \A o \in obs : Tells(o.node, pipelineRank[selState(o.status)])

NextInv == FirstRun /\ Manual => GatesDue /\ PhasesDue /\ ReachedIsReal

(* The operator's releases are taken back by the next Start only. *)
LEMMA ReleasedGrows ==
    ASSUME Next, \A b \in Modes : ~Start(b)
    PROVE  released \subseteq released'
<1>1. CASE UNCHANGED released
  BY <1>1
<1>2. ASSUME NEW g \in Runs, NEW n \in Nodes, RunStep(g, n)
      PROVE  UNCHANGED released
  BY <1>2 DEF RunStep, RunBegin, RunPreflight, RunSetBootPXE, RunPowerCycle, RunPoll, runUnch
<1>3. ASSUME NEW g \in Runs, StartStep(g)
      PROVE  UNCHANGED released
  BY <1>3 DEF StartStep, StartClear, StartArm, StartFlip, histVars
<1>4. ASSUME NEW w \in wr, GateWrite(w) \/ GateAck(w)
      PROVE  UNCHANGED released
  BY <1>4 DEF GateWrite, GateAck, gateUnch, histVars
<1>5. ASSUME NEW g \in Runs, NEW n \in Nodes, Reconcile(g, n) \/ PollObserve(g, n)
      PROVE  UNCHANGED released
  BY <1>5 DEF Reconcile, PollObserve, gateUnch, pollUnch, histVars
<1>6. ASSUME NEW n \in Nodes, SelLost(n) \/ StampBootDisk(n) \/ StampGivesUp(n)
      PROVE  UNCHANGED released
  BY <1>6 DEF SelLost, StampBootDisk, StampGivesUp, gateUnch, agentUnch, histVars
<1>7. ASSUME \/ \E o \in obs : PollMerge(o)
             \/ \E g \in Runs : PollEnd(g)
             \/ \E c \in pend : HandOff(c)
             \/ \E g \in vf, ok \in BOOLEAN : VerifyEnd(g, ok)
      PROVE  UNCHANGED released
  BY <1>7 DEF PollMerge, PollEnd, HandOff, VerifyEnd, pollUnch
<1>8. ASSUME NEW n \in Nodes, AgentStep(n)
      PROVE  UNCHANGED released
  BY <1>8 DEF AgentStep, PreflightCheckin, PreflightRound, AgentSetReady, InBandCheckin,
              InBandReport, AgentRestore, AgentRestored, AgentUp, AgentApplied,
              AgentApplyFailed, InBandApply, AgentReboot, AgentApply, AgentApplyReboot,
              AgentInBand, inBandUnch, agentUnch
<1>9. CASE AdvanceStep \/ Cancel \/ DriverRestart \/ \E n \in Nodes : RekickPreflight(n)
  BY <1>9 DEF AdvanceStep, Cancel, DriverRestart, RekickPreflight, histVars
<1>10. ASSUME NEW n \in Nodes, ReleaseNode(n)
       PROVE  released \subseteq released'
  BY <1>10 DEF ReleaseNode
<1> QED
  BY <1>1, <1>2, <1>3, <1>4, <1>5, <1>6, <1>7, <1>8, <1>9, <1>10 DEF Next

(* A gate that is due stays due, in the same deploy. *)
LEMMA DueStays ==
    ASSUME TypeOK, TypeOK', step <= step', released \subseteq released'
    PROVE  \A n, s : Due(n, s) => Due(n, s)'
BY DEF Due, TypeOK, RecTypeOK, StepReboot, StepApplyMaster

(* Gates granted when they are due leave only due gates. *)
LEMMA GrantsDue ==
    ASSUME TypeOK, GatesDue, NEW grants \in [Nodes -> SUBSET Stages], writeGos(grants),
           sel' = sel, \A n, s : Due(n, s) => Due(n, s)',
           \A n \in Nodes : \A s \in grants[n] : Due(n, s)'
    PROVE  GatesDue'
<1> DEFINE led == [n \in Nodes |-> ledger[n] \cup grants[n]]
<1>1. \A n \in Nodes : \A s \in led[n] : Due(n, s)'
  BY DEF GatesDue
<1>2. ledger' = IF reg = 0 THEN ledger ELSE led
  BY DEF writeGos
<1>3. wr' = wr \cup {[run |-> reg, node |-> n, stages |-> led[n],
                     acks |-> TRUE, pc |-> "write"] :
                    n \in {k \in Nodes : grants[k] # {} /\ reg # 0}}
  BY DEF writeGos
<1> HIDE DEF led
<1>4. \A n \in Nodes : \A s \in ledger'[n] : Due(n, s)'
  BY <1>1, <1>2 DEF GatesDue
<1>5. ASSUME NEW w \in wr' PROVE \A s \in w.stages : Due(w.node, s)'
  <2>1. CASE w \in wr
    BY <2>1 DEF GatesDue
  <2>2. CASE w \notin wr
    <3>1. PICK n \in Nodes : w = [run |-> reg, node |-> n, stages |-> led[n],
                                  acks |-> TRUE, pc |-> "write"]
      BY <1>3, <2>2
    <3>2. w.node = n /\ w.stages = led[n]
      BY <3>1
    <3> QED BY <1>1, <3>2
  <2> QED BY <2>1, <2>2
<1>6. \A n \in Nodes : Present(n)' = Present(n)
  BY DEF Present
<1> QED BY <1>4, <1>5, <1>6 DEF GatesDue

(* "Next" grants what is due from then on. *)
LEMMA AdvanceGrantsDue ==
    ASSUME TypeOK, AdvanceStep
    PROVE  \E grants \in [Nodes -> SUBSET Stages] :
              writeGos(grants) /\ \A n \in Nodes : \A s \in grants[n] : Due(n, s)'
<1> DEFINE gr == [n \in Nodes |->
                    CASE step' = StepRestore     -> {RESTORE}
                      [] step' = StepReboot      -> {REBOOT}
                      [] step' = StepApplyMaster -> IF n = Master THEN {APPLY} ELSE {}
                      [] step' = StepApplyRest   -> IF n # Master THEN {APPLY} ELSE {}
                      [] step' = StepSetReady    -> IF n = Master THEN {SETREADY} ELSE {}]
<1>1. writeGos(gr) /\ step' = step + 1 /\ step < StepSetReady /\ canAdvance
  BY DEF AdvanceStep
<1>2. step \in 1..5
  BY <1>1 DEF TypeOK, RecTypeOK, canAdvance, StepPreflight, StepRestore, StepReboot,
              StepApplyMaster, StepApplyRest, StepSetReady
<1>3. ASSUME NEW n \in Nodes
      PROVE  gr[n] \in SUBSET Stages /\ \A s \in gr[n] : Due(n, s)'
  <2> USE DEF StepRestore, StepReboot, StepApplyMaster, StepApplyRest, StepSetReady
  <2>1. gr[n] = CASE step' = StepRestore     -> {RESTORE}
                  [] step' = StepReboot      -> {REBOOT}
                  [] step' = StepApplyMaster -> IF n = Master THEN {APPLY} ELSE {}
                  [] step' = StepApplyRest   -> IF n # Master THEN {APPLY} ELSE {}
                  [] step' = StepSetReady    -> IF n = Master THEN {SETREADY} ELSE {}
    OBVIOUS
  <2> HIDE DEF gr
  <2>2. CASE step' = 2
    BY <2>1, <2>2, StageMembers DEF Due, RESTORE, REBOOT, APPLY
  <2>3. CASE step' = 3
    BY <2>1, <2>3, StageMembers DEF Due, REBOOT, APPLY
  <2>4. CASE step' \in {4, 5}
    BY <2>1, <2>4, StageMembers DEF Due, REBOOT, APPLY
  <2>5. CASE step' = 6
    BY <2>1, <2>5, StageMembers DEF Due, REBOOT, APPLY, SETREADY
  <2> QED BY <1>1, <1>2, <2>2, <2>3, <2>4, <2>5
<1>4. gr \in [Nodes -> SUBSET Stages]
  <2>1. step' \in 2..6
    BY <1>1, <1>2
  <2> QED BY <2>1, StageMembers DEF StepRestore, StepReboot, StepApplyMaster,
             StepApplyRest, StepSetReady
<1> HIDE DEF gr
<1> QED BY <1>1, <1>3, <1>4

(* The steps of a manual first run find only due gates. *)
LEMMA GatesDueStep ==
    ASSUME TypeOK, TypeOK', Started, Current, FirstRun, Manual, Manual', GatesDue, Next,
           \A b \in Modes : ~Start(b)
    PROVE  GatesDue'
<1> USE DEF TypeOK, RunTypeOK, RecTypeOK, BmcTypeOK
<1>0. ASSUME step <= step', released \subseteq released'
      PROVE  \A n, s : Due(n, s) => Due(n, s)'
  BY <1>0, DueStays
<1>1. ASSUME step' = step, released' = released
      PROVE  \A n, s : Due(n, s) <=> Due(n, s)'
  BY <1>1 DEF Due
<1>2. ASSUME UNCHANGED <<step, released, ledger>>, wr' \subseteq wr,
             \A n \in Nodes : Present(n)' \subseteq Present(n)
      PROVE  GatesDue'
  BY <1>1, <1>2 DEF GatesDue
<1>3. CASE Aside
  <2>1. UNCHANGED <<step, ledger, wr, sel>> /\ (\A n \in Nodes : Present(n)' = Present(n))
    BY <1>3 DEF Aside, Present
  <2>2. released \subseteq released'
    BY ReleasedGrows
  <2>3. \A n, s : Due(n, s) => Due(n, s)'
    BY <1>0, <2>1, <2>2, Bounds
  <2> QED BY <2>1, <2>3 DEF GatesDue
<1>4. ASSUME NEW g \in Runs, StartStep(g)
      PROVE  GatesDue'
  <2>1. ASSUME NEW n \in Nodes, StartClear(g, n)
        PROVE  GatesDue'
    <3>1. UNCHANGED <<step, released, ledger, wr>>
      BY <2>1 DEF StartClear, recVars, drvVars, histVars
    <3>2. \A k \in Nodes : sel'[k] \subseteq sel[k]
      BY <2>1 DEF StartClear
    <3>3. \A k \in Nodes : Present(k)' \subseteq Present(k)
      BY <3>2 DEF Present
    <3> QED BY <1>2, <3>1, <3>3
  <2>2. CASE StartArm(g)
    <3>1. g = reg /\ runMode[g]
      <4>1. startPc[g] # "none" /\ g \in Nat /\ g >= 1
        BY <2>2 DEF StartArm, Runs
      <4>2. g <= gen /\ reg <= gen /\ reg # 0 /\ gen <= 1 /\ gen \in Nat /\ reg \in Nat
        BY <4>1, Bounds DEF Started, Current, FirstRun, Manual
      <4>3. g = reg
        BY <4>1, <4>2
      <4> QED BY <4>3 DEF Manual
    <3>2. UNCHANGED <<step, released, ledger, wr, sel>>
      BY <2>2, <3>1 DEF StartArm, histVars, bmcVars
    <3> QED BY <1>2, <3>2 DEF Present
  <2>3. CASE StartFlip(g)
    <3>1. UNCHANGED <<step, released, ledger, wr, sel>>
      BY <2>3 DEF StartFlip, histVars, bmcVars
    <3> QED BY <1>2, <3>1 DEF Present
  <2> QED BY <1>4, <2>1, <2>2, <2>3 DEF StartStep
<1>5. ASSUME NEW w \in wr, GateWrite(w)
      PROVE  GatesDue'
  <2>1. UNCHANGED <<step, released, ledger>>
    BY <1>5 DEF GateWrite, gateUnch, histVars
  <2>2. w \in Write
    BY DEF DrvTypeOK
  <2>3. \A x \in wr' : x \in wr \/ (x.node = w.node /\ x.stages = w.stages)
    <3>1. wr' \subseteq wr \cup {[w EXCEPT !.pc = "ack"]}
      BY <1>5 DEF GateWrite
    <3> QED BY <2>2, <3>1 DEF Write
  <2>4. \A n \in Nodes : \A r \in sel'[n] : r \in sel[n] \/ (n = w.node /\ r[1] \in w.stages)
    BY <1>5 DEF GateWrite, Added
  <2>5. \A n \in Nodes : \A s \in Present(n)' : s \in Present(n) \/ (n = w.node /\ s \in w.stages)
    BY <2>4 DEF Present
  <2>6. \A n, s : Due(n, s) <=> Due(n, s)'
    BY <1>1, <2>1
  <2>7. \A n \in Nodes : \A s \in ledger'[n] : Due(n, s)'
    BY <2>1, <2>6 DEF GatesDue
  <2>8. \A s \in w.stages : Due(w.node, s)'
    BY <2>6 DEF GatesDue
  <2>9. \A x \in wr' : \A s \in x.stages : Due(x.node, s)'
    BY <2>3, <2>6, <2>8 DEF GatesDue
  <2>10. \A n \in Nodes : \A s \in Present(n)' : Due(n, s)'
    BY <2>5, <2>6, <2>8 DEF GatesDue
  <2> QED BY <2>7, <2>9, <2>10 DEF GatesDue
<1>6. ASSUME NEW w \in wr, GateAck(w)
      PROVE  GatesDue'
  <2>1. UNCHANGED <<step, released, ledger, sel>> /\ wr' \subseteq wr
    BY <1>6 DEF GateAck, gateUnch, histVars
  <2> QED BY <1>2, <2>1 DEF Present
<1>7. ASSUME NEW g \in Runs, NEW n \in Nodes, Reconcile(g, n)
      PROVE  GatesDue'
  <2> DEFINE x == [run |-> reg, node |-> n, stages |-> ledger[n], acks |-> TRUE, pc |-> "write"]
  <2>1. UNCHANGED <<step, released, ledger, sel>> /\ wr' = wr \cup {x}
    BY <1>7 DEF Reconcile, gateUnch, histVars
  <2>2. x.node = n /\ x.stages = ledger[n]
    OBVIOUS
  <2> HIDE DEF x
  <2> QED BY <1>1, <2>1, <2>2 DEF GatesDue, Present
<1>8. ASSUME NEW n \in Nodes, SelLost(n)
      PROVE  GatesDue'
  <2>1. UNCHANGED <<step, released, ledger, wr>>
    BY <1>8 DEF SelLost, gateUnch, histVars
  <2>2. \A k \in Nodes : sel'[k] \subseteq sel[k]
    BY <1>8 DEF SelLost
  <2> QED BY <1>2, <2>1, <2>2 DEF Present
<1>9. ASSUME NEW n \in Nodes, ReleaseNode(n)
      PROVE  GatesDue'
  <2> DEFINE x == [run |-> reg, node |-> n,
                   stages |-> IF reg = 0 THEN {APPLY} ELSE ledger'[n],
                   acks |-> FALSE, pc |-> "write"]
  <2>1. reg # 0 /\ ledger' = [ledger EXCEPT ![n] = ledger[n] \cup {APPLY}]
    BY <1>9 DEF ReleaseNode, Manual
  <2>2. UNCHANGED <<step, sel>> /\ released' = released \cup {n} /\ wr' = wr \cup {x}
    BY <1>9 DEF ReleaseNode, operUnch, bmcVars
  <2>3. \A k, s : Due(k, s) => Due(k, s)'
    BY <1>0, <2>2, Bounds
  <2>4. Due(n, APPLY)'
    BY <2>2 DEF Due, REBOOT, APPLY
  <2>5. x.node = n /\ x.stages = ledger'[n]
    BY <2>1
  <2> HIDE DEF x
  <2>6. \A k \in Nodes : \A s \in ledger'[k] : Due(k, s)'
    BY <2>1, <2>3, <2>4 DEF GatesDue
  <2>7. \A k \in Nodes : Present(k)' = Present(k)
    BY <2>2 DEF Present
  <2> QED BY <2>2, <2>3, <2>5, <2>6, <2>7 DEF GatesDue
<1>10. ASSUME NEW c \in pend, HandOff(c)
      PROVE  GatesDue'
  <2> DEFINE gr == [n \in Nodes |-> {}]
  <2>1. UNCHANGED <<step, released, sel>> /\ writeGos(gr)
    BY <1>10 DEF HandOff, pollUnch, bmcVars
  <2>2. gr \in [Nodes -> SUBSET Stages] /\ \A n \in Nodes : gr[n] = {}
    OBVIOUS
  <2> HIDE DEF gr
  <2> QED BY <1>1, <2>1, <2>2, GrantsDue
<1>11. CASE AdvanceStep
  <2>1. UNCHANGED <<released, sel>> /\ step' = step + 1
    BY <1>11 DEF AdvanceStep, operUnch, bmcVars, histVars
  <2>2. \A n, s : Due(n, s) => Due(n, s)'
    BY <1>0, <2>1, Bounds
  <2> QED BY <1>11, <2>1, <2>2, AdvanceGrantsDue, GrantsDue
<1>12. CASE DriverRestart
  BY <1>12 DEF DriverRestart, Manual
<1> QED
  BY <1>3, <1>4, <1>5, <1>6, <1>7, <1>8, <1>9, <1>10, <1>11, <1>12, AsideOr

(* What a rank told of a node it tells as long as the node does not go     *)
(* back.                                                                   *)
Forward(n) ==
    /\ step < StepReboot /\ ag[n] = "restored" => ag'[n] = "restored"
    /\ step < StepApplyMaster /\ n \notin released /\ ag[n] \notin NotUp => ag'[n] \notin NotUp

(* A rank that is news: it tells no more than what the node has done.      *)
Fresh(n, r) ==
    \/ r < 4
    \/ r < 5 /\ ag'[n] = "restored"
    \/ ag[n] \notin Installing \cup {"restored"} /\ ag'[n] \notin NotUp

(* Both still tell the truth after the step.                               *)
LEMMA TellsStill ==
    ASSUME TypeOK, TypeOK', PhasesDue, step <= step', released \subseteq released',
           NEW n \in Nodes, Forward(n), NEW r \in Int, Tells(n, r) \/ Fresh(n, r)
    PROVE  Tells(n, r)'
<1>1. step \in Nat /\ step' \in Nat
  BY DEF TypeOK, RecTypeOK
<1>2. /\ step' < StepReboot => step < StepReboot
      /\ step' < StepApplyMaster /\ n \notin released' => step < StepApplyMaster /\ n \notin released
  BY <1>1 DEF StepReboot, StepApplyMaster
<1>3. CASE Tells(n, r)
  BY <1>2, <1>3 DEF Tells, Forward
<1>4. CASE Fresh(n, r)
  BY <1>2, <1>4 DEF Fresh, Tells, PhasesDue
<1> QED BY <1>3, <1>4

(* What an agent's step makes of the record and of the SEL's status: news  *)
(* of its own node only.                                                   *)
AgentNews(n) ==
    /\ \A k \in Nodes : k # n => st'[k] = st[k] /\ oob'[k] = oob[k]
    /\ st'[n] = st[n] \/ Fresh(n, pipelineRank[st'[n]])
    /\ oob'[n] = oob[n] \/ (oob'[n] \in Status /\ Fresh(n, pipelineRank[selState(oob'[n])]))

(* How far the states rank that an agent's step can set. *)
LEMMA Ranks ==
    /\ \A s \in State : pipelineRank[s] \in 0..7
    /\ \A s \in {"preflighting", "preflight-ok", "restoring", "error"} : pipelineRank[s] < 4
    /\ pipelineRank["rebooting"] < 5
    /\ \A s \in Status : selState(s) \in State
    /\ pipelineRank[selState("restoring")] < 4
    /\ pipelineRank[selState("restore-done")] < 5
    /\ pipelineRank[selState("error")] < 4
<1>1. \A s \in State : pipelineRank[s] \in 0..7
  BY DEF pipelineRank, State
<1>2. \A s \in {"preflighting", "preflight-ok", "restoring", "error"} : pipelineRank[s] < 4
  BY DEF pipelineRank, State
<1>3. pipelineRank["rebooting"] < 5
  BY DEF pipelineRank, State
<1>4. \A s \in Status : selState(s) \in State
  BY DEF selState, Status, State
<1>5. selState("restoring") = "restoring" /\ selState("restore-done") = "rebooting"
      /\ selState("error") = "error"
  BY DEF selState
<1> QED BY <1>1, <1>2, <1>3, <1>4, <1>5

(* Every agent's step is truthful about its node. *)
LEMMA AgentNewsStep ==
    ASSUME TypeOK, NEW n \in Nodes, AgentStep(n) PROVE AgentNews(n)
<1> USE DEF TypeOK, RecTypeOK, NodeTypeOK, BmcTypeOK
<1>0. PICK d \in BOOLEAN, b \in BOOLEAN :
         \/ PreflightCheckin(n, d, b) \/ PreflightRound(n, d, b)
         \/ AgentSetReady(n, d, b)
         \/ InBandCheckin(n, d, b) \/ InBandReport(n, d, b)
         \/ AgentRestore(n, d) \/ AgentRestored(n, d) \/ AgentUp(n, d)
         \/ AgentApplied(n, d) \/ AgentApplyFailed(n, d)
         \/ InBandApply(n, d)
         \/ AgentReboot(n) \/ AgentApply(n) \/ AgentApplyReboot(n) \/ AgentInBand(n)
  BY DEF AgentStep, Delivery
<1>1. ASSUME NEW s2, SetState(s2), \A k \in Nodes : k # n => s2[k] = st[k]
      PROVE  /\ \A k \in Nodes : k # n => st'[k] = st[k]
             /\ st'[n] = st[n] \/ st'[n] = s2[n]
  BY <1>1 DEF SetState
<1>2. ASSUME NEW s, WriteStatus(n, s)
      PROVE  /\ \A k \in Nodes : k # n => oob'[k] = oob[k]
             /\ oob'[n] = oob[n] \/ oob'[n] = s
  BY <1>2 DEF WriteStatus
<1>3. CASE PreflightCheckin(n, d, b) \/ PreflightRound(n, d, b)
  <2>1. oob' = oob
    BY <1>3 DEF PreflightCheckin, PreflightRound
  <2>2. \/ st' = st
        \/ SetState(PreflightProgress(n))
        \/ \E x \in {"preflighting", "preflight-ok"} : SetState([st EXCEPT ![n] = x])
    BY <1>3 DEF PreflightCheckin, PreflightRound, PreflightReport
  <2>3. /\ \A k \in Nodes : k # n => st'[k] = st[k]
        /\ st'[n] = st[n] \/ st'[n] \in {"preflighting", "preflight-ok"}
    BY <2>2 DEF SetState, PreflightProgress
  <2> QED BY <2>1, <2>3, Ranks DEF AgentNews, Fresh
<1>4. CASE AgentRestore(n, d)
  <2>1. SetState(greenLit(n)) \/ SetState(st)
    BY <1>4 DEF AgentRestore
  <2>2. /\ \A k \in Nodes : k # n => st'[k] = st[k]
        /\ st'[n] = st[n] \/ st'[n] \in {"restoring", "preflight-ok"}
    BY <2>1 DEF SetState, greenLit
  <2>3. oob' = oob \/ WriteStatus(n, "restoring")
    BY <1>4 DEF AgentRestore
  <2>4. /\ \A k \in Nodes : k # n => oob'[k] = oob[k]
        /\ oob'[n] = oob[n] \/ oob'[n] = "restoring"
    BY <1>2, <2>3
  <2>5. "restoring" \in Status
    BY DEF Status
  <2> QED BY <2>2, <2>4, <2>5, Ranks DEF AgentNews, Fresh
<1>5. CASE AgentRestored(n, d)
  <2>1. ag'[n] = "restored" /\ WriteStatus(n, "restore-done")
    BY <1>5 DEF AgentRestored
  <2>2. SetState(RestoreDone(n)) \/ SetState(st)
    BY <1>5 DEF AgentRestored
  <2>3. /\ \A k \in Nodes : k # n => st'[k] = st[k]
        /\ st'[n] = st[n] \/ st'[n] = "rebooting"
    BY <2>2 DEF SetState, RestoreDone
  <2>4. "restore-done" \in Status
    BY DEF Status
  <2> QED BY <1>2, <2>1, <2>3, <2>4, Ranks DEF AgentNews, Fresh
<1>6. CASE AgentApplyFailed(n, d)
  <2>1. SetState([st EXCEPT ![n] = "error"]) \/ SetState(st)
    BY <1>6 DEF AgentApplyFailed
  <2>2. /\ \A k \in Nodes : k # n => st'[k] = st[k]
        /\ st'[n] = st[n] \/ st'[n] = "error"
    BY <2>1 DEF SetState
  <2>3. oob' = [oob EXCEPT ![n] = "error"] /\ "error" \in Status
    BY <1>6 DEF AgentApplyFailed, Status
  <2> QED BY <2>2, <2>3, Ranks DEF AgentNews, Fresh
<1>7. CASE AgentReboot(n) \/ AgentApplyReboot(n) \/ AgentInBand(n)
  BY <1>7 DEF AgentReboot, AgentApplyReboot, AgentInBand, inBandUnch, AgentNews
<1>8. CASE AgentUp(n, d) \/ AgentApply(n) \/ AgentApplied(n, d) \/ AgentSetReady(n, d, b)
  <2>1. ag[n] \notin Installing \cup {"restored"} /\ ag'[n] \notin NotUp
    BY <1>8 DEF AgentUp, AgentApply, AgentApplied, AgentSetReady, Installing, NotUp
  <2>2. \/ st' = st
        \/ SetState(cameUp(n)) \/ SetState(st) \/ SetState([st EXCEPT ![n] = "done"])
    BY <1>8 DEF AgentUp, AgentApply, AgentApplied, AgentSetReady
  <2>3. \A k \in Nodes : k # n => st'[k] = st[k]
    BY <2>2 DEF SetState, cameUp, ApplyStarted, WaitForMaster
  <2>4. \/ \E x \in {"rebooted", "applying", "applied", "ready-ok"} : WriteStatus(n, x)
        \/ oob' = [oob EXCEPT ![n] = "ready-error"]
    BY <1>8 DEF AgentUp, AgentApply, AgentApplied, AgentSetReady
  <2>5. /\ \A k \in Nodes : k # n => oob'[k] = oob[k]
        /\ oob'[n] = oob[n] \/ oob'[n] \in Status
    BY <1>2, <2>4 DEF Status
  <2> QED BY <2>1, <2>3, <2>5 DEF AgentNews, Fresh
<1>9. CASE InBandCheckin(n, d, b) \/ InBandApply(n, d) \/ InBandReport(n, d, b)
  <2>1. ag[n] \notin Installing \cup {"restored"} /\ ag'[n] \notin NotUp
    BY <1>9 DEF InBandCheckin, InBandApply, InBandReport, Installing, NotUp
  <2>2. oob' = oob
    BY <1>9 DEF InBandCheckin, InBandApply, InBandReport, inBandUnch
  <2>3. \/ st' = st
        \/ SetState(CheckedIn(n))
        \/ \E x \in {"net-preflight", "applying", "done", "error"} : SetState([st EXCEPT ![n] = x])
    BY <1>9 DEF InBandCheckin, InBandApply, InBandReport
  <2>4. \A k \in Nodes : k # n => st'[k] = st[k]
    BY <2>3 DEF SetState, CheckedIn
  <2> QED BY <2>1, <2>2, <2>4 DEF AgentNews, Fresh
<1> QED BY <1>0, <1>3, <1>4, <1>5, <1>6, <1>7, <1>8, <1>9

(* Where node n may be after a step that leaves the deploy's step alone.   *)
PhaseKept(n) ==
    /\ step < StepReboot => ag'[n] \in Installing \cup {"restored"}
    /\ step < StepApplyMaster /\ n \notin released /\ snap'[n] =>
          ag'[n] \notin {"applying", "waitready", "finished", "failed"}
    /\ ag'[n] \in {"checkin", "hold"} => ~snap'[n]
    /\ Forward(n)

(* An agent passes the two barriers through their gates. *)
LEMMA AgentPhases ==
    ASSUME TypeOK, GatesDue, PhasesDue, NEW n \in Nodes, AgentStep(n)
    PROVE  /\ \A k \in Nodes : k # n => ag'[k] = ag[k] /\ snap'[k] = snap[k]
           /\ PhaseKept(n)
<1> USE DEF TypeOK, NodeTypeOK
<1>0. PICK d \in BOOLEAN, b \in BOOLEAN :
         \/ PreflightCheckin(n, d, b) \/ PreflightRound(n, d, b)
         \/ AgentSetReady(n, d, b)
         \/ InBandCheckin(n, d, b) \/ InBandReport(n, d, b)
         \/ AgentRestore(n, d) \/ AgentRestored(n, d) \/ AgentUp(n, d)
         \/ AgentApplied(n, d) \/ AgentApplyFailed(n, d)
         \/ InBandApply(n, d)
         \/ AgentReboot(n) \/ AgentApply(n) \/ AgentApplyReboot(n) \/ AgentInBand(n)
  BY DEF AgentStep, Delivery
<1>1. /\ step < StepReboot => ag[n] \in Installing \cup {"restored"}
      /\ step < StepApplyMaster /\ n \notin released /\ snap[n] =>
            ag[n] \notin {"applying", "waitready", "finished", "failed"}
      /\ ag[n] \in {"checkin", "hold"} => ~snap[n]
      /\ REBOOT \in Present(n) => step >= StepReboot
      /\ APPLY \in Present(n) => step >= StepApplyMaster \/ n \in released
  BY DEF PhasesDue, GatesDue, Due
<1>2. step \in Nat
  BY DEF RecTypeOK
<1> DEFINE Others == \A k \in Nodes : k # n => ag'[k] = ag[k] /\ snap'[k] = snap[k]
<1> USE DEF PhaseKept, Forward, Installing, NotUp, StepReboot, StepApplyMaster
<1>3. CASE PreflightCheckin(n, d, b) \/ PreflightRound(n, d, b)
  <2>1. ag[n] \in {"pxe", "preflight"} /\ ag'[n] \in {"pxe", "preflight", "passed"}
    BY <1>3 DEF PreflightCheckin, PreflightRound
  <2>2. Others
    BY <1>3 DEF PreflightCheckin, PreflightRound
  <2> QED BY <2>1, <2>2
<1>4. CASE AgentRestore(n, d) \/ AgentRestored(n, d)
  <2>1. /\ ag[n] \in {"passed", "restoring"}
        /\ ag'[n] \in {"preflight", "restoring", "restored"}
        /\ Others
    BY <1>4 DEF AgentRestore, AgentRestored
  <2> QED BY <2>1
<1>5. CASE AgentReboot(n)
  <2>1. ag[n] = "restored" /\ ag'[n] \in {"osboot", "pxe"} /\ REBOOT \in Present(n) /\ Others
    BY <1>5 DEF AgentReboot
  <2> QED BY <1>1, <1>2, <2>1
<1>6. CASE AgentUp(n, d) \/ AgentInBand(n)
  <2>1. /\ ag[n] = "osboot" /\ snap' = snap /\ Others
        /\ ag'[n] = "waitapply" \/ (ag'[n] = "checkin" /\ ~snap[n])
    BY <1>6 DEF AgentUp, AgentInBand, inBandUnch
  <2> QED BY <1>1, <1>2, <2>1
<1>7. CASE AgentApply(n)
  <2>1. /\ ag[n] = "waitapply" /\ ag'[n] = "applying" /\ snap' = snap
        /\ APPLY \in Present(n) /\ Others
    BY <1>7 DEF AgentApply
  <2> QED BY <1>1, <1>2, <2>1
<1>8. CASE AgentApplied(n, d) \/ AgentApplyFailed(n, d) \/ AgentApplyReboot(n)
  <2>1. ag[n] = "applying" /\ snap[n] /\ snap' = snap /\ Others
        /\ ag'[n] \in {"waitready", "finished", "failed", "osboot", "pxe"}
    BY <1>8 DEF AgentApplied, AgentApplyFailed, AgentApplyReboot
  <2>2. step >= StepApplyMaster \/ n \in released
    BY <1>1, <1>2, <2>1
  <2>3. ~(step < StepReboot)
    BY <1>1, <2>1
  <2> QED BY <1>2, <2>1, <2>2, <2>3
<1>9. CASE AgentSetReady(n, d, b)
  <2>1. ag[n] = "waitready" /\ ag'[n] = "finished" /\ snap' = snap /\ Others
    BY <1>9 DEF AgentSetReady
  <2> QED BY <1>1, <1>2, <2>1
<1>10. CASE InBandCheckin(n, d, b) \/ InBandApply(n, d)
  <2>1. /\ ag[n] \in {"checkin", "hold"} /\ snap' = snap /\ Others
        /\ ag'[n] \in {"checkin", "hold", "applying"}
    BY <1>10 DEF InBandCheckin, InBandApply, inBandUnch
  <2> QED BY <1>1, <1>2, <2>1
<1>11. CASE InBandReport(n, d, b)
  <2>1. /\ ag[n] = "applying" /\ ~snap[n] /\ snap' = snap /\ Others
        /\ ag'[n] \in {"finished", "checkin"}
    BY <1>11 DEF InBandReport, inBandUnch
  <2> QED BY <1>1, <1>2, <2>1
<1> QED BY <1>0, <1>3, <1>4, <1>5, <1>6, <1>7, <1>8, <1>9, <1>10, <1>11

(* In a first run nodes move on, past the barriers only through a gate.    *)
LEMMA PhasesStep ==
    ASSUME TypeOK, TypeOK', RolloutInv, FirstRun, GatesDue, PhasesDue, Next,
           step <= step', released \subseteq released'
    PROVE  PhasesDue' /\ \A n \in Nodes : Forward(n)
<1> USE DEF TypeOK, NodeTypeOK, RunTypeOK
<1>1. \A n \in Nodes : ag'[n] = ag[n] /\ snap'[n] = snap[n] => PhaseKept(n)
  BY DEF PhasesDue, PhaseKept, Forward
<1>2. ASSUME UNCHANGED nodeVars
      PROVE  \A k \in Nodes : PhaseKept(k)
  BY <1>1, <1>2 DEF nodeVars
<1>3. ASSUME NEW g \in Runs, NEW n \in Nodes, RunPowerCycle(g, n)
      PROVE  \A k \in Nodes : PhaseKept(k)
  <2>1. startPc[g] = "up" /\ rn[g][n] = "power"
    BY <1>3 DEF RunPowerCycle, RunAt
  <2>2. ag[n] = "off"
    BY <2>1 DEF RolloutInv, Started, Unpowered
  <2>3. /\ snap' = snap
        /\ \A k \in Nodes : k # n => ag'[k] = ag[k]
        /\ ag'[n] \in {"off", "pxe"}
    BY <1>3, <2>2 DEF RunPowerCycle, PowerCycled, nodeVars
  <2>4. PhaseKept(n)
    BY <2>2, <2>3 DEF PhaseKept, Forward, Installing, NotUp
  <2> QED BY <1>1, <2>3, <2>4
<1>4. ASSUME NEW n \in Nodes, AgentStep(n)
      PROVE  \A k \in Nodes : PhaseKept(k)
  BY <1>1, <1>4, AgentPhases
<1>5. \A k \in Nodes : PhaseKept(k)
  BY <1>1, <1>2, <1>3, <1>4, NodeMoves DEF nodeVars
<1>6. step \in Nat /\ step' \in Nat
  BY DEF RecTypeOK
<1>7. PhasesDue'
  <2> SUFFICES ASSUME NEW n \in Nodes
               PROVE  /\ step' < StepReboot => ag'[n] \in Installing \cup {"restored"}
                      /\ step' < StepApplyMaster /\ n \notin released' /\ snap'[n] =>
                            ag'[n] \notin {"applying", "waitready", "finished", "failed"}
                      /\ ag'[n] \in {"checkin", "hold"} => ~snap'[n]
    BY DEF PhasesDue
  <2>1. /\ step' < StepReboot => step < StepReboot
        /\ step' < StepApplyMaster => step < StepApplyMaster
    BY <1>6 DEF StepReboot, StepApplyMaster
  <2> QED BY <1>5, <2>1 DEF PhaseKept
<1> QED BY <1>5, <1>7 DEF PhaseKept

(* The news of the other steps: a state of low rank, what a poll read, and *)
(* what the SEL holds.                                                     *)
OldNews ==
    /\ \A n \in Nodes : \/ st'[n] = st[n] \/ (st'[n] \in State /\ pipelineRank[st'[n]] < 4)
                        \/ \E o \in obs : o.node = n /\ st'[n] = selState(o.status)
    /\ \A n \in Nodes : oob'[n] = oob[n] \/ oob'[n] = NoStatus
    /\ \A o \in obs' : o \in obs \/ (oob[o.node] # NoStatus /\ o.status = oob[o.node])

(* Only the agents have anything new to tell. *)
LEMMA NewsMoves ==
    ASSUME TypeOK, Next, \A b \in Modes : ~Start(b)
    PROVE  (\E n \in Nodes : AgentStep(n)) \/ OldNews
<1> USE DEF TypeOK, RecTypeOK, BmcTypeOK, OldNews
<1>1. ASSUME st' = st, obs' \subseteq obs,
             \A n \in Nodes : oob'[n] = oob[n] \/ oob'[n] = NoStatus
      PROVE  OldNews
  BY <1>1
<1>2. ASSUME NEW g \in Runs, StartStep(g)
      PROVE  OldNews
  <2>1. ASSUME NEW n \in Nodes, StartClear(g, n)
        PROVE  OldNews
    BY <1>1, <2>1 DEF StartClear, recVars, drvVars
  <2>2. CASE StartArm(g) \/ StartFlip(g)
    BY <1>1, <2>2 DEF StartArm, StartFlip, bmcVars
  <2> QED BY <1>2, <2>1, <2>2 DEF StartStep
<1>3. ASSUME NEW g \in Runs, NEW n \in Nodes, RunStep(g, n)
      PROVE  OldNews
  <2> DEFINE Low == {"bmc-preflight", "set-boot-pxe", "power-cycle", "netbooting",
                     "imaging", "imaged", "error"}
  <2>1. UNCHANGED <<oob, obs>>
    BY <1>3 DEF RunStep, RunBegin, RunPreflight, RunSetBootPXE, RunPowerCycle, RunPoll,
                runUnch, drvVars
  <2>2. st' = st \/ \E s \in Low : SetState(Advanced(n, s))
    BY <1>3 DEF RunStep, RunBegin, RunPreflight, RunSetBootPXE, RunPowerCycle, RunPoll
  <2>3. \A k \in Nodes : st'[k] = st[k] \/ st'[k] \in Low
    BY <2>2 DEF SetState, Advanced
  <2>4. \A s \in Low : s \in State /\ pipelineRank[s] < 4
    BY DEF State, pipelineRank
  <2> HIDE DEF Low
  <2> QED BY <2>1, <2>3, <2>4
<1>4. ASSUME \/ \E w \in wr : GateWrite(w) \/ GateAck(w)
             \/ \E g \in Runs, n \in Nodes : Reconcile(g, n)
             \/ \E n \in Nodes : SelLost(n)
      PROVE  OldNews
  <2>1. UNCHANGED <<st, obs>>
    BY <1>4 DEF GateWrite, GateAck, Reconcile, SelLost, gateUnch
  <2>2. oob' = oob \/ \E n : oob' = [oob EXCEPT ![n] = NoStatus]
    BY <1>4 DEF GateWrite, GateAck, Reconcile, SelLost
  <2> QED BY <1>1, <2>1, <2>2
<1>5. ASSUME NEW g \in Runs, NEW n \in Nodes, PollObserve(g, n)
      PROVE  OldNews
  <2> DEFINE x == [run |-> g, node |-> n, status |-> oob[n]]
  <2>1. UNCHANGED <<st, oob>> /\ obs' = obs \cup {x} /\ oob[n] # NoStatus
    BY <1>5 DEF PollObserve, pollUnch, recVars, bmcVars
  <2>2. x.node = n /\ x.status = oob[n]
    OBVIOUS
  <2> HIDE DEF x
  <2> QED BY <2>1, <2>2
<1>6. ASSUME NEW o \in obs, PollMerge(o)
      PROVE  OldNews
  <2>1. oob' = oob /\ obs' \subseteq obs /\ o.node \in Nodes
    BY <1>6 DEF PollMerge, pollUnch, bmcVars, DrvTypeOK, Observation
  <2>2. st' = st \/ SetState([st EXCEPT ![o.node] = Merged(st[o.node], o.status)])
    BY <1>6 DEF PollMerge
  <2>3. Merged(st[o.node], o.status) \in {st[o.node], selState(o.status)}
    BY DEF Merged
  <2>4. \A n \in Nodes : st'[n] = st[n] \/ (n = o.node /\ st'[n] = selState(o.status))
    BY <2>1, <2>2, <2>3 DEF SetState
  <2> QED BY <2>1, <2>4
<1>7. ASSUME \/ \E g \in Runs : PollEnd(g)
             \/ \E c \in pend : HandOff(c)
             \/ \E g \in vf, ok \in BOOLEAN : VerifyEnd(g, ok)
      PROVE  OldNews
  <2>1. UNCHANGED <<st, oob, obs>>
    BY <1>7 DEF PollEnd, HandOff, VerifyEnd, pollUnch, recVars, bmcVars
  <2> QED BY <1>1, <2>1
<1>8. ASSUME NEW n \in Nodes, StampBootDisk(n) \/ StampGivesUp(n) \/ ReleaseNode(n)
      PROVE  OldNews
  <2>1. UNCHANGED <<st, oob, obs>>
    BY <1>8 DEF StampBootDisk, StampGivesUp, ReleaseNode, operUnch, agentUnch, reportUnch,
                bmcVars
  <2> QED BY <1>1, <2>1
<1>9. ASSUME Cancel \/ \E n \in Nodes : RekickPreflight(n)
      PROVE  OldNews
  <2>1. UNCHANGED <<oob, obs>>
    BY <1>9 DEF Cancel, RekickPreflight, operUnch, bmcVars
  <2>2. \A n \in Nodes : st'[n] = st[n] \/ st'[n] \in {"error", "preflighting"}
    BY <1>9 DEF Cancel, RekickPreflight, SetState
  <2>3. \A s \in {"error", "preflighting"} : s \in State /\ pipelineRank[s] < 4
    BY DEF State, pipelineRank
  <2> QED BY <2>1, <2>2, <2>3
<1>10. ASSUME AdvanceStep \/ DriverRestart
       PROVE  OldNews
  <2>1. UNCHANGED <<st, oob>> /\ obs' \subseteq obs
    BY <1>10 DEF AdvanceStep, DriverRestart, operUnch, bmcVars
  <2> QED BY <1>1, <2>1
<1> QED
  BY <1>2, <1>3, <1>4, <1>5, <1>6, <1>7, <1>8, <1>9, <1>10 DEF Next

(* In a first run the record, the SEL and a poll stay truthful about how   *)
(* far the nodes are.                                                      *)
LEMMA ReachedStep ==
    ASSUME TypeOK, TypeOK', PhasesDue, ReachedIsReal, Next, \A b \in Modes : ~Start(b),
           step <= step', released \subseteq released', \A n \in Nodes : Forward(n)
    PROVE  ReachedIsReal'
<1> USE DEF TypeOK, RecTypeOK, BmcTypeOK
<1>1. /\ \A n \in Nodes : pipelineRank[st[n]] \in Int /\ pipelineRank[st'[n]] \in Int
      /\ \A s \in Status : pipelineRank[selState(s)] \in Int
  BY Ranks
<1> DEFINE TellsNext(n, r) ==
             /\ r >= 4 /\ step' < StepReboot => ag'[n] = "restored"
             /\ r >= 5 /\ step' < StepApplyMaster /\ n \notin released' => ag'[n] \notin NotUp
<1>2. \A n \in Nodes : \A r \in Int : Tells(n, r) \/ Fresh(n, r) => TellsNext(n, r)
  BY TellsStill DEF Tells
<1>3. /\ \A n \in Nodes : TellsNext(n, pipelineRank[st'[n]])
      /\ \A n \in Nodes : oob'[n] # NoStatus => TellsNext(n, pipelineRank[selState(oob'[n])])
      /\ \A o \in obs' : TellsNext(o.node, pipelineRank[selState(o.status)])
      => ReachedIsReal'
  BY DEF ReachedIsReal, Tells
<1> HIDE DEF TellsNext
<1>4. \A o \in obs : o.node \in Nodes /\ o.status \in Status
  BY DEF DrvTypeOK, Observation
<1>5. \A n \in Nodes : oob[n] # NoStatus => oob[n] \in Status
  OBVIOUS
<1>6. ASSUME NEW n \in Nodes, AgentStep(n)
      PROVE  ReachedIsReal'
  <2>1. AgentNews(n)
    BY <1>6, AgentNewsStep
  <2>2. obs' = obs
    BY <1>6 DEF AgentStep, PreflightCheckin, PreflightRound, AgentSetReady, InBandCheckin,
                InBandReport, AgentRestore, AgentRestored, AgentUp, AgentApplied,
                AgentApplyFailed, InBandApply, AgentReboot, AgentApply, AgentApplyReboot,
                AgentInBand, inBandUnch, agentUnch
  <2>3. \A k \in Nodes : TellsNext(k, pipelineRank[st'[k]])
    <3> SUFFICES ASSUME NEW k \in Nodes PROVE TellsNext(k, pipelineRank[st'[k]])
      OBVIOUS
    <3>1. Tells(k, pipelineRank[st'[k]]) \/ Fresh(k, pipelineRank[st'[k]])
      BY <2>1 DEF AgentNews, ReachedIsReal
    <3> QED BY <1>1, <1>2, <3>1
  <2>4. \A k \in Nodes : oob'[k] # NoStatus => TellsNext(k, pipelineRank[selState(oob'[k])])
    <3> SUFFICES ASSUME NEW k \in Nodes, oob'[k] # NoStatus
                 PROVE  TellsNext(k, pipelineRank[selState(oob'[k])])
      OBVIOUS
    <3>1. \/ Tells(k, pipelineRank[selState(oob'[k])])
          \/ Fresh(k, pipelineRank[selState(oob'[k])])
      BY <2>1 DEF AgentNews, ReachedIsReal
    <3> QED BY <1>1, <1>2, <3>1
  <2>5. \A o \in obs' : TellsNext(o.node, pipelineRank[selState(o.status)])
    BY <1>1, <1>2, <1>4, <2>2 DEF ReachedIsReal
  <2> QED BY <1>3, <2>3, <2>4, <2>5
<1>7. CASE OldNews
  <2>1. \A k \in Nodes : TellsNext(k, pipelineRank[st'[k]])
    <3> SUFFICES ASSUME NEW k \in Nodes PROVE TellsNext(k, pipelineRank[st'[k]])
      OBVIOUS
    <3>1. Tells(k, pipelineRank[st'[k]]) \/ Fresh(k, pipelineRank[st'[k]])
      BY <1>7 DEF OldNews, ReachedIsReal, Fresh
    <3> QED BY <1>1, <1>2, <3>1
  <2>2. \A k \in Nodes : oob'[k] # NoStatus => TellsNext(k, pipelineRank[selState(oob'[k])])
    BY <1>1, <1>2, <1>5, <1>7 DEF OldNews, ReachedIsReal
  <2>3. \A o \in obs' : TellsNext(o.node, pipelineRank[selState(o.status)])
    <3> SUFFICES ASSUME NEW o \in obs'
                 PROVE  TellsNext(o.node, pipelineRank[selState(o.status)])
      OBVIOUS
    <3>1. o.node \in Nodes /\ o.status \in Status
      BY DEF DrvTypeOK, Observation
    <3>2. Tells(o.node, pipelineRank[selState(o.status)])
      BY <1>7, <3>1 DEF OldNews, ReachedIsReal
    <3> QED BY <1>1, <1>2, <3>1, <3>2
  <2> QED BY <1>3, <2>1, <2>2, <2>3
<1> QED BY <1>6, <1>7, NewsMoves

(* A run keeps its mode. *)
LEMMA ModeKept ==
    ASSUME Next, \A b \in Modes : ~Start(b)
    PROVE  runMode' = runMode
<1>1. ASSUME NEW g \in Runs, NEW n \in Nodes, RunStep(g, n)
      PROVE  runMode' = runMode
  BY <1>1 DEF RunStep, RunBegin, RunPreflight, RunSetBootPXE, RunPowerCycle, RunPoll, runUnch
<1>2. ASSUME NEW g \in Runs, StartStep(g)
      PROVE  runMode' = runMode
  BY <1>2 DEF StartStep, StartClear, StartArm, StartFlip
<1>3. ASSUME NEW w \in wr, GateWrite(w) \/ GateAck(w)
      PROVE  runMode' = runMode
  BY <1>3 DEF GateWrite, GateAck, gateUnch, runVars
<1>4. ASSUME NEW g \in Runs, NEW n \in Nodes, Reconcile(g, n) \/ PollObserve(g, n)
      PROVE  runMode' = runMode
  BY <1>4 DEF Reconcile, PollObserve, gateUnch, pollUnch, runVars
<1>5. ASSUME NEW n \in Nodes, SelLost(n) \/ StampBootDisk(n) \/ StampGivesUp(n)
      PROVE  runMode' = runMode
  BY <1>5 DEF SelLost, StampBootDisk, StampGivesUp, gateUnch, agentUnch, runVars
<1>6. ASSUME \/ \E o \in obs : PollMerge(o)
             \/ \E g \in Runs : PollEnd(g)
             \/ \E c \in pend : HandOff(c)
             \/ \E g \in vf, ok \in BOOLEAN : VerifyEnd(g, ok)
      PROVE  runMode' = runMode
  BY <1>6 DEF PollMerge, PollEnd, HandOff, VerifyEnd, pollUnch, runVars
<1>7. ASSUME NEW n \in Nodes, AgentStep(n)
      PROVE  runMode' = runMode
  BY <1>7 DEF AgentStep, PreflightCheckin, PreflightRound, AgentSetReady, InBandCheckin,
              InBandReport, AgentRestore, AgentRestored, AgentUp, AgentApplied,
              AgentApplyFailed, InBandApply, AgentReboot, AgentApply, AgentApplyReboot,
              AgentInBand, inBandUnch, agentUnch, runVars
<1>8. ASSUME \/ AdvanceStep \/ Cancel \/ DriverRestart
             \/ \E n \in Nodes : RekickPreflight(n) \/ ReleaseNode(n)
      PROVE  runMode' = runMode
  BY <1>8 DEF AdvanceStep, Cancel, DriverRestart, RekickPreflight, ReleaseNode, operUnch
<1> QED
  BY <1>1, <1>2, <1>3, <1>4, <1>5, <1>6, <1>7, <1>8 DEF Next

(* Only "Next" moves the step of a record. *)
LEMMA StepMoves ==
    ASSUME TypeOK, Next, \A b \in Modes : ~Start(b)
    PROVE  step' = step \/ AdvanceStep
<1>1. CASE Aside
  BY <1>1 DEF Aside
<1>2. ASSUME NEW g \in Runs, StartStep(g)
      PROVE  step' = step
  BY <1>2 DEF StartStep, StartClear, StartArm, StartFlip, recVars
<1>3. CASE \/ \E w \in wr : GateWrite(w) \/ GateAck(w)
           \/ \E g \in Runs, n \in Nodes : Reconcile(g, n)
           \/ \E n \in Nodes : SelLost(n)
  BY <1>3 DEF GateWrite, GateAck, Reconcile, SelLost, gateUnch
<1>4. CASE \/ \E n \in Nodes : ReleaseNode(n)
           \/ \E c \in pend : HandOff(c)
           \/ DriverRestart
  BY <1>4 DEF ReleaseNode, HandOff, DriverRestart
<1> QED BY <1>1, <1>2, <1>3, <1>4, AsideOr

(* NextInv is inductive, next to the types and the rollout invariant. *)
LEMMA NextInv_Next ==
    ASSUME TypeOK, TypeOK', RolloutInv, Current, NextInv, [Next]_vars
    PROVE  NextInv'
<1> SUFFICES ASSUME FirstRun', Manual'
             PROVE  GatesDue' /\ PhasesDue' /\ ReachedIsReal'
  BY DEF NextInv
<1>1. ASSUME NEW b \in Modes, Start(b)
      PROVE  GatesDue' /\ PhasesDue' /\ ReachedIsReal'
  <2>1. gen = 0
    BY <1>1, Bounds DEF Start, FirstRun, TypeOK, RunTypeOK
  <2>2. /\ wr = {} /\ obs = {}
        /\ \A n \in Nodes : ag[n] = "off" /\ sel[n] = {} /\ oob[n] = NoStatus
    BY <2>1 DEF RolloutInv, Pristine
  <2>3. /\ UNCHANGED <<wr, obs, sel, oob, ag>>
        /\ \A n \in Nodes : st'[n] = "pending" /\ ledger'[n] = {}
    BY <1>1 DEF Start, bmcVars, nodeVars
  <2>4. GatesDue'
    BY <2>2, <2>3 DEF GatesDue, Present
  <2>5. PhasesDue'
    BY <2>2, <2>3 DEF PhasesDue, Installing
  <2>6. pipelineRank["pending"] = 0
    BY DEF pipelineRank, State
  <2>7. ReachedIsReal'
    BY <2>2, <2>3, <2>6 DEF ReachedIsReal, Tells
  <2> QED BY <2>4, <2>5, <2>7
<1>2. ASSUME Next, \A b \in Modes : ~Start(b)
      PROVE  GatesDue' /\ PhasesDue' /\ ReachedIsReal'
  <2>1. Keeps
    BY <1>2, StepKeeps
  <2>2. FirstRun /\ Manual
    BY <1>2, <2>1, ModeKept DEF Keeps, FirstRun, Manual
  <2>3. GatesDue /\ PhasesDue /\ ReachedIsReal
    BY <2>2 DEF NextInv
  <2>4. released \subseteq released'
    BY <1>2, ReleasedGrows
  <2>5. step <= step'
    BY <1>2, StepMoves DEF AdvanceStep, TypeOK, RecTypeOK
  <2>6. GatesDue'
    BY <1>2, <2>2, <2>3, GatesDueStep DEF RolloutInv
  <2>7. PhasesDue' /\ \A n \in Nodes : Forward(n)
    BY <1>2, <2>2, <2>3, <2>4, <2>5, PhasesStep
  <2>8. ReachedIsReal'
    BY <1>2, <2>3, <2>4, <2>5, <2>7, ReachedStep
  <2> QED BY <2>6, <2>7, <2>8
<1>3. CASE UNCHANGED vars
  <2>1. UNCHANGED <<gen, reg, runMode, step, st, ledger, wr, obs, sel, oob, ag, snap, released>>
    BY <1>3 DEF vars, runVars, recVars, drvVars, bmcVars, nodeVars, histVars
  <2>2. FirstRun /\ Manual
    BY <2>1 DEF FirstRun, Manual
  <2> QED BY <2>1, <2>2 DEF NextInv, GatesDue, PhasesDue, ReachedIsReal, Due, Tells, Present
<1> QED BY <1>1, <1>2, <1>3

(* In a first run "Next" is accepted only when the nodes themselves have   *)
(* finished the step before: the record, the SEL's status and what a poll  *)
(* read never run ahead of a node, so canAdvance decides on true news      *)
(* whatever reports get lost or come late.                                 *)
THEOREM NextIsSafeAlways == ASSUME Master \in Nodes PROVE Spec => NextIsSafe
<1>1. Init => NextInv
  BY DEF Init, NextInv, Manual
<1>2. TypeOK /\ TypeOK' /\ RolloutInv /\ Current /\ NextInv /\ [Next]_vars => NextInv'
  BY NextInv_Next
<1>3. Spec => []NextInv
  BY <1>1, <1>2, TypeCorrect, RolloutInvariant, CurrentAlways, PTL DEF Spec
<1> DEFINE Accepted ==
      FirstRun /\ reg' = reg /\ step' # step =>
         /\ step = StepRestore => \A n \in Nodes : ag[n] \notin
                {"off", "pxe", "preflight", "passed", "restoring"}
         /\ step = StepReboot => \A n \in Nodes \ released : ag[n] \notin
                {"off", "pxe", "preflight", "passed", "restoring", "restored", "osboot"}
         /\ step = StepApplyMaster => Master \in Applied
         /\ step = StepApplyRest => Applied = Nodes
<1>4. TypeOK /\ RolloutInv /\ Current /\ NextInv /\ [Next]_vars => Accepted \/ UNCHANGED vars
  <2> SUFFICES ASSUME TypeOK, RolloutInv, Current, NextInv, Next,
                      FirstRun, reg' = reg, step' # step
               PROVE  Accepted
    OBVIOUS
  <2>1. \A b \in Modes : ~Start(b)
    BY Bounds DEF Start, Current, TypeOK, RunTypeOK, RecTypeOK
  <2>2. AdvanceStep
    BY <2>1, StepMoves
  <2>3. Manual /\ canAdvance /\ reg # 0
    BY <2>2 DEF AdvanceStep, Manual
  <2>4. ReachedIsReal /\ NewsSound
    BY <2>3 DEF NextInv, RolloutInv
  <2>5. \A n \in Nodes : st[n] \in State /\ pipelineRank[st[n]] \in Int
    BY Ranks DEF TypeOK, RecTypeOK
  <2>6. CASE step = 2
    <3>1. \A n \in Nodes : pipelineRank[st[n]] >= 4
      BY <2>3, <2>6 DEF canAdvance, allReached, StepPreflight, StepRestore, StepReboot,
                        StepApplyMaster, StepApplyRest
    <3>2. \A n \in Nodes : ag[n] = "restored"
      BY <2>4, <2>6, <3>1 DEF ReachedIsReal, Tells, StepReboot
    <3> QED BY <2>6, <3>2 DEF StepRestore, StepReboot, StepApplyMaster, StepApplyRest
  <2>7. CASE step = 3
    <3>1. \A n \in Nodes : pipelineRank[st[n]] >= 5
      BY <2>3, <2>7 DEF canAdvance, allReached, StepPreflight, StepRestore, StepReboot,
                        StepApplyMaster, StepApplyRest
    <3>2. \A n \in Nodes \ released : ag[n] \notin NotUp
      BY <2>4, <2>7, <3>1 DEF ReachedIsReal, Tells, StepApplyMaster
    <3> QED BY <2>7, <3>2 DEF NotUp, Installing, StepRestore, StepReboot, StepApplyMaster,
                              StepApplyRest
  <2>8. CASE step = 4
    <3>1. st[Master] = "done"
      BY <2>3, <2>8, DeployAssumption
         DEF canAdvance, masterDone, DeployAssumption, StepPreflight, StepRestore, StepReboot,
             StepApplyMaster, StepApplyRest
    <3>2. Master \in Applied
      BY <2>3, <2>4, <3>1 DEF NewsSound
    <3> QED BY <2>8, <3>2 DEF StepRestore, StepReboot, StepApplyMaster, StepApplyRest
  <2>9. CASE step = 5
    <3>1. \A n \in Nodes : pipelineRank[st[n]] >= 7
      BY <2>3, <2>9 DEF canAdvance, allReached, StepPreflight, StepRestore, StepReboot,
                        StepApplyMaster, StepApplyRest
    <3>2. \A n \in Nodes : st[n] = "done"
      BY <2>5, <3>1, RankDone
    <3>3. Applied = Nodes
      BY <2>3, <2>4, <3>2 DEF NewsSound, Applied
    <3> QED BY <2>9, <3>3 DEF StepRestore, StepReboot, StepApplyMaster, StepApplyRest
  <2> QED
    BY <2>6, <2>7, <2>8, <2>9 DEF StepRestore, StepReboot, StepApplyMaster, StepApplyRest
<1> QED
  BY <1>3, <1>4, TypeCorrect, RolloutInvariant, CurrentAlways, PTL DEF NextIsSafe, Spec
=============================================================================
