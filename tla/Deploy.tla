------------------------------- MODULE Deploy -------------------------------
(***************************************************************************)
(* The deploy of one cluster: the orchestrator's record and its goroutines *)
(* (start sequence, per-node IPMI stages, gate writers, gate reconciler,   *)
(* out-of-band poll, boot-to-disk stamping, reachability check), the BMC   *)
(* of each node (its SEL and its boot device), the phone-home agent that   *)
(* runs on each node, and the operator.                                    *)
(*                                                                         *)
(* A run is one call of Manager.Start. The code finds the record by        *)
(* cluster and host name only, so a goroutine of an earlier run acts on    *)
(* whatever record is registered when it gets to it; the run numbers that  *)
(* the model attaches to gate records, writers and agents are history,     *)
(* which no guard of the program reads.                                    *)
(***************************************************************************)
EXTENDS DeployStates, FiniteSets

CONSTANTS
    Nodes,            \* host names of the deploy
    Master,           \* the host whose apply must finish first, or NoMaster
    Modes,            \* the values of "manual" a Start may choose
    ManualGate,       \* the driver-wide --manual-gate switch
    Staged,           \* are the set_ready parameters staged on the master?
    PrefetchMayFail,  \* may the installer fail to pre-fetch the snapshot?
    Lossy,            \* the nodes whose HTTP reports may get lost
    SelPoll,          \* is the out-of-band poll of the SELs enabled?
    Observes,         \* the install stages the PXE server's log can show
    Operator,         \* the interventions enabled besides Start and Next
    MaxStarts,        \* bound on the calls of Start
    MaxFaults,        \* bound on the failures of the environment
    MaxRekicks,       \* bound on preflight re-runs
    MaxApplyReboots   \* the agent's bound on two-phase reboots

(* The empty name: the cluster has no node with a control function.        *)
NoMaster == ""

ASSUME DeployAssumption ==
    /\ NoMaster \notin Nodes
    /\ Modes \subseteq BOOLEAN
    /\ Lossy \subseteq Nodes
    /\ Observes \subseteq {"imaging", "imaged"}
    /\ {ManualGate, Staged, PrefetchMayFail, SelPoll} \subseteq BOOLEAN
    /\ Operator \subseteq {"cancel", "release", "rekick", "restart"}
    /\ {MaxStarts, MaxFaults, MaxRekicks, MaxApplyReboots} \subseteq Nat

VARIABLES
    gen,          \* runs started so far
    live,         \* runs whose context is not cancelled
    runMode,      \* run -> manual?
    startPc,      \* run -> where its Start call stands
    left,         \* run -> nodes whose SEL its Start has still to clear
    rn,           \* run -> node -> where its runNode goroutine stands
    reg,          \* the run whose record is registered (0: none)
    step,         \* its manual step
    st,           \* its nodes' states
    pf,           \* its nodes' installer preflight results
    rekick,       \* its nodes' re-run sequence numbers
    ledger,       \* its nodes' authorized gate stages
    ack,          \* its nodes' stages confirmed readable in the SEL
    srDone,       \* its set_ready finished
    clusterReady, \* its reachability check passed
    known,        \* are the nodes' BMC credentials in this process?
    ready,        \* the persisted set_ready result
    wr,           \* gate writes in flight
    obs,          \* status records read by a poll and not yet merged
    pend,         \* completions recorded whose hand-off is still to come
    polls,        \* runs whose out-of-band poll loop is running
    vf,           \* reachability checks in flight, by the run that began them
    stamp,        \* nodes whose boot device is being forced to disk
    sel,          \* node -> gate records <<stage, run>> in its BMC's SEL
    oob,          \* node -> the last status record an observer may return
    anchor,       \* node -> is the observer's floor 0, a record, or gone?
    boot,         \* node -> the device its BMC boots from
    ag,           \* node -> what runs on it
    agRun,        \* node -> the run whose power cycle booted it
    agMaster,     \* node -> the agent takes itself for the master
    snap,         \* node -> its snapshot was pre-fetched
    seen,         \* node -> re-run sequence number the agent has adopted (-1: none)
    rb,           \* node -> two-phase reboots so far
    everDone,     \* history: nodes that were done in the registered run
    released,     \* history: nodes the operator released in that run
    fault         \* failures of the environment so far

runVars  == <<gen, live, runMode, startPc, left, rn>>
recVars  == <<reg, step, st, pf, rekick, ledger, ack, srDone, clusterReady>>
drvVars  == <<known, ready, wr, obs, pend, polls, vf, stamp>>
bmcVars  == <<sel, oob, anchor, boot>>
nodeVars == <<ag, agRun, agMaster, snap, seen, rb>>
histVars == <<everDone, released>>
vars     == <<runVars, recVars, drvVars, bmcVars, nodeVars, histVars, fault>>

Runs == 1..MaxStarts

AgentPhase == { "off", "pxe", "preflight", "passed", "restoring", "restored",
                "osboot", "waitapply", "applying", "waitready", "finished",
                "checkin", "hold", "failed" }

RunPc == {"idle", "bmc", "boot", "power", "poll", "imaging", "end"}

Write == [run : 0..MaxStarts, node : Nodes, stages : SUBSET Stages,
          acks : BOOLEAN, pc : {"write", "ack"}]
Observation == [run : Runs, node : Nodes, status : Status]

RunTypeOK ==
    /\ gen \in 0..MaxStarts /\ live \subseteq Runs
    /\ runMode \in [Runs -> BOOLEAN]
    /\ startPc \in [Runs -> {"none", "clear", "arm", "flip", "up", "dead"}]
    /\ left \in [Runs -> SUBSET Nodes]
    /\ rn \in [Runs -> [Nodes -> RunPc]]

RecTypeOK ==
    /\ reg \in 0..MaxStarts /\ step \in 0..6
    /\ st \in [Nodes -> State]
    /\ pf \in [Nodes -> {"none", "fail", "pass"}]
    /\ rekick \in [Nodes -> 0..MaxRekicks]
    /\ ledger \in [Nodes -> SUBSET Stages]
    /\ ack \in [Nodes -> SUBSET Stages]
    /\ srDone \in BOOLEAN /\ clusterReady \in BOOLEAN

DrvTypeOK ==
    /\ known \in BOOLEAN /\ ready \in BOOLEAN
    /\ wr \subseteq Write /\ obs \subseteq Observation
    /\ pend \subseteq [run : 0..MaxStarts, node : Nodes]
    /\ polls \subseteq Runs /\ vf \subseteq Runs /\ stamp \subseteq Nodes

BmcTypeOK ==
    /\ sel \in [Nodes -> SUBSET (Stages \X (0..MaxStarts))]
    /\ oob \in [Nodes -> Status \cup {NoStatus}]
    /\ anchor \in [Nodes -> {"zero", "at", "gone"}]
    /\ boot \in [Nodes -> {"disk", "pxe"}]

NodeTypeOK ==
    /\ ag \in [Nodes -> AgentPhase]
    /\ agRun \in [Nodes -> 0..MaxStarts]
    /\ agMaster \in [Nodes -> BOOLEAN] /\ snap \in [Nodes -> BOOLEAN]
    /\ seen \in [Nodes -> -1..MaxRekicks]
    /\ rb \in [Nodes -> 0..MaxApplyReboots]

HistTypeOK ==
    /\ everDone \subseteq Nodes /\ released \subseteq Nodes
    /\ fault \in 0..MaxFaults

TypeOK ==
    /\ RunTypeOK /\ RecTypeOK /\ DrvTypeOK
    /\ BmcTypeOK /\ NodeTypeOK /\ HistTypeOK

Init ==
    /\ gen = 0 /\ live = {}
    /\ runMode = [g \in Runs |-> FALSE]
    /\ startPc = [g \in Runs |-> "none"]
    /\ left = [g \in Runs |-> {}]
    /\ rn = [g \in Runs |-> [n \in Nodes |-> "idle"]]
    /\ reg = 0 /\ step = 0
    /\ st = [n \in Nodes |-> "pending"]
    /\ pf = [n \in Nodes |-> "none"]
    /\ rekick = [n \in Nodes |-> 0]
    /\ ledger = [n \in Nodes |-> {}]
    /\ ack = [n \in Nodes |-> {}]
    /\ srDone = FALSE /\ clusterReady = FALSE
    /\ known = FALSE /\ ready = FALSE
    /\ wr = {} /\ obs = {} /\ pend = {}
    /\ polls = {} /\ vf = {} /\ stamp = {}
    /\ sel = [n \in Nodes |-> {}]
    /\ oob = [n \in Nodes |-> NoStatus]
    /\ anchor = [n \in Nodes |-> "zero"]
    /\ boot = [n \in Nodes |-> "disk"]
    /\ ag = [n \in Nodes |-> "off"]
    /\ agRun = [n \in Nodes |-> 0]
    /\ agMaster = [n \in Nodes |-> FALSE]
    /\ snap = [n \in Nodes |-> FALSE]
    /\ seen = [n \in Nodes |-> -1]
    /\ rb = [n \in Nodes |-> 0]
    /\ everDone = {} /\ released = {}
    /\ fault = 0

-----------------------------------------------------------------------------
(* Predicates of the record. *)

Manual == reg # 0 /\ runMode[reg]

(* Mutant: only the master counts. *)
AllDone_Master == st[Master] = "done"

AllDone == \A n \in Nodes : st[n] = "done"

(* No record: nothing to wait for. *)
allNodesApplied == reg = 0 \/ AllDone

HasActiveDeploy == reg # 0 /\ \E n \in Nodes : ~terminal(st[n])

(* Green light 1: every node of the record passed its installer preflight. *)
fabricReady == \A n \in Nodes : pf[n] = "pass"

allReached(want) == \A n \in Nodes : pipelineRank[st[n]] >= want

(* The record's master finished applying, or there is none to wait for.    *)
masterDone == Master = NoMaster \/ (Master \in Nodes /\ st[Master] = "done")

(* Mutants: a barrier one rank too low, and one with its neighbour's rank. *)
canAdvance_Restoring ==
    CASE step = StepPreflight   -> fabricReady
      [] step = StepRestore     -> allReached(3)
      [] step = StepReboot      -> allReached(5)
      [] step = StepApplyMaster -> masterDone
      [] step = StepApplyRest   -> allReached(7)
      [] OTHER                  -> FALSE
canAdvance_Up ==
    CASE step = StepPreflight   -> fabricReady
      [] step = StepRestore     -> allReached(4)
      [] step = StepReboot      -> allReached(5)
      [] step = StepApplyMaster -> masterDone
      [] step = StepApplyRest   -> allReached(5)
      [] OTHER                  -> FALSE

canAdvance ==
    CASE step = StepPreflight   -> fabricReady
      [] step = StepRestore     -> allReached(4)
      [] step = StepReboot      -> allReached(5)
      [] step = StepApplyMaster -> masterDone
      [] step = StepApplyRest   -> allReached(7)
      [] OTHER                  -> FALSE

(* What a poll of the stored set_ready input answers: armed by the         *)
(* operator, held back until every node is done and, in manual mode, until *)
(* the operator reached the last step.                                     *)
setReadyTrigger == allNodesApplied /\ (Manual => step >= StepSetReady)

setReadyPending ==
    reg # 0 /\ ~srDone /\ Master \in Nodes /\ SETREADY \in ledger[Master]

(* Mutant: a gate confirmed once is never looked at again. *)
gatesAtRisk_Unacked(n) ==
    /\ ledger[n] # {} /\ st[n] # "error"
    /\ ~(ledger[n] \subseteq ack[n])

gatesAtRisk(n) ==
    /\ ledger[n] # {} /\ st[n] # "error"
    /\ \/ st[n] # "done"
       \/ ~(ledger[n] \subseteq ack[n])
       \/ SETREADY \in ledger[n] /\ ~ready

(* The gate stages a read of node n's SEL finds. *)
Present(n) == {r[1] : r \in sel[n]}

-----------------------------------------------------------------------------
(* Updates of the record. Every one is a no-op when no record is           *)
(* registered: the agent of a deploy this process does not know is told    *)
(* nothing and changes nothing.                                            *)

SetState(s2) ==
    /\ st' = IF reg = 0 THEN st ELSE s2
    /\ everDone' = everDone \cup {n \in Nodes : st'[n] = "done" /\ reg # 0}

(* The orchestrator's own stages never overwrite a state the agent owns.   *)
Advanced(n, s) == IF agentDriven(st[n]) THEN st ELSE [st EXCEPT ![n] = s]

(* Mutant: a write counts as confirmed when it is started. *)
writeGos_AckFirst(grants) ==
    LET led == [n \in Nodes |-> ledger[n] \cup grants[n]]
        targets == {n \in Nodes : grants[n] # {} /\ reg # 0}
    IN  /\ ledger' = IF reg = 0 THEN ledger ELSE led
        /\ wr' = wr \cup {[run |-> reg, node |-> n, stages |-> led[n],
                           acks |-> TRUE, pc |-> "ack"] : n \in targets}

(* Authorize stages in the ledger and start one background write per       *)
(* target, carrying the target's whole ledger.                             *)
writeGos(grants) ==
    LET led == [n \in Nodes |-> ledger[n] \cup grants[n]]
        targets == {n \in Nodes : grants[n] # {} /\ reg # 0}
    IN  /\ ledger' = IF reg = 0 THEN ledger ELSE led
        /\ wr' = wr \cup {[run |-> reg, node |-> n, stages |-> led[n],
                           acks |-> TRUE, pc |-> "write"] : n \in targets}

(* The caller that records a completion hands it on after it let go of the *)
(* manager's lock: see HandOff.                                            *)
Completed(n) == pend' = pend \cup {[run |-> reg, node |-> n]}

(* Begin the whole-cluster reachability check once every node is done.     *)
maybeVerifyCluster(s2) ==
    vf' = IF reg # 0 /\ ~clusterReady /\ \A n \in Nodes : s2[n] = "done"
          THEN vf \cup {reg} ELSE vf

Fault == fault < MaxFaults /\ fault' = fault + 1

(* A status record the agent leaves in its own SEL, best effort.           *)
WriteStatus(n, s) ==
    \/ oob' = [oob EXCEPT ![n] = s] /\ UNCHANGED fault
    \/ Fault /\ UNCHANGED oob

MarkReady(ok) ==
    /\ ready' = ok
    /\ srDone' = IF reg = 0 THEN srDone ELSE ok

-----------------------------------------------------------------------------
(* Manager.Start *)

(* Supersede the prior run and register a fresh record.                    *)
Start(manual) ==
    /\ gen < MaxStarts
    /\ LET g == gen + 1 IN
         /\ gen' = g /\ reg' = g /\ live' = {g}
         /\ runMode' = [runMode EXCEPT ![g] = manual]
         /\ startPc' = [startPc EXCEPT ![g] = "clear"]
         /\ left' = [left EXCEPT ![g] = Nodes]
    /\ step' = IF manual THEN StepPreflight ELSE 0
    /\ st' = [n \in Nodes |-> "pending"]
    /\ pf' = [n \in Nodes |-> "none"]
    /\ rekick' = [n \in Nodes |-> 0]
    /\ ledger' = [n \in Nodes |-> {}]
    /\ ack' = [n \in Nodes |-> {}]
    /\ srDone' = FALSE /\ clusterReady' = FALSE
    /\ known' = TRUE /\ ready' = FALSE
    /\ everDone' = {} /\ released' = {}
    /\ UNCHANGED <<rn, wr, obs, pend, polls, vf, stamp, bmcVars, nodeVars, fault>>

(* Clear one node's SEL and take the anchor. A failed clear leaves the     *)
(* gate records; the anchor then hides the old status records, unless      *)
(* reading it failed too.                                                  *)
StartClear(g, n) ==
    /\ startPc[g] = "clear" /\ n \in left[g]
    /\ left' = [left EXCEPT ![g] = @ \ {n}]
    /\ startPc' = [startPc EXCEPT ![g] = IF left'[g] = {} THEN "arm" ELSE @]
    /\ \/ /\ sel' = [sel EXCEPT ![n] = {}]
          /\ oob' = [oob EXCEPT ![n] = NoStatus]
          /\ anchor' = [anchor EXCEPT ![n] = "zero"]
          /\ UNCHANGED fault
       \/ /\ Fault
          /\ oob' = [oob EXCEPT ![n] = NoStatus]
          /\ anchor' = [anchor EXCEPT ![n] = "at"]
          /\ UNCHANGED sel
       \/ /\ Fault
          /\ anchor' = [anchor EXCEPT ![n] = "zero"]
          /\ UNCHANGED <<sel, oob>>
    /\ UNCHANGED <<gen, live, runMode, rn, recVars, drvVars, boot, nodeVars,
                   histVars>>

(* Mutant: apply is authorized everywhere up front. *)
StartArm_AllApply(g) ==
    /\ startPc[g] = "arm"
    /\ startPc' = [startPc EXCEPT ![g] = "flip"]
    /\ IF runMode[g]
       THEN UNCHANGED <<ledger, wr>>
       ELSE writeGos([n \in Nodes |-> {RESTORE, REBOOT, APPLY}])
    /\ UNCHANGED <<gen, live, runMode, left, rn, reg, step, st, pf, rekick,
                   ack, srDone, clusterReady, known, ready, obs, pend, polls,
                   vf, stamp, bmcVars, nodeVars, histVars, fault>>

(* An auto run authorizes restore and reboot everywhere and apply on the   *)
(* master, in the ledger of whatever record is registered by now.          *)
StartArm(g) ==
    /\ startPc[g] = "arm"
    /\ startPc' = [startPc EXCEPT ![g] = "flip"]
    /\ IF runMode[g]
       THEN UNCHANGED <<ledger, wr>>
       ELSE writeGos([n \in Nodes |-> IF n = Master THEN {RESTORE, REBOOT, APPLY}
                                                    ELSE {RESTORE, REBOOT}])
    /\ UNCHANGED <<gen, live, runMode, left, rn, reg, step, st, pf, rekick,
                   ack, srDone, clusterReady, known, ready, obs, pend, polls,
                   vf, stamp, bmcVars, nodeVars, histVars, fault>>

(* Mutant: the aborted run drops whatever record is registered. *)
StartFlip_DropsAny(g) ==
    /\ startPc[g] = "flip"
    /\ \/ /\ startPc' = [startPc EXCEPT ![g] = "up"]
          /\ polls' = IF SelPoll THEN polls \cup {g} ELSE polls
          /\ UNCHANGED <<live, reg, fault>>
       \/ /\ Fault
          /\ startPc' = [startPc EXCEPT ![g] = "dead"]
          /\ live' = live \ {g}
          /\ reg' = 0
          /\ UNCHANGED polls
    /\ UNCHANGED <<gen, runMode, left, rn, step, st, pf, rekick, ledger, ack,
                   srDone, clusterReady, known, ready, wr, obs, pend, vf,
                   stamp, bmcVars, nodeVars, histVars>>

(* Repoint the PXE default; a busy lock aborts the run and drops its       *)
(* record if it is still the registered one.                               *)
StartFlip(g) ==
    /\ startPc[g] = "flip"
    /\ \/ /\ startPc' = [startPc EXCEPT ![g] = "up"]
          /\ polls' = IF SelPoll THEN polls \cup {g} ELSE polls
          /\ UNCHANGED <<live, reg, fault>>
       \/ /\ Fault
          /\ startPc' = [startPc EXCEPT ![g] = "dead"]
          /\ live' = live \ {g}
          /\ reg' = IF reg = g THEN 0 ELSE reg
          /\ UNCHANGED polls
    /\ UNCHANGED <<gen, runMode, left, rn, step, st, pf, rekick, ledger, ack,
                   srDone, clusterReady, known, ready, wr, obs, pend, vf,
                   stamp, bmcVars, nodeVars, histVars>>

-----------------------------------------------------------------------------
(* Manager.runNode: one goroutine per run and node. A cancelled context    *)
(* makes the IPMI call in progress fail.                                   *)

RunAt(g, n, pc) == startPc[g] = "up" /\ rn[g][n] = pc
RunTo(g, n, pc) == rn' = [rn EXCEPT ![g][n] = pc]

runUnch == <<gen, live, runMode, startPc, left, reg, step, pf, rekick, ledger,
             ack, srDone, clusterReady, drvVars, sel, oob, anchor, released>>

(* The stage's IPMI call fails, or its run was cancelled.                  *)
CallFails(g) == \/ g \notin live /\ UNCHANGED fault
                \/ g \in live /\ Fault

RunBegin(g, n) ==
    /\ RunAt(g, n, "idle")
    /\ IF g \in live
       THEN RunTo(g, n, "bmc") /\ SetState(Advanced(n, "bmc-preflight"))
       ELSE RunTo(g, n, "end") /\ UNCHANGED <<st, everDone>>
    /\ UNCHANGED <<runUnch, boot, nodeVars, fault>>

RunPreflight(g, n) ==
    /\ RunAt(g, n, "bmc")
    /\ \/ /\ g \in live
          /\ RunTo(g, n, "boot") /\ SetState(Advanced(n, "set-boot-pxe"))
          /\ UNCHANGED fault
       \/ /\ CallFails(g)
          /\ RunTo(g, n, "end") /\ SetState(Advanced(n, "error"))
    /\ UNCHANGED <<runUnch, boot, nodeVars>>

RunSetBootPXE(g, n) ==
    /\ RunAt(g, n, "boot")
    /\ \/ /\ g \in live
          /\ RunTo(g, n, "power") /\ SetState(Advanced(n, "power-cycle"))
          /\ boot' = [boot EXCEPT ![n] = "pxe"]
          /\ UNCHANGED fault
       \/ /\ CallFails(g)
          /\ RunTo(g, n, "end") /\ SetState(Advanced(n, "error"))
          /\ UNCHANGED boot
    /\ UNCHANGED <<runUnch, nodeVars>>

(* What ran on the node is gone; it boots from the device set now. A node  *)
(* that comes up from disk here has nothing of this deploy to run.         *)
PowerCycled(g, n, up) ==
    /\ ag' = [ag EXCEPT ![n] = IF up /\ boot[n] = "pxe" THEN "pxe" ELSE "off"]
    /\ agRun' = [agRun EXCEPT ![n] = g]
    /\ rb' = [rb EXCEPT ![n] = 0]
    /\ seen' = [seen EXCEPT ![n] = -1]
    /\ UNCHANGED <<agMaster, snap>>

(* A power cycle that is reported failed may have happened all the same,   *)
(* in full or up to the power-down.                                        *)
RunPowerCycle(g, n) ==
    /\ RunAt(g, n, "power")
    /\ \/ /\ g \in live
          /\ RunTo(g, n, "poll") /\ SetState(Advanced(n, "netbooting"))
          /\ PowerCycled(g, n, TRUE)
          /\ UNCHANGED fault
       \/ /\ CallFails(g)
          /\ RunTo(g, n, "end") /\ SetState(Advanced(n, "error"))
          /\ (\E up \in BOOLEAN : PowerCycled(g, n, up)) \/ UNCHANGED nodeVars
    /\ UNCHANGED <<runUnch, boot>>

(* One tick of the install observation.                                    *)
RunPoll(g, n) ==
    /\ RunAt(g, n, "poll") \/ RunAt(g, n, "imaging")
    /\ \/ /\ g \notin live \/ (reg # 0 /\ agentDriven(st[n]))
          /\ RunTo(g, n, "end")
          /\ UNCHANGED <<st, everDone, fault>>
       \/ /\ g \in live /\ ~(reg # 0 /\ agentDriven(st[n]))
          /\ \/ /\ Fault
                /\ RunTo(g, n, "end") /\ SetState(Advanced(n, "error"))
             \/ /\ RunAt(g, n, "poll") /\ "imaging" \in Observes
                /\ RunTo(g, n, "imaging") /\ SetState(Advanced(n, "imaging"))
                /\ UNCHANGED fault
             \/ /\ "imaged" \in Observes
                /\ RunTo(g, n, "end") /\ SetState(Advanced(n, "imaged"))
                /\ UNCHANGED fault
    /\ UNCHANGED <<runUnch, boot, nodeVars>>

-----------------------------------------------------------------------------
(* Gate writers and the gate reconciler *)

gateUnch == <<runVars, reg, step, st, pf, rekick, ledger, srDone,
              clusterReady, known, ready, obs, pend, polls, vf, stamp, boot,
              nodeVars, histVars>>

Added(n, run, stages) == {<<s, run>> : s \in stages \ Present(n)}

(* WriteGate: adds what is missing and answers nil only after reading      *)
(* every stage back. A full SEL is wiped on the way, status records        *)
(* included. On an error any part of the stages may have landed, on top of *)
(* what was there or after a wipe.                                         *)
GateWrite(w) ==
    /\ w \in wr /\ w.pc = "write"
    /\ LET done == IF w.acks THEN {[w EXCEPT !.pc = "ack"]} ELSE {}
       IN \/ /\ sel' = [sel EXCEPT ![w.node] = @ \cup Added(w.node, w.run, w.stages)]
             /\ wr' = (wr \ {w}) \cup done
             /\ UNCHANGED <<oob, anchor, fault>>
          \/ /\ Fault
             /\ \E part \in SUBSET w.stages :
                  /\ sel' = [sel EXCEPT ![w.node] = {<<s, w.run>> : s \in part}]
                  /\ \/ wr' = wr \ {w}
                     \/ part = w.stages /\ wr' = (wr \ {w}) \cup done
             /\ oob' = [oob EXCEPT ![w.node] = NoStatus]
             /\ anchor' = [anchor EXCEPT ![w.node] = IF @ = "at" THEN "gone" ELSE @]
          \/ /\ Fault
             /\ \E part \in SUBSET w.stages :
                  sel' = [sel EXCEPT ![w.node] = @ \cup Added(w.node, w.run, part)]
             /\ wr' = wr \ {w}
             /\ UNCHANGED <<oob, anchor>>
    /\ UNCHANGED <<gateUnch, ack>>

(* The confirmation goes to whatever record is registered.                 *)
GateAck(w) ==
    /\ w \in wr /\ w.pc = "ack"
    /\ wr' = wr \ {w}
    /\ ack' = IF reg = 0 THEN ack ELSE [ack EXCEPT ![w.node] = w.stages]
    /\ UNCHANGED <<gateUnch, sel, oob, anchor, fault>>

(* One node of a reconciler tick: its ledger is read under the lock, then  *)
(* written off it. A tick that has nothing to write or to confirm, or that *)
(* repeats a write already in flight, is left out.                         *)
Reconcile(g, n) ==
    /\ g \in live /\ startPc[g] = "up" /\ reg # 0
    /\ gatesAtRisk(n)
    /\ ~(ledger[n] \subseteq Present(n)) \/ ack[n] # ledger[n]
    /\ \A w \in wr : ~(w.node = n /\ w.acks /\ w.stages = ledger[n])
    /\ wr' = wr \cup {[run |-> reg, node |-> n, stages |-> ledger[n],
                       acks |-> TRUE, pc |-> "write"]}
    /\ UNCHANGED <<gateUnch, ack, sel, oob, anchor, fault>>

(* A SEL loses its records by another hand: the endpoint stamp's recovery  *)
(* from a full log, or a BMC reset.                                        *)
SelLost(n) ==
    /\ Fault
    /\ sel' = [sel EXCEPT ![n] = {}]
    /\ oob' = [oob EXCEPT ![n] = NoStatus]
    /\ anchor' = [anchor EXCEPT ![n] = IF @ = "at" THEN "gone" ELSE @]
    /\ UNCHANGED <<gateUnch, ack, wr>>

-----------------------------------------------------------------------------
(* Manager.pollSEL and MergeSEL *)

pollUnch == <<runVars, known, stamp, bmcVars, nodeVars, released, fault>>

(* One node of a poll tick: decide from the record whether there is        *)
(* anything to learn, then read the SEL.                                   *)
PollObserve(g, n) ==
    /\ g \in live \cap polls
    /\ \A o \in obs : o.run # g
    /\ \/ ~(reg # 0 /\ terminal(st[n]))
       \/ setReadyPending /\ n = Master
    /\ oob[n] # NoStatus /\ anchor[n] # "gone"
    /\ obs' = obs \cup {[run |-> g, node |-> n, status |-> oob[n]]}
    /\ UNCHANGED <<pollUnch, recVars, ready, wr, pend, polls, vf, everDone>>

(* The loop ends with its context, or at a tick that finds every node      *)
(* terminal and no set_ready to wait for.                                  *)
PollEnd(g) ==
    /\ g \in polls /\ \A o \in obs : o.run # g
    /\ \/ g \notin live
       \/ reg # 0 /\ ~setReadyPending /\ \A n \in Nodes : terminal(st[n])
    /\ polls' = polls \ {g}
    /\ UNCHANGED <<pollUnch, recVars, ready, wr, obs, pend, vf, everDone>>

(* Mutant: the record's own word is stored, not the state it stands for. *)
Merged_Raw(s, status) ==
    LET target == selState(status) IN
    IF s # "done" /\ (target = "error" \/ stateRank[target] > stateRank[s])
    THEN status ELSE s

(* The state a status record moves a node to: done is final, an error is   *)
(* recorded, anything else only advances.                                  *)
Merged(s, status) ==
    LET target == selState(status) IN
    IF s # "done" /\ (target = "error" \/ stateRank[target] > stateRank[s])
    THEN target ELSE s

PollMerge(o) ==
    /\ o \in obs
    /\ obs' = obs \ {o}
    /\ IF o.status \in {"ready-ok", "ready-error"}
       THEN /\ IF reg # 0 /\ o.node = Master
               THEN MarkReady(o.status = "ready-ok")
               ELSE UNCHANGED <<ready, srDone>>
            /\ UNCHANGED <<st, everDone, pend, vf>>
       ELSE LET s2 == [st EXCEPT ![o.node] = Merged(@, o.status)]
            IN  /\ SetState(s2)
                /\ IF reg # 0 /\ s2 # st /\ s2[o.node] = "done"
                   THEN Completed(o.node) /\ maybeVerifyCluster(s2)
                   ELSE UNCHANGED <<pend, vf>>
                /\ UNCHANGED <<ready, srDone>>
    /\ UNCHANGED <<pollUnch, reg, step, pf, rekick, ledger, ack, clusterReady,
                   wr, polls>>

(* Mutant: the last completion does not arm set_ready. *)
HandOff_Unarmed(c) ==
    /\ c \in pend
    /\ pend' = pend \ {c}
    /\ LET release == c.node = Master /\ ~Manual /\ ~ManualGate
       IN  writeGos([n \in Nodes |->
               IF n # Master /\ release THEN {APPLY} ELSE {}])
    /\ UNCHANGED <<pollUnch, reg, step, st, pf, rekick, ack, srDone,
                   clusterReady, ready, obs, polls, vf, everDone>>

(* The hand-off of a completion, on whatever record is registered by now:  *)
(* the master's releases the peers, and in auto mode the last one arms     *)
(* set_ready on the master. Only the second looks at the nodes' states.    *)
HandOff(c) ==
    /\ c \in pend
    /\ pend' = pend \ {c}
    /\ LET release == c.node = Master /\ ~Manual /\ ~ManualGate
           arm == ~Manual /\ AllDone
       IN  writeGos([n \in Nodes |->
               IF n = Master THEN (IF arm THEN {SETREADY} ELSE {})
               ELSE IF release THEN {APPLY} ELSE {}])
    /\ UNCHANGED <<pollUnch, reg, step, st, pf, rekick, ack, srDone,
                   clusterReady, ready, obs, polls, vf, everDone>>

(* The reachability check ends; its verdict goes to whatever record is     *)
(* registered.                                                             *)
VerifyEnd(g, ok) ==
    /\ g \in vf
    /\ vf' = vf \ {g}
    /\ clusterReady' = IF reg = 0 THEN clusterReady ELSE ok
    /\ UNCHANGED <<pollUnch, reg, step, st, pf, rekick, ledger, ack, srDone,
                   ready, wr, obs, pend, polls, everDone>>

-----------------------------------------------------------------------------
(* The agent in the installer. "d" says whether its HTTP report gets       *)
(* through; a lost one changes nothing on the driver.                      *)

(* What the handlers of the agents' requests do to the record. Of all the  *)
(* states a report may find, only these are moved.                         *)
PreflightProgress(n) ==
    [st EXCEPT ![n] = IF @ \in {"netbooting", "imaged"} THEN "preflighting" ELSE @]

PreflightReport(n, passed) ==
    /\ SetState([st EXCEPT ![n] = IF passed THEN "preflight-ok" ELSE "preflighting"])
    /\ pf' = [pf EXCEPT ![n] = IF passed THEN "pass" ELSE "fail"]

(* GreenLight1: the record shows "restoring" only once the restore gate is *)
(* confirmed on the BMC.                                                   *)
greenLit(n) ==
    IF /\ reg # 0 /\ fabricReady
       /\ Manual => step >= StepRestore
       /\ st[n] \in {"preflight-ok", "preflighting"}
    THEN [st EXCEPT ![n] = IF RESTORE \in ack[n] THEN "restoring" ELSE "preflight-ok"]
    ELSE st

RestoreDone(n) ==
    IF stateRank[st[n]] \in stateRank["preflight-ok"]..(stateRank["rebooting"] - 1)
    THEN [st EXCEPT ![n] = "rebooting"] ELSE st

ApplyProceed == Manual => step >= StepApplyMaster

ApplyStarted(n) ==
    IF st[n] \in {"rebooting", "waiting-controller", "checked-in"}
    THEN [st EXCEPT ![n] = IF ApplyProceed THEN "applying" ELSE "waiting-controller"]
    ELSE st

WaitForMaster(n) ==
    IF st[n] \in {"rebooting", "checked-in"}
    THEN [st EXCEPT ![n] = "waiting-controller"] ELSE st

(* A node that comes up: only the record knows who the master is.          *)
cameUp(n) == IF n = Master THEN ApplyStarted(n) ELSE WaitForMaster(n)

(* The safety gate of both check-ins: without a running deploy a node is   *)
(* not appointed, whatever made it boot.                                   *)
appointed == HasActiveDeploy

agentUnch == <<runVars, reg, step, rekick, ack, clusterReady, known, obs,
               polls, sel, anchor, released>>
reportUnch == <<ledger, srDone, ready, wr>>

(* The first answer the agent gets: appointed, with an active deploy. It   *)
(* pre-fetches the snapshot and reports a first, not passed, round.        *)
PreflightCheckin(n, d, fetched) ==
    /\ ag[n] = "pxe" /\ appointed
    /\ ag' = [ag EXCEPT ![n] = "preflight"]
    /\ fetched \/ PrefetchMayFail
    /\ snap' = [snap EXCEPT ![n] = fetched]
    /\ agMaster' = [agMaster EXCEPT ![n] = n = Master]
    /\ IF d
       THEN /\ PreflightReport(n, FALSE)
            /\ seen' = [seen EXCEPT ![n] = IF @ = -1 THEN rekick[n] ELSE @]
       ELSE SetState(PreflightProgress(n)) /\ UNCHANGED <<pf, seen>>
    /\ UNCHANGED <<agentUnch, reportUnch, pend, vf, stamp, oob, boot, agRun, rb,
                   fault>>

(* A round of carrier checks and pings. The answer to a report carries the *)
(* re-run number: the first one is adopted, a new one sends the agent back *)
(* to check-in.                                                            *)
PreflightRound(n, d, passed) ==
    /\ ag[n] = "preflight"
    /\ LET seq == IF reg # 0 THEN rekick[n] ELSE 0
           rerun == d /\ seen[n] # -1 /\ seq > seen[n]
       IN  /\ ag' = [ag EXCEPT ![n] = IF rerun THEN "pxe"
                                      ELSE IF passed THEN "passed" ELSE @]
           /\ seen' = [seen EXCEPT ![n] = IF rerun \/ (d /\ @ = -1) THEN seq ELSE @]
    /\ IF d /\ reg # 0
       THEN PreflightReport(n, passed)
       ELSE UNCHANGED <<st, everDone, pf>>
    /\ UNCHANGED <<agentUnch, reportUnch, pend, vf, stamp, oob, boot, agRun,
                   agMaster, snap, rb, fault>>

(* After a passed round the agent asks for the green light, whose answer   *)
(* it ignores, and looks for the restore gate in its own SEL.              *)
AgentRestore(n, d) ==
    /\ ag[n] = "passed"
    /\ SetState(IF d THEN greenLit(n) ELSE st)
    /\ IF RESTORE \in Present(n)
       THEN ag' = [ag EXCEPT ![n] = "restoring"] /\ WriteStatus(n, "restoring")
       ELSE ag' = [ag EXCEPT ![n] = "preflight"] /\ UNCHANGED <<oob, fault>>
    /\ UNCHANGED <<agentUnch, reportUnch, pf, pend, vf, stamp, boot, agRun,
                   agMaster, snap, seen, rb>>

(* The image is on disk. The in-band report also makes the driver force    *)
(* the boot device to disk.                                                *)
AgentRestored(n, d) ==
    /\ ag[n] = "restoring"
    /\ ag' = [ag EXCEPT ![n] = "restored"]
    /\ WriteStatus(n, "restore-done")
    /\ SetState(IF d THEN RestoreDone(n) ELSE st)
    /\ stamp' = IF d /\ known THEN stamp \cup {n} ELSE stamp
    /\ UNCHANGED <<agentUnch, reportUnch, pf, pend, vf, boot, agRun, agMaster,
                   snap, seen, rb>>

(* Force-HDD is re-stamped until the node is past its reboot or the        *)
(* attempts run out.                                                       *)
StampBootDisk(n) ==
    /\ n \in stamp
    /\ boot' = [boot EXCEPT ![n] = "disk"]
    /\ stamp' = IF reg # 0 /\ stateRank[st[n]] >= stateRank["waiting-controller"]
                THEN stamp \ {n} ELSE stamp
    /\ UNCHANGED <<agentUnch, reportUnch, st, pf, pend, vf, oob, nodeVars,
                   everDone, fault>>

StampGivesUp(n) ==
    /\ n \in stamp /\ Fault
    /\ stamp' = stamp \ {n}
    /\ UNCHANGED <<agentUnch, reportUnch, st, pf, pend, vf, oob, boot,
                   nodeVars, everDone>>

(* The reboot gate opens: the node boots whatever its BMC points it at.    *)
AgentReboot(n) ==
    /\ ag[n] = "restored" /\ REBOOT \in Present(n)
    /\ ag' = [ag EXCEPT ![n] = IF boot[n] = "disk" THEN "osboot" ELSE "pxe"]
    /\ seen' = [seen EXCEPT ![n] = -1]
    /\ UNCHANGED <<agentUnch, reportUnch, st, pf, pend, vf, stamp, oob, boot,
                   agRun, agMaster, snap, rb, everDone, fault>>

-----------------------------------------------------------------------------
(* The agent in the installed OS *)

(* With a local snapshot the agent reports that it is up and takes the     *)
(* driver's word, when it gets one, on whether it is the master.           *)
AgentUp(n, d) ==
    /\ ag[n] = "osboot" /\ snap[n]
    /\ ag' = [ag EXCEPT ![n] = "waitapply"]
    /\ WriteStatus(n, "rebooted")
    /\ agMaster' = [agMaster EXCEPT ![n] = IF d THEN reg # 0 /\ n = Master ELSE @]
    /\ SetState(IF d THEN cameUp(n) ELSE st)
    /\ UNCHANGED <<agentUnch, reportUnch, pf, pend, vf, stamp, boot, agRun,
                   snap, seen, rb>>

AgentApply(n) ==
    /\ ag[n] = "waitapply" /\ APPLY \in Present(n)
    /\ ag' = [ag EXCEPT ![n] = "applying"]
    /\ WriteStatus(n, "applying")
    /\ UNCHANGED <<agentUnch, reportUnch, st, pf, pend, vf, stamp, boot, agRun,
                   agMaster, snap, seen, rb, everDone>>

(* Applied: unconditionally done. *)
AgentApplied(n, d) ==
    /\ ag[n] = "applying" /\ snap[n]
    /\ ag' = [ag EXCEPT ![n] = IF agMaster[n] THEN "waitready" ELSE "finished"]
    /\ WriteStatus(n, "applied")
    /\ IF d THEN SetState([st EXCEPT ![n] = "done"]) /\ Completed(n)
            ELSE UNCHANGED <<st, everDone, pend>>
    /\ UNCHANGED <<agentUnch, reportUnch, pf, vf, stamp, boot, agRun, agMaster,
                   snap, seen, rb>>

(* The apply asks for a reboot to continue, a bounded number of times.     *)
AgentApplyReboot(n) ==
    /\ ag[n] = "applying" /\ snap[n] /\ rb[n] < MaxApplyReboots
    /\ rb' = [rb EXCEPT ![n] = @ + 1]
    /\ ag' = [ag EXCEPT ![n] = IF boot[n] = "disk" THEN "osboot" ELSE "pxe"]
    /\ seen' = [seen EXCEPT ![n] = -1]
    /\ UNCHANGED <<agentUnch, reportUnch, st, pf, pend, vf, stamp, oob, boot,
                   agRun, agMaster, snap, everDone, fault>>

(* A real failure, or no convergence: terminal, never retried. *)
AgentApplyFailed(n, d) ==
    /\ ag[n] = "applying" /\ snap[n] /\ Fault
    /\ ag' = [ag EXCEPT ![n] = "failed"]
    /\ oob' = [oob EXCEPT ![n] = "error"]
    /\ SetState(IF d THEN [st EXCEPT ![n] = "error"] ELSE st)
    /\ UNCHANGED <<agentUnch, reportUnch, pf, pend, vf, stamp, boot, agRun,
                   agMaster, snap, seen, rb>>

(* cluster set_ready, run once on the master: behind the set-ready gate    *)
(* when its parameters are on the disk, behind a poll of the driver when   *)
(* they are not.                                                           *)
AgentSetReady(n, d, ok) ==
    /\ ag[n] = "waitready"
    /\ IF Staged THEN SETREADY \in Present(n)
                 ELSE setReadyTrigger
    /\ ag' = [ag EXCEPT ![n] = "finished"]
    /\ IF ok THEN WriteStatus(n, "ready-ok")
             ELSE Fault /\ oob' = [oob EXCEPT ![n] = "ready-error"]
    /\ IF d THEN MarkReady(ok) ELSE UNCHANGED <<ready, srDone>>
    /\ UNCHANGED <<agentUnch, ledger, wr, st, pf, pend, vf, stamp, boot, agRun,
                   agMaster, snap, seen, rb, everDone>>

-----------------------------------------------------------------------------
(* The agent in the installed OS without a local snapshot: the in-band     *)
(* flow, which neither reads nor writes the SEL.                           *)

holds(n) == n # Master /\ ~masterDone

CheckedIn(n) ==
    IF st[n] \in { "restoring", "rebooting", "netbooting", "imaging", "imaged",
                   "waiting-controller", "checked-in" }
    THEN [st EXCEPT ![n] = IF holds(n) THEN "waiting-controller" ELSE "checked-in"]
    ELSE st

inBandUnch == <<agentUnch, reportUnch, pf, stamp, oob, boot, agRun,
                agMaster, snap, seen, rb>>

AgentInBand(n) ==
    /\ ag[n] = "osboot" /\ ~snap[n]
    /\ ag' = [ag EXCEPT ![n] = "checkin"]
    /\ UNCHANGED <<inBandUnch, st, pend, vf, everDone, fault>>

(* Appointed; the network preflight is reported, and a node that passed it *)
(* waits for its turn. One that did not starts over with its unit.         *)
InBandCheckin(n, d, passed) ==
    /\ ag[n] = "checkin" /\ appointed
    /\ ag' = [ag EXCEPT ![n] = IF passed THEN "hold" ELSE @]
    /\ SetState(IF d THEN [st EXCEPT ![n] = "net-preflight"] ELSE CheckedIn(n))
    /\ UNCHANGED <<inBandUnch, pend, vf, fault>>

InBandApply(n, d) ==
    /\ ag[n] = "hold" /\ appointed
    /\ IF holds(n)
       THEN SetState(CheckedIn(n)) /\ UNCHANGED ag
       ELSE /\ ag' = [ag EXCEPT ![n] = "applying"]
            /\ SetState(IF d THEN [st EXCEPT ![n] = "applying"] ELSE CheckedIn(n))
    /\ UNCHANGED <<inBandUnch, pend, vf, fault>>

(* Report: unconditional, and a completion is not handed on. A failure is  *)
(* reported and retried from the start when the unit restarts.             *)
InBandReport(n, d, ok) ==
    /\ ag[n] = "applying" /\ ~snap[n]
    /\ IF ok THEN UNCHANGED fault ELSE Fault
    /\ ag' = [ag EXCEPT ![n] = IF ok THEN "finished" ELSE "checkin"]
    /\ LET s2 == [st EXCEPT ![n] = IF ok THEN "done" ELSE "error"]
       IN  IF d THEN SetState(s2) /\ (IF ok THEN maybeVerifyCluster(s2) ELSE UNCHANGED vf)
                ELSE UNCHANGED <<st, everDone, vf>>
    /\ UNCHANGED <<inBandUnch, pend>>

-----------------------------------------------------------------------------
(* The operator *)

operUnch == <<gen, runMode, bmcVars, nodeVars, obs, vf>>

(* "Next" of a manual deploy. *)
AdvanceStep ==
    /\ Manual /\ step < StepSetReady /\ canAdvance
    /\ step' = step + 1
    /\ writeGos([n \in Nodes |->
           CASE step' = StepRestore     -> {RESTORE}
             [] step' = StepReboot      -> {REBOOT}
             [] step' = StepApplyMaster -> IF n = Master THEN {APPLY} ELSE {}
             [] step' = StepApplyRest   -> IF n # Master THEN {APPLY} ELSE {}
             [] step' = StepSetReady    -> IF n = Master THEN {SETREADY} ELSE {}])
    /\ UNCHANGED <<operUnch, live, startPc, left, rn, reg, st, pf, rekick, ack,
                   srDone, clusterReady, known, ready, pend, polls, stamp,
                   histVars, fault>>

(* Mutant: finished nodes are marked too. *)
Cancel_All ==
    /\ "cancel" \in Operator /\ reg # 0
    /\ live' = {}
    /\ SetState([n \in Nodes |-> "error"])
    /\ UNCHANGED <<operUnch, startPc, left, rn, reg, step, pf, rekick, ledger,
                   ack, srDone, clusterReady, known, ready, wr, pend, polls,
                   stamp, released, fault>>

(* Cancel stops the run's goroutines and marks every unfinished node; it   *)
(* tells the nodes nothing and leaves the gates and their writers alone.   *)
Cancel ==
    /\ "cancel" \in Operator /\ reg # 0
    /\ live' = {}
    /\ SetState([n \in Nodes |-> IF terminal(st[n]) THEN st[n] ELSE "error"])
    /\ UNCHANGED <<operUnch, startPc, left, rn, reg, step, pf, rekick, ledger,
                   ack, srDone, clusterReady, known, ready, wr, pend, polls,
                   stamp, released, fault>>

(* Release one node's apply by hand; the write is not confirmed. Bound: an *)
(* operator does it once per node and run.                                 *)
ReleaseNode(n) ==
    /\ "release" \in Operator /\ known /\ n \notin released
    /\ ledger' = IF reg = 0 THEN ledger ELSE [ledger EXCEPT ![n] = @ \cup {APPLY}]
    /\ released' = released \cup {n}
    /\ wr' = wr \cup {[run |-> reg, node |-> n,
                       stages |-> IF reg = 0 THEN {APPLY} ELSE ledger'[n],
                       acks |-> FALSE, pc |-> "write"]}
    /\ UNCHANGED <<operUnch, live, startPc, left, rn, reg, step, st, pf, rekick,
                   ack, srDone, clusterReady, known, ready, pend, polls, stamp,
                   everDone, fault>>

RekickPreflight(n) ==
    /\ "rekick" \in Operator /\ reg # 0 /\ rekick[n] < MaxRekicks
    /\ st[n] \in {"netbooting", "preflighting", "preflight-ok"}
    /\ rekick' = [rekick EXCEPT ![n] = @ + 1]
    /\ pf' = [pf EXCEPT ![n] = IF @ = "none" THEN @ ELSE "fail"]
    /\ SetState([st EXCEPT ![n] = "preflighting"])
    /\ UNCHANGED <<operUnch, live, startPc, left, rn, reg, step, ledger, ack,
                   srDone, clusterReady, known, ready, wr, pend, polls, stamp,
                   released, fault>>

(* The driver process restarts: records live on disk but no run is         *)
(* resumed, and no agent's report finds its record again.                  *)
DriverRestart ==
    /\ "restart" \in Operator /\ gen > 0 /\ Fault
    /\ reg' = 0 /\ live' = {} /\ known' = FALSE
    /\ wr' = {} /\ pend' = {} /\ polls' = {} /\ stamp' = {}
    /\ obs' = {} /\ vf' = {}
    /\ startPc' = [g \in Runs |-> IF startPc[g] = "none" THEN "none" ELSE "dead"]
    /\ UNCHANGED <<gen, runMode, bmcVars, nodeVars, left, rn, step, st, pf,
                   rekick, ledger, ack, srDone, clusterReady, ready, histVars>>

-----------------------------------------------------------------------------
StartStep(g) ==
    \/ \E n \in Nodes : StartClear(g, n)
    \/ StartArm(g) \/ StartFlip(g)

RunStep(g, n) ==
    \/ RunBegin(g, n) \/ RunPreflight(g, n) \/ RunSetBootPXE(g, n)
    \/ RunPowerCycle(g, n) \/ RunPoll(g, n)

Delivery(n) == IF n \in Lossy THEN BOOLEAN ELSE {TRUE}

AgentStep(n) ==
    \/ \E d \in Delivery(n), b \in BOOLEAN :
          \/ PreflightCheckin(n, d, b) \/ PreflightRound(n, d, b)
          \/ AgentSetReady(n, d, b)
          \/ InBandCheckin(n, d, b) \/ InBandReport(n, d, b)
    \/ \E d \in Delivery(n) :
          \/ AgentRestore(n, d) \/ AgentRestored(n, d) \/ AgentUp(n, d)
          \/ AgentApplied(n, d) \/ AgentApplyFailed(n, d)
          \/ InBandApply(n, d)
    \/ AgentReboot(n) \/ AgentApply(n) \/ AgentApplyReboot(n) \/ AgentInBand(n)

Next ==
    \/ \E m \in Modes : Start(m)
    \/ \E g \in Runs : StartStep(g)
    \/ \E g \in Runs, n \in Nodes : RunStep(g, n)
    \/ \E w \in wr : GateWrite(w) \/ GateAck(w)
    \/ \E g \in Runs, n \in Nodes : Reconcile(g, n) \/ PollObserve(g, n)
    \/ \E n \in Nodes : SelLost(n)
    \/ \E o \in obs : PollMerge(o)
    \/ \E g \in Runs : PollEnd(g)
    \/ \E c \in pend : HandOff(c)
    \/ \E g \in vf, ok \in BOOLEAN : VerifyEnd(g, ok)
    \/ \E n \in Nodes : AgentStep(n) \/ StampBootDisk(n) \/ StampGivesUp(n)
    \/ AdvanceStep \/ Cancel
    \/ \E n \in Nodes : ReleaseNode(n) \/ RekickPreflight(n)
    \/ DriverRestart

Spec == Init /\ [][Next]_vars

(* The program's goroutines and the agents keep running: every loop of     *)
(* theirs ticks again, a call that can return returns, a round of checks   *)
(* passes in the end. The poll visits every node of a tick in turn, which  *)
(* is strong fairness for each of them. Nothing is assumed of the operator *)
(* or of the environment's failures.                                       *)
AgentProgress(n) ==
    \/ \E d \in Delivery(n) :
          \/ PreflightCheckin(n, d, TRUE) \/ PreflightRound(n, d, TRUE)
          \/ AgentRestore(n, d) \/ AgentRestored(n, d) \/ AgentUp(n, d)
          \/ AgentApplied(n, d) \/ AgentSetReady(n, d, TRUE)
          \/ InBandCheckin(n, d, TRUE) \/ InBandApply(n, d)
          \/ InBandReport(n, d, TRUE)
    \/ AgentReboot(n) \/ AgentApply(n) \/ AgentInBand(n)

Fairness ==
    /\ \A g \in Runs :
          /\ WF_vars(StartStep(g)) /\ WF_vars(PollEnd(g))
          /\ \A n \in Nodes : /\ WF_vars(RunStep(g, n))
                              /\ WF_vars(Reconcile(g, n))
                              /\ SF_vars(PollObserve(g, n))
    /\ \A n \in Nodes :
          /\ WF_vars(\E w \in wr : w.node = n /\ (GateWrite(w) \/ GateAck(w)))
          /\ WF_vars(StampBootDisk(n)) /\ WF_vars(AgentProgress(n))
    /\ WF_vars(\E o \in obs : PollMerge(o))
    /\ WF_vars(\E c \in pend : HandOff(c))
    /\ WF_vars(\E g \in vf, ok \in BOOLEAN : VerifyEnd(g, ok))

FairSpec == Spec /\ Fairness

-----------------------------------------------------------------------------
(* Properties. Those about a first run say nothing once Start was called   *)
(* again: a goroutine of the first run may then act on the second record.  *)

FirstRun == gen <= 1

Applied == {n \in Nodes : ag[n] \in {"waitready", "finished"}}
ApplyBegun == {n \in Nodes : ag[n] \in {"applying", "waitready", "finished", "failed"}}

(* Who may be told what: apply, for a node other than the master, once the *)
(* master has applied or the operator released it; set_ready, once every   *)
(* node has applied.                                                       *)
Entitled(n, s) ==
    /\ s = APPLY /\ n # Master => Master \in Applied \/ n \in released
    /\ s = SETREADY => Applied = Nodes

(* Master first, on the nodes themselves: no other node begins its apply   *)
(* before the master finished its own (releasePeersOnMasterDone, CheckIn,  *)
(* AdvanceStep), except one the operator released.                         *)
MasterFirst ==
    FirstRun => \A n \in ApplyBegun \ {Master} : Master \in Applied \/ n \in released

(* The record shows a node done only if its apply really ended well on the *)
(* node, whichever of the two channels reported it (Applied, Report,       *)
(* MergeSEL).                                                              *)
DoneIsReal ==
    FirstRun /\ reg # 0 => \A n \in Nodes : st[n] = "done" => n \in Applied

(* cluster set_ready runs only against a complete cluster: every node has  *)
(* applied when the master leaves its set_ready gate (runSetReady).        *)
FinalizeLast ==
    [][\A n \in Nodes : FirstRun /\ ag[n] = "waitready" /\ ag'[n] = "finished"
                            => Applied = Nodes]_vars

(* "Next" is accepted only when the nodes themselves have finished the     *)
(* step before, not just their records (canAdvance): restored before the   *)
(* reboot gate, up before the master's apply, unless the operator released *)
(* the node and it is rebooting for its apply, applied before the last two.*)
NextIsSafe ==
    [][FirstRun /\ reg' = reg /\ step' # step =>
         /\ step = StepRestore => \A n \in Nodes : ag[n] \notin
                {"off", "pxe", "preflight", "passed", "restoring"}
         /\ step = StepReboot => \A n \in Nodes \ released : ag[n] \notin
                {"off", "pxe", "preflight", "passed", "restoring", "restored", "osboot"}
         /\ step = StepApplyMaster => Master \in Applied
         /\ step = StepApplyRest => Applied = Nodes]_vars

(* A stage counts as confirmed only if it was authorized, and, as long as  *)
(* nothing failed, only once a read of the SEL would find it (WriteGate's  *)
(* read-back, ackGates).                                                   *)
AckIsTrue ==
    FirstRun => \A n \in Nodes : /\ ack[n] \subseteq ledger[n]
                                 /\ fault = 0 => ack[n] \subseteq Present(n)

(* Done is final while the record is the same: neither a late report, an   *)
(* out-of-band record, a failing IPMI stage nor Cancel takes it back.      *)
DoneIsFinal ==
    [][FirstRun /\ reg # 0 /\ reg' = reg =>
         \A n \in Nodes : st[n] = "done" => st'[n] = "done"]_vars

(* A Start that aborts on a busy PXE lock never takes down the record of a *)
(* Start that superseded it (the identity check after flipForBoot).        *)
AbortSparesSuccessor ==
    [][reg # 0 /\ reg' = 0 => startPc'[reg] = "dead"]_vars

(* The reconciler brings every authorized gate back to the BMC of a node   *)
(* that is still working towards done, whatever writes fail or records are *)
(* lost on the way (runGateReconciler).                                    *)
LostGatesReturn ==
    \A n \in Nodes, s \in Stages :
        s \in ledger[n] ~>
            s \in Present(n) \/ terminal(st[n]) \/ reg = 0 \/ live = {}

(* An auto deploy ends with every node done and the cluster set ready.     *)
AutoCompletes == reg # 0 ~> AllDone /\ ready

(* The inductive invariant behind MasterFirst, DoneIsReal and FinalizeLast. *)
(* Every place an order to a node passes through (the ledger, a write in    *)
(* flight, the SEL, the node) holds only what the node is entitled to, and  *)
(* every place the news of a completion passes through (the SEL's status,   *)
(* a poll's reading, the record, a hand-off) holds only true news.          *)
Started == \A g \in Runs : startPc[g] # "none" => g <= gen
Pristine ==
    gen = 0 => /\ reg = 0 /\ ~known /\ wr = {} /\ obs = {} /\ pend = {}
               /\ released = {}
               /\ \A n \in Nodes : ag[n] = "off" /\ sel[n] = {} /\ oob[n] = NoStatus
Unpowered ==
    \A g \in Runs, n \in Nodes :
        g <= gen /\ rn[g][n] \in {"idle", "bmc", "boot", "power"} => ag[n] = "off"
OrdersSound ==
    /\ \A n \in Nodes : \A s \in ledger[n] : Entitled(n, s)
    /\ \A w \in wr : \A s \in w.stages : Entitled(w.node, s)
    /\ \A n \in Nodes : \A r \in sel[n] : Entitled(n, r[1])
    /\ \A n \in ApplyBegun : Entitled(n, APPLY)
NewsSound ==
    /\ \A n \in Nodes : reg # 0 /\ st[n] = "done" => n \in Applied
    /\ \A n \in Nodes : oob[n] \in {"applied", "ready-ok"} => n \in Applied
    /\ \A o \in obs : o.status \in {"applied", "ready-ok"} => o.node \in Applied
    /\ \A c \in pend : c.node \in Applied
RolloutInv ==
    /\ Started /\ Pristine
    /\ FirstRun => Unpowered /\ OrdersSound /\ NewsSound

-----------------------------------------------------------------------------
(* A claim of the code's comments that its steps do not keep up.           *)

(* reportRestoreDone: the HTTP report of a finished restore "never gates": *)
(* with or without it the reboot leads into the installed system.          *)
RebootsToDisk ==
    [][\A n \in Nodes : ag[n] = "restored" /\ ag'[n] # "restored"
                            => ag'[n] = "osboot"]_vars

-----------------------------------------------------------------------------
(* The deploy implements Rollout. *)
phaseOf == [n \in Nodes |->
    CASE n \in Applied -> "applied"
      [] ag[n] = "applying" -> "applying"
      [] ag[n] = "failed" -> "failed"
      [] OTHER -> "waiting"]
finalized == \E n \in Nodes : ag[n] = "finished" /\ agMaster[n] /\ snap[n]

R == INSTANCE Rollout WITH phase <- phaseOf, excused <- released,
                           final <- finalized
RolloutSpec == R!Spec
=============================================================================
