---------------------------- MODULE RolloutProofs ----------------------------
(***************************************************************************)
(* The master-first and finalize-last guarantees of a first run, for every *)
(* number of nodes and every value of the bounds.                          *)
(***************************************************************************)
EXTENDS DeployProofs

(* An entitlement lasts as long as no node's apply is undone. *)
LEMMA Stable ==
    ASSUME Applied \subseteq Applied', released \subseteq released'
    PROVE  \A n, s : Entitled(n, s) => Entitled(n, s)'
BY DEF Entitled, Applied

(* A call of Start that was begun is, in a first run, the current one. *)
LEMMA Begun ==
    ASSUME Started, TypeOK, NEW g \in Runs, startPc[g] # "none"
    PROVE  gen >= 1 /\ (FirstRun => g = gen)
BY Bounds DEF Started, TypeOK, RunTypeOK, Runs, FirstRun

(* A step of the driver, its BMC writers or the operator: nothing happens  *)
(* on a node.                                                              *)
LEMMA DriverMove ==
    ASSUME RolloutInv, gen' = gen, ag' = ag, released \subseteq released',
           gen = 0 => Pristine',
           \A g \in Runs : startPc'[g] # "none" => startPc[g] # "none",
           FirstRun =>
             /\ \A g \in Runs, n \in Nodes :
                  rn'[g][n] \in {"idle", "bmc", "boot", "power"}
                     => rn[g][n] \in {"idle", "bmc", "boot", "power"}
             /\ \A n \in Nodes : \A s \in ledger'[n] : Entitled(n, s) \/ Entitled(n, s)'
             /\ \A w \in wr' : \A s \in w.stages : Entitled(w.node, s) \/ Entitled(w.node, s)'
             /\ \A n \in Nodes : \A r \in sel'[n] : Entitled(n, r[1])
             /\ \A n \in Nodes : reg' # 0 /\ st'[n] = "done" => n \in Applied
             /\ \A n \in Nodes : oob'[n] \in {"applied", "ready-ok"} => n \in Applied
             /\ \A o \in obs' : o.status \in {"applied", "ready-ok"} => o.node \in Applied
             /\ \A c \in pend' : c.node \in Applied
    PROVE  RolloutInv'
<1>1. Applied' = Applied /\ ApplyBegun' = ApplyBegun
  BY DEF Applied, ApplyBegun
<1>2. \A n, s : Entitled(n, s) => Entitled(n, s)'
  BY <1>1, Stable
<1>3. Started' /\ Pristine'
  BY DEF RolloutInv, Started, Pristine
<1>4. ASSUME FirstRun' PROVE Unpowered' /\ OrdersSound' /\ NewsSound'
  <2>1. FirstRun /\ Unpowered /\ OrdersSound
    BY <1>4 DEF RolloutInv, FirstRun
  <2>2. Unpowered'
    BY <2>1 DEF Unpowered
  <2>3. OrdersSound'
    BY <1>1, <1>2, <2>1 DEF OrdersSound
  <2>4. NewsSound'
    BY <1>1, <2>1 DEF NewsSound
  <2> QED BY <2>2, <2>3, <2>4
<1> QED BY <1>3, <1>4 DEF RolloutInv

(* A step of node n's agent, which goes on to phase x. *)
LEMMA AgentMove ==
    ASSUME TypeOK, RolloutInv, NEW n \in Nodes, NEW x, ag[n] # "off", x # "off",
           ag' = [ag EXCEPT ![n] = x],
           UNCHANGED <<gen, reg, known, startPc, rn, ledger, wr, obs, sel, released>>,
           n \in Applied => x \in {"waitready", "finished"},
           FirstRun /\ x \in {"applying", "waitready", "finished", "failed"}
              => Entitled(n, APPLY),
           \A k \in Nodes : reg # 0 /\ st'[k] = "done"
              => st[k] = "done" \/ (k = n /\ x \in {"waitready", "finished"}),
           \A k \in Nodes : oob'[k] \in {"applied", "ready-ok"}
              => \/ oob[k] \in {"applied", "ready-ok"}
                 \/ k = n /\ x \in {"waitready", "finished"},
           \A c \in pend' : c \in pend \/ (c.node = n /\ x \in {"waitready", "finished"})
    PROVE  RolloutInv'
<1>1. ag \in [Nodes -> AgentPhase]
  BY DEF TypeOK, NodeTypeOK
<1>2. Applied' = IF x \in {"waitready", "finished"} THEN Applied \cup {n} ELSE Applied
  BY <1>1 DEF Applied
<1>3. ApplyBegun' \subseteq
         IF x \in {"applying", "waitready", "finished", "failed"}
         THEN ApplyBegun \cup {n} ELSE ApplyBegun
  BY <1>1 DEF ApplyBegun
<1>4. \A k, s : Entitled(k, s) => Entitled(k, s)'
  BY <1>2, Stable
<1>5. gen # 0
  BY DEF RolloutInv, Pristine
<1>6. Started' /\ Pristine'
  BY <1>5 DEF RolloutInv, Started, Pristine
<1>7. ASSUME FirstRun' PROVE Unpowered' /\ OrdersSound' /\ NewsSound'
  <2>1. FirstRun /\ Unpowered /\ OrdersSound /\ NewsSound
    BY <1>7 DEF RolloutInv, FirstRun
  <2>2. Unpowered'
    BY <1>1, <2>1 DEF Unpowered
  <2>3. OrdersSound'
    BY <1>3, <1>4, <2>1 DEF OrdersSound
  <2>4. NewsSound'
    BY <1>2, <2>1 DEF NewsSound
  <2> QED BY <2>2, <2>3, <2>4
<1> QED BY <1>6, <1>7 DEF RolloutInv

(* Gates handed to writeGosAsync that a node is entitled to leave only     *)
(* sound orders: granted, in flight and in the SEL.                        *)
LEMMA writeGosSound ==
    ASSUME RecTypeOK, OrdersSound, NEW grants \in [Nodes -> SUBSET Stages],
           writeGos(grants),
           reg # 0 => \A n \in Nodes : \A s \in grants[n] : Entitled(n, s)
    PROVE  /\ \A n \in Nodes : \A s \in ledger'[n] : Entitled(n, s)
           /\ \A w \in wr' : \A s \in w.stages : Entitled(w.node, s)
<1> DEFINE led == [n \in Nodes |-> ledger[n] \cup grants[n]]
<1>1. reg # 0 => \A n \in Nodes : \A s \in led[n] : Entitled(n, s)
  BY DEF OrdersSound
<1>2. ledger' = IF reg = 0 THEN ledger ELSE led
  BY DEF writeGos
<1>3. wr' = wr \cup {[run |-> reg, node |-> n, stages |-> led[n],
                     acks |-> TRUE, pc |-> "write"] :
                    n \in {k \in Nodes : grants[k] # {} /\ reg # 0}}
  BY DEF writeGos
<1> HIDE DEF led
<1>4. \A n \in Nodes : \A s \in ledger'[n] : Entitled(n, s)
  BY <1>1, <1>2 DEF OrdersSound
<1>5. ASSUME NEW w \in wr' PROVE \A s \in w.stages : Entitled(w.node, s)
  <2>1. CASE w \in wr
    BY <2>1 DEF OrdersSound
  <2>2. CASE w \notin wr
    <3>1. PICK n \in Nodes : w = [run |-> reg, node |-> n, stages |-> led[n],
                                  acks |-> TRUE, pc |-> "write"]
      BY <1>3, <2>2
    <3>2. reg # 0 /\ w.node = n /\ w.stages = led[n]
      BY <1>3, <2>2, <3>1
    <3> QED BY <1>1, <3>2
  <2> QED BY <2>1, <2>2
<1> QED BY <1>4, <1>5

(* Only done ranks as far as the last step. *)
LEMMA RankDone == ASSUME NEW s \in State, pipelineRank[s] >= 7 PROVE s = "done"
BY DEF pipelineRank, State

(* RolloutInv depends on the listed variables only. *)
LEMMA Frame ==
    ASSUME RolloutInv,
           UNCHANGED <<gen, reg, known, st, startPc, rn, ledger, wr, obs, pend, ag, sel, oob,
                       released>>
    PROVE  RolloutInv'
BY DEF RolloutInv, Started, Pristine, FirstRun, Unpowered, OrdersSound, NewsSound,
       Entitled, Applied, ApplyBegun

(* When runNode moves on, no node returns to a place before its netboot. *)
LEMMA RunToEarly ==
    ASSUME RunTypeOK, NEW g \in Runs, NEW n \in Nodes, NEW pc, RunTo(g, n, pc),
           rn[g][n] \in {"idle", "bmc", "boot", "power"} \/
              pc \notin {"idle", "bmc", "boot", "power"}
    PROVE  \A k \in Runs, j \in Nodes :
              rn'[k][j] \in {"idle", "bmc", "boot", "power"}
                 => rn[k][j] \in {"idle", "bmc", "boot", "power"}
BY DEF RunTo, RunTypeOK

(* MergeSEL shows done only if the record or the status said done. *)
LEMMA MergedDone ==
    ASSUME NEW s, NEW x \in Status, Merged(s, x) = "done"
    PROVE  s = "done" \/ x \in {"applied", "ready-ok"}
BY DEF Merged, selState, Status

(* Nothing is ordered and nothing is reported at the start. *)
LEMMA RolloutInv_Init == Init => RolloutInv
<1> SUFFICES ASSUME Init PROVE RolloutInv
  OBVIOUS
<1>1. Started /\ Pristine
  BY DEF Init, Started, Pristine
<1>2. Unpowered
  BY DEF Init, Unpowered
<1>3. OrdersSound
  BY DEF Init, OrdersSound, ApplyBegun
<1>4. NewsSound
  BY DEF Init, NewsSound, NoStatus
<1> QED BY <1>1, <1>2, <1>3, <1>4 DEF RolloutInv

(* Every step keeps orders and news sound, one case per action. *)
LEMMA RolloutInv_Next ==
    ASSUME Master \in Nodes, TypeOK, RolloutInv, [Next]_vars
    PROVE  RolloutInv'
<1> USE DEF TypeOK
<1>1. ASSUME NEW b \in Modes, Start(b)
      PROVE  RolloutInv'
  <2>1. gen' = gen + 1 /\ gen \in Nat
    BY <1>1, Bounds DEF Start, RunTypeOK
  <2>2. Started'
    <3>1. \A g \in Runs : startPc'[g] # "none" => startPc[g] # "none" \/ g = gen'
      BY <1>1 DEF Start, RunTypeOK
    <3> QED BY <2>1, <3>1 DEF RolloutInv, Started, Runs
  <2>3. Pristine'
    BY <2>1 DEF Pristine
  <2>4. ASSUME FirstRun' PROVE Unpowered' /\ OrdersSound' /\ NewsSound'
    <3>1. gen = 0 /\ UNCHANGED <<wr, sel, ag, oob, obs, pend>>
      BY <1>1, <2>1, <2>4 DEF Start, FirstRun, bmcVars, nodeVars
    <3>2. /\ wr = {} /\ obs = {} /\ pend = {}
          /\ \A n \in Nodes : ag[n] = "off" /\ sel[n] = {} /\ oob[n] = NoStatus
      BY <3>1 DEF RolloutInv, Pristine
    <3>3. Unpowered'
      BY <3>1, <3>2 DEF Unpowered
    <3>4. OrdersSound'
      BY <1>1, <3>1, <3>2 DEF OrdersSound, ApplyBegun, Start
    <3>5. NewsSound'
      BY <1>1, <3>1, <3>2 DEF NewsSound, NoStatus, Start
    <3> QED BY <3>3, <3>4, <3>5
  <2> QED BY <2>2, <2>3, <2>4 DEF RolloutInv
<1>2. ASSUME NEW g \in Runs, NEW n \in Nodes, StartClear(g, n)
      PROVE  RolloutInv'
  <2>1. gen >= 1
    BY <1>2, Begun DEF RolloutInv, StartClear
  <2>2. /\ UNCHANGED <<gen, reg, st, ledger, wr, obs, pend, rn, ag, released>>
        /\ \A k \in Runs : startPc'[k] # "none" => startPc[k] # "none"
        /\ \A k \in Nodes : sel'[k] \subseteq sel[k]
        /\ \A k \in Nodes : oob'[k] \in {oob[k], NoStatus}
    BY <1>2 DEF StartClear, RunTypeOK, BmcTypeOK, recVars, drvVars, nodeVars, histVars
  <2>3. FirstRun => OrdersSound /\ NewsSound
    BY DEF RolloutInv
  <2> QED BY <2>1, <2>2, <2>3, DriverMove DEF OrdersSound, NewsSound, NoStatus
<1>3. ASSUME NEW g \in Runs, StartArm(g)
      PROVE  RolloutInv'
  <2> DEFINE grants == [n \in Nodes |-> IF n = Master THEN {RESTORE, REBOOT, APPLY}
                                                    ELSE {RESTORE, REBOOT}]
  <2>1. gen >= 1
    BY <1>3, Begun DEF RolloutInv, StartArm
  <2>2. /\ UNCHANGED <<gen, reg, st, obs, pend, rn, ag, sel, oob, released>>
        /\ \A k \in Runs : startPc'[k] # "none" => startPc[k] # "none"
        /\ UNCHANGED <<ledger, wr>> \/ writeGos(grants)
    BY <1>3 DEF StartArm, RunTypeOK, bmcVars, nodeVars, histVars
  <2>3. FirstRun => OrdersSound /\ NewsSound
    BY DEF RolloutInv
  <2>4. /\ grants \in [Nodes -> SUBSET Stages]
        /\ \A n \in Nodes : \A s \in grants[n] : Entitled(n, s)
    BY StageMembers DEF Entitled, RESTORE, REBOOT, APPLY, SETREADY
  <2> HIDE DEF grants
  <2>5. FirstRun => /\ \A n \in Nodes : \A s \in ledger'[n] : Entitled(n, s)
                    /\ \A w \in wr' : \A s \in w.stages : Entitled(w.node, s)
    BY <2>2, <2>3, <2>4, writeGosSound DEF OrdersSound
  <2> QED BY <2>1, <2>2, <2>3, <2>5, DriverMove DEF OrdersSound, NewsSound
<1>4. ASSUME NEW g \in Runs, StartFlip(g)
      PROVE  RolloutInv'
  <2>1. gen >= 1
    BY <1>4, Begun DEF RolloutInv, StartFlip
  <2>2. /\ UNCHANGED <<gen, st, ledger, wr, obs, pend, rn, ag, sel, oob, released>>
        /\ \A k \in Runs : startPc'[k] # "none" => startPc[k] # "none"
        /\ reg' \in {reg, 0}
    BY <1>4 DEF StartFlip, RunTypeOK, bmcVars, nodeVars, histVars
  <2>3. FirstRun => OrdersSound /\ NewsSound
    BY DEF RolloutInv
  <2> QED BY <2>1, <2>2, <2>3, DriverMove DEF OrdersSound, NewsSound
<1>5. ASSUME NEW g \in Runs, NEW n \in Nodes, RunBegin(g, n)
      PROVE  RolloutInv'
  <2>1. gen >= 1
    BY <1>5, Begun DEF RolloutInv, RunBegin, RunAt
  <2>2. /\ UNCHANGED <<gen, reg, startPc, ledger, wr, obs, pend, ag, sel, oob, released>>
        /\ \A k \in Nodes : st'[k] = "done" => st[k] = "done"
    BY <1>5 DEF RunBegin, SetState, Advanced, RecTypeOK, runUnch, drvVars, nodeVars
  <2>3. \A k \in Runs, j \in Nodes :
           rn'[k][j] \in {"idle", "bmc", "boot", "power"}
              => rn[k][j] \in {"idle", "bmc", "boot", "power"}
    BY <1>5, RunToEarly DEF RunBegin, RunAt
  <2>4. FirstRun => OrdersSound /\ NewsSound
    BY DEF RolloutInv
  <2> QED BY <2>1, <2>2, <2>3, <2>4, DriverMove DEF OrdersSound, NewsSound
<1>6. ASSUME NEW g \in Runs, NEW n \in Nodes, RunPreflight(g, n)
      PROVE  RolloutInv'
  <2>1. gen >= 1
    BY <1>6, Begun DEF RolloutInv, RunPreflight, RunAt
  <2>2. /\ UNCHANGED <<gen, reg, startPc, ledger, wr, obs, pend, ag, sel, oob, released>>
        /\ \A k \in Nodes : st'[k] = "done" => st[k] = "done"
    BY <1>6 DEF RunPreflight, SetState, Advanced, RecTypeOK, runUnch, drvVars, nodeVars
  <2>3. \A k \in Runs, j \in Nodes :
           rn'[k][j] \in {"idle", "bmc", "boot", "power"}
              => rn[k][j] \in {"idle", "bmc", "boot", "power"}
    BY <1>6, RunToEarly DEF RunPreflight, RunAt
  <2>4. FirstRun => OrdersSound /\ NewsSound
    BY DEF RolloutInv
  <2> QED BY <2>1, <2>2, <2>3, <2>4, DriverMove DEF OrdersSound, NewsSound
<1>7. ASSUME NEW g \in Runs, NEW n \in Nodes, RunSetBootPXE(g, n)
      PROVE  RolloutInv'
  <2>1. gen >= 1
    BY <1>7, Begun DEF RolloutInv, RunSetBootPXE, RunAt
  <2>2. /\ UNCHANGED <<gen, reg, startPc, ledger, wr, obs, pend, ag, sel, oob, released>>
        /\ \A k \in Nodes : st'[k] = "done" => st[k] = "done"
    BY <1>7 DEF RunSetBootPXE, SetState, Advanced, RecTypeOK, runUnch, drvVars, nodeVars
  <2>3. \A k \in Runs, j \in Nodes :
           rn'[k][j] \in {"idle", "bmc", "boot", "power"}
              => rn[k][j] \in {"idle", "bmc", "boot", "power"}
    BY <1>7, RunToEarly DEF RunSetBootPXE, RunAt
  <2>4. FirstRun => OrdersSound /\ NewsSound
    BY DEF RolloutInv
  <2> QED BY <2>1, <2>2, <2>3, <2>4, DriverMove DEF OrdersSound, NewsSound
<1>8. ASSUME NEW g \in Runs, NEW n \in Nodes, RunPowerCycle(g, n)
      PROVE  RolloutInv'
  <2>1. gen >= 1 /\ (FirstRun => g = gen)
    BY <1>8, Begun DEF RolloutInv, RunPowerCycle, RunAt
  <2>2. /\ UNCHANGED <<gen, reg, startPc, ledger, wr, obs, pend, sel, oob, released>>
        /\ \A k \in Nodes : st'[k] = "done" => st[k] = "done"
        /\ ag' = ag \/ \E x \in {"pxe", "off"} : ag' = [ag EXCEPT ![n] = x]
    <3>1. /\ UNCHANGED <<gen, reg, startPc, ledger, wr, obs, pend, sel, oob, released>>
          /\ \A k \in Nodes : st'[k] = "done" => st[k] = "done"
      BY <1>8 DEF RunPowerCycle, SetState, Advanced, RecTypeOK, runUnch, drvVars
    <3>2. (\E up \in BOOLEAN : PowerCycled(g, n, up)) \/ UNCHANGED nodeVars
      BY <1>8 DEF RunPowerCycle
    <3>3. ASSUME NEW up \in BOOLEAN, PowerCycled(g, n, up)
          PROVE  \E x \in {"pxe", "off"} : ag' = [ag EXCEPT ![n] = x]
      BY <3>3, Zenon DEF PowerCycled
    <3> QED BY <3>1, <3>2, <3>3 DEF nodeVars
  <2>3. /\ rn[g][n] = "power" /\ rn'[g][n] \notin {"idle", "bmc", "boot", "power"}
        /\ \A k \in Runs, j \in Nodes : <<k, j>> # <<g, n>> => rn'[k][j] = rn[k][j]
    <3>1. RunAt(g, n, "power") /\ (RunTo(g, n, "poll") \/ RunTo(g, n, "end"))
      BY <1>8 DEF RunPowerCycle
    <3> QED BY <3>1 DEF RunAt, RunTo, RunTypeOK
  <2>4. Started' /\ Pristine'
    BY <2>1, <2>2 DEF RolloutInv, Started, Pristine
  <2>5. ASSUME FirstRun' PROVE Unpowered' /\ OrdersSound' /\ NewsSound'
    <3>1. FirstRun /\ g = gen /\ Unpowered /\ OrdersSound /\ NewsSound
      BY <2>1, <2>2, <2>5 DEF RolloutInv, FirstRun
    <3>2. ag[n] = "off"
      BY <2>1, <2>3, <3>1 DEF Unpowered, RunTypeOK
    <3>3. Applied' = Applied /\ ApplyBegun' = ApplyBegun
      BY <2>2, <3>2 DEF Applied, ApplyBegun, NodeTypeOK
    <3>4. Unpowered'
      <4> SUFFICES ASSUME NEW k \in Runs, NEW j \in Nodes, k <= gen,
                          rn'[k][j] \in {"idle", "bmc", "boot", "power"}
                   PROVE  ag'[j] = "off"
        BY <2>2 DEF Unpowered
      <4>1. k = g
        BY <3>1, Bounds DEF Runs, RunTypeOK, FirstRun
      <4>2. j # n /\ rn[k][j] = rn'[k][j]
        BY <2>3, <4>1
      <4> QED BY <2>2, <3>1, <4>2 DEF Unpowered, NodeTypeOK
    <3>5. OrdersSound'
      BY <2>2, <3>1, <3>3, Stable DEF OrdersSound
    <3>6. NewsSound'
      BY <2>2, <3>1, <3>3 DEF NewsSound
    <3> QED BY <3>4, <3>5, <3>6
  <2> QED BY <2>4, <2>5 DEF RolloutInv
<1>9. ASSUME NEW g \in Runs, NEW n \in Nodes, RunPoll(g, n)
      PROVE  RolloutInv'
  <2>1. gen >= 1
    BY <1>9, Begun DEF RolloutInv, RunPoll, RunAt
  <2>2. /\ UNCHANGED <<gen, reg, startPc, ledger, wr, obs, pend, ag, sel, oob, released>>
        /\ \A k \in Nodes : st'[k] = "done" => st[k] = "done"
    BY <1>9 DEF RunPoll, SetState, Advanced, RecTypeOK, runUnch, drvVars, nodeVars
  <2>3. \A k \in Runs, j \in Nodes :
           rn'[k][j] \in {"idle", "bmc", "boot", "power"}
              => rn[k][j] \in {"idle", "bmc", "boot", "power"}
    BY <1>9, RunToEarly DEF RunPoll, RunAt
  <2>4. FirstRun => OrdersSound /\ NewsSound
    BY DEF RolloutInv
  <2> QED BY <2>1, <2>2, <2>3, <2>4, DriverMove DEF OrdersSound, NewsSound
<1>10. ASSUME NEW w \in wr, GateWrite(w)
      PROVE  RolloutInv'
  <2>1. gen # 0
    BY DEF RolloutInv, Pristine
  <2>2. UNCHANGED <<gen, reg, st, startPc, rn, ledger, obs, pend, ag, released>>
    BY <1>10 DEF GateWrite, gateUnch, runVars, nodeVars, histVars
  <2>3. w.node \in Nodes /\ w.stages \subseteq Stages
    BY DEF DrvTypeOK, Write
  <2>4. \A k \in Nodes : \A r \in sel'[k] :
           r \in sel[k] \/ (k = w.node /\ r[1] \in w.stages)
    BY <1>10, <2>3 DEF GateWrite, Added, BmcTypeOK
  <2>5. \A k \in Nodes : oob'[k] \in {oob[k], NoStatus}
    BY <1>10, <2>3 DEF GateWrite, BmcTypeOK
  <2>6. \A v \in wr' : v \in wr \/ (v.node = w.node /\ v.stages = w.stages)
    BY <1>10 DEF GateWrite, DrvTypeOK, Write
  <2>7. FirstRun => OrdersSound /\ NewsSound
    BY DEF RolloutInv
  <2> QED BY <2>1, <2>2, <2>3, <2>4, <2>5, <2>6, <2>7, DriverMove
          DEF OrdersSound, NewsSound, NoStatus
<1>11. ASSUME NEW w \in wr, GateAck(w)
      PROVE  RolloutInv'
  <2>1. gen # 0
    BY DEF RolloutInv, Pristine
  <2>2. /\ UNCHANGED <<gen, reg, st, startPc, rn, ledger, obs, pend, ag, sel, oob, released>>
        /\ wr' \subseteq wr
    BY <1>11 DEF GateAck, gateUnch, runVars, nodeVars, histVars
  <2>3. FirstRun => OrdersSound /\ NewsSound
    BY DEF RolloutInv
  <2> QED BY <2>1, <2>2, <2>3, DriverMove DEF OrdersSound, NewsSound
<1>12. ASSUME NEW g \in Runs, NEW n \in Nodes, Reconcile(g, n)
      PROVE  RolloutInv'
  <2>1. gen >= 1
    BY <1>12, Begun DEF RolloutInv, Reconcile
  <2>2. /\ UNCHANGED <<gen, reg, st, startPc, rn, ledger, obs, pend, ag, sel, oob, released>>
        /\ \A v \in wr' : v \in wr \/ (v.node = n /\ v.stages = ledger[n])
    BY <1>12 DEF Reconcile, gateUnch, runVars, nodeVars, histVars
  <2>3. FirstRun => OrdersSound /\ NewsSound
    BY DEF RolloutInv
  <2> QED BY <2>1, <2>2, <2>3, DriverMove DEF OrdersSound, NewsSound
<1>13. ASSUME NEW n \in Nodes, SelLost(n)
      PROVE  RolloutInv'
  <2>1. /\ UNCHANGED <<gen, reg, known, st, startPc, rn, ledger, wr, obs, pend, ag, released>>
        /\ \A k \in Nodes : sel'[k] \subseteq sel[k]
        /\ \A k \in Nodes : oob'[k] \in {oob[k], NoStatus}
    BY <1>13 DEF SelLost, gateUnch, runVars, nodeVars, histVars, BmcTypeOK
  <2>2. gen = 0 => Pristine'
    BY <2>1 DEF RolloutInv, Pristine
  <2>3. FirstRun => OrdersSound /\ NewsSound
    BY DEF RolloutInv
  <2> QED BY <2>1, <2>2, <2>3, DriverMove DEF OrdersSound, NewsSound, NoStatus
<1>14. ASSUME NEW g \in Runs, NEW n \in Nodes, PollObserve(g, n)
      PROVE  RolloutInv'
  <2>1. /\ UNCHANGED <<gen, reg, st, startPc, rn, ledger, wr, pend, ag, sel, oob, released>>
        /\ \A o \in obs' : o \in obs \/ (o.node = n /\ o.status = oob[n])
    BY <1>14 DEF PollObserve, pollUnch, runVars, recVars, bmcVars, nodeVars
  <2>2. gen # 0
    BY <1>14 DEF RolloutInv, Pristine, PollObserve
  <2>3. FirstRun => OrdersSound /\ NewsSound
    BY DEF RolloutInv
  <2> QED BY <2>1, <2>2, <2>3, DriverMove DEF OrdersSound, NewsSound
<1>15. ASSUME NEW g \in Runs, PollEnd(g)
      PROVE  RolloutInv'
  <2>1. UNCHANGED <<gen, reg, known, st, startPc, rn, ledger, wr, obs, pend, ag, sel, oob,
                    released>>
    BY <1>15 DEF PollEnd, pollUnch, runVars, recVars, bmcVars, nodeVars
  <2> QED BY <2>1, Frame
<1>16. ASSUME NEW o \in obs, PollMerge(o)
      PROVE  RolloutInv'
  <2>1. gen # 0
    BY DEF RolloutInv, Pristine
  <2>2. o.node \in Nodes /\ o.status \in Status
    BY DEF DrvTypeOK, Observation
  <2>3. /\ UNCHANGED <<gen, reg, startPc, rn, ledger, wr, ag, sel, oob, released>>
        /\ obs' \subseteq obs
    BY <1>16 DEF PollMerge, pollUnch, runVars, bmcVars, nodeVars
  <2>4. \A k \in Nodes : st'[k] = "done" =>
           st[k] = "done" \/ (k = o.node /\ o.status \in {"applied", "ready-ok"})
    BY <1>16, <2>2, MergedDone DEF PollMerge, SetState, RecTypeOK
  <2>5. \A c \in pend' : c \in pend \/
           (c.node = o.node /\ o.status \in {"applied", "ready-ok"})
    <3> DEFINE s2 == [st EXCEPT ![o.node] = Merged(@, o.status)]
    <3>1. CASE UNCHANGED pend
      BY <3>1
    <3>2. CASE s2 # st /\ s2[o.node] = "done" /\ Completed(o.node)
      <4>1. Merged(st[o.node], o.status) = "done" /\ st[o.node] # "done"
        BY <2>2, <3>2 DEF RecTypeOK
      <4>2. o.status \in {"applied", "ready-ok"}
        BY <2>2, <4>1, MergedDone
      <4>3. \A c \in pend' : c \in pend \/ c.node = o.node
        BY <3>2 DEF Completed
      <4> QED BY <4>2, <4>3
    <3> QED BY <1>16, <3>1, <3>2 DEF PollMerge
  <2>6. FirstRun => OrdersSound /\ NewsSound
    BY DEF RolloutInv
  <2> QED BY <2>1, <2>2, <2>3, <2>4, <2>5, <2>6, DriverMove DEF OrdersSound, NewsSound
<1>17. ASSUME NEW c \in pend, HandOff(c)
      PROVE  RolloutInv'
  <2> DEFINE release == c.node = Master /\ ~Manual /\ ~ManualGate
             arm == ~Manual /\ AllDone
             grants == [n \in Nodes |-> IF n = Master THEN (IF arm THEN {SETREADY} ELSE {})
                                       ELSE IF release THEN {APPLY} ELSE {}]
  <2>1. gen # 0
    BY DEF RolloutInv, Pristine
  <2>2. /\ UNCHANGED <<gen, reg, st, startPc, rn, obs, ag, sel, oob, released>>
        /\ pend' \subseteq pend
        /\ writeGos(grants)
    BY <1>17 DEF HandOff, pollUnch, runVars, bmcVars, nodeVars
  <2>3. FirstRun => OrdersSound /\ NewsSound
    BY DEF RolloutInv
  <2>4. grants \in [Nodes -> SUBSET Stages]
    BY StageMembers
  <2>5. FirstRun /\ reg # 0 => \A n \in Nodes : \A s \in grants[n] : Entitled(n, s)
    <3> SUFFICES ASSUME FirstRun, reg # 0, NEW n \in Nodes, NEW s \in grants[n]
                 PROVE  Entitled(n, s)
      OBVIOUS
    <3>1. CASE s = SETREADY
      <4>1. AllDone
        BY <3>1 DEF SETREADY, APPLY
      <4>2. Applied = Nodes
        BY <2>3, <4>1 DEF NewsSound, AllDone, Applied
      <4> QED BY <3>1, <4>2 DEF Entitled, SETREADY, APPLY
    <3>2. CASE s = APPLY
      <4>1. c.node = Master
        BY <3>2 DEF SETREADY, APPLY
      <4>2. Master \in Applied
        BY <2>3, <4>1 DEF NewsSound
      <4> QED BY <3>2, <4>2 DEF Entitled, SETREADY, APPLY
    <3> QED BY <3>1, <3>2
  <2> HIDE DEF grants
  <2>6. FirstRun => /\ \A n \in Nodes : \A s \in ledger'[n] : Entitled(n, s)
                    /\ \A w \in wr' : \A s \in w.stages : Entitled(w.node, s)
    BY <2>2, <2>3, <2>4, <2>5, writeGosSound
  <2> QED BY <2>1, <2>2, <2>3, <2>6, DriverMove DEF OrdersSound, NewsSound
<1>18. ASSUME NEW g \in vf, NEW ok \in BOOLEAN, VerifyEnd(g, ok)
      PROVE  RolloutInv'
  <2>1. UNCHANGED <<gen, reg, known, st, startPc, rn, ledger, wr, obs, pend, ag, sel, oob,
                    released>>
    BY <1>18 DEF VerifyEnd, pollUnch, runVars, bmcVars, nodeVars
  <2> QED BY <2>1, Frame
<1>19. ASSUME NEW n \in Nodes, NEW d \in BOOLEAN, NEW b \in BOOLEAN, PreflightCheckin(n, d, b)
      PROVE  RolloutInv'
  <2>1. UNCHANGED <<gen, reg, known, startPc, rn, ledger, wr, obs, sel, released>>
    BY <1>19 DEF PreflightCheckin, appointed, PreflightProgress, PreflightReport, agentUnch, reportUnch, runVars
  <2>2. PICK x \in {"preflight"} : ag' = [ag EXCEPT ![n] = x]
    BY <1>19 DEF PreflightCheckin, appointed, PreflightProgress, PreflightReport, NodeTypeOK
  <2>3. ag[n] \in {"pxe"}
    BY <1>19 DEF PreflightCheckin, appointed, PreflightProgress, PreflightReport
  <2>4. /\ \A k \in Nodes : st'[k] = "done" => st[k] = "done"
        /\ \A k \in Nodes : oob'[k] \in {"applied", "ready-ok"}
              => oob[k] \in {"applied", "ready-ok"}
        /\ \A c \in pend' : c \in pend
    BY <1>19, <2>2 DEF PreflightCheckin, appointed, PreflightProgress, PreflightReport, SetState, RecTypeOK
  <2>6. n \notin Applied
    BY <2>3 DEF Applied
  <2> QED BY <2>1, <2>2, <2>3, <2>4, <2>6, AgentMove
<1>20. ASSUME NEW n \in Nodes, NEW d \in BOOLEAN, NEW b \in BOOLEAN, PreflightRound(n, d, b)
      PROVE  RolloutInv'
  <2>1. UNCHANGED <<gen, reg, known, startPc, rn, ledger, wr, obs, sel, released>>
    BY <1>20 DEF PreflightRound, PreflightReport, agentUnch, reportUnch, runVars
  <2>2. PICK x \in {"pxe", "passed", "preflight"} : ag' = [ag EXCEPT ![n] = x]
    BY <1>20 DEF PreflightRound, PreflightReport, NodeTypeOK
  <2>3. ag[n] \in {"preflight"}
    BY <1>20 DEF PreflightRound, PreflightReport
  <2>4. /\ \A k \in Nodes : st'[k] = "done" => st[k] = "done"
        /\ \A k \in Nodes : oob'[k] \in {"applied", "ready-ok"}
              => oob[k] \in {"applied", "ready-ok"}
        /\ \A c \in pend' : c \in pend
    BY <1>20, <2>2 DEF PreflightRound, PreflightReport, SetState, RecTypeOK
  <2>6. n \notin Applied
    BY <2>3 DEF Applied
  <2> QED BY <2>1, <2>2, <2>3, <2>4, <2>6, AgentMove
<1>21. ASSUME NEW n \in Nodes, NEW d \in BOOLEAN, AgentRestore(n, d)
      PROVE  RolloutInv'
  <2>1. UNCHANGED <<gen, reg, known, startPc, rn, ledger, wr, obs, sel, released>>
    BY <1>21 DEF AgentRestore, agentUnch, reportUnch, runVars
  <2>2. PICK x \in {"restoring", "preflight"} : ag' = [ag EXCEPT ![n] = x]
    BY <1>21 DEF AgentRestore, NodeTypeOK
  <2>3. ag[n] \in {"passed"}
    BY <1>21 DEF AgentRestore
  <2>4. /\ \A k \in Nodes : st'[k] = "done" => st[k] = "done"
        /\ \A k \in Nodes : oob'[k] \in {"applied", "ready-ok"}
              => oob[k] \in {"applied", "ready-ok"}
        /\ \A c \in pend' : c \in pend
    BY <1>21, <2>2 DEF AgentRestore, SetState, RecTypeOK, greenLit, WriteStatus, Fault, BmcTypeOK
  <2>6. n \notin Applied
    BY <2>3 DEF Applied
  <2> QED BY <2>1, <2>2, <2>3, <2>4, <2>6, AgentMove
<1>22. ASSUME NEW n \in Nodes, NEW d \in BOOLEAN, AgentRestored(n, d)
      PROVE  RolloutInv'
  <2>1. UNCHANGED <<gen, reg, known, startPc, rn, ledger, wr, obs, sel, released>>
    BY <1>22 DEF AgentRestored, RestoreDone, agentUnch, reportUnch, runVars
  <2>2. PICK x \in {"restored"} : ag' = [ag EXCEPT ![n] = x]
    BY <1>22 DEF AgentRestored, RestoreDone, NodeTypeOK
  <2>3. ag[n] \in {"restoring"}
    BY <1>22 DEF AgentRestored, RestoreDone
  <2>4. /\ \A k \in Nodes : st'[k] = "done" => st[k] = "done"
        /\ \A k \in Nodes : oob'[k] \in {"applied", "ready-ok"}
              => oob[k] \in {"applied", "ready-ok"}
        /\ \A c \in pend' : c \in pend
    BY <1>22, <2>2 DEF AgentRestored, RestoreDone, SetState, RecTypeOK, WriteStatus, Fault, BmcTypeOK
  <2>6. n \notin Applied
    BY <2>3 DEF Applied
  <2> QED BY <2>1, <2>2, <2>3, <2>4, <2>6, AgentMove
<1>23. ASSUME NEW n \in Nodes, StampBootDisk(n)
      PROVE  RolloutInv'
  <2>1. UNCHANGED <<gen, reg, known, st, startPc, rn, ledger, wr, obs, pend, ag, sel, oob,
                    released>>
    BY <1>23 DEF StampBootDisk, agentUnch, reportUnch, runVars, nodeVars
  <2> QED BY <2>1, Frame
<1>24. ASSUME NEW n \in Nodes, StampGivesUp(n)
      PROVE  RolloutInv'
  <2>1. UNCHANGED <<gen, reg, known, st, startPc, rn, ledger, wr, obs, pend, ag, sel, oob,
                    released>>
    BY <1>24 DEF StampGivesUp, agentUnch, reportUnch, runVars, nodeVars
  <2> QED BY <2>1, Frame
<1>25. ASSUME NEW n \in Nodes, AgentReboot(n)
      PROVE  RolloutInv'
  <2>1. UNCHANGED <<gen, reg, known, startPc, rn, ledger, wr, obs, sel, released>>
    BY <1>25 DEF AgentReboot, agentUnch, reportUnch, runVars
  <2>2. PICK x \in {"osboot", "pxe"} : ag' = [ag EXCEPT ![n] = x]
    BY <1>25 DEF AgentReboot, NodeTypeOK
  <2>3. ag[n] \in {"restored"}
    BY <1>25 DEF AgentReboot
  <2>4. /\ \A k \in Nodes : st'[k] = "done" => st[k] = "done"
        /\ \A k \in Nodes : oob'[k] \in {"applied", "ready-ok"}
              => oob[k] \in {"applied", "ready-ok"}
        /\ \A c \in pend' : c \in pend
    BY <1>25, <2>2 DEF AgentReboot, SetState, RecTypeOK
  <2>6. n \notin Applied
    BY <2>3 DEF Applied
  <2> QED BY <2>1, <2>2, <2>3, <2>4, <2>6, AgentMove
<1>26. ASSUME NEW n \in Nodes, NEW d \in BOOLEAN, AgentUp(n, d)
      PROVE  RolloutInv'
  <2>1. UNCHANGED <<gen, reg, known, startPc, rn, ledger, wr, obs, sel, released>>
    BY <1>26 DEF AgentUp, cameUp, ApplyStarted, ApplyProceed, WaitForMaster, agentUnch, reportUnch, runVars
  <2>2. PICK x \in {"waitapply"} : ag' = [ag EXCEPT ![n] = x]
    BY <1>26 DEF AgentUp, cameUp, ApplyStarted, ApplyProceed, WaitForMaster, NodeTypeOK
  <2>3. ag[n] \in {"osboot"}
    BY <1>26 DEF AgentUp, cameUp, ApplyStarted, ApplyProceed, WaitForMaster
  <2>4. /\ \A k \in Nodes : st'[k] = "done" => st[k] = "done"
        /\ \A k \in Nodes : oob'[k] \in {"applied", "ready-ok"}
              => oob[k] \in {"applied", "ready-ok"}
        /\ \A c \in pend' : c \in pend
    BY <1>26, <2>2 DEF AgentUp, cameUp, ApplyStarted, ApplyProceed, WaitForMaster, SetState, RecTypeOK, WriteStatus, Fault, BmcTypeOK
  <2>6. n \notin Applied
    BY <2>3 DEF Applied
  <2> QED BY <2>1, <2>2, <2>3, <2>4, <2>6, AgentMove
<1>27. ASSUME NEW n \in Nodes, AgentApply(n)
      PROVE  RolloutInv'
  <2>1. UNCHANGED <<gen, reg, known, startPc, rn, ledger, wr, obs, sel, released>>
    BY <1>27 DEF AgentApply, agentUnch, reportUnch, runVars
  <2>2. PICK x \in {"applying"} : ag' = [ag EXCEPT ![n] = x]
    BY <1>27 DEF AgentApply, NodeTypeOK
  <2>3. ag[n] \in {"waitapply"}
    BY <1>27 DEF AgentApply
  <2>4. /\ \A k \in Nodes : st'[k] = "done" => st[k] = "done"
        /\ \A k \in Nodes : oob'[k] \in {"applied", "ready-ok"}
              => oob[k] \in {"applied", "ready-ok"}
        /\ \A c \in pend' : c \in pend
    BY <1>27, <2>2 DEF AgentApply, SetState, RecTypeOK, WriteStatus, Fault, BmcTypeOK
  <2>5. FirstRun => Entitled(n, APPLY)
    <3>1. PICK r \in sel[n] : r[1] = APPLY
      BY <1>27 DEF AgentApply, Present
    <3> QED BY <3>1 DEF RolloutInv, OrdersSound
  <2>6. n \notin Applied
    BY <2>3 DEF Applied
  <2> QED BY <2>1, <2>2, <2>3, <2>4, <2>5, <2>6, AgentMove
<1>28. ASSUME NEW n \in Nodes, NEW d \in BOOLEAN, AgentApplied(n, d)
      PROVE  RolloutInv'
  <2>1. UNCHANGED <<gen, reg, known, startPc, rn, ledger, wr, obs, sel, released>>
    BY <1>28 DEF AgentApplied, agentUnch, reportUnch, runVars
  <2>2. PICK x \in {"waitready", "finished"} : ag' = [ag EXCEPT ![n] = x]
    BY <1>28 DEF AgentApplied, NodeTypeOK
  <2>3. ag[n] \in {"applying"}
    BY <1>28 DEF AgentApplied
  <2>4. /\ \A k \in Nodes : st'[k] = "done" => st[k] = "done" \/ (k = n /\ x \in {"waitready", "finished"})
        /\ \A k \in Nodes : oob'[k] \in {"applied", "ready-ok"}
              => oob[k] \in {"applied", "ready-ok"} \/ (k = n /\ x \in {"waitready", "finished"})
        /\ \A c \in pend' : c \in pend \/ (c.node = n /\ x \in {"waitready", "finished"})
    BY <1>28, <2>2 DEF AgentApplied, SetState, RecTypeOK, Completed, WriteStatus, Fault, BmcTypeOK
  <2>5. FirstRun => Entitled(n, APPLY)
    BY <2>3 DEF RolloutInv, OrdersSound, ApplyBegun
  <2>6. n \notin Applied
    BY <2>3 DEF Applied
  <2> QED BY <2>1, <2>2, <2>3, <2>4, <2>5, <2>6, AgentMove
<1>29. ASSUME NEW n \in Nodes, AgentApplyReboot(n)
      PROVE  RolloutInv'
  <2>1. UNCHANGED <<gen, reg, known, startPc, rn, ledger, wr, obs, sel, released>>
    BY <1>29 DEF AgentApplyReboot, agentUnch, reportUnch, runVars
  <2>2. PICK x \in {"osboot", "pxe"} : ag' = [ag EXCEPT ![n] = x]
    BY <1>29 DEF AgentApplyReboot, NodeTypeOK
  <2>3. ag[n] \in {"applying"}
    BY <1>29 DEF AgentApplyReboot
  <2>4. /\ \A k \in Nodes : st'[k] = "done" => st[k] = "done"
        /\ \A k \in Nodes : oob'[k] \in {"applied", "ready-ok"}
              => oob[k] \in {"applied", "ready-ok"}
        /\ \A c \in pend' : c \in pend
    BY <1>29, <2>2 DEF AgentApplyReboot, SetState, RecTypeOK
  <2>6. n \notin Applied
    BY <2>3 DEF Applied
  <2> QED BY <2>1, <2>2, <2>3, <2>4, <2>6, AgentMove
<1>30. ASSUME NEW n \in Nodes, NEW d \in BOOLEAN, AgentApplyFailed(n, d)
      PROVE  RolloutInv'
  <2>1. UNCHANGED <<gen, reg, known, startPc, rn, ledger, wr, obs, sel, released>>
    BY <1>30 DEF AgentApplyFailed, agentUnch, reportUnch, runVars
  <2>2. PICK x \in {"failed"} : ag' = [ag EXCEPT ![n] = x]
    BY <1>30 DEF AgentApplyFailed, NodeTypeOK
  <2>3. ag[n] \in {"applying"}
    BY <1>30 DEF AgentApplyFailed
  <2>4. /\ \A k \in Nodes : st'[k] = "done" => st[k] = "done"
        /\ \A k \in Nodes : oob'[k] \in {"applied", "ready-ok"}
              => oob[k] \in {"applied", "ready-ok"}
        /\ \A c \in pend' : c \in pend
    BY <1>30, <2>2 DEF AgentApplyFailed, SetState, RecTypeOK, WriteStatus, Fault, BmcTypeOK
  <2>5. FirstRun => Entitled(n, APPLY)
    BY <2>3 DEF RolloutInv, OrdersSound, ApplyBegun
  <2>6. n \notin Applied
    BY <2>3 DEF Applied
  <2> QED BY <2>1, <2>2, <2>3, <2>4, <2>5, <2>6, AgentMove
<1>31. ASSUME NEW n \in Nodes, NEW d \in BOOLEAN, NEW b \in BOOLEAN, AgentSetReady(n, d, b)
      PROVE  RolloutInv'
  <2>1. UNCHANGED <<gen, reg, known, startPc, rn, ledger, wr, obs, sel, released>>
    BY <1>31 DEF AgentSetReady, agentUnch, runVars
  <2>2. PICK x \in {"finished"} : ag' = [ag EXCEPT ![n] = x]
    BY <1>31 DEF AgentSetReady, NodeTypeOK
  <2>3. ag[n] \in {"waitready"}
    BY <1>31 DEF AgentSetReady
  <2>4. /\ \A k \in Nodes : st'[k] = "done" => st[k] = "done" \/ (k = n /\ x \in {"waitready", "finished"})
        /\ \A k \in Nodes : oob'[k] \in {"applied", "ready-ok"}
              => oob[k] \in {"applied", "ready-ok"} \/ (k = n /\ x \in {"waitready", "finished"})
        /\ \A c \in pend' : c \in pend \/ (c.node = n /\ x \in {"waitready", "finished"})
    BY <1>31, <2>2 DEF AgentSetReady, SetState, RecTypeOK, WriteStatus, Fault, BmcTypeOK
  <2>5. FirstRun => Entitled(n, APPLY)
    BY <2>3 DEF RolloutInv, OrdersSound, ApplyBegun
  <2>6. n \in Applied => x \in {"waitready", "finished"}
    BY <2>2
  <2> QED BY <2>1, <2>2, <2>3, <2>4, <2>5, <2>6, AgentMove
<1>32. ASSUME NEW n \in Nodes, AgentInBand(n)
      PROVE  RolloutInv'
  <2>1. UNCHANGED <<gen, reg, known, startPc, rn, ledger, wr, obs, sel, released>>
    BY <1>32 DEF AgentInBand, inBandUnch, agentUnch, reportUnch, runVars
  <2>2. PICK x \in {"checkin"} : ag' = [ag EXCEPT ![n] = x]
    BY <1>32 DEF AgentInBand, NodeTypeOK
  <2>3. ag[n] \in {"osboot"}
    BY <1>32 DEF AgentInBand
  <2>4. /\ \A k \in Nodes : st'[k] = "done" => st[k] = "done"
        /\ \A k \in Nodes : oob'[k] \in {"applied", "ready-ok"}
              => oob[k] \in {"applied", "ready-ok"}
        /\ \A c \in pend' : c \in pend
    BY <1>32, <2>2 DEF AgentInBand, inBandUnch
  <2>6. n \notin Applied
    BY <2>3 DEF Applied
  <2> QED BY <2>1, <2>2, <2>3, <2>4, <2>6, AgentMove
<1>33. ASSUME NEW n \in Nodes, NEW d \in BOOLEAN, NEW b \in BOOLEAN, InBandCheckin(n, d, b)
      PROVE  RolloutInv'
  <2>1. UNCHANGED <<gen, reg, known, startPc, rn, ledger, wr, obs, sel, released>>
    BY <1>33 DEF InBandCheckin, appointed, inBandUnch, agentUnch, reportUnch, runVars
  <2>2. PICK x \in {"hold", "checkin"} : ag' = [ag EXCEPT ![n] = x]
    BY <1>33 DEF InBandCheckin, appointed, NodeTypeOK
  <2>3. ag[n] \in {"checkin"}
    BY <1>33 DEF InBandCheckin, appointed
  <2>4. /\ \A k \in Nodes : st'[k] = "done" => st[k] = "done"
        /\ \A k \in Nodes : oob'[k] \in {"applied", "ready-ok"}
              => oob[k] \in {"applied", "ready-ok"}
        /\ \A c \in pend' : c \in pend
    BY <1>33, <2>2 DEF InBandCheckin, appointed, SetState, RecTypeOK, CheckedIn, inBandUnch
  <2>6. n \notin Applied
    BY <2>3 DEF Applied
  <2> QED BY <2>1, <2>2, <2>3, <2>4, <2>6, AgentMove
<1>34. ASSUME NEW n \in Nodes, NEW d \in BOOLEAN, InBandApply(n, d)
      PROVE  RolloutInv'
  <2>1. UNCHANGED <<gen, reg, known, startPc, rn, ledger, wr, obs, sel, released>>
    BY <1>34 DEF InBandApply, appointed, inBandUnch, agentUnch, reportUnch, runVars
  <2>2. PICK x \in {"hold", "applying"} : ag' = [ag EXCEPT ![n] = x]
    BY <1>34 DEF InBandApply, appointed, NodeTypeOK
  <2>3. ag[n] \in {"hold"}
    BY <1>34 DEF InBandApply, appointed
  <2>4. /\ \A k \in Nodes : st'[k] = "done" => st[k] = "done"
        /\ \A k \in Nodes : oob'[k] \in {"applied", "ready-ok"}
              => oob[k] \in {"applied", "ready-ok"}
        /\ \A c \in pend' : c \in pend
    BY <1>34, <2>2 DEF InBandApply, appointed, SetState, RecTypeOK, CheckedIn, inBandUnch
  <2>5. FirstRun /\ x = "applying" => Entitled(n, APPLY)
    <3>1. x = "applying" => ~holds(n) /\ reg # 0
      BY <1>34, <2>2 DEF InBandApply, appointed, HasActiveDeploy, NodeTypeOK
    <3>2. FirstRun => NewsSound
      BY DEF RolloutInv
    <3>3. Master # NoMaster
      BY DeployAssumption DEF DeployAssumption
    <3> QED BY <3>1, <3>2, <3>3 DEF holds, masterDone, NewsSound, Entitled, APPLY, SETREADY
  <2>6. n \notin Applied
    BY <2>3 DEF Applied
  <2> QED BY <2>1, <2>2, <2>3, <2>4, <2>5, <2>6, AgentMove
<1>35. ASSUME NEW n \in Nodes, NEW d \in BOOLEAN, NEW b \in BOOLEAN, InBandReport(n, d, b)
      PROVE  RolloutInv'
  <2>1. UNCHANGED <<gen, reg, known, startPc, rn, ledger, wr, obs, sel, released>>
    BY <1>35 DEF InBandReport, inBandUnch, agentUnch, reportUnch, runVars
  <2>2. PICK x \in {"finished", "checkin"} : ag' = [ag EXCEPT ![n] = x]
    BY <1>35 DEF InBandReport, NodeTypeOK
  <2>3. ag[n] \in {"applying"}
    BY <1>35 DEF InBandReport
  <2>4. /\ \A k \in Nodes : st'[k] = "done" => st[k] = "done" \/ (k = n /\ x \in {"waitready", "finished"})
        /\ \A k \in Nodes : oob'[k] \in {"applied", "ready-ok"}
              => oob[k] \in {"applied", "ready-ok"} \/ (k = n /\ x \in {"waitready", "finished"})
        /\ \A c \in pend' : c \in pend \/ (c.node = n /\ x \in {"waitready", "finished"})
    BY <1>35, <2>2 DEF InBandReport, SetState, RecTypeOK, NodeTypeOK, inBandUnch
  <2>5. FirstRun => Entitled(n, APPLY)
    BY <2>3 DEF RolloutInv, OrdersSound, ApplyBegun
  <2>6. n \notin Applied
    BY <2>3 DEF Applied
  <2> QED BY <2>1, <2>2, <2>3, <2>4, <2>5, <2>6, AgentMove
<1>36. ASSUME AdvanceStep
      PROVE  RolloutInv'
  <2> DEFINE grants == [n \in Nodes |->
           CASE step' = StepRestore     -> {RESTORE}
             [] step' = StepReboot      -> {REBOOT}
             [] step' = StepApplyMaster -> IF n = Master THEN {APPLY} ELSE {}
             [] step' = StepApplyRest   -> IF n # Master THEN {APPLY} ELSE {}
             [] step' = StepSetReady    -> IF n = Master THEN {SETREADY} ELSE {}]
  <2> USE DEF StepPreflight, StepRestore, StepReboot, StepApplyMaster, StepApplyRest,
              StepSetReady
  <2>1. gen # 0
    BY <1>36 DEF RolloutInv, Pristine, AdvanceStep, Manual
  <2>2. /\ UNCHANGED <<gen, reg, st, startPc, rn, obs, pend, ag, sel, oob, released>>
        /\ writeGos(grants)
    BY <1>36 DEF AdvanceStep, operUnch, bmcVars, nodeVars, histVars
  <2>3. FirstRun => OrdersSound /\ NewsSound
    BY DEF RolloutInv
  <2>4. step \in 1..5 /\ step' = step + 1 /\ reg # 0 /\ canAdvance
    BY <1>36 DEF AdvanceStep, RecTypeOK, canAdvance, Manual
  <2>5. grants \in [Nodes -> SUBSET Stages]
    BY <2>4, StageMembers
  <2>6. FirstRun => \A n \in Nodes : \A s \in grants[n] : Entitled(n, s)
    <3> SUFFICES ASSUME FirstRun, NEW n \in Nodes, NEW s \in grants[n]
                 PROVE  Entitled(n, s)
      OBVIOUS
    <3>1. CASE s = SETREADY
      <4>1. step = StepApplyRest
        BY <2>4, <3>1 DEF RESTORE, REBOOT, APPLY, SETREADY
      <4>2. allReached(7)
        BY <2>4, <4>1 DEF canAdvance
      <4>3. \A k \in Nodes : st[k] = "done"
        BY <4>2, RankDone DEF allReached, RecTypeOK
      <4>4. Applied = Nodes
        BY <2>3, <2>4, <4>3 DEF NewsSound, Applied
      <4> QED BY <3>1, <4>4 DEF Entitled, APPLY, SETREADY
    <3>2. CASE s = APPLY /\ n # Master
      <4>1. step = StepApplyMaster
        BY <2>4, <3>2 DEF RESTORE, REBOOT, APPLY, SETREADY
      <4>2. st[Master] = "done"
        BY <2>4, <4>1, DeployAssumption DEF canAdvance, masterDone, DeployAssumption
      <4> QED BY <2>3, <2>4, <3>2, <4>2 DEF NewsSound, Entitled, APPLY, SETREADY
    <3> QED BY <3>1, <3>2 DEF Entitled
  <2> HIDE DEF grants
  <2>7. FirstRun => /\ \A n \in Nodes : \A s \in ledger'[n] : Entitled(n, s)
                    /\ \A w \in wr' : \A s \in w.stages : Entitled(w.node, s)
    BY <2>2, <2>3, <2>5, <2>6, writeGosSound
  <2> QED BY <2>1, <2>2, <2>3, <2>7, DriverMove DEF OrdersSound, NewsSound
<1>37. ASSUME Cancel
      PROVE  RolloutInv'
  <2>1. /\ UNCHANGED <<gen, reg, known, startPc, rn, ledger, wr, obs, pend, ag, sel, oob,
                        released>>
        /\ \A k \in Nodes : st'[k] = "done" => st[k] = "done"
    BY <1>37 DEF Cancel, SetState, terminal, RecTypeOK, operUnch, bmcVars, nodeVars
  <2>2. gen = 0 => Pristine'
    BY <2>1 DEF RolloutInv, Pristine
  <2>3. FirstRun => OrdersSound /\ NewsSound
    BY DEF RolloutInv
  <2> QED BY <2>1, <2>2, <2>3, DriverMove DEF OrdersSound, NewsSound
<1>38. ASSUME NEW n \in Nodes, ReleaseNode(n)
      PROVE  RolloutInv'
  <2>1. gen # 0
    BY <1>38 DEF RolloutInv, Pristine, ReleaseNode
  <2>2. /\ UNCHANGED <<gen, reg, st, startPc, rn, obs, pend, ag, sel, oob>>
        /\ released' = released \cup {n}
    BY <1>38 DEF ReleaseNode, operUnch, bmcVars, nodeVars
  <2>3. FirstRun => OrdersSound /\ NewsSound
    BY DEF RolloutInv
  <2>4. Entitled(n, APPLY)'
    BY <2>2 DEF Entitled, APPLY, SETREADY
  <2>5. \A k \in Nodes : \A s \in ledger'[k] : s \in ledger[k] \/ (k = n /\ s = APPLY)
    BY <1>38 DEF ReleaseNode, RecTypeOK
  <2>6. \A v \in wr' : v \in wr \/ (v.node = n /\ v.stages \subseteq ledger'[n] \cup {APPLY})
    BY <1>38 DEF ReleaseNode
  <2>7. FirstRun => /\ \A k \in Nodes : \A s \in ledger'[k] : Entitled(k, s) \/ Entitled(k, s)'
                    /\ \A v \in wr' : \A s \in v.stages :
                          Entitled(v.node, s) \/ Entitled(v.node, s)'
    BY <2>3, <2>4, <2>5, <2>6 DEF OrdersSound
  <2> QED BY <2>1, <2>2, <2>3, <2>7, DriverMove DEF OrdersSound, NewsSound
<1>39. ASSUME NEW n \in Nodes, RekickPreflight(n)
      PROVE  RolloutInv'
  <2>1. /\ UNCHANGED <<gen, reg, known, startPc, rn, ledger, wr, obs, pend, ag, sel, oob,
                        released>>
        /\ \A k \in Nodes : st'[k] = "done" => st[k] = "done"
    BY <1>39 DEF RekickPreflight, SetState, RecTypeOK, operUnch, bmcVars, nodeVars
  <2>2. gen = 0 => Pristine'
    BY <2>1 DEF RolloutInv, Pristine
  <2>3. FirstRun => OrdersSound /\ NewsSound
    BY DEF RolloutInv
  <2> QED BY <2>1, <2>2, <2>3, DriverMove DEF OrdersSound, NewsSound
<1>40. ASSUME DriverRestart
      PROVE  RolloutInv'
  <2>1. /\ UNCHANGED <<gen, rn, ledger, ag, sel, oob, released>>
        /\ reg' = 0 /\ wr' = {} /\ obs' = {} /\ pend' = {}
        /\ \A g \in Runs : startPc'[g] # "none" => startPc[g] # "none"
    BY <1>40 DEF DriverRestart, bmcVars, nodeVars, histVars
  <2>2. gen # 0
    BY <1>40 DEF DriverRestart, RunTypeOK
  <2>3. FirstRun => OrdersSound /\ NewsSound
    BY DEF RolloutInv
  <2> QED BY <2>1, <2>2, <2>3, DriverMove DEF OrdersSound, NewsSound
<1>41. CASE UNCHANGED vars
  <2>1. UNCHANGED <<gen, reg, known, st, startPc, rn, ledger, wr, obs, pend, ag, sel, oob,
                    released>>
    BY <1>41 DEF vars, runVars, recVars, drvVars, bmcVars, nodeVars, histVars
  <2> QED BY <2>1, Frame
<1> QED
  BY <1>1, <1>2, <1>3, <1>4, <1>5, <1>6, <1>7, <1>8, <1>9, <1>10, <1>11, <1>12, <1>13, <1>14, <1>15, <1>16, <1>17, <1>18, <1>19, <1>20, <1>21, <1>22, <1>23, <1>24, <1>25, <1>26, <1>27, <1>28, <1>29, <1>30, <1>31, <1>32, <1>33, <1>34, <1>35, <1>36, <1>37, <1>38, <1>39, <1>40, <1>41 DEF Next, StartStep, RunStep, AgentStep, Delivery

(* In a first run every place an order to a node passes through holds only *)
(* what the node is entitled to, and every place the news of a completion  *)
(* passes through only true news, for any nodes and failures (writeGos,    *)
(* WriteGate, MergeSEL, onNodeApplied).                                    *)
THEOREM RolloutInvariant == ASSUME Master \in Nodes PROVE Spec => []RolloutInv
<1>1. TypeOK /\ RolloutInv /\ [Next]_vars => RolloutInv'
  BY RolloutInv_Next
<1> QED BY RolloutInv_Init, TypeCorrect, <1>1, PTL DEF Spec

(* In a first run no node other than the master begins its apply before    *)
(* the master has finished its own, unless the operator released it: in    *)
(* either mode, through either channel, whatever reports are lost, writes  *)
(* fail, SELs are wiped, and even if the driver restarts.                  *)
THEOREM MasterFirstAlways == ASSUME Master \in Nodes PROVE Spec => []MasterFirst
<1>1. RolloutInv => MasterFirst
  BY DEF RolloutInv, OrdersSound, Entitled, MasterFirst, ApplyBegun
<1> QED BY <1>1, RolloutInvariant, PTL

(* In a first run the record never shows a node done that is not.          *)
THEOREM DoneIsRealAlways == ASSUME Master \in Nodes PROVE Spec => []DoneIsReal
<1>1. RolloutInv => DoneIsReal
  BY DEF RolloutInv, NewsSound, DoneIsReal
<1> QED BY <1>1, RolloutInvariant, PTL

(* What a step of an agent can do to its node's phase, and what it knows.  *)
Waiting == { "off", "pxe", "preflight", "passed", "restoring", "restored",
             "osboot", "waitapply", "checkin", "hold" }

AgentEffect(n, x) ==
    /\ ag' = [ag EXCEPT ![n] = x]
    /\ released' = released
    /\ \/ /\ ag[n] \in Waiting /\ x \in Waiting
          /\ \A k \in Nodes \ {n} : agMaster'[k] = agMaster[k] /\ snap'[k] = snap[k]
          /\ agMaster'[n] => agMaster[n] \/ n = Master
       \/ /\ UNCHANGED <<agMaster, snap>>
          /\ \/ ag[n] \in Waiting /\ x = "applying"
             \/ ag[n] = "applying" /\ x \in Waiting \cup {"failed"}
             \/ ag[n] = "applying" /\ snap[n]
                  /\ x = (IF agMaster[n] THEN "waitready" ELSE "finished")
             \/ ag[n] = "applying" /\ ~snap[n] /\ x = "finished"
             \/ ag[n] = "waitready" /\ x = "finished"
                  /\ (Staged => SETREADY \in Present(n))

(* Every step of an agent has one of the effects listed above.             *)
LEMMA AgentEffects ==
    ASSUME TypeOK, NEW n \in Nodes, AgentStep(n)
    PROVE  \E x \in AgentPhase : AgentEffect(n, x)
<1> USE DEF TypeOK, NodeTypeOK, AgentEffect, Waiting, AgentPhase, agentUnch
<1>1. ASSUME NEW d \in BOOLEAN, NEW b \in BOOLEAN, PreflightCheckin(n, d, b)
      PROVE  \E x \in AgentPhase : AgentEffect(n, x)
  BY <1>1 DEF PreflightCheckin, appointed, PreflightProgress, PreflightReport
<1>2. ASSUME NEW d \in BOOLEAN, NEW b \in BOOLEAN, PreflightRound(n, d, b)
      PROVE  \E x \in AgentPhase : AgentEffect(n, x)
  BY <1>2 DEF PreflightRound, PreflightReport
<1>3. ASSUME NEW d \in BOOLEAN, NEW b \in BOOLEAN, AgentSetReady(n, d, b)
      PROVE  \E x \in AgentPhase : AgentEffect(n, x)
  BY <1>3 DEF AgentSetReady
<1>4. ASSUME NEW d \in BOOLEAN, NEW b \in BOOLEAN, InBandReport(n, d, b)
      PROVE  \E x \in AgentPhase : AgentEffect(n, x)
  BY <1>4 DEF InBandReport, inBandUnch
<1>5. ASSUME NEW d \in BOOLEAN, AgentRestore(n, d)
      PROVE  \E x \in AgentPhase : AgentEffect(n, x)
  BY <1>5 DEF AgentRestore
<1>6. ASSUME NEW d \in BOOLEAN, AgentRestored(n, d)
      PROVE  \E x \in AgentPhase : AgentEffect(n, x)
  BY <1>6 DEF AgentRestored, RestoreDone
<1>7. ASSUME NEW d \in BOOLEAN, AgentUp(n, d)
      PROVE  \E x \in AgentPhase : AgentEffect(n, x)
  BY <1>7 DEF AgentUp, cameUp, ApplyStarted, ApplyProceed, WaitForMaster
<1>8. ASSUME NEW d \in BOOLEAN, AgentApplied(n, d)
      PROVE  \E x \in AgentPhase : AgentEffect(n, x)
  BY <1>8 DEF AgentApplied
<1>9. ASSUME NEW d \in BOOLEAN, AgentApplyFailed(n, d)
      PROVE  \E x \in AgentPhase : AgentEffect(n, x)
  BY <1>9 DEF AgentApplyFailed
<1>10. ASSUME NEW d \in BOOLEAN, NEW b \in BOOLEAN, InBandCheckin(n, d, b)
      PROVE  \E x \in AgentPhase : AgentEffect(n, x)
  BY <1>10 DEF InBandCheckin, appointed, inBandUnch
<1>11. ASSUME NEW d \in BOOLEAN, InBandApply(n, d)
      PROVE  \E x \in AgentPhase : AgentEffect(n, x)
  BY <1>11 DEF InBandApply, appointed, inBandUnch
<1>12. ASSUME AgentReboot(n)
      PROVE  \E x \in AgentPhase : AgentEffect(n, x)
  BY <1>12 DEF AgentReboot
<1>13. ASSUME AgentApply(n)
      PROVE  \E x \in AgentPhase : AgentEffect(n, x)
  BY <1>13 DEF AgentApply
<1>14. ASSUME AgentApplyReboot(n)
      PROVE  \E x \in AgentPhase : AgentEffect(n, x)
  BY <1>14 DEF AgentApplyReboot
<1>15. ASSUME AgentInBand(n)
      PROVE  \E x \in AgentPhase : AgentEffect(n, x)
  BY <1>15 DEF AgentInBand, inBandUnch
<1> QED
  BY <1>1, <1>2, <1>3, <1>4, <1>5, <1>6, <1>7, <1>8, <1>9, <1>10, <1>11, <1>12, <1>13, <1>14, <1>15
     DEF AgentStep, Delivery

(* Nothing happens on a node but by its power cycle or its agent.          *)
LEMMA NodeMoves ==
    ASSUME Next
    PROVE  \/ UNCHANGED nodeVars
           \/ \E g \in Runs, n \in Nodes : RunPowerCycle(g, n)
           \/ \E n \in Nodes : AgentStep(n)
<1>1. ASSUME NEW g \in Runs, NEW n \in Nodes, RunStep(g, n)
      PROVE  UNCHANGED nodeVars \/ RunPowerCycle(g, n)
  BY <1>1 DEF RunStep, RunBegin, RunPreflight, RunSetBootPXE, RunPoll
<1>2. ASSUME NEW g \in Runs, StartStep(g)
      PROVE  UNCHANGED nodeVars
  BY <1>2 DEF StartStep, StartClear, StartArm, StartFlip
<1>3. ASSUME NEW w \in wr, GateWrite(w) \/ GateAck(w)
      PROVE  UNCHANGED nodeVars
  BY <1>3 DEF GateWrite, GateAck, gateUnch
<1>4. ASSUME NEW g \in Runs, NEW n \in Nodes,
             Reconcile(g, n) \/ PollObserve(g, n) \/ SelLost(n) \/ PollEnd(g)
      PROVE  UNCHANGED nodeVars
  BY <1>4 DEF Reconcile, PollObserve, SelLost, PollEnd, gateUnch, pollUnch
<1>5. ASSUME NEW o \in obs, PollMerge(o)
      PROVE  UNCHANGED nodeVars
  BY <1>5 DEF PollMerge, pollUnch
<1>6. ASSUME NEW c \in pend, HandOff(c)
      PROVE  UNCHANGED nodeVars
  BY <1>6 DEF HandOff, pollUnch
<1>7. ASSUME NEW g \in vf, NEW ok \in BOOLEAN, VerifyEnd(g, ok)
      PROVE  UNCHANGED nodeVars
  BY <1>7 DEF VerifyEnd, pollUnch
<1>8. ASSUME NEW n \in Nodes,
             StampBootDisk(n) \/ StampGivesUp(n) \/ ReleaseNode(n) \/ RekickPreflight(n)
      PROVE  UNCHANGED nodeVars
  BY <1>8 DEF StampBootDisk, StampGivesUp, ReleaseNode, RekickPreflight, operUnch
<1>9. ASSUME NEW b \in Modes, Start(b)
      PROVE  UNCHANGED nodeVars
  BY <1>9 DEF Start
<1>10. ASSUME AdvanceStep \/ Cancel \/ DriverRestart
       PROVE  UNCHANGED nodeVars
  BY <1>10 DEF AdvanceStep, Cancel, DriverRestart, operUnch
<1>11. ASSUME NEW n \in Nodes, SelLost(n)
       PROVE  UNCHANGED nodeVars
  BY <1>11 DEF SelLost, gateUnch
<1>12. ASSUME NEW g \in Runs, PollEnd(g)
       PROVE  UNCHANGED nodeVars
  BY <1>12 DEF PollEnd, pollUnch
<1> QED
  BY <1>1, <1>2, <1>3, <1>4, <1>5, <1>6, <1>7, <1>8, <1>9, <1>10, <1>11, <1>12 DEF Next

(* An agent that waits for set_ready ends with the gate in its SEL.        *)
LEMMA OnlySetReadyFinishes ==
    ASSUME Staged, TypeOK, Next, NEW n \in Nodes, ag[n] = "waitready",
           ag'[n] = "finished"
    PROVE  SETREADY \in Present(n)
<1> USE DEF TypeOK, NodeTypeOK
<1>1. ~UNCHANGED nodeVars
  BY DEF nodeVars
<1>2. ASSUME NEW g \in Runs, NEW k \in Nodes, RunPowerCycle(g, k)
      PROVE  FALSE
  BY <1>2 DEF RunPowerCycle, PowerCycled, nodeVars
<1>3. PICK k \in Nodes : AgentStep(k)
  BY <1>1, <1>2, NodeMoves
<1>4. PICK x \in AgentPhase : AgentEffect(k, x)
  BY <1>3, AgentEffects
<1> QED BY <1>4 DEF AgentEffect, Waiting

(* In a first run whose set_ready parameters are staged on the master, the *)
(* cluster is finalized only when every node has applied.                  *)
THEOREM FinalizeLastAlways ==
    ASSUME Master \in Nodes, Staged PROVE Spec => FinalizeLast
<1>1. TypeOK /\ RolloutInv /\ [Next]_vars =>
         [\A n \in Nodes : FirstRun /\ ag[n] = "waitready" /\ ag'[n] = "finished"
                              => Applied = Nodes]_vars
  <2> SUFFICES ASSUME TypeOK, RolloutInv, Next, NEW n \in Nodes, FirstRun,
                      ag[n] = "waitready", ag'[n] = "finished"
               PROVE  Applied = Nodes
    OBVIOUS
  <2>1. SETREADY \in Present(n)
    BY OnlySetReadyFinishes
  <2>2. PICK r \in sel[n] : r[1] = SETREADY
    BY <2>1 DEF Present
  <2> QED BY <2>2 DEF RolloutInv, OrdersSound, Entitled
<1> QED BY <1>1, TypeCorrect, RolloutInvariant, PTL DEF FinalizeLast, Spec
=============================================================================
