--------------------------- MODULE InspectProofs ---------------------------
(***************************************************************************)
(* Proofs about inspect boots, for any machines and any number of calls:   *)
(* the type invariant, the timers, the PXE default, the disk that an       *)
(* inspect must not touch and the boot device it must put back.            *)
(***************************************************************************)
EXTENDS Inspect, TLAPS

(***************************************************************************)
(* The inductive invariant                                                 *)
(***************************************************************************)

Busy == {"netbooting", "installer", "inventory", "restoring"}

\* A call has goroutines only once its image is flipped, and only for the
\* machines it names; a restart ends them.
JobInv ==
    \A i \in Calls, x \in Machines :
        /\ call[i].pc \notin {"started", "lost"} => job[i][x] = "none"
        /\ call[i].pc = "lost" => job[i][x] \in {"none", "done"}
        /\ job[i][x] # "none" => x \in call[i].ids

\* Call i has still to power-cycle machine x.
LaunchedBy(i, x) ==
    job[i][x] \in {"pxe", "cycle"} \/ (call[i].pc = "flip" /\ x \in call[i].ids)

\* A call that is launching owns the machine's entry, and the machine is at rest.
LaunchInv ==
    \A i \in Calls, x \in Machines \ overlap :
        LaunchedBy(i, x) =>
            /\ inspects[x] = i
            /\ state[i][x] = "booting"
            /\ node[x] \notin Busy
            /\ ~HasActiveDeploy(x)

\* A call of an earlier process power-cycled the machine, and the driver has
\* not inspected it since.
Forgotten(x) ==
    /\ inspects[x] = NoCall
    /\ by[x] \in Calls
    /\ state[by[x]][x] = "none"
    /\ job[by[x]][x] # "none"

\* The machine is still the entry's of the call that power-cycled it.
Awaited(x) ==
    /\ by[x] \in Calls
    /\ inspects[x] = by[x]
    /\ state[by[x]][x] \in {"booting", "error"}
    /\ job[by[x]][x] # "none"

\* A machine that comes up in the installer was power-cycled by a deploy or is
\* still waited for, as long as no restart has made the driver forget it.
NetbootInv ==
    \A x \in Machines \ overlap :
        node[x] \in {"netbooting", "installer"} =>
            by[x] = Deploying \/ Awaited(x) \/ Forgotten(x)

\* A machine that restores was power-cycled by a deploy, or is forgotten.
RestoreInv ==
    \A x \in Machines \ overlap :
        node[x] = "restoring" => by[x] = Deploying \/ Forgotten(x)

\* From its flip until its last machine is up a call keeps the default.
FlipInv ==
    Flipper /\ fault["deadline"] = 0 =>
        \A i \in Calls, x \in Machines \ overlap :
            (job[i][x] \in {"pxe", "cycle"} \/ (node[x] = "netbooting" /\ by[x] = i)) =>
                job[i][x] # "none" /\ (state[i][x] = "booting" => flip = i)

BootInv == JobInv /\ LaunchInv /\ NetbootInv /\ RestoreInv

(***************************************************************************)
(* The type invariant                                                      *)
(***************************************************************************)

\* The initial state is well typed.
LEMMA InspectTypeInit == Init => InspectTypeOK
<1> SUFFICES ASSUME Init PROVE InspectTypeOK
  OBVIOUS
<1>1. /\ inspects \in [Machines -> Calls \cup {NoCall}]
      /\ inspectNodes \in [Machines -> BOOLEAN]
  BY DEF Init
<1>2. call \in [Calls -> CallRecords]
  BY <1>1 DEF Init, CallRecords
<1>3. /\ state \in [Calls -> [Machines -> States]]
      /\ job \in [Calls -> [Machines -> {"none", "pxe", "cycle", "timer", "done"}]]
  BY DEF Init, States
<1>4. /\ taking \in [Machines -> Nat] /\ setting \in [Machines -> Nat]
      /\ fault \in [FaultKinds -> 0..MaxFaults]
  BY InspectConstants DEF Init
<1>5. /\ known \subseteq Machines /\ overlap \subseteq Machines
      /\ flip \in Calls \cup {NoCall, Deploying}
      /\ boot \in [Machines -> {"disk", "pxe"}]
      /\ node \in [Machines -> {"os", "off", "netbooting", "installer", "inventory", "restoring"}]
      /\ by \in [Machines -> Calls \cup {NoCall, Deploying}]
      /\ deploy \in [Machines -> {"none", "begun", "armed", "booted", "restored", "failed", "lost"}]
  BY DEF Init
<1> QED BY <1>1, <1>2, <1>3, <1>4, <1>5 DEF InspectTypeOK

\* A failure of the environment is counted once.
LEMMA FaultType ==
    ASSUME InspectTypeOK, NEW k \in FaultKinds, Fault(k)
    PROVE  fault' \in [FaultKinds -> 0..MaxFaults]
BY InspectConstants DEF InspectTypeOK, Fault, FaultKinds

\* setInspect changes one entry to a state it may have.
LEMMA SetType ==
    ASSUME InspectTypeOK, NEW x \in Machines, NEW s \in States, setInspect(x, s)
    PROVE  state' \in [Calls -> [Machines -> States]] /\ taking' \in [Machines -> Nat]
<1>1. taking' \in [Machines -> Nat]
  BY DEF InspectTypeOK, setInspect
<1>2. CASE inspects[x] = NoCall
  BY <1>1, <1>2 DEF InspectTypeOK, setInspect
<1>3. CASE inspects[x] # NoCall
  <2>1. inspects[x] \in Calls
    BY <1>3 DEF InspectTypeOK
  <2>2. state' = [state EXCEPT ![inspects[x]] = [state[inspects[x]] EXCEPT ![x] = s]]
    BY <1>3, <2>1 DEF InspectTypeOK, setInspect
  <2> QED BY <1>1, <2>1, <2>2 DEF InspectTypeOK
<1> QED BY <1>2, <1>3

\* A call that goes on keeps its locals.
LEMMA CallType ==
    ASSUME call \in [Calls -> CallRecords], NEW i \in Calls, NEW p \in {"refused", "started"},
           call' = [call EXCEPT ![i].pc = p]
    PROVE  call' \in [Calls -> CallRecords]
<1>1. call[i] \in CallRecords
  OBVIOUS
<1>2. [call[i] EXCEPT !.pc = p] \in CallRecords
  BY <1>1 DEF CallRecords
<1>3. call' = [call EXCEPT ![i] = [call[i] EXCEPT !.pc = p]]
  OBVIOUS
<1> QED BY <1>2, <1>3

\* The steps of a StartInspect call and of its goroutines are well typed.
LEMMA ManagerType == InspectTypeOK /\ Manager => InspectTypeOK'
<1> SUFFICES ASSUME InspectTypeOK, Manager PROVE InspectTypeOK'
  OBVIOUS
<1> USE DEF InspectTypeOK, driverVars, nodeVars
<1>1. ASSUME NEW i \in Calls, NEW ids \in (SUBSET Machines) \ {{}}, StartInspect(i, ids)
      PROVE  InspectTypeOK'
  <2>1. call' \in [Calls -> CallRecords]
    BY <1>1 DEF StartInspect, CallRecords
  <2>2. state' \in [Calls -> [Machines -> States]]
    BY <1>1 DEF StartInspect, States
  <2>3. /\ inspects' \in [Machines -> Calls \cup {NoCall}]
        /\ inspectNodes' \in [Machines -> BOOLEAN]
        /\ overlap' \subseteq Machines
    BY <1>1 DEF StartInspect
  <2> QED BY <1>1, <2>1, <2>2, <2>3 DEF StartInspect
<1>2. ASSUME NEW i \in Calls, FlipAccepted(i) PROVE InspectTypeOK'
  <2>1. call' \in [Calls -> CallRecords]
    BY <1>2, CallType DEF FlipAccepted
  <2>2. job' \in [Calls -> [Machines -> {"none", "pxe", "cycle", "timer", "done"}]]
    BY <1>2 DEF FlipAccepted
  <2> QED BY <1>2, <2>1, <2>2 DEF FlipAccepted
<1>3. ASSUME NEW i \in Calls, FlipRefused(i) PROVE InspectTypeOK'
  <2>1. /\ call[i].prev \in [Machines -> Calls \cup {NoCall}]
        /\ call[i].prevNode \in [Machines -> BOOLEAN]
    BY DEF CallRecords
  <2>2. call' \in [Calls -> CallRecords]
    BY <1>3, CallType DEF FlipRefused
  <2>3. inspects' \in [Machines -> Calls \cup {NoCall}]
    BY <1>3, <2>1 DEF FlipRefused
  <2>4. inspectNodes' \in [Machines -> BOOLEAN]
    BY <1>3, <2>1 DEF FlipRefused
  <2> QED BY <1>3, <2>2, <2>3, <2>4 DEF FlipRefused
<1>4. ASSUME NEW i \in Calls, WatchRestores(i) PROVE InspectTypeOK'
  BY <1>4 DEF WatchRestores
<1>5. ASSUME NEW i \in Calls, WatchDeadline(i) PROVE InspectTypeOK'
  BY <1>5, FaultType DEF WatchDeadline, FaultKinds
<1>6. ASSUME NEW i \in Calls, NEW x \in Machines, SetBootPXE(i, x) PROVE InspectTypeOK'
  BY <1>6 DEF SetBootPXE
<1>7. ASSUME NEW i \in Calls, NEW x \in Machines, PowerCycle(i, x) PROVE InspectTypeOK'
  BY <1>7 DEF PowerCycle
<1>8. ASSUME NEW i \in Calls, NEW x \in Machines, IPMIFails(i, x) PROVE InspectTypeOK'
  <2>1. fault' \in [FaultKinds -> 0..MaxFaults]
    BY <1>8, FaultType DEF IPMIFails, FaultKinds
  <2>2. state' \in [Calls -> [Machines -> States]] /\ taking' \in [Machines -> Nat]
    BY <1>8, SetType DEF IPMIFails, States
  <2>3. /\ boot' \in [Machines -> {"disk", "pxe"}]
        /\ node' \in [Machines -> {"os", "off", "netbooting", "installer", "inventory", "restoring"}]
        /\ by' \in [Machines -> Calls \cup {NoCall, Deploying}]
    <3>1. \/ UNCHANGED nodeVars
          \/ boot' = [boot EXCEPT ![x] = "pxe"] /\ UNCHANGED <<node, by>>
          \/ /\ node' = [node EXCEPT ![x] = IF boot[x] = "pxe" THEN "netbooting" ELSE "os"]
             /\ by' = [by EXCEPT ![x] = i]
             /\ UNCHANGED boot
      BY <1>8 DEF IPMIFails
    <3>2. CASE UNCHANGED nodeVars
      BY <3>2
    <3>3. CASE boot' = [boot EXCEPT ![x] = "pxe"] /\ UNCHANGED <<node, by>>
      BY <3>3
    <3>4. CASE /\ node' = [node EXCEPT ![x] = IF boot[x] = "pxe" THEN "netbooting" ELSE "os"]
               /\ by' = [by EXCEPT ![x] = i]
               /\ UNCHANGED boot
      BY <3>4
    <3> QED BY <3>1, <3>2, <3>3, <3>4
  <2> QED BY <1>8, <2>1, <2>2, <2>3 DEF IPMIFails
<1>9. ASSUME NEW i \in Calls, NEW x \in Machines, Expire(i, x) PROVE InspectTypeOK'
  <2>1. state' \in [Calls -> [Machines -> States]] /\ taking' \in [Machines -> Nat]
    BY <1>9, SetType DEF Expire, States
  <2> QED BY <1>9, <2>1 DEF Expire
<1> QED BY <1>1, <1>2, <1>3, <1>4, <1>5, <1>6, <1>7, <1>8, <1>9 DEF Manager

\* The steps of a machine, of its resets and of its deploy are well typed.
LEMMA MachineType ==
    ASSUME InspectTypeOK, NEW x \in Machines, Machine(x) \/ Deploy(x)
    PROVE  InspectTypeOK'
<1> USE DEF InspectTypeOK, driverVars, nodeVars
<1>1. CASE ResetTakes(x)
  BY <1>1 DEF ResetTakes
<1>2. CASE SetBootDisk(x)
  <2>1. fault' \in [FaultKinds -> 0..MaxFaults]
    BY <1>2, FaultType DEF SetBootDisk, FaultKinds
  <2>2. setting' \in [Machines -> Nat]
    BY <1>2 DEF SetBootDisk
  <2>3. boot' \in [Machines -> {"disk", "pxe"}]
    <3>1. boot' = [boot EXCEPT ![x] = "disk"] \/ boot' = boot
      BY <1>2 DEF SetBootDisk
    <3> QED BY <3>1
  <2> QED BY <1>2, <2>1, <2>2, <2>3 DEF SetBootDisk
<1>3. CASE NodeLoads(x) \/ CheckinInspects(x) \/ CheckinAppoints(x)
  BY <1>3 DEF NodeLoads, CheckinInspects, CheckinAppoints
<1>4. CASE ReportInventory(x)
  <2>1. state' \in [Calls -> [Machines -> States]] /\ taking' \in [Machines -> Nat]
    BY <1>4, SetType DEF ReportInventory, States
  <2> QED BY <1>4, <2>1 DEF ReportInventory
<1>5. CASE ReportLost(x)
  <2>1. fault' \in [FaultKinds -> 0..MaxFaults]
    BY <1>5, FaultType DEF ReportLost, FaultKinds
  <2> QED BY <1>5, <2>1 DEF ReportLost
<1>6. CASE DeployStart(x) \/ DeploySetBootPXE(x) \/ DeployPowerCycle(x)
  BY <1>6 DEF DeployStart, DeploySetBootPXE, DeployPowerCycle
<1>7. CASE RestoreDone(x) \/ RestoreUnknown(x) \/ DeployFails(x)
  BY <1>7 DEF RestoreDone, RestoreUnknown, DeployFails
<1> QED BY <1>1, <1>2, <1>3, <1>4, <1>5, <1>6, <1>7 DEF Machine, Deploy

\* A restart forgets and keeps the rest well typed.
LEMMA RestartType == InspectTypeOK /\ Restart => InspectTypeOK'
<1> SUFFICES ASSUME InspectTypeOK, Restart PROVE InspectTypeOK'
  OBVIOUS
<1> USE DEF InspectTypeOK
<1>1. fault' \in [FaultKinds -> 0..MaxFaults]
  BY FaultType DEF Restart, FaultKinds
<1>2. call' \in [Calls -> CallRecords]
  <2>1. \A i \in Calls :
            [call[i] EXCEPT !.pc = IF call[i].pc = "none" THEN call[i].pc ELSE "lost"] \in CallRecords
    <3> SUFFICES ASSUME NEW i \in Calls, NEW p \in {"none", "lost"}
                 PROVE  [call[i] EXCEPT !.pc = p] \in CallRecords
      OBVIOUS
    <3>1. call[i] \in CallRecords
      OBVIOUS
    <3> QED BY <3>1 DEF CallRecords
  <2> QED BY <2>1 DEF Restart
<1>3. /\ inspects' \in [Machines -> Calls \cup {NoCall}]
      /\ inspectNodes' \in [Machines -> BOOLEAN]
      /\ state' \in [Calls -> [Machines -> States]]
      /\ job' \in [Calls -> [Machines -> {"none", "pxe", "cycle", "timer", "done"}]]
  BY DEF Restart, States
<1>4. /\ taking' \in [Machines -> Nat] /\ setting' \in [Machines -> Nat]
      /\ flip' \in Calls \cup {NoCall, Deploying}
      /\ deploy' \in [Machines -> {"none", "begun", "armed", "booted", "restored", "failed", "lost"}]
  BY DEF Restart
<1>5. UNCHANGED <<known, boot, node, by, overlap>>
  BY DEF Restart, nodeVars
<1> QED BY <1>1, <1>2, <1>3, <1>4, <1>5

\* Every step is well typed.
LEMMA InspectTypeNext == InspectTypeOK /\ [Next]_vars => InspectTypeOK'
<1>1. InspectTypeOK /\ UNCHANGED vars => InspectTypeOK'
  BY DEF InspectTypeOK, vars, driverVars, nodeVars
<1> QED BY <1>1, ManagerType, MachineType, RestartType DEF Next

\* Every state of the inspect boots is well typed, for any machines, calls and
\* failures.
THEOREM InspectTypeCorrect == Spec => []InspectTypeOK
BY InspectTypeInit, InspectTypeNext, PTL DEF Spec

(***************************************************************************)
(* Who boots a machine                                                     *)
(***************************************************************************)

\* Nothing is launched in the initial state.
LEMMA BootInit == Init => BootInv
BY DEF Init, BootInv, JobInv, LaunchInv, LaunchedBy, NetbootInv, RestoreInv

\* A step that leaves calls, entries and overlaps alone and moves one machine
\* at most to where the invariant allows it.
LEMMA BootMoves ==
    ASSUME InspectTypeOK, BootInv, NEW x \in Machines,
           UNCHANGED <<call, job, inspects, state>>, overlap \subseteq overlap',
           \A y \in Machines \ {x} : node'[y] = node[y] /\ by'[y] = by[y] /\ deploy'[y] = deploy[y],
           x \notin overlap' =>
                /\ (\E i \in Calls : LaunchedBy(i, x)) => node'[x] \notin Busy /\ ~HasActiveDeploy(x)'
                /\ node'[x] \in {"netbooting", "installer"} =>
                        \/ by'[x] = Deploying
                        \/ by'[x] = by[x] /\ (node[x] \in {"netbooting", "installer"} \/ Forgotten(x))
                /\ node'[x] = "restoring" => by'[x] = Deploying \/ (by'[x] = by[x] /\ Forgotten(x))
    PROVE  BootInv'
<1>1. JobInv'
  BY DEF BootInv, JobInv
<1>2. \A i \in Calls, y \in Machines : LaunchedBy(i, y)' <=> LaunchedBy(i, y)
  BY DEF LaunchedBy
<1>3. \A y \in Machines \ {x} : HasActiveDeploy(y)' <=> HasActiveDeploy(y)
  BY DEF HasActiveDeploy
<1>4. LaunchInv'
  BY <1>2, <1>3 DEF BootInv, LaunchInv
<1>5. \A y \in Machines : by'[y] = by[y] => (Forgotten(y)' <=> Forgotten(y)) /\ (Awaited(y)' <=> Awaited(y))
  BY DEF Forgotten, Awaited
<1>6. NetbootInv'
  BY <1>5 DEF BootInv, NetbootInv
<1>7. RestoreInv'
  BY <1>5 DEF BootInv, RestoreInv
<1> QED BY <1>1, <1>4, <1>6, <1>7 DEF BootInv

\* setInspect changes the current entry and no other.
LEMMA SetFacts ==
    ASSUME InspectTypeOK, NEW x \in Machines, NEW s, setInspect(x, s)
    PROVE  \A j \in Calls, y \in Machines :
                state'[j][y] = IF j = inspects[x] /\ y = x THEN s ELSE state[j][y]
<1>1. NoCall \notin Calls
  BY InspectConstants DEF NoCall, Calls
<1>2. CASE inspects[x] = NoCall
  BY <1>1, <1>2 DEF setInspect
<1>3. CASE inspects[x] # NoCall
  <2>1. inspects[x] \in Calls
    BY <1>3 DEF InspectTypeOK
  <2>2. state' = [state EXCEPT ![inspects[x]] = [state[inspects[x]] EXCEPT ![x] = s]]
    BY <1>3, <2>1 DEF InspectTypeOK, setInspect
  <2> QED BY <2>1, <2>2 DEF InspectTypeOK
<1> QED BY <1>2, <1>3

\* setInspect("error") on a machine nobody launches any more.
LEMMA BootErrs ==
    ASSUME InspectTypeOK, BootInv, NEW i \in Calls, NEW x \in Machines,
           job[i][x] \notin {"none", "done"},
           job' = [job EXCEPT ![i][x] = "done"],
           UNCHANGED <<call, inspects, deploy, overlap>>,
           UNCHANGED state \/ setInspect(x, "error"),
           \A j \in Calls : j # i /\ state' # state /\ x \notin overlap => ~LaunchedBy(j, x),
           \/ UNCHANGED <<node, by>>
           \/ /\ \A y \in Machines \ {x} : node'[y] = node[y] /\ by'[y] = by[y]
              /\ node'[x] \in {"netbooting", "os"} /\ by'[x] = i
              /\ LaunchedBy(i, x) /\ setInspect(x, "error")
    PROVE  BootInv'
<1>1. \A j \in Calls, y \in Machines :
            job'[j][y] = IF j = i /\ y = x THEN "done" ELSE job[j][y]
  BY DEF InspectTypeOK
<1>2. JobInv'
  BY <1>1 DEF BootInv, JobInv
<1>3. call[i].pc = "started"
  BY DEF BootInv, JobInv
<1>4. ~LaunchedBy(i, x)'
  BY <1>1, <1>3 DEF LaunchedBy
<1>5. \A j \in Calls, y \in Machines : LaunchedBy(j, y)' => LaunchedBy(j, y) /\ <<j, y>> # <<i, x>>
  BY <1>1, <1>4 DEF LaunchedBy
<1>6. \A j \in Calls, y \in Machines :
            \/ state'[j][y] = state[j][y]
            \/ y = x /\ state' # state /\ inspects[x] = j /\ state'[j][y] = "error"
  BY SetFacts DEF InspectTypeOK
<1>7. \A y \in Machines : HasActiveDeploy(y)' <=> HasActiveDeploy(y)
  BY DEF HasActiveDeploy
<1>0. NoCall \notin Calls
  BY InspectConstants DEF NoCall, Calls
<1>10. \A y \in Machines : by'[y] = by[y] =>
            (Forgotten(y) => Forgotten(y)') /\ (Awaited(y) => Awaited(y)')
  BY <1>0, <1>1, <1>6 DEF Forgotten, Awaited
<1>8. ASSUME UNCHANGED <<node, by>>
      PROVE  LaunchInv' /\ NetbootInv' /\ RestoreInv'
  <2>1. LaunchInv'
    BY <1>5, <1>6, <1>7, <1>8 DEF BootInv, LaunchInv
  <2>2. NetbootInv'
    BY <1>10, <1>8 DEF BootInv, NetbootInv
  <2>3. RestoreInv'
    BY <1>10, <1>8 DEF BootInv, RestoreInv
  <2> QED BY <2>1, <2>2, <2>3
<1>9. ASSUME /\ \A y \in Machines \ {x} : node'[y] = node[y] /\ by'[y] = by[y]
             /\ node'[x] \in {"netbooting", "os"} /\ by'[x] = i
             /\ LaunchedBy(i, x) /\ setInspect(x, "error")
      PROVE  LaunchInv' /\ NetbootInv' /\ RestoreInv'
  <2>1. x \notin overlap => inspects[x] = i /\ \A j \in Calls \ {i} : ~LaunchedBy(j, x)
    BY <1>9 DEF BootInv, LaunchInv
  <2>2. x \notin overlap => state'[i][x] = "error"
    BY <1>9, <2>1, SetFacts
  <2>3. LaunchInv'
    BY <1>5, <1>6, <1>7, <1>9, <2>1 DEF BootInv, LaunchInv
  <2>6. x \notin overlap => Awaited(x)'
    BY <1>1, <1>9, <2>1, <2>2 DEF Awaited
  <2>4. NetbootInv'
    BY <1>10, <1>9, <2>6 DEF BootInv, NetbootInv
  <2>5. RestoreInv'
    BY <1>10, <1>9 DEF BootInv, RestoreInv
  <2> QED BY <2>3, <2>4, <2>5
<1> QED BY <1>2, <1>8, <1>9 DEF BootInv

\* A new call: where it meets another boot, the machine counts as overlapping.
LEMMA BootStarts ==
    ASSUME InspectTypeOK, BootInv, NEW i \in Calls, NEW ids \in SUBSET Machines,
           StartInspect(i, ids)
    PROVE  BootInv'
<1>1. /\ call[i].pc = "none"
      /\ \A j \in Calls : call'[j] = IF j = i THEN [pc |-> "flip", ids |-> ids, prev |-> inspects,
                                                   prevNode |-> inspectNodes]
                                               ELSE call[j]
      /\ \A j \in Calls, x \in Machines :
            state'[j][x] = IF j = i /\ x \in ids THEN "booting" ELSE state[j][x]
      /\ \A x \in Machines : inspects'[x] = IF x \in ids THEN i ELSE inspects[x]
      /\ UNCHANGED <<job, node, by, deploy>>
      /\ overlap' = overlap \cup {x \in ids : AtWork(x)}
  BY DEF StartInspect, InspectTypeOK, nodeVars
<1>2. \A x \in Machines : job[i][x] = "none"
  BY <1>1 DEF BootInv, JobInv
<1>3. JobInv'
  BY <1>1, <1>2 DEF BootInv, JobInv
<1>4. \A j \in Calls, x \in Machines : LaunchedBy(j, x) => Launching(x)
  BY DEF LaunchedBy, Launching
<1>5. \A x \in ids \ overlap' :
            ~Launching(x) /\ node[x] \notin Busy /\ ~HasActiveDeploy(x)
  BY <1>1 DEF AtWork, Busy
<1>6. LaunchInv'
  <2> SUFFICES ASSUME NEW j \in Calls, NEW x \in Machines \ overlap', LaunchedBy(j, x)'
               PROVE  /\ inspects'[x] = j /\ state'[j][x] = "booting"
                      /\ node'[x] \notin Busy /\ ~HasActiveDeploy(x)'
    BY DEF LaunchInv
  <2>1. CASE x \in ids
    <3>1. j = i
      BY <1>1, <1>4, <1>5, <2>1 DEF LaunchedBy
    <3> QED BY <1>1, <1>5, <2>1, <3>1 DEF HasActiveDeploy
  <2>2. CASE x \notin ids
    <3>1. LaunchedBy(j, x) /\ j # i
      BY <1>1, <1>2, <2>2 DEF LaunchedBy
    <3> QED BY <1>1, <2>2, <3>1 DEF BootInv, LaunchInv, HasActiveDeploy
  <2> QED BY <2>1, <2>2
<1>7. \A x \in Machines \ ids : (Forgotten(x) => Forgotten(x)') /\ (Awaited(x) => Awaited(x)')
  BY <1>1 DEF Forgotten, Awaited
<1>8. \A x \in Machines \ overlap' : node[x] \in Busy => x \notin ids
  BY <1>5 DEF Busy
<1>9. NetbootInv'
  BY <1>1, <1>7, <1>8 DEF BootInv, NetbootInv, Busy
<1>10. RestoreInv'
  BY <1>1, <1>7, <1>8 DEF BootInv, RestoreInv, Busy
<1> QED BY <1>3, <1>6, <1>9, <1>10 DEF BootInv

\* A flip that succeeds hands the machines to the goroutines.
LEMMA BootFlips ==
    ASSUME InspectTypeOK, BootInv, NEW i \in Calls, FlipAccepted(i)
    PROVE  BootInv'
<1>1. /\ call[i].pc = "flip" /\ call[i] \in CallRecords
      /\ \A j \in Calls : call'[j].ids = call[j].ids
                            /\ call'[j].pc = IF j = i THEN "started" ELSE call[j].pc
      /\ \A j \in Calls, x \in Machines :
            job'[j][x] = IF j = i /\ x \in call[i].ids THEN "pxe" ELSE job[j][x]
      /\ UNCHANGED <<inspects, state, node, by, deploy, overlap>>
  BY DEF FlipAccepted, InspectTypeOK, nodeVars, CallRecords
<1>2. JobInv'
  BY <1>1 DEF BootInv, JobInv
<1>3. \A j \in Calls, x \in Machines : LaunchedBy(j, x)' => LaunchedBy(j, x)
  BY <1>1 DEF LaunchedBy
<1>4. LaunchInv'
  BY <1>1, <1>3 DEF BootInv, LaunchInv, HasActiveDeploy
<1>5. \A x \in Machines : (Forgotten(x) => Forgotten(x)') /\ (Awaited(x) => Awaited(x)')
  BY <1>1 DEF Forgotten, Awaited
<1>6. NetbootInv' /\ RestoreInv'
  BY <1>1, <1>5 DEF BootInv, NetbootInv, RestoreInv
<1> QED BY <1>2, <1>4, <1>6 DEF BootInv

\* A flip that is refused puts the entries back, of machines at rest.
LEMMA BootRefused ==
    ASSUME InspectTypeOK, BootInv, NEW i \in Calls, FlipRefused(i)
    PROVE  BootInv'
<1>1. /\ call[i].pc = "flip" /\ call[i] \in CallRecords
      /\ \A j \in Calls : call'[j].ids = call[j].ids
                            /\ call'[j].pc = IF j = i THEN "refused" ELSE call[j].pc
      /\ \A x \in Machines \ call[i].ids : inspects'[x] = inspects[x]
      /\ UNCHANGED <<job, state, node, by, deploy, overlap>>
  BY DEF FlipRefused, InspectTypeOK, nodeVars, CallRecords
<1>2. JobInv'
  BY <1>1 DEF BootInv, JobInv
<1>3. \A x \in call[i].ids : LaunchedBy(i, x)
  BY <1>1 DEF LaunchedBy
<1>4. \A j \in Calls, x \in Machines : LaunchedBy(j, x)' => LaunchedBy(j, x) /\ j # i
  BY <1>1 DEF LaunchedBy, BootInv, JobInv
<1>5. \A x \in call[i].ids \ overlap : inspects[x] = i /\ node[x] \notin Busy
  BY <1>1, <1>3 DEF BootInv, LaunchInv, CallRecords
<1>6. LaunchInv'
  BY <1>1, <1>4, <1>5 DEF BootInv, LaunchInv, HasActiveDeploy
<1>7. \A x \in Machines \ call[i].ids : (Forgotten(x) => Forgotten(x)') /\ (Awaited(x) => Awaited(x)')
  BY <1>1 DEF Forgotten, Awaited
<1>8. NetbootInv'
  BY <1>1, <1>5, <1>7 DEF BootInv, NetbootInv, Busy
<1>9. RestoreInv'
  BY <1>1, <1>5, <1>7 DEF BootInv, RestoreInv, Busy
<1> QED BY <1>2, <1>6, <1>8, <1>9 DEF BootInv

\* A goroutine sets the boot device, then power-cycles the machine.
LEMMA BootCycles ==
    ASSUME InspectTypeOK, BootInv, NEW i \in Calls, NEW x \in Machines,
           SetBootPXE(i, x) \/ PowerCycle(i, x)
    PROVE  BootInv'
<1>0. job[i][x] \in {"pxe", "cycle"} /\ call[i].pc = "started"
  BY DEF SetBootPXE, PowerCycle, BootInv, JobInv
<1>1. CASE SetBootPXE(i, x)
  <2>1. /\ \A j \in Calls, y \in Machines :
                job'[j][y] = IF j = i /\ y = x THEN "cycle" ELSE job[j][y]
        /\ UNCHANGED <<call, inspects, state, node, by, deploy, overlap>>
    BY <1>1 DEF SetBootPXE, InspectTypeOK
  <2>2. JobInv'
    BY <1>0, <2>1 DEF BootInv, JobInv
  <2>3. \A j \in Calls, y \in Machines : LaunchedBy(j, y)' => LaunchedBy(j, y)
    BY <1>0, <2>1 DEF LaunchedBy
  <2>4. \A y \in Machines : (Forgotten(y) => Forgotten(y)') /\ (Awaited(y) => Awaited(y)')
    BY <2>1 DEF Forgotten, Awaited
  <2>5. LaunchInv' /\ NetbootInv' /\ RestoreInv'
    BY <2>1, <2>3, <2>4 DEF BootInv, LaunchInv, NetbootInv, RestoreInv, HasActiveDeploy
  <2> QED BY <2>2, <2>5 DEF BootInv
<1>2. CASE PowerCycle(i, x)
  <2>1. /\ \A j \in Calls, y \in Machines :
                job'[j][y] = IF j = i /\ y = x THEN "timer" ELSE job[j][y]
        /\ \A y \in Machines \ {x} : node'[y] = node[y] /\ by'[y] = by[y]
        /\ node'[x] \in {"netbooting", "os"} /\ by'[x] = i
        /\ UNCHANGED <<call, inspects, state, deploy, overlap>>
    BY <1>2 DEF PowerCycle, InspectTypeOK
  <2>2. JobInv'
    BY <1>0, <2>1 DEF BootInv, JobInv
  <2>3. LaunchedBy(i, x) /\ ~LaunchedBy(i, x)'
    BY <1>0, <2>1 DEF LaunchedBy
  <2>4. x \notin overlap => inspects[x] = i /\ state[i][x] = "booting"
    BY <2>3 DEF BootInv, LaunchInv
  <2>5. \A j \in Calls, y \in Machines \ overlap :
            LaunchedBy(j, y)' => LaunchedBy(j, y) /\ y # x
    BY <2>1, <2>3, <2>4 DEF LaunchedBy, BootInv, LaunchInv
  <2>6. LaunchInv'
    BY <2>1, <2>5 DEF BootInv, LaunchInv, HasActiveDeploy
  <2>7. x \notin overlap => Awaited(x)'
    BY <2>1, <2>4 DEF Awaited
  <2>8. \A y \in Machines \ {x} : (Forgotten(y) => Forgotten(y)') /\ (Awaited(y) => Awaited(y)')
    BY <2>1 DEF Forgotten, Awaited
  <2>9. NetbootInv'
    BY <2>1, <2>7, <2>8 DEF BootInv, NetbootInv
  <2>10. RestoreInv'
    BY <2>1, <2>8 DEF BootInv, RestoreInv
  <2> QED BY <2>2, <2>6, <2>9, <2>10 DEF BootInv
<1> QED BY <1>1, <1>2

\* The timer of a goroutine, or its IPMI call, ends it.
LEMMA BootFails ==
    ASSUME InspectTypeOK, BootInv, NEW i \in Calls, NEW x \in Machines,
           IPMIFails(i, x) \/ Expire(i, x)
    PROVE  BootInv'
<1>1. CASE IPMIFails(i, x)
  <2>1. LaunchedBy(i, x)
    BY <1>1 DEF IPMIFails, LaunchedBy
  <2>2. \A j \in Calls : j # i /\ x \notin overlap => ~LaunchedBy(j, x)
    BY <2>1 DEF BootInv, LaunchInv
  <2>3. /\ job[i][x] \notin {"none", "done"} /\ job' = [job EXCEPT ![i][x] = "done"]
        /\ UNCHANGED <<call, inspects, deploy, overlap>> /\ setInspect(x, "error")
    BY <1>1 DEF IPMIFails
  <2>4. \/ UNCHANGED <<node, by>>
        \/ /\ \A y \in Machines \ {x} : node'[y] = node[y] /\ by'[y] = by[y]
           /\ node'[x] \in {"netbooting", "os"} /\ by'[x] = i
    BY <1>1 DEF IPMIFails, nodeVars, InspectTypeOK
  <2> QED BY <2>1, <2>2, <2>3, <2>4, BootErrs
<1>2. CASE Expire(i, x)
  <2>1. state' # state => inspects[x] = i
    BY <1>2 DEF Expire, expires
  <2>2. \A j \in Calls : j # i /\ state' # state /\ x \notin overlap => ~LaunchedBy(j, x)
    BY <2>1 DEF BootInv, LaunchInv
  <2> QED BY <1>2, <2>2, BootErrs DEF Expire, nodeVars
<1> QED BY <1>1, <1>2

\* What a machine, its resets and its deploy do.
LEMMA BootMachine ==
    ASSUME InspectTypeOK, BootInv, NEW x \in Machines, Machine(x) \/ Deploy(x)
    PROVE  BootInv'
<1> DEFINE Elsewhere == \A y \in Machines \ {x} :
                node'[y] = node[y] /\ by'[y] = by[y] /\ deploy'[y] = deploy[y]
           Launched == \E i \in Calls : LaunchedBy(i, x)
<1> USE DEF driverVars, nodeVars
<1>0. /\ x \notin overlap /\ Launched => node[x] \notin Busy /\ ~HasActiveDeploy(x)
      /\ x \notin overlap /\ node[x] = "restoring" => by[x] = Deploying \/ Forgotten(x)
  BY DEF BootInv, LaunchInv, RestoreInv
<1>1. CASE ResetTakes(x) \/ SetBootDisk(x) \/ DeploySetBootPXE(x)
  <2>1. /\ UNCHANGED <<call, job, inspects, state, node, by, overlap>> /\ Elsewhere
        /\ HasActiveDeploy(x)' <=> HasActiveDeploy(x)
    BY <1>1 DEF ResetTakes, SetBootDisk, DeploySetBootPXE, HasActiveDeploy, InspectTypeOK
  <2> QED BY <1>0, <2>1, BootMoves
<1>2. CASE NodeLoads(x)
  <2>1. /\ UNCHANGED <<call, job, inspects, state, by, deploy, overlap>> /\ Elsewhere
        /\ node[x] = "netbooting" /\ node'[x] = "installer"
    BY <1>2 DEF NodeLoads, InspectTypeOK
  <2>2. HasActiveDeploy(x)' <=> HasActiveDeploy(x)
    BY <2>1 DEF HasActiveDeploy
  <2> QED BY <1>0, <2>1, <2>2, BootMoves DEF Busy
<1>3. CASE CheckinInspects(x)
  <2>1. /\ UNCHANGED <<call, job, inspects, state, by, deploy, overlap>> /\ Elsewhere
        /\ node[x] = "installer" /\ node'[x] = "inventory"
    BY <1>3 DEF CheckinInspects, InspectTypeOK
  <2>2. HasActiveDeploy(x)' <=> HasActiveDeploy(x)
    BY <2>1 DEF HasActiveDeploy
  <2> QED BY <1>0, <2>1, <2>2, BootMoves DEF Busy
<1>4. CASE CheckinAppoints(x)
  <2>1. /\ UNCHANGED <<call, job, inspects, state, by, deploy, overlap>> /\ Elsewhere
        /\ node[x] = "installer" /\ node'[x] = "restoring"
    BY <1>4 DEF CheckinAppoints, InspectTypeOK
  <2>2. current(x) \in {"none", "reported"}
    BY <1>4 DEF CheckinAppoints, IsInspecting
  <2>3. x \notin overlap => by[x] = Deploying \/ Forgotten(x)
    <3>1. Awaited(x) => inspects[x] # NoCall /\ current(x) \in {"booting", "error"}
      BY InspectConstants DEF Awaited, current, NoCall, Calls
    <3> QED BY <2>1, <2>2, <3>1 DEF BootInv, NetbootInv
  <2>4. HasActiveDeploy(x)' <=> HasActiveDeploy(x)
    BY <2>1 DEF HasActiveDeploy
  <2> QED BY <1>0, <2>1, <2>3, <2>4, BootMoves DEF Busy
<1>5. CASE ReportInventory(x)
  <2>1. /\ UNCHANGED <<call, job, inspects, by, deploy, overlap>> /\ Elsewhere
        /\ node[x] = "inventory" /\ node'[x] = "off" /\ setInspect(x, "reported")
    BY <1>5 DEF ReportInventory, InspectTypeOK
  <2>2. \A j \in Calls, y \in Machines \ {x} : state'[j][y] = state[j][y]
    BY <2>1, SetFacts
  <2>3. \A j \in Calls, y \in Machines : LaunchedBy(j, y)' <=> LaunchedBy(j, y)
    BY <2>1 DEF LaunchedBy
  <2>4. x \notin overlap => ~Launched
    BY <1>0, <2>1 DEF Busy
  <2>5. JobInv'
    BY <2>1 DEF BootInv, JobInv
  <2>6. LaunchInv'
    BY <2>1, <2>2, <2>3, <2>4 DEF BootInv, LaunchInv, HasActiveDeploy
  <2>7. \A y \in Machines \ {x} : (Forgotten(y) => Forgotten(y)') /\ (Awaited(y) => Awaited(y)')
    BY <2>1, <2>2 DEF Forgotten, Awaited
  <2>8. NetbootInv' /\ RestoreInv'
    BY <2>1, <2>7 DEF BootInv, NetbootInv, RestoreInv
  <2> QED BY <2>5, <2>6, <2>8 DEF BootInv
<1>6. CASE ReportLost(x)
  <2>1. /\ UNCHANGED <<call, job, inspects, state, by, deploy, overlap>> /\ Elsewhere
        /\ node'[x] = "off"
    BY <1>6 DEF ReportLost, InspectTypeOK
  <2>2. HasActiveDeploy(x)' <=> HasActiveDeploy(x)
    BY <2>1 DEF HasActiveDeploy
  <2> QED BY <1>0, <2>1, <2>2, BootMoves DEF Busy
<1>7. CASE DeployStart(x)
  <2>1. /\ UNCHANGED <<call, job, inspects, state, by, node>> /\ Elsewhere
        /\ overlap \subseteq overlap' /\ (Launching(x) => x \in overlap')
    BY <1>7 DEF DeployStart, InspectTypeOK
  <2>2. Launched => Launching(x)
    BY DEF LaunchedBy, Launching
  <2> QED BY <1>0, <2>1, <2>2, BootMoves
<1>8. CASE DeployPowerCycle(x)
  <2>1. /\ UNCHANGED <<call, job, inspects, state, overlap>> /\ Elsewhere
        /\ node'[x] \in {"netbooting", "os"} /\ by'[x] = Deploying /\ HasActiveDeploy(x)
    BY <1>8 DEF DeployPowerCycle, InspectTypeOK, HasActiveDeploy
  <2> QED BY <1>0, <2>1, BootMoves
<1>9. CASE RestoreDone(x)
  <2>1. /\ UNCHANGED <<call, job, inspects, state, by, overlap>> /\ Elsewhere
        /\ node'[x] = "os" /\ (HasActiveDeploy(x)' => HasActiveDeploy(x))
    BY <1>9 DEF RestoreDone, InspectTypeOK, HasActiveDeploy
  <2> QED BY <1>0, <2>1, BootMoves DEF Busy
<1>10. CASE DeployFails(x)
  <2>1. /\ UNCHANGED <<call, job, inspects, state, by, node, overlap>> /\ Elsewhere
        /\ ~HasActiveDeploy(x)'
    BY <1>10 DEF DeployFails, InspectTypeOK, HasActiveDeploy
  <2> QED BY <1>0, <2>1, BootMoves
<1>11. CASE RestoreUnknown(x)
  <2>1. /\ UNCHANGED <<call, job, inspects, state, by, deploy, overlap>> /\ Elsewhere
        /\ node'[x] \in {"netbooting", "os"} /\ node[x] = "restoring"
    BY <1>11 DEF RestoreUnknown, InspectTypeOK
  <2>2. HasActiveDeploy(x)' <=> HasActiveDeploy(x)
    BY <2>1 DEF HasActiveDeploy
  <2> QED BY <1>0, <2>1, <2>2, BootMoves DEF Busy
<1> QED
  BY <1>1, <1>2, <1>3, <1>4, <1>5, <1>6, <1>7, <1>8, <1>9, <1>10, <1>11 DEF Machine, Deploy

\* A restart ends every goroutine and forgets every entry.
LEMMA RestartFacts ==
    ASSUME InspectTypeOK, Restart
    PROVE  /\ \A x \in Machines : inspects'[x] = NoCall
           /\ \A i \in Calls, x \in Machines :
                /\ state'[i][x] = "none"
                /\ job'[i][x] = IF job[i][x] = "none" THEN "none" ELSE "done"
           /\ \A i \in Calls : /\ call'[i].ids = call[i].ids
                                /\ call'[i].pc = IF call[i].pc = "none" THEN "none" ELSE "lost"
           /\ UNCHANGED <<boot, node, by, overlap>>
BY DEF Restart, nodeVars, InspectTypeOK, CallRecords

LEMMA BootRestarts == ASSUME InspectTypeOK, BootInv, Restart PROVE BootInv'
<1>1. JobInv'
  BY RestartFacts DEF BootInv, JobInv
<1>2. \A i \in Calls, x \in Machines : ~LaunchedBy(i, x)'
  BY RestartFacts DEF LaunchedBy
<1>3. \A x \in Machines : Forgotten(x) \/ Awaited(x) => Forgotten(x)'
  BY RestartFacts DEF Forgotten, Awaited
<1>4. LaunchInv' /\ NetbootInv' /\ RestoreInv'
  BY <1>2, <1>3, RestartFacts DEF BootInv, LaunchInv, NetbootInv, RestoreInv
<1> QED BY <1>1, <1>4 DEF BootInv

\* Every step keeps the invariant.
LEMMA BootNext == InspectTypeOK /\ BootInv /\ [Next]_vars => BootInv'
<1> SUFFICES ASSUME InspectTypeOK, BootInv, [Next]_vars PROVE BootInv'
  OBVIOUS
<1>1. ASSUME NEW i \in Calls, WatchRestores(i) \/ WatchDeadline(i) PROVE BootInv'
  <2>1. UNCHANGED <<call, job, inspects, state, node, by, deploy, overlap>>
    BY <1>1 DEF WatchRestores, WatchDeadline, driverVars, nodeVars
  <2> QED
    BY <2>1 DEF BootInv, JobInv, LaunchInv, LaunchedBy, HasActiveDeploy, NetbootInv,
                RestoreInv, Forgotten, Awaited
<1>2. CASE UNCHANGED vars
  BY <1>2 DEF vars, driverVars, nodeVars, BootInv, JobInv, LaunchInv, LaunchedBy,
              HasActiveDeploy, NetbootInv, RestoreInv, Forgotten, Awaited
<1>3. CASE Manager
  BY <1>1, <1>3, BootStarts, BootFlips, BootRefused, BootCycles, BootFails DEF Manager
<1> QED BY <1>2, <1>3, BootMachine, BootRestarts DEF Next

\* "an inspect must never restore a disk": whatever the order of inspects,
\* deploys, timeouts and check-ins, a machine that restores was power-cycled by
\* a deploy, unless an inspect and another boot of it were launched at once, or
\* the driver was restarted since and has no inspect of it in memory any more.
THEOREM InspectNeverRestoresAlways == Spec => []InspectNeverRestores
<1>1. Init => InspectTypeOK /\ BootInv
  BY InspectTypeInit, BootInit
<1>2. InspectTypeOK /\ BootInv /\ [Next]_vars => (InspectTypeOK /\ BootInv)'
  BY InspectTypeNext, BootNext
<1>3. BootInv => InspectNeverRestores
  BY DEF BootInv, RestoreInv, Forgotten, InspectNeverRestores
<1> QED BY <1>1, <1>2, <1>3, PTL DEF Spec

(***************************************************************************)
(* Timers                                                                  *)
(***************************************************************************)

\* A failure is counted and not forgotten.
LEMMA FaultCounts ==
    ASSUME InspectTypeOK, NEW k \in FaultKinds, Fault(k)
    PROVE  fault'[k] # 0 /\ \A q \in FaultKinds \ {k} : fault'[q] = fault[q]
BY InspectConstants DEF InspectTypeOK, Fault, FaultKinds

\* A step that makes no entry an error and takes no finished goroutine back.
LEMMA TimerKept ==
    ASSUME InspectTypeOK, FailsByOwnTimer, fault'["ipmi"] = fault["ipmi"],
           \A i \in Calls, x \in Machines :
                state'[i][x] = "error" => state[i][x] = "error" /\ (job[i][x] = "done" => job'[i][x] = "done")
    PROVE  FailsByOwnTimer'
BY DEF FailsByOwnTimer

\* Every step keeps the timers of the calls apart.
LEMMA TimerNext == InspectTypeOK /\ BootInv /\ FailsByOwnTimer /\ [Next]_vars => FailsByOwnTimer'
<1> SUFFICES ASSUME InspectTypeOK, BootInv, FailsByOwnTimer, [Next]_vars PROVE FailsByOwnTimer'
  OBVIOUS
<1> USE DEF driverVars, nodeVars
<1>1. ASSUME UNCHANGED <<state, job>>, fault'["ipmi"] = fault["ipmi"] PROVE FailsByOwnTimer'
  BY <1>1, TimerKept
<1>2. ASSUME NEW i \in Calls, NEW ids \in SUBSET Machines, StartInspect(i, ids)
      PROVE  FailsByOwnTimer'
  <2>1. /\ \A j \in Calls, x \in Machines :
                state'[j][x] = IF j = i /\ x \in ids THEN "booting" ELSE state[j][x]
        /\ UNCHANGED <<job, fault>>
    BY <1>2 DEF StartInspect, InspectTypeOK
  <2> QED BY <2>1, TimerKept
<1>3. ASSUME NEW i \in Calls, FlipAccepted(i) PROVE FailsByOwnTimer'
  <2>1. /\ call[i].pc = "flip" /\ UNCHANGED <<state, fault>>
        /\ \A j \in Calls, x \in Machines : j # i => job'[j][x] = job[j][x]
    BY <1>3 DEF FlipAccepted, InspectTypeOK
  <2>2. \A x \in Machines : job[i][x] = "none"
    BY <2>1 DEF BootInv, JobInv
  <2> QED BY <2>1, <2>2, TimerKept
<1>4. ASSUME NEW i \in Calls, FlipRefused(i) \/ WatchRestores(i) PROVE FailsByOwnTimer'
  BY <1>1, <1>4 DEF FlipRefused, WatchRestores
<1>5. ASSUME NEW i \in Calls, WatchDeadline(i) PROVE FailsByOwnTimer'
  <2>1. fault'["ipmi"] = fault["ipmi"]
    BY <1>5, FaultCounts DEF WatchDeadline, FaultKinds
  <2> QED BY <1>1, <1>5, <2>1 DEF WatchDeadline
<1>6. ASSUME NEW i \in Calls, NEW x \in Machines, SetBootPXE(i, x) \/ PowerCycle(i, x)
      PROVE  FailsByOwnTimer'
  <2>1. /\ job[i][x] # "done" /\ UNCHANGED <<state, fault>>
        /\ \A j \in Calls, y \in Machines : <<j, y>> # <<i, x>> => job'[j][y] = job[j][y]
    BY <1>6 DEF SetBootPXE, PowerCycle, InspectTypeOK
  <2> QED BY <2>1, TimerKept
<1>7. ASSUME NEW i \in Calls, NEW x \in Machines, IPMIFails(i, x) PROVE FailsByOwnTimer'
  <2>1. fault'["ipmi"] # 0
    BY <1>7, FaultCounts DEF IPMIFails, FaultKinds
  <2> QED BY <2>1 DEF FailsByOwnTimer
<1>8. ASSUME NEW i \in Calls, NEW x \in Machines, Expire(i, x) PROVE FailsByOwnTimer'
  <2>1. /\ UNCHANGED fault
        /\ \A j \in Calls, y \in Machines :
                job'[j][y] = IF j = i /\ y = x THEN "done" ELSE job[j][y]
    BY <1>8 DEF Expire, InspectTypeOK
  <2>2. \A j \in Calls, y \in Machines :
            state'[j][y] = "error" => state[j][y] = "error" \/ (j = i /\ y = x)
    <3>1. CASE expires(i, x)
      BY <1>8, <3>1, SetFacts DEF Expire, expires
    <3>2. CASE ~expires(i, x)
      BY <1>8, <3>2 DEF Expire
    <3> QED BY <3>1, <3>2
  <2> QED BY <2>1, <2>2 DEF FailsByOwnTimer
<1>9. ASSUME NEW x \in Machines, ReportInventory(x) PROVE FailsByOwnTimer'
  <2>1. \A j \in Calls, y \in Machines : state'[j][y] = "error" => state[j][y] = "error"
    BY <1>9, SetFacts DEF ReportInventory
  <2> QED BY <1>9, <2>1, TimerKept DEF ReportInventory
<1>10. ASSUME NEW x \in Machines, SetBootDisk(x) \/ ReportLost(x) PROVE FailsByOwnTimer'
  <2>1. fault'["ipmi"] = fault["ipmi"]
    BY <1>10, FaultCounts DEF SetBootDisk, ReportLost, FaultKinds
  <2> QED BY <1>1, <1>10, <2>1 DEF SetBootDisk, ReportLost
<1>11. ASSUME NEW x \in Machines,
              \/ ResetTakes(x) \/ NodeLoads(x) \/ CheckinInspects(x) \/ CheckinAppoints(x)
              \/ Deploy(x)
       PROVE  FailsByOwnTimer'
  <2>1. UNCHANGED <<state, job, fault>>
    BY <1>11 DEF ResetTakes, NodeLoads, CheckinInspects, CheckinAppoints, Deploy, DeployStart,
                 DeploySetBootPXE, DeployPowerCycle, RestoreDone, RestoreUnknown, DeployFails
  <2> QED BY <1>1, <2>1
<1>12. CASE UNCHANGED vars
  BY <1>1, <1>12 DEF vars
<1>13. CASE Manager
  BY <1>2, <1>3, <1>4, <1>5, <1>6, <1>7, <1>8, <1>13 DEF Manager
<1>14. CASE Restart
  <2>1. fault'["ipmi"] = fault["ipmi"]
    BY <1>14, FaultCounts DEF Restart, FaultKinds
  <2> QED BY <1>14, <2>1, RestartFacts, TimerKept
<1> QED BY <1>9, <1>10, <1>11, <1>12, <1>13, <1>14 DEF Next, Machine

\* An inspect is in error only after its own timeout: no earlier call's timer
\* fails it, for any number of calls, refused ones included.
THEOREM FailsByOwnTimerAlways == Spec => []FailsByOwnTimer
<1>1. Init => InspectTypeOK /\ BootInv /\ FailsByOwnTimer
  <2>1. Init => FailsByOwnTimer
    BY DEF Init, FailsByOwnTimer
  <2> QED BY <2>1, InspectTypeInit, BootInit
<1>2. InspectTypeOK /\ BootInv /\ FailsByOwnTimer /\ [Next]_vars
        => (InspectTypeOK /\ BootInv /\ FailsByOwnTimer)'
  BY InspectTypeNext, BootNext, TimerNext
<1> QED BY <1>1, <1>2, PTL DEF Spec

(***************************************************************************)
(* The PXE default                                                         *)
(***************************************************************************)

\* A step that lets no default go and launches or power-cycles nothing.
LEMMA FlipKept ==
    ASSUME InspectTypeOK, FlipInv, overlap \subseteq overlap',
           fault'["deadline"] = 0 => fault["deadline"] = 0,
           \A i \in Calls : flip = i => flip' = i,
           \A i \in Calls, x \in Machines \ overlap :
                /\ job[i][x] # "none" => job'[i][x] # "none"
                /\ job'[i][x] \in {"pxe", "cycle"} => job[i][x] \in {"pxe", "cycle"}
                /\ node'[x] = "netbooting" /\ by'[x] = i =>
                        node[x] = "netbooting" /\ by[x] = i
                /\ state'[i][x] = "booting" /\ job[i][x] # "none" => state[i][x] = "booting"
    PROVE  FlipInv'
BY DEF FlipInv

\* Every step keeps the default of a call that still boots.
LEMMA FlipNext == InspectTypeOK /\ BootInv /\ FlipInv /\ [Next]_vars => FlipInv'
<1> SUFFICES ASSUME InspectTypeOK, BootInv, FlipInv, [Next]_vars PROVE FlipInv'
  OBVIOUS
<1> USE DEF driverVars, nodeVars
<1>0. Deploying \notin Calls /\ NoCall \notin Calls
  BY InspectConstants DEF Deploying, NoCall, Calls
<1>1. ASSUME UNCHANGED <<job, state, node, by, overlap, flip>>,
             fault'["deadline"] = 0 => fault["deadline"] = 0
      PROVE  FlipInv'
  BY <1>1, FlipKept
<1>2. ASSUME NEW i \in Calls, NEW ids \in SUBSET Machines, StartInspect(i, ids) PROVE FlipInv'
  <2>1. /\ \A j \in Calls, x \in Machines :
                state'[j][x] = IF j = i /\ x \in ids THEN "booting" ELSE state[j][x]
        /\ call[i].pc = "none" /\ overlap \subseteq overlap'
        /\ UNCHANGED <<job, fault, flip, node, by>>
    BY <1>2 DEF StartInspect, InspectTypeOK
  <2>2. \A x \in Machines : job[i][x] = "none"
    BY <2>1 DEF BootInv, JobInv
  <2> QED BY <2>1, <2>2, FlipKept
<1>3. ASSUME NEW i \in Calls, FlipAccepted(i) PROVE FlipInv'
  <2>1. /\ Flipper => flip = NoCall /\ flip' = i
        /\ call[i].pc = "flip" /\ UNCHANGED <<state, fault, node, by, overlap>>
        /\ \A j \in Calls, x \in Machines :
                \/ job'[j][x] = job[j][x]
                \/ j = i /\ job'[j][x] = "pxe"
    BY <1>3 DEF FlipAccepted, mayFlip, InspectTypeOK
  <2>2. \A x \in Machines : job[i][x] = "none"
    BY <2>1 DEF BootInv, JobInv
  <2> QED BY <1>0, <2>1, <2>2 DEF FlipInv
<1>4. ASSUME NEW i \in Calls, FlipRefused(i) PROVE FlipInv'
  BY <1>1, <1>4 DEF FlipRefused
<1>5. ASSUME NEW i \in Calls, WatchRestores(i) PROVE FlipInv'
  <2>1. /\ flip = i /\ inspectsBooted(call[i].ids)
        /\ UNCHANGED <<job, state, node, by, overlap, fault>>
    BY <1>5 DEF WatchRestores
  <2>2. ASSUME NEW x \in Machines \ overlap, job[i][x] # "none",
               job[i][x] \in {"pxe", "cycle"} \/ (node[x] = "netbooting" /\ by[x] = i)
        PROVE  state[i][x] # "booting"
    <3>1. x \in call[i].ids
      BY <2>2 DEF BootInv, JobInv
    <3>2. inspects[x] = i \/ state[i][x] = "none"
      BY <1>0, <2>2 DEF BootInv, LaunchInv, LaunchedBy, NetbootInv, Awaited, Forgotten
    <3>3. inspects[x] = i => current(x) = state[i][x]
      BY <1>0 DEF current
    <3> QED BY <2>1, <3>1, <3>2, <3>3 DEF inspectsBooted, Ended
  <2>3. \A j \in Calls, x \in Machines \ overlap :
            Flipper /\ fault["deadline"] = 0
                /\ (job[j][x] \in {"pxe", "cycle"} \/ (node[x] = "netbooting" /\ by[x] = j))
            => job[j][x] # "none" /\ state[j][x] # "booting"
    BY <2>1, <2>2 DEF FlipInv
  <2> QED BY <2>1, <2>3 DEF FlipInv
<1>6. ASSUME NEW i \in Calls, WatchDeadline(i) PROVE FlipInv'
  <2>1. fault'["deadline"] # 0
    BY <1>6, FaultCounts DEF WatchDeadline, FaultKinds
  <2> QED BY <2>1 DEF FlipInv
<1>7. ASSUME NEW i \in Calls, NEW x \in Machines, SetBootPXE(i, x) PROVE FlipInv'
  <2>1. /\ job[i][x] = "pxe" /\ UNCHANGED <<state, fault, flip, node, by, overlap>>
        /\ \A j \in Calls, y \in Machines :
                job'[j][y] = IF j = i /\ y = x THEN "cycle" ELSE job[j][y]
    BY <1>7 DEF SetBootPXE, InspectTypeOK
  <2> QED BY <2>1, FlipKept
<1>8. ASSUME NEW i \in Calls, NEW x \in Machines, PowerCycle(i, x) PROVE FlipInv'
  <2>1. /\ job[i][x] = "cycle" /\ UNCHANGED <<state, fault, flip, overlap>>
        /\ \A j \in Calls, y \in Machines :
                job'[j][y] = IF j = i /\ y = x THEN "timer" ELSE job[j][y]
        /\ by'[x] = i
        /\ \A y \in Machines \ {x} : node'[y] = node[y] /\ by'[y] = by[y]
    BY <1>8 DEF PowerCycle, InspectTypeOK
  <2> QED BY <2>1 DEF FlipInv
<1>9. ASSUME NEW i \in Calls, NEW x \in Machines, IPMIFails(i, x) \/ Expire(i, x) PROVE FlipInv'
  <2>1. /\ \A j \in Calls, y \in Machines :
                job'[j][y] = IF j = i /\ y = x THEN "done" ELSE job[j][y]
        /\ UNCHANGED <<flip, overlap>>
    BY <1>9 DEF IPMIFails, Expire, InspectTypeOK
  <2>2. fault'["deadline"] = fault["deadline"]
    BY <1>9, FaultCounts DEF IPMIFails, Expire, FaultKinds
  <2>3. \A j \in Calls, y \in Machines : state'[j][y] = "booting" => state[j][y] = "booting"
    <3>1. CASE setInspect(x, "error")
      BY <3>1, SetFacts
    <3>2. CASE UNCHANGED state
      BY <3>2
    <3> QED BY <1>9, <3>1, <3>2 DEF IPMIFails, Expire
  <2>4. \A j \in Calls, y \in Machines : job[j][y] # "none" => job'[j][y] # "none"
    BY <2>1
  <2>5. CASE UNCHANGED <<node, by>>
    BY <2>1, <2>2, <2>3, <2>4, <2>5, FlipKept
  <2>6. CASE /\ IPMIFails(i, x) /\ job[i][x] = "cycle" /\ by'[x] = i
             /\ \A y \in Machines \ {x} : node'[y] = node[y] /\ by'[y] = by[y]
    <3>1. x \notin overlap => inspects[x] = i
      BY <2>6 DEF BootInv, LaunchInv, LaunchedBy
    <3>2. x \notin overlap => state'[i][x] = "error"
      BY <2>6, <3>1, SetFacts DEF IPMIFails
    <3> QED BY <2>1, <2>2, <2>3, <2>6, <3>2 DEF FlipInv
  <2> QED BY <1>9, <2>5, <2>6 DEF IPMIFails, Expire, InspectTypeOK
<1>10. ASSUME NEW x \in Machines, ReportInventory(x) PROVE FlipInv'
  <2>1. \A j \in Calls, y \in Machines : state'[j][y] = "booting" => state[j][y] = "booting"
    BY <1>10, SetFacts DEF ReportInventory
  <2>2. /\ UNCHANGED <<job, fault, flip, by, overlap>> /\ node'[x] = "off"
        /\ \A y \in Machines \ {x} : node'[y] = node[y]
    BY <1>10 DEF ReportInventory, InspectTypeOK
  <2> QED BY <2>1, <2>2, FlipKept
<1>11. ASSUME NEW x \in Machines, SetBootDisk(x) PROVE FlipInv'
  <2>1. fault'["deadline"] = fault["deadline"]
    BY <1>11, FaultCounts DEF SetBootDisk, FaultKinds
  <2> QED BY <1>1, <1>11, <2>1 DEF SetBootDisk
<1>12. ASSUME NEW x \in Machines,
              ReportLost(x) \/ NodeLoads(x) \/ CheckinInspects(x) \/ RestoreDone(x)
       PROVE  FlipInv'
  <2>1. fault'["deadline"] = fault["deadline"]
    BY <1>12, FaultCounts
       DEF ReportLost, NodeLoads, CheckinInspects, RestoreDone, FaultKinds
  <2>2. /\ UNCHANGED <<job, state, flip, by, overlap>> /\ node'[x] # "netbooting"
        /\ \A y \in Machines \ {x} : node'[y] = node[y]
    BY <1>12 DEF ReportLost, NodeLoads, CheckinInspects, RestoreDone, InspectTypeOK
  <2> QED BY <2>1, <2>2, FlipKept
<1>13. ASSUME NEW x \in Machines, CheckinAppoints(x) \/ DeployFails(x) PROVE FlipInv'
  <2>1. /\ UNCHANGED <<job, state, by, fault, overlap>>
        /\ flip' = (IF flip = Deploying THEN NoCall ELSE flip)
        /\ \A y \in Machines : node'[y] = node[y] \/ node'[y] # "netbooting"
    BY <1>13 DEF CheckinAppoints, DeployFails, InspectTypeOK
  <2> QED BY <1>0, <2>1, FlipKept
<1>14. ASSUME NEW x \in Machines, DeployStart(x) PROVE FlipInv'
  <2>1. /\ UNCHANGED <<job, state, node, by, fault>> /\ overlap \subseteq overlap'
        /\ \A i \in Calls : flip = i => flip' = i
    BY <1>0, <1>14 DEF DeployStart, mayFlip
  <2> QED BY <2>1, FlipKept
<1>15. ASSUME NEW x \in Machines, DeployPowerCycle(x) PROVE FlipInv'
  <2>1. /\ UNCHANGED <<job, state, flip, fault, overlap>> /\ by'[x] = Deploying
        /\ \A y \in Machines \ {x} : node'[y] = node[y] /\ by'[y] = by[y]
    BY <1>15 DEF DeployPowerCycle, InspectTypeOK
  <2> QED BY <1>0, <2>1, FlipKept
<1>16. ASSUME NEW x \in Machines, ResetTakes(x) \/ DeploySetBootPXE(x) PROVE FlipInv'
  BY <1>1, <1>16 DEF ResetTakes, DeploySetBootPXE
<1>17. CASE UNCHANGED vars
  BY <1>1, <1>17 DEF vars
<1>18. CASE Manager
  BY <1>2, <1>3, <1>4, <1>5, <1>6, <1>7, <1>8, <1>9, <1>18 DEF Manager
<1>19. CASE Restart
  <2>1. fault'["deadline"] = fault["deadline"]
    BY <1>19, FaultCounts DEF Restart, FaultKinds
  <2> QED BY <1>19, <2>1, RestartFacts DEF FlipInv
<1>20. ASSUME NEW x \in Machines, RestoreUnknown(x) PROVE FlipInv'
  <2>1. /\ UNCHANGED <<job, state, flip, by, fault, overlap>>
        /\ \A y \in Machines \ {x} : node'[y] = node[y]
        /\ node[x] = "restoring"
    BY <1>20 DEF RestoreUnknown, InspectTypeOK
  <2>2. x \notin overlap => by[x] = Deploying \/ Forgotten(x)
    BY <2>1 DEF BootInv, RestoreInv
  <2> QED BY <1>0, <2>1, <2>2 DEF FlipInv, Forgotten
<1> QED
  BY <1>10, <1>11, <1>12, <1>13, <1>14, <1>15, <1>16, <1>17, <1>18, <1>19, <1>20
     DEF Next, Machine, Deploy

\* A machine power-cycled for an inspect finds the image that was picked for
\* it, as long as it is waited for, for any number of inspects and deploys.
THEOREM ImageIsHeldAlways == Spec => []ImageIsHeld
<1>1. Init => InspectTypeOK /\ BootInv /\ FlipInv
  <2>1. Init => FlipInv
    BY DEF Init, FlipInv
  <2> QED BY <2>1, InspectTypeInit, BootInit
<1>2. InspectTypeOK /\ BootInv /\ FlipInv /\ [Next]_vars
        => (InspectTypeOK /\ BootInv /\ FlipInv)'
  BY InspectTypeNext, BootNext, FlipNext
<1>3. FlipInv => ImageIsHeld
  BY DEF FlipInv, ImageIsHeld
<1> QED BY <1>1, <1>2, <1>3, PTL DEF Spec

(***************************************************************************)
(* The boot device                                                         *)
(***************************************************************************)

\* Somebody will set the boot device back, or a deploy holds the machine.
Resets(x) ==
    \/ HasActiveDeploy(x)
    \/ setting[x] > 0
    \/ inspectNodes[x] /\ (taking[x] > 0 \/ current(x) = "booting")

\* A call that is launching has left its mark for the reset, and no reset is
\* on its way to take it.
MarkInv ==
    \A i \in Calls, x \in Machines \ overlap :
        LaunchedBy(i, x) => inspectNodes[x] /\ taking[x] = 0

\* A machine at PXE is to be reset, or is one the driver has no entry of; a
\* call whose flip is not yet decided has found its machines in either case.
Forced(x) ==
    /\ boot[x] = "pxe" => Resets(x) \/ inspects[x] = NoCall
    /\ \A i \in Calls : call[i].pc = "flip" /\ x \in call[i].ids =>
            boot[x] = "disk" \/ call[i].prev[x] = NoCall
DiskInv ==
    /\ MarkInv
    /\ fault["reset"] = 0 => \A x \in Machines \ overlap : deploy[x] # "failed" => Forced(x)

\* A step that leaves boot devices, marks and resets alone.
LEMMA DiskSame ==
    ASSUME InspectTypeOK, DiskInv, overlap \subseteq overlap',
           UNCHANGED <<inspects, inspectNodes, state, taking, setting, boot>>,
           fault'["reset"] = 0 => fault["reset"] = 0,
           \A i \in Calls : call'[i].pc = "flip" => call'[i] = call[i],
           \A i \in Calls, x \in Machines \ overlap' : LaunchedBy(i, x)' => LaunchedBy(i, x),
           \A x \in Machines \ overlap' : deploy'[x] # "failed" =>
                deploy[x] # "failed" /\ (HasActiveDeploy(x) => HasActiveDeploy(x)')
    PROVE  DiskInv'
<1>1. MarkInv'
  BY DEF DiskInv, MarkInv
<1>2. \A x \in Machines : current(x)' = current(x)
  BY DEF current
<1>3. ASSUME NEW x \in Machines, Forced(x), HasActiveDeploy(x) => HasActiveDeploy(x)'
      PROVE  Forced(x)'
  BY <1>2, <1>3 DEF Forced, Resets
<1> QED BY <1>1, <1>3 DEF DiskInv

\* The end of an inspect sends a reset after the machine, whose mark is there
\* to be taken.
LEMMA DiskEnds ==
    ASSUME InspectTypeOK, DiskInv, NEW x \in Machines, NEW s, setInspect(x, s),
           UNCHANGED <<inspects, inspectNodes, call, setting, deploy, overlap>>,
           \A y \in Machines \ {x} : boot'[y] = boot[y],
           boot'[x] = boot[x] \/ (x \notin overlap => inspectNodes[x]),
           fault'["reset"] = 0 => fault["reset"] = 0,
           \A i \in Calls, y \in Machines \ overlap : LaunchedBy(i, y)' => y # x /\ LaunchedBy(i, y)
    PROVE  DiskInv'
<1>0. NoCall \notin Calls
  BY InspectConstants DEF NoCall, Calls
<1>1. taking'[x] > 0 /\ \A y \in Machines \ {x} : taking'[y] = taking[y]
  BY DEF setInspect, InspectTypeOK
<1>2. \A y \in Machines \ {x} : current(y)' = current(y)
  BY <1>0, SetFacts DEF current, InspectTypeOK
<1>3. MarkInv'
  BY <1>1 DEF DiskInv, MarkInv
<1>4. ASSUME NEW y \in Machines \ overlap, Forced(y)
      PROVE  Forced(y)'
  <2>1. CASE y = x
    <3>1. \A i \in Calls : ~(call[i].pc = "flip" /\ x \in call[i].ids)
      BY <1>4, <2>1 DEF LaunchedBy
    <3>2. boot'[x] = "pxe" => Resets(x)' \/ inspects'[x] = NoCall
      BY <1>1, <1>4, <2>1 DEF Forced, Resets, HasActiveDeploy
    <3> QED BY <2>1, <3>1, <3>2 DEF Forced
  <2>2. CASE y # x
    BY <1>1, <1>2, <1>4, <2>2 DEF Forced, Resets, HasActiveDeploy
  <2> QED BY <2>1, <2>2
<1> QED BY <1>3, <1>4 DEF DiskInv

\* A machine nobody works on has no reset under way.
LEMMA AtRest ==
    ASSUME InspectTypeOK, NEW x \in Machines, ~AtWork(x)
    PROVE  /\ ~Launching(x) /\ current(x) # "booting" /\ ~HasActiveDeploy(x)
           /\ taking[x] = 0 /\ setting[x] = 0
<1>1. ~Launching(x) /\ current(x) # "booting" /\ ~HasActiveDeploy(x) /\ ~(taking[x] + setting[x] > 0)
  BY DEF AtWork
<1>2. taking[x] \in Nat /\ setting[x] \in Nat
  BY DEF InspectTypeOK
<1>3. taking[x] = 0 /\ setting[x] = 0
  <2>1. ASSUME NEW a \in Nat, NEW b \in Nat, ~(a + b > 0)
        PROVE  a = 0 /\ b = 0
    BY <2>1
  <2> QED BY <1>1, <1>2, <2>1
<1> QED BY <1>1, <1>3

\* A new call: the machines it names and does not share are at disk.
LEMMA DiskStarts ==
    ASSUME InspectTypeOK, BootInv, DiskInv, NEW i \in Calls, NEW ids \in SUBSET Machines,
           StartInspect(i, ids)
    PROVE  DiskInv'
<1>0. NoCall \notin Calls
  BY InspectConstants DEF NoCall, Calls
<1>1. /\ call[i].pc = "none"
      /\ \A j \in Calls : call'[j].ids = (IF j = i THEN ids ELSE call[j].ids)
                            /\ call'[j].pc = (IF j = i THEN "flip" ELSE call[j].pc)
                            /\ call'[j].prev = IF j = i THEN inspects ELSE call[j].prev
      /\ \A j \in Calls, x \in Machines :
            state'[j][x] = IF j = i /\ x \in ids THEN "booting" ELSE state[j][x]
      /\ \A x \in Machines : inspects'[x] = IF x \in ids THEN i ELSE inspects[x]
      /\ \A x \in Machines : inspectNodes'[x] = (x \in ids \/ inspectNodes[x])
      /\ UNCHANGED <<job, taking, setting, boot, deploy, fault>>
      /\ overlap' = overlap \cup {x \in ids : AtWork(x)}
  BY DEF StartInspect, InspectTypeOK, nodeVars
<1>2. \A x \in Machines : job[i][x] = "none"
  BY <1>1 DEF BootInv, JobInv
<1>3. \A x \in ids \ overlap' : /\ ~Launching(x) /\ current(x) # "booting" /\ ~HasActiveDeploy(x)
                                /\ taking[x] = 0 /\ setting[x] = 0
  BY <1>1, AtRest
<1>4. \A j \in Calls, x \in Machines : LaunchedBy(j, x)' => LaunchedBy(j, x) \/ (j = i /\ x \in ids)
  BY <1>1, <1>2 DEF LaunchedBy
<1>5. MarkInv'
  <2> SUFFICES ASSUME NEW j \in Calls, NEW x \in Machines \ overlap', LaunchedBy(j, x)'
               PROVE  inspectNodes'[x] /\ taking'[x] = 0
    BY DEF MarkInv
  <2>1. CASE x \in ids
    BY <1>1, <1>3, <2>1
  <2>2. CASE x \notin ids
    BY <1>1, <1>4, <2>2 DEF DiskInv, MarkInv
  <2> QED BY <2>1, <2>2
<1>6. ASSUME NEW x \in Machines \ overlap', Forced(x)
      PROVE  Forced(x)'
  <2>1. CASE x \in ids
    <3>1. ~Resets(x)
      BY <1>3, <2>1 DEF Resets
    <3>2. boot[x] = "disk" \/ inspects[x] = NoCall
      BY <1>6, <3>1 DEF Forced, InspectTypeOK
    <3>3. inspectNodes'[x] /\ inspects'[x] = i /\ state'[i][x] = "booting"
      BY <1>1, <2>1
    <3>4. Resets(x)'
      BY <1>0, <3>3 DEF Resets, current
    <3>5. \A j \in Calls : call'[j].pc = "flip" /\ x \in call'[j].ids => j = i
      BY <1>1, <1>3, <2>1 DEF Launching
    <3>6. call'[i].prev = inspects
      BY <1>1
    <3> QED BY <1>1, <3>2, <3>4, <3>5, <3>6 DEF Forced
  <2>2. CASE x \notin ids
    <3>1. current(x)' = current(x)
      <4>1. inspects[x] # NoCall => inspects[x] \in Calls
        BY DEF InspectTypeOK
      <4> QED BY <1>1, <2>2, <4>1 DEF current
    <3>2. boot'[x] = "pxe" => Resets(x)' \/ inspects'[x] = NoCall
      BY <1>1, <1>6, <2>2, <3>1 DEF Forced, Resets, HasActiveDeploy
    <3>3. \A j \in Calls : call'[j].pc = "flip" /\ x \in call'[j].ids =>
                call[j].pc = "flip" /\ x \in call[j].ids /\ call'[j].prev = call[j].prev
      BY <1>1, <2>2
    <3> QED BY <1>1, <1>6, <3>2, <3>3 DEF Forced
  <2> QED BY <2>1, <2>2
<1> QED BY <1>1, <1>5, <1>6 DEF DiskInv

\* A refused flip takes its mark back, of a machine that is at disk.
LEMMA DiskRefused ==
    ASSUME InspectTypeOK, BootInv, DiskInv, NEW i \in Calls, FlipRefused(i)
    PROVE  DiskInv'
<1>1. /\ call[i].pc = "flip" /\ call[i] \in CallRecords
      /\ \A j \in Calls : call'[j].ids = call[j].ids
                            /\ call'[j].prev = call[j].prev
                            /\ call'[j].pc = IF j = i THEN "refused" ELSE call[j].pc
      /\ \A x \in call[i].ids : inspects'[x] = call[i].prev[x]
      /\ \A x \in Machines \ call[i].ids : inspects'[x] = inspects[x] /\ inspectNodes'[x] = inspectNodes[x]
      /\ UNCHANGED <<job, state, taking, setting, boot, deploy, fault, overlap>>
  BY DEF FlipRefused, InspectTypeOK, nodeVars, CallRecords
<1>2. \A x \in call[i].ids : LaunchedBy(i, x)
  BY <1>1 DEF LaunchedBy
<1>3. \A j \in Calls, x \in Machines : LaunchedBy(j, x)' => LaunchedBy(j, x) /\ j # i
  BY <1>1 DEF LaunchedBy, BootInv, JobInv
<1>4. \A j \in Calls, x \in Machines \ overlap : LaunchedBy(j, x)' => x \notin call[i].ids
  BY <1>1, <1>2, <1>3 DEF BootInv, LaunchInv
<1>5. MarkInv'
  BY <1>1, <1>3, <1>4 DEF DiskInv, MarkInv
<1>6. ASSUME NEW x \in Machines, Forced(x)
      PROVE  Forced(x)'
  <2>1. CASE x \in call[i].ids
    <3>1. boot[x] = "disk" \/ inspects'[x] = NoCall
      BY <1>1, <1>6, <2>1 DEF Forced
    <3>2. \A j \in Calls : call'[j].pc = "flip" => call[j].pc = "flip"
      BY <1>1
    <3> QED BY <1>1, <1>6, <3>1, <3>2 DEF Forced, InspectTypeOK
  <2>2. CASE x \notin call[i].ids
    <3>1. current(x)' = current(x)
      BY <1>1, <2>2 DEF current
    <3> QED BY <1>1, <1>6, <2>2, <3>1 DEF Forced, Resets, HasActiveDeploy
  <2> QED BY <2>1, <2>2
<1> QED BY <1>1, <1>5, <1>6 DEF DiskInv

\* SetBootPXE is an inspect's whose mark is set and whose end will be noticed.
LEMMA DiskArms ==
    ASSUME InspectTypeOK, BootInv, DiskInv, NEW i \in Calls, NEW x \in Machines, SetBootPXE(i, x)
    PROVE  DiskInv'
<1>0. NoCall \notin Calls
  BY InspectConstants DEF NoCall, Calls
<1>1. /\ job[i][x] = "pxe"
      /\ \A j \in Calls, y \in Machines :
            job'[j][y] = IF j = i /\ y = x THEN "cycle" ELSE job[j][y]
      /\ \A y \in Machines \ {x} : boot'[y] = boot[y]
      /\ UNCHANGED <<inspects, inspectNodes, state, call, taking, setting, deploy, fault, overlap>>
  BY DEF SetBootPXE, InspectTypeOK
<1>2. \A j \in Calls, y \in Machines : LaunchedBy(j, y)' => LaunchedBy(j, y)
  BY <1>1 DEF LaunchedBy
<1>3. MarkInv'
  BY <1>1, <1>2 DEF DiskInv, MarkInv
<1>4. \A y \in Machines : current(y)' = current(y)
  BY <1>1 DEF current
<1>5. LaunchedBy(i, x) /\ call[i].pc # "flip"
  BY <1>1 DEF LaunchedBy, BootInv, JobInv
<1>6. ASSUME NEW y \in Machines \ overlap, Forced(y)
      PROVE  Forced(y)'
  <2>1. CASE y = x
    <3>1. inspects[x] = i /\ state[i][x] = "booting" /\ inspectNodes[x]
      BY <1>5, <1>6, <2>1 DEF BootInv, LaunchInv, DiskInv, MarkInv
    <3>2. current(x) = "booting"
      BY <1>0, <3>1 DEF current
    <3>3. Resets(x)'
      BY <1>1, <1>4, <3>1, <3>2 DEF Resets
    <3>4. \A j \in Calls : ~(call[j].pc = "flip" /\ x \in call[j].ids)
      <4> SUFFICES ASSUME NEW j \in Calls, call[j].pc = "flip", x \in call[j].ids PROVE FALSE
        OBVIOUS
      <4>1. LaunchedBy(j, x)
        BY DEF LaunchedBy
      <4>2. inspects[x] = j
        BY <1>6, <2>1, <4>1 DEF BootInv, LaunchInv
      <4> QED BY <1>5, <3>1, <4>2
    <3> QED BY <1>1, <2>1, <3>3, <3>4 DEF Forced
  <2>2. CASE y # x
    BY <1>1, <1>4, <1>6, <2>2 DEF Forced, Resets, HasActiveDeploy
  <2> QED BY <2>1, <2>2
<1> QED BY <1>1, <1>3, <1>6 DEF DiskInv

\* The reset: whoever finds the mark sets the boot device.
LEMMA DiskTakes ==
    ASSUME InspectTypeOK, DiskInv, NEW x \in Machines, ResetTakes(x)
    PROVE  DiskInv'
<1>1. /\ taking[x] > 0
      /\ inspectNodes[x] => setting'[x] > 0
      /\ ~inspectNodes[x] => setting'[x] = setting[x]
      /\ \A y \in Machines \ {x} : /\ taking'[y] = taking[y] /\ setting'[y] = setting[y]
                                   /\ inspectNodes'[y] = inspectNodes[y]
      /\ UNCHANGED <<inspects, state, call, job, boot, deploy, fault, overlap>>
  BY DEF ResetTakes, InspectTypeOK, nodeVars
<1>2. \A j \in Calls, y \in Machines : LaunchedBy(j, y)' <=> LaunchedBy(j, y)
  BY <1>1 DEF LaunchedBy
<1>3. \A j \in Calls : x \notin overlap => ~LaunchedBy(j, x)
  BY <1>1 DEF DiskInv, MarkInv
<1>4. MarkInv'
  BY <1>1, <1>2, <1>3 DEF DiskInv, MarkInv
<1>5. \A y \in Machines : current(y)' = current(y)
  BY <1>1 DEF current
<1>6. ASSUME NEW y \in Machines, Forced(y)
      PROVE  Forced(y)'
  <2>1. CASE y = x
    BY <1>1, <1>5, <1>6, <2>1 DEF Forced, Resets, HasActiveDeploy, InspectTypeOK
  <2>2. CASE y # x
    BY <1>1, <1>5, <1>6, <2>2 DEF Forced, Resets, HasActiveDeploy
  <2> QED BY <2>1, <2>2
<1> QED BY <1>1, <1>4, <1>6 DEF DiskInv

LEMMA DiskSets ==
    ASSUME InspectTypeOK, DiskInv, NEW x \in Machines, SetBootDisk(x)
    PROVE  DiskInv'
<1>1. /\ \A y \in Machines \ {x} : setting'[y] = setting[y] /\ boot'[y] = boot[y]
      /\ UNCHANGED <<inspects, inspectNodes, state, call, job, taking, deploy, overlap>>
      /\ fault'["reset"] = 0 => fault["reset"] = 0 /\ boot'[x] = "disk"
  <2>1. CASE boot' = [boot EXCEPT ![x] = "disk"] /\ UNCHANGED fault
    BY <2>1 DEF SetBootDisk, InspectTypeOK
  <2>2. CASE Fault("reset") /\ UNCHANGED boot
    <3>1. fault'["reset"] # 0
      BY <2>2, FaultCounts DEF FaultKinds
    <3> QED BY <2>2, <3>1 DEF SetBootDisk, InspectTypeOK
  <2> QED BY <2>1, <2>2 DEF SetBootDisk
<1>2. MarkInv'
  BY <1>1 DEF DiskInv, MarkInv, LaunchedBy
<1>3. \A y \in Machines : current(y)' = current(y)
  BY <1>1 DEF current
<1>4. ASSUME NEW y \in Machines, Forced(y), fault'["reset"] = 0
      PROVE  Forced(y)'
  <2>1. CASE y = x
    BY <1>1, <1>4, <2>1 DEF Forced
  <2>2. CASE y # x
    BY <1>1, <1>3, <1>4, <2>2 DEF Forced, Resets, HasActiveDeploy
  <2> QED BY <2>1, <2>2
<1> QED BY <1>1, <1>2, <1>4 DEF DiskInv

\* A deploy sets the boot device of a machine no inspect is launching.
LEMMA DiskDeploys ==
    ASSUME InspectTypeOK, BootInv, DiskInv, NEW x \in Machines, DeploySetBootPXE(x) \/ RestoreDone(x)
    PROVE  DiskInv'
<1>1. /\ \A y \in Machines \ {x} : deploy'[y] = deploy[y] /\ boot'[y] = boot[y]
      /\ UNCHANGED <<inspects, inspectNodes, state, call, job, taking, setting, fault, overlap>>
      /\ \/ boot'[x] = "disk"
         \/ HasActiveDeploy(x) /\ HasActiveDeploy(x)'
      /\ deploy'[x] = "failed" => deploy[x] = "failed"
  BY DEF DeploySetBootPXE, RestoreDone, driverVars, InspectTypeOK, HasActiveDeploy
<1>2. MarkInv'
  BY <1>1 DEF DiskInv, MarkInv, LaunchedBy
<1>3. \A y \in Machines : current(y)' = current(y)
  BY <1>1 DEF current
<1>4. ASSUME NEW y \in Machines \ overlap, deploy'[y] # "failed", fault["reset"] = 0
      PROVE  Forced(y)'
  <2>1. CASE y = x /\ boot'[x] = "disk"
    BY <2>1 DEF Forced
  <2>2. CASE y = x /\ HasActiveDeploy(x) /\ HasActiveDeploy(x)'
    <3>1. \A i \in Calls : ~(call[i].pc = "flip" /\ x \in call[i].ids)
      BY <1>4, <2>2 DEF BootInv, LaunchInv, LaunchedBy
    <3> QED BY <1>1, <2>2, <3>1 DEF Forced, Resets
  <2>3. CASE y # x
    <3>1. Forced(y)
      BY <1>1, <1>4, <2>3 DEF DiskInv
    <3> QED BY <1>1, <1>3, <2>3, <3>1 DEF Forced, Resets, HasActiveDeploy
  <2> QED BY <1>1, <2>1, <2>2, <2>3
<1> QED BY <1>1, <1>2, <1>4 DEF DiskInv

\* Every step leaves a machine at PXE to be reset.
LEMMA DiskNext == InspectTypeOK /\ BootInv /\ DiskInv /\ [Next]_vars => DiskInv'
<1> SUFFICES ASSUME InspectTypeOK, BootInv, DiskInv, [Next]_vars PROVE DiskInv'
  OBVIOUS
<1> USE DEF driverVars, nodeVars
<1>1. ASSUME UNCHANGED <<inspects, inspectNodes, state, call, job, taking, setting, boot, deploy, overlap>>,
             fault'["reset"] = fault["reset"]
      PROVE  DiskInv'
  BY <1>1, DiskSame DEF LaunchedBy, HasActiveDeploy
<1>2. ASSUME NEW i \in Calls, FlipAccepted(i) PROVE DiskInv'
  <2>1. /\ call[i].pc = "flip" /\ call[i] \in CallRecords
        /\ \A j \in Calls : /\ call'[j].ids = call[j].ids
                            /\ call'[j].pc = IF j = i THEN "started" ELSE call[j].pc
                            /\ call'[j].pc = "flip" => call'[j] = call[j]
        /\ \A j \in Calls, x \in Machines :
              job'[j][x] = IF j = i /\ x \in call[i].ids THEN "pxe" ELSE job[j][x]
        /\ UNCHANGED <<inspects, inspectNodes, state, taking, setting, boot, deploy, fault, overlap>>
    BY <1>2 DEF FlipAccepted, InspectTypeOK, CallRecords
  <2>2. \A j \in Calls, x \in Machines : LaunchedBy(j, x)' => LaunchedBy(j, x)
    BY <2>1 DEF LaunchedBy
  <2> QED BY <2>1, <2>2, DiskSame DEF HasActiveDeploy
<1>3. ASSUME NEW i \in Calls, WatchRestores(i) \/ WatchDeadline(i) PROVE DiskInv'
  <2>1. fault'["reset"] = fault["reset"]
    BY <1>3, FaultCounts DEF WatchRestores, WatchDeadline, FaultKinds
  <2> QED BY <1>1, <1>3, <2>1 DEF WatchRestores, WatchDeadline
<1>4. ASSUME NEW i \in Calls, NEW x \in Machines, PowerCycle(i, x) PROVE DiskInv'
  <2>1. /\ job[i][x] = "cycle"
        /\ \A j \in Calls, y \in Machines :
                job'[j][y] = IF j = i /\ y = x THEN "timer" ELSE job[j][y]
        /\ UNCHANGED <<inspects, inspectNodes, state, call, taking, setting, boot, deploy, fault, overlap>>
    BY <1>4 DEF PowerCycle, InspectTypeOK
  <2>2. \A j \in Calls, y \in Machines : LaunchedBy(j, y)' => LaunchedBy(j, y)
    BY <2>1 DEF LaunchedBy
  <2> QED BY <2>1, <2>2, DiskSame DEF HasActiveDeploy
<1>5. ASSUME NEW i \in Calls, NEW x \in Machines, IPMIFails(i, x) \/ Expire(i, x) PROVE DiskInv'
  <2>0. NoCall \notin Calls
    BY InspectConstants DEF NoCall, Calls
  <2>1. /\ job[i][x] \in {"pxe", "cycle", "timer"}
        /\ \A j \in Calls, y \in Machines :
                job'[j][y] = IF j = i /\ y = x THEN "done" ELSE job[j][y]
        /\ UNCHANGED <<inspects, inspectNodes, call, setting, deploy, overlap>>
    BY <1>5 DEF IPMIFails, Expire, InspectTypeOK
  <2>2. fault'["reset"] = fault["reset"]
    BY <1>5, FaultCounts DEF IPMIFails, Expire, FaultKinds
  <2>3. call[i].pc = "started"
    BY <2>1 DEF BootInv, JobInv
  <2>4. \A j \in Calls, y \in Machines : LaunchedBy(j, y)' => LaunchedBy(j, y) /\ <<j, y>> # <<i, x>>
    BY <2>1, <2>3 DEF LaunchedBy
  <2>5. CASE setInspect(x, "error") /\ (job[i][x] = "timer" => inspects[x] = i)
    <3>1. x \notin overlap => inspects[x] = i
      BY <2>1, <2>5 DEF BootInv, LaunchInv, LaunchedBy
    <3>2. \A j \in Calls, y \in Machines \ overlap : LaunchedBy(j, y)' => y # x
      BY <2>4, <3>1 DEF BootInv, LaunchInv
    <3>3. boot' = boot \/ (boot' = [boot EXCEPT ![x] = "pxe"] /\ LaunchedBy(i, x))
      BY <1>5 DEF IPMIFails, Expire, LaunchedBy
    <3>4. /\ \A y \in Machines \ {x} : boot'[y] = boot[y]
          /\ boot'[x] = boot[x] \/ (x \notin overlap => inspectNodes[x])
      BY <3>3 DEF DiskInv, MarkInv, InspectTypeOK
    <3> QED BY <2>1, <2>2, <2>4, <2>5, <3>2, <3>4, DiskEnds
  <2>6. CASE Expire(i, x) /\ UNCHANGED <<state, taking>>
    <3>1. UNCHANGED boot
      BY <2>6 DEF Expire
    <3> QED BY <2>1, <2>2, <2>4, <2>6, <3>1, DiskSame DEF HasActiveDeploy
  <2> QED BY <1>5, <2>5, <2>6 DEF IPMIFails, Expire, expires
<1>6. ASSUME NEW x \in Machines, ReportInventory(x) PROVE DiskInv'
  <2>1. /\ node[x] = "inventory" /\ setInspect(x, "reported")
        /\ UNCHANGED <<inspects, inspectNodes, call, job, setting, boot, deploy, fault, overlap>>
    BY <1>6 DEF ReportInventory
  <2>2. \A j \in Calls, y \in Machines \ overlap : LaunchedBy(j, y)' => y # x /\ LaunchedBy(j, y)
    BY <2>1 DEF LaunchedBy, BootInv, LaunchInv, Busy
  <2> QED BY <2>1, <2>2, DiskEnds
<1>7. ASSUME NEW x \in Machines,
             NodeLoads(x) \/ CheckinInspects(x) \/ CheckinAppoints(x) \/ ReportLost(x)
      PROVE  DiskInv'
  <2>1. fault'["reset"] = fault["reset"]
    BY <1>7, FaultCounts DEF NodeLoads, CheckinInspects, CheckinAppoints, ReportLost, FaultKinds
  <2> QED BY <1>1, <1>7, <2>1 DEF NodeLoads, CheckinInspects, CheckinAppoints, ReportLost
<1>8. ASSUME NEW x \in Machines, DeployStart(x) \/ DeployPowerCycle(x) \/ DeployFails(x)
      PROVE  DiskInv'
  <2>1. /\ UNCHANGED <<inspects, inspectNodes, state, call, job, taking, setting, boot, fault>>
        /\ overlap \subseteq overlap'
    BY <1>8 DEF DeployStart, DeployPowerCycle, DeployFails
  <2>2. \A y \in Machines : deploy'[y] # "failed" =>
            deploy[y] # "failed" /\ (HasActiveDeploy(y) => HasActiveDeploy(y)')
    BY <1>8 DEF DeployStart, DeployPowerCycle, DeployFails, HasActiveDeploy, InspectTypeOK
  <2> QED BY <2>1, <2>2, DiskSame DEF LaunchedBy
<1>9. CASE UNCHANGED vars
  BY <1>1, <1>9 DEF vars
<1>10. CASE Manager
  BY <1>2, <1>3, <1>4, <1>5, <1>10, DiskStarts, DiskRefused, DiskArms DEF Manager
<1>11. CASE Restart
  <2>1. \A i \in Calls, x \in Machines : ~LaunchedBy(i, x)' /\ call'[i].pc # "flip"
    BY <1>11, RestartFacts DEF LaunchedBy
  <2> QED BY <1>11, <2>1, RestartFacts DEF DiskInv, MarkInv, Forced
<1>12. ASSUME NEW x \in Machines, RestoreUnknown(x) PROVE DiskInv'
  BY <1>1, <1>12 DEF RestoreUnknown
<1> QED
  BY <1>6, <1>7, <1>8, <1>9, <1>10, <1>11, <1>12, DiskTakes, DiskSets, DiskDeploys
     DEF Next, Machine, Deploy

\* resetInspectBoot: whatever the order of inspects, refused starts, timeouts,
\* late reports, deploys and restarts of the driver, a machine that the running
\* driver has inspected, and nobody works on any more, is at disk, unless the
\* reset itself failed or two boots of it met. What a restart forgets is not
\* reset.
THEOREM BootsDiskAfterwardsAlways == Spec => []BootsDiskAfterwards
<1>1. Init => InspectTypeOK /\ BootInv /\ DiskInv
  <2>1. Init => DiskInv
    BY DEF Init, DiskInv, MarkInv, LaunchedBy, Forced
  <2> QED BY <2>1, InspectTypeInit, BootInit
<1>2. InspectTypeOK /\ BootInv /\ DiskInv /\ [Next]_vars
        => (InspectTypeOK /\ BootInv /\ DiskInv)'
  BY InspectTypeNext, BootNext, DiskNext
<1>3. InspectTypeOK /\ DiskInv => BootsDiskAfterwards
  <2> SUFFICES ASSUME InspectTypeOK, DiskInv, fault["reset"] = 0, NEW x \in Machines \ overlap,
                      ~AtWork(x), deploy[x] # "failed", inspects[x] # NoCall
               PROVE  boot[x] = "disk"
    BY DEF BootsDiskAfterwards
  <2>1. taking[x] = 0 /\ setting[x] = 0 /\ current(x) # "booting" /\ ~HasActiveDeploy(x)
    BY AtRest
  <2>2. Forced(x)
    BY DEF DiskInv
  <2> QED BY <2>1, <2>2 DEF Forced, Resets, InspectTypeOK
<1> QED BY <1>1, <1>2, <1>3, PTL DEF Spec
=============================================================================
