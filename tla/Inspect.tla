------------------------------ MODULE Inspect ------------------------------
(***************************************************************************)
(* Inspect boots (internal/orchestrator/manager.go, StartInspect and its   *)
(* goroutines): a machine is forced to PXE and power-cycled, the agent in  *)
(* the installer reports the hardware and halts, and the boot device goes  *)
(* back to disk.  A deploy of the same machine uses the same BMC, the same *)
(* PXE default and the same check-in.                                      *)
(*                                                                         *)
(* The i-th StartInspect call is named by i; the status entry it makes for *)
(* machine x is state[i][x], and inspects[x] is the entry the manager's    *)
(* map points at.  The manager keeps both in memory only: a restart of the *)
(* driver loses them and leaves the BMCs and the machines as they are.     *)
(***************************************************************************)
EXTENDS Naturals, FiniteSets

CONSTANTS
    Machines,
    Flipper,      \* whether image selection is configured (SetPXEFlipper)
    MaxInspects,  \* bound: StartInspect calls
    MaxFaults     \* bound: failed IPMI calls, lost reports, early deadlines,
                  \* restarts of the driver

ASSUME InspectConstants ==
    /\ Flipper \in BOOLEAN
    /\ MaxInspects \in Nat
    /\ MaxFaults \in Nat

Calls == 1..MaxInspects
NoCall == 0
Deploying == MaxInspects + 1  \* a deploy, as the owner of a flip or of a boot

VARIABLES
    known,                   \* machines the stored serial or MACs identify
    inspects, inspectNodes,  \* the manager's maps, by machine
    state,                   \* the status entries
    call,                    \* where each StartInspect stands, and its locals
    job,                     \* its goroutine for each machine
    taking, setting,         \* resetInspectBoot goroutines before and after
                             \* they have looked at inspectNodes
    flip,                    \* the owner of the PXE default
    boot,                    \* the BMC's persistent boot device
    node, by,                \* what a machine does, and who power-cycled it
    deploy,                  \* the machine's part in a deploy
    fault,                   \* environment failures so far, by kind
    overlap                  \* history: machines on which two boots met

driverVars == <<known, inspects, inspectNodes, state, call, job, taking, setting>>
nodeVars == <<boot, node, by>>
vars == <<driverVars, flip, nodeVars, deploy, fault, overlap>>

States == {"none", "booting", "reported", "error"}
Ended == {"reported", "error"}
FaultKinds == {"ipmi", "reset", "report", "deadline", "restart"}
CallRecords ==
    [pc : {"none", "flip", "refused", "started", "lost"}, ids : SUBSET Machines,
     prev : [Machines -> Calls \cup {NoCall}], prevNode : [Machines -> BOOLEAN]]

Init ==
    /\ known \in SUBSET Machines
    /\ inspects = [x \in Machines |-> NoCall]
    /\ inspectNodes = [x \in Machines |-> FALSE]
    /\ state = [i \in Calls |-> [x \in Machines |-> "none"]]
    /\ call = [i \in Calls |-> [pc |-> "none", ids |-> {}, prev |-> inspects,
                                prevNode |-> inspectNodes]]
    /\ job = [i \in Calls |-> [x \in Machines |-> "none"]]
    /\ taking = [x \in Machines |-> 0]
    /\ setting = [x \in Machines |-> 0]
    /\ flip = NoCall
    /\ boot = [x \in Machines |-> "disk"]
    /\ node = [x \in Machines |-> "os"]
    /\ by = [x \in Machines |-> NoCall]
    /\ deploy = [x \in Machines |-> "none"]
    /\ fault = [k \in FaultKinds |-> 0]
    /\ overlap = {}

Fault(k) ==
    /\ fault["ipmi"] + fault["reset"] + fault["report"] + fault["deadline"] + fault["restart"]
            < MaxFaults
    /\ fault' = [fault EXCEPT ![k] = @ + 1]

\* The status the map holds for a machine, if it holds one.
current(x) == IF inspects[x] = NoCall THEN "none" ELSE state[inspects[x]][x]

\* matchAnyMachine and matchNode find the record of the machine that asks.
matches(x) == x \in known

HasActiveDeploy(x) == deploy[x] \in {"begun", "armed", "booted"}

\* An inspect of the machine has been called for and not yet power-cycled it.
Launching(x) ==
    \E i \in Calls : job[i][x] \in {"pxe", "cycle"} \/ (call[i].pc = "flip" /\ x \in call[i].ids)

\* The machine is still in the hands of an earlier inspect or of a deploy.
AtWork(x) ==
    \/ Launching(x)
    \/ current(x) = "booting"
    \/ taking[x] + setting[x] > 0
    \/ node[x] \in {"netbooting", "installer", "inventory", "restoring"}
    \/ HasActiveDeploy(x)

(***************************************************************************)
(* StartInspect                                                            *)
(***************************************************************************)

\* The first critical section: what was there is kept, new entries take its
\* place before anything has been booted.
StartInspect(i, ids) ==
    /\ call[i].pc = "none"
    /\ \A j \in 1..(i - 1) : call[j].pc # "none"
    /\ call' = [call EXCEPT ![i] = [pc |-> "flip", ids |-> ids, prev |-> inspects,
                                    prevNode |-> inspectNodes]]
    /\ state' = [state EXCEPT ![i] = [x \in Machines |-> IF x \in ids THEN "booting" ELSE @[x]]]
    /\ inspects' = [x \in Machines |-> IF x \in ids THEN i ELSE inspects[x]]
    /\ inspectNodes' = [x \in Machines |-> x \in ids \/ inspectNodes[x]]
    /\ overlap' = overlap \cup {x \in ids : AtWork(x)}
    /\ UNCHANGED <<known, job, taking, setting, flip, nodeVars, deploy, fault>>

mayFlip == Flipper => flip = NoCall

\* flipForBoot succeeded: one goroutine per machine.
FlipAccepted(i) ==
    /\ call[i].pc = "flip"
    /\ mayFlip
    /\ flip' = IF Flipper THEN i ELSE flip
    /\ call' = [call EXCEPT ![i].pc = "started"]
    /\ job' = [job EXCEPT ![i] = [x \in Machines |-> IF x \in call[i].ids THEN "pxe" ELSE @[x]]]
    /\ UNCHANGED <<known, inspects, inspectNodes, state, taking, setting, nodeVars, deploy,
                   fault, overlap>>

\* Mutant: the entries of a refused start stay.
FlipRefused_Keeps(i) ==
    /\ call[i].pc = "flip"
    /\ Flipper
    /\ call' = [call EXCEPT ![i].pc = "refused"]
    /\ UNCHANGED <<known, inspects, inspectNodes, state, job, taking, setting, flip, nodeVars,
                   deploy, fault, overlap>>

\* flipForBoot was refused (the lock is held, grub.cfg cannot be read or
\* written): the entries kept before it are put back.
FlipRefused(i) ==
    LET back(f, old) == [x \in Machines |-> IF x \in call[i].ids THEN old[x] ELSE f[x]] IN
    /\ call[i].pc = "flip"
    /\ Flipper
    /\ inspects' = back(inspects, call[i].prev)
    /\ inspectNodes' = back(inspectNodes, call[i].prevNode)
    /\ call' = [call EXCEPT ![i].pc = "refused"]
    /\ UNCHANGED <<known, state, job, taking, setting, flip, nodeVars, deploy, fault, overlap>>

\* Mutant: a machine that is still booting does not count.
inspectsBooted_NoneFailed(ids) == \A x \in ids : current(x) # "error"

\* inspectsBooted: what flipForBoot's watcher asks.
inspectsBooted(ids) ==
    \A x \in ids : current(x) \in Ended \cup {"none"}

\* The watcher puts the default back.
WatchRestores(i) ==
    /\ flip = i
    /\ inspectsBooted(call[i].ids)
    /\ flip' = NoCall
    /\ UNCHANGED <<driverVars, nodeVars, deploy, fault, overlap>>

WatchDeadline(i) ==
    /\ flip = i
    /\ ~inspectsBooted(call[i].ids)
    /\ Fault("deadline")
    /\ flip' = NoCall
    /\ UNCHANGED <<driverVars, nodeVars, deploy, overlap>>

(***************************************************************************)
(* The goroutine of one machine, and resetInspectBoot                      *)
(***************************************************************************)

\* Mutant: state and message are swapped.
setInspect_Message(x, s) ==
    /\ state' = IF inspects[x] = NoCall THEN state ELSE [state EXCEPT ![inspects[x]][x] = "message"]
    /\ taking' = [taking EXCEPT ![x] = @ + 1]

\* setInspect: the current entry of the machine, whichever call made it; the
\* end of an inspect starts a reset.
setInspect(x, s) ==
    /\ state' = IF inspects[x] = NoCall THEN state ELSE [state EXCEPT ![inspects[x]][x] = s]
    /\ taking' = [taking EXCEPT ![x] = @ + 1]

SetBootPXE(i, x) ==
    /\ job[i][x] = "pxe"
    /\ boot' = [boot EXCEPT ![x] = "pxe"]
    /\ job' = [job EXCEPT ![i][x] = "cycle"]
    /\ UNCHANGED <<known, inspects, inspectNodes, state, call, taking, setting, flip, node, by,
                   deploy, fault, overlap>>

\* The endpoint record is stamped on the way, as a best effort.
PowerCycle(i, x) ==
    /\ job[i][x] = "cycle"
    /\ job' = [job EXCEPT ![i][x] = "timer"]
    /\ node' = [node EXCEPT ![x] = IF boot[x] = "pxe" THEN "netbooting" ELSE "os"]
    /\ by' = [by EXCEPT ![x] = i]
    /\ UNCHANGED <<known, inspects, inspectNodes, state, call, taking, setting, flip, boot,
                   deploy, fault, overlap>>

\* Either call fails, with or without its effect on the machine.
IPMIFails(i, x) ==
    /\ \/ job[i][x] \in {"pxe", "cycle"} /\ UNCHANGED nodeVars
       \/ /\ job[i][x] = "pxe"
          /\ boot' = [boot EXCEPT ![x] = "pxe"]
          /\ UNCHANGED <<node, by>>
       \/ /\ job[i][x] = "cycle"
          /\ node' = [node EXCEPT ![x] = IF boot[x] = "pxe" THEN "netbooting" ELSE "os"]
          /\ by' = [by EXCEPT ![x] = i]
          /\ UNCHANGED boot
    /\ Fault("ipmi")
    /\ job' = [job EXCEPT ![i][x] = "done"]
    /\ setInspect(x, "error")
    /\ UNCHANGED <<known, inspects, inspectNodes, call, setting, flip, deploy, overlap>>

\* Mutant: the timer fails whatever inspect is current.
expires_Any(i, x) == current(x) = "booting"

expires(i, x) == inspects[x] = i /\ state[i][x] = "booting"

\* The timeout has passed: expireInspectRun.
Expire(i, x) ==
    /\ job[i][x] = "timer"
    /\ job' = [job EXCEPT ![i][x] = "done"]
    /\ IF expires(i, x)
       THEN setInspect(x, "error")
       ELSE UNCHANGED <<state, taking>>
    /\ UNCHANGED <<known, inspects, inspectNodes, call, setting, flip, nodeVars, deploy, fault, overlap>>

\* Mutant: only an inspect that reported resets the boot device.
ResetTakes_Reported(x) ==
    /\ taking[x] > 0
    /\ taking' = [taking EXCEPT ![x] = @ - 1]
    /\ inspectNodes' = [inspectNodes EXCEPT ![x] = FALSE]
    /\ setting' = [setting EXCEPT ![x] = IF inspectNodes[x] /\ current(x) = "reported" THEN @ + 1 ELSE @]
    /\ UNCHANGED <<known, inspects, state, call, job, flip, nodeVars, deploy, fault, overlap>>

\* resetInspectBoot: its critical section, then the IPMI call.
ResetTakes(x) ==
    /\ taking[x] > 0
    /\ taking' = [taking EXCEPT ![x] = @ - 1]
    /\ inspectNodes' = [inspectNodes EXCEPT ![x] = FALSE]
    /\ setting' = [setting EXCEPT ![x] = IF inspectNodes[x] THEN @ + 1 ELSE @]
    /\ UNCHANGED <<known, inspects, state, call, job, flip, nodeVars, deploy, fault, overlap>>

SetBootDisk(x) ==
    /\ setting[x] > 0
    /\ setting' = [setting EXCEPT ![x] = @ - 1]
    /\ \/ boot' = [boot EXCEPT ![x] = "disk"] /\ UNCHANGED fault
       \/ Fault("reset") /\ UNCHANGED boot
    /\ UNCHANGED <<known, inspects, inspectNodes, state, call, job, taking, flip, node, by,
                   deploy, overlap>>

(***************************************************************************)
(* The machine in the installer                                            *)
(***************************************************************************)

\* Mutant: a check-in is answered by the inspect only while it is booting.
IsInspecting_Booting(x) == current(x) = "booting"

IsInspecting(x) == current(x) \notin {"none", "reported"}

NodeLoads(x) ==
    /\ node[x] = "netbooting"
    /\ node' = [node EXCEPT ![x] = "installer"]
    /\ UNCHANGED <<driverVars, flip, boot, by, deploy, fault, overlap>>

\* Mutant: a machine whose inspect has timed out is not sent to inventory.
CheckinInspects_Booting(x) ==
    /\ node[x] = "installer"
    /\ matches(x)
    /\ current(x) = "booting"
    /\ node' = [node EXCEPT ![x] = "inventory"]
    /\ UNCHANGED <<driverVars, flip, boot, by, deploy, fault, overlap>>

\* preflightCheckin, asked by runInspectCheck and by the preflight loop.  The
\* inspect comes first; then an assigned machine is appointed while a deploy
\* of its cluster is running; anything else is held and asks again.
CheckinInspects(x) ==
    /\ node[x] = "installer"
    /\ matches(x)
    /\ IsInspecting(x)
    /\ node' = [node EXCEPT ![x] = "inventory"]
    /\ UNCHANGED <<driverVars, flip, boot, by, deploy, fault, overlap>>

CheckinAppoints(x) ==
    /\ node[x] = "installer"
    /\ matches(x)
    /\ ~IsInspecting(x)
    /\ HasActiveDeploy(x)
    /\ node' = [node EXCEPT ![x] = "restoring"]
    /\ flip' = IF flip = Deploying THEN NoCall ELSE flip
    /\ UNCHANGED <<driverVars, boot, by, deploy, fault, overlap>>

\* reportInventory: one post, answered by inventoryReport, which stores the
\* hardware and ends the inspect; then the machine powers off.
ReportInventory(x) ==
    /\ node[x] = "inventory"
    /\ node' = [node EXCEPT ![x] = "off"]
    /\ setInspect(x, "reported")
    /\ UNCHANGED <<known, inspects, inspectNodes, call, job, setting, flip, boot, by, deploy,
                   fault, overlap>>

\* The post is lost, or the store refuses the hardware.
ReportLost(x) ==
    /\ node[x] = "inventory"
    /\ Fault("report")
    /\ node' = [node EXCEPT ![x] = "off"]
    /\ UNCHANGED <<driverVars, flip, boot, by, deploy, overlap>>

(***************************************************************************)
(* A deploy of one machine, as far as it meets an inspect                  *)
(***************************************************************************)

\* Bound: each machine is deployed once.
DeployStart(x) ==
    /\ deploy[x] = "none"
    /\ mayFlip
    /\ deploy' = [deploy EXCEPT ![x] = "begun"]
    /\ flip' = IF Flipper THEN Deploying ELSE flip
    /\ overlap' = IF Launching(x) THEN overlap \cup {x} ELSE overlap
    /\ UNCHANGED <<driverVars, nodeVars, fault>>

DeploySetBootPXE(x) ==
    /\ deploy[x] = "begun"
    /\ deploy' = [deploy EXCEPT ![x] = "armed"]
    /\ boot' = [boot EXCEPT ![x] = "pxe"]
    /\ UNCHANGED <<driverVars, flip, node, by, fault, overlap>>

DeployPowerCycle(x) ==
    /\ deploy[x] = "armed"
    /\ deploy' = [deploy EXCEPT ![x] = "booted"]
    /\ node' = [node EXCEPT ![x] = IF boot[x] = "pxe" THEN "netbooting" ELSE "os"]
    /\ by' = [by EXCEPT ![x] = Deploying]
    /\ UNCHANGED <<driverVars, flip, boot, fault, overlap>>

\* The report sets the boot device of a machine the manager has a record of;
\* the machine reboots whatever it is set to.
RestoreDone(x) ==
    /\ node[x] = "restoring"
    /\ deploy[x] # "lost"
    /\ boot' = [boot EXCEPT ![x] = "disk"]
    /\ node' = [node EXCEPT ![x] = "os"]
    /\ deploy' = [deploy EXCEPT ![x] = IF HasActiveDeploy(x) THEN "restored" ELSE @]
    /\ UNCHANGED <<driverVars, flip, by, fault, overlap>>

RestoreUnknown(x) ==
    /\ node[x] = "restoring"
    /\ deploy[x] = "lost"
    /\ node' = [node EXCEPT ![x] = IF boot[x] = "pxe" THEN "netbooting" ELSE "os"]
    /\ UNCHANGED <<driverVars, flip, boot, by, deploy, fault, overlap>>

\* The deploy is cancelled or fails: it leaves the boot device as it is.
DeployFails(x) ==
    /\ HasActiveDeploy(x)
    /\ deploy' = [deploy EXCEPT ![x] = "failed"]
    /\ flip' = IF flip = Deploying THEN NoCall ELSE flip
    /\ UNCHANGED <<driverVars, nodeVars, fault, overlap>>

(***************************************************************************)
(* A restart of the driver                                                 *)
(***************************************************************************)

\* The process is gone with its entries, marks, goroutines and deploy records.
\* What the BMCs and the machines do goes on, and the lock of a flip is stolen
\* once it is stale (module PxeDefault).
Restart ==
    /\ Fault("restart")
    /\ inspects' = [x \in Machines |-> NoCall]
    /\ inspectNodes' = [x \in Machines |-> FALSE]
    /\ state' = [i \in Calls |-> [x \in Machines |-> "none"]]
    /\ call' = [i \in Calls |-> [call[i] EXCEPT !.pc = IF @ = "none" THEN @ ELSE "lost"]]
    /\ job' = [i \in Calls |-> [x \in Machines |-> IF job[i][x] = "none" THEN "none" ELSE "done"]]
    /\ taking' = [x \in Machines |-> 0]
    /\ setting' = [x \in Machines |-> 0]
    /\ flip' = NoCall
    /\ deploy' = [x \in Machines |-> IF deploy[x] \in {"none", "restored"} THEN deploy[x] ELSE "lost"]
    /\ UNCHANGED <<known, nodeVars, overlap>>

(***************************************************************************)
(* The specification                                                       *)
(***************************************************************************)

Manager ==
    \E i \in Calls :
        \/ \E ids \in (SUBSET Machines) \ {{}} : StartInspect(i, ids)
        \/ FlipAccepted(i) \/ FlipRefused(i) \/ WatchRestores(i) \/ WatchDeadline(i)
        \/ \E x \in Machines :
            SetBootPXE(i, x) \/ PowerCycle(i, x) \/ IPMIFails(i, x) \/ Expire(i, x)

Machine(x) ==
    \/ ResetTakes(x) \/ SetBootDisk(x)
    \/ NodeLoads(x) \/ CheckinInspects(x) \/ CheckinAppoints(x) \/ ReportInventory(x)
    \/ ReportLost(x)

Deploy(x) ==
    \/ DeployStart(x) \/ DeploySetBootPXE(x) \/ DeployPowerCycle(x)
    \/ RestoreDone(x) \/ RestoreUnknown(x) \/ DeployFails(x)

Next ==
    \/ Manager \/ Restart
    \/ \E x \in Machines : Machine(x) \/ Deploy(x)

Spec == Init /\ [][Next]_vars

\* Goroutines run, timers fire, calls that do not fail return, and a machine
\* that is on goes on with its boot.  No operator has to call anything.
Fairness ==
    /\ \A i \in Calls :
        /\ WF_vars(FlipAccepted(i) \/ FlipRefused(i))
        /\ WF_vars(WatchRestores(i))
        /\ \A x \in Machines : WF_vars(SetBootPXE(i, x) \/ PowerCycle(i, x) \/ Expire(i, x))
    /\ \A x \in Machines :
        /\ WF_vars(ResetTakes(x))
        /\ WF_vars(SetBootDisk(x))
        /\ WF_vars(NodeLoads(x) \/ CheckinInspects(x) \/ CheckinAppoints(x) \/ ReportInventory(x))

FairSpec == Spec /\ Fairness

(***************************************************************************)
(* Properties                                                              *)
(***************************************************************************)

\* Every variable has its type.
InspectTypeOK ==
    /\ known \subseteq Machines
    /\ inspects \in [Machines -> Calls \cup {NoCall}]
    /\ inspectNodes \in [Machines -> BOOLEAN]
    /\ state \in [Calls -> [Machines -> States]]
    /\ call \in [Calls -> CallRecords]
    /\ job \in [Calls -> [Machines -> {"none", "pxe", "cycle", "timer", "done"}]]
    /\ taking \in [Machines -> Nat]
    /\ setting \in [Machines -> Nat]
    /\ flip \in Calls \cup {NoCall, Deploying}
    /\ boot \in [Machines -> {"disk", "pxe"}]
    /\ node \in [Machines -> {"os", "off", "netbooting", "installer", "inventory", "restoring"}]
    /\ by \in [Machines -> Calls \cup {NoCall, Deploying}]
    /\ deploy \in [Machines -> {"none", "begun", "armed", "booted", "restored", "failed", "lost"}]
    /\ fault \in [FaultKinds -> 0..MaxFaults]
    /\ overlap \subseteq Machines

\* expireInspectRun, "an earlier run's timer cannot fail a newer inspect":
\* with every IPMI call answered, an inspect is in error only after its own
\* timeout, whatever was started or refused around it.
FailsByOwnTimer ==
    fault["ipmi"] = 0 =>
        \A i \in Calls, x \in Machines : state[i][x] = "error" => job[i][x] = "done"

\* resetInspectBoot: once nothing is under way any more, a machine the driver
\* has inspected is not left forced to PXE, where it would boot the installer
\* again.  That includes what an earlier process left behind: the restarted
\* driver knows of no machine until it inspects it, and then resets it.
BootsDiskAfterwards ==
    fault["reset"] = 0 =>
        \A x \in Machines \ overlap :
            ~AtWork(x) /\ deploy[x] # "failed" /\ inspects[x] # NoCall => boot[x] = "disk"

\* flipForBoot's watcher: the default stays at the picked image as long as a
\* machine power-cycled for it has not loaded it and is still waited for.
ImageIsHeld ==
    Flipper /\ fault["deadline"] = 0 =>
        \A x \in Machines, i \in Calls :
            /\ x \notin overlap
            /\ node[x] = "netbooting"
            /\ by[x] = i
            /\ state[i][x] = "booting"
            => flip = i

\* "an inspect must never restore a disk": a machine that restores was booted
\* by a deploy, also when a deploy of it runs while its inspect boot is up.  A
\* driver restarted since then does not know the boot for an inspect.
InspectNeverRestores ==
    \A x \in Machines \ overlap :
        node[x] = "restoring" /\ inspects[x] # NoCall => by[x] = Deploying

\* No inspect sits "booting" for ever, with reports lost and IPMI calls
\* failing, unless a start that was refused has displaced its entry.
InspectEnds ==
    \A x \in Machines :
        current(x) = "booting" ~> current(x) # "booting" \/ x \in overlap

\* A machine booted for an inspect does not stay in the installer: it halts,
\* however late it comes up, unless a restart has made the driver forget it.
InspectHalts ==
    \A x \in Machines :
        x \in known /\ node[x] = "installer" /\ by[x] \in Calls
            ~> node[x] # "installer" \/ x \in overlap \/ inspects[x] = NoCall
=============================================================================
