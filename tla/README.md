# A TLA+ model of cube-cos-driver

cube-cos-driver installs bare-metal clusters: it powers nodes over IPMI, lets them boot an
installer from a PXE server, and leads the agent on each node through preflight, restore,
reboot, apply and `cluster set_ready`. It keeps the inventory of the machines, boots single
ones to inspect their hardware, and installs enterprise modules on a finished cluster over
SSH. This directory holds a model of the parts of it that are hard to test,
the TLC runs that check them on small instances and the TLAPS proofs for every instance.

    tlc -workers 2 -config auto_lossy.cfg MCDeploy     # a run
    tlapm RolloutProofs.tla                            # the proofs of a module

## The system

| Part | State | Operations | Modelled by |
|---|---|---|---|
| Deploy orchestrator, `internal/orchestrator/manager.go` | one record per cluster: node states, manual step, gate ledgers, acks, set_ready result; contexts of runs | Start, runNode per node, gate writers, gate reconciler, SEL poll and merge, hand-off to the peers, Next, Cancel, Release, re-kick, reachability check | `Deploy` |
| Out-of-band channel, `sel.go`, `ipmi.go` | a BMC's SEL (gate records from the driver, status records from the agent), boot device, power | WriteGate, ClearSEL, Observe, SetBootPXE/Disk, PowerCycle | `Deploy`, `DeployStates` |
| Phone-home agent, `cmd/phone-home-agent`, `internal/agent` | phase, pre-fetched snapshot, reboot counter, adopted re-run number | installer preflight loop, restore, reboot gate, local apply, set_ready, in-band fallback | `Deploy` |
| HTTP handlers, `internal/api/deploy.go` | none | translate agents' and operators' calls | part of the caller's action |
| Inspect boots, `manager.go` 124-330 | a status and a BMC node per machine, in memory | StartInspect, its goroutines, timers and watcher, reset of the boot device, report | `Inspect` |
| Machine inventory, `internal/inventory`, `api/machines.go` | a file per machine: BMC, fetch state, facts, assignments; the running fetches | create, import, update, delete, fetch, inventory report, assign, unassign | `Machines` |
| Discovery, `internal/discovery` | none | Redfish, or IPMI where that gives nothing | operators of `Machines` |
| Enterprise installs, `internal/enterprise/manager.go` | six maps by (cluster, module), a file per install, SSH clients | Start/Remove (launch), Next, Cancel, runAll, execStep, terminate, cleanup, rehydrate, cascade | `Enterprise` |
| Their steps, `plan.go`, `manager.go` 554-1220, `internal/clusterssh` | what the commands leave on the cluster: file copy, image, framework, load balancer, apps | preflight, scpRun, runFramework, registry check, app and removal commands, sweep | `AppFramework` |
| PXE default, `internal/pxe` | grub.cfg (default, arguments, timeout), the lock file | Flip, its undo, AcquireLock with the steal of a stale lock | `PxeDefault` |
| Generator, configuration stores, manifests, web | files | see the last section | not modelled |

**How the parts interact.** The manager and a node talk over two channels. Over HTTP the
agent reports and polls; the route may be severed by the network reconfiguration the deploy
itself causes. Over the BMC's System Event Log the driver leaves *gate* records (restore,
reboot, apply, set_ready) that the agent waits for, and the agent leaves *status* records
that the driver polls. Either channel may be the only one that works at a given moment, and
both deliver the same news in any order. The orchestrator's goroutines find the record by
cluster and host name only, so those of a superseded run act on the record of the new one.
Deploys and inspects of all drivers share one grub.cfg under an advisory lock, and a machine's
BMC and check-in: the check-in asks for a running inspect first, and only then for a deploy.
An inspect report ends up in the inventory, whose assignments tell a deploy its machines. An
enterprise run sends commands over SSH that do not stop when the connection does.

**What is hard.** Master-first ordering over two unreliable channels; gates written by
background goroutines that outlive the run that started them; logs that are full, wiped or
cleared between a write and its confirmation; decisions (Next, set_ready) made on records
that lag behind the nodes; locks dropped around an SSH dial or a wait for the PXE lock;
state that is read before a lock and written after it; an inventory without any lock; timers
and resets of an inspect that meet its successor; commands that outlive the run that retries
them; driver restarts.
`PROJECT.json` lists these hazards with their lines and the properties aimed at them.

**What makes each part correct.**
Deploy: master first; done only when applied; finalized last; done is final; confirmed means
readable; lost gates return; an automatic deploy completes; a Start that fails leaves its
successor alone. Enterprise: one goroutine per module; done means every step ended; one close
per client; the file tells what memory tells. PXE default: one editor at a time; a node boots
the picked image; everything is put back. Inspect: it ends and its machine halts; it never
restores a disk; the boot device goes back; the default is held while it is needed; no other
inspect's timer ends it. Machines: one machine per node; one fetch per machine, which ends;
facts are not lost. AppFramework: no second framework on top of the first; no partial file is
imported as the image; what is shown is there; a failed install can be finished by a retry.

## Modules

    DeployStates   states, gates, steps, ranks              (model.go, sel.go)
      Deploy       driver + BMCs + agents + operator        (manager.go, sel.go, agent)
        MCDeploy        names the nodes of an instance
        DeployProofs    type correctness
          RolloutProofs     the inductive invariant and what follows from it
            RefinementProofs   done is final; confirmed is readable; Next waits for the
                               nodes; Deploy implements Rollout
    Rollout        what a deploy promises (abstract)
    Enterprise     the install manager           MCEnterprise, EnterpriseProofs
    AppFramework   the steps on the cluster      MCAppFramework, AppFrameworkProofs
    PxeDefault     the shared PXE default        MCPxeDefault, PxeProofs
    Inspect        inspect boots beside a deploy MCInspect, InspectProofs
    Machines       the machine inventory         MCMachines, MachinesProofs

### Deploy

A *run* is a call of `Manager.Start`. `Start`, `StartClear`, `StartArm`, `StartFlip` are the
stretches of it between the points where it gives up the mutex: registering the record,
wiping the SELs, arming the first gates, waiting for the PXE lock and spawning the
goroutines. `RunBegin` ... `RunPoll` are the steps of `runNode`; a failed power cycle may
have happened in full, in part or not at all. `writeGos` adds to a ledger and spawns a
writer (`wr`), whose write (`GateWrite`: it adds what a read-back finds missing, may fail
half-way or wipe a full log, or both) and confirmation (`GateAck`) are separate. `Reconcile`
spawns the same writer for a ledger at risk. `PollObserve` reads a status, `PollMerge` merges
it later; `pend` holds a completion between its recording (`Completed`) and the hand-off to
the peers (`HandOff`). The agent's phases are `ag`: off, pxe, preflight, passed, restoring,
restored, osboot, and those of the apply. An agent's report and the handler it reaches are one
action; `d` tells whether the report got through (`Delivery`: only for nodes in `Lossy` may it
not). `SelLost` is the full-log wipe of `WriteEndpoint`.

Abstractions. The SEL is the set of gate records and the last status an observer may
return; the observer's floor is 0, a record, or gone (`anchor`). Run numbers on gate records,
writers and agents are history and read by no guard. A node booted from its disk by a power
cycle is `off`: the old system on it does not take part. `HandOff` does
in one step what the driver does for the peers and for set_ready one after the other, and an
agent's status record and HTTP report of one event are one step; repeating either half is
harmless in the code. Time is left out: a deadline may
pass whenever the code allows. `StopAll` is subsumed by `DriverRestart`.

### Rollout

Four phases per node, the set of excused nodes, and whether the cluster was finalized. A
node begins when it is the master, when the master has applied, or when it is excused;
the cluster is finalized once, when all nodes have applied. `phaseOf` and `finalized` in
`Deploy` are the refinement mapping, taken from the nodes and not from the driver's record.

### Enterprise

Every action is one critical section of the manager's mutex. `Callers` are HTTP calls, a run's
own goroutine is named by its number. Each run has a record (`rec`) that goroutines hold by
pointer, so a goroutine may write a record the maps no longer reach. A save may fail; only
`launch` looks. `Restart` loses the memory and rehydrates the files. What a step executes is
free to end in every way its kind allows. The history variable `overlap` turns true when a
call meets a run that is still being launched or whose cancellation is decided and not yet
written, when a launch overtakes a run that is being wound up, when a cancellation hits the
claim of a predecessor, and when the removal of the framework deletes a dependent that is
running. The code makes no effort in these cases and the properties are stated outside of
them; the section on known limits says what happens inside.

### PxeDefault

A *boot* is a call of `Flip` with its watcher. Every read, rewrite and lock operation is an
action of its own. `aged` records that a lock was judged stale, `spoiled` that a boot read
the file while another one held it, could not undo an edit, or crashed while holding it. A lock
file that cannot be removed at the end stays and ages like that of a crashed boot.

### Inspect

The i-th call of `StartInspect` is named by i. Its first critical section replaces the
entries of its machines (`StartInspect`), the flip is granted or refused (`FlipAccepted`,
`FlipRefused`: what was displaced is put back), and each machine gets a goroutine (`job`:
`SetBootPXE`, `PowerCycle`, `Expire`). `setInspect` writes the entry the map points at,
whoever made it, and starts a `resetInspectBoot`, whose critical section (`ResetTakes`) and
IPMI call (`SetBootDisk`) are steps of their own; `taking` and `setting` count the goroutines
in each. `flip` is the owner of the PXE default: the watcher of a call, or the deploy.
A machine is booted, asks `preflightCheckin`, and is inspected (`CheckinInspects`),
appointed by a deploy (`CheckinAppoints`) or keeps asking; `known` are the machines whose
stored facts identify them, as `matchAnyMachine` requires. A deploy is as much of `Deploy` as
meets an inspect: it flips, forces PXE, power-cycles, restores or fails. The deploy's own
check-in releases its flip, as all its machines have booted. `IPMIFails` may have had its
effect all the same.

`Restart` is the end of the driver's process and the start of the next. Entries, marks,
goroutines and deploy records are gone (a call or deploy under way is "lost"), and the BMCs and
the machines stay as they are: a machine may be forced to PXE, booting, or in the installer of
an inspect nobody knows of, which a deploy may then appoint. A restore-done of a lost deploy is
not known to the new driver and sets no boot device (`RestoreUnknown`). So
`BootsDiskAfterwards`, `InspectNeverRestores` and `InspectHalts` speak of machines the running
driver has inspected, whatever earlier processes left on them; the known limits say what
happens to the others.

`overlap` collects the machines for which an inspect was started while an earlier boot of
them was under way, or a deploy while an inspect had not power-cycled yet. The driver does
not refuse these and the boots take each other's entries, so `BootsDiskAfterwards`,
`ImageIsHeld` and `InspectNeverRestores` are stated of the other machines.

### Machines

The store has no lock. A worker (a request, or the goroutine of a fetch) reads one file
(`Read`), changes its copy and writes it back (`Write`); `Assign` and `UnassignCluster` walk
over the other machines (`ScanReads`, `ScanWrites`, `ScanEnds`), each with a read and a write
that others may come between. `changed` is the edit of each operation. Facts are reduced to
the serial number, which every source has, and the network cards, which Redfish and the
inspect have and IPMI has not; `found` is the choice `Combined.Discover` makes. `stale` turns true when a copy is
written over a file that changed since it was read, `clash` when two assignments to one
node overlap: then updates are lost and the one-to-one mapping breaks, as it must without a
lock. Any read or write may fail. The first read of an operation, and every write, ends it
(`WriteFails`, `ScanFails`), but a scan passes over a file it cannot read and goes on
(`ScanSkips`): the nodes that machine holds and the assignment is about to give away are
`skipped`. `OneToOne` speaks of the other nodes, deletes, restarts and failures included.

### AppFramework

One image for the three, one framework, its apps. `run[m]` is the record of a module's run
with its plan and place, `pc` where its step stands. `BuildPlan` and `BuildUninstallPlan`
give the steps; each ends in `StepDone` or `StepFails`. Commands are started and end in two
steps, and between them the run may lose its connection, be cancelled or be restarted
(`Interrupted`): the command then goes on as an orphan and may take effect at any later
time, or die. `fw` is what `framework_list` shows; a listing that fails is empty
(`ListFramework(m, "absent")` on a framework that is there). What `hex_cli` does is external:
a create registers the framework and takes the LB IP if it is free, a delete takes the
apps with it and leaves the load balancer, and deleting what is not there does nothing. An
import that fails, or dies without its caller, may leave a part of the image (`CutShort`), and
one whose file is rewritten while it reads may end with it. A stat that fails makes a run
upload a whole copy again in place (`StatFails`, `Pushes`). `image show` sees the name only,
before an import and after it, so that a partial image passes for the image.
The history variables name the causes the properties make exceptions for: `blind` (a listing
failed), `abandoned` (commands given up on), `together` (two runs at once), `half` (a
removal stopped after the framework was gone), `torn` (an import was cut short, or its file
rewritten under it).

## Runs

| Run | Instance | Shows |
|---|---|---|
| auto_completes | 2 nodes, auto, no loss or fault, fair | `AutoCompletes` |
| auto_lossy | 2 nodes, auto, the master's reports may be lost | `TypeOK`, `MasterFirst`, `DoneIsReal`, `RolloutInv`, `RolloutSpec` |
| manual | 2 nodes, manual, HTTP only, 1 re-kick | `NextIsSafe`, `FinalizeLast` |
| reconciler | 1 node, 1 fault, a release, 1 two-phase reboot, prefetch may fail, fair | `LostGatesReturn` |
| operator | 1 node, 2 Starts, 1 fault, cancel, restart, observed install | `AckIsTrue`, `AbortSparesSuccessor`, `DoneIsFinal` |
| enterprise | 2 modules, 2 callers, 2 launches, 1 fault | `OneRunner`, `DoneIsComplete`, `ClosedOnce`, `DiskIsCurrent` |
| pxe | 3 boots, 2 images, 1 fault | `Exclusive`, `BootsThePick`, `PutBack` |
| inspect | 1 machine, 2 inspects, 1 deploy, 2 faults or restarts, fair | `FailsByOwnTimer`, `BootsDiskAfterwards`, `ImageIsHeld`, `InspectNeverRestores`, `InspectEnds`, `InspectHalts` |
| machines | 2 ids, 1 BMC, a node of one name in 2 clusters, 2 workers, 3 calls, 1 fault, fair | `OneToOne`, `OneFetch`, `RichFactsKept`, `FetchEnds` |
| install | the framework and 1 app, 2 faults, fair | `NoRecreate`, `ImageIsWhole`, `ShownIsTrue`, `InstallCompletes` |
| f_repxe | 1 node, reports may be lost | `RebootsToDisk` violated |
| f_cascade | the framework and 1 app, no failure | `RemovalForgets` violated |

Every module has its type invariant in one of its runs besides. The runs take between a few
seconds and three minutes with two workers; the largest has four million states.

**Why the bounds are enough.** The ordering promises relate the master and one peer, so two
nodes show every case of them; peers do not interact. With one run and one fault each place
a record can be lost at is reached; two faults repeat it. Two Starts are the least that
supersede, two launches and two callers the least that overlap. Three boots let one read
while a second holds and a third steals. Two inspects of one machine and a deploy are the
least that meet in every pair; machines share the PXE default only, and a second machine was
checked with one inspect. Two workers are the least that race, and three calls let two race
on what a third has set up. Two faults let a retry of an install fail again. The proofs lift the bounds for what they cover.

**Reductions.** `CallerSymmetry` and `PxeSymmetry` permute interchangeable model values; the
runs with symmetry check invariants only. `Bound` in `MCEnterprise` stops the exploration of
faults after an overlap: the properties but the type invariant say nothing there.

**Deadlock** is not checked in most runs, because each of these systems really ends: a deploy when its
nodes are finished or failed, an inspect when its machine halts, the managers and the
inventory when the bounded number of calls is used up. `install` checks it: an operator can
always start a run, and a run under way always has a next step.

**Fairness** (`Fairness` in `Deploy`). Goroutines of the driver and the agents' loops, which
retry for ever, are weakly fair: the Go runtime and the process supervisor keep them running,
and a round of checks passes in the end. The poll of a node is strongly fair, because a tick
reads every node in turn. Nothing is assumed of the operator, of failures, or of reports that
are lost. Fairness of a gate write assumes that a BMC answers in the end; with `MaxFaults`
failures, that is what the bound says. In `Inspect` the goroutines, timers and resets and the
boot of a machine that is on are weakly fair; in `Machines` a request that has begun goes on
and a BMC answers or times out. `AppFramework` is about recovery, so its `FairSpec` also says
what the operator does: the artifact is staged in the end, an app's install is tried again
as long as it is not running, and the framework is removed where a failed step's message says
it is broken (strong fairness: each may be impossible for a while because a run is under
way). The cluster finishes what it began; at most `MaxFaults` things go wrong, a failing
probe of the LB IP not counted.

## What the violations show

* **f_repxe.** `reportRestoreDone` calls its HTTP report "best-effort UI only"
  (`cmd/phone-home-agent/main.go:338`), but only that report makes the driver point the BMC
  at the disk. When it is lost the node passes its reboot gate and boots the installer.
* **f_cascade.** The script that reaps the framework's load balancers ends in
  `[ "$found" = 0 ] && echo ...` (`enterprise/plan.go:30`), whose status is 1 exactly when it
  found one. The step fails after it has done its work, the removal ends in an error, and
  `cascadeAfterUninstall`, which "drops any module's install record that runs on top of the
  App-Framework ... when the App-Framework itself is removed" (`enterprise/manager.go:467`),
  does not run: the app is gone and still shown as installed. A second removal finds no
  load balancer and cleans up.

## Known limits of the code

Cases the models reach and the properties except by name (a history variable or a condition);
each was seen in a TLC trace.

* Start wipes the SELs "so a prior deploy's gate/status records can't replay"
  (`orchestrator/manager.go:898`); a gate writer of a superseded run, on a context of its
  own, lands after the wipe (`:640`). The rollout properties are about a first run.
* "one goroutine per (cluster,module)" (`enterprise/manager.go:23`); Cancel during the dial
  frees the key, and the first launch goes on regardless (`overlap` in `Enterprise`).
* "so nodes don't boot a stale default" (`orchestrator/manager.go:470`); Flip decides before
  it holds the lock whether there is anything to change (`spoiled` in `PxeDefault`).
* Two concurrent assignments of one node both find it free (`clash`), and a request that
  reads before another writes undoes it (`stale`).
* A driver that stops during a fetch leaves "fetching" in the file, and nothing clears it.
* "Without it the node re-PXEs into the installer on its next power-on instead of booting its
  disk (deploys reset on restore-done; inspects must too)" is said of `resetInspectBoot`
  (`orchestrator/manager.go:274-276`). What it has to reset is in memory only, and `NewManager`
  (`:109-122`) reads nothing back: a driver restarted between `SetBootPXE` and the end of the
  inspect resets nothing, and a machine that was only inspected stays forced to PXE until its
  next inspect or deploy. One that comes up in a forgotten inspect while a deploy of it is
  active is appointed by the deploy. (`inspects[x] # NoCall` in the properties of `Inspect`.)
* `Assign` is said to enforce 1:1, "any other machine already assigned to the same node is
  unassigned first" (`inventory/store.go:202-204`). A file of another machine that cannot be
  read is passed over (`:223-226`) and the assignment is made all the same: after one failed
  read the node has two machines, without any concurrency (`skipped`).
* An import into glance that stops half way may leave an image of its name; `scpRun` looks for
  the name (`enterprise/manager.go:817-823`, `:863-870`), takes it for the image and never
  imports again (`torn`). And a stat that fails reads as "no copy" (`:875-891`), so that a
  retry rewrites a whole copy in place under an import that is still reading it.
* A framework_create that goes on after its connection was lost is not seen by a retry until
  it is listed; a listing that fails reads as an empty one (`enterprise/manager.go:932`).

Met while modelling, and not the subject of a run: `Observe`'s comment says that with its
anchor gone everything is considered, and the code considers nothing (`sel.go:242-246`);
after a restart `allNodesAppliedLocked` is true for want of a deploy (`manager.go:399`), so
that a master without staged parameters is told to finalize; a master that fell back to the
in-band agent reports done through `Report`, which does not release the peers (`:1704`,
`:828`); the cancelled IPMI call of a superseded run writes its error into the new record
(`:1258`).

## Proofs

TLAPS checks the following for every value of the constants: every set of nodes, machines,
workers and boots, every number of runs, calls and faults, every choice of modes.

| Theorem | Assumes | States |
|---|---|---|
| `TypeCorrect` (DeployProofs) | the constants' types | `Spec => []TypeOK` |
| `MasterFirstAlways` (RolloutProofs) | the master is a node | `Spec => []MasterFirst` |
| `RolloutInvariant` | the master is a node | `Spec => []RolloutInv` |
| `DoneIsRealAlways` | the master is a node | `Spec => []DoneIsReal` |
| `FinalizeLastAlways` | and set_ready is staged | `Spec => FinalizeLast` |
| `DoneIsFinalAlways` (RefinementProofs) | the master is a node | `Spec => DoneIsFinal` |
| `AckIsTrueAlways` | the master is a node | `Spec => []AckIsTrue` |
| `NextIsSafeAlways` | the master is a node | `Spec => NextIsSafe` |
| `AbortSparesSuccessorAlways` | the constants' types | `Spec => AbortSparesSuccessor` |
| `ImplementsRollout` | the master is a node, staged, one Start | `Spec => RolloutSpec` |
| `ExclusiveAlways` (PxeProofs) | lock and image names differ | `Spec => []Exclusive` |
| `PxeTypeCorrect` | the same | `Spec => []PxeTypeOK` |
| `BootsThePickAlways` | the same | `Spec => []BootsThePick` |
| `PutBackAlways` | the same | `Spec => []PutBack` |
| `InspectTypeCorrect` (InspectProofs) | the constants' types | `Spec => []InspectTypeOK` |
| `InspectNeverRestoresAlways` | the same | `Spec => []InspectNeverRestores` |
| `FailsByOwnTimerAlways` | the same | `Spec => []FailsByOwnTimer` |
| `ImageIsHeldAlways` | the same | `Spec => []ImageIsHeld` |
| `BootsDiskAfterwardsAlways` | the same | `Spec => []BootsDiskAfterwards` |
| `MachinesTypeCorrect` (MachinesProofs) | the constants' types | `Spec => []MachinesTypeOK` |
| `OneFetchAlways` | the same | `Spec => []OneFetch` |
| `OneToOneAlways` | the same | `Spec => []OneToOne` |
| `RichFactsAlways` | the same | `Spec => RichFactsKept` |
| `AppFrameworkTypes` (AppFrameworkProofs) | the framework is no app | `Spec => []AppFrameworkTypeOK` |
| `NeverRecreates` | the same | `Spec => []NoRecreate` |
| `ImageAlwaysWhole` | the same | `Spec => []ImageIsWhole` |
| `ShownIsTrueAlways` | the same | `Spec => []ShownIsTrue` |
| `EnterpriseTypes` (EnterpriseProofs) | calls and runs have different names | `Spec => []EnterpriseTypeOK` |
| `OneRunnerAlways` | the same | `Spec => []OneRunner` |
| `DoneIsCompleteAlways` | the same | `Spec => []DoneIsComplete` |
| `ClosedOnceAlways` | the same | `Spec => []ClosedOnce` |
| `DiskIsCurrentAlways` | the same | `Spec => []DiskIsCurrent` |

**The argument for Deploy.** None of the safety properties is inductive: what a node does
depends on a record in its SEL, that on a writer in flight, that on a ledger, that on what
the manager believed of another node, and that on a status read earlier. `RolloutInv` follows
both chains. *Orders*: every ledger, every write in flight, every SEL and every node that
has begun holds only what the node is entitled to (`OrdersSound`). *News*: every
status in a SEL, every observation in flight, every record and every pending hand-off that
says "applied" is true (`NewsSound`). The two feed each other: a true completion is what
entitles a peer, and entitlement is stable because an applied node stays applied
(lemma `Stable`). `Unpowered` adds that a node whose goroutine has not power-cycled it is off,
so that a power cycle in a first run never takes an applied node back; `Pristine` and
`Started` that nothing exists before the first Start. The properties are about a first run:
after a second Start records of the first can replay (see the known limits).

`AckIsTrue` is made inductive by `AckInv`: a writer carries no more than the ledger of its
node and, once it is at its confirmation, a read of the SEL finds what it carries
(`WritersSound`); and as long as Start has SELs to clear, no writer that confirms exists and
nothing is confirmed (`ClearsFirst`), so that no clear takes a confirmed record away.

`NextIsSafe` is about two barriers that `RolloutInv` does not know of, restored before the
reboot and up before the apply. `NextInv` follows them for a manual first run. *Gates*: the
ledger, a writer and a SEL hold a reboot gate only from the step on that grants it, an apply
gate likewise or for a released node (`GatesDue`). *Nodes*: they pass the barriers only
through these gates, or, without a snapshot, in the in-band flow behind the first
(`PhasesDue`). *News*: every rank in the record, in a SEL's status and in what a poll read
tells no more than the node has done (`ReachedIsReal`). It is the last part that makes
`canAdvance`, which looks at records only, a decision about nodes; and it is preserved because
before each barrier a node cannot fall back behind it (`Forward`). The property excepts
two cases the code means to allow: a step that another Start resets, and at the second barrier
a node whose apply the operator released, which may be rebooting for it.

`AbortSparesSuccessor` holds for any number of Starts; it needs only that the registered run
was started (`Registered`).

**The argument for PxeDefault.** `LockInv`: the lock names whoever edits the file, and
nobody is stealing, unless a lock was judged stale. `FileInv`: what a boot remembers of the
file is the original, because it read it while nobody was editing (`MineInv`); where the
holder stands tells which of the three fields are changed, and to what (`HeldInv`); without
a holder nothing is. Every undo, the one of a flip that failed half way too, therefore writes
the original values.

**The argument for Inspect.** `BootInv`: a call has goroutines only after its flip
(`JobInv`); a call that has still to power-cycle a machine owns its entry, and the machine is
at rest (`LaunchInv`); a machine that comes up in the installer belongs to a deploy, or to an
inspect whose entry is not "reported", unless a restart made the driver forget it (`NetbootInv`).
The check-in asks for the inspect first, so a machine that is not forgotten is sent to inventory,
and whoever restores was booted by a deploy (`RestoreInv`).
`FailsByOwnTimer` needs no more than that the entry a report or an error is written to is the
current one, and that only the call's own goroutine compares it with its own (with
`BootInv` for the entries put back by a refused start). `FlipInv` strengthens `ImageIsHeld`
to the goroutines that have not power-cycled yet: as long as the entry is "booting" the
watcher does not let go, and nobody else can take a default that is held. `DiskInv` is
behind `BootsDiskAfterwards`: a machine at PXE has an active deploy, a reset that
has taken the mark and not yet set the device, or the mark with a reset or an end of its
inspect still to come (`Resets`), or the driver has no entry of it; a call that launches a machine
has set its mark and no reset is on its way to take it (`MarkInv`); and a call whose flip is
undecided found its machines at disk or without an entry, so that a refusal may take the mark
back and restores a machine left at PXE to being unknown (`Forced`).

**The argument for Machines.** `TypeInv`: every copy that is written back was a record when
it was read, and ids in use by a worker have been handed out (`WorkInv`, `UsedInv`).
`FetchInv`: a fetch between its claim and its end has its machine in `inflight`, alone.
`SlotInv`: where an assignment has already looked, nobody holds its node any more
(`Cleared`, but for the nodes in `skipped`) - stable because without an overlap nobody else gives it away (`Apart`), and
without a stale write nobody brings it back. The write at the end of the loop is then the
only one that adds a holder, and finds none (`SlotAssigned`).

**The argument for AppFramework.** `TypeInv` adds to the types that a command runs only in a
step that has one (`PlaceInv`), that only an app is deployed as one (`AppsInv`) and that what
is pushed was staged (`PushInv`). `CreateInv`: a command nobody waits for was recorded as
abandoned, and without `together` at most one run is under way; so a listing that finds
nothing finds it rightly, or missed a framework, another run's create or an abandoned one.
`ImageInv`: while glance has no image, a run in the image's step has passed the md5 check,
and an import that a run waits for reads a whole copy of the artifact's size, because the run
has just seen or made it and nobody else writes it. An abandoned import still does, until a
retry whose stat fails uploads the copy again; from then on, or once an import was cut short
(`torn`), no more is claimed of what is in glance. `ShownInv`: an app that is gone under its record
was removed by an abandoned command, or with a framework whose removal is under way or
stopped half way; the second conjunct, that a framework is left "removing" only then or where no
app claims to be installed, covers the delete that takes effect after its run has ended.
`PlanInv` ties each run's plan to its operation.

**The argument for Enterprise.** `Basic` are the types and what the maps, files and
goroutines may point at: runs that were launched and have a record, of the right module.
`Quiet`, which holds until an overlap, says that nobody shares a run (`Alone`), that whoever
is not at `cleanup` works on the run the map names and holds its claim (`OwnsKey`, `Claimed`), and
what the record, the client, the plan and the file look like at each of its places (`Works`,
`Registered`, `Filed`, `Sound`). A step is then one process at one run of one module: what it does to the parts
of its own module is one lemma per action, and everything about other modules is unchanged.
`OneRunner`, `DoneIsComplete`, `ClosedOnce` and `DiskIsCurrent` are read off `Quiet`.

**Only model-checked:** the liveness properties `AutoCompletes`, `LostGatesReturn`,
`InspectEnds`, `InspectHalts`, `FetchEnds` and `InstallCompletes`: fairness is out of the
prover's reach. `RebootsToDisk` and `RemovalForgets` are the two claims that do not hold. Every
other property of the runs is a theorem.

## Not modelled

The content of a preflight (links, disks, clock skew), snapshots and policies, the wire
format of SEL records, the walk of a BMC's Redfish resources, configuration storage and field
encryption, manifests and signatures, the SSH and scp protocols, HTTP routing, the web
interface, the parsing of imported machine lists. These are I/O or functions of data without
interleavings. Of the enterprise plans, the air-gap simulation, the appctl update, the
advisor's addresses and key file and the version matrix are left out: they change nothing the
properties look at. The inventory's `.tmp` file, which two writers of one machine share, is
not modelled: a write is atomic here. `History` and logging are left out.

## Plan

1. `SelLog`: the SEL as a log with record ids, the observer's anchor, wrap and clear, `Observe`
   and `decodeCubeSEL`; the claim of Observe's comment; refined by what `Deploy` assumes.
2. The release of the fallback master's peers, and a recovery after an error with two nodes,
   as liveness runs of `Deploy`.
3. `Generator` validation and address planning as operators against a reference definition.
4. Proofs beyond a first run: which of the rollout properties survive a second Start when no
   writer of the first is left.
