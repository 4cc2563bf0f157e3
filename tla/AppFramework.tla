---------------------------- MODULE AppFramework ----------------------------
(***************************************************************************)
(* What the steps of an enterprise run do on the cluster                   *)
(* (internal/enterprise/plan.go and the step bodies of manager.go): the    *)
(* images are imported, the app framework created and waited for, an app   *)
(* deployed on it, and all of it removed again.  Module Enterprise has the *)
(* manager around the steps; here a run is the one its module has at a     *)
(* time, and the cluster is what the commands find and leave behind.       *)
(*                                                                         *)
(* A command outlives its caller: when the connection is lost, or the run  *)
(* is cancelled or its driver restarted, it goes on, and may still succeed.*)
(***************************************************************************)
EXTENDS Naturals, Sequences, FiniteSets

CONSTANTS
    AppFW,     \* the module that is the framework itself (ModuleAppFW)
    Apps,      \* the modules that are deployed on it
    Sidecar,   \* an .md5 file is staged beside the image
    MaxFaults  \* bound: failures (but for the LB IP probe), hasty removals, runs
               \* started beside another

ASSUME AppFrameworkConstants ==
    /\ AppFW \notin Apps
    /\ Sidecar \in BOOLEAN
    /\ MaxFaults \in Nat

VARIABLES
    run,      \* each module's record and its run's locals
    shown,    \* the modules whose record is in the manager's map
    pc,       \* where each run stands in its step
    local,    \* the staged artifact, in the driver's enterprise directory
    remote,   \* its copy on the cluster
    image,    \* what glance holds under the image's name
    tag,      \* the amphora image is tagged
    fw,       \* the framework, as framework_list shows it
    lb,       \* who holds the LB IP
    registry, \* Harbor answers through the ingress
    app,      \* the apps that are deployed
    orphans,  \* commands nobody waits for any more
    faults,
    recreated,\* history: framework_create was run on a framework that was there
    blind,    \* history: a listing failed and was read as "not there"
    abandoned,\* history: commands whose caller gave up on them
    together, \* history: two runs were under way at once
    half,     \* history: a removal of the framework stopped half way
    torn      \* history: an import was cut short, or its file rewritten under it

cluster == <<remote, image, tag, fw, lb, registry, app>>
history == <<recreated, blind, abandoned, together, half, torn>>
vars == <<run, shown, pc, local, cluster, orphans, faults, history>>

Modules == Apps \cup {AppFW}
Copies == {"none", "partial", "truncated", "whole"}
FwStates == {"absent", "working", "active", "error", "removing"}
Commands == {"import", "create", "app", "remove", "delete"}

\* BuildPlan, without the steps that change nothing here (the air-gap
\* simulation, a newer appctl) and with one image for the three: the extpack
\* that may stand for them is imported and probed for in the same way.
BuildPlan(m, os) ==
    IF m = AppFW THEN <<"preflight", "image", "framework">>
    ELSE IF os THEN <<"preflight", "image", "framework", "app", "complete">>
    ELSE <<"preflight", "app", "complete">>

BuildUninstallPlan(m) ==
    IF m = AppFW THEN <<"preflight", "delete", "sweep", "complete">>
    ELSE <<"preflight", "remove", "complete">>

NoRun == [op |-> "none", state |-> "none", plan |-> <<>>, at |-> 0, lbip |-> FALSE,
          created |-> FALSE, found |-> FALSE]
Plans == {<<>>} \cup {BuildPlan(m, os) : m \in Modules, os \in BOOLEAN}
                \cup {BuildUninstallPlan(m) : m \in Modules}
RunRecords == [op : {"none", "install", "uninstall"},
               state : {"none", "running", "done", "error", "cancelled"},
               plan : Plans, at : 0..6, lbip : BOOLEAN, created : BOOLEAN, found : BOOLEAN]

Init ==
    /\ run = [m \in Modules |-> NoRun]
    /\ shown = {}
    /\ pc = [m \in Modules |-> "idle"]
    /\ local = "missing"
    /\ remote = "none"
    /\ image = "none"
    /\ tag \in BOOLEAN
    /\ fw = "absent"
    /\ lb = "free"
    /\ registry = FALSE
    /\ app = {}
    /\ orphans = {}
    /\ faults = 0
    /\ recreated = FALSE
    /\ blind = FALSE
    /\ abandoned = {}
    /\ together = FALSE
    /\ half = FALSE
    /\ torn = FALSE

kind(m) == IF run[m].at \in DOMAIN run[m].plan THEN run[m].plan[run[m].at] ELSE "complete"
At(m, k, place) == pc[m] = place /\ kind(m) = k
has(m, k) == \E s \in DOMAIN run[m].plan : run[m].plan[s] = k

Fault == faults < MaxFaults /\ faults' = faults + 1
Goto(m, place) == pc' = [pc EXCEPT ![m] = place]

(***************************************************************************)
(* How a step ends                                                         *)
(***************************************************************************)

StepDone(m) ==
    /\ run' = [run EXCEPT ![m].at = @ + 1]
    /\ Goto(m, "step")

\* Mutant: the reason is written where the state belongs.
Stops_Reason(m, state) ==
    /\ run' = [run EXCEPT ![m].state = kind(m)]
    /\ Goto(m, "idle")
    /\ half' = (half \/ (has(m, "delete") /\ (run[m].at > 2 \/ pc[m] = "command")))

\* A removal that stops once the framework is gone, or going, is half done.
Stops(m, state) ==
    /\ run' = [run EXCEPT ![m].state = state]
    /\ Goto(m, "idle")
    /\ half' = (half \/ (has(m, "delete") /\ (run[m].at > 2 \/ pc[m] = "command")))

StepFails(m) == Stops(m, "error")

\* Mutant: a removed framework takes no record with it.
cascaded_Not(m) == {}

\* cascadeAfterUninstall: with the framework go the records of its apps.
cascaded(m) == IF m = AppFW /\ run[m].op = "uninstall" THEN Apps ELSE {}

RunFinishes(m) ==
    /\ At(m, "complete", "step")
    /\ run' = [run EXCEPT ![m].state = "done"]
    /\ Goto(m, "idle")
    /\ shown' = shown \ cascaded(m)
    /\ half' = (half /\ ~has(m, "delete"))
    /\ UNCHANGED <<local, cluster, orphans, faults, recreated, blind, abandoned, together, torn>>

(***************************************************************************)
(* The operator                                                            *)
(***************************************************************************)

Begun(op, plan, lbip) == [op |-> op, state |-> "running", plan |-> plan, at |-> 1, lbip |-> lbip,
                          created |-> FALSE, found |-> FALSE]

Launch(m, op, os, lbip) ==
    LET others == {x \in Modules \ {m} : pc[x] # "idle"} IN
    /\ pc[m] = "idle"
    /\ run' = [run EXCEPT ![m] = Begun(op, IF op = "install" THEN BuildPlan(m, os)
                                           ELSE BuildUninstallPlan(m), lbip)]
    /\ Goto(m, "step")
    /\ shown' = shown \cup {m}
    /\ together' = (together \/ others # {})
    /\ IF others = {} THEN UNCHANGED faults ELSE Fault
    /\ UNCHANGED <<local, cluster, orphans, recreated, blind, abandoned, half, torn>>

\* The module's record says that it is installed.
Installed(m) == m \in shown /\ run[m].op = "install" /\ run[m].state = "done"

Install(m, os, lbip) == Launch(m, "install", os, lbip)

\* What the messages of failed steps send the operator to remove.
broken ==
    \/ fw \in {"error", "removing"}
    \/ fw = "absent" /\ lb # "free"
    \/ fw = "active" /\ lb # "ours"

UninstallBroken(m) == m = AppFW /\ broken /\ Launch(m, "uninstall", FALSE, FALSE)

\* A removal nothing calls for.
Uninstall(m) ==
    /\ \A x \in Modules : pc[x] = "idle"
    /\ pc[m] = "idle"
    /\ Fault
    /\ run' = [run EXCEPT ![m] = Begun("uninstall", BuildUninstallPlan(m), FALSE)]
    /\ Goto(m, "step")
    /\ shown' = shown \cup {m}
    /\ UNCHANGED <<local, cluster, orphans, history>>

\* The artifact is copied into the enterprise directory.
Stage ==
    /\ local' = (CASE local = "missing" -> "truncated" [] OTHER -> "whole")
    /\ local # "whole"
    /\ UNCHANGED <<run, shown, pc, cluster, orphans, faults, history>>

(***************************************************************************)
(* preflight                                                               *)
(***************************************************************************)

listed == fw # "absent"

\* The staged file, if there is one, matches its sidecar's md5.
artifact ==
    /\ local = "missing" => image # "none"
    /\ local = "truncated" => ~Sidecar

\* Mutant: the LB IP must be free whether or not the framework holds it.
addressFree_Always(m) == run[m].lbip => lb = "free"

\* The LB IP is probed only where the framework is still to be created.
addressFree(m) == run[m].lbip /\ ~listed => lb = "free"

preflight(m) ==
    run[m].op = "install" =>
        /\ ~has(m, "framework") => listed
        /\ has(m, "framework") => addressFree(m) /\ artifact

PreflightPasses(m) ==
    /\ At(m, "preflight", "step")
    /\ preflight(m)
    /\ StepDone(m)
    /\ UNCHANGED <<shown, local, cluster, orphans, faults, history>>

\* A probe that fails counts as free; it may do so any number of times.
ProbeFails(m) ==
    /\ At(m, "preflight", "step")
    /\ has(m, "framework") /\ artifact
    /\ ~addressFree(m)
    /\ StepDone(m)
    /\ UNCHANGED <<shown, local, cluster, orphans, faults, history>>

PreflightRefuses(m) ==
    /\ At(m, "preflight", "step")
    /\ ~preflight(m)
    /\ StepFails(m)
    /\ UNCHANGED <<shown, local, cluster, orphans, faults, recreated, blind, abandoned, together, torn>>

(***************************************************************************)
(* Commands on the cluster                                                 *)
(***************************************************************************)

\* The framework is created where there is none; its ingress takes the LB IP
\* unless somebody else has it.
registers ==
    /\ fw' = IF listed THEN fw ELSE "working"
    /\ lb' = IF ~listed /\ lb = "free" THEN "ours" ELSE lb
    /\ UNCHANGED <<remote, image, tag, registry, app>>

\* framework_delete removes the VMs under everything that runs on them, and
\* leaves the load balancer behind.
deletes ==
    IF fw # "removing" THEN UNCHANGED cluster
    ELSE /\ fw' = "absent"
         /\ lb' = IF lb = "ours" THEN "orphan" ELSE lb
         /\ registry' = FALSE
         /\ app' = {}
         /\ UNCHANGED <<remote, image, tag>>

Effect(m, cmd) ==
    CASE cmd = "import" -> /\ image' = IF image = "none" THEN remote ELSE image
                           /\ UNCHANGED <<remote, tag, fw, lb, registry, app>>
      [] cmd = "create" -> registers
      [] cmd = "delete" -> deletes
      [] cmd = "app"    -> /\ app' = IF fw = "active" /\ registry THEN app \cup {m} ELSE app
                           /\ UNCHANGED <<remote, image, tag, fw, lb, registry>>
      [] cmd = "remove" -> /\ app' = app \ {m}
                           /\ UNCHANGED <<remote, image, tag, fw, lb, registry>>

commandOf(m) == CASE kind(m) = "image" -> "import"
                  [] kind(m) = "framework" -> "create"
                  [] OTHER -> kind(m)

\* What follows a command that came back with status 0.
Returned(m) ==
    IF kind(m) \in {"image", "framework"}
    THEN Goto(m, IF kind(m) = "image" THEN "confirm" ELSE "poll") /\ UNCHANGED run
    ELSE StepDone(m)

\* The step of an app is a command that checks for itself that the app serves.
CommandEnds(m) ==
    /\ pc[m] = "command"
    /\ kind(m) = "app" => fw = "active" /\ registry
    /\ Effect(m, commandOf(m))
    /\ Returned(m)
    /\ UNCHANGED <<shown, local, orphans, faults, history>>

AppFails(m) ==
    /\ At(m, "app", "command")
    /\ ~(fw = "active" /\ registry)
    /\ StepFails(m)
    /\ UNCHANGED <<shown, local, cluster, orphans, faults, recreated, blind, abandoned, together, torn>>

\* An import that does not come to its end may leave a part of the image.
CutShort(cmd) ==
    /\ \/ UNCHANGED <<image, torn>>
       \/ cmd = "import" /\ image = "none" /\ image' = "partial" /\ torn' = TRUE
    /\ UNCHANGED <<remote, tag, fw, lb, registry, app>>

\* The command fails, or prints one of the known failure markers.
CommandFails(m) ==
    /\ pc[m] = "command"
    /\ Fault
    /\ CutShort(commandOf(m))
    /\ StepFails(m)
    /\ UNCHANGED <<shown, local, orphans, recreated, blind, abandoned, together>>

\* hex_cli swallows the failure of what it runs.
FailsSilently(m) ==
    /\ pc[m] = "command"
    /\ kind(m) \in {"image", "framework", "delete"}
    /\ Fault
    /\ CutShort(commandOf(m))
    /\ Returned(m)
    /\ UNCHANGED <<shown, local, orphans, recreated, blind, abandoned, together, half>>

\* ErrConnectionLost or a driver's restart ("error"), or Cancel.
Interrupted(m, state) ==
    /\ pc[m] # "idle"
    /\ Fault
    /\ state \in {"error", "cancelled"}
    /\ Stops(m, state)
    /\ orphans' = IF pc[m] = "command"
                  THEN orphans \cup {[by |-> m, cmd |-> commandOf(m)]} ELSE orphans
    /\ abandoned' = IF pc[m] = "command" THEN abandoned \cup {commandOf(m)} ELSE abandoned
    /\ UNCHANGED <<shown, local, cluster, recreated, blind, together, torn>>

OrphanEnds(j) ==
    /\ j \in orphans
    /\ orphans' = orphans \ {j}
    /\ Effect(j.by, j.cmd)
    /\ UNCHANGED <<run, shown, pc, local, faults, history>>

OrphanDies(j) ==
    /\ j \in orphans
    /\ orphans' = orphans \ {j}
    /\ CutShort(j.cmd)
    /\ UNCHANGED <<run, shown, pc, local, faults, recreated, blind, abandoned, together, half>>

(***************************************************************************)
(* scpRun, for the image                                                   *)
(***************************************************************************)

\* Mutant: any copy on the cluster will do.
staged_Any == remote # "none"

\* A copy of the artifact's size is taken for the artifact.
staged == remote = local

ImageExists(m) ==
    /\ At(m, "image", "step")
    /\ image # "none"
    /\ StepDone(m)
    /\ UNCHANGED <<shown, local, cluster, orphans, faults, history>>

\* An import that somebody has started.
importing == \/ \E j \in orphans : j.cmd = "import"
             \/ \E x \in Modules : At(x, "image", "command")

\* Push rewrites the copy in place, whoever reads it.
Pushes(m) ==
    IF local = "missing"
    THEN StepFails(m) /\ UNCHANGED <<remote, torn>>
    ELSE /\ Goto(m, "push")
         /\ remote' = "partial"
         /\ torn' = (torn \/ importing)
         /\ UNCHANGED <<run, half>>

\* openstack image show finds nothing, or fails.
ImageMissing(m) ==
    /\ At(m, "image", "step")
    /\ IF image = "none" THEN UNCHANGED <<faults, blind>> ELSE Fault /\ blind' = TRUE
    /\ IF staged
       THEN Goto(m, "command") /\ UNCHANGED <<run, remote, half, torn>>
       ELSE Pushes(m)
    /\ UNCHANGED <<shown, local, image, tag, fw, lb, registry, app, orphans, recreated,
                   abandoned, together>>

\* remoteFileSize answers -1 when its stat fails: a copy that is whole is
\* uploaded again.  The same fault may have failed the show.
StatFails(m) ==
    /\ At(m, "image", "step")
    /\ staged
    /\ Fault
    /\ blind' = (blind \/ image # "none")
    /\ Pushes(m)
    /\ UNCHANGED <<shown, local, image, tag, fw, lb, registry, app, orphans, recreated,
                   abandoned, together>>

Pushed(m) ==
    /\ At(m, "image", "push")
    /\ remote' = local
    /\ Goto(m, "command")
    /\ UNCHANGED <<run, shown, local, image, tag, fw, lb, registry, app, orphans, faults, history>>

\* The exit status is not trusted: the image must be there.
ImageConfirmed(m) ==
    /\ At(m, "image", "confirm")
    /\ IF image # "none" THEN StepDone(m) /\ UNCHANGED half ELSE StepFails(m)
    /\ UNCHANGED <<shown, local, cluster, orphans, faults, recreated, blind, abandoned, together, torn>>

(***************************************************************************)
(* runFramework                                                            *)
(***************************************************************************)

\* ensureAmphoraTag
EnsureTag(m) ==
    /\ At(m, "framework", "step")
    /\ tag' = TRUE
    /\ Goto(m, "list")
    /\ UNCHANGED <<run, shown, local, remote, image, fw, lb, registry, app, orphans, faults, history>>

\* Whether a create now is one too many.
creating == \/ [by |-> AppFW, cmd |-> "create"] \in {[j EXCEPT !.by = AppFW] : j \in orphans}
            \/ \E x \in Modules : At(x, "framework", "command")

\* Mutant: only an active framework is left alone.
mustCreate_NotActive(st) == st # "active"

mustCreate(st) == st = "absent"

\* frameworkStatus, and the create where it found nothing.
ListFramework(m, st) ==
    /\ At(m, "framework", "list")
    /\ IF st = fw THEN UNCHANGED <<faults, blind>>
       ELSE st = "absent" /\ Fault /\ blind' = TRUE
    /\ run' = [run EXCEPT ![m].found = ~mustCreate(st), ![m].created = mustCreate(st)]
    /\ Goto(m, CASE mustCreate(st) -> "command"
                 [] st = "active" -> "verify"
                 [] OTHER -> "poll")
    /\ recreated' = (recreated \/ (mustCreate(st) /\ (listed \/ creating)))
    /\ UNCHANGED <<shown, local, cluster, orphans, abandoned, together, half, torn>>

\* One turn of the poll that ends it or sees something new.
Poll(m) ==
    /\ At(m, "framework", "poll")
    /\ \/ fw = "active" /\ Goto(m, "verify") /\ UNCHANGED <<run, half>>
       \/ fw \in {"error", "removing"} /\ StepFails(m)
       \/ /\ fw = "working" /\ ~run[m].found
          /\ run' = [run EXCEPT ![m].found = TRUE]
          /\ UNCHANGED <<pc, half>>
    /\ UNCHANGED <<shown, local, cluster, orphans, faults, recreated, blind, abandoned, together, torn>>

\* The framework never registered within its grace, dropped out of the list, or
\* takes longer than frameworkReadyTimeout.
PollTimesOut(m) ==
    /\ At(m, "framework", "poll")
    /\ \/ fw = "absent" /\ UNCHANGED faults
       \/ fw = "working" /\ Fault
    /\ StepFails(m)
    /\ UNCHANGED <<shown, local, cluster, orphans, recreated, blind, abandoned, together, torn>>

\* verifyFrameworkRegistry: nothing to ask without the LB IP.
Verified(m) ==
    /\ At(m, "framework", "verify")
    /\ run[m].lbip => registry
    /\ StepDone(m)
    /\ UNCHANGED <<shown, local, cluster, orphans, faults, history>>

serves == fw = "active" /\ lb = "ours" /\ tag

VerifyTimesOut(m) ==
    /\ At(m, "framework", "verify")
    /\ run[m].lbip /\ ~registry
    /\ IF serves THEN Fault ELSE UNCHANGED faults
    /\ StepFails(m)
    /\ UNCHANGED <<shown, local, cluster, orphans, recreated, blind, abandoned, together, torn>>

(***************************************************************************)
(* Steps that are one command                                              *)
(***************************************************************************)

\* A framework being deleted is listed as "removing".
CommandBegins(m) ==
    /\ pc[m] = "step"
    /\ kind(m) \in {"app", "remove", "delete"}
    /\ Goto(m, "command")
    /\ fw' = IF kind(m) = "delete" /\ listed THEN "removing" ELSE fw
    /\ UNCHANGED <<run, shown, local, remote, image, tag, lb, registry, app, orphans, faults, history>>

\* frameworkLBSweep deletes the load balancers of the framework's name.  The
\* status of the script is that of its last test, which fails when it found one,
\* deleted or not; a list that fails finds none.
Sweep(m) ==
    /\ At(m, "sweep", "step")
    /\ \/ lb' = "free" /\ UNCHANGED faults
       \/ lb # "free" /\ UNCHANGED lb /\ Fault
    /\ \/ lb = "free" /\ StepDone(m) /\ UNCHANGED <<registry, half>>
       \/ lb # "free" /\ StepFails(m) /\ registry' = (registry /\ lb # "ours")
    /\ UNCHANGED <<shown, local, remote, image, tag, fw, app, orphans, recreated, blind,
                   abandoned, together, torn>>

SweepSeesNothing(m) ==
    /\ At(m, "sweep", "step")
    /\ lb # "free"
    /\ Fault
    /\ StepDone(m)
    /\ UNCHANGED <<shown, local, cluster, orphans, history>>

(***************************************************************************)
(* The cluster by itself                                                   *)
(***************************************************************************)

\* The framework's machines boot from the image.
Provisions ==
    /\ fw = "working"
    /\ \/ image = "whole" /\ fw' = "active" /\ UNCHANGED faults
       \/ image # "whole" /\ fw' = "error" /\ UNCHANGED faults
       \/ fw' = "error" /\ Fault
    /\ UNCHANGED <<run, shown, pc, local, remote, image, tag, lb, registry, app, orphans, history>>

RegistryServes ==
    /\ serves
    /\ ~registry
    /\ registry' = TRUE
    /\ UNCHANGED <<run, shown, pc, local, remote, image, tag, fw, lb, app, orphans, faults, history>>

(***************************************************************************)
(* The specification                                                       *)
(***************************************************************************)

Step(m) ==
    \/ PreflightPasses(m) \/ PreflightRefuses(m)
    \/ ImageExists(m) \/ ImageMissing(m) \/ Pushed(m) \/ ImageConfirmed(m)
    \/ EnsureTag(m) \/ ListFramework(m, fw) \/ Poll(m) \/ PollTimesOut(m)
    \/ Verified(m) \/ VerifyTimesOut(m)
    \/ CommandBegins(m) \/ CommandEnds(m) \/ AppFails(m) \/ Sweep(m) \/ RunFinishes(m)

StepFault(m) ==
    \/ ProbeFails(m) \/ StatFails(m) \/ SweepSeesNothing(m)
    \/ ListFramework(m, "absent")
    \/ CommandFails(m)
    \/ FailsSilently(m)
    \/ \E state \in {"error", "cancelled"} : Interrupted(m, state)

Operator(m) ==
    \/ \E os, lbip \in BOOLEAN : Install(m, os, lbip)
    \/ UninstallBroken(m)
    \/ Uninstall(m)

Next ==
    \/ \E m \in Modules : Step(m) \/ StepFault(m) \/ Operator(m)
    \/ \E j \in orphans : OrphanEnds(j) \/ OrphanDies(j)
    \/ Stage
    \/ Provisions
    \/ RegistryServes

Spec == Init /\ [][Next]_vars

\* The goroutine of a run goes on, the cluster finishes what it has begun, and
\* the operator tries again, removing what the messages say is broken.
FairSpec ==
    /\ Spec
    /\ \A m \in Modules : WF_vars(Step(m))
    /\ \A m \in Modules, c \in Commands :
            WF_vars(LET j == [by |-> m, cmd |-> c] IN OrphanEnds(j) \/ OrphanDies(j))
    /\ WF_vars(Stage)
    /\ WF_vars(Provisions)
    /\ WF_vars(RegistryServes)
    /\ \A m \in Apps : SF_vars(Install(m, TRUE, TRUE))
    /\ SF_vars(UninstallBroken(AppFW))

(***************************************************************************)
(* Properties                                                              *)
(***************************************************************************)

\* Every variable has its type.
AppFrameworkTypeOK ==
    /\ run \in [Modules -> RunRecords]
    /\ shown \subseteq Modules
    /\ pc \in [Modules -> {"idle", "step", "push", "command", "confirm", "list", "poll", "verify"}]
    /\ local \in {"missing", "truncated", "whole"}
    /\ remote \in Copies
    /\ image \in Copies
    /\ fw \in FwStates
    /\ lb \in {"free", "ours", "orphan"}
    /\ app \subseteq Apps
    /\ orphans \subseteq [by : Modules, cmd : Commands]
    /\ faults \in 0..MaxFaults
    /\ abandoned \subseteq Commands
    /\ {tag, registry, recreated, blind, together, half, torn} \subseteq BOOLEAN

\* "an existing but not-yet-active one is waited on rather than recreated": a
\* framework is created on top of itself only where the listing failed, another
\* run works on the cluster, or the create of an earlier run was abandoned.
NoRecreate == recreated => blind \/ together \/ "create" \in abandoned

\* "a size match guards against partial uploads", and the md5 against a
\* truncated copy: whatever was interrupted, misread and retried, an import that
\* is to make the image is given the whole file, and what glance holds is the
\* whole image, unless two runs upload it at once, an import was cut short, or a
\* retry has rewritten the file under one that was abandoned.
ImageIsWhole ==
    Sidecar /\ ~together =>
        /\ \A m \in Modules : At(m, "image", "command") /\ image = "none" => remote = "whole"
        /\ ~torn => image \in {"none", "whole"}

\* A module shown as installed is on the cluster: unless its framework is being
\* removed, or was by a removal that failed half way, or the command of an
\* earlier removal of the app was abandoned and may take effect any time.
ShownIsTrue ==
    \A m \in Apps : Installed(m) =>
        m \in app \/ "remove" \in abandoned \/ half \/ (pc[AppFW] # "idle" /\ run[AppFW].op = "uninstall")

\* A removed framework takes the records of its apps with it: without any fault,
\* no app is shown as installed once the removal has ended.
RemovalForgets ==
    \A m \in Apps : Installed(m) /\ m \notin app =>
        pc[AppFW] # "idle" /\ run[AppFW].op = "uninstall"

\* Every failure but one can be recovered from, whatever it left on the cluster:
\* an operator who re-runs the install, and removes the framework where a message
\* says it is broken, gets there, and again after every removal.  The one is an
\* image that is not whole: it is there by its name, and never imported again.
InstallCompletes ==
    \A m \in Apps : []<>(Installed(m) \/ image \notin {"none", "whole"})
=============================================================================
