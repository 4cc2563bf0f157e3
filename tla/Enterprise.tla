----------------------------- MODULE Enterprise -----------------------------
(***************************************************************************)
(* The enterprise install manager (internal/enterprise/manager.go): runs   *)
(* that install or remove a module of one cluster over SSH, one record per *)
(* module.  Every action is one critical section of the manager's mutex,   *)
(* with the unlocked work before it that no other goroutine can see.       *)
(*                                                                         *)
(* HTTP calls are made by Callers; an automatic run also has a goroutine   *)
(* of its own (runAll), named by the number of the run.                    *)
(***************************************************************************)
EXTENDS Integers, Sequences, FiniteSets

CONSTANTS
    Modules,      \* the modules of the cluster: the key of every map
    AppFW,        \* the module the others are apps of (ModuleAppFW)
    Work,         \* how many commands a plan has
    Callers,      \* concurrent HTTP calls
    MaxLaunches,  \* bound: launches
    MaxFaults     \* bound: writes that fail and restarts of the driver

ASSUME EnterpriseConstants ==
    /\ Work \in Nat \ {0}
    /\ Callers \cap (1..MaxLaunches) = {}
    /\ AppFW \in Modules
    /\ MaxLaunches \in Nat
    /\ MaxFaults \in Nat

VARIABLES
    installs, cancels, clients, plans,  \* the manager's maps, by module
    busy, cancelReq,
    rec,       \* the Install each run points at
    disk,      \* the store: one file per module
    cancelled, \* runs whose context is cancelled
    ssh,       \* the SSH client of each run
    pc, loc,   \* where each call and each runner stands, and its locals
    launched, lost, restarts,
    overlap    \* history: one run's call or end has met another's state

maps == <<installs, cancels, clients, plans, busy, cancelReq>>
vars == <<installs, cancels, clients, plans, busy, cancelReq, rec, disk,
          cancelled, ssh, pc, loc, launched, lost, restarts, overlap>>

Runs == 1..MaxLaunches
NoRun == 0
Procs == Callers \cup Runs
Ops == {"install", "uninstall"}
RunStates == {"running", "done", "error", "cancelled"}
StepStates == {"pending", "active", "done", "error", "skipped"}

\* BuildPlan / BuildUninstallPlan, as the kinds execStep's outcome depends on:
\* commands on the cluster (detect, airgap, run, scp+run, framework), the first
\* of them the preflight, and the closing step only an App-Framework install
\* does without.
planLen(r) == IF r.mod = AppFW /\ r.op = "install" THEN Work ELSE Work + 1
kindOf(s) == IF s <= Work THEN "command" ELSE "complete"

pending(n) == [s \in 1..n |-> "pending"]
StepLists == UNION {[1..n -> StepStates] : n \in 0..(Work + 1)}

NewInstall(mod, op, manual) ==
    [mod |-> mod, op |-> op, manual |-> manual, state |-> "running",
     current |-> 1, steps |-> pending(0)]
Installs == [mod : Modules, op : Ops, manual : BOOLEAN, state : RunStates,
             current : 1..(Work + 2), steps : StepLists]
NoInstall == [state |-> "none"]
NoFile == [run |-> NoRun, rec |-> NoInstall]
Locals == [run : Runs \cup {NoRun}, plan : Runs \cup {NoRun},
           client : Runs \cup {NoRun}, idx : 0..(Work + 1)]
Local(run, plan, client, idx) ==
    [run |-> run, plan |-> plan, client |-> client, idx |-> idx]
NoLocals == Local(NoRun, NoRun, NoRun, 0)

Init ==
    /\ installs = [k \in Modules |-> NoRun]
    /\ cancels = [k \in Modules |-> NoRun]
    /\ clients = [k \in Modules |-> NoRun]
    /\ plans = [k \in Modules |-> NoRun]
    /\ busy = [k \in Modules |-> FALSE]
    /\ cancelReq = [k \in Modules |-> FALSE]
    /\ rec = [i \in Runs |-> NoInstall]
    /\ disk = [k \in Modules |-> NoFile]
    /\ cancelled = {}
    /\ ssh = [i \in Runs |-> "none"]
    /\ pc = [p \in Procs |-> "idle"]
    /\ loc = [p \in Procs |-> NoLocals]
    /\ launched = 0
    /\ lost = 0
    /\ restarts = 0
    /\ overlap = FALSE

At(i, places) == \E p \in Procs : pc[p] \in places /\ loc[p].run = i
InFlight(i) == \E p \in Procs : pc[p] # "idle" /\ loc[p].run = i

\* A call on module k meets a run whose launch has not returned, or one whose
\* cancellation is decided and not yet written down.
Meets(k) == installs[k] # NoRun /\ At(installs[k], {"dial", "rollback", "terminate"})

\* A launch overtakes a run whose last call has not come to its end.
Overtakes(k) == installs[k] # NoRun /\ At(installs[k], {"after", "terminate"})

mayFail == lost + restarts < MaxFaults

\* store.Save: the file is replaced, or the write fails and every caller but
\* launch ignores it.
Save(i) ==
    LET k == rec'[i].mod IN
    \/ disk' = [disk EXCEPT ![k] = [run |-> i, rec |-> rec'[i]]] /\ UNCHANGED lost
    \/ mayFail /\ lost' = lost + 1 /\ UNCHANGED disk

Goto(p, at) == pc' = [pc EXCEPT ![p] = at]
Return(p) ==
    /\ pc' = [pc EXCEPT ![p] = "idle"]
    /\ loc' = [loc EXCEPT ![p] = NoLocals]

\* client.Close()
Close(i) ==
    ssh' = IF i = NoRun THEN ssh
           ELSE [ssh EXCEPT ![i] = IF @ = "open" THEN "closed" ELSE "closed twice"]

(***************************************************************************)
(* launch                                                                  *)
(***************************************************************************)

mayReserve(k) == installs[k] # NoRun => rec[installs[k]].state # "running"

\* The key is reserved under the lock; the dial follows outside it.
Launch(c, k, op, manual) ==
    LET i == launched + 1 IN
    /\ pc[c] = "idle"
    /\ launched < MaxLaunches
    /\ mayReserve(k)
    /\ rec' = [rec EXCEPT ![i] = NewInstall(k, op, manual)]
    /\ installs' = [installs EXCEPT ![k] = i]
    /\ launched' = i
    /\ Goto(c, "dial")
    /\ loc' = [loc EXCEPT ![c] = Local(i, NoRun, NoRun, 0)]
    /\ overlap' = (overlap \/ Overtakes(k))
    /\ UNCHANGED <<cancels, clients, plans, busy, cancelReq, disk, cancelled,
                   ssh, lost, restarts>>

\* rollback's critical section: only the owner of the key frees it.
FreeReservation(k, i) ==
    LET own == installs[k] = i
        drop(f) == IF own THEN [f EXCEPT ![k] = NoRun] ELSE f
    IN  /\ installs' = drop(installs)
        /\ clients' = drop(clients)
        /\ plans' = drop(plans)
        /\ UNCHANGED <<cancels, busy, cancelReq>>

DialFails(c) ==
    LET i == loc[c].run IN
    /\ pc[c] = "dial"
    /\ FreeReservation(rec[i].mod, i)
    /\ Return(c)
    /\ UNCHANGED <<rec, disk, cancelled, ssh, launched, lost, restarts, overlap>>

\* The dial succeeded: the plan's steps, the client and the plan are
\* registered, the record saved, and an automatic run gets its goroutine.
Register(c) ==
    LET i == loc[c].run
        k == rec[i].mod
        auto == ~rec[i].manual
    IN
    /\ pc[c] = "dial"
    /\ rec' = [rec EXCEPT ![i] = [rec[i] EXCEPT !.steps = pending(planLen(rec[i]))]]
    /\ clients' = [clients EXCEPT ![k] = i]
    /\ plans' = [plans EXCEPT ![k] = i]
    /\ ssh' = [ssh EXCEPT ![i] = "open"]
    /\ Save(i)
    /\ IF lost' # lost
       THEN Goto(c, "rollback") /\ UNCHANGED <<cancels, loc>>
       ELSE /\ cancels' = IF auto THEN [cancels EXCEPT ![k] = i] ELSE cancels
            /\ pc' = [pc EXCEPT ![c] = "idle", ![i] = IF auto THEN "loop" ELSE @]
            /\ loc' = [loc EXCEPT ![c] = NoLocals,
                                  ![i] = IF auto
                                         THEN Local(i, i, i, 0)
                                         ELSE @]
    /\ UNCHANGED <<installs, busy, cancelReq, cancelled, launched, restarts, overlap>>

Rollback(c) ==
    LET i == loc[c].run IN
    /\ pc[c] = "rollback"
    /\ FreeReservation(rec[i].mod, i)
    /\ Close(i)
    /\ Return(c)
    /\ UNCHANGED <<rec, disk, cancelled, launched, lost, restarts, overlap>>

(***************************************************************************)
(* Next, Cancel                                                            *)
(***************************************************************************)

\* Mutant: the step is claimed without looking at the claim.
NextClaim_Again(c, k) ==
    LET i == installs[k] IN
    /\ pc[c] = "idle"
    /\ i # NoRun
    /\ rec[i].state = "running"
    /\ rec[i].manual
    /\ plans[k] # NoRun
    /\ rec[i].current <= planLen(rec[plans[k]])
    /\ busy' = [busy EXCEPT ![k] = TRUE]
    /\ Goto(c, "begin")
    /\ loc' = [loc EXCEPT ![c] = Local(i, plans[k], clients[k], rec[i].current)]
    /\ overlap' = (overlap \/ Meets(k))
    /\ UNCHANGED <<installs, cancels, clients, plans, cancelReq, rec, disk,
                   cancelled, ssh, launched, lost, restarts>>

\* Next's first critical section.  The client and the plan are the ones the
\* maps hold for the module, whichever run registered them.
NextClaim(c, k) ==
    LET i == installs[k] IN
    /\ pc[c] = "idle"
    /\ i # NoRun
    /\ rec[i].state = "running"
    /\ rec[i].manual
    /\ ~busy[k]
    /\ plans[k] # NoRun
    /\ rec[i].current <= planLen(rec[plans[k]])
    /\ busy' = [busy EXCEPT ![k] = TRUE]
    /\ Goto(c, "begin")
    /\ loc' = [loc EXCEPT ![c] = Local(i, plans[k], clients[k], rec[i].current)]
    /\ overlap' = (overlap \/ Meets(k))
    /\ UNCHANGED <<installs, cancels, clients, plans, cancelReq, rec, disk,
                   cancelled, ssh, launched, lost, restarts>>

\* Next's second critical section: the step has run.
NextAfter(c) ==
    LET i == loc[c].run
        k == rec[i].mod
        stop == cancelReq[k]
        goesOn == ~stop /\ rec[i].state = "running"
        at == rec[i].current + 1
    IN
    /\ c \in Callers
    /\ pc[c] = "after"
    /\ busy' = [busy EXCEPT ![k] = FALSE]
    /\ cancelReq' = [cancelReq EXCEPT ![k] = FALSE]
    /\ IF goesOn
       THEN /\ rec' = [rec EXCEPT ![i] =
                          [rec[i] EXCEPT !.current = at,
                                         !.state = IF at > planLen(rec[loc[c].plan])
                                                   THEN "done" ELSE rec[i].state]]
            /\ Save(i)
       ELSE UNCHANGED <<rec, disk, lost>>
    /\ IF stop THEN Goto(c, "terminate") /\ UNCHANGED loc
       ELSE IF rec'[i].state # "running" THEN Goto(c, "cleanup") /\ UNCHANGED loc
       ELSE Return(c)
    /\ UNCHANGED <<installs, cancels, clients, plans, cancelled, ssh, launched,
                   restarts, overlap>>

\* Cancel of an automatic run cancels its context ...
CancelAuto(c, k) ==
    /\ pc[c] = "idle"
    /\ cancels[k] # NoRun
    /\ cancelled' = cancelled \cup {cancels[k]}
    /\ overlap' = (overlap \/ Meets(k) \/ cancels[k] # installs[k])
    /\ UNCHANGED <<maps, rec, disk, ssh, pc, loc, launched, lost, restarts>>

\* Mutant: a Cancel of a terminal run is not a no-op.
mayCancel_Ended(k) ==
    /\ cancels[k] = NoRun
    /\ installs[k] # NoRun

mayCancel(k) ==
    /\ cancels[k] = NoRun
    /\ installs[k] # NoRun
    /\ rec[installs[k]].state = "running"

\* ... that of a manual run in the middle of a step leaves a flag for Next ...
CancelFlags(c, k) ==
    /\ pc[c] = "idle"
    /\ mayCancel(k)
    /\ busy[k]
    /\ cancelReq' = [cancelReq EXCEPT ![k] = TRUE]
    /\ overlap' = (overlap \/ Meets(k) \/ ~At(installs[k], {"begin", "exec", "after"}))
    /\ UNCHANGED <<installs, cancels, clients, plans, busy, rec, disk, cancelled,
                   ssh, pc, loc, launched, lost, restarts>>

\* ... and that of a run at rest marks it, then terminates and cleans up.
CancelMarks(c, k) ==
    LET i == installs[k] IN
    /\ pc[c] = "idle"
    /\ mayCancel(k)
    /\ ~busy[k]
    /\ rec' = [rec EXCEPT ![i] = [rec[i] EXCEPT !.state = "cancelled"]]
    /\ Goto(c, "terminate")
    /\ loc' = [loc EXCEPT ![c] = Local(i, NoRun, clients[k], 0)]
    /\ overlap' = (overlap \/ Meets(k))
    /\ UNCHANGED <<maps, disk, cancelled, ssh, launched, lost, restarts>>

(***************************************************************************)
(* execStep, by a Next or by the runner                                    *)
(***************************************************************************)

StepBegins(p) ==
    LET i == loc[p].run IN
    /\ pc[p] = "begin"
    /\ loc[p].idx \in DOMAIN rec[i].steps
    /\ rec' = [rec EXCEPT ![i] = [rec[i] EXCEPT !.steps[loc[p].idx] = "active"]]
    /\ Save(i)
    /\ Goto(p, "exec")
    /\ UNCHANGED <<maps, cancelled, ssh, loc, launched, restarts, overlap>>

\* in.Steps is shorter than the plan: the handler panics, and net/http
\* recovers; the claim stays.
StepPanics(c) ==
    LET i == loc[c].run IN
    /\ pc[c] = "begin"
    /\ loc[c].idx \notin DOMAIN rec[i].steps
    /\ Return(c)
    /\ UNCHANGED <<maps, rec, disk, cancelled, ssh, launched, lost, restarts, overlap>>

\* cascadeAfterUninstall, once a framework removal is done: the records of
\* the apps go with it.
cascades(i) == rec'[i].op = "uninstall" /\ rec'[i].state = "done" /\ rec'[i].mod = AppFW
dependents == {k \in Modules \ {AppFW} : installs[k] # NoRun}

\* The Save that precedes a cascade, and the cascade, in one critical section.
SaveAndCascade(i) ==
    LET gone == IF cascades(i) THEN dependents ELSE {}
        saved == [disk EXCEPT ![rec[i].mod] = [run |-> i, rec |-> rec'[i]]]
        without(d) == [k \in Modules |-> IF k \in gone THEN NoFile ELSE d[k]]
    IN
    /\ \/ disk' = without(saved) /\ UNCHANGED lost
       \/ mayFail /\ lost' = lost + 1 /\ disk' = without(disk)
    /\ installs' = [k \in Modules |-> IF k \in gone THEN NoRun ELSE installs[k]]
    /\ overlap' = (overlap \/ \E k \in gone : \/ rec[installs[k]].state = "running"
                                              \/ InFlight(installs[k]))

\* What a step of each kind may come to.
outcomes(kind) ==
    IF kind = "complete" THEN {"done"} ELSE {"done", "skipped", "error"}

\* Whether the step fails because its context was cancelled: only the runner's
\* context can be.
wasCancelled(p) == p \in Runs /\ p \in cancelled

StepEnds(p, outcome) ==
    LET i == loc[p].run
        s == loc[p].idx
        kind == kindOf(s)
        failed == outcome = "error"
    IN
    /\ pc[p] = "exec"
    /\ outcome \in outcomes(kind)
    /\ rec' = [rec EXCEPT ![i] =
                  [rec[i] EXCEPT !.steps[s] = outcome,
                                 !.state = CASE failed /\ wasCancelled(p) -> "cancelled"
                                             [] failed /\ ~wasCancelled(p) -> "error"
                                             [] ~failed /\ kind = "complete" -> "done"
                                             [] OTHER -> rec[i].state]]
    /\ IF failed
       THEN Save(i) /\ UNCHANGED <<installs, overlap>>
       ELSE SaveAndCascade(i)
    /\ Goto(p, IF failed /\ p \in Runs THEN "cleanup" ELSE "after")
    /\ UNCHANGED <<cancels, clients, plans, busy, cancelReq, cancelled, ssh, loc,
                   launched, restarts>>

(***************************************************************************)
(* runAll                                                                  *)
(***************************************************************************)

RunStops(i) ==
    /\ pc[i] = "loop"
    /\ i \in cancelled
    /\ Goto(i, "terminate")
    /\ UNCHANGED <<maps, rec, disk, cancelled, ssh, loc, launched, lost, restarts, overlap>>

RunContinues(i) ==
    /\ pc[i] = "loop"
    /\ i \notin cancelled
    /\ rec[i].current <= planLen(rec[i])
    /\ Goto(i, "begin")
    /\ loc' = [loc EXCEPT ![i].idx = rec[i].current]
    /\ UNCHANGED <<maps, rec, disk, cancelled, ssh, launched, lost, restarts, overlap>>

\* Mutant: the run is finished one step early.
RunFinishes_Early(i) ==
    /\ pc[i] = "loop"
    /\ i \notin cancelled
    /\ rec[i].current >= planLen(rec[i])
    /\ rec' = [rec EXCEPT ![i] = [rec[i] EXCEPT !.state = "done"]]
    /\ SaveAndCascade(i)
    /\ Goto(i, "cleanup")
    /\ UNCHANGED <<cancels, clients, plans, busy, cancelReq, cancelled, ssh, loc,
                   launched, restarts>>

RunFinishes(i) ==
    /\ pc[i] = "loop"
    /\ i \notin cancelled
    /\ rec[i].current > planLen(rec[i])
    /\ rec' = [rec EXCEPT ![i] = [rec[i] EXCEPT !.state = "done"]]
    /\ SaveAndCascade(i)
    /\ Goto(i, "cleanup")
    /\ UNCHANGED <<cancels, clients, plans, busy, cancelReq, cancelled, ssh, loc,
                   launched, restarts>>

RunAfter(i) ==
    /\ i \in Runs
    /\ pc[i] = "after"
    /\ IF rec[i].state # "running"
       THEN Goto(i, "cleanup") /\ UNCHANGED <<rec, disk, lost>>
       ELSE /\ rec' = [rec EXCEPT ![i] = [rec[i] EXCEPT !.current = rec[i].current + 1]]
            /\ Save(i)
            /\ Goto(i, "loop")
    /\ UNCHANGED <<maps, cancelled, ssh, loc, launched, restarts, overlap>>

(***************************************************************************)
(* terminate, cleanup, and a restart of the driver                         *)
(***************************************************************************)

\* Mutant: the run's state is written where the step's belongs.
failActive_State(steps) ==
    [s \in DOMAIN steps |-> IF steps[s] = "active" THEN "cancelled" ELSE steps[s]]

\* A run's active step becomes a failed one.
failActive(steps) == [s \in DOMAIN steps |-> IF steps[s] = "active" THEN "error" ELSE steps[s]]

\* Mutant: the terminal state is not persisted.
Terminate_Unsaved(p) ==
    LET i == loc[p].run IN
    /\ pc[p] = "terminate"
    /\ rec' = [rec EXCEPT ![i] = [rec[i] EXCEPT !.state = "cancelled",
                                             !.steps = failActive(rec[i].steps)]]
    /\ Goto(p, "cleanup")
    /\ UNCHANGED <<maps, disk, cancelled, ssh, loc, launched, lost, restarts, overlap>>

Terminate(p) ==
    LET i == loc[p].run IN
    /\ pc[p] = "terminate"
    /\ rec' = [rec EXCEPT ![i] = [rec[i] EXCEPT !.state = "cancelled",
                                             !.steps = failActive(rec[i].steps)]]
    /\ Save(i)
    /\ Goto(p, "cleanup")
    /\ UNCHANGED <<maps, cancelled, ssh, loc, launched, restarts, overlap>>

Cleanup(p) ==
    LET i == loc[p].run
        k == rec[i].mod
        own == installs[k] = i
        drop(f) == IF own THEN [f EXCEPT ![k] = NoRun] ELSE f
        reset(f) == IF own THEN [f EXCEPT ![k] = FALSE] ELSE f
    IN
    /\ pc[p] = "cleanup"
    /\ cancelled' = IF p \in Runs THEN cancelled \cup {p} ELSE cancelled
    /\ cancels' = drop(cancels)
    /\ clients' = drop(clients)
    /\ plans' = drop(plans)
    /\ busy' = reset(busy)
    /\ cancelReq' = reset(cancelReq)
    /\ Close(loc[p].client)
    /\ Return(p)
    /\ UNCHANGED <<installs, rec, disk, launched, lost, restarts, overlap>>

\* rehydrate: a run persisted as running was interrupted.
rehydrated(r) ==
    IF r.state = "running" THEN [r EXCEPT !.state = "error", !.steps = failActive(@)] ELSE r

Restart ==
    /\ mayFail
    /\ restarts' = restarts + 1
    /\ installs' = [k \in Modules |-> disk[k].run]
    /\ rec' = [i \in Runs |-> IF \E k \in Modules : disk[k].run = i
                              THEN rehydrated(disk[CHOOSE k \in Modules : disk[k].run = i].rec)
                              ELSE NoInstall]
    /\ disk' = [k \in Modules |-> [disk[k] EXCEPT !.rec = rehydrated(@)]]
    /\ cancels' = [k \in Modules |-> NoRun]
    /\ clients' = [k \in Modules |-> NoRun]
    /\ plans' = [k \in Modules |-> NoRun]
    /\ busy' = [k \in Modules |-> FALSE]
    /\ cancelReq' = [k \in Modules |-> FALSE]
    /\ cancelled' = {}
    /\ ssh' = [i \in Runs |-> "none"]
    /\ pc' = [p \in Procs |-> "idle"]
    /\ loc' = [p \in Procs |-> NoLocals]
    /\ UNCHANGED <<launched, lost, overlap>>

(***************************************************************************)
(* The specification                                                       *)
(***************************************************************************)

Call(c) ==
    \/ \E k \in Modules : \/ \E op \in Ops, manual \in BOOLEAN : Launch(c, k, op, manual)
                          \/ NextClaim(c, k)
                          \/ CancelAuto(c, k)
                          \/ CancelFlags(c, k)
                          \/ CancelMarks(c, k)
    \/ DialFails(c)
    \/ Register(c)
    \/ Rollback(c)
    \/ NextAfter(c)
    \/ StepPanics(c)

Runner(i) == RunStops(i) \/ RunContinues(i) \/ RunFinishes(i) \/ RunAfter(i)

Shared(p) ==
    \/ StepBegins(p)
    \/ \E outcome \in StepStates : StepEnds(p, outcome)
    \/ Terminate(p)
    \/ Cleanup(p)

Next ==
    \/ \E c \in Callers : Call(c)
    \/ \E i \in Runs : Runner(i)
    \/ \E p \in Procs : Shared(p)
    \/ Restart

Spec == Init /\ [][Next]_vars

(***************************************************************************)
(* Properties                                                              *)
(***************************************************************************)

\* Every variable has its type: the maps hold runs, a record is an Install.
EnterpriseTypeOK ==
    /\ installs \in [Modules -> Runs \cup {NoRun}]
    /\ cancels \in [Modules -> Runs \cup {NoRun}]
    /\ clients \in [Modules -> Runs \cup {NoRun}]
    /\ plans \in [Modules -> Runs \cup {NoRun}]
    /\ busy \in [Modules -> BOOLEAN]
    /\ cancelReq \in [Modules -> BOOLEAN]
    /\ rec \in [Runs -> Installs \cup {NoInstall}]
    /\ disk \in [Modules -> [run : Runs \cup {NoRun}, rec : Installs \cup {NoInstall}]]
    /\ cancelled \subseteq Runs
    /\ ssh \in [Runs -> {"none", "open", "closed", "closed twice"}]
    /\ pc \in [Procs -> {"idle", "dial", "rollback", "begin", "exec", "after", "loop",
                         "terminate", "cleanup"}]
    /\ loc \in [Procs -> Locals]
    /\ launched \in 0..MaxLaunches
    /\ lost \in 0..MaxFaults
    /\ restarts \in 0..MaxFaults
    /\ overlap \in BOOLEAN

\* The calls and runners that execute a step of module k.
Executing(k) == {p \in Procs : pc[p] \in {"begin", "exec"} /\ rec[loc[p].run].mod = k}

\* "one goroutine per (cluster,module)": no two goroutines execute steps of
\* one module at a time, where no call has met a run still being launched and
\* no framework removal a dependent still running.  Reservation, claim and the
\* running-guard keep the executions of a module apart.
OneRunner == ~overlap => \A k \in Modules : Cardinality(Executing(k)) <= 1

Finished(r) == \A s \in DOMAIN r.steps : r.steps[s] \in {"done", "skipped"}

\* A run that is reported done, in memory or on disk and so after a restart
\* too, has done or skipped every step of its plan: neither a failed step nor
\* a cancellation in the middle is ever overtaken by "done".
DoneIsComplete ==
    ~overlap =>
        /\ \A i \in Runs : rec[i].state = "done" =>
                Finished(rec[i]) /\ DOMAIN rec[i].steps = 1..planLen(rec[i])
        /\ \A k \in Modules : disk[k].rec.state = "done" => Finished(disk[k].rec)

\* "cleanup runs at most once", and at least once: no SSH client is closed
\* twice, and none stays open once its run has ended and nobody works on it.
ClosedOnce ==
    /\ ~overlap => \A i \in Runs : ssh[i] # "closed twice"
    /\ ~overlap => \A i \in Runs :
        rec[i].state \in {"done", "error", "cancelled"} /\ ssh[i] = "open" => InFlight(i)

\* What a restart would show is what the driver shows: with every write
\* landing, the file of a module nobody works on is its current record.
DiskIsCurrent ==
    ~overlap /\ lost = 0 =>
        \A k \in Modules :
            LET i == installs[k] IN
            i # NoRun /\ ~InFlight(i) /\ (\A p \in Procs : pc[p] # "idle" => rec[loc[p].run].mod # k)
                => disk[k] = [run |-> i, rec |-> rec[i]]
=============================================================================
