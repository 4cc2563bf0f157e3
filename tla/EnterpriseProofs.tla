-------------------------- MODULE EnterpriseProofs --------------------------
(***************************************************************************)
(* The install manager, for any modules, plans, calls, launches and        *)
(* faults.                                                                 *)
(***************************************************************************)
EXTENDS Enterprise, FiniteSetTheorems, TLAPS

(* The bounds are naturals, and no call is a runner. *)
LEMMA Constants ==
    /\ Work \in Nat /\ Work >= 1 /\ MaxLaunches \in Nat /\ MaxFaults \in Nat
    /\ AppFW \in Modules
    /\ \A c \in Callers : c \notin Runs
BY EnterpriseConstants DEF EnterpriseConstants, Runs

-----------------------------------------------------------------------------
(* Records *)

Same(r, t) == t.mod = r.mod /\ t.op = r.op /\ t.manual = r.manual

LEMMA StepsSet ==
    ASSUME NEW t \in StepLists, NEW s, NEW x \in StepStates
    PROVE  [t EXCEPT ![s] = x] \in StepLists
<1>1. PICK n \in 0..(Work + 1) : t \in [1..n -> StepStates]
  BY DEF StepLists
<1>2. [t EXCEPT ![s] = x] \in [1..n -> StepStates]
  BY <1>1
<1> QED BY <1>2 DEF StepLists

LEMMA StepsPending ==
    ASSUME NEW n \in 0..(Work + 1) PROVE pending(n) \in StepLists
<1>1. pending(n) \in [1..n -> StepStates]
  BY DEF pending, StepStates
<1> QED BY <1>1 DEF StepLists

LEMMA StepsFailed ==
    ASSUME NEW t \in StepLists
    PROVE  failActive(t) \in StepLists /\ DOMAIN failActive(t) = DOMAIN t
<1>1. PICK n \in 0..(Work + 1) : t \in [1..n -> StepStates]
  BY DEF StepLists
<1>2. failActive(t) \in [1..n -> StepStates]
  BY <1>1 DEF failActive, StepStates
<1> QED BY <1>1, <1>2 DEF StepLists

(* What an assignment to some fields of a record makes of it. *)
LEMMA SetSteps ==
    ASSUME NEW r \in Installs, NEW t \in StepLists, NEW q, q = [r EXCEPT !.steps = t]
    PROVE  q \in Installs /\ Same(r, q) /\ q.state = r.state /\ q.current = r.current
           /\ q.steps = t
BY DEF Installs, Same

LEMMA SetState ==
    ASSUME NEW r \in Installs, NEW x \in RunStates, NEW q, q = [r EXCEPT !.state = x]
    PROVE  q \in Installs /\ Same(r, q) /\ q.state = x /\ q.current = r.current
           /\ q.steps = r.steps
BY DEF Installs, Same

LEMMA SetCurrent ==
    ASSUME NEW r \in Installs, NEW y \in 1..(Work + 2), NEW q, q = [r EXCEPT !.current = y]
    PROVE  q \in Installs /\ Same(r, q) /\ q.state = r.state /\ q.current = y
           /\ q.steps = r.steps
BY DEF Installs, Same

LEMMA SetCurrentState ==
    ASSUME NEW r \in Installs, NEW y \in 1..(Work + 2), NEW x \in RunStates,
           NEW q, q = [r EXCEPT !.current = y, !.state = x]
    PROVE  q \in Installs /\ Same(r, q) /\ q.state = x /\ q.current = y
           /\ q.steps = r.steps
BY DEF Installs, Same

LEMMA SetStateSteps ==
    ASSUME NEW r \in Installs, NEW x \in RunStates, NEW t \in StepLists,
           NEW q, q = [r EXCEPT !.state = x, !.steps = t]
    PROVE  q \in Installs /\ Same(r, q) /\ q.state = x /\ q.current = r.current
           /\ q.steps = t
BY DEF Installs, Same

LEMMA SetStep ==
    ASSUME NEW r \in Installs, NEW s, NEW x \in StepStates,
           NEW q, q = [r EXCEPT !.steps[s] = x]
    PROVE  q \in Installs /\ Same(r, q) /\ q.state = r.state /\ q.current = r.current
           /\ q.steps = [r.steps EXCEPT ![s] = x]
<1>1. r.steps \in StepLists
  BY DEF Installs
<1> DEFINE t == [r.steps EXCEPT ![s] = x]
<1>2. q = [r EXCEPT !.steps = t]
  OBVIOUS
<1>3. t \in StepLists
  BY <1>1, StepsSet
<1> HIDE DEF t
<1>4. q \in Installs /\ Same(r, q) /\ q.state = r.state /\ q.current = r.current /\ q.steps = t
  BY <1>2, <1>3 DEF Installs, Same
<1> QED BY <1>4 DEF t

LEMMA SetStepState ==
    ASSUME NEW r \in Installs, NEW s, NEW x \in StepStates, NEW y \in RunStates,
           NEW q, q = [r EXCEPT !.steps[s] = x, !.state = y]
    PROVE  q \in Installs /\ Same(r, q) /\ q.state = y /\ q.current = r.current
           /\ q.steps = [r.steps EXCEPT ![s] = x]
<1>1. r.steps \in StepLists /\ [r.steps EXCEPT ![s] = x] \in StepLists
  BY StepsSet DEF Installs
<1>2. q = [r EXCEPT !.steps = [r.steps EXCEPT ![s] = x], !.state = y]
  OBVIOUS
<1> QED BY <1>1, <1>2 DEF Installs, Same

-----------------------------------------------------------------------------
(* Types *)

Files == [run : Runs \cup {NoRun}, rec : Installs \cup {NoInstall}]
PcSet == {"idle", "dial", "rollback", "begin", "exec", "after", "loop", "terminate",
          "cleanup"}
Stepping == {"begin", "exec", "after"}

(* A run that was launched and has its record. *)
Known(i) == i \in Runs /\ i <= launched /\ rec[i] \in Installs

(* Where a call or a runner may stand, and with which locals: a call works *)
(* the steps of manual runs only, a runner those of its own automatic one. *)
Stand(p, x, l) ==
    /\ x # "idle" => Known(l.run)
    /\ x \in Stepping => Known(l.plan)
    /\ p \in Callers => x # "loop" /\ (x \in Stepping => rec[l.run].manual)
    /\ p \in Runs => /\ x \notin {"dial", "rollback"}
                     /\ x # "idle" => l.run = p /\ l.plan = p /\ ~rec[p].manual
Places(at, in) ==
    /\ at \in [Procs -> PcSet] /\ in \in [Procs -> Locals]
    /\ \A p \in Procs : Stand(p, at[p], in[p])

(* The maps and the files name runs that have a record, of their module.   *)
MapRefs(ins, pl) ==
    /\ ins \in [Modules -> Runs \cup {NoRun}] /\ pl \in [Modules -> Runs \cup {NoRun}]
    /\ \A k \in Modules : ins[k] # NoRun => Known(ins[k]) /\ rec[ins[k]].mod = k
    /\ \A k \in Modules : pl[k] # NoRun => Known(pl[k])
FileRefs(d) ==
    /\ d \in [Modules -> Files]
    /\ \A k \in Modules : d[k].run # NoRun =>
          /\ Known(d[k].run) /\ rec[d[k].run].mod = k
          /\ d[k].rec \in Installs /\ d[k].rec.mod = k

(* A run that goes on has a step to go on with. *)
Bounded(i) ==
    /\ rec[i] \in Installs /\ rec[i].state = "running" /\ rec[i].manual
          => rec[i].current <= Work + 1
    /\ pc[i] \in Stepping => rec[i].current <= Work + 1

Others ==
    /\ cancels \in [Modules -> Runs \cup {NoRun}]
    /\ clients \in [Modules -> Runs \cup {NoRun}]
    /\ busy \in [Modules -> BOOLEAN]
    /\ cancelReq \in [Modules -> BOOLEAN]
    /\ cancelled \subseteq Runs
    /\ ssh \in [Runs -> {"none", "open", "closed", "closed twice"}]
Counts ==
    /\ launched \in 0..MaxLaunches
    /\ lost \in 0..MaxFaults
    /\ restarts \in 0..MaxFaults
    /\ overlap \in BOOLEAN

Basic ==
    /\ rec \in [Runs -> Installs \cup {NoInstall}]
    /\ Others /\ Counts
    /\ MapRefs(installs, plans)
    /\ FileRefs(disk)
    /\ Places(pc, loc)
    /\ \A i \in Runs : Bounded(i)

LEMMA BasicTypes == Basic => EnterpriseTypeOK
BY DEF Basic, Others, Counts, MapRefs, FileRefs, Files, Places, PcSet, EnterpriseTypeOK

(* A step keeps every record a record of the same module and operation.    *)
Keeps ==
    /\ launched' = launched
    /\ rec' \in [Runs -> Installs \cup {NoInstall}]
    /\ \A j \in Runs : rec[j] \in Installs => rec'[j] \in Installs /\ Same(rec[j], rec'[j])

LEMMA KnownKept == ASSUME Keeps, NEW i, Known(i) PROVE Known(i)'
BY DEF Keeps, Known

(* Nothing written: nothing to lose. *)
LEMMA KeepsAll ==
    ASSUME Basic, UNCHANGED <<launched, rec>> PROVE Keeps
BY DEF Basic, Keeps, Same

LEMMA KeepsOne ==
    ASSUME Basic, NEW i \in Runs, NEW r \in Installs, Known(i), Same(rec[i], r),
           rec' = [rec EXCEPT ![i] = r], UNCHANGED launched
    PROVE  Keeps /\ rec'[i] = r /\ \A j \in Runs : j # i => rec'[j] = rec[j]
BY DEF Basic, Keeps, Same

(* A step that keeps the records keeps the types, if what it assigns is    *)
(* well typed.                                                             *)
LEMMA Assembled ==
    ASSUME Basic, Keeps, Others', Counts', MapRefs(installs', plans'), FileRefs(disk'),
           Places(pc', loc'), \A i \in Runs : Bounded(i)'
    PROVE  Basic'
<1>1. MapRefs(installs, plans)'
  <2>1. \A i \in Runs : Known(i) => Known(i)' /\ rec'[i].mod = rec[i].mod
    BY KnownKept DEF Keeps, Same, Known
  <2> QED BY <2>1 DEF MapRefs, Known
<1>2. FileRefs(disk)'
  <2>1. \A i \in Runs : Known(i) => Known(i)' /\ rec'[i].mod = rec[i].mod
    BY KnownKept DEF Keeps, Same, Known
  <2> QED BY <2>1 DEF FileRefs, Known
<1>3. Places(pc, loc)'
  <2> SUFFICES ASSUME NEW p \in Procs
               PROVE  Stand(p, pc[p], loc[p])'
    BY DEF Places
  <2>1. Stand(p, pc'[p], loc'[p])
    BY DEF Places
  <2>2. \A i : Known(i) => Known(i)' /\ rec'[i].manual = rec[i].manual
    BY KnownKept DEF Keeps, Same, Known
  <2>3. pc'[p] \in Stepping => pc'[p] # "idle"
    BY DEF Stepping
  <2> QED BY <2>1, <2>2, <2>3 DEF Stand
<1> QED BY <1>1, <1>2, <1>3 DEF Basic, Keeps

(* One process moves. *)
LEMMA PlaceSet ==
    ASSUME Basic, NEW p \in Procs, NEW x \in PcSet, NEW l \in Locals, Stand(p, x, l),
           pc' = [pc EXCEPT ![p] = x], loc' = [loc EXCEPT ![p] = l]
    PROVE  Places(pc', loc')
BY DEF Basic, Places

LEMMA PlaceGoto ==
    ASSUME Basic, NEW p \in Procs, NEW x \in PcSet, Stand(p, x, loc[p]),
           Goto(p, x), UNCHANGED loc
    PROVE  Places(pc', loc')
BY DEF Basic, Places, Goto

LEMMA PlaceReturn ==
    ASSUME Basic, NEW p \in Procs, Return(p)
    PROVE  Places(pc', loc')
<1>1. NoLocals \in Locals
  BY Constants DEF NoLocals, Local, Locals
<1>2. Stand(p, "idle", NoLocals) /\ "idle" \in PcSet
  BY DEF Stand, Stepping, PcSet
<1> HIDE DEF NoLocals
<1> QED BY <1>1, <1>2, PlaceSet DEF Return

(* The file of a run's module holds its record, or the write was lost.     *)
LEMMA SaveFiles ==
    ASSUME Basic, NEW i \in Runs, Known(i), rec'[i] \in Installs, Same(rec[i], rec'[i]),
           Save(i)
    PROVE  /\ FileRefs(disk')
           /\ lost' \in 0..MaxFaults /\ lost <= lost'
           /\ \A k \in Modules : disk'[k] = disk[k] \/ k = rec'[i].mod
           /\ \/ disk' = disk
              \/ disk'[rec'[i].mod] = [run |-> i, rec |-> rec'[i]]
           /\ lost' = lost => disk'[rec'[i].mod] = [run |-> i, rec |-> rec'[i]]
<1> DEFINE f == [run |-> i, rec |-> rec'[i]]
           k == rec'[i].mod
<1>1. k \in Modules
  BY DEF Installs
<1>2. f \in Files /\ f.run = i /\ f.rec = rec'[i]
  BY DEF Files
<1>3. \/ disk' = [disk EXCEPT ![k] = f] /\ lost' = lost
      \/ mayFail /\ lost' = lost + 1 /\ disk' = disk
  BY DEF Save
<1> USE DEF Basic, Counts
<1>4. lost' \in 0..MaxFaults /\ lost <= lost' /\ (lost' = lost => disk' = [disk EXCEPT ![k] = f])
  BY <1>3, Constants DEF mayFail
<1>5. disk \in [Modules -> Files]
  BY DEF FileRefs
<1>6. FileRefs(disk')
  <2> HIDE DEF f, k
  <2>2. rec'[i].mod = k /\ rec[i].mod = k
    BY DEF k, Same
  <2> QED BY <1>1, <1>2, <1>3, <2>2 DEF FileRefs
<1> HIDE DEF f
<1>7. /\ \A m \in Modules : disk'[m] = disk[m] \/ m = k
      /\ disk' = disk \/ disk'[k] = f
      /\ lost' = lost => disk'[k] = f
  BY <1>1, <1>3, <1>4, <1>5
<1> QED BY <1>4, <1>6, <1>7 DEF f

(* A cascade forgets dependents and their files only. *)
LEMMA CascadeFiles ==
    ASSUME Basic, NEW i \in Runs, Known(i), rec'[i] \in Installs, Same(rec[i], rec'[i]),
           SaveAndCascade(i)
    PROVE  /\ FileRefs(disk')
           /\ lost' \in 0..MaxFaults /\ lost <= lost'
           /\ installs' \in [Modules -> Runs \cup {NoRun}]
           /\ \A k \in Modules :
                 \/ installs'[k] = installs[k] /\ (disk'[k] = disk[k] \/ k = rec[i].mod)
                 \/ /\ installs'[k] = NoRun /\ disk'[k] = NoFile /\ k # AppFW
                    /\ rec[i].mod = AppFW
                    /\ overlap' \/ ~InFlight(installs[k])
           /\ disk'[rec[i].mod] \in {disk[rec[i].mod], [run |-> i, rec |-> rec'[i]]}
           /\ lost' = lost => disk'[rec[i].mod] = [run |-> i, rec |-> rec'[i]]
           /\ overlap' \in BOOLEAN /\ (overlap => overlap')
<1> DEFINE f == [run |-> i, rec |-> rec'[i]]
           m == rec[i].mod
           gone == IF cascades(i) THEN dependents ELSE {}
           met == \E k \in gone : \/ rec[installs[k]].state = "running"
                                  \/ InFlight(installs[k])
           saved == [disk EXCEPT ![m] = f]
           without(d) == [k \in Modules |-> IF k \in gone THEN NoFile ELSE d[k]]
<1>1. m \in Modules /\ rec'[i].mod = m
  BY DEF Known, Installs, Same
<1>2. f \in Files /\ f.run = i /\ f.rec = rec'[i]
  BY DEF Files
<1>3. NoFile \in Files /\ NoFile.run = NoRun
  BY DEF NoFile, Files
<1>4. /\ \/ disk' = without(saved) /\ lost' = lost
         \/ mayFail /\ lost' = lost + 1 /\ disk' = without(disk)
      /\ installs' = [k \in Modules |-> IF k \in gone THEN NoRun ELSE installs[k]]
      /\ overlap' = (overlap \/ met)
  BY DEF SaveAndCascade
<1>5. \A k \in gone : k # AppFW /\ m = AppFW /\ k # m
  BY <1>1 DEF cascades, dependents
<1>6. \A k \in gone : InFlight(installs[k]) => met
  OBVIOUS
<1> HIDE DEF gone, met, f, m
<1> USE DEF Basic, Counts
<1>7. lost' \in 0..MaxFaults /\ lost <= lost' /\ (lost' = lost => disk' = without(saved))
  BY <1>4, Constants DEF mayFail
<1>8. disk \in [Modules -> Files] /\ installs \in [Modules -> Runs \cup {NoRun}]
  BY DEF FileRefs, MapRefs
<1>9. \A k \in Modules : /\ k \in gone => disk'[k] = NoFile
                         /\ k \notin gone /\ k # m => disk'[k] = disk[k]
                         /\ k \notin gone /\ k = m => disk'[k] \in {disk[k], f}
  BY <1>4, <1>8
<1>10. disk' \in [Modules -> Files]
  BY <1>1, <1>2, <1>3, <1>4, <1>8
<1>11. FileRefs(disk')
  <2> SUFFICES ASSUME NEW k \in Modules, disk'[k].run # NoRun
               PROVE  /\ Known(disk'[k].run) /\ rec[disk'[k].run].mod = k
                      /\ disk'[k].rec \in Installs /\ disk'[k].rec.mod = k
    BY <1>10 DEF FileRefs
  <2>1. disk'[k] = disk[k] \/ (k = m /\ disk'[k] = f)
    BY <1>3, <1>9
  <2>2. rec[i].mod = m
    BY DEF m
  <2> QED BY <1>1, <1>2, <2>1, <2>2 DEF FileRefs
<1>12. installs' \in [Modules -> Runs \cup {NoRun}]
  BY <1>4, <1>8
<1>13. \A k \in Modules :
          \/ installs'[k] = installs[k] /\ (disk'[k] = disk[k] \/ k = m)
          \/ /\ installs'[k] = NoRun /\ disk'[k] = NoFile /\ k # AppFW
             /\ m = AppFW
             /\ overlap' \/ ~InFlight(installs[k])
  <2> SUFFICES ASSUME NEW k \in Modules
               PROVE  \/ installs'[k] = installs[k] /\ (disk'[k] = disk[k] \/ k = m)
                      \/ /\ installs'[k] = NoRun /\ disk'[k] = NoFile /\ k # AppFW
                         /\ m = AppFW
                         /\ overlap' \/ ~InFlight(installs[k])
    OBVIOUS
  <2>1. CASE k \in gone
    BY <1>4, <1>5, <1>6, <1>9, <2>1
  <2>2. CASE k \notin gone
    BY <1>4, <1>9, <2>2
  <2> QED BY <2>1, <2>2
<1>14. /\ disk'[m] \in {disk[m], f}
       /\ lost' = lost => disk'[m] = f
  <2>1. m \notin gone
    BY <1>5
  <2> QED BY <1>1, <1>4, <1>7, <1>8, <1>9, <2>1
<1>15. overlap' \in BOOLEAN /\ (overlap => overlap')
  BY <1>4
<1> QED BY <1>7, <1>11, <1>12, <1>13, <1>14, <1>15 DEF f, m

(* Who stands somewhere stands on a run that has its record. *)
LEMMA Standing ==
    ASSUME Basic, NEW p \in Procs, pc[p] # "idle"
    PROVE  /\ Known(loc[p].run) /\ loc[p].run \in Runs /\ rec[loc[p].run] \in Installs
           /\ rec[loc[p].run].mod \in Modules /\ loc[p] \in Locals
BY DEF Basic, Places, Stand, Known, Installs

LEMMA CallerIsProc == ASSUME NEW c \in Callers PROVE c \in Procs /\ c \notin Runs
BY Constants DEF Procs

LEMMA RunnerIsProc == ASSUME NEW i \in Runs PROVE i \in Procs /\ i \notin Callers
BY Constants DEF Procs

LEMMA BoundedKept ==
    ASSUME Basic, UNCHANGED rec,
           \A i \in Runs : pc'[i] \in Stepping => pc[i] \in Stepping \/ rec[i].current <= Work + 1
    PROVE  \A i \in Runs : Bounded(i)'
BY DEF Basic, Bounded

(* rollback forgets the reservation of the run that owns it, nothing else. *)
LEMMA FreeMaps ==
    ASSUME Basic, NEW i \in Runs, NEW k \in Modules, FreeReservation(k, i)
    PROVE  /\ MapRefs(installs', plans')
           /\ clients' \in [Modules -> Runs \cup {NoRun}]
           /\ UNCHANGED <<cancels, busy, cancelReq>>
           /\ installs[k] # i => UNCHANGED <<installs, plans, clients>>
           /\ installs[k] = i => /\ installs' = [installs EXCEPT ![k] = NoRun]
                                 /\ plans' = [plans EXCEPT ![k] = NoRun]
                                 /\ clients' = [clients EXCEPT ![k] = NoRun]
<1> USE DEF Basic, Others, MapRefs
<1>1. /\ UNCHANGED <<cancels, busy, cancelReq>>
      /\ installs[k] # i => UNCHANGED <<installs, plans, clients>>
      /\ installs[k] = i => /\ installs' = [installs EXCEPT ![k] = NoRun]
                            /\ plans' = [plans EXCEPT ![k] = NoRun]
                            /\ clients' = [clients EXCEPT ![k] = NoRun]
  BY DEF FreeReservation
<1> QED BY <1>1

(* client.Close() leaves the other clients alone. *)
LEMMA Closes ==
    ASSUME Basic, NEW i \in Runs \cup {NoRun}, Close(i)
    PROVE  /\ ssh' \in [Runs -> {"none", "open", "closed", "closed twice"}]
           /\ \A j \in Runs : j # i => ssh'[j] = ssh[j]
           /\ i # NoRun /\ ssh[i] = "open" => ssh'[i] = "closed"
BY DEF Basic, Others, Close, NoRun, Runs

(* The calls that end a launch. *)
LEMMA BasicUndo ==
    ASSUME Basic, NEW c \in Callers, DialFails(c) \/ Rollback(c)
    PROVE  Basic'
<1> DEFINE i == loc[c].run
           k == rec[i].mod
<1>0. c \in Procs /\ c \notin Runs /\ pc[c] # "idle"
  BY CallerIsProc DEF DialFails, Rollback
<1>1. Known(i) /\ i \in Runs /\ k \in Modules
  BY <1>0, Standing
<1>2. FreeReservation(k, i) /\ Return(c) /\ UNCHANGED <<rec, disk, cancelled, launched, lost, restarts, overlap>>
  BY DEF DialFails, Rollback
<1>3. ssh' \in [Runs -> {"none", "open", "closed", "closed twice"}]
  <2>1. CASE DialFails(c)
    BY <2>1 DEF DialFails, Basic, Others
  <2>2. CASE Rollback(c)
    BY <1>1, <2>2, Closes DEF Rollback
  <2> QED BY <2>1, <2>2
<1> HIDE DEF i, k
<1>4. MapRefs(installs', plans') /\ clients' \in [Modules -> Runs \cup {NoRun}]
      /\ UNCHANGED <<cancels, busy, cancelReq>>
  BY <1>1, <1>2, FreeMaps
<1>5. Places(pc', loc')
  BY <1>0, <1>2, PlaceReturn
<1>6. \A j \in Runs : Bounded(j)'
  <2>1. \A j \in Runs : pc'[j] = pc[j]
    BY <1>0, <1>2, RunnerIsProc DEF Return, Basic, Places
  <2> QED BY <1>2, <2>1, BoundedKept
<1>7. Keeps
  BY <1>2, KeepsAll
<1>8. Others' /\ Counts' /\ FileRefs(disk')
  BY <1>2, <1>3, <1>4 DEF Basic, Others, Counts, FileRefs
<1> QED BY <1>4, <1>5, <1>6, <1>7, <1>8, Assembled

(* Launch: the record is a new one. *)
LEMMA LaunchEffect ==
    ASSUME Basic, NEW c \in Callers, NEW k \in Modules, NEW op \in Ops, NEW manual \in BOOLEAN,
           Launch(c, k, op, manual)
    PROVE  LET i == launched + 1 IN
           /\ i \in Runs
           /\ rec' = [rec EXCEPT ![i] = rec'[i]] /\ rec'[i] \in Installs
           /\ rec'[i].mod = k /\ rec'[i].manual = manual /\ rec'[i].state = "running"
           /\ rec'[i].current = 1
           /\ installs' = [installs EXCEPT ![k] = i]
           /\ pc' = [pc EXCEPT ![c] = "dial"]
           /\ loc' = [loc EXCEPT ![c] = loc'[c]] /\ loc'[c] \in Locals /\ loc'[c].run = i
           /\ launched' = i /\ overlap' \in BOOLEAN
<1> DEFINE i == launched + 1
           r == NewInstall(k, op, manual)
           l == Local(i, NoRun, NoRun, 0)
<1>1. i \in Runs
  BY Constants DEF Launch, Basic, Counts, Runs
<1>2. pending(0) \in StepLists
  BY StepsPending, Constants
<1>3. r \in Installs /\ r.mod = k /\ r.manual = manual /\ r.state = "running" /\ r.current = 1
  BY <1>2, Constants DEF NewInstall, Installs, RunStates
<1>4. l \in Locals /\ l.run = i
  BY <1>1, Constants DEF Local, Locals
<1>5. /\ rec' = [rec EXCEPT ![i] = r]
      /\ installs' = [installs EXCEPT ![k] = i]
      /\ pc' = [pc EXCEPT ![c] = "dial"]
      /\ loc' = [loc EXCEPT ![c] = l]
      /\ launched' = i /\ overlap' \in BOOLEAN
  BY DEF Launch, Goto
<1> HIDE DEF r, l
<1>6. rec'[i] = r /\ loc'[c] = l
  BY <1>1, <1>5, CallerIsProc DEF Basic, Places
<1> QED BY <1>1, <1>3, <1>4, <1>5, <1>6

LEMMA BasicLaunch ==
    ASSUME Basic, NEW c \in Callers, NEW k \in Modules, NEW op \in Ops, NEW manual \in BOOLEAN,
           Launch(c, k, op, manual)
    PROVE  Basic'
<1> DEFINE OnNext(j) == j \in Runs /\ j <= launched' /\ rec'[j] \in Installs
<1>i. PICK i : i = launched + 1
  OBVIOUS
<1>0. c \in Procs /\ c \notin Runs /\ pc[c] = "idle"
  BY CallerIsProc DEF Launch
<1>1. /\ i \in Runs
      /\ rec' = [rec EXCEPT ![i] = rec'[i]] /\ rec'[i] \in Installs
      /\ rec'[i].mod = k /\ rec'[i].state = "running"
      /\ rec'[i].current = 1
      /\ installs' = [installs EXCEPT ![k] = i]
      /\ pc' = [pc EXCEPT ![c] = "dial"]
      /\ loc' = [loc EXCEPT ![c] = loc'[c]] /\ loc'[c] \in Locals /\ loc'[c].run = i
      /\ launched' = i /\ overlap' \in BOOLEAN
  BY <1>i, LaunchEffect
<1>2. UNCHANGED <<cancels, clients, plans, busy, cancelReq, disk, cancelled, ssh, lost, restarts>>
  BY DEF Launch
<1>3. launched \in Nat /\ MaxLaunches \in Nat
  BY Constants DEF Basic, Counts
<1>4. \A j : Known(j) => OnNext(j) /\ rec'[j] = rec[j]
  BY <1>i, <1>1, <1>3 DEF Known, Runs, Basic
<1>5. OnNext(i)
  BY <1>1, <1>3 DEF Runs
<1>6. MapRefs(installs, plans)'
  <2>1. \A m \in Modules : installs'[m] # NoRun => OnNext(installs'[m]) /\ rec'[installs'[m]].mod = m
    <3> SUFFICES ASSUME NEW m \in Modules, installs'[m] # NoRun
                 PROVE  OnNext(installs'[m]) /\ rec'[installs'[m]].mod = m
      OBVIOUS
    <3>1. CASE m = k
      BY <1>1, <1>5, <3>1 DEF Basic, MapRefs
    <3>2. CASE m # k
      <4>1. installs'[m] = installs[m]
        BY <1>1, <3>2 DEF Basic, MapRefs
      <4> QED BY <4>1, <1>4 DEF Basic, MapRefs
    <3> QED BY <3>1, <3>2
  <2>2. \A m \in Modules : plans[m] # NoRun => OnNext(plans[m])
    BY <1>4 DEF Basic, MapRefs
  <2>3. installs' \in [Modules -> Runs \cup {NoRun}]
    BY <1>1 DEF Basic, MapRefs
  <2> QED BY <1>2, <2>1, <2>2, <2>3 DEF Basic, MapRefs, Known
<1>7. FileRefs(disk)'
  BY <1>2, <1>4 DEF Basic, FileRefs, Known
<1>8. Places(pc, loc)'
  <2>1. pc' \in [Procs -> PcSet] /\ loc' \in [Procs -> Locals]
    BY <1>0, <1>1 DEF Basic, Places, PcSet
  <2> SUFFICES ASSUME NEW p \in Procs
               PROVE  Stand(p, pc[p], loc[p])'
    BY <2>1 DEF Places
  <2>2. CASE p = c
    <3>1. pc'[p] = "dial" /\ loc'[p].run = i
      BY <1>0, <1>1, <2>2 DEF Basic, Places
    <3> QED BY <1>0, <1>5, <2>2, <3>1 DEF Stand, Stepping, Known
  <2>3. CASE p # c
    <3>1. pc'[p] = pc[p] /\ loc'[p] = loc[p] /\ Stand(p, pc[p], loc[p])
      BY <1>0, <1>1, <2>3 DEF Basic, Places
    <3>2. pc[p] \in Stepping => pc[p] # "idle"
      BY DEF Stepping
    <3>3. \A j : Known(j) => Known(j)' /\ rec'[j] = rec[j]
      BY <1>4 DEF Known
    <3> QED BY <3>1, <3>2, <3>3 DEF Stand
  <2> QED BY <2>2, <2>3
<1>9. \A j \in Runs : Bounded(j)'
  <2> SUFFICES ASSUME NEW j \in Runs
               PROVE  Bounded(j)'
    OBVIOUS
  <2>1. pc'[j] = pc[j]
    BY <1>0, <1>1, RunnerIsProc DEF Basic, Places
  <2>2. CASE j = i
    <3>1. rec'[j].current = 1 /\ 1 <= Work + 1
      BY <1>1, <2>2, Constants
    <3> QED BY <3>1 DEF Bounded
  <2>3. CASE j # i
    <3>1. rec'[j] = rec[j]
      BY <1>1, <2>3 DEF Basic
    <3> QED BY <2>1, <3>1 DEF Bounded, Basic
  <2> QED BY <2>2, <2>3
<1>10. Others' /\ Counts'
  <2>1. launched' \in 0..MaxLaunches
    BY <1>1, <1>3 DEF Runs
  <2> QED BY <1>1, <1>2, <2>1 DEF Basic, Others, Counts
<1>11. rec' \in [Runs -> Installs \cup {NoInstall}]
  BY <1>1 DEF Basic
<1> QED BY <1>6, <1>7, <1>8, <1>9, <1>10, <1>11 DEF Basic

-----------------------------------------------------------------------------
(* What each action writes into the record of its run *)

LEMMA PlanLength == ASSUME NEW r PROVE planLen(r) \in {Work, Work + 1} /\ planLen(r) \in 1..(Work + 1)
BY Constants DEF planLen

(* A record is replaced by another of the same run. *)
Wrote(i, q) ==
    /\ q \in Installs /\ Same(rec[i], q)
    /\ rec' = [rec EXCEPT ![i] = q] /\ launched' = launched

LEMMA WroteOne ==
    ASSUME Basic, NEW i \in Runs, Known(i), NEW q, Wrote(i, q)
    PROVE  Keeps /\ rec'[i] = q /\ \A j \in Runs : j # i => rec'[j] = rec[j]
BY KeepsOne DEF Wrote

LEMMA RegisterWrites ==
    ASSUME Basic, NEW c \in Callers, Register(c)
    PROVE  \E q : /\ Wrote(loc[c].run, q)
                  /\ q.state = rec[loc[c].run].state /\ q.current = rec[loc[c].run].current
                  /\ q.steps = pending(planLen(rec[loc[c].run]))
<1> DEFINE i == loc[c].run
           t == pending(planLen(rec[i]))
           q == [rec[i] EXCEPT !.steps = t]
<1>1. rec[i] \in Installs
  BY CallerIsProc, Standing DEF Register
<1>2. t \in StepLists
  BY PlanLength, StepsPending, Constants
<1>3. rec' = [rec EXCEPT ![i] = q] /\ launched' = launched
  BY DEF Register
<1> HIDE DEF t
<1>4. q \in Installs /\ Same(rec[i], q) /\ q.state = rec[i].state /\ q.current = rec[i].current /\ q.steps = t
  BY <1>1, <1>2 DEF Installs, Same
<1> HIDE DEF q
<1> QED BY <1>3, <1>4 DEF Wrote, t

LEMMA NextAfterWrites ==
    ASSUME Basic, NEW c \in Callers, NextAfter(c),
           ~cancelReq[rec[loc[c].run].mod], rec[loc[c].run].state = "running"
    PROVE  \E q : /\ Wrote(loc[c].run, q)
                  /\ q.current = rec[loc[c].run].current + 1
                  /\ q.state = IF q.current > planLen(rec[loc[c].plan]) THEN "done" ELSE "running"
                  /\ q.steps = rec[loc[c].run].steps
                  /\ q.state = "running" => q.current <= Work + 1
<1> DEFINE i == loc[c].run
           y == rec[i].current + 1
           x == IF y > planLen(rec[loc[c].plan]) THEN "done" ELSE rec[i].state
           q == [rec[i] EXCEPT !.current = y, !.state = x]
<1>0. c \in Procs /\ pc[c] = "after" /\ c \notin Runs
  BY CallerIsProc DEF NextAfter
<1>1. rec[i] \in Installs /\ i \in Runs
  BY <1>0, Standing
<1>2. y \in 1..(Work + 2)
  <2>1. rec[i].manual
    BY <1>0 DEF Basic, Places, Stand, Stepping
  <2>2. rec[i].current <= Work + 1
    BY <1>1, <2>1 DEF Basic, Bounded
  <2>3. rec[i].current \in 1..(Work + 2)
    BY <1>1 DEF Installs
  <2> QED BY <2>2, <2>3, Constants
<1>3. x \in RunStates /\ x = IF y > planLen(rec[loc[c].plan]) THEN "done" ELSE "running"
  BY DEF RunStates
<1>4. rec' = [rec EXCEPT ![i] = q] /\ launched' = launched
  BY DEF NextAfter
<1>5. x = "running" => y <= Work + 1
  <2>1. planLen(rec[loc[c].plan]) \in 1..(Work + 1)
    BY PlanLength
  <2> QED BY <1>2, <1>3, <2>1, Constants
<1> HIDE DEF x, y
<1>6. q \in Installs /\ Same(rec[i], q) /\ q.state = x /\ q.current = y /\ q.steps = rec[i].steps
  BY <1>1, <1>2, <1>3 DEF Installs, Same
<1> HIDE DEF q
<1> QED BY <1>3, <1>4, <1>5, <1>6 DEF Wrote, y

LEMMA CancelMarksWrites ==
    ASSUME Basic, NEW c \in Callers, NEW k \in Modules, CancelMarks(c, k)
    PROVE  /\ Known(installs[k]) /\ rec[installs[k]].mod = k
           /\ \E q : /\ Wrote(installs[k], q)
                     /\ q.state = "cancelled" /\ q.current = rec[installs[k]].current
                     /\ q.steps = rec[installs[k]].steps
<1> DEFINE i == installs[k]
           q == [rec[i] EXCEPT !.state = "cancelled"]
<1>1. Known(i) /\ rec[i].mod = k /\ rec[i] \in Installs
  BY DEF CancelMarks, mayCancel, Basic, MapRefs, Known
<1>2. rec' = [rec EXCEPT ![i] = q] /\ launched' = launched
  BY DEF CancelMarks
<1>3. q \in Installs /\ Same(rec[i], q) /\ q.state = "cancelled" /\ q.current = rec[i].current /\ q.steps = rec[i].steps
  BY <1>1 DEF Installs, Same, RunStates
<1> HIDE DEF q
<1> QED BY <1>1, <1>2, <1>3 DEF Wrote

LEMMA StepBeginsWrites ==
    ASSUME Basic, NEW p \in Procs, StepBegins(p)
    PROVE  \E q : /\ Wrote(loc[p].run, q)
                  /\ q.state = rec[loc[p].run].state /\ q.current = rec[loc[p].run].current
                  /\ q.steps = [rec[loc[p].run].steps EXCEPT ![loc[p].idx] = "active"]
<1> DEFINE i == loc[p].run
           t == [rec[i].steps EXCEPT ![loc[p].idx] = "active"]
           q == [rec[i] EXCEPT !.steps = t]
<1>1. rec[i] \in Installs /\ rec[i].steps \in StepLists
  BY Standing DEF StepBegins, Installs
<1>2. t \in StepLists
  BY <1>1, StepsSet DEF StepStates
<1>3. rec' = [rec EXCEPT ![i] = q] /\ launched' = launched
  BY DEF StepBegins
<1> HIDE DEF t
<1>4. q \in Installs /\ Same(rec[i], q) /\ q.state = rec[i].state /\ q.current = rec[i].current /\ q.steps = t
  BY <1>1, <1>2 DEF Installs, Same
<1> HIDE DEF q
<1> QED BY <1>3, <1>4 DEF Wrote, t

LEMMA StepEndsWrites ==
    ASSUME Basic, NEW p \in Procs, NEW outcome \in StepStates, StepEnds(p, outcome)
    PROVE  \E q : /\ Wrote(loc[p].run, q)
                  /\ outcome = "error" => q.state \in {"cancelled", "error"}
                  /\ outcome # "error" =>
                        /\ outcome \in {"done", "skipped"}
                        /\ q.state = IF loc[p].idx > Work THEN "done" ELSE rec[loc[p].run].state
                  /\ q.current = rec[loc[p].run].current
                  /\ q.steps = [rec[loc[p].run].steps EXCEPT ![loc[p].idx] = outcome]
<1> DEFINE i == loc[p].run
           t == [rec[i].steps EXCEPT ![loc[p].idx] = outcome]
           failed == outcome = "error"
           x == CASE failed /\ wasCancelled(p) -> "cancelled"
                  [] failed /\ ~wasCancelled(p) -> "error"
                  [] ~failed /\ kindOf(loc[p].idx) = "complete" -> "done"
                  [] OTHER -> rec[i].state
           q == [rec[i] EXCEPT !.steps = t, !.state = x]
<1>1. rec[i] \in Installs /\ rec[i].steps \in StepLists /\ rec[i].state \in RunStates
      /\ loc[p].idx \in 0..(Work + 1)
  BY Standing DEF StepEnds, Installs, Locals
<1>2. t \in StepLists
  BY <1>1, StepsSet
<1>3. rec' = [rec EXCEPT ![i] = q] /\ launched' = launched
  BY DEF StepEnds
<1>4. /\ x \in RunStates
      /\ failed => x \in {"cancelled", "error"}
      /\ ~failed => x = IF loc[p].idx > Work THEN "done" ELSE rec[i].state
  BY <1>1, Constants DEF RunStates, kindOf
<1>5. ~failed => outcome \in {"done", "skipped"}
  BY DEF StepEnds, outcomes
<1> HIDE DEF t, x
<1>6. q \in Installs /\ Same(rec[i], q) /\ q.state = x /\ q.current = rec[i].current /\ q.steps = t
  BY <1>1, <1>2, <1>4 DEF Installs, Same
<1> HIDE DEF q
<1> QED BY <1>3, <1>4, <1>5, <1>6 DEF Wrote, t

LEMMA RunFinishesWrites ==
    ASSUME Basic, NEW i \in Runs, RunFinishes(i)
    PROVE  \E q : /\ Wrote(i, q)
                  /\ q.state = "done" /\ q.current = rec[i].current /\ q.steps = rec[i].steps
<1> DEFINE q == [rec[i] EXCEPT !.state = "done"]
<1>1. rec[i] \in Installs
  BY RunnerIsProc, Standing DEF RunFinishes, Basic, Places, Stand
<1>2. rec' = [rec EXCEPT ![i] = q] /\ launched' = launched
  BY DEF RunFinishes
<1>3. q \in Installs /\ Same(rec[i], q) /\ q.state = "done" /\ q.current = rec[i].current /\ q.steps = rec[i].steps
  BY <1>1 DEF Installs, Same, RunStates
<1> HIDE DEF q
<1> QED BY <1>2, <1>3 DEF Wrote

LEMMA RunAfterWrites ==
    ASSUME Basic, NEW i \in Runs, RunAfter(i), rec[i].state = "running"
    PROVE  \E q : /\ Wrote(i, q)
                  /\ q.state = "running" /\ q.current = rec[i].current + 1
                  /\ q.steps = rec[i].steps
<1> DEFINE y == rec[i].current + 1
           q == [rec[i] EXCEPT !.current = y]
<1>1. rec[i] \in Installs
  BY RunnerIsProc, Standing DEF RunAfter, Basic, Places, Stand
<1>2. rec' = [rec EXCEPT ![i] = q] /\ launched' = launched
  BY DEF RunAfter
<1>3. y \in 1..(Work + 2)
  <2>1. rec[i].current <= Work + 1
    BY DEF RunAfter, Stepping, Basic, Bounded
  <2>2. rec[i].current \in 1..(Work + 2)
    BY <1>1 DEF Installs
  <2> QED BY <2>1, <2>2, Constants
<1> HIDE DEF y
<1>4. q \in Installs /\ Same(rec[i], q) /\ q.state = "running" /\ q.current = y /\ q.steps = rec[i].steps
  BY <1>1, <1>3 DEF Installs, Same
<1> HIDE DEF q
<1> QED BY <1>2, <1>4 DEF Wrote, y

LEMMA TerminateWrites ==
    ASSUME Basic, NEW p \in Procs, Terminate(p)
    PROVE  \E q : /\ Wrote(loc[p].run, q)
                  /\ q.state = "cancelled" /\ q.current = rec[loc[p].run].current
                  /\ DOMAIN q.steps = DOMAIN rec[loc[p].run].steps
<1> DEFINE i == loc[p].run
           t == failActive(rec[i].steps)
           q == [rec[i] EXCEPT !.state = "cancelled", !.steps = t]
<1>1. rec[i] \in Installs /\ rec[i].steps \in StepLists
  BY Standing DEF Terminate, Installs
<1>2. t \in StepLists /\ DOMAIN t = DOMAIN rec[i].steps
  BY <1>1, StepsFailed
<1>3. rec' = [rec EXCEPT ![i] = q] /\ launched' = launched
  BY DEF Terminate
<1> HIDE DEF t
<1>4. q \in Installs /\ Same(rec[i], q) /\ q.state = "cancelled" /\ q.current = rec[i].current /\ q.steps = t
  BY <1>1, <1>2 DEF Installs, Same, RunStates
<1> HIDE DEF q
<1> QED BY <1>2, <1>3, <1>4 DEF Wrote

(* Bounds after a write, when nobody takes up a step. *)
LEMMA BoundedWrite ==
    ASSUME Basic, NEW i \in Runs, Known(i), NEW q, Wrote(i, q),
           q.state = "running" /\ q.manual => q.current <= Work + 1,
           pc'[i] \in Stepping => q.current <= Work + 1,
           \A j \in Runs : j # i /\ pc'[j] \in Stepping => pc[j] \in Stepping
    PROVE  \A j \in Runs : Bounded(j)'
<1> SUFFICES ASSUME NEW j \in Runs PROVE Bounded(j)'
  OBVIOUS
<1>1. rec'[i] = q /\ (j # i => rec'[j] = rec[j])
  BY WroteOne
<1> QED BY <1>1 DEF Basic, Bounded

(* A record that keeps its step, or is not running any more, keeps its     *)
(* bound.                                                                  *)
LEMMA BoundStays ==
    ASSUME Basic, NEW i \in Runs, Known(i), NEW q, Wrote(i, q), q.current = rec[i].current,
           q.state = "running" => rec[i].state = "running"
    PROVE  q.state = "running" /\ q.manual => q.current <= Work + 1
BY DEF Basic, Bounded, Wrote, Same, Known

LEMMA BasicRegister ==
    ASSUME Basic, NEW c \in Callers, Register(c)
    PROVE  Basic'
<1>i. PICK i : i = loc[c].run
  OBVIOUS
<1>0. c \in Procs /\ c \notin Runs /\ pc[c] = "dial"
  BY CallerIsProc DEF Register
<1>1. Known(i) /\ i \in Runs /\ rec[i].mod \in Modules /\ rec[i] \in Installs
  BY <1>i, <1>0, Standing
<1>2. PICK q : /\ Wrote(i, q) /\ q.state = rec[i].state /\ q.current = rec[i].current
  BY <1>i, RegisterWrites
<1>3. Keeps /\ rec'[i] = q /\ q \in Installs /\ Same(rec[i], q)
  BY <1>1, <1>2, WroteOne DEF Wrote
<1>4. Save(i) /\ UNCHANGED <<installs, busy, cancelReq, cancelled, restarts, overlap>>
      /\ clients' = [clients EXCEPT ![rec[i].mod] = i]
      /\ plans' = [plans EXCEPT ![rec[i].mod] = i]
      /\ ssh' = [ssh EXCEPT ![i] = "open"]
  BY <1>i DEF Register
<1>5. cancels' \in [Modules -> Runs \cup {NoRun}]
  BY <1>i, <1>1 DEF Register, Basic, Others
<1>6. FileRefs(disk') /\ lost' \in 0..MaxFaults
  BY <1>1, <1>3, <1>4, SaveFiles
<1>7. MapRefs(installs', plans')
  BY <1>1, <1>4 DEF Basic, MapRefs
<1>8. Places(pc', loc') /\ \A j \in Runs : pc'[j] \in Stepping => pc[j] \in Stepping
  <2>1. CASE Goto(c, "rollback") /\ UNCHANGED loc
    <3>1. Stand(c, "rollback", loc[c]) /\ "rollback" \in PcSet
      BY <1>i, <1>0, <1>1 DEF Stand, Stepping, PcSet
    <3> QED BY <1>0, <2>1, <3>1, PlaceGoto, RunnerIsProc DEF Goto, Basic, Places
  <2>2. CASE ~rec[i].manual /\ pc' = [pc EXCEPT ![c] = "idle", ![i] = "loop"]
             /\ loc' = [loc EXCEPT ![c] = NoLocals, ![i] = Local(i, i, i, 0)]
    <3>1. NoLocals \in Locals
      BY Constants DEF NoLocals, Local, Locals
    <3>2. Local(i, i, i, 0) \in Locals /\ Local(i, i, i, 0).run = i /\ Local(i, i, i, 0).plan = i
      BY <1>1, Constants DEF Local, Locals
    <3>3. i \in Procs /\ i # c /\ i \notin Callers
      BY <1>0, <1>1, RunnerIsProc
    <3>4. Stand(c, "idle", NoLocals)
      BY <1>0 DEF Stand, Stepping
    <3>5. Stand(i, "loop", Local(i, i, i, 0))
      <4>1. Known(Local(i, i, i, 0).run)
        BY <1>1, <3>2
      <4> QED BY <2>2, <3>2, <3>3, <4>1 DEF Stand, Stepping
    <3>6. pc'[c] = "idle" /\ pc'[i] = "loop" /\ loc'[c] = NoLocals /\ loc'[i] = Local(i, i, i, 0)
      BY <1>0, <2>2, <3>3 DEF Basic, Places
    <3>7. \A p \in Procs : p # c /\ p # i => pc'[p] = pc[p] /\ loc'[p] = loc[p]
      BY <2>2 DEF Basic, Places
    <3>8. pc' \in [Procs -> PcSet] /\ loc' \in [Procs -> Locals]
      <4> HIDE DEF NoLocals, Local
      <4> QED BY <2>2, <3>1, <3>2 DEF Basic, Places, PcSet
    <3>9. \A p \in Procs : Stand(p, pc'[p], loc'[p])
      BY <3>4, <3>5, <3>6, <3>7 DEF Basic, Places
    <3>10. \A j \in Runs : pc'[j] \in Stepping => pc[j] \in Stepping
      BY <3>6, <3>7, <1>0, RunnerIsProc DEF Stepping
    <3> QED BY <3>8, <3>9, <3>10 DEF Places
  <2>3. CASE Return(c)
    BY <1>0, <2>3, PlaceReturn, RunnerIsProc DEF Return, Basic, Places
  <2>4. \/ Goto(c, "rollback") /\ UNCHANGED loc
        \/ ~rec[i].manual /\ pc' = [pc EXCEPT ![c] = "idle", ![i] = "loop"]
             /\ loc' = [loc EXCEPT ![c] = NoLocals, ![i] = Local(i, i, i, 0)]
        \/ Return(c)
    <3>1. CASE lost' # lost
      BY <3>1 DEF Register
    <3>2. CASE lost' = lost /\ ~rec[i].manual
      BY <1>i, <3>2 DEF Register
    <3>3. CASE lost' = lost /\ rec[i].manual
      <4>1. i # c /\ i \in Procs
        BY <1>0, <1>1, RunnerIsProc
      <4>2. pc' = [pc EXCEPT ![c] = "idle", ![i] = pc[i]]
            /\ loc' = [loc EXCEPT ![c] = NoLocals, ![i] = loc[i]]
        BY <1>i, <3>3, <4>1 DEF Register, Basic, Places
      <4>3. pc' = [pc EXCEPT ![c] = "idle"]
        BY <1>0, <4>1, <4>2 DEF Basic, Places
      <4>4. ASSUME NEW l, loc' = [loc EXCEPT ![c] = l, ![i] = loc[i]]
            PROVE  loc' = [loc EXCEPT ![c] = l]
        BY <1>0, <4>1, <4>4 DEF Basic, Places
      <4> QED BY <4>2, <4>3, <4>4 DEF Return
    <3> QED BY <3>1, <3>2, <3>3
  <2> QED BY <2>1, <2>2, <2>3, <2>4
<1>9. \A j \in Runs : Bounded(j)'
  <2>1. q.state = "running" /\ q.manual => q.current <= Work + 1
    BY <1>1, <1>2, BoundStays
  <2>2. pc'[i] \in Stepping => q.current <= Work + 1
    BY <1>1, <1>2, <1>8 DEF Basic, Bounded
  <2> QED BY <1>1, <1>2, <1>8, <2>1, <2>2, BoundedWrite
<1>10. Others' /\ Counts'
  <2>1. Others'
    BY <1>1, <1>4, <1>5 DEF Basic, Others
  <2>2. Counts'
    BY <1>3, <1>4, <1>6 DEF Basic, Counts, Keeps
  <2> QED BY <2>1, <2>2
<1> QED BY <1>3, <1>6, <1>7, <1>8, <1>9, <1>10, Assembled

(* The claims and cancellations. *)
LEMMA BasicClaim ==
    ASSUME Basic, NEW c \in Callers, NEW k \in Modules, NextClaim(c, k)
    PROVE  Basic'
<1>i. PICK i : i = installs[k]
  OBVIOUS
<1>0. c \in Procs /\ c \notin Runs /\ pc[c] = "idle"
  BY CallerIsProc DEF NextClaim
<1>1. Known(i) /\ i \in Runs /\ rec[i] \in Installs /\ rec[i].manual /\ Known(plans[k]) /\ plans[k] \in Runs
  BY <1>i DEF NextClaim, Basic, MapRefs, Known
<1> DEFINE l == Local(i, plans[k], clients[k], rec[i].current)
<1>2. l \in Locals /\ l.run = i /\ l.plan = plans[k]
  <2>1. rec[i].current \in 0..(Work + 1)
    <3>1. planLen(rec[plans[k]]) \in 1..(Work + 1)
      BY PlanLength
    <3>2. rec[i].current \in 1..(Work + 2)
      BY <1>1 DEF Installs
    <3> QED BY <1>i, <3>1, <3>2, Constants DEF NextClaim
  <2>2. clients[k] \in Runs \cup {NoRun}
    BY DEF Basic, Others
  <2> QED BY <1>1, <2>1, <2>2 DEF Local, Locals
<1>3. pc' = [pc EXCEPT ![c] = "begin"] /\ loc' = [loc EXCEPT ![c] = l]
  BY <1>i DEF NextClaim, Goto
<1> HIDE DEF l
<1>4. Stand(c, "begin", l) /\ "begin" \in PcSet
  BY <1>0, <1>1, <1>2 DEF Stand, PcSet
<1>5. Places(pc', loc')
  BY <1>0, <1>2, <1>3, <1>4, PlaceSet
<1>6. \A j \in Runs : Bounded(j)'
  <2>1. \A j \in Runs : pc'[j] = pc[j]
    BY <1>0, <1>3, RunnerIsProc DEF Basic, Places
  <2> QED BY <2>1, BoundedKept DEF NextClaim
<1>7. Keeps
  BY KeepsAll DEF NextClaim
<1>8. Others' /\ Counts'
  BY DEF NextClaim, Basic, Others, Counts
<1>9. MapRefs(installs', plans') /\ FileRefs(disk')
  BY DEF NextClaim, Basic, MapRefs, FileRefs
<1> QED BY <1>5, <1>6, <1>7, <1>8, <1>9, Assembled

LEMMA BasicCancel ==
    ASSUME Basic, NEW c \in Callers, NEW k \in Modules, CancelAuto(c, k) \/ CancelFlags(c, k)
    PROVE  Basic'
<1>1. UNCHANGED <<installs, plans, cancels, clients, busy, rec, disk, ssh, pc, loc, launched, lost, restarts>>
  BY DEF CancelAuto, CancelFlags, maps
<1>2. overlap' \in BOOLEAN /\ cancelReq' \in [Modules -> BOOLEAN] /\ cancelled' \subseteq Runs
  BY DEF CancelAuto, CancelFlags, maps, Basic, Others
<1>3. \A j \in Runs : Bounded(j)'
  BY <1>1, BoundedKept
<1>4. Keeps
  BY <1>1, KeepsAll
<1>5. Others' /\ Counts'
  BY <1>1, <1>2 DEF Basic, Others, Counts
<1>6. MapRefs(installs', plans') /\ FileRefs(disk') /\ Places(pc', loc')
  BY <1>1 DEF Basic, MapRefs, FileRefs, Places
<1> QED BY <1>3, <1>4, <1>5, <1>6, Assembled

LEMMA BasicMarks ==
    ASSUME Basic, NEW c \in Callers, NEW k \in Modules, CancelMarks(c, k)
    PROVE  Basic'
<1>i. PICK i : i = installs[k]
  OBVIOUS
<1>0. c \in Procs /\ c \notin Runs /\ pc[c] = "idle"
  BY CallerIsProc DEF CancelMarks
<1>1. Known(i) /\ i \in Runs
  BY <1>i, CancelMarksWrites DEF Known
<1>2. PICK q : Wrote(i, q) /\ q.state = "cancelled" /\ q.current = rec[i].current
  BY <1>i, CancelMarksWrites
<1> DEFINE l == Local(i, NoRun, clients[k], 0)
<1>3. l \in Locals /\ l.run = i
  <2>1. clients[k] \in Runs \cup {NoRun}
    BY DEF Basic, Others
  <2> QED BY <1>1, <2>1, Constants DEF Local, Locals
<1>4. pc' = [pc EXCEPT ![c] = "terminate"] /\ loc' = [loc EXCEPT ![c] = l]
  BY <1>i DEF CancelMarks, Goto
<1> HIDE DEF l
<1>5. Stand(c, "terminate", l) /\ "terminate" \in PcSet
  BY <1>0, <1>1, <1>3 DEF Stand, PcSet, Stepping
<1>6. Places(pc', loc')
  BY <1>0, <1>3, <1>4, <1>5, PlaceSet
<1>7. \A j \in Runs : Bounded(j)'
  <2>1. \A j \in Runs : pc'[j] = pc[j]
    BY <1>0, <1>4, RunnerIsProc DEF Basic, Places
  <2>2. pc'[i] \in Stepping => q.current <= Work + 1
    BY <1>1, <1>2, <2>1 DEF Basic, Bounded
  <2> QED BY <1>1, <1>2, <2>1, <2>2, BoundedWrite
<1>8. Keeps
  BY <1>1, <1>2, WroteOne
<1>9. Others' /\ Counts'
  BY DEF CancelMarks, maps, Basic, Others, Counts
<1>10. MapRefs(installs', plans') /\ FileRefs(disk')
  BY DEF CancelMarks, maps, Basic, MapRefs, FileRefs
<1> QED BY <1>6, <1>7, <1>8, <1>9, <1>10, Assembled

(* A process at work on its run writes the record, or not, and moves on.   *)
LEMMA BasicNextAfter ==
    ASSUME Basic, NEW c \in Callers, NextAfter(c)
    PROVE  Basic'
<1>i. PICK i : i = loc[c].run
  OBVIOUS
<1>0. c \in Procs /\ c \notin Runs /\ pc[c] = "after"
  BY CallerIsProc DEF NextAfter
<1>1. Known(i) /\ i \in Runs /\ rec[i].mod \in Modules /\ rec[i] \in Installs
  BY <1>i, <1>0, Standing
<1>2. UNCHANGED <<installs, cancels, clients, plans, cancelled, ssh, launched, restarts, overlap>>
  BY DEF NextAfter
<1>3. busy' = [busy EXCEPT ![rec[i].mod] = FALSE] /\ cancelReq' = [cancelReq EXCEPT ![rec[i].mod] = FALSE]
  BY <1>i DEF NextAfter
<1>4. Places(pc', loc') /\ \A j \in Runs : pc'[j] = pc[j]
  <2>1. ASSUME NEW x \in {"terminate", "cleanup"}, Goto(c, x), UNCHANGED loc
        PROVE  Places(pc', loc') /\ \A j \in Runs : pc'[j] = pc[j]
    <3>1. Stand(c, x, loc[c]) /\ x \in PcSet
      BY <1>i, <1>0, <1>1, <2>1 DEF Stand, Stepping, PcSet
    <3> QED BY <1>0, <2>1, <3>1, PlaceGoto, RunnerIsProc DEF Goto, Basic, Places
  <2>2. CASE Return(c)
    BY <1>0, <2>2, PlaceReturn, RunnerIsProc DEF Return, Basic, Places
  <2>3. \/ Goto(c, "terminate") /\ UNCHANGED loc
        \/ Goto(c, "cleanup") /\ UNCHANGED loc
        \/ Return(c)
    BY DEF NextAfter
  <2> QED BY <2>1, <2>2, <2>3
<1>5. CASE ~cancelReq[rec[i].mod] /\ rec[i].state = "running"
  <2>1. PICK q : Wrote(i, q) /\ (q.state = "running" => q.current <= Work + 1)
    BY <1>i, <1>5, NextAfterWrites
  <2>2. Keeps /\ rec'[i] = q /\ q \in Installs /\ Same(rec[i], q)
    BY <1>1, <2>1, WroteOne DEF Wrote
  <2>3. Save(i)
    BY <1>i, <1>5 DEF NextAfter
  <2>4. FileRefs(disk') /\ lost' \in 0..MaxFaults
    BY <1>1, <2>2, <2>3, SaveFiles
  <2>5. \A j \in Runs : Bounded(j)'
    <3>1. pc[i] \notin Stepping
      <4>1. rec[i].manual
        BY <1>i, <1>0 DEF Basic, Places, Stand, Stepping
      <4> QED BY <1>1, <4>1, RunnerIsProc DEF Basic, Places, Stand, Stepping
    <3> QED BY <1>1, <1>4, <2>1, <3>1, BoundedWrite
  <2>6. Others' /\ Counts'
    BY <1>2, <1>3, <2>4 DEF Basic, Others, Counts
  <2>7. MapRefs(installs', plans')
    BY <1>2 DEF Basic
  <2> QED BY <1>4, <2>2, <2>4, <2>5, <2>6, <2>7, Assembled
<1>6. CASE ~(~cancelReq[rec[i].mod] /\ rec[i].state = "running")
  <2>1. UNCHANGED <<rec, disk, lost>>
    BY <1>i, <1>6 DEF NextAfter
  <2>2. Keeps
    BY <1>2, <2>1, KeepsAll
  <2>3. \A j \in Runs : Bounded(j)'
    BY <1>4, <2>1, BoundedKept
  <2>4. Others' /\ Counts'
    BY <1>2, <1>3, <2>1 DEF Basic, Others, Counts
  <2>5. MapRefs(installs', plans') /\ FileRefs(disk')
    BY <1>2, <2>1 DEF Basic
  <2> QED BY <1>4, <2>2, <2>3, <2>4, <2>5, Assembled
<1> QED BY <1>5, <1>6

LEMMA BasicStep ==
    ASSUME Basic, NEW p \in Procs, StepBegins(p) \/ Terminate(p)
    PROVE  Basic'
<1>i. PICK i : i = loc[p].run
  OBVIOUS
<1>0. pc[p] \in {"begin", "terminate"}
  BY DEF StepBegins, Terminate
<1>1. Known(i) /\ i \in Runs /\ rec[i].mod \in Modules /\ rec[i] \in Installs
  BY <1>i, <1>0, Standing
<1>2. PICK q : /\ Wrote(i, q) /\ q.current = rec[i].current
               /\ q.state = "running" => rec[i].state = "running"
  BY <1>i, StepBeginsWrites, TerminateWrites
<1>3. Keeps /\ rec'[i] = q /\ q \in Installs /\ Same(rec[i], q)
  BY <1>1, <1>2, WroteOne DEF Wrote
<1>4. Save(i) /\ UNCHANGED <<maps, cancelled, ssh, loc, launched, restarts, overlap>>
  BY <1>i DEF StepBegins, Terminate
<1>5. FileRefs(disk') /\ lost' \in 0..MaxFaults
  BY <1>1, <1>3, <1>4, SaveFiles
<1>6. PICK x \in {"exec", "cleanup"} : Goto(p, x) /\ (x = "exec" => pc[p] = "begin")
  BY DEF StepBegins, Terminate
<1>7. Places(pc', loc')
  <2>1. Stand(p, pc[p], loc[p])
    BY DEF Basic, Places
  <2>2. Stand(p, x, loc[p]) /\ x \in PcSet
    BY <1>0, <1>6, <2>1 DEF Stand, Stepping, PcSet
  <2> QED BY <1>4, <1>6, <2>2, PlaceGoto
<1>8. \A j \in Runs : Bounded(j)'
  <2>1. \A j \in Procs : pc'[j] \in Stepping => pc[j] \in Stepping
    BY <1>6 DEF Goto, Stepping, Basic, Places
  <2>2. \A j \in Runs : pc'[j] \in Stepping => pc[j] \in Stepping
    BY <2>1, RunnerIsProc
  <2>3. q.state = "running" /\ q.manual => q.current <= Work + 1
    BY <1>1, <1>2, BoundStays
  <2>4. pc'[i] \in Stepping => q.current <= Work + 1
    BY <1>1, <1>2, <2>2 DEF Basic, Bounded
  <2> QED BY <1>1, <1>2, <2>2, <2>3, <2>4, BoundedWrite
<1>9. Others' /\ Counts'
  BY <1>4, <1>5 DEF maps, Basic, Others, Counts
<1>10. MapRefs(installs', plans')
  BY <1>4 DEF maps, Basic
<1> QED BY <1>3, <1>5, <1>7, <1>8, <1>9, <1>10, Assembled

LEMMA BasicPanics ==
    ASSUME Basic, NEW c \in Callers, StepPanics(c)
    PROVE  Basic'
<1>0. c \in Procs /\ c \notin Runs
  BY CallerIsProc
<1>1. UNCHANGED <<maps, rec, disk, cancelled, ssh, launched, lost, restarts, overlap>> /\ Return(c)
  BY DEF StepPanics
<1>2. Places(pc', loc') /\ \A j \in Runs : pc'[j] = pc[j]
  BY <1>0, <1>1, PlaceReturn, RunnerIsProc DEF Return, Basic, Places
<1>3. \A j \in Runs : Bounded(j)'
  BY <1>1, <1>2, BoundedKept
<1>4. Keeps
  BY <1>1, KeepsAll
<1>5. Others' /\ Counts' /\ MapRefs(installs', plans') /\ FileRefs(disk')
  BY <1>1 DEF maps, Basic, Others, Counts
<1> QED BY <1>2, <1>3, <1>4, <1>5, Assembled

LEMMA BasicEnds ==
    ASSUME Basic, NEW p \in Procs, NEW outcome \in StepStates, StepEnds(p, outcome)
    PROVE  Basic'
<1>i. PICK i : i = loc[p].run
  OBVIOUS
<1>0. pc[p] = "exec"
  BY DEF StepEnds
<1>1. Known(i) /\ i \in Runs /\ rec[i].mod \in Modules /\ rec[i] \in Installs
  BY <1>i, <1>0, Standing
<1>2. PICK q : /\ Wrote(i, q) /\ q.current = rec[i].current
               /\ q.state = "running" => rec[i].state = "running"
  BY <1>i, StepEndsWrites
<1>3. Keeps /\ rec'[i] = q /\ q \in Installs /\ Same(rec[i], q)
  BY <1>1, <1>2, WroteOne DEF Wrote
<1>4. UNCHANGED <<cancels, clients, plans, busy, cancelReq, cancelled, ssh, loc, launched, restarts>>
  BY DEF StepEnds
<1>5. /\ FileRefs(disk') /\ lost' \in 0..MaxFaults /\ overlap' \in BOOLEAN
      /\ installs' \in [Modules -> Runs \cup {NoRun}]
      /\ \A k \in Modules : installs'[k] \in {installs[k], NoRun}
  <2>1. CASE outcome = "error"
    <3>1. Save(i) /\ UNCHANGED <<installs, overlap>>
      BY <1>i, <2>1 DEF StepEnds
    <3> QED BY <1>1, <1>3, <3>1, SaveFiles DEF Basic, MapRefs, Counts
  <2>2. CASE outcome # "error"
    <3>1. SaveAndCascade(i)
      BY <1>i, <2>2 DEF StepEnds
    <3> QED BY <1>1, <1>3, <3>1, CascadeFiles
  <2> QED BY <2>1, <2>2
<1>6. PICK x \in {"cleanup", "after"} : Goto(p, x)
  BY DEF StepEnds
<1>7. Places(pc', loc')
  <2>1. Stand(p, pc[p], loc[p])
    BY DEF Basic, Places
  <2>2. Stand(p, x, loc[p]) /\ x \in PcSet
    BY <1>0, <1>6, <2>1 DEF Stand, Stepping, PcSet
  <2> QED BY <1>4, <1>6, <2>2, PlaceGoto
<1>8. \A j \in Runs : Bounded(j)'
  <2>1. \A j \in Procs : pc'[j] \in Stepping => pc[j] \in Stepping
    BY <1>0, <1>6 DEF Goto, Stepping, Basic, Places
  <2>2. \A j \in Runs : pc'[j] \in Stepping => pc[j] \in Stepping
    BY <2>1, RunnerIsProc
  <2>3. q.state = "running" /\ q.manual => q.current <= Work + 1
    BY <1>1, <1>2, BoundStays
  <2>4. pc'[i] \in Stepping => q.current <= Work + 1
    BY <1>1, <1>2, <2>2 DEF Basic, Bounded
  <2> QED BY <1>1, <1>2, <2>2, <2>3, <2>4, BoundedWrite
<1>9. Others' /\ Counts'
  BY <1>4, <1>5 DEF Basic, Others, Counts
<1>10. MapRefs(installs', plans')
  BY <1>4, <1>5 DEF Basic, MapRefs
<1> QED BY <1>3, <1>5, <1>7, <1>8, <1>9, <1>10, Assembled

(* The runner's own steps. *)
LEMMA BasicRunner ==
    ASSUME Basic, NEW i \in Runs, Runner(i)
    PROVE  Basic'
<1>0. i \in Procs /\ i \notin Callers /\ pc[i] \in {"loop", "after"} /\ Stand(i, pc[i], loc[i])
  BY RunnerIsProc DEF Runner, RunStops, RunContinues, RunFinishes, RunAfter, Basic, Places
<1>1. loc[i].run = i /\ loc[i].plan = i /\ ~rec[i].manual /\ Known(i) /\ rec[i] \in Installs /\ rec[i].mod \in Modules
  BY <1>0, Standing DEF Stand
<1>2. \A j \in Runs : j # i => pc' = [pc EXCEPT ![i] = pc'[i]]
  BY DEF Runner, RunStops, RunContinues, RunFinishes, RunAfter, Goto
<1>3. \A j \in Runs : j # i => pc'[j] = pc[j]
  BY <1>2, RunnerIsProc DEF Basic, Places
<1>4. CASE RunStops(i)
  <2>1. UNCHANGED <<maps, rec, disk, cancelled, ssh, loc, launched, lost, restarts, overlap>>
        /\ Goto(i, "terminate")
    BY <1>4 DEF RunStops
  <2>2. Stand(i, "terminate", loc[i]) /\ "terminate" \in PcSet
    BY <1>0 DEF Stand, Stepping, PcSet
  <2>3. Places(pc', loc')
    BY <1>0, <2>1, <2>2, PlaceGoto
  <2>4. pc'[i] = "terminate"
    BY <1>0, <2>1 DEF Goto, Basic, Places
  <2>5. \A j \in Runs : Bounded(j)'
    BY <1>3, <2>1, <2>4, BoundedKept DEF Stepping
  <2>6. Keeps
    BY <2>1, KeepsAll
  <2>7. Others' /\ Counts' /\ MapRefs(installs', plans') /\ FileRefs(disk')
    BY <2>1 DEF maps, Basic, Others, Counts
  <2> QED BY <2>3, <2>5, <2>6, <2>7, Assembled
<1>5. CASE RunContinues(i)
  <2> DEFINE l == [loc[i] EXCEPT !.idx = rec[i].current]
  <2>0. rec[i].current <= Work + 1 /\ rec[i].current \in 0..(Work + 1)
    <3>1. planLen(rec[i]) \in 1..(Work + 1) /\ rec[i].current \in 1..(Work + 2)
      BY <1>1, PlanLength DEF Installs
    <3> QED BY <1>5, <3>1, Constants DEF RunContinues
  <2>1. UNCHANGED <<maps, rec, disk, cancelled, ssh, launched, lost, restarts, overlap>>
        /\ pc' = [pc EXCEPT ![i] = "begin"]
    BY <1>5 DEF RunContinues, Goto
  <2>2. loc' = [loc EXCEPT ![i] = l]
    BY <1>5 DEF RunContinues
  <2>3. l \in Locals /\ l.run = i /\ l.plan = loc[i].plan
    BY <1>0, <1>1, <2>0, Standing DEF Locals
  <2> HIDE DEF l
  <2>4. Known(l.plan)
    BY <1>1, <2>3
  <2>5. Stand(i, "begin", l) /\ "begin" \in PcSet
    BY <1>0, <1>1, <2>3, <2>4 DEF Stand, PcSet
  <2>6. Places(pc', loc')
    BY <1>0, <2>1, <2>2, <2>3, <2>5, PlaceSet
  <2>7. \A j \in Runs : Bounded(j)'
    BY <1>3, <2>0, <2>1, BoundedKept
  <2>8. Keeps
    BY <2>1, KeepsAll
  <2>9. Others' /\ Counts' /\ MapRefs(installs', plans') /\ FileRefs(disk')
    BY <2>1 DEF maps, Basic, Others, Counts
  <2> QED BY <2>6, <2>7, <2>8, <2>9, Assembled
<1>6. CASE RunFinishes(i)
  <2>1. PICK q : Wrote(i, q) /\ q.state = "done" /\ q.current = rec[i].current
    BY <1>6, RunFinishesWrites
  <2>2. Keeps /\ rec'[i] = q /\ q \in Installs /\ Same(rec[i], q)
    BY <1>1, <2>1, WroteOne DEF Wrote
  <2>3. UNCHANGED <<cancels, clients, plans, busy, cancelReq, cancelled, ssh, loc, launched, restarts>>
        /\ Goto(i, "cleanup") /\ SaveAndCascade(i)
    BY <1>6 DEF RunFinishes
  <2>4. /\ FileRefs(disk') /\ lost' \in 0..MaxFaults /\ overlap' \in BOOLEAN
        /\ installs' \in [Modules -> Runs \cup {NoRun}]
        /\ \A k \in Modules : installs'[k] \in {installs[k], NoRun}
    BY <1>1, <2>2, <2>3, CascadeFiles
  <2>5. Stand(i, "cleanup", loc[i]) /\ "cleanup" \in PcSet
    BY <1>0 DEF Stand, Stepping, PcSet
  <2>6. Places(pc', loc')
    BY <1>0, <2>3, <2>5, PlaceGoto
  <2>7. pc'[i] = "cleanup"
    BY <1>0, <2>3 DEF Goto, Basic, Places
  <2>8. \A j \in Runs : Bounded(j)'
    BY <1>1, <1>3, <2>1, <2>7, BoundedWrite DEF Stepping
  <2>9. Others' /\ Counts'
    BY <2>3, <2>4 DEF Basic, Others, Counts
  <2>10. MapRefs(installs', plans')
    BY <2>3, <2>4 DEF Basic, MapRefs
  <2> QED BY <2>2, <2>4, <2>6, <2>8, <2>9, <2>10, Assembled
<1>7. CASE RunAfter(i) /\ rec[i].state = "running"
  <2>1. PICK q : Wrote(i, q)
    BY <1>7, RunAfterWrites
  <2>2. Keeps /\ rec'[i] = q /\ q \in Installs /\ Same(rec[i], q)
    BY <1>1, <2>1, WroteOne DEF Wrote
  <2>3. UNCHANGED <<maps, cancelled, ssh, loc, launched, restarts, overlap>>
        /\ Goto(i, "loop") /\ Save(i)
    BY <1>7 DEF RunAfter
  <2>4. FileRefs(disk') /\ lost' \in 0..MaxFaults
    BY <1>1, <2>2, <2>3, SaveFiles
  <2>5. Stand(i, "loop", loc[i]) /\ "loop" \in PcSet
    BY <1>0 DEF Stand, Stepping, PcSet
  <2>6. Places(pc', loc')
    BY <1>0, <2>3, <2>5, PlaceGoto
  <2>7. pc'[i] = "loop" /\ ~q.manual
    BY <1>0, <1>1, <2>2, <2>3 DEF Goto, Basic, Places, Same
  <2>8. \A j \in Runs : Bounded(j)'
    BY <1>1, <1>3, <2>1, <2>7, BoundedWrite DEF Stepping
  <2>9. Others' /\ Counts' /\ MapRefs(installs', plans')
    BY <2>3, <2>4 DEF maps, Basic, Others, Counts
  <2> QED BY <2>2, <2>4, <2>6, <2>8, <2>9, Assembled
<1>8. CASE RunAfter(i) /\ rec[i].state # "running"
  <2>1. UNCHANGED <<maps, rec, disk, cancelled, ssh, loc, launched, lost, restarts, overlap>>
        /\ Goto(i, "cleanup")
    BY <1>8 DEF RunAfter
  <2>2. Stand(i, "cleanup", loc[i]) /\ "cleanup" \in PcSet
    BY <1>0 DEF Stand, Stepping, PcSet
  <2>3. Places(pc', loc')
    BY <1>0, <2>1, <2>2, PlaceGoto
  <2>4. pc'[i] = "cleanup"
    BY <1>0, <2>1 DEF Goto, Basic, Places
  <2>5. \A j \in Runs : Bounded(j)'
    BY <1>3, <2>1, <2>4, BoundedKept DEF Stepping
  <2>6. Keeps
    BY <2>1, KeepsAll
  <2>7. Others' /\ Counts' /\ MapRefs(installs', plans') /\ FileRefs(disk')
    BY <2>1 DEF maps, Basic, Others, Counts
  <2> QED BY <2>3, <2>5, <2>6, <2>7, Assembled
<1> QED BY <1>4, <1>5, <1>6, <1>7, <1>8 DEF Runner

LEMMA CleanupMaps ==
    ASSUME Basic, NEW p \in Procs, Cleanup(p)
    PROVE  LET i == loc[p].run
               k == rec[i].mod
           IN  /\ UNCHANGED <<installs, rec, disk, launched, lost, restarts, overlap>>
               /\ Close(loc[p].client) /\ Return(p) /\ pc[p] = "cleanup"
               /\ cancelled \subseteq cancelled' /\ cancelled' \subseteq Runs
               /\ installs[k] # i => UNCHANGED <<cancels, clients, plans, busy, cancelReq>>
               /\ installs[k] = i => /\ cancels' = [cancels EXCEPT ![k] = NoRun]
                                     /\ clients' = [clients EXCEPT ![k] = NoRun]
                                     /\ plans' = [plans EXCEPT ![k] = NoRun]
                                     /\ busy' = [busy EXCEPT ![k] = FALSE]
                                     /\ cancelReq' = [cancelReq EXCEPT ![k] = FALSE]
BY DEF Cleanup, Basic, Others

LEMMA BasicCleanup ==
    ASSUME Basic, NEW p \in Procs, Cleanup(p)
    PROVE  Basic'
<1>i. PICK i : i = loc[p].run
  OBVIOUS
<1>k. PICK k : k = rec[i].mod
  OBVIOUS
<1>0. /\ UNCHANGED <<installs, rec, disk, launched, lost, restarts, overlap>>
      /\ Close(loc[p].client) /\ Return(p) /\ pc[p] = "cleanup"
      /\ cancelled' \subseteq Runs
      /\ installs[k] # i => UNCHANGED <<cancels, clients, plans, busy, cancelReq>>
      /\ installs[k] = i => /\ cancels' = [cancels EXCEPT ![k] = NoRun]
                            /\ clients' = [clients EXCEPT ![k] = NoRun]
                            /\ plans' = [plans EXCEPT ![k] = NoRun]
                            /\ busy' = [busy EXCEPT ![k] = FALSE]
                            /\ cancelReq' = [cancelReq EXCEPT ![k] = FALSE]
  BY <1>i, <1>k, CleanupMaps
<1>1. Known(i) /\ i \in Runs /\ k \in Modules /\ loc[p] \in Locals
  BY <1>i, <1>k, <1>0, Standing
<1>2. ssh' \in [Runs -> {"none", "open", "closed", "closed twice"}]
  BY <1>0, <1>1, Closes DEF Locals
<1>3. Places(pc', loc')
  BY <1>0, PlaceReturn
<1>4. \A j \in Procs : pc'[j] \in Stepping => pc[j] \in Stepping
  BY <1>0 DEF Return, Stepping, Basic, Places
<1>5. \A j \in Runs : Bounded(j)'
  BY <1>0, <1>4, RunnerIsProc, BoundedKept
<1>6. Keeps
  BY <1>0, KeepsAll
<1>7. Others'
  BY <1>0, <1>1, <1>2 DEF Basic, Others
<1>8. Counts' /\ FileRefs(disk')
  BY <1>0 DEF Basic, Counts
<1>9. MapRefs(installs', plans')
  <2>1. \A m \in Modules : plans'[m] \in {plans[m], NoRun}
    BY <1>0, <1>1 DEF Basic, MapRefs
  <2>2. plans' \in [Modules -> Runs \cup {NoRun}]
    BY <1>0, <1>1 DEF Basic, MapRefs
  <2> QED BY <1>0, <2>1, <2>2 DEF Basic, MapRefs
<1> QED BY <1>3, <1>5, <1>6, <1>7, <1>8, <1>9, Assembled

(* A record read back is an ended run's. *)
LEMMA Rehydrates ==
    ASSUME NEW r \in Installs
    PROVE  /\ rehydrated(r) \in Installs /\ Same(r, rehydrated(r))
           /\ rehydrated(r).state # "running"
           /\ rehydrated(r).state = "done" => rehydrated(r) = r
<1>1. CASE r.state # "running"
  BY <1>1 DEF rehydrated, Same
<1>2. CASE r.state = "running"
  <2> DEFINE t == failActive(r.steps)
             q == [r EXCEPT !.state = "error", !.steps = t]
  <2>1. rehydrated(r) = q
    BY <1>2 DEF rehydrated
  <2>2. t \in StepLists
    BY StepsFailed DEF Installs
  <2> HIDE DEF t
  <2>3. q \in Installs /\ Same(r, q) /\ q.state = "error"
    BY <2>2 DEF Installs, Same, RunStates
  <2> HIDE DEF q
  <2> QED BY <2>1, <2>3
<1> QED BY <1>1, <1>2

LEMMA RehydratesNone == rehydrated(NoInstall) = NoInstall
BY DEF rehydrated, NoInstall

(* After a restart every map names the run of its module's file, and every *)
(* record is the one of its file.                                          *)
LEMMA Restarted ==
    ASSUME Basic, Restart
    PROVE  /\ rec' \in [Runs -> Installs \cup {NoInstall}]
           /\ disk' \in [Modules -> Files]
           /\ \A k \in Modules : /\ installs'[k] = disk[k].run
                                 /\ disk'[k].run = disk[k].run
                                 /\ disk'[k].rec = rehydrated(disk[k].rec)
           /\ \A k \in Modules : disk[k].run # NoRun =>
                 disk[k].run \in Runs /\ rec'[disk[k].run] = rehydrated(disk[k].rec)
           /\ \A i \in Runs : \/ rec'[i] = NoInstall
                              \/ \E k \in Modules : disk[k].run = i /\ rec'[i] = rehydrated(disk[k].rec)
           /\ \A p \in Procs : pc'[p] = "idle" /\ loc'[p] = NoLocals
<1> USE DEF Basic
<1>1. \A k \in Modules : disk[k] \in Files
  BY DEF FileRefs
<1>2. \A k \in Modules : rehydrated(disk[k].rec) \in Installs \cup {NoInstall}
  BY <1>1, Rehydrates, RehydratesNone DEF Files
<1>3. \A k \in Modules : disk'[k] = [disk[k] EXCEPT !.rec = rehydrated(disk[k].rec)]
  BY DEF Restart
<1>4. \A k \in Modules : /\ disk'[k] \in Files
                         /\ disk'[k].run = disk[k].run
                         /\ disk'[k].rec = rehydrated(disk[k].rec)
  BY <1>1, <1>2, <1>3 DEF Files
<1>5. disk' \in [Modules -> Files]
  BY <1>4 DEF Restart
<1>7. \A i \in Runs : rec'[i] = IF \E k \in Modules : disk[k].run = i
                               THEN rehydrated(disk[CHOOSE k \in Modules : disk[k].run = i].rec)
                               ELSE NoInstall
  BY DEF Restart
<1>8. \A i \in Runs : \/ rec'[i] = NoInstall /\ \A k \in Modules : disk[k].run # i
                      \/ \E k \in Modules : disk[k].run = i /\ rec'[i] = rehydrated(disk[k].rec)
  BY <1>7
<1>9. rec' \in [Runs -> Installs \cup {NoInstall}]
  <2>1. \A i \in Runs : rec'[i] \in Installs \cup {NoInstall}
    BY <1>2, <1>8
  <2> QED BY <2>1 DEF Restart
<1>10. ASSUME NEW k \in Modules, disk[k].run # NoRun
       PROVE  disk[k].run \in Runs /\ rec'[disk[k].run] = rehydrated(disk[k].rec)
  <2>1. disk[k].run \in Runs
    BY <1>10 DEF FileRefs, Known
  <2>2. PICK j \in Modules : disk[j].run = disk[k].run /\ rec'[disk[k].run] = rehydrated(disk[j].rec)
    BY <1>8, <2>1
  <2>3. j = k
    BY <1>10, <2>2 DEF FileRefs
  <2> QED BY <2>1, <2>2, <2>3
<1>11. \A k \in Modules : installs'[k] = disk[k].run
  BY DEF Restart
<1>12. \A p \in Procs : pc'[p] = "idle" /\ loc'[p] = NoLocals
  BY DEF Restart
<1> QED BY <1>4, <1>5, <1>8, <1>9, <1>10, <1>11, <1>12

LEMMA BasicRestart == ASSUME Basic, Restart PROVE Basic'
<1>1. /\ rec' \in [Runs -> Installs \cup {NoInstall}]
      /\ disk' \in [Modules -> Files]
      /\ \A k \in Modules : /\ installs'[k] = disk[k].run
                            /\ disk'[k].run = disk[k].run
                            /\ disk'[k].rec = rehydrated(disk[k].rec)
      /\ \A k \in Modules : disk[k].run # NoRun =>
            disk[k].run \in Runs /\ rec'[disk[k].run] = rehydrated(disk[k].rec)
      /\ \A i \in Runs : \/ rec'[i] = NoInstall
                         \/ \E k \in Modules : disk[k].run = i /\ rec'[i] = rehydrated(disk[k].rec)
      /\ \A p \in Procs : pc'[p] = "idle" /\ loc'[p] = NoLocals
  BY Restarted
<1>2. UNCHANGED <<launched, lost, overlap>> /\ \A k \in Modules : plans'[k] = NoRun
  BY DEF Restart
<1>3. \A k \in Modules : disk[k].run # NoRun =>
         /\ disk[k].run \in Runs /\ disk[k].run <= launched
         /\ rehydrated(disk[k].rec) \in Installs /\ rehydrated(disk[k].rec).mod = k
         /\ rehydrated(disk[k].rec).state # "running"
  BY Rehydrates DEF Basic, FileRefs, Known, Same
<1>4. MapRefs(installs, plans)'
  <2>1. installs' \in [Modules -> Runs \cup {NoRun}]
    <3>1. \A k \in Modules : installs'[k] \in Runs \cup {NoRun}
      BY <1>1
    <3> QED BY <3>1 DEF Restart
  <2>2. plans' \in [Modules -> Runs \cup {NoRun}]
    BY DEF Restart
  <2> QED BY <1>1, <1>2, <1>3, <2>1, <2>2 DEF MapRefs, Known
<1>5. FileRefs(disk)'
  BY <1>1, <1>2, <1>3 DEF FileRefs, Known
<1>6. Places(pc, loc)'
  <2>1. NoLocals \in Locals
    BY Constants DEF NoLocals, Local, Locals
  <2>2. pc' \in [Procs -> PcSet] /\ loc' \in [Procs -> Locals]
    <3> HIDE DEF NoLocals
    <3> QED BY <2>1 DEF Restart, PcSet
  <2> QED BY <1>1, <2>2 DEF Places, Stand, Stepping
<1>7. \A i \in Runs : Bounded(i)'
  <2> SUFFICES ASSUME NEW i \in Runs PROVE Bounded(i)'
    OBVIOUS
  <2>1. pc'[i] = "idle"
    BY <1>1, RunnerIsProc
  <2>2. rec'[i].state # "running"
    <3>1. NoInstall.state # "running"
      BY DEF NoInstall
    <3>2. \A k \in Modules : disk[k].run = i => rehydrated(disk[k].rec).state # "running"
      BY <1>3, Constants DEF Runs, NoRun
    <3> QED BY <1>1, <3>1, <3>2
  <2> QED BY <2>1, <2>2 DEF Bounded, Stepping
<1>8. Others'
  BY DEF Restart, Others
<1>9. Counts'
  BY <1>2, Constants DEF Restart, mayFail, Basic, Counts
<1> QED BY <1>1, <1>4, <1>5, <1>6, <1>7, <1>8, <1>9 DEF Basic

LEMMA BasicInit == Init => Basic
<1> SUFFICES ASSUME Init PROVE Basic
  OBVIOUS
<1> USE DEF Init
<1>1. NoLocals \in Locals
  BY Constants DEF NoLocals, Local, Locals
<1>2. NoFile \in Files /\ NoFile.run = NoRun
  BY DEF NoFile, Files
<1>3. Places(pc, loc)
  <2> HIDE DEF NoLocals
  <2> QED BY <1>1 DEF Places, PcSet, Stand, Stepping
<1>4. FileRefs(disk)
  <2> HIDE DEF NoFile
  <2> QED BY <1>2 DEF FileRefs
<1>5. \A i \in Runs : Bounded(i)
  BY RunnerIsProc DEF Bounded, NoInstall, Stepping
<1>6. MapRefs(installs, plans)
  BY DEF MapRefs
<1>7. Others
  BY DEF Others
<1>8. Counts
  <2>1. launched = 0 /\ lost = 0 /\ restarts = 0 /\ overlap \in BOOLEAN
    OBVIOUS
  <2> QED BY <2>1, Constants DEF Counts
<1>9. rec \in [Runs -> Installs \cup {NoInstall}]
  BY DEF NoInstall
<1> QED BY <1>3, <1>4, <1>5, <1>6, <1>7, <1>8, <1>9 DEF Basic

LEMMA BasicNext == ASSUME Basic, [Next]_vars PROVE Basic'
<1>1. ASSUME NEW c \in Callers, Call(c)
      PROVE  Basic'
  BY <1>1, BasicLaunch, BasicClaim, BasicCancel, BasicMarks, BasicUndo, BasicRegister,
     BasicNextAfter, BasicPanics DEF Call
<1>2. ASSUME NEW i \in Runs, Runner(i)
      PROVE  Basic'
  BY <1>2, BasicRunner
<1>3. ASSUME NEW p \in Procs, Shared(p)
      PROVE  Basic'
  BY <1>3, BasicStep, BasicEnds, BasicCleanup DEF Shared
<1>4. CASE Restart
  BY <1>4, BasicRestart
<1>5. CASE UNCHANGED vars
  BY <1>5 DEF vars, Basic, Others, Counts, MapRefs, FileRefs, Places, Stand, Known, Bounded
<1> QED BY <1>1, <1>2, <1>3, <1>4, <1>5 DEF Next

(* Every state of the manager is well typed, however calls, runners,       *)
(* failing writes and restarts interleave: no map ever names a run without *)
(* a record, no run leaves its plan, and what a restart reads back is a    *)
(* record.                                                                 *)
THEOREM EnterpriseTypes == Spec => []EnterpriseTypeOK
<1>1. Spec => []Basic
  BY BasicInit, BasicNext, PTL DEF Spec
<1> QED BY <1>1, BasicTypes, PTL

-----------------------------------------------------------------------------
(* Runs that do not meet *)

OnRun(p, i) == pc[p] # "idle" /\ loc[p].run = i

(* Until it has come to its cleanup a run is the current one of its        *)
(* module, and until its last step has ended it is running.                *)
OwnsKey(p) ==
    LET i == loc[p].run IN
    /\ pc[p] \notin {"idle", "cleanup"} => installs[rec[i].mod] = i
    /\ pc[p] \in {"dial", "rollback", "begin", "exec", "loop"} => rec[i].state = "running"
    /\ pc[p] = "cleanup" => rec[i].state # "running"

(* One goroutine works on a run: the claim keeps other calls out, and an   *)
(* automatic run is cancelled through its context.                         *)
Alone == \A p, q \in Procs : pc[p] # "idle" /\ OnRun(q, loc[p].run) => p = q
Claimed(p) ==
    /\ p \in Callers /\ pc[p] \in Stepping => busy[rec[loc[p].run].mod]
    /\ p \in Runs /\ pc[p] \notin {"idle", "cleanup"} => cancels[rec[loc[p].run].mod] = p

(* The locals name the run's own client and plan, the client is open and   *)
(* the plan registered for as long as somebody works on the run, and the   *)
(* steps before the current one are behind it.                             *)
Equipped(i) == ssh[i] = "open" /\ DOMAIN rec[i].steps = 1..planLen(rec[i])
Behind(r, n) == \A s \in DOMAIN r.steps : s < n => r.steps[s] \in {"done", "skipped"}
Works(p) ==
    LET i == loc[p].run IN
    /\ pc[p] = "dial" => rec[i].current = 1
    /\ pc[p] \notin {"idle", "dial"} => Equipped(i)
    /\ pc[p] \notin {"idle", "dial", "rollback"} => loc[p].client = i
    /\ pc[p] \in Stepping => loc[p].plan = i /\ loc[p].idx = rec[i].current
    /\ pc[p] = "after" /\ rec[i].state = "running" => Behind(rec[i], rec[i].current + 1)

(* The maps name the current run's own client and plan, and the file is    *)
(* its record, but for a run being launched and one whose cancellation is  *)
(* not yet written down.                                                   *)
Registered(k) ==
    installs[k] # NoRun /\ rec[installs[k]].state = "running" /\ ~At(installs[k], {"dial"})
       => plans[k] = installs[k] /\ clients[k] = installs[k] /\ Equipped(installs[k])
Filed(k) ==
    installs[k] # NoRun /\ lost = 0 /\ ~At(installs[k], {"dial", "rollback", "terminate"})
       => disk[k] = [run |-> installs[k], rec |-> rec[installs[k]]]

(* A run that is done has done its plan, and its client is closed once, by *)
(* who ends the run.                                                       *)
Whole(r) == r.state = "done" => Finished(r) /\ DOMAIN r.steps = 1..planLen(r)
Sound(i) ==
    /\ rec[i].state = "running" => Behind(rec[i], rec[i].current)
    /\ Whole(rec[i])
    /\ ssh[i] # "closed twice"
    /\ rec[i].state \in {"done", "error", "cancelled"} /\ ssh[i] = "open"
          => \E p \in Procs : OnRun(p, i)

Quiet ==
    /\ Alone
    /\ \A p \in Procs : OwnsKey(p) /\ Claimed(p) /\ Works(p)
    /\ \A k \in Modules : Registered(k) /\ Filed(k) /\ Whole(disk[k].rec)
    /\ \A i \in Runs : Sound(i)
QuietInv == ~overlap => Quiet

(* A step of the processes P on run i: everybody else works on another run *)
(* and finds the maps, records and clients it needs untouched.             *)
Apart(P, i) ==
    /\ P \subseteq Procs /\ i \in Runs
    /\ \A q \in P : (pc[q] # "idle" => loc[q].run = i) /\ (pc'[q] # "idle" => loc'[q].run = i)
    /\ \A q \in Procs \ P : pc'[q] = pc[q] /\ loc'[q] = loc[q] /\ ~OnRun(q, i)
    /\ \A j \in Runs : j # i => rec'[j] = rec[j] /\ ssh'[j] = ssh[j]
    /\ \A m \in Modules : installs'[m] \notin {i, NoRun} =>
          /\ installs'[m] = installs[m] /\ disk'[m] = disk[m]
          /\ plans'[m] = plans[m] /\ clients'[m] = clients[m]
    /\ \A q \in Procs \ P : pc[q] \notin {"idle", "cleanup"} =>
          /\ installs'[rec[loc[q].run].mod] = installs[rec[loc[q].run].mod]
          /\ busy'[rec[loc[q].run].mod] = busy[rec[loc[q].run].mod]
          /\ cancels'[rec[loc[q].run].mod] = cancels[rec[loc[q].run].mod]
    /\ lost' = 0 => lost = 0

(* Nobody comes to or leaves another run. *)
LEMMA ApartAt ==
    ASSUME NEW P, NEW i, Apart(P, i), NEW j, j # i
    PROVE  /\ \A p \in Procs : OnRun(p, j)' <=> OnRun(p, j)
           /\ \A X : "idle" \notin X => (At(j, X)' <=> At(j, X))
<1>1. \A p \in Procs : \/ pc'[p] = pc[p] /\ loc'[p] = loc[p]
                       \/ (pc[p] # "idle" => loc[p].run # j) /\ (pc'[p] # "idle" => loc'[p].run # j)
  BY DEF Apart
<1>2. \A p \in Procs : OnRun(p, j)' <=> OnRun(p, j)
  BY <1>1 DEF OnRun
<1>3. ASSUME NEW X, "idle" \notin X
      PROVE  At(j, X)' <=> At(j, X)
  BY <1>1, <1>3 DEF At
<1> QED BY <1>2, <1>3

LEMMA ApartOthers ==
    ASSUME Basic, Quiet, NEW P, NEW i, Apart(P, i), NEW q \in Procs, q \notin P
    PROVE  (OwnsKey(q) /\ Claimed(q) /\ Works(q))'
<1>j. PICK j : j = loc[q].run
  OBVIOUS
<1>1. pc'[q] = pc[q] /\ loc'[q] = loc[q] /\ (pc[q] # "idle" => j # i)
  BY <1>j DEF Apart, OnRun
<1>2. CASE pc[q] = "idle"
  BY <1>1, <1>2 DEF OwnsKey, Claimed, Works, Stepping
<1>3. CASE pc[q] # "idle"
  <2>1. j \in Runs /\ j # i
    BY <1>j, <1>1, <1>3, Standing
  <2>2. rec'[j] = rec[j] /\ ssh'[j] = ssh[j]
    BY <2>1 DEF Apart
  <2>k. PICK k : k = rec[j].mod
    OBVIOUS
  <2>3. pc[q] \notin {"idle", "cleanup"} => installs'[k] = installs[k] /\ busy'[k] = busy[k] /\ cancels'[k] = cancels[k]
    BY <1>j, <2>k DEF Apart
  <2>4. OwnsKey(q) /\ Claimed(q) /\ Works(q)
    BY DEF Quiet
  <2>5. OwnsKey(q)'
    BY <1>j, <1>1, <2>2, <2>3, <2>4, <2>k DEF OwnsKey
  <2>6. Claimed(q)'
    BY <1>j, <1>1, <2>2, <2>3, <2>4, <2>k DEF Claimed, Stepping
  <2>7. Works(q)'
    BY <1>j, <1>1, <2>2, <2>4 DEF Works, Equipped
  <2> QED BY <2>5, <2>6, <2>7
<1> QED BY <1>2, <1>3

LEMMA ApartModules ==
    ASSUME Basic, Quiet, NEW P, NEW i, Apart(P, i), NEW k \in Modules, installs'[k] # i
    PROVE  (Registered(k) /\ Filed(k))'
<1>1. CASE installs'[k] = NoRun
  BY <1>1 DEF Registered, Filed
<1>2. CASE installs'[k] # NoRun
  <2>j. PICK j : j = installs[k]
    OBVIOUS
  <2>1. installs'[k] = j /\ disk'[k] = disk[k] /\ plans'[k] = plans[k] /\ clients'[k] = clients[k] /\ j # i
    BY <1>2, <2>j DEF Apart
  <2>2. j \in Runs
    BY <1>2, <2>j, <2>1 DEF Basic, MapRefs
  <2>3. rec'[j] = rec[j] /\ ssh'[j] = ssh[j] /\ (lost' = 0 => lost = 0)
    BY <2>1, <2>2 DEF Apart
  <2>4. /\ At(j, {"dial"})' <=> At(j, {"dial"})
        /\ At(j, {"dial", "rollback", "terminate"})' <=> At(j, {"dial", "rollback", "terminate"})
    BY <2>1, ApartAt
  <2>5. Registered(k) /\ Filed(k)
    BY DEF Quiet
  <2>6. Registered(k)'
    BY <2>j, <2>1, <2>3, <2>4, <2>5 DEF Registered, Equipped
  <2>7. Filed(k)'
    BY <2>j, <2>1, <2>3, <2>4, <2>5 DEF Filed
  <2> QED BY <2>6, <2>7
<1> QED BY <1>1, <1>2

LEMMA ApartRuns ==
    ASSUME Basic, Quiet, NEW P, NEW i, Apart(P, i), NEW j \in Runs, j # i
    PROVE  Sound(j)'
<1>1. rec'[j] = rec[j] /\ ssh'[j] = ssh[j]
  BY DEF Apart
<1>2. \A p \in Procs : OnRun(p, j)' <=> OnRun(p, j)
  BY ApartAt
<1> QED BY <1>1, <1>2 DEF Quiet, Sound

(* So a step leaves the runs quiet when it does so where it works. *)
LEMMA QuietStep ==
    ASSUME Basic, Quiet, NEW P, NEW i, Apart(P, i),
           \A p, q \in P : pc'[p] # "idle" /\ pc'[q] # "idle" => p = q,
           \A p \in P : (OwnsKey(p) /\ Claimed(p) /\ Works(p))',
           \A k \in Modules : installs'[k] = i => (Registered(k) /\ Filed(k))',
           \A k \in Modules : disk'[k] = disk[k] \/ disk'[k].rec \in {rec'[i], NoInstall},
           Sound(i)'
    PROVE  Quiet'
<1>1. Alone'
  <2> SUFFICES ASSUME NEW p \in Procs, NEW q \in Procs, pc'[p] # "idle", pc'[q] # "idle", loc'[q].run = loc'[p].run
               PROVE  p = q
    BY DEF Alone, OnRun
  <2>1. CASE p \in P /\ q \in P
    BY <2>1
  <2>2. CASE p \in P /\ q \notin P
    BY <2>2 DEF Apart, OnRun
  <2>3. CASE p \notin P /\ q \in P
    BY <2>3 DEF Apart, OnRun
  <2>4. CASE p \notin P /\ q \notin P
    BY <2>4 DEF Apart, OnRun, Quiet, Alone
  <2> QED BY <2>1, <2>2, <2>3, <2>4
<1>2. ASSUME NEW p \in Procs PROVE (OwnsKey(p) /\ Claimed(p) /\ Works(p))'
  BY ApartOthers
<1>3. ASSUME NEW k \in Modules PROVE (Registered(k) /\ Filed(k))'
  BY ApartModules
<1>4. ASSUME NEW k \in Modules PROVE Whole(disk'[k].rec)
  <2>1. CASE disk'[k] = disk[k]
    BY <2>1 DEF Quiet
  <2>2. CASE disk'[k].rec = rec'[i]
    <3>1. Whole(rec'[i])
      BY DEF Sound, Whole
    <3> QED BY <2>2, <3>1
  <2>3. CASE disk'[k].rec = NoInstall
    BY <2>3 DEF Whole, NoInstall
  <2> QED BY <2>1, <2>2, <2>3
<1>5. ASSUME NEW j \in Runs PROVE Sound(j)'
  BY ApartRuns
<1>6. \A k \in Modules : Whole(disk[k].rec)'
  BY <1>4 DEF Whole
<1> QED BY <1>1, <1>2, <1>3, <1>5, <1>6 DEF Quiet

(* Whoever works on the current run of a module works apart from the       *)
(* others: they are cleaning up, or on another module.                     *)
LEMMA OwnerApart ==
    ASSUME Basic, Quiet, NEW P \in SUBSET Procs, NEW i \in Runs, NEW k \in Modules, installs[k] = i,
           \A q \in P : (pc[q] # "idle" => loc[q].run = i) /\ (pc'[q] # "idle" => loc'[q].run = i),
           \A q \in Procs \ P : pc'[q] = pc[q] /\ loc'[q] = loc[q] /\ ~OnRun(q, i),
           \A j \in Runs : j # i => rec'[j] = rec[j] /\ ssh'[j] = ssh[j],
           installs'[k] \in {i, NoRun},
           \A m \in Modules : m # k =>
              /\ \/ installs'[m] = installs[m] /\ disk'[m] = disk[m]
                 \/ installs'[m] = NoRun /\ ~InFlight(installs[m])
              /\ plans'[m] = plans[m] /\ clients'[m] = clients[m]
              /\ busy'[m] = busy[m] /\ cancels'[m] = cancels[m],
           lost' = 0 => lost = 0
    PROVE  Apart(P, i)
<1>1. ASSUME NEW q \in Procs \ P, pc[q] \notin {"idle", "cleanup"}
      PROVE  LET m == rec[loc[q].run].mod IN
             /\ installs'[m] = installs[m] /\ busy'[m] = busy[m] /\ cancels'[m] = cancels[m]
  <2>m. PICK m : m = rec[loc[q].run].mod
    OBVIOUS
  <2>1. m \in Modules /\ installs[m] = loc[q].run
    BY <1>1, <2>m, Standing DEF Quiet, OwnsKey
  <2>2. m # k
    BY <1>1, <2>1 DEF OnRun
  <2>3. InFlight(installs[m])
    BY <1>1, <2>1 DEF InFlight
  <2> QED BY <2>m, <2>1, <2>2, <2>3
<1>2. ASSUME NEW m \in Modules, installs'[m] \notin {i, NoRun}
      PROVE  /\ installs'[m] = installs[m] /\ disk'[m] = disk[m]
             /\ plans'[m] = plans[m] /\ clients'[m] = clients[m]
  BY <1>2
<1> QED BY <1>1, <1>2 DEF Apart

(* A step of process p on run i, the current one of module k. *)
Steps(p, i, k) ==
    /\ \A q \in Procs : q # p => pc'[q] = pc[q] /\ loc'[q] = loc[q]
    /\ pc'[p] # "idle" => loc'[p].run = i
    /\ \A j \in Runs : j # i => rec'[j] = rec[j] /\ ssh'[j] = ssh[j]
    /\ installs'[k] \in {i, NoRun}
    /\ \A m \in Modules : m # k =>
          /\ \/ installs'[m] = installs[m] /\ disk'[m] = disk[m]
             \/ installs'[m] = NoRun /\ ~InFlight(installs[m])
          /\ plans'[m] = plans[m] /\ clients'[m] = clients[m]
          /\ busy'[m] = busy[m] /\ cancels'[m] = cancels[m]
    /\ lost' = 0 => lost = 0
    /\ \A m \in Modules : disk'[m] = disk[m] \/ disk'[m].rec \in {rec'[i], NoInstall}

LEMMA OwnerStep ==
    ASSUME Basic, Quiet, NEW p \in Procs, NEW i \in Runs, NEW k \in Modules, installs[k] = i,
           \A q \in Procs : q # p => ~OnRun(q, i), pc[p] # "idle" => loc[p].run = i,
           Steps(p, i, k),
           (OwnsKey(p) /\ Claimed(p) /\ Works(p))',
           installs'[k] = i => (Registered(k) /\ Filed(k))',
           Sound(i)'
    PROVE  Quiet'
<1>1. \A m \in Modules : installs[m] = i => m = k
  BY DEF Basic, MapRefs, NoRun, Runs
<1>2. \A m \in Modules : m # k => installs'[m] # i
  BY <1>1 DEF Steps, NoRun, Runs
<1>3. Apart({p}, i)
  <2>1. \A q \in {p} : (pc[q] # "idle" => loc[q].run = i) /\ (pc'[q] # "idle" => loc'[q].run = i)
    BY DEF Steps
  <2>2. \A q \in Procs \ {p} : pc'[q] = pc[q] /\ loc'[q] = loc[q] /\ ~OnRun(q, i)
    BY DEF Steps
  <2>3. /\ \A j \in Runs : j # i => rec'[j] = rec[j] /\ ssh'[j] = ssh[j]
        /\ installs'[k] \in {i, NoRun}
        /\ \A m \in Modules : m # k =>
              /\ \/ installs'[m] = installs[m] /\ disk'[m] = disk[m]
                 \/ installs'[m] = NoRun /\ ~InFlight(installs[m])
              /\ plans'[m] = plans[m] /\ clients'[m] = clients[m]
              /\ busy'[m] = busy[m] /\ cancels'[m] = cancels[m]
        /\ lost' = 0 => lost = 0
    BY DEF Steps
  <2> QED BY <2>1, <2>2, <2>3, OwnerApart
<1>4. ASSUME NEW m \in Modules, installs'[m] = i
      PROVE  (Registered(m) /\ Filed(m))'
  <2>1. m = k
    BY <1>2, <1>4
  <2> QED BY <1>4, <2>1
<1>5. \A m \in Modules : disk'[m] = disk[m] \/ disk'[m].rec \in {rec'[i], NoInstall}
  BY DEF Steps
<1> QED BY <1>3, <1>4, <1>5, QuietStep

(* Who is not yet cleaning up holds its module's key, and nobody else is   *)
(* on the run.                                                             *)
LEMMA Owner ==
    ASSUME Basic, Quiet, NEW p \in Procs, pc[p] \notin {"idle", "cleanup"}
    PROVE  /\ loc[p].run \in Runs /\ Known(loc[p].run) /\ rec[loc[p].run] \in Installs
           /\ rec[loc[p].run].mod \in Modules
           /\ installs[rec[loc[p].run].mod] = loc[p].run
           /\ \A q \in Procs : q # p => ~OnRun(q, loc[p].run)
BY Standing DEF Quiet, OwnsKey, Alone, OnRun

(* Who is alone on a run decides where it is. *)
LEMMA AloneAt ==
    ASSUME NEW p \in Procs, NEW i, \A q \in Procs : q # p => ~OnRun(q, i), NEW X,
           "idle" \notin X, pc[p] \notin X
    PROVE  ~At(i, X)
BY DEF At, OnRun

LEMMA IdleWorks ==
    ASSUME NEW p, pc'[p] = "idle"
    PROVE  (OwnsKey(p) /\ Claimed(p) /\ Works(p))'
BY DEF OwnsKey, Claimed, Works, Stepping

LEMMA StepsCount == ASSUME NEW r \in Installs PROVE \A s \in DOMAIN r.steps : s \in Nat /\ s >= 1
<1>1. PICK n \in 0..(Work + 1) : r.steps \in [1..n -> StepStates]
  BY DEF Installs, StepLists
<1> QED BY <1>1, Constants

LEMMA BehindOne == ASSUME NEW r \in Installs PROVE Behind(r, 1)
BY StepsCount DEF Behind

LEMMA SamePlan == ASSUME NEW r, NEW t, Same(r, t) PROVE planLen(t) = planLen(r)
BY DEF Same, planLen

LEMMA QuietLaunch ==
    ASSUME Basic, Quiet, NEW c \in Callers, NEW k \in Modules, NEW op \in Ops, NEW manual \in BOOLEAN,
           Launch(c, k, op, manual), ~overlap'
    PROVE  Quiet'
<1>i. PICK i : i = launched + 1
  OBVIOUS
<1>0. c \in Procs /\ c \notin Runs /\ pc[c] = "idle"
  BY CallerIsProc DEF Launch
<1>1. /\ i \in Runs
      /\ rec' = [rec EXCEPT ![i] = rec'[i]] /\ rec'[i] \in Installs
      /\ rec'[i].mod = k /\ rec'[i].state = "running"
      /\ rec'[i].current = 1
      /\ installs' = [installs EXCEPT ![k] = i]
      /\ pc' = [pc EXCEPT ![c] = "dial"]
      /\ loc' = [loc EXCEPT ![c] = loc'[c]] /\ loc'[c].run = i
  BY <1>i, LaunchEffect
<1>2. UNCHANGED <<cancels, clients, plans, busy, cancelReq, disk, cancelled, ssh, lost, restarts>>
      /\ mayReserve(k) /\ ~Overtakes(k)
  BY DEF Launch
<1>3. \A j : Known(j) => j # i
  BY <1>i, <1>1 DEF Known, Runs, Basic, Counts
<1>4. pc'[c] = "dial" /\ installs'[k] = i
  BY <1>0, <1>1 DEF Basic, Places, MapRefs
<1>5. \A q \in Procs : q # c => pc'[q] = pc[q] /\ loc'[q] = loc[q]
  BY <1>1 DEF Basic, Places
<1>6. \A m \in Modules : m # k => installs'[m] = installs[m] /\ installs'[m] # i
  <2>1. \A m \in Modules : m # k => installs'[m] = installs[m]
    BY <1>1 DEF Basic, MapRefs
  <2>2. \A m \in Modules : installs[m] # i
    BY <1>1, <1>3 DEF Basic, MapRefs, NoRun, Runs
  <2> QED BY <2>1, <2>2
<1>7. \A j \in Runs : j # i => rec'[j] = rec[j]
  BY <1>1 DEF Basic
<1>8. ASSUME NEW q \in Procs, pc[q] \notin {"idle", "cleanup"}
      PROVE  rec[loc[q].run].mod # k /\ rec[loc[q].run].mod \in Modules
  <2>1. loc[q].run \in Runs /\ rec[loc[q].run].mod \in Modules /\ installs[rec[loc[q].run].mod] = loc[q].run
    BY <1>8, Owner
  <2>2. SUFFICES ASSUME rec[loc[q].run].mod = k PROVE FALSE
    BY <2>1
  <2>3. installs[k] = loc[q].run /\ installs[k] # NoRun
    BY <2>1, <2>2 DEF NoRun, Runs
  <2>4. rec[loc[q].run].state # "running"
    BY <1>2, <2>3 DEF mayReserve
  <2>5. pc[q] \in {"after", "terminate"}
    <3>1. pc[q] \in PcSet /\ OwnsKey(q)
      BY DEF Basic, Places, Quiet
    <3> QED BY <1>8, <2>4, <3>1 DEF OwnsKey, PcSet
  <2> QED BY <1>2, <2>3, <2>5 DEF Overtakes, At
<1>9. Apart({c}, i)
  <2>1. \A q \in Procs : pc[q] # "idle" => ~OnRun(q, i)
    BY <1>3, Standing DEF OnRun
  <2>2. \A q \in Procs : ~OnRun(q, i)
    BY <2>1 DEF OnRun
  <2>3. \A m \in Modules : installs'[m] \notin {i, NoRun} => installs'[m] = installs[m]
    BY <1>4, <1>6
  <2>4. \A q \in Procs : pc[q] \notin {"idle", "cleanup"} =>
           installs'[rec[loc[q].run].mod] = installs[rec[loc[q].run].mod]
    BY <1>6, <1>8
  <2> QED BY <1>0, <1>1, <1>2, <1>5, <1>7, <2>2, <2>3, <2>4 DEF Apart
<1>10. (OwnsKey(c) /\ Claimed(c) /\ Works(c))'
  BY <1>0, <1>1, <1>4 DEF OwnsKey, Claimed, Works, Stepping
<1>11. At(i, {"dial"})' /\ At(i, {"dial", "rollback", "terminate"})'
  BY <1>0, <1>1, <1>4 DEF At
<1>12. ASSUME NEW m \in Modules, installs'[m] = i
       PROVE  (Registered(m) /\ Filed(m))'
  BY <1>11, <1>12 DEF Registered, Filed
<1>13. Sound(i)'
  <2>1. Behind(rec'[i], 1)
    BY <1>1, BehindOne
  <2>2. ssh'[i] # "closed twice"
    BY <1>1, <1>2 DEF Quiet, Sound
  <2>3. Behind(rec'[i], rec'[i].current)
    BY <1>1, <2>1
  <2> QED BY <1>1, <2>2, <2>3 DEF Sound, Behind, Whole
<1>14. \A m \in Modules : disk'[m] = disk[m]
  BY <1>2
<1>15. \A p, q \in {c} : pc'[p] # "idle" /\ pc'[q] # "idle" => p = q
  OBVIOUS
<1>16. \A p \in {c} : (OwnsKey(p) /\ Claimed(p) /\ Works(p))'
  BY <1>10
<1> QED BY <1>9, <1>12, <1>13, <1>14, <1>15, <1>16, QuietStep

LEMMA QuietUndo ==
    ASSUME Basic, Quiet, NEW c \in Callers, DialFails(c) \/ Rollback(c)
    PROVE  Quiet'
<1>i. PICK i : i = loc[c].run
  OBVIOUS
<1>k. PICK k : k = rec[i].mod
  OBVIOUS
<1>0. c \in Procs /\ pc[c] \in {"dial", "rollback"}
  BY CallerIsProc DEF DialFails, Rollback
<1>1. i \in Runs /\ k \in Modules /\ installs[k] = i /\ \A q \in Procs : q # c => ~OnRun(q, i)
  BY <1>i, <1>k, <1>0, Owner
<1>2. FreeReservation(k, i) /\ Return(c) /\ UNCHANGED <<rec, disk, cancelled, launched, lost, restarts, overlap>>
  BY <1>i, <1>k DEF DialFails, Rollback
<1>3. /\ UNCHANGED <<cancels, busy, cancelReq>>
      /\ installs' = [installs EXCEPT ![k] = NoRun]
      /\ plans' = [plans EXCEPT ![k] = NoRun]
      /\ clients' = [clients EXCEPT ![k] = NoRun]
  BY <1>1, <1>2, FreeMaps
<1>4. /\ \A j \in Runs : j # i => ssh'[j] = ssh[j]
      /\ ssh'[i] # "closed twice"
  <2>1. CASE DialFails(c)
    BY <1>1, <2>1 DEF DialFails, Quiet, Sound
  <2>2. CASE Rollback(c)
    <3>1. Close(i) /\ pc[c] = "rollback"
      BY <1>i, <2>2 DEF Rollback
    <3>2. ssh[i] = "open"
      BY <1>i, <1>0, <3>1 DEF Quiet, Works, Equipped
    <3>3. i # NoRun
      BY <1>1 DEF NoRun, Runs
    <3> QED BY <1>1, <3>1, <3>2, <3>3, Closes
  <2> QED BY <2>1, <2>2
<1>5. pc'[c] = "idle" /\ \A q \in Procs : q # c => pc'[q] = pc[q] /\ loc'[q] = loc[q]
  BY <1>0, <1>2 DEF Return, Basic, Places
<1>6. installs'[k] = NoRun /\ \A m \in Modules : m # k => installs'[m] = installs[m] /\ plans'[m] = plans[m] /\ clients'[m] = clients[m]
  BY <1>1, <1>3 DEF Basic, MapRefs, Others
<1>7. Steps(c, i, k)
  BY <1>2, <1>3, <1>4, <1>5, <1>6 DEF Steps
<1>8. Sound(i)'
  <2>1. rec[i].state = "running"
    BY <1>i, <1>0 DEF Quiet, OwnsKey
  <2> QED BY <1>1, <1>2, <1>4, <2>1 DEF Quiet, Sound
<1>9. installs'[k] # i
  BY <1>1, <1>6 DEF NoRun, Runs
<1>10. (OwnsKey(c) /\ Claimed(c) /\ Works(c))'
  BY <1>5, IdleWorks
<1> QED BY <1>i, <1>0, <1>1, <1>7, <1>8, <1>9, <1>10, OwnerStep

(* A process moves alone. *)
LEMMA Went ==
    ASSUME Basic, NEW p \in Procs, NEW x, Goto(p, x), UNCHANGED loc
    PROVE  pc'[p] = x /\ loc'[p] = loc[p] /\ \A q \in Procs : q # p => pc'[q] = pc[q] /\ loc'[q] = loc[q]
BY DEF Goto, Basic, Places

LEMMA Returned ==
    ASSUME Basic, NEW p \in Procs, Return(p)
    PROVE  pc'[p] = "idle" /\ \A q \in Procs : q # p => pc'[q] = pc[q] /\ loc'[q] = loc[q]
BY DEF Return, Basic, Places

LEMMA QuietRegister ==
    ASSUME Basic, Quiet, NEW c \in Callers, Register(c)
    PROVE  Quiet'
<1>i. PICK i : i = loc[c].run
  OBVIOUS
<1>k. PICK k : k = rec[i].mod
  OBVIOUS
<1>0. c \in Procs /\ c \notin Runs /\ pc[c] = "dial"
  BY CallerIsProc DEF Register
<1>1. /\ i \in Runs /\ k \in Modules /\ Known(i) /\ rec[i] \in Installs /\ installs[k] = i
      /\ \A q \in Procs : q # c => ~OnRun(q, i)
  BY <1>i, <1>k, <1>0, Owner
<1>2. PICK q : /\ Wrote(i, q) /\ q.state = rec[i].state /\ q.current = rec[i].current
               /\ q.steps = pending(planLen(rec[i]))
  BY <1>i, RegisterWrites
<1>3. rec'[i] = q /\ q \in Installs /\ Same(rec[i], q) /\ \A j \in Runs : j # i => rec'[j] = rec[j]
  BY <1>1, <1>2, WroteOne DEF Wrote
<1>4. rec[i].state = "running" /\ rec[i].current = 1
  BY <1>i, <1>0 DEF Quiet, OwnsKey, Works
<1>5. Save(i) /\ UNCHANGED <<installs, busy, cancelReq, cancelled, restarts, overlap>>
      /\ clients' = [clients EXCEPT ![k] = i]
      /\ plans' = [plans EXCEPT ![k] = i]
      /\ ssh' = [ssh EXCEPT ![i] = "open"]
      /\ cancels' \in {cancels, [cancels EXCEPT ![k] = i]}
  BY <1>i, <1>k DEF Register
<1>6. i \in Procs /\ i # c /\ i \notin Callers /\ pc[i] = "idle"
  <2>1. i \in Procs /\ i # c /\ i \notin Callers
    BY <1>0, <1>1, RunnerIsProc
  <2>2. pc[i] # "idle" => loc[i].run = i
    BY <1>1, <2>1 DEF Basic, Places, Stand
  <2> QED BY <1>1, <2>1, <2>2 DEF OnRun
<1>7. /\ lost' = 0 => lost = 0 /\ disk'[k] = [run |-> i, rec |-> q]
      /\ lost' = lost => disk'[k] = [run |-> i, rec |-> q]
      /\ \A m \in Modules : disk'[m] = disk[m] \/ (m = k /\ disk'[m] = [run |-> i, rec |-> q])
  <2>1. q.mod = k
    BY <1>k, <1>3 DEF Same
  <2>2. /\ lost <= lost' /\ lost' \in 0..MaxFaults
        /\ \A m \in Modules : disk'[m] = disk[m] \/ m = k
        /\ disk' = disk \/ disk'[k] = [run |-> i, rec |-> q]
        /\ lost' = lost => disk'[k] = [run |-> i, rec |-> q]
    BY <1>1, <1>3, <1>5, <2>1, SaveFiles
  <2>3. lost \in 0..MaxFaults
    BY DEF Basic, Counts
  <2>4. lost' = 0 => lost' = lost
    BY <2>2, <2>3, Constants
  <2> QED BY <2>2, <2>4
<1>8. Equipped(i)'
  <2>1. DOMAIN q.steps = 1..planLen(rec[i]) /\ planLen(q) = planLen(rec[i])
    BY <1>2, <1>3, SamePlan DEF pending
  <2>2. ssh'[i] = "open"
    BY <1>1, <1>5 DEF Basic, Others
  <2> QED BY <1>3, <2>1, <2>2 DEF Equipped
<1>9. Sound(i)'
  <2>1. Behind(q, 1)
    BY <1>3, BehindOne
  <2>2. Behind(rec'[i], rec'[i].current)
    BY <1>2, <1>3, <1>4, <2>1
  <2>3. ssh'[i] = "open" /\ rec'[i].state = "running"
    BY <1>2, <1>3, <1>4, <1>8 DEF Equipped
  <2> QED BY <2>2, <2>3 DEF Sound, Whole
<1>10. \/ pc'[c] = "rollback" /\ loc'[c] = loc[c] /\ pc'[i] = "idle"
       \/ pc'[c] = "idle" /\ pc'[i] = "idle" /\ lost' = lost
       \/ /\ pc'[c] = "idle" /\ pc'[i] = "loop" /\ loc'[i] = Local(i, i, i, 0)
          /\ cancels'[k] = i /\ lost' = lost
  <2>1. CASE lost' # lost
    <3>1. Goto(c, "rollback") /\ UNCHANGED loc
      BY <2>1 DEF Register
    <3> QED BY <1>0, <1>6, <3>1, Went
  <2>2. CASE lost' = lost /\ ~rec[i].manual
    <3>1. /\ cancels' = [cancels EXCEPT ![k] = i]
          /\ pc' = [pc EXCEPT ![c] = "idle", ![i] = "loop"]
          /\ loc' = [loc EXCEPT ![c] = NoLocals, ![i] = Local(i, i, i, 0)]
      BY <1>i, <1>k, <2>2 DEF Register
    <3>2. cancels'[k] = i /\ pc'[c] = "idle" /\ pc'[i] = "loop"
      BY <1>0, <1>1, <1>6, <3>1 DEF Basic, Places, Others
    <3>3. loc'[i] = Local(i, i, i, 0)
      BY <1>6, <3>1 DEF Basic, Places
    <3> QED BY <2>2, <3>2, <3>3
  <2>3. CASE lost' = lost /\ rec[i].manual
    <3>1. pc' = [pc EXCEPT ![c] = "idle", ![i] = pc[i]]
      BY <1>i, <1>6, <2>3 DEF Register, Basic, Places
    <3>2. pc'[c] = "idle" /\ pc'[i] = "idle"
      BY <1>0, <1>6, <3>1 DEF Basic, Places
    <3> QED BY <2>3, <3>2
  <2> QED BY <2>1, <2>2, <2>3
<1>11. \A p \in Procs \ {c, i} : pc'[p] = pc[p] /\ loc'[p] = loc[p]
  <2>1. CASE lost' # lost
    BY <1>0, <2>1, Went DEF Register
  <2>2. CASE lost' = lost
    BY <1>i, <1>6, <2>2 DEF Register, Basic, Places
  <2> QED BY <2>1, <2>2
<1>12. (OwnsKey(c) /\ Claimed(c) /\ Works(c))'
  <2>1. CASE pc'[c] = "idle"
    BY <2>1, IdleWorks
  <2>2. CASE pc'[c] = "rollback" /\ loc'[c] = loc[c]
    <3>1. rec'[i].state = "running" /\ rec'[i].mod = k /\ installs'[k] = i
      BY <1>k, <1>1, <1>2, <1>3, <1>4, <1>5 DEF Same
    <3>2. loc'[c].run = i
      BY <1>i, <2>2
    <3>3. OwnsKey(c)'
      BY <2>2, <3>1, <3>2 DEF OwnsKey
    <3> QED BY <1>0, <1>8, <2>2, <3>2, <3>3 DEF Claimed, Works, Stepping
  <2> QED BY <1>10, <2>1, <2>2
<1>13. (OwnsKey(i) /\ Claimed(i) /\ Works(i))'
  <2>1. CASE pc'[i] = "idle"
    BY <2>1, IdleWorks
  <2>2. CASE pc'[i] = "loop" /\ loc'[i] = Local(i, i, i, 0) /\ cancels'[k] = i
    <3>1. rec'[i].state = "running" /\ rec'[i].mod = k /\ installs'[k] = i
      BY <1>k, <1>1, <1>2, <1>3, <1>4, <1>5 DEF Same
    <3>2. loc'[i].run = i /\ loc'[i].client = i
      BY <2>2 DEF Local
    <3>3. OwnsKey(i)'
      BY <2>2, <3>1, <3>2 DEF OwnsKey
    <3>4. Claimed(i)'
      BY <1>6, <2>2, <3>1, <3>2 DEF Claimed
    <3> QED BY <1>8, <2>2, <3>2, <3>3, <3>4 DEF Works, Stepping
  <2> QED BY <1>10, <2>1, <2>2
<1>14. (Registered(k) /\ Filed(k))'
  <2>1. installs'[k] = i /\ plans'[k] = i /\ clients'[k] = i
    BY <1>1, <1>5 DEF Basic, MapRefs, Others
  <2>2. Registered(k)'
    BY <1>8, <2>1 DEF Registered
  <2>3. Filed(k)'
    BY <1>3, <1>7, <2>1 DEF Filed
  <2> QED BY <2>2, <2>3
<1>15. \A m \in Modules : installs[m] = i => m = k
  BY <1>1, <1>k DEF Basic, MapRefs, NoRun, Runs
<1>16. Apart({c, i}, i)
  <2>1. \A p \in {c, i} : (pc[p] # "idle" => loc[p].run = i) /\ (pc'[p] # "idle" => loc'[p].run = i)
    <3>1. Local(i, i, i, 0).run = i
      BY DEF Local
    <3> QED BY <1>i, <1>6, <1>10, <3>1
  <2>2. \A p \in Procs \ {c, i} : pc'[p] = pc[p] /\ loc'[p] = loc[p] /\ ~OnRun(p, i)
    BY <1>1, <1>11
  <2>3. \A j \in Runs : j # i => rec'[j] = rec[j] /\ ssh'[j] = ssh[j]
    BY <1>3, <1>5 DEF Basic, Others
  <2>4. \A m \in Modules : m # k => /\ installs'[m] = installs[m] /\ disk'[m] = disk[m]
                                    /\ plans'[m] = plans[m] /\ clients'[m] = clients[m]
                                    /\ busy'[m] = busy[m] /\ cancels'[m] = cancels[m]
    BY <1>5, <1>7 DEF Basic, MapRefs, Others
  <2>5. installs'[k] \in {i, NoRun} /\ (lost' = 0 => lost = 0) /\ {c, i} \in SUBSET Procs
    BY <1>0, <1>1, <1>5, <1>6, <1>7
  <2> QED BY <1>1, <2>1, <2>2, <2>3, <2>4, <2>5, OwnerApart
<1>17. \A m \in Modules : installs'[m] = i => (Registered(m) /\ Filed(m))'
  <2> SUFFICES ASSUME NEW m \in Modules, installs'[m] = i PROVE (Registered(m) /\ Filed(m))'
    OBVIOUS
  <2>1. m = k
    BY <1>5, <1>15
  <2> QED BY <1>14, <2>1
<1>18. \A m \in Modules : disk'[m] = disk[m] \/ disk'[m].rec \in {rec'[i], NoInstall}
  BY <1>3, <1>7
<1>19. \A p, r \in {c, i} : pc'[p] # "idle" /\ pc'[r] # "idle" => p = r
  BY <1>10
<1>20. \A p \in {c, i} : (OwnsKey(p) /\ Claimed(p) /\ Works(p))'
  BY <1>12, <1>13
<1> QED BY <1>9, <1>16, <1>17, <1>18, <1>19, <1>20, QuietStep

(* Nobody is on a running run that a call finds at rest. *)
LEMMA AtRest ==
    ASSUME Basic, Quiet, NEW k \in Modules, installs[k] # NoRun, rec[installs[k]].state = "running",
           ~Meets(k), ~busy[k], rec[installs[k]].manual \/ cancels[k] = NoRun
    PROVE  /\ installs[k] \in Runs /\ rec[installs[k]].mod = k /\ Known(installs[k])
           /\ rec[installs[k]] \in Installs
           /\ \A q \in Procs : ~OnRun(q, installs[k])
           /\ plans[k] = installs[k] /\ clients[k] = installs[k] /\ Equipped(installs[k])
           /\ lost = 0 => disk[k] = [run |-> installs[k], rec |-> rec[installs[k]]]
<1>i. PICK i : i = installs[k]
  OBVIOUS
<1>1. i \in Runs /\ rec[i].mod = k /\ Known(i) /\ rec[i] \in Installs
  BY <1>i DEF Basic, MapRefs, Known
<1>2. ASSUME NEW q \in Procs, OnRun(q, i)
      PROVE  FALSE
  <2>1. pc[q] # "idle" /\ loc[q].run = i /\ pc[q] \in PcSet /\ Stand(q, pc[q], loc[q])
    BY <1>2 DEF OnRun, Basic, Places
  <2>2. pc[q] \notin {"dial", "rollback", "terminate"}
    BY <1>i, <2>1 DEF Meets, At
  <2>3. OwnsKey(q) /\ Claimed(q)
    BY DEF Quiet
  <2>4. pc[q] # "cleanup"
    BY <1>i, <2>1, <2>3 DEF OwnsKey
  <2>5. CASE q \in Callers
    <3>1. pc[q] \in Stepping
      BY <2>1, <2>2, <2>4, <2>5 DEF Stand, PcSet, Stepping
    <3> QED BY <1>1, <2>1, <2>3, <2>5, <3>1 DEF Claimed
  <2>6. CASE q \in Runs
    <3>1. q = i /\ ~rec[i].manual
      BY <2>1, <2>6 DEF Stand
    <3>2. cancels[k] = q
      BY <1>1, <2>1, <2>3, <2>4, <2>6 DEF Claimed
    <3> QED BY <1>i, <1>1, <3>1, <3>2 DEF NoRun, Runs
  <2> QED BY <2>5, <2>6 DEF Procs
<1>3. ~At(i, {"dial"}) /\ ~At(i, {"dial", "rollback", "terminate"})
  BY <1>2 DEF At, OnRun
<1>4. Registered(k) /\ Filed(k)
  BY DEF Quiet
<1> QED BY <1>i, <1>1, <1>2, <1>3, <1>4 DEF Registered, Filed

LEMMA QuietClaim ==
    ASSUME Basic, Quiet, NEW c \in Callers, NEW k \in Modules, NextClaim(c, k), ~overlap'
    PROVE  Quiet'
<1>i. PICK i : i = installs[k]
  OBVIOUS
<1>0. c \in Procs /\ c \notin Runs /\ pc[c] = "idle"
  BY CallerIsProc DEF NextClaim
<1>1. i # NoRun /\ rec[i].state = "running" /\ ~Meets(k) /\ ~busy[k] /\ rec[i].manual
  BY <1>i DEF NextClaim
<1>2. /\ i \in Runs /\ rec[i].mod = k /\ \A q \in Procs : ~OnRun(q, i)
      /\ plans[k] = i /\ clients[k] = i /\ Equipped(i)
      /\ lost = 0 => disk[k] = [run |-> i, rec |-> rec[i]]
  BY <1>i, <1>1, AtRest
<1> DEFINE l == Local(i, i, i, rec[i].current)
<1>3. l.run = i /\ l.client = i /\ l.plan = i /\ l.idx = rec[i].current
  BY DEF Local
<1>4. /\ pc' = [pc EXCEPT ![c] = "begin"] /\ loc' = [loc EXCEPT ![c] = l]
      /\ busy' = [busy EXCEPT ![k] = TRUE]
      /\ UNCHANGED <<installs, cancels, clients, plans, rec, disk, ssh, lost>>
  BY <1>i, <1>2 DEF NextClaim, Goto
<1> HIDE DEF l
<1>5. /\ pc'[c] = "begin" /\ loc'[c] = l
      /\ \A q \in Procs : q # c => pc'[q] = pc[q] /\ loc'[q] = loc[q]
      /\ busy'[k] /\ \A m \in Modules : m # k => busy'[m] = busy[m]
  BY <1>0, <1>4 DEF Basic, Places, Others
<1>6. Steps(c, i, k)
  BY <1>i, <1>3, <1>4, <1>5 DEF Steps
<1>7. (OwnsKey(c) /\ Claimed(c) /\ Works(c))'
  <2>1. rec'[i] = rec[i] /\ installs'[k] = i /\ Equipped(i)'
    BY <1>i, <1>2, <1>4 DEF Equipped
  <2>2. OwnsKey(c)'
    BY <1>1, <1>2, <1>3, <1>5, <2>1 DEF OwnsKey
  <2>3. Claimed(c)'
    BY <1>0, <1>2, <1>3, <1>5, <2>1 DEF Claimed
  <2>4. Works(c)'
    BY <1>3, <1>5, <2>1 DEF Works
  <2> QED BY <2>2, <2>3, <2>4
<1>8. (Registered(k) /\ Filed(k))'
  <2>1. Registered(k)'
    BY <1>i, <1>2, <1>4 DEF Registered, Equipped
  <2>2. Filed(k)'
    BY <1>i, <1>2, <1>4 DEF Filed
  <2> QED BY <2>1, <2>2
<1>9. Sound(i)'
  BY <1>1, <1>2, <1>4 DEF Quiet, Sound
<1>10. \A q \in Procs : q # c => ~OnRun(q, i)
  BY <1>2
<1> QED BY <1>i, <1>0, <1>2, <1>6, <1>7, <1>8, <1>9, <1>10, OwnerStep

LEMMA QuietMarks ==
    ASSUME Basic, Quiet, NEW c \in Callers, NEW k \in Modules, CancelMarks(c, k), ~overlap'
    PROVE  Quiet'
<1>i. PICK i : i = installs[k]
  OBVIOUS
<1>0. c \in Procs /\ c \notin Runs /\ pc[c] = "idle"
  BY CallerIsProc DEF CancelMarks
<1>1. i # NoRun /\ rec[i].state = "running" /\ ~Meets(k) /\ ~busy[k] /\ cancels[k] = NoRun
  BY <1>i DEF CancelMarks, mayCancel
<1>2. /\ i \in Runs /\ rec[i].mod = k /\ Known(i) /\ \A q \in Procs : ~OnRun(q, i)
      /\ plans[k] = i /\ clients[k] = i /\ Equipped(i)
  BY <1>i, <1>1, AtRest
<1>3. PICK q : Wrote(i, q) /\ q.state = "cancelled" /\ q.current = rec[i].current /\ q.steps = rec[i].steps
  BY <1>i, CancelMarksWrites
<1>4. rec'[i] = q /\ q \in Installs /\ Same(rec[i], q) /\ \A j \in Runs : j # i => rec'[j] = rec[j]
  BY <1>2, <1>3, WroteOne DEF Wrote
<1> DEFINE l == Local(i, NoRun, i, 0)
<1>5. l.run = i /\ l.client = i
  BY DEF Local
<1>6. /\ pc' = [pc EXCEPT ![c] = "terminate"] /\ loc' = [loc EXCEPT ![c] = l]
      /\ UNCHANGED <<installs, cancels, clients, plans, busy, disk, ssh, lost>>
  BY <1>i, <1>2 DEF CancelMarks, Goto, maps
<1> HIDE DEF l
<1>7. /\ pc'[c] = "terminate" /\ loc'[c] = l
      /\ \A p \in Procs : p # c => pc'[p] = pc[p] /\ loc'[p] = loc[p]
  BY <1>0, <1>6 DEF Basic, Places
<1>8. Steps(c, i, k)
  BY <1>i, <1>4, <1>5, <1>6, <1>7 DEF Steps
<1>9. (OwnsKey(c) /\ Claimed(c) /\ Works(c))'
  <2>1. Equipped(i)'
    <3>1. planLen(q) = planLen(rec[i])
      BY <1>4, SamePlan
    <3> QED BY <1>2, <1>3, <1>4, <1>6, <3>1 DEF Equipped
  <2>2. installs'[k] = i /\ rec'[i].mod = k
    BY <1>i, <1>2, <1>4, <1>6 DEF Same
  <2>3. OwnsKey(c)'
    BY <1>5, <1>7, <2>2 DEF OwnsKey
  <2> QED BY <1>0, <1>5, <1>7, <2>1, <2>3 DEF Claimed, Works, Stepping
<1>10. (Registered(k) /\ Filed(k))'
  <2>1. At(i, {"dial", "rollback", "terminate"})'
    BY <1>0, <1>5, <1>7 DEF At
  <2>2. installs'[k] = i /\ rec'[i].state # "running"
    BY <1>i, <1>3, <1>4, <1>6
  <2> QED BY <2>1, <2>2 DEF Registered, Filed
<1>11. Sound(i)'
  <2>1. ssh'[i] = "open" /\ rec'[i].state = "cancelled"
    BY <1>2, <1>3, <1>4, <1>6 DEF Equipped
  <2>2. OnRun(c, i)'
    BY <1>5, <1>7 DEF OnRun
  <2> QED BY <1>0, <2>1, <2>2 DEF Sound, Whole
<1>12. \A p \in Procs : p # c => ~OnRun(p, i)
  BY <1>2
<1> QED BY <1>i, <1>0, <1>2, <1>8, <1>9, <1>10, <1>11, <1>12, OwnerStep

(* A step that leaves what the runs share as it is. *)
LEMMA QuietSame ==
    ASSUME Quiet, UNCHANGED <<installs, cancels, clients, plans, busy, rec, disk, ssh, pc, loc, lost>>
    PROVE  Quiet'
<1>1. Alone'
  BY DEF Quiet, Alone, OnRun
<1>2. \A p \in Procs : (OwnsKey(p) /\ Claimed(p) /\ Works(p))'
  BY DEF Quiet, OwnsKey, Claimed, Works, Equipped
<1>3. \A k \in Modules : (Registered(k) /\ Filed(k) /\ Whole(disk[k].rec))'
  BY DEF Quiet, Registered, Filed, At, Equipped
<1>4. \A i \in Runs : Sound(i)'
  BY DEF Quiet, Sound, OnRun
<1> QED BY <1>1, <1>2, <1>3, <1>4 DEF Quiet

LEMMA QuietCancel ==
    ASSUME Quiet, NEW c \in Callers, NEW k \in Modules, CancelAuto(c, k) \/ CancelFlags(c, k)
    PROVE  Quiet'
BY QuietSame DEF CancelAuto, CancelFlags, maps

(* The maps are those of the run for whoever works on it past the dial. *)
LEMMA OwnerFinds ==
    ASSUME Basic, Quiet, NEW p \in Procs, pc[p] \notin {"idle", "dial", "rollback", "terminate", "cleanup"}
    PROVE  LET i == loc[p].run
               k == rec[i].mod
           IN  /\ rec[i].state = "running" => plans[k] = i /\ clients[k] = i
               /\ lost = 0 => disk[k] = [run |-> i, rec |-> rec[i]]
               /\ Equipped(i) /\ loc[p].client = i
<1>i. PICK i : i = loc[p].run
  OBVIOUS
<1>k. PICK k : k = rec[i].mod
  OBVIOUS
<1>1. i \in Runs /\ k \in Modules /\ installs[k] = i /\ \A q \in Procs : q # p => ~OnRun(q, i)
  BY <1>i, <1>k, Owner
<1>2. ~At(i, {"dial"}) /\ ~At(i, {"dial", "rollback", "terminate"})
  BY <1>1, AloneAt
<1>3. Registered(k) /\ Filed(k) /\ Works(p) /\ i # NoRun
  BY <1>1 DEF Quiet, NoRun, Runs
<1> QED BY <1>i, <1>k, <1>1, <1>2, <1>3 DEF Registered, Filed, Works

LEMMA QuietPanics ==
    ASSUME Basic, Quiet, NEW c \in Callers, StepPanics(c)
    PROVE  Quiet'
<1>i. PICK i : i = loc[c].run
  OBVIOUS
<1>k. PICK k : k = rec[i].mod
  OBVIOUS
<1>0. c \in Procs /\ pc[c] = "begin" /\ Return(c)
      /\ UNCHANGED <<installs, cancels, clients, plans, busy, rec, disk, ssh, lost>>
  BY CallerIsProc DEF StepPanics, maps
<1>1. i \in Runs /\ k \in Modules /\ installs[k] = i /\ \A q \in Procs : q # c => ~OnRun(q, i)
  BY <1>i, <1>k, <1>0, Owner
<1>2. /\ rec[i].state = "running" => plans[k] = i /\ clients[k] = i
      /\ lost = 0 => disk[k] = [run |-> i, rec |-> rec[i]]
      /\ Equipped(i) /\ rec[i].state = "running"
  BY <1>i, <1>k, <1>0, OwnerFinds DEF Quiet, OwnsKey
<1>3. pc'[c] = "idle" /\ \A q \in Procs : q # c => pc'[q] = pc[q] /\ loc'[q] = loc[q]
  BY <1>0, Returned
<1>4. Steps(c, i, k)
  BY <1>0, <1>1, <1>3 DEF Steps
<1>5. (Registered(k) /\ Filed(k))'
  BY <1>0, <1>1, <1>2 DEF Registered, Filed, Equipped
<1>6. Sound(i)'
  BY <1>0, <1>1, <1>2 DEF Quiet, Sound
<1>7. (OwnsKey(c) /\ Claimed(c) /\ Works(c))'
  BY <1>3, IdleWorks
<1> QED BY <1>i, <1>0, <1>1, <1>4, <1>5, <1>6, <1>7, OwnerStep

(* A record written and saved: the file follows unless the write is lost.  *)
LEMMA SaveHere ==
    ASSUME Basic, NEW i \in Runs, Known(i), NEW q, Wrote(i, q), NEW k, k = rec[i].mod,
           (Save(i) /\ UNCHANGED installs) \/ SaveAndCascade(i), ~overlap'
    PROVE  /\ rec'[i] = q /\ q \in Installs /\ Same(rec[i], q) /\ planLen(q) = planLen(rec[i])
           /\ k \in Modules /\ q.mod = k
           /\ \A j \in Runs : j # i => rec'[j] = rec[j]
           /\ lost' = 0 => lost = 0 /\ disk'[k] = [run |-> i, rec |-> q]
           /\ installs'[k] = installs[k]
           /\ \A m \in Modules : m # k =>
                 \/ installs'[m] = installs[m] /\ disk'[m] = disk[m]
                 \/ installs'[m] = NoRun /\ ~InFlight(installs[m])
           /\ \A m \in Modules : disk'[m] = disk[m] \/ disk'[m].rec \in {q, NoInstall}
<1>1. /\ rec'[i] = q /\ q \in Installs /\ Same(rec[i], q) /\ planLen(q) = planLen(rec[i])
      /\ \A j \in Runs : j # i => rec'[j] = rec[j]
  BY WroteOne, SamePlan DEF Wrote
<1>2. k \in Modules /\ q.mod = k
  BY <1>1 DEF Known, Installs, Same
<1>3. lost \in 0..MaxFaults
  BY DEF Basic, Counts
<1>4. CASE Save(i) /\ UNCHANGED installs
  <2>1. /\ lost <= lost' /\ lost' \in 0..MaxFaults
        /\ \A m \in Modules : disk'[m] = disk[m] \/ m = k
        /\ disk' = disk \/ disk'[k] = [run |-> i, rec |-> q]
        /\ lost' = lost => disk'[k] = [run |-> i, rec |-> q]
    BY <1>1, <1>2, <1>4, SaveFiles
  <2>2. lost' = 0 => lost = 0 /\ lost' = lost
    BY <1>3, <2>1, Constants
  <2>3. \A m \in Modules : disk'[m] = disk[m] \/ disk'[m].rec = q
    BY <2>1
  <2> QED BY <1>1, <1>2, <1>4, <2>1, <2>2, <2>3
<1>5. CASE SaveAndCascade(i)
  <2>1. /\ lost <= lost' /\ lost' \in 0..MaxFaults
        /\ \A m \in Modules :
              \/ installs'[m] = installs[m] /\ (disk'[m] = disk[m] \/ m = k)
              \/ /\ installs'[m] = NoRun /\ disk'[m] = NoFile /\ m # AppFW
                 /\ k = AppFW
                 /\ ~InFlight(installs[m])
        /\ disk'[k] \in {disk[k], [run |-> i, rec |-> q]}
        /\ lost' = lost => disk'[k] = [run |-> i, rec |-> q]
    BY <1>1, <1>5, CascadeFiles
  <2>2. lost' = 0 => lost = 0 /\ lost' = lost
    BY <1>3, <2>1, Constants
  <2>3. NoFile.rec = NoInstall
    BY DEF NoFile
  <2>4. \A m \in Modules : disk'[m] = disk[m] \/ disk'[m].rec \in {q, NoInstall}
    BY <2>1, <2>3
  <2> QED BY <1>1, <1>2, <2>1, <2>2, <2>4
<1> QED BY <1>4, <1>5

(* The owner of a run writes its record and goes on. *)
LEMMA OwnerWrites ==
    ASSUME Basic, Quiet, NEW p \in Procs, pc[p] \notin {"idle", "cleanup"},
           NEW i, i = loc[p].run, NEW k, k = rec[i].mod, NEW q, Wrote(i, q),
           (Save(i) /\ UNCHANGED installs) \/ SaveAndCascade(i), ~overlap',
           \A r \in Procs : r # p => pc'[r] = pc[r] /\ loc'[r] = loc[r],
           pc'[p] # "idle" => loc'[p] = loc[p],
           UNCHANGED <<plans, clients, cancels, ssh>>,
           \A m \in Modules : m # k => busy'[m] = busy[m]
    PROVE  /\ Steps(p, i, k)
           /\ i \in Runs /\ k \in Modules /\ installs[k] = i /\ installs'[k] = i
           /\ \A r \in Procs : r # p => ~OnRun(r, i)
           /\ rec'[i] = q /\ q \in Installs /\ q.mod = k
           /\ lost' = 0 => disk'[k] = [run |-> i, rec |-> q]
           /\ pc[p] # "dial" /\ DOMAIN q.steps = DOMAIN rec[i].steps =>
                 Equipped(i)' /\ ssh'[i] = "open"
<1>1. /\ i \in Runs /\ Known(i) /\ k \in Modules /\ installs[k] = i
      /\ \A r \in Procs : r # p => ~OnRun(r, i)
  BY Owner
<1>2. /\ rec'[i] = q /\ q \in Installs /\ planLen(q) = planLen(rec[i]) /\ q.mod = k
      /\ \A j \in Runs : j # i => rec'[j] = rec[j]
      /\ lost' = 0 => lost = 0 /\ disk'[k] = [run |-> i, rec |-> q]
      /\ installs'[k] = installs[k]
      /\ \A m \in Modules : m # k =>
            \/ installs'[m] = installs[m] /\ disk'[m] = disk[m]
            \/ installs'[m] = NoRun /\ ~InFlight(installs[m])
      /\ \A m \in Modules : disk'[m] = disk[m] \/ disk'[m].rec \in {q, NoInstall}
  BY <1>1, SaveHere
<1>3. Steps(p, i, k)
  BY <1>1, <1>2 DEF Steps
<1>4. pc[p] # "dial" => Equipped(i)
  BY DEF Quiet, Works
<1> QED BY <1>1, <1>2, <1>3, <1>4 DEF Equipped

LEMMA QuietBegins ==
    ASSUME Basic, Quiet, NEW p \in Procs, StepBegins(p), ~overlap'
    PROVE  Quiet'
<1>i. PICK i : i = loc[p].run
  OBVIOUS
<1>k. PICK k : k = rec[i].mod
  OBVIOUS
<1>0. /\ pc[p] = "begin" /\ Goto(p, "exec") /\ Save(i)
      /\ UNCHANGED <<installs, cancels, clients, plans, busy, ssh, loc>>
  BY <1>i DEF StepBegins, maps
<1>1. PICK q : /\ Wrote(i, q) /\ q.state = rec[i].state /\ q.current = rec[i].current
               /\ q.steps = [rec[i].steps EXCEPT ![loc[p].idx] = "active"]
  BY <1>i, StepBeginsWrites
<1>2. pc'[p] = "exec" /\ loc'[p] = loc[p] /\ \A r \in Procs : r # p => pc'[r] = pc[r] /\ loc'[r] = loc[r]
  BY <1>0, Went
<1>3. /\ Steps(p, i, k) /\ i \in Runs /\ k \in Modules /\ installs[k] = i /\ installs'[k] = i
      /\ \A r \in Procs : r # p => ~OnRun(r, i)
      /\ rec'[i] = q /\ q.mod = k
      /\ lost' = 0 => disk'[k] = [run |-> i, rec |-> q]
      /\ Equipped(i)' /\ ssh'[i] = "open"
  BY <1>i, <1>k, <1>0, <1>1, <1>2, OwnerWrites
<1>4. /\ rec[i].state = "running" /\ plans[k] = i /\ clients[k] = i /\ loc[p].client = i
      /\ loc[p].plan = i /\ loc[p].idx = rec[i].current
  BY <1>i, <1>k, <1>0, OwnerFinds DEF Quiet, OwnsKey, Works, Stepping
<1>5. (OwnsKey(p) /\ Claimed(p) /\ Works(p))'
  <2>1. OwnsKey(p)'
    BY <1>i, <1>1, <1>2, <1>3, <1>4 DEF OwnsKey
  <2>2. Claimed(p)
    BY DEF Quiet
  <2>3. Claimed(p)'
    BY <1>i, <1>k, <1>0, <1>2, <1>3, <2>2 DEF Claimed, Stepping
  <2>4. Works(p)'
    BY <1>i, <1>1, <1>2, <1>3, <1>4 DEF Works, Stepping
  <2> QED BY <2>1, <2>3, <2>4
<1>6. (Registered(k) /\ Filed(k))'
  BY <1>0, <1>3, <1>4 DEF Registered, Filed
<1>7. Sound(i)'
  <2>1. Behind(rec[i], rec[i].current)
    BY <1>3, <1>4 DEF Quiet, Sound
  <2>2. Behind(q, q.current)
    <3> SUFFICES ASSUME NEW s \in DOMAIN q.steps, s < q.current PROVE q.steps[s] \in {"done", "skipped"}
      BY DEF Behind
    <3>1. s \in DOMAIN rec[i].steps /\ s # loc[p].idx
      <4>1. rec[i] \in Installs
        BY <1>i, <1>0, Owner
      <4>2. s \in DOMAIN rec[i].steps
        BY <1>1
      <4>3. s \in Nat
        BY <4>1, <4>2, StepsCount
      <4> QED BY <1>1, <1>4, <4>2, <4>3
    <3>2. q.steps[s] = rec[i].steps[s]
      BY <1>1, <3>1
    <3> QED BY <1>1, <2>1, <3>1, <3>2 DEF Behind
  <2> QED BY <1>1, <1>3, <1>4, <2>2 DEF Sound, Whole
<1>8. pc[p] # "idle" => loc[p].run = i
  BY <1>i
<1> QED BY <1>3, <1>5, <1>6, <1>7, <1>8, OwnerStep

LEMMA QuietTerminate ==
    ASSUME Basic, Quiet, NEW p \in Procs, Terminate(p), ~overlap'
    PROVE  Quiet'
<1>i. PICK i : i = loc[p].run
  OBVIOUS
<1>k. PICK k : k = rec[i].mod
  OBVIOUS
<1>0. /\ pc[p] = "terminate" /\ Goto(p, "cleanup") /\ Save(i)
      /\ UNCHANGED <<installs, cancels, clients, plans, busy, ssh, loc>>
  BY <1>i DEF Terminate, maps
<1>1. PICK q : /\ Wrote(i, q) /\ q.state = "cancelled" /\ DOMAIN q.steps = DOMAIN rec[i].steps
  BY <1>i, TerminateWrites
<1>2. pc'[p] = "cleanup" /\ loc'[p] = loc[p] /\ \A r \in Procs : r # p => pc'[r] = pc[r] /\ loc'[r] = loc[r]
  BY <1>0, Went
<1>3. /\ Steps(p, i, k) /\ i \in Runs /\ k \in Modules /\ installs[k] = i /\ installs'[k] = i
      /\ \A r \in Procs : r # p => ~OnRun(r, i)
      /\ rec'[i] = q /\ q.mod = k
      /\ lost' = 0 => disk'[k] = [run |-> i, rec |-> q]
      /\ Equipped(i)' /\ ssh'[i] = "open"
  BY <1>i, <1>k, <1>0, <1>1, <1>2, OwnerWrites
<1>4. (OwnsKey(p) /\ Claimed(p) /\ Works(p))'
  <2>1. loc[p].client = i
    BY <1>i, <1>0 DEF Quiet, Works
  <2>2. OwnsKey(p)'
    BY <1>i, <1>1, <1>2, <1>3 DEF OwnsKey
  <2>3. Claimed(p)'
    BY <1>2 DEF Claimed, Stepping
  <2>4. Works(p)'
    BY <1>i, <1>2, <1>3, <2>1 DEF Works, Stepping
  <2> QED BY <2>2, <2>3, <2>4
<1>5. (Registered(k) /\ Filed(k))'
  BY <1>1, <1>3 DEF Registered, Filed
<1>6. Sound(i)'
  <2>1. OnRun(p, i)'
    BY <1>i, <1>2 DEF OnRun
  <2> QED BY <1>1, <1>3, <2>1 DEF Sound, Whole
<1>7. pc[p] # "idle" => loc[p].run = i
  BY <1>i
<1> QED BY <1>3, <1>4, <1>5, <1>6, <1>7, OwnerStep

(* The owner of a run goes on without writing. *)
LEMMA OwnerMoves ==
    ASSUME Basic, Quiet, NEW p \in Procs, pc[p] \in Stepping \cup {"loop"},
           NEW i, i = loc[p].run, NEW k, k = rec[i].mod,
           UNCHANGED <<installs, plans, clients, cancels, ssh, rec, disk, lost>>,
           \A r \in Procs : r # p => pc'[r] = pc[r] /\ loc'[r] = loc[r],
           pc'[p] # "idle" /\ loc'[p].run = i,
           \A m \in Modules : m # k => busy'[m] = busy[m],
           (OwnsKey(p) /\ Claimed(p) /\ Works(p))'
    PROVE  Quiet'
<1>1. /\ i \in Runs /\ Known(i) /\ k \in Modules /\ installs[k] = i
      /\ \A r \in Procs : r # p => ~OnRun(r, i)
  BY Owner DEF Stepping
<1>2. Steps(p, i, k)
  BY <1>1 DEF Steps
<1>3. /\ rec[i].state = "running" => plans[k] = i /\ clients[k] = i
      /\ lost = 0 => disk[k] = [run |-> i, rec |-> rec[i]]
      /\ Equipped(i)
  BY OwnerFinds DEF Stepping
<1>4. (Registered(k) /\ Filed(k))'
  BY <1>1, <1>3 DEF Registered, Filed, Equipped
<1>5. Sound(i)'
  <2>1. OnRun(p, i)'
    BY DEF OnRun
  <2> QED BY <1>1, <2>1 DEF Quiet, Sound
<1> QED BY <1>1, <1>2, <1>4, <1>5, OwnerStep

(* A run whose every step is behind it is whole. *)
LEMMA BehindAll ==
    ASSUME NEW r, NEW n \in Nat, DOMAIN r.steps = 1..planLen(r), n > planLen(r), Behind(r, n)
    PROVE  Whole(r)
BY PlanLength, Constants DEF Behind, Whole, Finished

LEMMA QuietNextAfter ==
    ASSUME Basic, Quiet, NEW c \in Callers, NextAfter(c), ~overlap'
    PROVE  Quiet'
<1>i. PICK i : i = loc[c].run
  OBVIOUS
<1>k. PICK k : k = rec[i].mod
  OBVIOUS
<1>0. c \in Procs /\ c \notin Runs /\ pc[c] = "after"
  BY CallerIsProc DEF NextAfter
<1>1. i \in Runs /\ k \in Modules /\ installs[k] = i /\ rec[i] \in Installs
  BY <1>i, <1>k, <1>0, Owner
<1>2. /\ UNCHANGED <<installs, cancels, clients, plans, ssh>>
      /\ \A m \in Modules : m # k => busy'[m] = busy[m]
  BY <1>i, <1>k DEF NextAfter, Basic, Others
<1>3. /\ rec[i].state = "running" => plans[k] = i /\ clients[k] = i
      /\ Equipped(i) /\ loc[c].client = i /\ loc[c].plan = i
  BY <1>i, <1>k, <1>0, OwnerFinds DEF Quiet, Works, Stepping
<1>4. CASE ~cancelReq[k] /\ rec[i].state = "running"
  <2>1. PICK q : /\ Wrote(i, q)
                 /\ q.current = rec[i].current + 1
                 /\ q.state = IF q.current > planLen(rec[i]) THEN "done" ELSE "running"
                 /\ q.steps = rec[i].steps
    BY <1>i, <1>k, <1>3, <1>4, NextAfterWrites
  <2>2. Save(i)
    BY <1>i, <1>k, <1>4 DEF NextAfter
  <2>3. rec' = [rec EXCEPT ![i] = q]
    BY <2>1 DEF Wrote
  <2>4. rec'[i] = q
    BY <1>1, <2>3 DEF Basic
  <2>5. \/ q.state # "running" /\ Goto(c, "cleanup") /\ UNCHANGED loc
        \/ q.state = "running" /\ Return(c)
    BY <1>i, <1>k, <1>4, <2>4 DEF NextAfter
  <2>6. /\ \A r \in Procs : r # c => pc'[r] = pc[r] /\ loc'[r] = loc[r]
        /\ \/ q.state = "done" /\ pc'[c] = "cleanup" /\ loc'[c] = loc[c]
           \/ q.state = "running" /\ pc'[c] = "idle"
    BY <1>0, <2>1, <2>5, Went, Returned
  <2>7. /\ Steps(c, i, k) /\ installs'[k] = i
        /\ \A r \in Procs : r # c => ~OnRun(r, i)
        /\ q \in Installs /\ q.mod = k
        /\ lost' = 0 => disk'[k] = [run |-> i, rec |-> q]
        /\ Equipped(i)' /\ ssh'[i] = "open"
    BY <1>i, <1>k, <1>0, <1>2, <2>1, <2>2, <2>6, OwnerWrites
  <2>8. (OwnsKey(c) /\ Claimed(c) /\ Works(c))'
    <3>1. CASE pc'[c] = "idle"
      BY <3>1, IdleWorks
    <3>2. CASE pc'[c] = "cleanup" /\ loc'[c] = loc[c] /\ q.state = "done"
      <4>1. OwnsKey(c)'
        BY <1>i, <2>4, <3>2 DEF OwnsKey
      <4>2. Claimed(c)'
        BY <3>2 DEF Claimed, Stepping
      <4>3. Works(c)'
        BY <1>i, <1>3, <2>7, <3>2 DEF Works, Stepping
      <4> QED BY <4>1, <4>2, <4>3
    <3> QED BY <2>6, <3>1, <3>2
  <2>9. (Registered(k) /\ Filed(k))'
    BY <1>2, <1>3, <1>4, <2>4, <2>7 DEF Registered, Filed
  <2>10. Sound(i)'
    <3>1. Behind(rec[i], rec[i].current + 1)
      BY <1>i, <1>0, <1>4 DEF Quiet, Works
    <3>2. Behind(q, q.current)
      BY <2>1, <3>1 DEF Behind
    <3>3. q.state = "done" => Whole(q)
      <4>1. DOMAIN q.steps = 1..planLen(q) /\ planLen(q) = planLen(rec[i])
        BY <2>1, <1>3, SamePlan DEF Wrote, Equipped
      <4>2. q.current \in Nat
        BY <1>1, <2>1, Constants DEF Installs
      <4> QED BY <2>1, <3>2, <4>1, <4>2, BehindAll
    <3>4. pc'[c] # "idle" => OnRun(c, i)'
      BY <1>i, <2>6 DEF OnRun
    <3>5. Whole(q)
      BY <3>3 DEF Whole
    <3> QED BY <1>0, <2>4, <2>6, <2>7, <3>2, <3>4, <3>5 DEF Sound
  <2> QED BY <1>i, <1>0, <1>1, <2>7, <2>8, <2>9, <2>10, OwnerStep
<1>5. CASE ~(~cancelReq[k] /\ rec[i].state = "running")
  <2>1. UNCHANGED <<rec, disk, lost>>
    BY <1>i, <1>k, <1>5 DEF NextAfter
  <2>2. \/ Goto(c, "terminate") /\ UNCHANGED loc
        \/ Goto(c, "cleanup") /\ UNCHANGED loc /\ rec[i].state # "running"
    <3>1. CASE cancelReq[k]
      BY <1>i, <1>k, <3>1 DEF NextAfter
    <3>2. CASE ~cancelReq[k] /\ rec[i].state # "running"
      BY <1>i, <1>k, <2>1, <3>2 DEF NextAfter
    <3> QED BY <1>5, <3>1, <3>2
  <2>3. /\ loc'[c] = loc[c] /\ \A r \in Procs : r # c => pc'[r] = pc[r] /\ loc'[r] = loc[r]
        /\ pc'[c] = "terminate" \/ (pc'[c] = "cleanup" /\ rec[i].state # "running")
    BY <1>0, <2>2, Went
  <2>4. (OwnsKey(c) /\ Claimed(c) /\ Works(c))'
    <3>1. OwnsKey(c)'
      BY <1>i, <1>k, <1>1, <1>2, <2>1, <2>3 DEF OwnsKey
    <3>2. Claimed(c)'
      BY <1>0, <2>3 DEF Claimed, Stepping
    <3>3. Works(c)'
      BY <1>i, <1>2, <1>3, <2>1, <2>3 DEF Works, Stepping, Equipped
    <3> QED BY <3>1, <3>2, <3>3
  <2>5. pc[c] \in Stepping \cup {"loop"} /\ pc'[c] # "idle" /\ loc'[c].run = i
    BY <1>i, <1>0, <2>3 DEF Stepping
  <2> QED BY <1>i, <1>k, <1>0, <1>2, <2>1, <2>3, <2>4, <2>5, OwnerMoves
<1> QED BY <1>4, <1>5

LEMMA QuietEnds ==
    ASSUME Basic, Quiet, NEW p \in Procs, NEW outcome \in StepStates, StepEnds(p, outcome), ~overlap'
    PROVE  Quiet'
<1>i. PICK i : i = loc[p].run
  OBVIOUS
<1>k. PICK k : k = rec[i].mod
  OBVIOUS
<1>s. PICK s : s = loc[p].idx
  OBVIOUS
<1>0. pc[p] = "exec" /\ UNCHANGED <<cancels, clients, plans, busy, ssh, loc>>
  BY DEF StepEnds
<1>1. PICK q : /\ Wrote(i, q) /\ q.current = rec[i].current
               /\ outcome = "error" => q.state \in {"cancelled", "error"}
               /\ outcome # "error" =>
                     /\ outcome \in {"done", "skipped"}
                     /\ q.state = IF s > Work THEN "done" ELSE rec[i].state
               /\ q.steps = [rec[i].steps EXCEPT ![s] = outcome]
  BY <1>i, <1>s, StepEndsWrites
<1>2. (Save(i) /\ UNCHANGED installs) \/ SaveAndCascade(i)
  BY <1>i DEF StepEnds
<1>3. PICK x \in {"cleanup", "after"} : Goto(p, x) /\ (x = "cleanup" => outcome = "error")
  BY DEF StepEnds
<1>4. pc'[p] = x /\ loc'[p] = loc[p] /\ \A r \in Procs : r # p => pc'[r] = pc[r] /\ loc'[r] = loc[r]
  BY <1>0, <1>3, Went
<1>5. /\ rec[i].state = "running" /\ plans[k] = i /\ clients[k] = i /\ loc[p].client = i
      /\ loc[p].plan = i /\ s = rec[i].current /\ Equipped(i)
  BY <1>i, <1>k, <1>s, <1>0, OwnerFinds DEF Quiet, OwnsKey, Works, Stepping
<1>6. rec[i] \in Installs /\ s \in 1..(Work + 2) /\ s \in 0..(Work + 1) /\ i \in Runs
  <2>1. rec[i] \in Installs /\ loc[p] \in Locals /\ i \in Runs
    BY <1>i, <1>0, Standing
  <2> QED BY <1>s, <1>5, <2>1 DEF Installs, Locals
<1>7. /\ Steps(p, i, k) /\ i \in Runs /\ k \in Modules /\ installs[k] = i /\ installs'[k] = i
      /\ \A r \in Procs : r # p => ~OnRun(r, i)
      /\ rec'[i] = q /\ q.mod = k
      /\ lost' = 0 => disk'[k] = [run |-> i, rec |-> q]
      /\ Equipped(i)' /\ ssh'[i] = "open"
  BY <1>i, <1>k, <1>0, <1>1, <1>2, <1>4, OwnerWrites
<1>8. (OwnsKey(p) /\ Claimed(p) /\ Works(p))'
  <2>1. Behind(rec[i], rec[i].current)
    BY <1>5, <1>6 DEF Quiet, Sound
  <2>2. outcome # "error" => Behind(q, s + 1)
    <3> SUFFICES ASSUME outcome # "error", NEW u \in DOMAIN q.steps, u < s + 1
                 PROVE  q.steps[u] \in {"done", "skipped"}
      BY DEF Behind
    <3>1. u \in DOMAIN rec[i].steps
      BY <1>1
    <3>2. u \in Nat
      BY <1>6, <3>1, StepsCount
    <3>3. CASE u = s
      BY <1>1, <3>1, <3>3
    <3>4. CASE u # s
      <4>1. u < s
        BY <1>6, <3>2, <3>4
      <4>2. q.steps[u] = rec[i].steps[u]
        BY <1>1, <3>1, <3>4
      <4> QED BY <1>5, <2>1, <3>1, <4>1, <4>2 DEF Behind
    <3> QED BY <3>3, <3>4
  <2>3. OwnsKey(p)'
    BY <1>i, <1>1, <1>3, <1>4, <1>7 DEF OwnsKey
  <2>4. Claimed(p)'
    <3>1. Claimed(p)
      BY DEF Quiet
    <3> QED BY <1>i, <1>k, <1>0, <1>4, <1>7, <3>1 DEF Claimed, Stepping
  <2>5. Works(p)'
    BY <1>i, <1>s, <1>1, <1>4, <1>5, <1>7, <2>2 DEF Works, Stepping
  <2> QED BY <2>3, <2>4, <2>5
<1>9. (Registered(k) /\ Filed(k))'
  BY <1>0, <1>5, <1>7 DEF Registered, Filed
<1>10. Sound(i)'
  <2>1. OnRun(p, i)'
    BY <1>i, <1>4 DEF OnRun
  <2>2. Behind(rec[i], s)
    BY <1>5, <1>6 DEF Quiet, Sound
  <2>3. Behind(q, s)
    <3> SUFFICES ASSUME NEW u \in DOMAIN q.steps, u < s PROVE q.steps[u] \in {"done", "skipped"}
      BY DEF Behind
    <3>1. u \in DOMAIN rec[i].steps
      BY <1>1
    <3>2. u \in Nat
      BY <1>6, <3>1, StepsCount
    <3>3. q.steps[u] = rec[i].steps[u]
      BY <1>1, <1>6, <3>1, <3>2
    <3> QED BY <2>2, <3>1, <3>3 DEF Behind
  <2>4. Whole(q)
    <3> SUFFICES ASSUME q.state = "done" PROVE Finished(q) /\ DOMAIN q.steps = 1..planLen(q)
      BY DEF Whole
    <3>1. outcome \in {"done", "skipped"} /\ s > Work
      BY <1>1, <1>5
    <3>2. DOMAIN q.steps = 1..planLen(q) /\ planLen(q) \in 1..(Work + 1)
      BY <1>7, PlanLength DEF Equipped
    <3>3. ASSUME NEW u \in DOMAIN q.steps PROVE q.steps[u] \in {"done", "skipped"}
      <4>1. CASE u = s
        <5>1. s \in DOMAIN rec[i].steps
          BY <1>1, <4>1
        <5> QED BY <1>1, <3>1, <4>1, <5>1
      <4>2. CASE u # s
        <5>1. u < s
          BY <1>6, <3>1, <3>2, <4>2, Constants
        <5> QED BY <2>3, <5>1 DEF Behind
      <4> QED BY <4>1, <4>2
    <3> QED BY <3>2, <3>3 DEF Finished
  <2>5. Behind(q, q.current)
    BY <1>1, <1>5, <2>3
  <2> QED BY <1>7, <2>1, <2>4, <2>5 DEF Sound
<1>11. pc[p] # "idle" => loc[p].run = i
  BY <1>i
<1> QED BY <1>7, <1>8, <1>9, <1>10, <1>11, OwnerStep

LEMMA QuietRunner ==
    ASSUME Basic, Quiet, NEW i \in Runs, Runner(i), ~overlap'
    PROVE  Quiet'
<1>k. PICK k : k = rec[i].mod
  OBVIOUS
<1>0. i \in Procs /\ i \notin Callers /\ pc[i] \in {"loop", "after"} /\ Stand(i, pc[i], loc[i])
  BY RunnerIsProc DEF Runner, RunStops, RunContinues, RunFinishes, RunAfter, Basic, Places
<1>1. loc[i].run = i /\ loc[i].plan = i
  BY <1>0 DEF Stand
<1>2. k \in Modules /\ installs[k] = i /\ rec[i] \in Installs /\ \A r \in Procs : r # i => ~OnRun(r, i)
  BY <1>k, <1>0, <1>1, Owner
<1>3. /\ rec[i].state = "running" => plans[k] = i /\ clients[k] = i
      /\ Equipped(i) /\ loc[i].client = i
  BY <1>k, <1>0, <1>1, OwnerFinds
<1>4. pc[i] = "loop" => rec[i].state = "running"
  BY <1>0, <1>1 DEF Quiet, OwnsKey
<1>5. cancels[k] = i
  BY <1>k, <1>0, <1>1 DEF Quiet, Claimed
<1>6. CASE RunStops(i) \/ (RunAfter(i) /\ rec[i].state # "running")
  <2>1. /\ UNCHANGED <<installs, cancels, clients, plans, busy, rec, disk, ssh, loc, lost>>
        /\ \/ Goto(i, "terminate")
           \/ Goto(i, "cleanup") /\ rec[i].state # "running"
    BY <1>6 DEF RunStops, RunAfter, maps
  <2>2. /\ loc'[i] = loc[i] /\ \A r \in Procs : r # i => pc'[r] = pc[r] /\ loc'[r] = loc[r]
        /\ pc'[i] = "terminate" \/ (pc'[i] = "cleanup" /\ rec[i].state # "running")
    BY <1>0, <2>1, Went
  <2>3. (OwnsKey(i) /\ Claimed(i) /\ Works(i))'
    <3>1. OwnsKey(i)'
      BY <1>k, <1>1, <1>2, <2>1, <2>2 DEF OwnsKey
    <3>2. Claimed(i)'
      BY <1>k, <1>0, <1>1, <1>5, <2>1, <2>2 DEF Claimed, Stepping
    <3>3. Works(i)'
      BY <1>1, <1>3, <2>1, <2>2 DEF Works, Stepping, Equipped
    <3> QED BY <3>1, <3>2, <3>3
  <2>4. pc[i] \in Stepping \cup {"loop"} /\ pc'[i] # "idle" /\ loc'[i].run = i /\ i = loc[i].run
    BY <1>0, <1>1, <2>2 DEF Stepping
  <2> QED BY <1>k, <1>0, <2>1, <2>2, <2>3, <2>4, OwnerMoves
<1>7. CASE RunContinues(i)
  <2> DEFINE l == [loc[i] EXCEPT !.idx = rec[i].current]
  <2>1. /\ UNCHANGED <<installs, cancels, clients, plans, busy, rec, disk, ssh, lost>>
        /\ pc' = [pc EXCEPT ![i] = "begin"] /\ pc[i] = "loop"
    BY <1>7 DEF RunContinues, Goto, maps
  <2>2. loc' = [loc EXCEPT ![i] = l]
    BY <1>7 DEF RunContinues
  <2>3. l.run = i /\ l.plan = i /\ l.client = i /\ l.idx = rec[i].current
    BY <1>0, <1>1, <1>3, Standing DEF Locals
  <2> HIDE DEF l
  <2>4. pc'[i] = "begin" /\ loc'[i] = l /\ \A r \in Procs : r # i => pc'[r] = pc[r] /\ loc'[r] = loc[r]
    BY <1>0, <2>1, <2>2 DEF Basic, Places
  <2>5. (OwnsKey(i) /\ Claimed(i) /\ Works(i))'
    <3>1. OwnsKey(i)'
      BY <1>k, <1>2, <1>4, <2>1, <2>3, <2>4 DEF OwnsKey
    <3>2. Claimed(i)'
      BY <1>k, <1>0, <1>5, <2>1, <2>3, <2>4 DEF Claimed
    <3>3. Works(i)'
      BY <1>3, <2>1, <2>3, <2>4 DEF Works, Equipped
    <3> QED BY <3>1, <3>2, <3>3
  <2>6. pc[i] \in Stepping \cup {"loop"} /\ pc'[i] # "idle" /\ loc'[i].run = i /\ i = loc[i].run
    BY <1>1, <2>1, <2>3, <2>4
  <2> QED BY <1>k, <1>0, <2>1, <2>4, <2>5, <2>6, OwnerMoves
<1>8. CASE RunFinishes(i)
  <2>1. PICK q : Wrote(i, q) /\ q.state = "done" /\ q.current = rec[i].current /\ q.steps = rec[i].steps
    BY <1>8, RunFinishesWrites
  <2>2. /\ pc[i] = "loop" /\ rec[i].current > planLen(rec[i])
        /\ UNCHANGED <<cancels, clients, plans, busy, ssh, loc>>
        /\ Goto(i, "cleanup") /\ SaveAndCascade(i)
    BY <1>8 DEF RunFinishes
  <2>3. pc'[i] = "cleanup" /\ loc'[i] = loc[i] /\ \A r \in Procs : r # i => pc'[r] = pc[r] /\ loc'[r] = loc[r]
    BY <1>0, <2>2, Went
  <2>4. /\ Steps(i, i, k) /\ installs'[k] = i
        /\ rec'[i] = q /\ q.mod = k
        /\ lost' = 0 => disk'[k] = [run |-> i, rec |-> q]
        /\ Equipped(i)' /\ ssh'[i] = "open"
    BY <1>k, <1>0, <1>1, <2>1, <2>2, <2>3, OwnerWrites
  <2>5. (OwnsKey(i) /\ Claimed(i) /\ Works(i))'
    <3>1. OwnsKey(i)'
      BY <1>1, <2>1, <2>3, <2>4 DEF OwnsKey
    <3>2. Claimed(i)'
      BY <2>3 DEF Claimed, Stepping
    <3>3. Works(i)'
      BY <1>1, <1>3, <2>3, <2>4 DEF Works, Stepping
    <3> QED BY <3>1, <3>2, <3>3
  <2>6. (Registered(k) /\ Filed(k))'
    BY <2>1, <2>4 DEF Registered, Filed
  <2>7. Sound(i)'
    <3>1. Behind(rec[i], rec[i].current)
      BY <1>4, <2>2 DEF Quiet, Sound
    <3>2. Behind(q, q.current)
      BY <2>1, <3>1 DEF Behind
    <3>3. DOMAIN q.steps = 1..planLen(q) /\ planLen(q) = planLen(rec[i])
      BY <1>3, <2>1, SamePlan DEF Wrote, Equipped
    <3>4. q.current \in Nat
      BY <1>2, <2>1, Constants DEF Installs
    <3>5. Whole(q)
      BY <2>1, <2>2, <3>2, <3>3, <3>4, BehindAll
    <3>6. OnRun(i, i)'
      BY <1>1, <2>3 DEF OnRun
    <3> QED BY <1>0, <2>1, <2>4, <3>5, <3>6 DEF Sound
  <2> QED BY <1>0, <1>1, <1>2, <2>4, <2>5, <2>6, <2>7, OwnerStep
<1>9. CASE RunAfter(i) /\ rec[i].state = "running"
  <2>1. PICK q : Wrote(i, q) /\ q.state = "running" /\ q.current = rec[i].current + 1 /\ q.steps = rec[i].steps
    BY <1>9, RunAfterWrites
  <2>2. /\ pc[i] = "after" /\ UNCHANGED <<installs, cancels, clients, plans, busy, ssh, loc>>
        /\ Goto(i, "loop") /\ Save(i)
    BY <1>9 DEF RunAfter, maps
  <2>3. pc'[i] = "loop" /\ loc'[i] = loc[i] /\ \A r \in Procs : r # i => pc'[r] = pc[r] /\ loc'[r] = loc[r]
    BY <1>0, <2>2, Went
  <2>4. /\ Steps(i, i, k) /\ installs'[k] = i
        /\ rec'[i] = q /\ q.mod = k
        /\ lost' = 0 => disk'[k] = [run |-> i, rec |-> q]
        /\ Equipped(i)' /\ ssh'[i] = "open"
    BY <1>k, <1>0, <1>1, <2>1, <2>2, <2>3, OwnerWrites
  <2>5. (OwnsKey(i) /\ Claimed(i) /\ Works(i))'
    <3>1. OwnsKey(i)'
      BY <1>1, <2>1, <2>3, <2>4 DEF OwnsKey
    <3>2. Claimed(i)'
      BY <1>0, <1>1, <1>5, <2>2, <2>3, <2>4 DEF Claimed
    <3>3. Works(i)'
      BY <1>1, <1>3, <2>3, <2>4 DEF Works, Stepping
    <3> QED BY <3>1, <3>2, <3>3
  <2>6. (Registered(k) /\ Filed(k))'
    BY <1>3, <1>9, <2>2, <2>4 DEF Registered, Filed
  <2>7. Sound(i)'
    <3>1. Behind(rec[i], rec[i].current + 1)
      BY <1>0, <1>1, <1>9, <2>2 DEF Quiet, Works
    <3>2. Behind(q, q.current)
      BY <2>1, <3>1 DEF Behind
    <3> QED BY <2>1, <2>4, <3>2 DEF Sound, Whole
  <2> QED BY <1>0, <1>1, <1>2, <2>4, <2>5, <2>6, <2>7, OwnerStep
<1> QED BY <1>6, <1>7, <1>8, <1>9 DEF Runner

LEMMA QuietCleanup ==
    ASSUME Basic, Quiet, NEW p \in Procs, Cleanup(p)
    PROVE  Quiet'
<1>i. PICK i : i = loc[p].run
  OBVIOUS
<1>k. PICK k : k = rec[i].mod
  OBVIOUS
<1>0. /\ UNCHANGED <<installs, rec, disk, lost>>
      /\ Close(loc[p].client) /\ Return(p) /\ pc[p] = "cleanup"
      /\ installs[k] # i => UNCHANGED <<cancels, clients, plans, busy, cancelReq>>
      /\ installs[k] = i => /\ cancels' = [cancels EXCEPT ![k] = NoRun]
                            /\ clients' = [clients EXCEPT ![k] = NoRun]
                            /\ plans' = [plans EXCEPT ![k] = NoRun]
                            /\ busy' = [busy EXCEPT ![k] = FALSE]
  BY <1>i, <1>k, CleanupMaps
<1>1. i \in Runs /\ k \in Modules
  BY <1>i, <1>k, <1>0, Standing
<1>2. loc[p].client = i /\ ssh[i] = "open" /\ rec[i].state # "running"
  BY <1>i, <1>0 DEF Quiet, Works, OwnsKey, Equipped
<1>3. \A r \in Procs : r # p => ~OnRun(r, i)
  BY <1>i, <1>0 DEF Quiet, Alone, OnRun
<1>4. ssh'[i] = "closed" /\ \A j \in Runs : j # i => ssh'[j] = ssh[j]
  <2>1. i # NoRun
    BY <1>1 DEF NoRun, Runs
  <2> QED BY <1>0, <1>1, <1>2, <2>1, Closes
<1>5. pc'[p] = "idle" /\ \A r \in Procs : r # p => pc'[r] = pc[r] /\ loc'[r] = loc[r]
  BY <1>0, Returned
<1>6. (OwnsKey(p) /\ Claimed(p) /\ Works(p))'
  BY <1>5, IdleWorks
<1>7. Sound(i)'
  BY <1>0, <1>1, <1>2, <1>4 DEF Quiet, Sound
<1>8. CASE installs[k] = i
  <2>1. \A m \in Modules : m # k => /\ plans'[m] = plans[m] /\ clients'[m] = clients[m]
                                    /\ busy'[m] = busy[m] /\ cancels'[m] = cancels[m]
    BY <1>0, <1>8 DEF Basic, Others, MapRefs
  <2>2. Steps(p, i, k)
    BY <1>0, <1>4, <1>5, <1>8, <2>1 DEF Steps
  <2>3. (Registered(k) /\ Filed(k))'
    <3>1. ~At(i, {"dial", "rollback", "terminate"})
      BY <1>0, <1>3, AloneAt
    <3>2. Filed(k)
      BY <1>1 DEF Quiet
    <3> QED BY <1>0, <1>2, <1>8, <3>1, <3>2 DEF Registered, Filed
  <2> QED BY <1>i, <1>1, <1>3, <1>6, <1>7, <1>8, <2>2, <2>3, OwnerStep
<1>9. CASE installs[k] # i
  <2>1. \A m \in Modules : installs'[m] # i
    BY <1>k, <1>0, <1>1, <1>9 DEF Basic, MapRefs, NoRun, Runs
  <2>2. Apart({p}, i)
    BY <1>i, <1>0, <1>1, <1>3, <1>4, <1>5, <1>9 DEF Apart
  <2>3. \A r, q \in {p} : pc'[r] # "idle" /\ pc'[q] # "idle" => r = q
    OBVIOUS
  <2>4. \A r \in {p} : (OwnsKey(r) /\ Claimed(r) /\ Works(r))'
    BY <1>6
  <2>5. \A m \in Modules : disk'[m] = disk[m]
    BY <1>0
  <2> QED BY <1>7, <2>1, <2>2, <2>3, <2>4, <2>5, QuietStep
<1> QED BY <1>8, <1>9

(* A restart finds nobody at work and every run ended, as its file says. *)
LEMMA QuietRestart ==
    ASSUME Basic, Quiet, Restart
    PROVE  Quiet'
<1>1. /\ disk' \in [Modules -> Files]
      /\ \A k \in Modules : /\ installs'[k] = disk[k].run
                            /\ disk'[k].run = disk[k].run
                            /\ disk'[k].rec = rehydrated(disk[k].rec)
      /\ \A k \in Modules : disk[k].run # NoRun =>
            disk[k].run \in Runs /\ rec'[disk[k].run] = rehydrated(disk[k].rec)
      /\ \A i \in Runs : \/ rec'[i] = NoInstall
                         \/ \E k \in Modules : disk[k].run = i /\ rec'[i] = rehydrated(disk[k].rec)
      /\ \A p \in Procs : pc'[p] = "idle" /\ loc'[p] = NoLocals
  BY Restarted
<1>2. \A i \in Runs : ssh'[i] = "none"
  BY DEF Restart
<1>3. Alone' /\ \A p \in Procs : (OwnsKey(p) /\ Claimed(p) /\ Works(p))'
  BY <1>1, IdleWorks DEF Alone, OnRun
<1>4. \A k \in Modules : disk[k].rec \in Installs \cup {NoInstall}
  BY DEF Basic, FileRefs, Files
<1>5. NoInstall.state \notin {"running", "done"} /\ rehydrated(NoInstall) = NoInstall
  BY RehydratesNone DEF NoInstall
<1>6. \A k \in Modules : rehydrated(disk[k].rec).state # "running" /\ Whole(rehydrated(disk[k].rec))
  <2> SUFFICES ASSUME NEW k \in Modules
               PROVE  rehydrated(disk[k].rec).state # "running" /\ Whole(rehydrated(disk[k].rec))
    OBVIOUS
  <2>1. CASE disk[k].rec \in Installs
    <3>1. /\ rehydrated(disk[k].rec).state # "running"
          /\ rehydrated(disk[k].rec).state = "done" => rehydrated(disk[k].rec) = disk[k].rec
      BY <2>1, Rehydrates
    <3>2. Whole(disk[k].rec)
      BY DEF Quiet
    <3>r. PICK r : r = rehydrated(disk[k].rec)
      OBVIOUS
    <3> QED BY <3>r, <3>1, <3>2 DEF Whole
  <2>2. CASE disk[k].rec = NoInstall
    BY <1>5, <2>2 DEF Whole
  <2> QED BY <1>4, <2>1, <2>2
<1>7. ASSUME NEW k \in Modules
      PROVE  (Registered(k) /\ Filed(k) /\ Whole(disk[k].rec))'
  <2>1. CASE installs'[k] = NoRun
    BY <1>1, <1>6, <2>1 DEF Registered, Filed, Whole
  <2>2. CASE installs'[k] # NoRun
    <3>1. rec'[installs'[k]] = disk'[k].rec /\ disk'[k].run = installs'[k] /\ disk'[k] \in Files
      BY <1>1, <2>2
    <3>2. disk'[k] = [run |-> installs'[k], rec |-> rec'[installs'[k]]]
      BY <3>1 DEF Files
    <3>3. rec'[installs'[k]].state # "running"
      BY <1>1, <1>6, <3>1
    <3>4. Whole(disk'[k].rec)
      BY <1>1, <1>6
    <3> QED BY <3>2, <3>3, <3>4 DEF Registered, Filed, Whole
  <2> QED BY <2>1, <2>2
<1>8. ASSUME NEW i \in Runs PROVE Sound(i)'
  <2>1. rec'[i].state # "running" /\ Whole(rec'[i])
    BY <1>1, <1>5, <1>6 DEF Whole
  <2> QED BY <1>2, <2>1 DEF Sound, Whole
<1> QED BY <1>3, <1>7, <1>8 DEF Quiet

LEMMA QuietInit == Init => Quiet
<1> SUFFICES ASSUME Init PROVE Quiet
  OBVIOUS
<1> USE DEF Init
<1>1. Alone /\ \A p \in Procs : OwnsKey(p) /\ Claimed(p) /\ Works(p)
  BY RunnerIsProc DEF Alone, OnRun, OwnsKey, Claimed, Works, Stepping
<1>2. \A k \in Modules : Registered(k) /\ Filed(k) /\ Whole(disk[k].rec)
  BY DEF Registered, Filed, Whole, NoFile, NoInstall
<1>3. \A i \in Runs : Sound(i)
  BY DEF Sound, Whole, NoInstall
<1> QED BY <1>1, <1>2, <1>3 DEF Quiet

(* Once runs have met they have met. *)
LEMMA OverlapStays == ASSUME Basic, Next \/ UNCHANGED vars, overlap PROVE overlap'
<1>1. ASSUME NEW c \in Callers, Call(c) PROVE overlap'
  BY <1>1 DEF Call, Launch, NextClaim, CancelAuto, CancelFlags, CancelMarks, DialFails, Register,
              Rollback, NextAfter, StepPanics
<1>2. ASSUME NEW i \in Runs, Runner(i) PROVE overlap'
  BY <1>2 DEF Runner, RunStops, RunContinues, RunFinishes, RunAfter, SaveAndCascade
<1>3. ASSUME NEW p \in Procs, Shared(p) PROVE overlap'
  <2>1. CASE \E outcome \in StepStates : StepEnds(p, outcome)
    BY <2>1 DEF StepEnds, SaveAndCascade
  <2>2. CASE StepBegins(p) \/ Terminate(p) \/ Cleanup(p)
    BY <2>2 DEF StepBegins, Terminate, Cleanup
  <2> QED BY <1>3, <2>1, <2>2 DEF Shared
<1>4. CASE Restart
  BY <1>4 DEF Restart
<1>5. CASE UNCHANGED vars
  BY <1>5 DEF vars
<1> QED BY <1>1, <1>2, <1>3, <1>4, <1>5 DEF Next

LEMMA QuietNext == ASSUME Basic, QuietInv, [Next]_vars PROVE QuietInv'
<1> SUFFICES ASSUME ~overlap' PROVE Quiet'
  BY DEF QuietInv
<1>0. Quiet
  BY OverlapStays DEF QuietInv
<1>1. ASSUME NEW c \in Callers, Call(c)
      PROVE  Quiet'
  BY <1>0, <1>1, QuietLaunch, QuietClaim, QuietCancel, QuietMarks, QuietUndo, QuietRegister,
     QuietNextAfter, QuietPanics DEF Call
<1>2. ASSUME NEW i \in Runs, Runner(i)
      PROVE  Quiet'
  BY <1>0, <1>2, QuietRunner
<1>3. ASSUME NEW p \in Procs, Shared(p)
      PROVE  Quiet'
  BY <1>0, <1>3, QuietBegins, QuietTerminate, QuietEnds, QuietCleanup DEF Shared
<1>4. CASE Restart
  BY <1>0, <1>4, QuietRestart
<1>5. CASE UNCHANGED vars
  BY <1>0, <1>5, QuietSame DEF vars
<1> QED BY <1>1, <1>2, <1>3, <1>4, <1>5 DEF Next

LEMMA QuietAlways == Spec => [](Basic /\ QuietInv)
<1>1. Init => Basic /\ QuietInv
  BY BasicInit, QuietInit DEF QuietInv
<1>2. Basic /\ QuietInv /\ [Next]_vars => (Basic /\ QuietInv)'
  BY BasicNext, QuietNext
<1> QED BY <1>1, <1>2, PTL DEF Spec

-----------------------------------------------------------------------------
(* What a quiet manager guarantees *)

(* No two goroutines ever execute steps of one module at a time, where no  *)
(* call has met a launch or a cancellation still under way: reservation,   *)
(* claim and running-guard suffice, through crashes and lost writes too.   *)
THEOREM OneRunnerAlways == Spec => []OneRunner
<1>1. ASSUME Basic, QuietInv PROVE OneRunner
  <2> SUFFICES ASSUME ~overlap, NEW k \in Modules PROVE Cardinality(Executing(k)) <= 1
    BY DEF OneRunner
  <2>1. ASSUME NEW p \in Executing(k), NEW q \in Executing(k)
        PROVE  p = q
    <3>1. /\ p \in Procs /\ pc[p] \notin {"idle", "cleanup"} /\ rec[loc[p].run].mod = k
          /\ q \in Procs /\ pc[q] \notin {"idle", "cleanup"} /\ rec[loc[q].run].mod = k
      BY DEF Executing
    <3>2. installs[k] = loc[p].run /\ installs[k] = loc[q].run
      BY <1>1, <3>1 DEF QuietInv, Quiet, OwnsKey
    <3> QED BY <1>1, <3>1, <3>2 DEF QuietInv, Quiet, Alone, OnRun
  <2>2. CASE Executing(k) = {}
    BY <2>2, FS_EmptySet
  <2>3. CASE Executing(k) # {}
    <3>1. PICK p : p \in Executing(k)
      BY <2>3
    <3>2. Executing(k) = {p}
      BY <2>1, <3>1
    <3>3. Cardinality({p}) = 1
      BY FS_Singleton
    <3> QED BY <3>2, <3>3
  <2> QED BY <2>2, <2>3
<1> QED BY <1>1, QuietAlways, PTL

(* "done" is never reported, in memory or after a restart, of a run with a *)
(* step that failed or was not taken.                                      *)
THEOREM DoneIsCompleteAlways == Spec => []DoneIsComplete
<1>1. ASSUME QuietInv PROVE DoneIsComplete
  BY <1>1 DEF QuietInv, Quiet, Sound, Whole, DoneIsComplete
<1> QED BY <1>1, QuietAlways, PTL

(* A run's SSH client is closed once and by whoever ends the run: never    *)
(* twice, and never forgotten.                                             *)
THEOREM ClosedOnceAlways == Spec => []ClosedOnce
<1>1. ASSUME QuietInv PROVE ClosedOnce
  <2> SUFFICES ASSUME ~overlap, NEW i \in Runs
               PROVE  /\ ssh[i] # "closed twice"
                      /\ rec[i].state \in {"done", "error", "cancelled"} /\ ssh[i] = "open" => InFlight(i)
    BY DEF ClosedOnce
  <2>1. Sound(i)
    BY <1>1 DEF QuietInv, Quiet
  <2> QED BY <2>1 DEF Sound, OnRun, InFlight
<1> QED BY <1>1, QuietAlways, PTL

(* Where no write was lost the file of a module at rest is its record, so  *)
(* a restart shows what the driver showed.                                 *)
THEOREM DiskIsCurrentAlways == Spec => []DiskIsCurrent
<1>1. ASSUME QuietInv PROVE DiskIsCurrent
  <2> SUFFICES ASSUME ~overlap, lost = 0, NEW k \in Modules, installs[k] # NoRun, ~InFlight(installs[k])
               PROVE  disk[k] = [run |-> installs[k], rec |-> rec[installs[k]]]
    BY DEF DiskIsCurrent
  <2>1. Filed(k)
    BY <1>1 DEF QuietInv, Quiet
  <2>2. ~At(installs[k], {"dial", "rollback", "terminate"})
    BY DEF At, InFlight
  <2> QED BY <2>1, <2>2 DEF Filed
<1> QED BY <1>1, QuietAlways, PTL
=============================================================================
