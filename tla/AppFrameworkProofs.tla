------------------------- MODULE AppFrameworkProofs -------------------------
(***************************************************************************)
(* Proofs about the steps of an enterprise run, for any apps and any       *)
(* number of faults: the type invariant, no framework on top of another,   *)
(* no partial image, and nothing shown as installed that is not.           *)
(***************************************************************************)
EXTENDS AppFramework, TLAPS

(***************************************************************************)
(* The inductive invariant                                                 *)
(***************************************************************************)

\* The steps that run one of the cluster's commands.
CommandKinds == {"image", "framework", "app", "remove", "delete"}

\* A command is running only in a step that has one.
PlaceInv == \A m \in Modules : pc[m] = "command" => kind(m) \in CommandKinds

\* What is pushed is a staged artifact.
PushInv == \A m \in Modules : pc[m] = "push" => local # "missing"

\* Only an app is deployed as one.
AppsInv ==
    /\ \A k \in DOMAIN run[AppFW].plan : run[AppFW].plan[k] # "app"
    /\ \A j \in orphans : j.cmd = "app" => j.by \in Apps

\* The part of the type invariant about the runs, and about the rest.
Places == {"idle", "step", "push", "command", "confirm", "list", "poll", "verify"}
RunType == run \in [Modules -> RunRecords] /\ pc \in [Modules -> Places]
RestType ==
    /\ shown \subseteq Modules
    /\ local \in {"missing", "truncated", "whole"}
    /\ remote \in Copies
    /\ image \in Copies
    /\ fw \in FwStates
    /\ lb \in {"free", "ours", "orphan"}
    /\ app \subseteq Apps
    /\ orphans \subseteq [by : Modules, cmd : Commands]
    /\ faults \in 0..MaxFaults
    /\ abandoned \subseteq Commands
    /\ {tag, registry, recreated, blind, together, half, torn} \subseteq BOOLEAN

TypeInv == RunType /\ RestType /\ PlaceInv /\ PushInv /\ AppsInv

\* Commands nobody waits for were given up on, and runs are alone as long as
\* none was started beside another.
OrphansInv == \A j \in orphans : j.cmd \in abandoned
AloneInv == ~together => \A x, y \in Modules : pc[x] # "idle" /\ pc[y] # "idle" => x = y

CreateInv == OrphansInv /\ AloneInv /\ NoRecreate

\* Only an install imports.
OpInv == \A m \in Modules : has(m, "image") => run[m].op = "install"

\* Without an image, only the whole artifact gets past the preflight, a run that
\* waits for its import has given it the whole copy, and so has one that has
\* given up, unless a later upload rewrites it, which tears the import.
ImageInv ==
    Sidecar /\ ~together =>
        /\ ~torn => image \in {"none", "whole"}
        /\ image = "none" =>
            /\ \A m \in Modules : kind(m) = "image" /\ pc[m] # "idle" => local = "whole"
            /\ \A m \in Modules : At(m, "image", "command") => remote = "whole"
            /\ ~torn => \A j \in orphans : j.cmd = "import" => remote = "whole"

(***************************************************************************)
(* Plans                                                                   *)
(***************************************************************************)

\* The plans, written out.
Written == {<<>>,
            <<"preflight", "image", "framework">>,
            <<"preflight", "app", "complete">>,
            <<"preflight", "image", "framework", "app", "complete">>,
            <<"preflight", "delete", "sweep", "complete">>,
            <<"preflight", "remove", "complete">>}

\* Every plan is one of those.
LEMMA PlanForms == Plans \subseteq Written
<1>1. \A m \in Modules : \A os \in BOOLEAN : BuildPlan(m, os) \in Written
  BY DEF BuildPlan, Written
<1>2. \A m \in Modules : BuildUninstallPlan(m) \in Written
  BY DEF BuildUninstallPlan, Written
<1> QED BY <1>1, <1>2 DEF Plans, Written

\* A plan has five steps at most, and the image comes right after the
\* preflight, before the framework.
LEMMA PlanFacts ==
    ASSUME NEW p \in Plans
    PROVE  /\ DOMAIN p \subseteq 1..5
           /\ \A k \in DOMAIN p : p[k] = "image" =>
                k = 2 /\ p[1] = "preflight" /\ 3 \in DOMAIN p /\ p[3] = "framework"
           /\ \A k \in DOMAIN p : p[k] = "preflight" => k = 1
BY PlanForms DEF Written

(***************************************************************************)
(* Types                                                                   *)
(***************************************************************************)

\* How the record and the place of one run may change.
Moves(m) ==
    /\ run' \in [Modules -> RunRecords]
    /\ pc' \in [Modules -> Places]
    /\ \A x \in Modules \ {m} : run'[x] = run[x] /\ pc'[x] = pc[x]

\* StepDone moves on in the plan, by one, from a step of the plan.
LEMMA StepDoneMoves ==
    ASSUME TypeInv, NEW m \in Modules, kind(m) # "complete", StepDone(m)
    PROVE  Moves(m) /\ pc'[m] = "step" /\ run'[m].plan = run[m].plan
<1>1. run[m] \in RunRecords
  BY DEF TypeInv, RunType
<1>2. run[m].at \in DOMAIN run[m].plan
  BY DEF kind
<1>3. run[m].at \in 1..5
  BY <1>1, <1>2, PlanFacts DEF RunRecords
<1>4. [run[m] EXCEPT !.at = @ + 1] \in RunRecords
  BY <1>1, <1>3 DEF RunRecords
<1>5. run' = [run EXCEPT ![m] = [run[m] EXCEPT !.at = @ + 1]]
  BY DEF StepDone
<1> QED BY <1>1, <1>4, <1>5 DEF TypeInv, RunType, StepDone, Goto, Places, Moves, RunRecords

\* A run that stops keeps its plan.
LEMMA StopsMoves ==
    ASSUME TypeInv, NEW m \in Modules, NEW state \in {"error", "cancelled"}, Stops(m, state)
    PROVE  Moves(m) /\ pc'[m] = "idle" /\ run'[m].plan = run[m].plan /\ half' \in BOOLEAN
<1>1. run[m] \in RunRecords
  BY DEF TypeInv, RunType
<1>2. [run[m] EXCEPT !.state = state] \in RunRecords
  BY <1>1 DEF RunRecords
<1>3. run' = [run EXCEPT ![m] = [run[m] EXCEPT !.state = state]]
  BY DEF Stops
<1> QED BY <1>1, <1>2, <1>3 DEF TypeInv, RunType, Stops, Goto, Places, Moves, RunRecords

\* Going to another place in the step.
LEMMA GotoMoves ==
    ASSUME TypeInv, NEW m \in Modules, NEW place \in Places, Goto(m, place), run' = run
    PROVE  Moves(m) /\ pc'[m] = place /\ run'[m].plan = run[m].plan /\ kind(m)' = kind(m)
BY DEF TypeInv, RunType, Goto, Moves, kind

\* A move keeps the type invariant when the rest does.
LEMMA MovesKeep ==
    ASSUME TypeInv, NEW m \in Modules, Moves(m), RestType',
           run'[m].plan = run[m].plan, orphans' \subseteq orphans,
           pc'[m] = "command" => kind(m)' \in CommandKinds,
           pc'[m] = "push" => local # "missing", local' = local
    PROVE  TypeInv'
<1>1. PlaceInv'
  BY DEF TypeInv, Moves, PlaceInv, kind
<1>2. AppsInv'
  BY DEF TypeInv, Moves, AppsInv, Modules
<1>3. PushInv'
  BY DEF TypeInv, Moves, PushInv
<1> QED BY <1>1, <1>2, <1>3 DEF TypeInv, Moves, RunType

\* The types of the cluster's variables.
ClusterType ==
    /\ remote \in Copies
    /\ image \in Copies
    /\ fw \in FwStates
    /\ lb \in {"free", "ours", "orphan"}
    /\ app \subseteq Apps
    /\ {tag, registry} \subseteq BOOLEAN

\* A command leaves the cluster well typed.
LEMMA EffectType ==
    ASSUME TypeInv, NEW m \in Modules, NEW cmd \in Commands, cmd = "app" => m \in Apps,
           Effect(m, cmd)
    PROVE  ClusterType'
<1> USE DEF TypeInv, RestType, ClusterType, Copies, FwStates
<1>1. CASE cmd = "import"
  BY <1>1 DEF Effect
<1>2. CASE cmd = "create"
  BY <1>2 DEF Effect, registers
<1>3. CASE cmd = "delete"
  BY <1>3 DEF Effect, deletes, cluster
<1>4. CASE cmd = "app"
  BY <1>4 DEF Effect
<1>5. CASE cmd = "remove"
  BY <1>5 DEF Effect
<1> QED BY <1>1, <1>2, <1>3, <1>4, <1>5 DEF Commands

\* The command of a step that has one.
LEMMA CommandOfType ==
    ASSUME TypeInv, NEW m \in Modules, pc[m] = "command"
    PROVE  commandOf(m) \in Commands /\ (commandOf(m) = "app" => m \in Apps)
<1>1. kind(m) \in CommandKinds
  BY DEF TypeInv, PlaceInv
<1>2. kind(m) = "app" => m \in Apps
  BY DEF TypeInv, AppsInv, kind, Modules
<1> QED BY <1>1, <1>2 DEF CommandKinds, commandOf, Commands

\* A command that is cut short may leave a part of the image, and that is noted.
LEMMA CutShortFacts ==
    ASSUME TypeInv, NEW cmd, CutShort(cmd)
    PROVE  /\ image' \in Copies /\ torn' \in BOOLEAN
           /\ UNCHANGED <<remote, tag, fw, lb, registry, app>>
           /\ UNCHANGED <<image, torn>> \/ (image' = "partial" /\ torn' = TRUE)
<1>1. image \in Copies /\ torn \in BOOLEAN
  BY DEF TypeInv, RestType
<1>2. UNCHANGED <<remote, tag, fw, lb, registry, app>>
  BY DEF CutShort
<1>3. UNCHANGED <<image, torn>> \/ (image' = "partial" /\ torn' = TRUE)
  BY DEF CutShort
<1> QED BY <1>1, <1>2, <1>3 DEF Copies

\* The steps that touch nothing but the run.
LEMMA TypeRunSteps ==
    ASSUME TypeInv, NEW m \in Modules,
           \/ PreflightPasses(m) \/ ProbeFails(m) \/ PreflightRefuses(m)
           \/ ImageExists(m) \/ ImageConfirmed(m) \/ Verified(m) \/ VerifyTimesOut(m)
           \/ PollTimesOut(m) \/ AppFails(m) \/ CommandFails(m) \/ SweepSeesNothing(m)
    PROVE  TypeInv'
<1>1. CASE PreflightPasses(m) \/ ProbeFails(m)
  <2>1. kind(m) # "complete" /\ StepDone(m) /\ UNCHANGED <<shown, local, cluster, orphans, faults, history>>
    BY <1>1 DEF PreflightPasses, ProbeFails, At
  <2>2. RestType'
    BY <2>1 DEF TypeInv, RestType, cluster, history
  <2> QED BY <2>1, <2>2, StepDoneMoves, MovesKeep
<1>2. CASE ImageExists(m) \/ Verified(m)
  <2>1. kind(m) # "complete" /\ StepDone(m) /\ UNCHANGED <<shown, local, cluster, orphans, faults, history>>
    BY <1>2 DEF ImageExists, Verified, At
  <2>2. RestType'
    BY <2>1 DEF TypeInv, RestType, cluster, history
  <2> QED BY <2>1, <2>2, StepDoneMoves, MovesKeep
<1>3. ASSUME Stops(m, "error"), faults' = faults \/ Fault,
             UNCHANGED <<shown, local, orphans, recreated, blind, abandoned, together>>,
             UNCHANGED <<remote, tag, fw, lb, registry, app>>,
             image' \in Copies, torn' \in BOOLEAN
      PROVE  TypeInv'
  <2>1. Moves(m) /\ pc'[m] = "idle" /\ run'[m].plan = run[m].plan /\ half' \in BOOLEAN
    BY <1>3, StopsMoves
  <2>2. RestType'
    BY <1>3, <2>1, AppFrameworkConstants DEF TypeInv, RestType, cluster, Fault
  <2> QED BY <1>3, <2>1, <2>2, MovesKeep
<1>c. UNCHANGED <<cluster, torn>> =>
          /\ UNCHANGED <<remote, tag, fw, lb, registry, app>>
          /\ image' \in Copies /\ torn' \in BOOLEAN
  BY DEF cluster, TypeInv, RestType
<1>4. CASE PreflightRefuses(m) \/ AppFails(m)
  BY <1>3, <1>4, <1>c DEF PreflightRefuses, AppFails, StepFails
<1>5. CASE ImageConfirmed(m)
  <2>1. CASE image = "none"
    BY <1>3, <1>5, <1>c, <2>1 DEF ImageConfirmed, StepFails
  <2>2. CASE image # "none"
    <3>1. /\ kind(m) # "complete" /\ StepDone(m)
          /\ UNCHANGED <<shown, local, cluster, orphans, faults, history>>
      BY <1>5, <2>2 DEF ImageConfirmed, At, history
    <3>2. RestType'
      BY <3>1 DEF TypeInv, RestType, cluster, history
    <3> QED BY <3>1, <3>2, StepDoneMoves, MovesKeep
  <2> QED BY <2>1, <2>2
<1>6. CASE VerifyTimesOut(m)
  BY <1>3, <1>6, <1>c DEF VerifyTimesOut, StepFails
<1>7. CASE PollTimesOut(m)
  BY <1>3, <1>7, <1>c DEF PollTimesOut, StepFails
<1>8. CASE CommandFails(m)
  <2>1. CutShort(commandOf(m)) /\ Stops(m, "error")
    BY <1>8 DEF CommandFails, StepFails
  <2> QED BY <1>3, <1>8, <2>1, CutShortFacts DEF CommandFails
<1>9. CASE SweepSeesNothing(m)
  <2>1. /\ kind(m) # "complete" /\ StepDone(m) /\ Fault
        /\ UNCHANGED <<shown, local, cluster, orphans, history>>
    BY <1>9 DEF SweepSeesNothing, At
  <2>2. RestType'
    BY <2>1, AppFrameworkConstants DEF TypeInv, RestType, cluster, history, Fault
  <2>3. orphans' = orphans /\ local' = local
    BY <2>1
  <2> QED BY <2>1, <2>2, <2>3, StepDoneMoves, MovesKeep
<1> QED BY <1>1, <1>2, <1>4, <1>5, <1>6, <1>7, <1>8, <1>9

\* A listing that is believed, or fails and is counted.
LEMMA BlindType ==
    ASSUME TypeInv, (faults' = faults /\ blind' = blind) \/ (Fault /\ blind' = TRUE)
    PROVE  faults' \in 0..MaxFaults /\ blind' \in BOOLEAN
<1>1. faults' = faults \/ Fault
  OBVIOUS
<1>2. faults' \in 0..MaxFaults
  BY <1>1, AppFrameworkConstants DEF TypeInv, RestType, Fault
<1>3. blind \in BOOLEAN
  BY DEF TypeInv, RestType
<1>4. blind' \in BOOLEAN
  BY <1>3
<1> QED BY <1>2, <1>4

\* Listing the framework notes what was found in the record.
LEMMA ListMoves ==
    ASSUME TypeInv, NEW m \in Modules, NEW st \in FwStates, ListFramework(m, st)
    PROVE  /\ Moves(m)
           /\ run'[m].plan = run[m].plan /\ run'[m].at = run[m].at /\ run'[m].op = run[m].op
<1> DEFINE r == [run[m] EXCEPT !.found = ~mustCreate(st), !.created = mustCreate(st)]
<1>1. run[m] \in RunRecords /\ mustCreate(st) \in BOOLEAN
  BY DEF TypeInv, RunType, mustCreate
<1>2. r \in RunRecords /\ r.plan = run[m].plan /\ r.at = run[m].at /\ r.op = run[m].op
  BY <1>1 DEF RunRecords
<1>3. run' = [run EXCEPT ![m] = r]
  BY DEF ListFramework, TypeInv, RunType
<1>4. \E place \in Places : Goto(m, place)
  BY DEF ListFramework, Places
<1> HIDE DEF r
<1> QED BY <1>2, <1>3, <1>4 DEF TypeInv, RunType, Moves, Goto

\* An upload that begins, or has nothing to upload.
LEMMA PushesMoves ==
    ASSUME TypeInv, NEW m \in Modules, Pushes(m)
    PROVE  /\ Moves(m) /\ run'[m].plan = run[m].plan /\ run'[m].op = run[m].op
           /\ remote' \in Copies /\ torn' \in BOOLEAN /\ half' \in BOOLEAN
           /\ pc'[m] \in {"idle", "push"}
           /\ pc'[m] = "push" => local # "missing"
<1>0. {torn, half} \subseteq BOOLEAN /\ remote \in Copies
  BY DEF TypeInv, RestType
<1>1. CASE local = "missing"
  <2>1. Stops(m, "error") /\ UNCHANGED <<remote, torn>>
    BY <1>1 DEF Pushes, StepFails
  <2>2. run'[m].op = run[m].op
    BY <2>1 DEF Stops, TypeInv, RunType, RunRecords
  <2> QED BY <1>0, <1>1, <2>1, <2>2, StopsMoves
<1>2. CASE local # "missing"
  <2>1. /\ Goto(m, "push") /\ remote' = "partial" /\ UNCHANGED <<run, half>>
        /\ torn' = (torn \/ importing)
    BY <1>2 DEF Pushes
  <2>2. torn' \in BOOLEAN
    BY <1>0, <2>1 DEF importing
  <2> QED BY <1>0, <1>2, <2>1, <2>2, GotoMoves DEF Places, Copies
<1> QED BY <1>1, <1>2

\* The steps of the image and of the framework.
LEMMA TypeImageFramework ==
    ASSUME TypeInv, NEW m \in Modules,
           \/ ImageMissing(m) \/ StatFails(m) \/ Pushed(m) \/ EnsureTag(m) \/ Poll(m)
           \/ \E st \in FwStates : ListFramework(m, st)
    PROVE  TypeInv'
<1>p. ASSUME Pushes(m), faults' \in 0..MaxFaults, blind' \in BOOLEAN,
             UNCHANGED <<shown, local, image, tag, fw, lb, registry, app, orphans, recreated,
                         abandoned, together>>
      PROVE  TypeInv'
  <2>1. RestType'
    BY <1>p, PushesMoves DEF TypeInv, RestType
  <2> QED BY <1>p, <2>1, PushesMoves, MovesKeep
<1>1. CASE ImageMissing(m)
  <2>1. (faults' = faults /\ blind' = blind) \/ (Fault /\ blind' = TRUE)
    BY <1>1 DEF ImageMissing
  <2>f. faults' \in 0..MaxFaults /\ blind' \in BOOLEAN
    BY <2>1, BlindType
  <2>u. UNCHANGED <<shown, local, image, tag, fw, lb, registry, app, orphans, recreated,
                    abandoned, together>>
    BY <1>1 DEF ImageMissing
  <2>2. CASE staged
    <3>1. Goto(m, "command") /\ UNCHANGED <<run, remote, half, torn>>
      BY <1>1, <2>2 DEF ImageMissing
    <3>2. RestType'
      BY <2>f, <2>u, <3>1 DEF TypeInv, RestType
    <3>3. kind(m)' \in CommandKinds
      BY <1>1, <3>1, GotoMoves DEF ImageMissing, At, CommandKinds, Places
    <3> QED BY <1>1, <3>1, <3>2, <3>3, GotoMoves, MovesKeep DEF ImageMissing, Places
  <2>3. CASE ~staged
    <3>1. Pushes(m)
      BY <1>1, <2>3 DEF ImageMissing
    <3> QED BY <1>p, <2>f, <2>u, <3>1
  <2> QED BY <2>2, <2>3
<1>2. CASE Pushed(m)
  <2>1. RestType'
    <3>1. /\ remote' = local
          /\ UNCHANGED <<shown, local, image, tag, fw, lb, registry, app, orphans, faults, history>>
      BY <1>2 DEF Pushed
    <3>2. remote' \in Copies
      <4>1. remote' = local
        BY <1>2 DEF Pushed
      <4>2. local # "missing"
        BY <1>2 DEF Pushed, At, TypeInv, PushInv
      <4> QED BY <4>1, <4>2 DEF TypeInv, RestType, Copies
    <3>3. UNCHANGED <<recreated, blind, abandoned, together, half, torn>>
      BY <3>1 DEF history
    <3> QED BY <3>1, <3>2, <3>3 DEF TypeInv, RestType
  <2>2. kind(m)' \in CommandKinds
    BY <1>2, GotoMoves DEF Pushed, At, CommandKinds, Places
  <2> QED BY <1>2, <2>1, <2>2, GotoMoves, MovesKeep DEF Pushed, Places
<1>3. CASE EnsureTag(m)
  <2>1. RestType'
    BY <1>3 DEF EnsureTag, TypeInv, RestType, history
  <2> QED BY <1>3, <2>1, GotoMoves, MovesKeep DEF EnsureTag, Places
<1>4. CASE Poll(m)
  <2>1. UNCHANGED <<shown, local, cluster, orphans, faults, recreated, blind, abandoned, together,
                    torn>>
    BY <1>4 DEF Poll
  <2>2. CASE fw = "active" /\ Goto(m, "verify") /\ UNCHANGED <<run, half>>
    <3>1. RestType'
      BY <2>1, <2>2 DEF TypeInv, RestType, cluster
    <3> QED BY <2>1, <2>2, <3>1, GotoMoves, MovesKeep DEF Places
  <2>3. CASE StepFails(m)
    <3>1. Moves(m) /\ pc'[m] = "idle" /\ run'[m].plan = run[m].plan /\ half' \in BOOLEAN
      BY <2>3, StopsMoves DEF StepFails
    <3>2. RestType'
      BY <2>1, <3>1 DEF TypeInv, RestType, cluster
    <3> QED BY <2>1, <3>1, <3>2, MovesKeep
  <2>4. CASE run' = [run EXCEPT ![m].found = TRUE] /\ UNCHANGED <<pc, half>>
    <3>1. RestType'
      BY <2>1, <2>4 DEF TypeInv, RestType, cluster
    <3>2. Moves(m) /\ run'[m].plan = run[m].plan
      BY <2>4 DEF TypeInv, RunType, RunRecords, Moves
    <3>3. pc'[m] = "poll"
      BY <1>4, <2>4 DEF Poll, At
    <3> QED BY <2>1, <3>1, <3>2, <3>3, MovesKeep
  <2> QED BY <1>4, <2>2, <2>3, <2>4 DEF Poll
<1>5. ASSUME NEW st \in FwStates, ListFramework(m, st)
      PROVE  TypeInv'
  <2>1. (faults' = faults /\ blind' = blind) \/ (Fault /\ blind' = TRUE)
    BY <1>5 DEF ListFramework
  <2>2. recreated' \in BOOLEAN
    BY <1>5 DEF ListFramework
  <2>3. RestType'
    <3>1. faults' \in 0..MaxFaults /\ blind' \in BOOLEAN
      BY <2>1, BlindType
    <3>2. UNCHANGED <<shown, local, cluster, orphans, abandoned, together, half, torn>>
      BY <1>5 DEF ListFramework
    <3> QED BY <2>2, <3>1, <3>2 DEF TypeInv, RestType, cluster
  <2>4. /\ Moves(m)
        /\ run'[m].plan = run[m].plan
        /\ run'[m].at = run[m].at
    BY <1>5, ListMoves
  <2>5. kind(m)' \in CommandKinds
    BY <1>5, <2>4 DEF ListFramework, At, kind, CommandKinds
  <2>6. pc'[m] \in {"command", "verify", "poll"}
    BY <1>5 DEF ListFramework, Goto, TypeInv, RunType
  <2>7. local' = local /\ orphans' = orphans
    BY <1>5 DEF ListFramework
  <2> QED BY <2>3, <2>4, <2>5, <2>6, <2>7, MovesKeep
<1>6. CASE StatFails(m)
  <2>1. Fault /\ blind' = (blind \/ image # "none") /\ Pushes(m)
    BY <1>6 DEF StatFails
  <2>2. faults' \in 0..MaxFaults /\ blind' \in BOOLEAN
    BY <2>1, AppFrameworkConstants DEF TypeInv, RestType, Fault
  <2> QED BY <1>6, <1>p, <2>1, <2>2 DEF StatFails
<1> QED BY <1>1, <1>2, <1>3, <1>4, <1>5, <1>6

\* The steps that run a command.
LEMMA TypeCommands ==
    ASSUME TypeInv, NEW m \in Modules,
           \/ CommandBegins(m) \/ CommandEnds(m) \/ FailsSilently(m)
           \/ \E state \in {"error", "cancelled"} : Interrupted(m, state)
    PROVE  TypeInv'
<1>1. CASE CommandBegins(m)
  <2>1. UNCHANGED <<run, shown, local, remote, image, tag, lb, registry, app, orphans, faults,
                    recreated, blind, abandoned, together, half, torn>>
    BY <1>1 DEF CommandBegins, history
  <2>2. fw' \in FwStates
    BY <1>1 DEF CommandBegins, TypeInv, RestType, FwStates
  <2>3. RestType'
    BY <2>1, <2>2 DEF TypeInv, RestType
  <2>4. Goto(m, "command") /\ kind(m) \in CommandKinds
    BY <1>1 DEF CommandBegins, CommandKinds
  <2> QED BY <2>1, <2>3, <2>4, GotoMoves, MovesKeep DEF Places
<1>2. ASSUME pc[m] = "command", Returned(m)
      PROVE  Moves(m) /\ run'[m].plan = run[m].plan /\ pc'[m] \notin {"command", "push"}
  <2>1. CASE kind(m) \in {"image", "framework"}
    <3>1. \E place \in {"confirm", "poll"} : Goto(m, place) /\ run' = run
      BY <1>2, <2>1 DEF Returned
    <3> QED BY <3>1, GotoMoves DEF Places
  <2>2. CASE kind(m) \notin {"image", "framework"}
    <3>1. StepDone(m)
      BY <1>2, <2>2 DEF Returned
    <3>2. kind(m) # "complete"
      BY <1>2 DEF TypeInv, PlaceInv, CommandKinds
    <3> QED BY <3>1, <3>2, StepDoneMoves
  <2> QED BY <2>1, <2>2
<1>3. CASE CommandEnds(m)
  <2>1. pc[m] = "command" /\ Returned(m)
    BY <1>3 DEF CommandEnds
  <2>2. UNCHANGED <<shown, local, orphans, faults, recreated, blind, abandoned, together, half, torn>>
    BY <1>3 DEF CommandEnds, history
  <2>3. ClusterType'
    BY <1>3, <2>1, CommandOfType, EffectType DEF CommandEnds
  <2>4. RestType'
    BY <2>2, <2>3 DEF TypeInv, RestType, ClusterType
  <2> QED BY <1>2, <2>1, <2>2, <2>4, MovesKeep
<1>4. CASE FailsSilently(m)
  <2>1. pc[m] = "command" /\ Returned(m) /\ Fault /\ CutShort(commandOf(m))
    BY <1>4 DEF FailsSilently
  <2>2. UNCHANGED <<shown, local, orphans, recreated, blind, abandoned, together, half>>
    BY <1>4 DEF FailsSilently
  <2>3. faults' \in 0..MaxFaults
    BY <2>1, AppFrameworkConstants DEF TypeInv, RestType, Fault
  <2>4. RestType'
    BY <2>1, <2>2, <2>3, CutShortFacts DEF TypeInv, RestType
  <2> QED BY <1>2, <2>1, <2>2, <2>4, MovesKeep
<1>5. ASSUME NEW state \in {"error", "cancelled"}, Interrupted(m, state)
      PROVE  TypeInv'
  <2>1. Moves(m) /\ pc'[m] = "idle" /\ run'[m].plan = run[m].plan /\ half' \in BOOLEAN
    BY <1>5, StopsMoves DEF Interrupted
  <2>2. UNCHANGED <<shown, local, cluster, recreated, blind, together, torn>>
    BY <1>5 DEF Interrupted
  <2>3. faults' \in 0..MaxFaults
    <3>1. Fault
      BY <1>5 DEF Interrupted
    <3> QED BY <3>1, AppFrameworkConstants DEF TypeInv, RestType, Fault
  <2>4. /\ orphans' \subseteq [by : Modules, cmd : Commands]
        /\ \A j \in orphans' : j.cmd = "app" => j.by \in Apps
        /\ abandoned' \subseteq Commands
    <3>1. CASE pc[m] = "command"
      <4>1. /\ orphans' = orphans \cup {[by |-> m, cmd |-> commandOf(m)]}
            /\ abandoned' = abandoned \cup {commandOf(m)}
        BY <1>5, <3>1 DEF Interrupted
      <4> QED BY <3>1, <4>1, CommandOfType DEF TypeInv, RestType, AppsInv
    <3>2. CASE pc[m] # "command"
      BY <1>5, <3>2 DEF Interrupted, TypeInv, RestType, AppsInv
    <3> QED BY <3>1, <3>2
  <2>5. RestType'
    BY <2>1, <2>2, <2>3, <2>4 DEF TypeInv, RestType, cluster
  <2>6. PlaceInv'
    BY <2>1 DEF TypeInv, Moves, PlaceInv, kind
  <2>7. AppsInv'
    BY <2>1, <2>4 DEF TypeInv, Moves, AppsInv, Modules
  <2>8. PushInv'
    BY <2>1, <2>2 DEF TypeInv, Moves, PushInv
  <2> QED BY <2>1, <2>5, <2>6, <2>7, <2>8 DEF TypeInv, Moves, RunType
<1> QED BY <1>1, <1>3, <1>4, <1>5

\* The record of a run that begins: only an app's plan deploys one, and only an
\* install's plan imports the image.
LEMMA RunBegins ==
    ASSUME NEW m \in Modules, Operator(m)
    PROVE  \E op \in {"install", "uninstall"}, p \in Plans, lbip \in BOOLEAN :
             /\ run' = [run EXCEPT ![m] = Begun(op, p, lbip)]
             /\ m = AppFW => \A k \in DOMAIN p : p[k] # "app"
             /\ \A k \in DOMAIN p : p[k] = "image" => op = "install"
<1>1. ASSUME NEW os \in BOOLEAN, NEW lbip \in BOOLEAN, Install(m, os, lbip)
      PROVE  run' = [run EXCEPT ![m] = Begun("install", BuildPlan(m, os), lbip)]
  BY <1>1 DEF Install, Launch
<1>2. UninstallBroken(m) => run' = [run EXCEPT ![m] = Begun("uninstall", BuildUninstallPlan(m), FALSE)]
  BY DEF UninstallBroken, Launch
<1>3. Uninstall(m) => run' = [run EXCEPT ![m] = Begun("uninstall", BuildUninstallPlan(m), FALSE)]
  BY DEF Uninstall
<1>4. \A os \in BOOLEAN : BuildPlan(m, os) \in Plans /\ BuildUninstallPlan(m) \in Plans
  BY DEF Plans
<1>5. m = AppFW => /\ \A os \in BOOLEAN : \A k \in DOMAIN BuildPlan(m, os) : BuildPlan(m, os)[k] # "app"
                   /\ \A k \in DOMAIN BuildUninstallPlan(m) : BuildUninstallPlan(m)[k] # "app"
  BY DEF BuildPlan, BuildUninstallPlan
<1>6. \A k \in DOMAIN BuildUninstallPlan(m) : BuildUninstallPlan(m)[k] # "image"
  BY DEF BuildUninstallPlan
<1>7. CASE \E os, lbip \in BOOLEAN : Install(m, os, lbip)
  <2>1. PICK os \in BOOLEAN, lbip \in BOOLEAN : Install(m, os, lbip)
    BY <1>7
  <2>2. BuildPlan(m, os) \in Plans
    BY <1>4
  <2>3. run' = [run EXCEPT ![m] = Begun("install", BuildPlan(m, os), lbip)]
    BY <1>1, <2>1
  <2> QED BY <1>5, <2>2, <2>3, Zenon
<1>8. CASE UninstallBroken(m) \/ Uninstall(m)
  <2>1. BuildUninstallPlan(m) \in Plans
    BY <1>4
  <2>2. run' = [run EXCEPT ![m] = Begun("uninstall", BuildUninstallPlan(m), FALSE)]
    BY <1>2, <1>3, <1>8
  <2> DEFINE q == BuildUninstallPlan(m)
  <2>3. /\ m = AppFW => \A k \in DOMAIN q : q[k] # "app"
        /\ \A k \in DOMAIN q : q[k] # "image"
    BY <1>5, <1>6
  <2> HIDE DEF q
  <2>4. q \in Plans /\ run' = [run EXCEPT ![m] = Begun("uninstall", q, FALSE)]
    BY <2>1, <2>2 DEF q
  <2> QED BY <2>3, <2>4
<1> QED BY <1>7, <1>8 DEF Operator

\* A run that begins.
LEMMA TypeBegins ==
    ASSUME TypeInv, NEW m \in Modules, Operator(m)
    PROVE  TypeInv'
<1>1. \E op \in {"install", "uninstall"}, p \in Plans, lbip \in BOOLEAN :
        /\ run' = [run EXCEPT ![m] = Begun(op, p, lbip)]
        /\ m = AppFW => \A k \in DOMAIN p : p[k] # "app"
  BY RunBegins
<1>2. /\ Goto(m, "step")
      /\ shown' = shown \cup {m}
      /\ together' \in BOOLEAN
      /\ faults' = faults \/ Fault
      /\ UNCHANGED <<local, cluster, orphans, recreated, blind, abandoned, half, torn>>
  <2>1. CASE \E os, lbip \in BOOLEAN : Install(m, os, lbip)
    BY <2>1 DEF Install, Launch
  <2>2. CASE UninstallBroken(m)
    BY <2>2 DEF UninstallBroken, Launch
  <2>3. CASE Uninstall(m)
    BY <2>3 DEF Uninstall, history, TypeInv, RestType
  <2> QED BY <2>1, <2>2, <2>3 DEF Operator
<1>3. PICK op \in {"install", "uninstall"}, p \in Plans, lbip \in BOOLEAN :
        /\ run' = [run EXCEPT ![m] = Begun(op, p, lbip)]
        /\ m = AppFW => \A k \in DOMAIN p : p[k] # "app"
  BY <1>1
<1>4. Begun(op, p, lbip) \in RunRecords /\ Begun(op, p, lbip).plan = p
  BY DEF RunRecords, Begun
<1>7. Moves(m) /\ run'[m].plan = p /\ pc'[m] = "step"
  BY <1>2, <1>3, <1>4 DEF TypeInv, RunType, Moves, Goto, Places
<1>8. faults' \in 0..MaxFaults
  BY <1>2, AppFrameworkConstants DEF TypeInv, RestType, Fault
<1>9. RestType'
  BY <1>2, <1>8 DEF TypeInv, RestType, cluster
<1>10. PlaceInv' /\ PushInv'
  BY <1>2, <1>7 DEF TypeInv, Moves, PlaceInv, PushInv, kind
<1>11. AppsInv'
  BY <1>2, <1>3, <1>7 DEF TypeInv, Moves, AppsInv, Modules
<1> QED BY <1>7, <1>9, <1>10, <1>11 DEF TypeInv, Moves, RunType

\* The last steps of a run.
LEMMA TypeEnds ==
    ASSUME TypeInv, NEW m \in Modules, Sweep(m) \/ RunFinishes(m)
    PROVE  TypeInv'
<1>1. CASE Sweep(m)
  <2>1. UNCHANGED <<shown, local, remote, image, tag, fw, app, orphans, recreated, blind,
                    abandoned, together, torn>>
    BY <1>1 DEF Sweep
  <2>f. lb' \in {"free", "ours", "orphan"} /\ (faults' = faults \/ Fault)
    BY <1>1 DEF Sweep, TypeInv, RestType
  <2>g. faults' \in 0..MaxFaults
    BY <2>f, AppFrameworkConstants DEF TypeInv, RestType, Fault
  <2>h. registry' \in BOOLEAN
    BY <1>1 DEF Sweep, TypeInv, RestType
  <2>2. Moves(m) /\ pc'[m] \in {"step", "idle"} /\ run'[m].plan = run[m].plan /\ half' \in BOOLEAN
    <3>1. CASE lb = "free"
      <4>1. StepDone(m) /\ kind(m) # "complete" /\ half' = half
        BY <1>1, <3>1 DEF Sweep, At
      <4>2. half' \in BOOLEAN
        BY <4>1 DEF TypeInv, RestType
      <4> QED BY <4>1, <4>2, StepDoneMoves
    <3>2. CASE lb # "free"
      BY <1>1, <3>2, StopsMoves DEF Sweep, StepFails
    <3> QED BY <3>1, <3>2
  <2>3. RestType'
    BY <2>1, <2>2, <2>f, <2>g, <2>h DEF TypeInv, RestType
  <2> QED BY <2>1, <2>2, <2>3, MovesKeep
<1>2. CASE RunFinishes(m)
  <2>1. /\ UNCHANGED <<local, cluster, orphans, faults, recreated, blind, abandoned, together, torn>>
        /\ shown' \subseteq shown /\ half' \in BOOLEAN
    BY <1>2 DEF RunFinishes
  <2>2. RestType'
    BY <2>1 DEF TypeInv, RestType, cluster
  <2>3. run[m] \in RunRecords
    BY DEF TypeInv, RunType
  <2>4. [run[m] EXCEPT !.state = "done"] \in RunRecords
    BY <2>3 DEF RunRecords
  <2>5. run' = [run EXCEPT ![m] = [run[m] EXCEPT !.state = "done"]] /\ Goto(m, "idle")
    BY <1>2 DEF RunFinishes
  <2>6. Moves(m) /\ pc'[m] = "idle" /\ run'[m].plan = run[m].plan
    BY <2>3, <2>4, <2>5 DEF TypeInv, RunType, Moves, Goto, Places, RunRecords
  <2> QED BY <2>1, <2>2, <2>6, MovesKeep
<1> QED BY <1>1, <1>2

\* What happens beside the runs.
LEMMA TypeAround ==
    ASSUME TypeInv,
           \/ \E j \in orphans : OrphanEnds(j) \/ OrphanDies(j)
           \/ Stage \/ Provisions \/ RegistryServes \/ UNCHANGED vars
    PROVE  TypeInv'
<1>1. ASSUME UNCHANGED <<run, pc>>, orphans' \subseteq orphans, RestType',
             local # "missing" => local' # "missing"
      PROVE  TypeInv'
  BY <1>1 DEF TypeInv, RunType, PlaceInv, PushInv, AppsInv, kind
<1>2. ASSUME NEW j \in orphans, OrphanEnds(j)
      PROVE  TypeInv'
  <2>1. j.by \in Modules /\ j.cmd \in Commands /\ (j.cmd = "app" => j.by \in Apps)
    BY DEF TypeInv, RestType, AppsInv
  <2>2. Effect(j.by, j.cmd)
    BY <1>2 DEF OrphanEnds
  <2>3. ClusterType'
    BY <2>1, <2>2, EffectType
  <2>4. /\ orphans' = orphans \ {j}
        /\ UNCHANGED <<run, shown, pc, local, faults, recreated, blind, abandoned, together, half, torn>>
    BY <1>2 DEF OrphanEnds, history
  <2>5. RestType'
    BY <2>3, <2>4 DEF TypeInv, RestType, ClusterType
  <2> QED BY <1>1, <2>4, <2>5
<1>3. ASSUME NEW j \in orphans, OrphanDies(j)
      PROVE  TypeInv'
  <2>1. /\ orphans' = orphans \ {j}
        /\ CutShort(j.cmd)
        /\ UNCHANGED <<run, shown, pc, local, faults, recreated, blind, abandoned, together, half>>
    BY <1>3 DEF OrphanDies
  <2>2. RestType'
    BY <2>1, CutShortFacts DEF TypeInv, RestType
  <2> QED BY <1>1, <2>1, <2>2
<1>4. CASE Stage
  <2>1. /\ local' \in {"truncated", "whole"}
        /\ UNCHANGED <<run, shown, pc, cluster, orphans, faults, recreated, blind, abandoned, together, half, torn>>
    BY <1>4 DEF Stage, history
  <2>2. RestType'
    BY <2>1 DEF TypeInv, RestType, cluster
  <2> QED BY <1>1, <2>1, <2>2
<1>5. CASE Provisions
  <2>1. /\ fw' \in {"active", "error"} /\ (faults' = faults \/ Fault)
        /\ UNCHANGED <<run, shown, pc, local, remote, image, tag, lb, registry, app, orphans,
                       recreated, blind, abandoned, together, half, torn>>
    BY <1>5 DEF Provisions, history
  <2>2. faults' \in 0..MaxFaults
    BY <2>1, AppFrameworkConstants DEF TypeInv, RestType, Fault
  <2>3. RestType'
    BY <2>1, <2>2 DEF TypeInv, RestType, FwStates
  <2> QED BY <1>1, <2>1, <2>3
<1>6. CASE RegistryServes
  <2>1. /\ registry' \in BOOLEAN
        /\ UNCHANGED <<run, shown, pc, local, remote, image, tag, fw, lb, app, orphans, faults,
                       recreated, blind, abandoned, together, half, torn>>
    BY <1>6 DEF RegistryServes, history
  <2>2. RestType'
    BY <2>1 DEF TypeInv, RestType
  <2> QED BY <1>1, <2>1, <2>2
<1>7. CASE UNCHANGED vars
  <2>1. UNCHANGED <<run, shown, pc, local, cluster, orphans, faults, recreated, blind, abandoned,
                    together, half, torn>>
    BY <1>7 DEF vars, history
  <2>2. RestType'
    BY <2>1 DEF TypeInv, RestType, cluster
  <2> QED BY <1>1, <2>1, <2>2
<1> QED BY <1>2, <1>3, <1>4, <1>5, <1>6, <1>7

\* Every step keeps the types.
LEMMA TypeStep == TypeInv /\ [Next]_vars => TypeInv'
<1> SUFFICES ASSUME TypeInv, [Next]_vars PROVE TypeInv'
  OBVIOUS
<1>1. ASSUME NEW m \in Modules, Step(m)
      PROVE  TypeInv'
  <2>1. fw \in FwStates
    BY DEF TypeInv, RestType
  <2> QED BY <1>1, <2>1, TypeRunSteps, TypeImageFramework, TypeCommands, TypeEnds DEF Step
<1>2. ASSUME NEW m \in Modules, StepFault(m)
      PROVE  TypeInv'
  <2>1. "absent" \in FwStates
    BY DEF FwStates
  <2> QED BY <1>2, <2>1, TypeRunSteps, TypeImageFramework, TypeCommands DEF StepFault
<1>3. ASSUME NEW m \in Modules, Operator(m)
      PROVE  TypeInv'
  BY <1>3, TypeBegins
<1> QED BY <1>1, <1>2, <1>3, TypeAround DEF Next

\* The type invariant at the start.
LEMMA TypeInit == Init => TypeInv
<1> SUFFICES ASSUME Init PROVE TypeInv
  OBVIOUS
<1>1. NoRun \in RunRecords
  BY DEF NoRun, RunRecords, Plans
<1>2. RunType
  BY <1>1 DEF Init, RunType, Places
<1>3. RestType
  <2>1. {tag, registry, recreated, blind, together, half, torn} \subseteq BOOLEAN
    BY DEF Init
  <2>2. faults \in 0..MaxFaults
    BY AppFrameworkConstants DEF Init
  <2> QED BY <2>1, <2>2 DEF Init, RestType, Copies, FwStates
<1>4. PlaceInv /\ PushInv
  BY DEF Init, PlaceInv, PushInv
<1>5. AppsInv
  BY DEF Init, AppsInv, NoRun, Modules
<1> QED BY <1>2, <1>3, <1>4, <1>5 DEF TypeInv

\* The inductive part of the type invariant holds always.
LEMMA TypeAlways == Spec => []TypeInv
BY TypeInit, TypeStep, PTL DEF Spec

\* Every variable of the cluster, of the runs and of the history has its type,
\* in particular no step runs past the end of its plan (runSteps).
THEOREM AppFrameworkTypes == Spec => []AppFrameworkTypeOK
<1>1. TypeInv => AppFrameworkTypeOK
  BY DEF TypeInv, RunType, RestType, AppFrameworkTypeOK, Places
<1> QED BY <1>1, TypeAlways, PTL

(***************************************************************************)
(* No framework on top of another                                          *)
(***************************************************************************)

\* What the steps of a run that neither give up on a command nor start another
\* run keep: runs stay alone, and nothing is taken back from the history.
LEMMA CreateInvKept ==
    ASSUME CreateInv, NEW m \in Modules,
           \A x \in Modules \ {m} : pc'[x] = pc[x],
           pc'[m] # "idle" => pc[m] # "idle",
           orphans' \subseteq orphans, abandoned \subseteq abandoned',
           together' = together,
           recreated' = recreated, blind => blind'
    PROVE  CreateInv'
<1>1. OrphansInv'
  BY DEF CreateInv, OrphansInv
<1>2. AloneInv'
  BY DEF CreateInv, AloneInv
<1>3. NoRecreate'
  BY DEF CreateInv, NoRecreate
<1> QED BY <1>1, <1>2, <1>3 DEF CreateInv

\* The steps that neither list the framework nor give up on a command.
Quiet(m) ==
    \/ PreflightPasses(m) \/ PreflightRefuses(m) \/ ProbeFails(m)
    \/ ImageExists(m) \/ ImageMissing(m) \/ StatFails(m) \/ Pushed(m) \/ ImageConfirmed(m)
    \/ EnsureTag(m) \/ Poll(m) \/ PollTimesOut(m) \/ Verified(m) \/ VerifyTimesOut(m)
    \/ CommandBegins(m) \/ CommandEnds(m) \/ AppFails(m) \/ Sweep(m) \/ RunFinishes(m)
    \/ CommandFails(m) \/ FailsSilently(m) \/ SweepSeesNothing(m)

\* Such a step is one of a run that is under way, and leaves the others alone.
LEMMA QuietFrame ==
    ASSUME TypeInv, NEW m \in Modules, Quiet(m)
    PROVE  /\ pc[m] # "idle"
           /\ \A x \in Modules \ {m} : pc'[x] = pc[x]
           /\ UNCHANGED <<orphans, abandoned, together, recreated>>
           /\ blind => blind'
<1> USE DEF At, StepDone, StepFails, Stops, Goto, history, TypeInv, RunType
<1>1. CASE PreflightPasses(m) \/ PreflightRefuses(m) \/ ProbeFails(m)
  BY <1>1 DEF PreflightPasses, PreflightRefuses, ProbeFails
<1>2. CASE ImageExists(m) \/ Pushed(m) \/ ImageConfirmed(m)
  BY <1>2 DEF ImageExists, Pushed, ImageConfirmed
<1>3. CASE ImageMissing(m) \/ StatFails(m)
  BY <1>3 DEF ImageMissing, StatFails, Pushes
<1>4. CASE EnsureTag(m) \/ Poll(m) \/ PollTimesOut(m)
  BY <1>4 DEF EnsureTag, Poll, PollTimesOut
<1>5. CASE Verified(m) \/ VerifyTimesOut(m)
  BY <1>5 DEF Verified, VerifyTimesOut
<1>6. CASE CommandBegins(m) \/ CommandEnds(m) \/ FailsSilently(m)
  BY <1>6 DEF CommandBegins, CommandEnds, FailsSilently, Returned
<1>7. CASE AppFails(m) \/ Sweep(m) \/ SweepSeesNothing(m) \/ RunFinishes(m) \/ CommandFails(m)
  BY <1>7 DEF AppFails, Sweep, SweepSeesNothing, RunFinishes, CommandFails
<1> QED BY <1>1, <1>2, <1>3, <1>4, <1>5, <1>6, <1>7 DEF Quiet

\* What makes a listing that found nothing a create too many: a framework that
\* is there, which the listing missed, or another create, of another run or
\* abandoned by one.
LEMMA CreateList ==
    ASSUME TypeInv, CreateInv, NEW m \in Modules, NEW st \in FwStates, ListFramework(m, st)
    PROVE  CreateInv'
<1>1. /\ UNCHANGED <<orphans, abandoned, together>>
      /\ pc[m] = "list"
      /\ \A x \in Modules \ {m} : pc'[x] = pc[x]
  BY DEF ListFramework, At, Goto, TypeInv, RunType
<1>2. OrphansInv'
  BY <1>1 DEF CreateInv, OrphansInv
<1>3. AloneInv'
  BY <1>1 DEF CreateInv, AloneInv
<1>4. creating => together \/ "create" \in abandoned
  <2>1. ASSUME NEW j \in orphans, [by |-> AppFW, cmd |-> "create"] = [j EXCEPT !.by = AppFW]
        PROVE  "create" \in abandoned
    <3>1. j \in [by : Modules, cmd : Commands]
      BY DEF TypeInv, RestType
    <3>2. [j EXCEPT !.by = AppFW].cmd = j.cmd
      BY <3>1
    <3>3. j.cmd = "create"
      BY <2>1, <3>2
    <3> QED BY <3>3 DEF CreateInv, OrphansInv
  <2>2. ASSUME NEW x \in Modules, At(x, "framework", "command")
        PROVE  together
    BY <1>1, <2>2 DEF At, CreateInv, AloneInv
  <2> QED BY <2>1, <2>2 DEF creating
<1>5. NoRecreate'
  <2>1. CASE blind'
    BY <2>1 DEF NoRecreate
  <2>2. CASE ~blind'
    <3>1. st = fw /\ blind' = blind
      BY <2>2 DEF ListFramework
    <3>2. mustCreate(st) => ~listed
      BY <3>1 DEF mustCreate, listed
    <3>3. recreated' => recreated \/ creating
      BY <3>2 DEF ListFramework
    <3> QED BY <1>1, <1>4, <3>1, <3>3 DEF CreateInv, NoRecreate
  <2> QED BY <2>1, <2>2
<1> QED BY <1>2, <1>3, <1>5 DEF CreateInv

\* A caller that gives up on its command leaves word.
LEMMA CreateInterrupted ==
    ASSUME TypeInv, CreateInv, NEW m \in Modules, NEW state \in {"error", "cancelled"},
           Interrupted(m, state)
    PROVE  CreateInv'
<1>1. /\ UNCHANGED <<recreated, blind, together>>
      /\ pc'[m] = "idle"
      /\ \A x \in Modules \ {m} : pc'[x] = pc[x]
  BY DEF Interrupted, Stops, Goto, TypeInv, RunType
<1>2. OrphansInv' /\ abandoned \subseteq abandoned'
  BY DEF Interrupted, CreateInv, OrphansInv
<1>3. AloneInv'
  BY <1>1 DEF CreateInv, AloneInv
<1>4. NoRecreate'
  BY <1>1, <1>2 DEF CreateInv, NoRecreate
<1> QED BY <1>2, <1>3, <1>4 DEF CreateInv

\* A run that begins beside another is recorded.
LEMMA CreateBegins ==
    ASSUME TypeInv, CreateInv, NEW m \in Modules, Operator(m)
    PROVE  CreateInv'
<1>1. /\ UNCHANGED <<orphans, abandoned, recreated, blind>>
      /\ \A x \in Modules \ {m} : pc'[x] = pc[x]
      /\ together => together'
      /\ ~together' => \A x \in Modules \ {m} : pc[x] = "idle"
  <2> USE DEF Goto, TypeInv, RunType
  <2>1. ASSUME NEW op, NEW os, NEW lbip, Launch(m, op, os, lbip)
        PROVE  /\ UNCHANGED <<orphans, abandoned, recreated, blind>>
               /\ \A x \in Modules \ {m} : pc'[x] = pc[x]
               /\ together => together'
               /\ ~together' => \A x \in Modules \ {m} : pc[x] = "idle"
    BY <2>1 DEF Launch
  <2>2. CASE Uninstall(m)
    BY <2>2 DEF Uninstall, history
  <2> QED BY <2>1, <2>2 DEF Operator, Install, UninstallBroken
<1>2. OrphansInv'
  BY <1>1 DEF CreateInv, OrphansInv
<1>3. AloneInv'
  BY <1>1 DEF AloneInv
<1>4. NoRecreate'
  BY <1>1 DEF CreateInv, NoRecreate
<1> QED BY <1>2, <1>3, <1>4 DEF CreateInv

\* Every step keeps it.
LEMMA CreateStep == TypeInv /\ CreateInv /\ [Next]_vars => CreateInv'
<1> SUFFICES ASSUME TypeInv, CreateInv, [Next]_vars PROVE CreateInv'
  OBVIOUS
<1>1. ASSUME NEW m \in Modules, Quiet(m)
      PROVE  CreateInv'
  BY <1>1, QuietFrame, CreateInvKept
<1>2. ASSUME NEW m \in Modules, Step(m) \/ StepFault(m)
      PROVE  CreateInv'
  <2>1. fw \in FwStates /\ "absent" \in FwStates
    BY DEF TypeInv, RestType, FwStates
  <2> QED BY <1>1, <1>2, <2>1, CreateList, CreateInterrupted DEF Step, StepFault, Quiet
<1>3. ASSUME UNCHANGED <<pc, abandoned, recreated, blind, together>>, orphans' \subseteq orphans
      PROVE  CreateInv'
  BY <1>3 DEF CreateInv, OrphansInv, AloneInv, NoRecreate
<1>4. ASSUME NEW j \in orphans, OrphanEnds(j) \/ OrphanDies(j)
      PROVE  CreateInv'
  BY <1>3, <1>4 DEF OrphanEnds, OrphanDies, history
<1>5. CASE Stage \/ Provisions \/ RegistryServes \/ UNCHANGED vars
  BY <1>3, <1>5 DEF Stage, Provisions, RegistryServes, vars, history
<1> QED BY <1>2, <1>4, <1>5, CreateBegins DEF Next

\* runFramework creates the framework on top of itself only where the listing
\* failed, two runs work on the cluster, or an earlier create was abandoned.
THEOREM NeverRecreates == Spec => []NoRecreate
<1>1. Init => CreateInv
  BY DEF Init, CreateInv, OrphansInv, AloneInv, NoRecreate
<1>2. CreateInv => NoRecreate
  BY DEF CreateInv
<1> QED BY <1>1, <1>2, CreateStep, TypeAlways, PTL DEF Spec

(***************************************************************************)
(* No partial image                                                        *)
(***************************************************************************)

\* A step of a run keeps its plan and its operation, and the staged artifact.
LEMMA StepFrame ==
    ASSUME TypeInv, NEW m \in Modules,
           \/ Quiet(m)
           \/ \E st \in FwStates : ListFramework(m, st)
           \/ \E state \in {"error", "cancelled"} : Interrupted(m, state)
    PROVE  /\ pc[m] # "idle"
           /\ \A x \in Modules \ {m} : run'[x] = run[x] /\ pc'[x] = pc[x]
           /\ run'[m].plan = run[m].plan /\ run'[m].op = run[m].op
           /\ UNCHANGED <<local, together>>
<1>1. run \in [Modules -> RunRecords] /\ pc \in [Modules -> Places] /\ run[m] \in RunRecords
  BY DEF TypeInv, RunType
<1> USE <1>1 DEF At, StepDone, StepFails, Stops, Goto, history, RunRecords
<1>2. CASE PreflightPasses(m) \/ PreflightRefuses(m) \/ ProbeFails(m)
  BY <1>2 DEF PreflightPasses, PreflightRefuses, ProbeFails
<1>3. CASE ImageExists(m) \/ Pushed(m) \/ ImageConfirmed(m)
  BY <1>3 DEF ImageExists, Pushed, ImageConfirmed
<1>4. CASE ImageMissing(m) \/ StatFails(m)
  BY <1>4 DEF ImageMissing, StatFails, Pushes
<1>5. CASE EnsureTag(m) \/ Poll(m) \/ PollTimesOut(m)
  BY <1>5 DEF EnsureTag, Poll, PollTimesOut
<1>6. CASE Verified(m) \/ VerifyTimesOut(m)
  BY <1>6 DEF Verified, VerifyTimesOut
<1>7. CASE CommandBegins(m) \/ CommandEnds(m) \/ FailsSilently(m)
  BY <1>7 DEF CommandBegins, CommandEnds, FailsSilently, Returned
<1>8. CASE AppFails(m) \/ Sweep(m) \/ SweepSeesNothing(m) \/ RunFinishes(m) \/ CommandFails(m)
  BY <1>8 DEF AppFails, Sweep, SweepSeesNothing, RunFinishes, CommandFails
<1>9. CASE \E st \in FwStates : ListFramework(m, st)
  <2>1. pc[m] = "list" /\ UNCHANGED <<local, together>>
    BY <1>9 DEF ListFramework
  <2> QED BY <1>9, <2>1, ListMoves DEF Moves
<1>10. CASE \E state \in {"error", "cancelled"} : Interrupted(m, state)
  BY <1>10 DEF Interrupted
<1> QED BY <1>2, <1>3, <1>4, <1>5, <1>6, <1>7, <1>8, <1>9, <1>10 DEF Quiet

\* The image's step is entered from the preflight only.
LEMMA ImageEntered ==
    ASSUME TypeInv, NEW m \in Modules, kind(m) \notin {"preflight", "complete"}, StepDone(m)
    PROVE  kind(m)' # "image"
<1>1. run[m] \in RunRecords /\ run[m].at \in DOMAIN run[m].plan
  BY DEF TypeInv, RunType, kind
<1>2. run[m].plan \in Plans /\ run[m].at \in 1..5
  BY <1>1, PlanFacts DEF RunRecords
<1>3. run'[m].plan = run[m].plan /\ run'[m].at = run[m].at + 1
  BY <1>1 DEF StepDone, TypeInv, RunType, RunRecords
<1>4. run[m].plan[run[m].at] # "preflight"
  BY <1>1 DEF kind
<1> QED BY <1>2, <1>3, <1>4, PlanFacts DEF kind

\* What is demanded of an import that is to make the image.
ImageGoal ==
    /\ ~torn' => image' \in {"none", "whole"}
    /\ image' = "none" =>
        /\ \A x \in Modules : kind(x)' = "image" /\ pc'[x] # "idle" => local' = "whole"
        /\ \A x \in Modules : At(x, "image", "command")' => remote' = "whole"
        /\ ~torn' => \A j \in orphans' : j.cmd = "import" => remote' = "whole"

\* The goal is the image's part of ImageInv after the step.
LEMMA ImageGoalSuffices == (Sidecar /\ ~together' => ImageGoal) => ImageInv'
BY DEF ImageGoal, ImageInv

\* A step that neither enters the image's step nor begins an import, with the
\* image and its copy as they were.
LEMMA ImageKept ==
    ASSUME ImageInv, NEW m \in Modules,
           \A x \in Modules \ {m} : run'[x] = run[x] /\ pc'[x] = pc[x],
           UNCHANGED <<local, together, image, remote, torn>>, orphans' \subseteq orphans,
           \/ kind(m)' # "image"
           \/ pc'[m] = "idle"
           \/ kind(m) = "image" /\ pc[m] # "idle" /\ pc'[m] # "command"
    PROVE  ImageInv'
<1> SUFFICES ASSUME Sidecar, ~together' PROVE ImageGoal
  BY ImageGoalSuffices
<1>1. \A x \in Modules \ {m} : kind(x)' = kind(x)
  BY DEF kind
<1>2. ASSUME NEW x \in Modules, kind(x)' = "image", pc'[x] # "idle", image = "none"
      PROVE  local' = "whole"
  BY <1>1, <1>2 DEF ImageInv
<1>3. ASSUME NEW x \in Modules, At(x, "image", "command")' PROVE At(x, "image", "command")
  BY <1>1, <1>3 DEF At
<1> QED BY <1>2, <1>3 DEF ImageInv, ImageGoal

\* A part of an image is there by its name, and has torn something.
LEMMA ImagePartial == image' = "partial" /\ torn' = TRUE => ImageInv'
BY DEF ImageInv

\* The steps that leave the image and its copy alone.
LEMMA ImagePlain ==
    ASSUME TypeInv, ImageInv, NEW m \in Modules,
           \/ PreflightRefuses(m) \/ ImageExists(m) \/ ImageConfirmed(m)
           \/ EnsureTag(m) \/ Poll(m) \/ PollTimesOut(m) \/ Verified(m) \/ VerifyTimesOut(m)
           \/ CommandBegins(m) \/ AppFails(m) \/ Sweep(m) \/ RunFinishes(m)
           \/ CommandFails(m) \/ FailsSilently(m) \/ SweepSeesNothing(m)
           \/ \E st \in FwStates : ListFramework(m, st)
    PROVE  ImageInv'
<1>1. /\ \A x \in Modules \ {m} : run'[x] = run[x] /\ pc'[x] = pc[x]
      /\ UNCHANGED <<local, together>>
  BY StepFrame DEF Quiet
<1>2. /\ UNCHANGED <<remote, orphans>>
      /\ UNCHANGED <<image, torn>> \/ (image' = "partial" /\ torn' = TRUE)
  <2> USE DEF cluster, history
  <2>1. CASE PreflightRefuses(m) \/ ImageExists(m) \/ ImageConfirmed(m)
    BY <2>1 DEF PreflightRefuses, ImageExists, ImageConfirmed
  <2>2. CASE EnsureTag(m) \/ Poll(m) \/ PollTimesOut(m) \/ Verified(m) \/ VerifyTimesOut(m)
    BY <2>2 DEF EnsureTag, Poll, PollTimesOut, Verified, VerifyTimesOut
  <2>3. CASE CommandBegins(m) \/ AppFails(m) \/ Sweep(m) \/ SweepSeesNothing(m) \/ RunFinishes(m)
    BY <2>3 DEF CommandBegins, AppFails, Sweep, SweepSeesNothing, RunFinishes
  <2>4. CASE \E st \in FwStates : ListFramework(m, st)
    BY <2>4 DEF ListFramework
  <2>5. CASE CommandFails(m) \/ FailsSilently(m)
    <3>1. CutShort(commandOf(m)) /\ orphans' = orphans
      BY <2>5 DEF CommandFails, FailsSilently
    <3> QED BY <3>1, CutShortFacts
  <2> QED BY <2>1, <2>2, <2>3, <2>4, <2>5
<1> DEFINE Fine == \/ kind(m)' # "image"
                   \/ pc'[m] = "idle"
                   \/ kind(m) = "image" /\ pc[m] # "idle" /\ pc'[m] # "command"
<1>3. Fine
  <2>1. CASE Stops(m, "error")
    BY <2>1, StopsMoves
  <2>2. CASE kind(m) \notin {"preflight", "complete"} /\ StepDone(m)
    BY <2>2, ImageEntered
  <2>3. CASE RunFinishes(m)
    BY <2>3 DEF RunFinishes, Goto, TypeInv, RunType
  <2>4. CASE PreflightRefuses(m) \/ PollTimesOut(m) \/ VerifyTimesOut(m) \/ AppFails(m) \/ CommandFails(m)
    BY <2>1, <2>4 DEF PreflightRefuses, PollTimesOut, VerifyTimesOut, AppFails, CommandFails, StepFails
  <2>5. CASE ImageExists(m) \/ Verified(m) \/ SweepSeesNothing(m)
    BY <2>2, <2>5 DEF ImageExists, Verified, SweepSeesNothing, At
  <2>6. CASE ImageConfirmed(m) \/ Sweep(m)
    BY <2>1, <2>2, <2>6 DEF ImageConfirmed, Sweep, StepFails, At
  <2>7. CASE EnsureTag(m)
    <3>1. run' = run /\ kind(m) = "framework"
      BY <2>7 DEF EnsureTag, At
    <3> QED BY <3>1 DEF kind
  <2>8. CASE CommandBegins(m)
    <3>1. run' = run /\ kind(m) # "image"
      BY <2>8 DEF CommandBegins
    <3> QED BY <3>1 DEF kind
  <2>9. ASSUME NEW st \in FwStates, ListFramework(m, st)
        PROVE  Fine
    <3>1. kind(m) = "framework"
      BY <2>9 DEF ListFramework, At
    <3> QED BY <2>9, <3>1, ListMoves DEF kind
  <2>10. CASE Poll(m)
    <3>1. kind(m) = "framework"
      BY <2>10 DEF Poll, At
    <3>2. CASE run' = run
      BY <3>1, <3>2 DEF kind
    <3>3. CASE run' = [run EXCEPT ![m].found = TRUE]
      <4>1. run[m] \in RunRecords
        BY DEF TypeInv, RunType
      <4>2. run'[m].at = run[m].at /\ run'[m].plan = run[m].plan
        BY <3>3, <4>1 DEF TypeInv, RunType, RunRecords
      <4> QED BY <3>1, <4>2 DEF kind
    <3> QED BY <2>1, <2>10, <3>2, <3>3 DEF Poll, StepFails
  <2>11. CASE FailsSilently(m)
    <3>1. pc[m] = "command" /\ kind(m) \in {"image", "framework", "delete"} /\ Returned(m)
      BY <2>11 DEF FailsSilently
    <3>2. CASE kind(m) \in {"image", "framework"}
      <4>1. \E place \in {"confirm", "poll"} : Goto(m, place) /\ run' = run
        BY <3>1, <3>2 DEF Returned
      <4> QED BY <3>1, <3>2, <4>1, GotoMoves DEF Places
    <3>3. CASE kind(m) = "delete"
      BY <2>2, <3>1, <3>3 DEF Returned
    <3> QED BY <3>1, <3>2, <3>3
  <2> QED BY <2>3, <2>4, <2>5, <2>6, <2>7, <2>8, <2>9, <2>10, <2>11
<1> QED BY <1>1, <1>2, <1>3, ImageKept, ImagePartial

\* The preflight: without an image, the artifact is whole.
LEMMA ImagePreflight ==
    ASSUME TypeInv, OpInv, ImageInv, NEW m \in Modules, PreflightPasses(m) \/ ProbeFails(m)
    PROVE  ImageInv'
<1>1. /\ \A x \in Modules \ {m} : run'[x] = run[x] /\ pc'[x] = pc[x]
      /\ run'[m].plan = run[m].plan
      /\ UNCHANGED <<local, together>>
  BY StepFrame DEF Quiet
<1>2. UNCHANGED <<image, remote, orphans, torn>> /\ pc'[m] = "step"
  <2>1. kind(m) # "complete" /\ StepDone(m) /\ UNCHANGED <<image, remote, orphans, torn>>
    BY DEF PreflightPasses, ProbeFails, cluster, history, At
  <2> QED BY <2>1, StepDoneMoves
<1>3. CASE kind(m)' # "image"
  BY <1>1, <1>2, <1>3, ImageKept
<1>4. CASE kind(m)' = "image"
  <2>1. has(m, "image")
    BY <1>1, <1>4 DEF kind, has
  <2>2. has(m, "framework") /\ run[m].op = "install"
    <3>1. run[m].plan \in Plans
      BY DEF TypeInv, RunType, RunRecords
    <3> QED BY <2>1, <3>1, PlanFacts DEF has, OpInv
  <2>3. artifact
    BY <2>2 DEF PreflightPasses, ProbeFails, preflight
  <2>4. Sidecar /\ image = "none" => local = "whole"
    BY <2>3 DEF artifact, TypeInv, RestType
  <2>5. ASSUME NEW x \in Modules, At(x, "image", "command")' PROVE At(x, "image", "command")
    <3>1. \A y \in Modules \ {m} : kind(y)' = kind(y)
      BY <1>1 DEF kind
    <3> QED BY <1>1, <1>2, <2>5, <3>1 DEF At
  <2> QED BY <1>1, <1>2, <2>4, <2>5 DEF ImageInv
<1> QED BY <1>3, <1>4

\* scpRun: an upload ends whole, and replaces the copy under no import but one
\* that was abandoned, which tears it.
LEMMA ImageUpload ==
    ASSUME TypeInv, AloneInv, ImageInv, NEW m \in Modules,
           ImageMissing(m) \/ StatFails(m) \/ Pushed(m)
    PROVE  ImageInv'
<1>1. /\ \A x \in Modules \ {m} : run'[x] = run[x] /\ pc'[x] = pc[x]
      /\ UNCHANGED <<local, together>>
  BY StepFrame DEF Quiet
<1>2. /\ UNCHANGED <<image, orphans>>
      /\ kind(m) = "image" /\ pc[m] # "idle"
  BY DEF ImageMissing, StatFails, Pushed, At
<1>t. torn => torn'
  BY DEF ImageMissing, StatFails, Pushes, Pushed, history
<1> SUFFICES ASSUME Sidecar, ~together' PROVE ImageGoal
  BY ImageGoalSuffices
<1>3. ~torn' => image' \in {"none", "whole"}
  BY <1>1, <1>2, <1>t DEF ImageInv
<1>4. CASE image' # "none"
  BY <1>3, <1>4 DEF ImageGoal
<1>5. CASE image' = "none"
  <2>1. local = "whole"
    BY <1>1, <1>2, <1>5 DEF ImageInv
  <2>2. \A x \in Modules \ {m} : ~At(x, "image", "command")'
    BY <1>1, <1>2 DEF AloneInv, At
  <2>3. CASE Pushed(m)
    <3>1. remote' = "whole"
      BY <2>1, <2>3 DEF Pushed
    <3> QED BY <1>1, <1>3, <2>1, <3>1 DEF ImageGoal
  <2>4. CASE ImageMissing(m) /\ staged
    <3>1. remote' = "whole"
      BY <2>1, <2>4 DEF ImageMissing, staged
    <3> QED BY <1>1, <1>3, <2>1, <3>1 DEF ImageGoal
  <2>5. CASE Pushes(m)
    <3>1. pc'[m] = "push" /\ torn' = (torn \/ importing)
      BY <2>1, <2>5 DEF Pushes, Goto, TypeInv, RunType
    <3>2. ~torn' => \A j \in orphans : j.cmd # "import"
      BY <3>1 DEF importing
    <3>3. \A x \in Modules : ~At(x, "image", "command")'
      BY <2>2, <3>1 DEF At
    <3> QED BY <1>1, <1>2, <1>3, <2>1, <3>2, <3>3 DEF ImageGoal
  <2> QED BY <2>3, <2>4, <2>5 DEF ImageMissing, StatFails
<1> QED BY <1>4, <1>5

\* What a command makes of the image: another one than an import, nothing.
LEMMA ImageEffect ==
    ASSUME NEW m \in Modules, NEW cmd \in Commands, Effect(m, cmd)
    PROVE  /\ remote' = remote
           /\ cmd # "import" => image' = image
           /\ cmd = "import" => image' = IF image = "none" THEN remote ELSE image
<1>1. CASE cmd = "import"
  BY <1>1 DEF Effect
<1>2. CASE cmd = "create"
  BY <1>2 DEF Effect, registers
<1>3. CASE cmd = "delete"
  BY <1>3 DEF Effect, deletes, cluster
<1>4. CASE cmd \in {"app", "remove"}
  BY <1>4 DEF Effect
<1> QED BY <1>1, <1>2, <1>3, <1>4 DEF Commands

\* The end of a command: an import that was waited for has made the whole image.
LEMMA ImageCommandEnds ==
    ASSUME TypeInv, ImageInv, NEW m \in Modules, CommandEnds(m)
    PROVE  ImageInv'
<1>1. /\ \A x \in Modules \ {m} : run'[x] = run[x] /\ pc'[x] = pc[x]
      /\ UNCHANGED <<local, together>>
  BY StepFrame DEF Quiet
<1>2. /\ pc[m] = "command" /\ Returned(m) /\ Effect(m, commandOf(m))
      /\ UNCHANGED <<orphans, torn>>
  BY DEF CommandEnds, history
<1>3. commandOf(m) \in Commands /\ kind(m) \in CommandKinds
  BY <1>2, CommandOfType DEF TypeInv, PlaceInv
<1>4. commandOf(m) = "import" <=> kind(m) = "image"
  BY <1>3 DEF commandOf, CommandKinds
<1>5. CASE kind(m) = "image"
  <2>1. image' = IF image = "none" THEN remote ELSE image
    BY <1>2, <1>3, <1>4, <1>5, ImageEffect
  <2>2. Sidecar /\ ~together' => image' # "none" /\ (~torn' => image' = "whole")
    BY <1>1, <1>2, <1>5, <2>1 DEF ImageInv, At
  <2> QED BY <2>2 DEF ImageInv
<1>6. CASE kind(m) # "image"
  <2>1. image' = image /\ remote' = remote
    BY <1>2, <1>3, <1>4, <1>6, ImageEffect
  <2>2. kind(m)' # "image"
    <3>1. CASE kind(m) = "framework"
      BY <1>2, <3>1 DEF Returned, kind
    <3>2. CASE kind(m) # "framework"
      BY <1>2, <1>3, <1>6, <3>2, ImageEntered DEF Returned, CommandKinds
    <3> QED BY <3>1, <3>2
  <2> QED BY <1>1, <1>2, <2>1, <2>2, ImageKept
<1> QED BY <1>5, <1>6

\* An import whose caller gives up goes on.
LEMMA ImageInterrupted ==
    ASSUME TypeInv, ImageInv, NEW m \in Modules, NEW state \in {"error", "cancelled"},
           Interrupted(m, state)
    PROVE  ImageInv'
<1>1. /\ \A x \in Modules \ {m} : run'[x] = run[x] /\ pc'[x] = pc[x]
      /\ UNCHANGED <<local, together>>
  BY StepFrame
<1>2. UNCHANGED <<image, remote, torn>> /\ pc'[m] = "idle"
  BY StopsMoves DEF Interrupted, cluster
<1>3. \A x \in Modules \ {m} : kind(x)' = kind(x)
  BY <1>1 DEF kind
<1> SUFFICES ASSUME Sidecar, ~together' PROVE ImageGoal
  BY ImageGoalSuffices
<1>4. ASSUME NEW j \in orphans', j.cmd = "import", ~torn, image = "none"
      PROVE  remote = "whole"
  <2>1. CASE j \in orphans
    BY <1>1, <1>4, <2>1 DEF ImageInv
  <2>2. CASE j \notin orphans
    <3>1. pc[m] = "command" /\ commandOf(m) = "import"
      BY <1>4, <2>2 DEF Interrupted
    <3>2. kind(m) \in CommandKinds
      BY <3>1 DEF TypeInv, PlaceInv
    <3>3. kind(m) = "image"
      BY <3>1, <3>2 DEF commandOf, CommandKinds
    <3> QED BY <1>1, <1>4, <3>1, <3>3 DEF ImageInv, At
  <2> QED BY <2>1, <2>2
<1>5. ASSUME NEW x \in Modules, At(x, "image", "command")' PROVE At(x, "image", "command")
  BY <1>1, <1>2, <1>3, <1>5 DEF At
<1>6. ASSUME NEW x \in Modules, kind(x)' = "image", pc'[x] # "idle", image = "none"
      PROVE  local' = "whole"
  BY <1>1, <1>2, <1>3, <1>6 DEF ImageInv
<1> QED BY <1>1, <1>2, <1>4, <1>5, <1>6 DEF ImageInv, ImageGoal

\* A run that begins is at its preflight.
LEMMA ImageBegins ==
    ASSUME TypeInv, OpInv, ImageInv, NEW m \in Modules, Operator(m)
    PROVE  OpInv' /\ ImageInv'
<1>1. PICK op \in {"install", "uninstall"}, p \in Plans, lbip \in BOOLEAN :
        /\ run' = [run EXCEPT ![m] = Begun(op, p, lbip)]
        /\ \A k \in DOMAIN p : p[k] = "image" => op = "install"
  BY RunBegins
<1>2. run'[m].plan = p /\ run'[m].at = 1 /\ run'[m].op = op
  BY <1>1 DEF Begun, TypeInv, RunType
<1>3. \A x \in Modules \ {m} : run'[x] = run[x]
  BY <1>1 DEF TypeInv, RunType
<1>4. OpInv'
  BY <1>1, <1>2, <1>3 DEF OpInv, has
<1>5. /\ \A x \in Modules \ {m} : pc'[x] = pc[x]
      /\ UNCHANGED <<local, image, remote, orphans, torn>>
      /\ together => together'
  <2> USE DEF Goto, TypeInv, RunType, cluster
  <2>1. ASSUME NEW o, NEW os, NEW ip, Launch(m, o, os, ip)
        PROVE  /\ \A x \in Modules \ {m} : pc'[x] = pc[x]
               /\ UNCHANGED <<local, image, remote, orphans, torn>>
               /\ together => together'
    BY <2>1 DEF Launch
  <2>2. CASE Uninstall(m)
    BY <2>2 DEF Uninstall, history
  <2> QED BY <2>1, <2>2 DEF Operator, Install, UninstallBroken
<1>6. kind(m)' # "image"
  BY <1>2, PlanFacts DEF kind
<1>7. ImageInv'
  <2>1. CASE together'
    BY <2>1 DEF ImageInv
  <2>2. CASE ~together'
    <3>1. \A x \in Modules \ {m} : kind(x)' = kind(x)
      BY <1>3 DEF kind
    <3>2. ASSUME NEW x \in Modules, At(x, "image", "command")' PROVE At(x, "image", "command")
      BY <1>5, <1>6, <3>1, <3>2 DEF At
    <3> QED BY <1>5, <1>6, <2>2, <3>1, <3>2 DEF ImageInv
  <2> QED BY <2>1, <2>2
<1> QED BY <1>4, <1>7

\* What happens beside the runs: an abandoned import may still end.
LEMMA ImageAround ==
    ASSUME TypeInv, ImageInv,
           \/ \E j \in orphans : OrphanEnds(j) \/ OrphanDies(j)
           \/ Stage \/ Provisions \/ RegistryServes \/ UNCHANGED vars
    PROVE  ImageInv'
<1>1. ASSUME UNCHANGED <<run, pc, together, remote, torn>>, orphans' \subseteq orphans,
             image' = image, local = "whole" => local' = "whole"
      PROVE  ImageInv'
  <2>1. \A x \in Modules : kind(x)' = kind(x)
    BY <1>1 DEF kind
  <2>2. \A x \in Modules : At(x, "image", "command")' <=> At(x, "image", "command")
    BY <1>1, <2>1 DEF At
  <2> QED BY <1>1, <2>1, <2>2 DEF ImageInv
<1>2. ASSUME NEW j \in orphans, OrphanEnds(j)
      PROVE  ImageInv'
  <2>1. /\ orphans' = orphans \ {j} /\ Effect(j.by, j.cmd)
        /\ UNCHANGED <<run, pc, local, together, torn>>
    BY <1>2 DEF OrphanEnds, history
  <2>2. j.by \in Modules /\ j.cmd \in Commands
    BY DEF TypeInv, RestType
  <2>3. /\ remote' = remote
        /\ j.cmd # "import" => image' = image
        /\ j.cmd = "import" => image' = IF image = "none" THEN remote ELSE image
    BY <2>1, <2>2, ImageEffect
  <2>4. CASE image' = image
    BY <1>1, <2>1, <2>3, <2>4
  <2>5. CASE image' # image
    <3>1. j.cmd = "import" /\ image = "none" /\ image' = remote /\ image' # "none"
      BY <2>3, <2>5
    <3>2. Sidecar /\ ~together /\ ~torn => remote = "whole"
      BY <3>1 DEF ImageInv
    <3> QED BY <2>1, <3>1, <3>2 DEF ImageInv
  <2> QED BY <2>4, <2>5
<1>3. ASSUME NEW j \in orphans, OrphanDies(j)
      PROVE  ImageInv'
  <2>1. /\ orphans' = orphans \ {j} /\ CutShort(j.cmd)
        /\ UNCHANGED <<run, pc, local, together>>
    BY <1>3 DEF OrphanDies
  <2> QED BY <1>1, <2>1, CutShortFacts, ImagePartial
<1>4. CASE Stage
  BY <1>1, <1>4 DEF Stage, cluster, history
<1>5. CASE Provisions \/ RegistryServes \/ UNCHANGED vars
  BY <1>1, <1>5 DEF Provisions, RegistryServes, vars, cluster, history
<1> QED BY <1>2, <1>3, <1>4, <1>5

\* Every step keeps it.
LEMMA ImageStep ==
    TypeInv /\ CreateInv /\ OpInv /\ ImageInv /\ [Next]_vars => OpInv' /\ ImageInv'
<1> SUFFICES ASSUME TypeInv, CreateInv, OpInv, ImageInv, [Next]_vars PROVE OpInv' /\ ImageInv'
  OBVIOUS
<1>1. ASSUME NEW m \in Modules, Step(m) \/ StepFault(m)
      PROVE  OpInv' /\ ImageInv'
  <2>1. fw \in FwStates /\ "absent" \in FwStates
    BY DEF TypeInv, RestType, FwStates
  <2>2. \/ Quiet(m)
        \/ \E st \in FwStates : ListFramework(m, st)
        \/ \E state \in {"error", "cancelled"} : Interrupted(m, state)
    BY <1>1, <2>1 DEF Step, StepFault, Quiet
  <2>3. OpInv'
    BY <2>2, StepFrame DEF OpInv, has
  <2>4. ImageInv'
    BY <2>2, ImagePlain, ImagePreflight, ImageUpload, ImageCommandEnds, ImageInterrupted
       DEF Quiet, CreateInv
  <2> QED BY <2>3, <2>4
<1>2. ASSUME NEW m \in Modules, Operator(m)
      PROVE  OpInv' /\ ImageInv'
  BY <1>2, ImageBegins
<1>3. ASSUME \/ \E j \in orphans : OrphanEnds(j) \/ OrphanDies(j)
             \/ Stage \/ Provisions \/ RegistryServes \/ UNCHANGED vars
      PROVE  OpInv' /\ ImageInv'
  <2>1. run' = run
    BY <1>3 DEF OrphanEnds, OrphanDies, Stage, Provisions, RegistryServes, vars
  <2>2. OpInv'
    BY <2>1 DEF OpInv, has
  <2> QED BY <1>3, <2>2, ImageAround
<1> QED BY <1>1, <1>2, <1>3 DEF Next

\* An import that a run waits for and that is to make the image reads the whole
\* artifact, whatever was interrupted, misread and uploaded again before, and
\* what glance holds under the image's name is then whole (scpRun's size match
\* and the preflight's md5): as long as runs are alone, and no import was cut
\* short or had its file rewritten after its caller had given up.
THEOREM ImageAlwaysWhole == Spec => []ImageIsWhole
<1>1. Init => OpInv /\ ImageInv
  <2> SUFFICES ASSUME Init PROVE OpInv /\ ImageInv
    OBVIOUS
  <2>1. \A m \in Modules : run[m].plan = <<>> /\ pc[m] = "idle"
    BY DEF Init, NoRun
  <2>2. OpInv
    BY <2>1 DEF OpInv, has
  <2>3. image = "none" /\ orphans = {} /\ \A m \in Modules : ~At(m, "image", "command")
    BY <2>1 DEF Init, At
  <2> QED BY <2>1, <2>2, <2>3 DEF ImageInv
<1>2. ImageInv => ImageIsWhole
  BY DEF ImageInv, ImageIsWhole
<1>3. Init => CreateInv
  BY DEF Init, CreateInv, OrphansInv, AloneInv, NoRecreate
<1> QED BY <1>1, <1>2, <1>3, ImageStep, CreateStep, TypeAlways, PTL DEF Spec

(***************************************************************************)
(* What is shown as installed                                              *)
(***************************************************************************)

\* The plan of a run is the one of its operation.
PlanInv ==
    \A m \in Modules :
        \/ run[m].op = "none" /\ run[m].plan = <<>> /\ run[m].state = "none" /\ pc[m] = "idle"
        \/ run[m].op = "install" /\ \E os \in BOOLEAN : run[m].plan = BuildPlan(m, os)
        \/ run[m].op = "uninstall" /\ run[m].plan = BuildUninstallPlan(m)

\* The app's record says that it is installed, or will with its next step.
Claims(m) ==
    /\ m \in shown
    /\ run[m].op = "install"
    /\ run[m].state = "done" \/ (pc[m] = "step" /\ kind(m) = "complete")

\* A removal of the framework has begun to take it down.
Deleting ==
    /\ pc[AppFW] # "idle" /\ run[AppFW].op = "uninstall"
    /\ run[AppFW].at > 2 \/ pc[AppFW] = "command"

\* An app that is gone under its record was removed by an abandoned command, or
\* with a framework whose removal is under way or stopped half way; and only
\* where nothing is shown any more is a framework left "removing" for an
\* abandoned command to take down.
ShownInv ==
    /\ \A m \in Apps : Claims(m) => m \in app \/ "remove" \in abandoned \/ half \/ Deleting
    /\ fw = "removing" => half \/ Deleting \/ \A m \in Apps : ~Claims(m)

\* Which run has which steps.
LEMMA PlanKinds ==
    ASSUME TypeInv, PlanInv, NEW m \in Modules
    PROVE  /\ kind(m) \in {"image", "framework", "app"} => run[m].op = "install"
           /\ kind(m) = "remove" => run[m].op = "uninstall"
           /\ kind(m) \in {"delete", "sweep"} \/ has(m, "delete") => m = AppFW /\ run[m].op = "uninstall"
           /\ m = AppFW /\ run[m].op = "uninstall" => has(m, "delete")
           /\ m = AppFW /\ run[m].op = "uninstall" /\ kind(m) = "delete" => run[m].at = 2
<1>1. CASE run[m].plan = <<>> /\ run[m].op = "none"
  BY <1>1 DEF kind, has
<1>2. ASSUME NEW os \in BOOLEAN, run[m].op = "install", run[m].plan = BuildPlan(m, os)
      PROVE  /\ kind(m) \in {"preflight", "image", "framework", "app", "complete"}
             /\ ~has(m, "delete")
  BY <1>2 DEF kind, has, BuildPlan
<1>3. ASSUME run[m].op = "uninstall", run[m].plan = BuildUninstallPlan(m)
      PROVE  /\ kind(m) \in {"preflight", "delete", "sweep", "remove", "complete"}
             /\ kind(m) \in {"delete", "sweep"} \/ has(m, "delete") => m = AppFW
             /\ m = AppFW => has(m, "delete")
             /\ m = AppFW /\ kind(m) = "delete" => run[m].at = 2
  <2>1. CASE m = AppFW
    <3>1. run[m].plan = <<"preflight", "delete", "sweep", "complete">>
      BY <1>3, <2>1 DEF BuildUninstallPlan
    <3>2. 2 \in DOMAIN run[m].plan /\ run[m].plan[2] = "delete"
      BY <3>1
    <3> QED BY <2>1, <3>1, <3>2 DEF kind, has
  <2>2. CASE m # AppFW
    <3>1. run[m].plan = <<"preflight", "remove", "complete">>
      BY <1>3, <2>2 DEF BuildUninstallPlan
    <3> QED BY <2>2, <3>1 DEF kind, has
  <2> QED BY <2>1, <2>2
<1> QED BY <1>1, <1>2, <1>3 DEF PlanInv

\* An app's install reaches its last step from the deployment of the app.
LEMMA CompleteEntered ==
    ASSUME TypeInv, PlanInv, NEW m \in Apps, run[m].op = "install",
           kind(m) \notin {"app", "complete"}, StepDone(m)
    PROVE  kind(m)' # "complete"
<1>1. m \in Modules /\ m # AppFW /\ run[m] \in RunRecords
  BY AppFrameworkConstants DEF Modules, TypeInv, RunType
<1>2. PICK os \in BOOLEAN : run[m].plan = BuildPlan(m, os)
  BY <1>1 DEF PlanInv
<1>3. \/ run[m].plan = <<"preflight", "image", "framework", "app", "complete">>
      \/ run[m].plan = <<"preflight", "app", "complete">>
  BY <1>1, <1>2 DEF BuildPlan
<1>4. run'[m].plan = run[m].plan /\ run'[m].at = run[m].at + 1
  BY <1>1 DEF StepDone, TypeInv, RunType, RunRecords
<1>5. run[m].at \in DOMAIN run[m].plan /\ run[m].plan[run[m].at] \notin {"app", "complete"}
  BY DEF kind
<1>6. CASE run[m].plan = <<"preflight", "image", "framework", "app", "complete">>
  <2>1. run[m].at \in {1, 2, 3}
    BY <1>5, <1>6
  <2> QED BY <1>4, <1>6, <2>1 DEF kind
<1>7. CASE run[m].plan = <<"preflight", "app", "complete">>
  <2>1. run[m].at = 1
    BY <1>5, <1>7
  <2> QED BY <1>4, <1>7, <2>1 DEF kind
<1> QED BY <1>3, <1>6, <1>7

\* A step of one run that claims nothing new, takes no app down and ends no
\* removal of the framework but half way.
LEMMA ShownKept ==
    ASSUME TypeInv, ShownInv, NEW m \in Modules,
           \A x \in Modules \ {m} : run'[x] = run[x] /\ pc'[x] = pc[x],
           shown' = shown, app \subseteq app', abandoned \subseteq abandoned', half => half',
           fw' = "removing" => fw = "removing",
           m \in Apps /\ Claims(m)' => Claims(m),
           m = AppFW /\ Deleting => Deleting' \/ half'
    PROVE  ShownInv'
<1>1. \A x \in Apps : Claims(x)' => Claims(x)
  <2> TAKE x \in Apps
  <2>1. CASE x # m
    BY <2>1 DEF Claims, kind, Modules
  <2> QED BY <2>1
<1>2. Deleting => Deleting' \/ half'
  <2>1. CASE m # AppFW
    BY <2>1 DEF Deleting, Modules
  <2> QED BY <2>1
<1> QED BY <1>1, <1>2 DEF ShownInv

\* The next step of the plan, other than the last of an app's install.
LEMMA ShownStepDone ==
    ASSUME TypeInv, PlanInv, ShownInv, NEW m \in Modules, StepDone(m),
           kind(m) \notin {"app", "complete"}, pc[m] # "idle",
           UNCHANGED <<shown, app, abandoned, half>>, fw' = "removing" => fw = "removing"
    PROVE  ShownInv'
<1>1. /\ \A x \in Modules \ {m} : run'[x] = run[x] /\ pc'[x] = pc[x]
      /\ pc'[m] = "step"
  BY StepDoneMoves DEF Moves
<1>2. run[m] \in RunRecords
  BY DEF TypeInv, RunType
<1>3. /\ run'[m].op = run[m].op /\ run'[m].state = run[m].state
      /\ run'[m].at = run[m].at + 1
  BY <1>2 DEF StepDone, TypeInv, RunType, RunRecords
<1>4. m \in Apps /\ Claims(m)' => Claims(m)
  BY <1>3, CompleteEntered DEF Claims
<1>5. m = AppFW /\ Deleting => Deleting'
  <2> SUFFICES ASSUME m = AppFW, Deleting PROVE Deleting'
    OBVIOUS
  <2>1. run[m].at \in Nat
    BY <1>2 DEF RunRecords
  <2>2. run[m].at > 2 \/ run[m].at = 2
    <3>1. CASE pc[m] = "command"
      <4>1. kind(m) \in CommandKinds
        BY <3>1 DEF TypeInv, PlaceInv
      <4>2. kind(m) = "delete"
        <5>1. kind(m) # "remove"
          <6>1. run[m].op = "uninstall" /\ run[m].plan = BuildUninstallPlan(m)
            BY DEF Deleting, PlanInv
          <6>2. run[m].plan = <<"preflight", "delete", "sweep", "complete">>
            BY <6>1 DEF BuildUninstallPlan
          <6> QED BY <6>2 DEF kind
        <5> QED BY <4>1, <5>1, PlanKinds DEF Deleting, CommandKinds
      <4> QED BY <4>2, PlanKinds DEF Deleting
    <3> QED BY <3>1 DEF Deleting
  <2>3. run'[m].at > 2
    BY <1>3, <2>1, <2>2
  <2> QED BY <1>1, <1>3, <2>3 DEF Deleting
<1> QED BY <1>1, <1>4, <1>5, ShownKept

\* A run that stops claims nothing, and a removal that stops is half done.
LEMMA ShownStops ==
    ASSUME TypeInv, PlanInv, ShownInv, NEW m \in Modules, NEW state \in {"error", "cancelled"},
           Stops(m, state), UNCHANGED <<shown, app>>, abandoned \subseteq abandoned',
           fw' = "removing" => fw = "removing"
    PROVE  ShownInv'
<1>1. /\ \A x \in Modules \ {m} : run'[x] = run[x] /\ pc'[x] = pc[x]
      /\ pc'[m] = "idle"
  BY StopsMoves DEF Moves
<1>2. run[m] \in RunRecords
  BY DEF TypeInv, RunType
<1>3. run'[m].state = state
  BY <1>2 DEF Stops, TypeInv, RunType, RunRecords
<1>4. ~Claims(m)'
  BY <1>1, <1>3 DEF Claims
<1>5. half => half'
  BY DEF Stops
<1>6. m = AppFW /\ Deleting => half'
  BY PlanKinds DEF Deleting, Stops
<1> QED BY <1>1, <1>4, <1>5, <1>6, ShownKept

\* Another place in the step of an install.
LEMMA ShownGoto ==
    ASSUME TypeInv, PlanInv, ShownInv, NEW m \in Modules,
           \A x \in Modules \ {m} : run'[x] = run[x] /\ pc'[x] = pc[x],
           pc'[m] # "step", run'[m].op = run[m].op, run'[m].state = run[m].state,
           kind(m) \in {"image", "framework"},
           UNCHANGED <<shown, app, abandoned, half>>, fw' = "removing" => fw = "removing"
    PROVE  ShownInv'
<1>1. m \in Apps /\ Claims(m)' => Claims(m)
  BY DEF Claims
<1>2. ~(m = AppFW /\ Deleting)
  BY PlanKinds DEF Deleting
<1> QED BY <1>1, <1>2, ShownKept

\* The steps up to the framework's: none claims an app, none takes one down.
LEMMA ShownPlain ==
    ASSUME TypeInv, PlanInv, ShownInv, NEW m \in Modules,
           \/ PreflightPasses(m) \/ PreflightRefuses(m) \/ ProbeFails(m)
           \/ ImageExists(m) \/ ImageMissing(m) \/ StatFails(m) \/ Pushed(m) \/ ImageConfirmed(m)
           \/ EnsureTag(m) \/ Poll(m) \/ PollTimesOut(m) \/ Verified(m) \/ VerifyTimesOut(m)
           \/ AppFails(m) \/ Sweep(m) \/ SweepSeesNothing(m) \/ CommandFails(m) \/ FailsSilently(m)
    PROVE  ShownInv'
<1>1. UNCHANGED <<shown, app, fw, abandoned>>
  <2> USE DEF cluster, history
  <2>1. CASE PreflightPasses(m) \/ PreflightRefuses(m) \/ ProbeFails(m)
    BY <2>1 DEF PreflightPasses, PreflightRefuses, ProbeFails
  <2>2. CASE ImageExists(m) \/ ImageMissing(m) \/ StatFails(m) \/ Pushed(m) \/ ImageConfirmed(m)
    BY <2>2 DEF ImageExists, ImageMissing, StatFails, Pushed, ImageConfirmed
  <2>3. CASE EnsureTag(m) \/ Poll(m) \/ PollTimesOut(m) \/ Verified(m) \/ VerifyTimesOut(m)
    BY <2>3 DEF EnsureTag, Poll, PollTimesOut, Verified, VerifyTimesOut
  <2>4. CASE AppFails(m) \/ Sweep(m) \/ SweepSeesNothing(m)
    BY <2>4 DEF AppFails, Sweep, SweepSeesNothing
  <2>5. CASE CommandFails(m) \/ FailsSilently(m)
    BY <2>5 DEF CommandFails, FailsSilently, CutShort
  <2> QED BY <2>1, <2>2, <2>3, <2>4, <2>5
<1>2. /\ pc[m] # "idle"
      /\ \A x \in Modules \ {m} : run'[x] = run[x] /\ pc'[x] = pc[x]
      /\ run'[m].op = run[m].op
  BY StepFrame DEF Quiet
<1>3. CASE StepFails(m)
  BY <1>1, <1>3, ShownStops DEF StepFails
<1>4. CASE StepDone(m) /\ kind(m) \notin {"app", "complete"} /\ UNCHANGED half
  BY <1>1, <1>2, <1>4, ShownStepDone
<1>5. CASE /\ kind(m) \in {"image", "framework"} /\ pc'[m] # "step"
           /\ run'[m].state = run[m].state /\ UNCHANGED half
  BY <1>1, <1>2, <1>5, ShownGoto
<1>6. CASE \/ PreflightPasses(m) \/ ProbeFails(m) \/ ImageExists(m) \/ Verified(m)
           \/ SweepSeesNothing(m)
  BY <1>4, <1>6 DEF PreflightPasses, ProbeFails, ImageExists, Verified, SweepSeesNothing, At, history
<1>7. CASE \/ PreflightRefuses(m) \/ PollTimesOut(m) \/ VerifyTimesOut(m) \/ AppFails(m)
           \/ CommandFails(m)
  BY <1>3, <1>7 DEF PreflightRefuses, PollTimesOut, VerifyTimesOut, AppFails, CommandFails
<1>8. CASE ImageConfirmed(m) \/ Sweep(m)
  BY <1>3, <1>4, <1>8 DEF ImageConfirmed, Sweep, At
<1>9. CASE ImageMissing(m) \/ StatFails(m) \/ Pushed(m) \/ EnsureTag(m)
  <2>1. \/ StepFails(m)
        \/ /\ run' = run /\ half' = half /\ kind(m) \in {"image", "framework"}
           /\ \E place \in {"command", "push", "list"} : Goto(m, place)
    BY <1>9 DEF ImageMissing, StatFails, Pushes, Pushed, EnsureTag, At, history
  <2>2. ASSUME NEW place \in {"command", "push", "list"}, Goto(m, place)
        PROVE  pc'[m] # "step"
    BY <2>2 DEF Goto, TypeInv, RunType
  <2> QED BY <1>3, <1>5, <2>1, <2>2
<1>10. CASE Poll(m)
  <2>1. kind(m) = "framework" /\ pc[m] = "poll"
    BY <1>10 DEF Poll, At
  <2>2. CASE run' = run /\ half' = half /\ Goto(m, "verify")
    BY <1>5, <2>1, <2>2 DEF Goto, TypeInv, RunType
  <2>3. CASE run' = [run EXCEPT ![m].found = TRUE] /\ UNCHANGED <<pc, half>>
    <3>1. run[m] \in RunRecords
      BY DEF TypeInv, RunType
    <3>2. run'[m].state = run[m].state
      BY <2>3, <3>1 DEF TypeInv, RunType, RunRecords
    <3> QED BY <1>5, <2>1, <2>3, <3>2
  <2> QED BY <1>3, <1>10, <2>2, <2>3 DEF Poll
<1>11. CASE FailsSilently(m)
  <2>1. kind(m) \in {"image", "framework", "delete"} /\ Returned(m) /\ UNCHANGED half
    BY <1>11 DEF FailsSilently
  <2>2. CASE kind(m) = "delete"
    BY <1>4, <2>1, <2>2 DEF Returned
  <2>3. CASE kind(m) # "delete"
    <3>1. run' = run /\ \E place \in {"confirm", "poll"} : Goto(m, place)
      BY <2>1, <2>3 DEF Returned
    <3>2. pc'[m] # "step"
      BY <3>1 DEF Goto, TypeInv, RunType
    <3> QED BY <1>5, <2>1, <2>3, <3>1, <3>2
  <2> QED BY <2>2, <2>3
<1> QED BY <1>6, <1>7, <1>8, <1>9, <1>10, <1>11

\* frameworkStatus changes nothing that is shown.
LEMMA ShownList ==
    ASSUME TypeInv, PlanInv, ShownInv, NEW m \in Modules, NEW st \in FwStates, ListFramework(m, st)
    PROVE  ShownInv'
<1>1. UNCHANGED <<shown, app, fw, abandoned, half>> /\ kind(m) = "framework"
  BY DEF ListFramework, cluster, At
<1>2. \A x \in Modules \ {m} : run'[x] = run[x] /\ pc'[x] = pc[x]
  BY ListMoves DEF Moves
<1>3. pc'[m] # "step"
  BY DEF ListFramework, Goto, TypeInv, RunType
<1>4. run'[m].op = run[m].op /\ run'[m].state = run[m].state
  <2>1. run[m] \in RunRecords
    BY DEF TypeInv, RunType
  <2> QED BY <2>1 DEF ListFramework, TypeInv, RunType, RunRecords
<1> QED BY <1>1, <1>2, <1>3, <1>4, ShownGoto

\* A run whose caller gives up.
LEMMA ShownInterrupted ==
    ASSUME TypeInv, PlanInv, ShownInv, NEW m \in Modules, NEW state \in {"error", "cancelled"},
           Interrupted(m, state)
    PROVE  ShownInv'
<1>1. Stops(m, state) /\ UNCHANGED <<shown, app, fw>> /\ abandoned \subseteq abandoned'
  BY DEF Interrupted, cluster
<1> QED BY <1>1, ShownStops

\* A removal of the framework begins to take it down.
LEMMA ShownCommandBegins ==
    ASSUME TypeInv, PlanInv, ShownInv, NEW m \in Modules, CommandBegins(m)
    PROVE  ShownInv'
<1>1. /\ UNCHANGED <<run, shown, app, abandoned, half>>
      /\ kind(m) \in {"app", "remove", "delete"}
      /\ fw' = "removing" => fw = "removing" \/ kind(m) = "delete"
      /\ pc[m] = "step"
  BY DEF CommandBegins, history
<1>2. pc'[m] = "command" /\ \A x \in Modules \ {m} : pc'[x] = pc[x]
  BY DEF CommandBegins, Goto, TypeInv, RunType
<1>3. CASE kind(m) = "delete"
  <2>1. m = AppFW /\ run[m].op = "uninstall"
    BY <1>3, PlanKinds
  <2>2. Deleting'
    BY <1>1, <1>2, <2>1 DEF Deleting
  <2> QED BY <2>2 DEF ShownInv
<1>4. CASE kind(m) # "delete"
  <2>1. Claims(m)' => Claims(m)
    BY <1>1, <1>2 DEF Claims
  <2>2. Deleting => Deleting'
    BY <1>1, <1>2 DEF Deleting, Modules
  <2> QED BY <1>1, <1>2, <1>4, <2>1, <2>2, ShownKept
<1> QED BY <1>3, <1>4

\* The effect of a command on what is deployed.
LEMMA EffectOnApps ==
    ASSUME NEW m, NEW cmd \in Commands, Effect(m, cmd)
    PROVE  /\ fw' = "removing" => fw = "removing"
           /\ cmd \in {"import", "create"} => app' = app
           /\ cmd = "app" => /\ app \subseteq app' /\ fw' = fw
                             /\ fw = "active" /\ registry => m \in app'
           /\ cmd = "remove" => app' = app \ {m} /\ fw' = fw
           /\ cmd = "delete" /\ fw # "removing" => app' = app
           /\ cmd = "delete" => fw' # "removing"
<1>1. CASE cmd = "import"
  BY <1>1 DEF Effect
<1>2. CASE cmd = "create"
  BY <1>2 DEF Effect, registers, listed
<1>3. CASE cmd = "delete"
  BY <1>3 DEF Effect, deletes, cluster
<1>4. CASE cmd = "app"
  BY <1>4 DEF Effect
<1>5. CASE cmd = "remove"
  BY <1>5 DEF Effect
<1> QED BY <1>1, <1>2, <1>3, <1>4, <1>5 DEF Commands

\* A command that comes back: an app is deployed before its record says so.
LEMMA ShownCommandEnds ==
    ASSUME TypeInv, PlanInv, ShownInv, NEW m \in Modules, CommandEnds(m)
    PROVE  ShownInv'
<1>1. /\ pc[m] = "command" /\ Returned(m) /\ Effect(m, commandOf(m))
      /\ kind(m) = "app" => fw = "active" /\ registry
      /\ UNCHANGED <<shown, abandoned, half>>
  BY DEF CommandEnds, history
<1>2. /\ \A x \in Modules \ {m} : run'[x] = run[x] /\ pc'[x] = pc[x]
      /\ run'[m].op = run[m].op
  BY StepFrame DEF Quiet
<1>3. commandOf(m) \in Commands /\ kind(m) \in CommandKinds
  BY <1>1, CommandOfType DEF TypeInv, PlaceInv
<1>4. CASE kind(m) \in {"image", "framework"}
  <2>1. commandOf(m) \in {"import", "create"}
    BY <1>4 DEF commandOf
  <2>2. app' = app /\ (fw' = "removing" => fw = "removing")
    BY <1>1, <1>3, <2>1, EffectOnApps
  <2>3. run' = run /\ \E place \in {"confirm", "poll"} : Goto(m, place)
    BY <1>1, <1>4 DEF Returned
  <2>4. pc'[m] # "step"
    BY <2>3 DEF Goto, TypeInv, RunType
  <2> QED BY <1>1, <1>2, <1>4, <2>2, <2>3, <2>4, ShownGoto
<1>5. CASE kind(m) = "app"
  <2>1. commandOf(m) = "app" /\ m \in Apps
    BY <1>1, <1>5, CommandOfType DEF commandOf
  <2>2. app \subseteq app' /\ m \in app' /\ fw' = "active"
    BY <1>1, <1>3, <1>5, <2>1, EffectOnApps
  <2>3. \A x \in Apps \ {m} : Claims(x)' => Claims(x)
    BY <1>1, <1>2 DEF Claims, kind, Modules
  <2>4. Deleting' <=> Deleting
    BY <1>2, <2>1, AppFrameworkConstants DEF Deleting, Modules
  <2> QED BY <1>1, <2>2, <2>3, <2>4 DEF ShownInv
<1>6. CASE kind(m) = "remove"
  <2>1. commandOf(m) = "remove" /\ run[m].op = "uninstall"
    BY <1>6, PlanKinds DEF commandOf
  <2>2. app' = app \ {m} /\ fw' = fw
    BY <1>1, <1>3, <2>1, EffectOnApps
  <2>3. \A x \in Apps : Claims(x)' => x # m /\ Claims(x)
    BY <1>1, <1>2, <2>1 DEF Claims, kind, Modules
  <2>4. m # AppFW
    <3>1. m = AppFW => run[m].plan = <<"preflight", "delete", "sweep", "complete">>
      BY <2>1 DEF PlanInv, BuildUninstallPlan
    <3> QED BY <1>6, <3>1 DEF kind
  <2>5. Deleting' <=> Deleting
    BY <1>2, <2>4 DEF Deleting, Modules
  <2> QED BY <1>1, <2>2, <2>3, <2>5 DEF ShownInv
<1>7. CASE kind(m) = "delete"
  <2>1. m = AppFW /\ run[m].op = "uninstall" /\ run[m].at = 2
    BY <1>7, PlanKinds
  <2>2. StepDone(m)
    BY <1>1, <1>7 DEF Returned
  <2>3. pc'[m] = "step" /\ run'[m].at = 3
    <3>1. run[m] \in RunRecords
      BY DEF TypeInv, RunType
    <3> QED BY <2>1, <2>2, <3>1 DEF StepDone, Goto, TypeInv, RunType, RunRecords
  <2>4. Deleting'
    BY <1>2, <2>1, <2>3 DEF Deleting
  <2> QED BY <2>4 DEF ShownInv
<1> QED BY <1>3, <1>4, <1>5, <1>6, <1>7 DEF CommandKinds

\* A run that ends claims what it did before, and a removal of the framework
\* takes the records of the apps with it.
LEMMA ShownRunFinishes ==
    ASSUME TypeInv, PlanInv, ShownInv, NEW m \in Modules, RunFinishes(m)
    PROVE  ShownInv'
<1>1. /\ pc[m] = "step" /\ kind(m) = "complete"
      /\ shown' = shown \ cascaded(m)
      /\ half' = (half /\ ~has(m, "delete"))
      /\ UNCHANGED <<app, fw, abandoned>>
  BY DEF RunFinishes, cluster, At
<1>2. /\ \A x \in Modules \ {m} : run'[x] = run[x] /\ pc'[x] = pc[x]
      /\ run'[m].op = run[m].op
  BY StepFrame DEF Quiet
<1>3. CASE m = AppFW /\ run[m].op = "uninstall"
  <2>1. \A x \in Apps : ~Claims(x)'
    BY <1>1, <1>3 DEF cascaded, Claims
  <2> QED BY <2>1 DEF ShownInv
<1>4. CASE ~(m = AppFW /\ run[m].op = "uninstall")
  <2>1. shown' = shown /\ half' = half
    <3>1. ~has(m, "delete")
      BY <1>4, PlanKinds
    <3>2. half \in BOOLEAN
      BY DEF TypeInv, RestType
    <3>3. shown' = shown
      BY <1>1, <1>4 DEF cascaded
    <3> QED BY <1>1, <3>1, <3>2, <3>3
  <2>2. m \in Apps /\ Claims(m)' => Claims(m)
    BY <1>1, <1>2, <2>1 DEF Claims
  <2>3. ~(m = AppFW /\ Deleting)
    BY <1>4 DEF Deleting
  <2> QED BY <1>1, <1>2, <2>1, <2>2, <2>3, ShownKept
<1> QED BY <1>3, <1>4

\* A run that begins has its plan, and claims nothing yet.
LEMMA ShownBegins ==
    ASSUME TypeInv, PlanInv, ShownInv, NEW m \in Modules, Operator(m)
    PROVE  PlanInv' /\ ShownInv'
<1>1. /\ pc[m] = "idle"
      /\ Goto(m, "step")
      /\ shown' = shown \cup {m}
      /\ UNCHANGED <<app, fw, abandoned, half>>
  <2> USE DEF cluster, history
  <2>1. CASE \E os, lbip \in BOOLEAN : Install(m, os, lbip)
    BY <2>1 DEF Install, Launch
  <2>2. CASE UninstallBroken(m)
    BY <2>2 DEF UninstallBroken, Launch
  <2>3. CASE Uninstall(m)
    BY <2>3 DEF Uninstall
  <2> QED BY <2>1, <2>2, <2>3 DEF Operator
<1>2. pc'[m] = "step" /\ \A x \in Modules \ {m} : pc'[x] = pc[x]
  BY <1>1 DEF Goto, TypeInv, RunType
<1>3. \/ \E os, lbip \in BOOLEAN : run' = [run EXCEPT ![m] = Begun("install", BuildPlan(m, os), lbip)]
      \/ run' = [run EXCEPT ![m] = Begun("uninstall", BuildUninstallPlan(m), FALSE)]
  BY DEF Operator, Install, UninstallBroken, Launch, Uninstall
<1>4. \A x \in Modules \ {m} : run'[x] = run[x]
  BY <1>3 DEF TypeInv, RunType
<1>5. /\ run'[m].at = 1 /\ run'[m].state = "running"
      /\ \/ run'[m].op = "install" /\ \E os \in BOOLEAN : run'[m].plan = BuildPlan(m, os)
         \/ run'[m].op = "uninstall" /\ run'[m].plan = BuildUninstallPlan(m)
  <2>1. ASSUME NEW op, NEW p, NEW lbip, run' = [run EXCEPT ![m] = Begun(op, p, lbip)]
        PROVE  /\ run'[m].at = 1 /\ run'[m].state = "running"
               /\ run'[m].op = op /\ run'[m].plan = p
    BY <2>1 DEF Begun, TypeInv, RunType
  <2>2. ASSUME NEW os \in BOOLEAN, NEW lbip \in BOOLEAN,
               run' = [run EXCEPT ![m] = Begun("install", BuildPlan(m, os), lbip)]
        PROVE  /\ run'[m].at = 1 /\ run'[m].state = "running"
               /\ run'[m].op = "install" /\ run'[m].plan = BuildPlan(m, os)
    BY <2>1, <2>2
  <2>3. ASSUME run' = [run EXCEPT ![m] = Begun("uninstall", BuildUninstallPlan(m), FALSE)]
        PROVE  /\ run'[m].at = 1 /\ run'[m].state = "running"
               /\ run'[m].op = "uninstall" /\ run'[m].plan = BuildUninstallPlan(m)
    BY <2>1, <2>3
  <2> QED BY <1>3, <2>2, <2>3, Zenon
<1>6. PlanInv'
  BY <1>2, <1>4, <1>5 DEF PlanInv
<1>7. kind(m)' = "preflight"
  <2>1. \A os \in BOOLEAN : 1 \in DOMAIN BuildPlan(m, os) /\ BuildPlan(m, os)[1] = "preflight"
    BY DEF BuildPlan
  <2>2. 1 \in DOMAIN BuildUninstallPlan(m) /\ BuildUninstallPlan(m)[1] = "preflight"
    BY DEF BuildUninstallPlan
  <2> QED BY <1>5, <2>1, <2>2 DEF kind
<1>8. \A x \in Apps : Claims(x)' => Claims(x)
  <2> TAKE x \in Apps
  <2>1. CASE x = m
    BY <1>5, <1>7, <2>1 DEF Claims
  <2>2. CASE x # m
    BY <1>1, <1>2, <1>4, <2>2 DEF Claims, kind, Modules
  <2> QED BY <2>1, <2>2
<1>9. Deleting => Deleting'
  <2>1. CASE m = AppFW
    BY <1>1, <2>1 DEF Deleting
  <2>2. CASE m # AppFW
    BY <1>2, <1>4, <2>2 DEF Deleting, Modules
  <2> QED BY <2>1, <2>2
<1> QED BY <1>1, <1>6, <1>8, <1>9 DEF ShownInv

\* What happens beside the runs: an abandoned removal may still take effect.
LEMMA ShownAround ==
    ASSUME TypeInv, OrphansInv, ShownInv,
           \/ \E j \in orphans : OrphanEnds(j) \/ OrphanDies(j)
           \/ Stage \/ Provisions \/ RegistryServes \/ UNCHANGED vars
    PROVE  ShownInv'
<1>1. UNCHANGED <<run, shown, pc, abandoned, half>>
  BY DEF OrphanEnds, OrphanDies, Stage, Provisions, RegistryServes, vars, history
<1>2. /\ \A x \in Apps : Claims(x)' <=> Claims(x)
      /\ Deleting' <=> Deleting
  BY <1>1 DEF Claims, kind, Deleting
<1>3. ASSUME app \subseteq app', fw' = "removing" => fw = "removing"
      PROVE  ShownInv'
  BY <1>1, <1>2, <1>3 DEF ShownInv
<1>4. ASSUME NEW j \in orphans, OrphanEnds(j)
      PROVE  ShownInv'
  <2>1. j.cmd \in Commands /\ Effect(j.by, j.cmd) /\ j.cmd \in abandoned
    BY <1>4 DEF OrphanEnds, TypeInv, RestType, OrphansInv
  <2>2. CASE j.cmd \in {"import", "create", "app"} \/ (j.cmd = "delete" /\ fw # "removing")
    BY <1>3, <2>1, <2>2, EffectOnApps
  <2>3. CASE j.cmd = "remove"
    BY <1>1, <1>2, <2>1, <2>3, EffectOnApps DEF ShownInv
  <2>4. CASE j.cmd = "delete" /\ fw = "removing"
    BY <1>1, <1>2, <2>1, <2>4, EffectOnApps DEF ShownInv
  <2> QED BY <2>1, <2>2, <2>3, <2>4 DEF Commands
<1>5. ASSUME NEW j \in orphans, OrphanDies(j)
      PROVE  ShownInv'
  BY <1>3, <1>5 DEF OrphanDies, CutShort
<1>6. CASE Stage \/ Provisions \/ RegistryServes \/ UNCHANGED vars
  BY <1>3, <1>6 DEF Stage, Provisions, RegistryServes, vars, cluster
<1> QED BY <1>4, <1>5, <1>6

\* Every step keeps it.
LEMMA ShownStep == TypeInv /\ OrphansInv /\ PlanInv /\ ShownInv /\ [Next]_vars => PlanInv' /\ ShownInv'
<1> SUFFICES ASSUME TypeInv, OrphansInv, PlanInv, ShownInv, [Next]_vars PROVE PlanInv' /\ ShownInv'
  OBVIOUS
<1>1. ASSUME NEW m \in Modules, Step(m) \/ StepFault(m)
      PROVE  PlanInv' /\ ShownInv'
  <2>1. fw \in FwStates /\ "absent" \in FwStates
    BY DEF TypeInv, RestType, FwStates
  <2>2. \/ Quiet(m)
        \/ \E st \in FwStates : ListFramework(m, st)
        \/ \E state \in {"error", "cancelled"} : Interrupted(m, state)
    BY <1>1, <2>1 DEF Step, StepFault, Quiet
  <2>3. PlanInv'
    BY <2>2, StepFrame DEF PlanInv
  <2>4. ShownInv'
    BY <2>2, ShownPlain, ShownList, ShownInterrupted, ShownCommandBegins, ShownCommandEnds,
       ShownRunFinishes DEF Quiet
  <2> QED BY <2>3, <2>4
<1>2. ASSUME \/ \E j \in orphans : OrphanEnds(j) \/ OrphanDies(j)
             \/ Stage \/ Provisions \/ RegistryServes \/ UNCHANGED vars
      PROVE  PlanInv' /\ ShownInv'
  <2>1. run' = run /\ pc' = pc
    BY <1>2 DEF OrphanEnds, OrphanDies, Stage, Provisions, RegistryServes, vars
  <2>2. PlanInv'
    BY <2>1 DEF PlanInv
  <2> QED BY <1>2, <2>2, ShownAround
<1> QED BY <1>1, <1>2, ShownBegins DEF Next

\* A module the manager shows as installed is on the cluster, whatever runs were
\* interrupted or met, unless an abandoned removal of an app or an unfinished
\* one of the framework has taken it away (cascadeAfterUninstall).
THEOREM ShownIsTrueAlways == Spec => []ShownIsTrue
<1>1. Init => PlanInv /\ ShownInv
  <2> SUFFICES ASSUME Init PROVE PlanInv /\ ShownInv
    OBVIOUS
  <2>1. \A m \in Modules : run[m] = NoRun /\ pc[m] = "idle"
    BY DEF Init
  <2>2. PlanInv
    BY <2>1 DEF PlanInv, NoRun
  <2> QED BY <2>2 DEF Init, ShownInv, Claims
<1>2. Init => CreateInv
  BY DEF Init, CreateInv, OrphansInv, AloneInv, NoRecreate
<1>3. CreateInv => OrphansInv
  BY DEF CreateInv
<1>4. ShownInv => ShownIsTrue
  <2> SUFFICES ASSUME ShownInv, NEW m \in Apps, Installed(m)
               PROVE  \/ m \in app \/ "remove" \in abandoned \/ half
                      \/ (pc[AppFW] # "idle" /\ run[AppFW].op = "uninstall")
    BY DEF ShownIsTrue
  <2>1. Claims(m)
    BY DEF Installed, Claims
  <2> QED BY <2>1 DEF ShownInv, Deleting
<1> QED BY <1>1, <1>2, <1>3, <1>4, ShownStep, CreateStep, TypeAlways, PTL DEF Spec
=============================================================================
