----------------------------- MODULE PxeDefault -----------------------------
(***************************************************************************)
(* The PXE server's shared grub.cfg (internal/pxe): a deploy or an inspect *)
(* points its default at an image and arms that entry, and puts everything *)
(* back once its nodes have booted.  Several drivers share the file; their *)
(* writes are meant to be serialized by an advisory lock file that another *)
(* driver may steal when it is old.                                        *)
(*                                                                         *)
(* A boot is one call of Flipper.Flip with the watcher flipForBoot starts. *)
(* Every read, every rewrite and every operation on the lock file is one   *)
(* action.                                                                 *)
(***************************************************************************)
EXTENDS Integers, FiniteSets

CONSTANTS
    Boots,      \* calls of Flip, on any driver
    Images,     \* the menu entries of grub.cfg
    NoPick,     \* no image was picked: boot the current default
    NoBoot,     \* nobody holds the lock
    MaxFaults   \* bound: failed file operations and crashed drivers

ASSUME PxeConstants ==
    /\ MaxFaults \in Nat
    /\ NoPick \notin Images
    /\ NoBoot \notin Boots

VARIABLES
    grub,     \* [default, args, timeout]: the shared file
    lock,     \* [holder, old]: the lock file, and whether its TTL has passed
    at,       \* boot -> where its Flip, or its watcher, stands
    mine,     \* boot -> what it has read of the file, and its target
    orig,     \* the file before the first flip
    fault,
    aged,     \* history: a lock was judged stale
    spoiled   \* history: a boot has read an armed file, or could not put it back

vars == <<grub, lock, at, mine, orig, fault, aged, spoiled>>

Timeouts == {"none", "0", "-1"}  \* no such line, boot at once, wait forever
Unarmed == NoBoot                \* kernel arguments: none, or those of a boot
Grub == [default : Images, args : [Images -> Boots \cup {Unarmed}], timeout : Timeouts]
Free == [holder |-> NoBoot, old |-> FALSE]

Places == { "idle", "args", "timeout", "lock", "stat", "remove", "retry",
            "setDefault", "setArgs", "setTimeout", "armed",
            "undoDefault", "undoArgs", "undoTimeout", "release", "gone" }
Writing == { "setDefault", "setArgs", "setTimeout", "armed",
             "undoDefault", "undoArgs", "undoTimeout", "release" }

\* The boots that believe they hold the lock.
Holders == {b \in Boots : at[b] \in Writing}

Init ==
    /\ grub \in [default : Images, args : [Images -> {Unarmed}], timeout : Timeouts]
    /\ lock = Free
    /\ at = [b \in Boots |-> "idle"]
    /\ mine = [b \in Boots |-> [default |-> NoPick, target |-> NoPick,
                                args |-> Unarmed, timeout |-> "unread"]]
    /\ orig = grub
    /\ fault = 0
    /\ aged = FALSE
    /\ spoiled = FALSE

Goto(b, place) == at' = [at EXCEPT ![b] = place]
Fault == fault < MaxFaults /\ fault' = fault + 1

(***************************************************************************)
(* Flip reads the file, before it takes the lock                           *)
(***************************************************************************)

\* The picked image, or whatever boots by default, is the target.
ReadDefault(b, pick) ==
    /\ at[b] = "idle"
    /\ mine' = [mine EXCEPT ![b].default = grub.default,
                            ![b].target = IF pick = NoPick THEN grub.default ELSE pick]
    /\ Goto(b, "args")
    /\ spoiled' = (spoiled \/ Holders # {})
    /\ UNCHANGED <<grub, lock, orig, fault, aged>>

ReadArgs(b) ==
    /\ at[b] = "args"
    /\ mine' = [mine EXCEPT ![b].args = grub.args[mine[b].target]]
    /\ Goto(b, "timeout")
    /\ spoiled' = (spoiled \/ Holders # {})
    /\ UNCHANGED <<grub, lock, orig, fault, aged>>

\* Mutant: the ambient timeout is not read.
ReadTimeout_Not(b) ==
    /\ at[b] = "timeout"
    /\ Goto(b, "lock")
    /\ spoiled' = (spoiled \/ Holders # {})
    /\ UNCHANGED <<grub, lock, mine, orig, fault, aged>>

ReadTimeout(b) ==
    /\ at[b] = "timeout"
    /\ mine' = [mine EXCEPT ![b].timeout = grub.timeout]
    /\ Goto(b, "lock")
    /\ spoiled' = (spoiled \/ Holders # {})
    /\ UNCHANGED <<grub, lock, orig, fault, aged>>

\* A read fails: Flip returns the error, nothing is held yet.
ReadFails(b) ==
    /\ at[b] \in {"idle", "args", "timeout"}
    /\ Fault
    /\ Goto(b, "gone")
    /\ UNCHANGED <<grub, lock, mine, orig, aged, spoiled>>

(***************************************************************************)
(* AcquireLock                                                             *)
(***************************************************************************)

\* Mutant: the lock file is opened without O_EXCL.
free_Always(b) == b \in Boots

\* O_CREATE|O_EXCL succeeds exactly when there is no file.
free(b) == lock.holder = NoBoot

TakeLock(b) ==
    /\ at[b] = "lock"
    /\ IF free(b)
       THEN lock' = [holder |-> b, old |-> FALSE] /\ Goto(b, "setDefault")
       ELSE Goto(b, "stat") /\ UNCHANGED lock
    /\ UNCHANGED <<grub, mine, orig, fault, aged, spoiled>>

\* The file exists: it is stale, or the default is busy.
StatLock(b) ==
    LET stale == lock.holder # NoBoot /\ lock.old IN
    /\ at[b] = "stat"
    /\ Goto(b, IF stale THEN "remove" ELSE "gone")
    /\ aged' = (aged \/ stale)
    /\ UNCHANGED <<grub, lock, mine, orig, fault, spoiled>>

\* The stale file is removed, whoever's it is by now, ...
RemoveStale(b) ==
    /\ at[b] = "remove"
    /\ lock' = Free
    /\ Goto(b, "retry")
    /\ UNCHANGED <<grub, mine, orig, fault, aged, spoiled>>

\* ... and the lock is tried once more.
StealLock(b) ==
    /\ at[b] = "retry"
    /\ IF free(b)
       THEN lock' = [holder |-> b, old |-> FALSE] /\ Goto(b, "setDefault")
       ELSE Goto(b, "gone") /\ UNCHANGED lock
    /\ UNCHANGED <<grub, mine, orig, fault, aged, spoiled>>

\* The lock file outlives its TTL.  The watcher's deadline (StageTimeout plus
\* a minute, 31 minutes) is later than the TTL (30 minutes), so its holder may
\* well be alive.
LockAges ==
    /\ lock.holder # NoBoot
    /\ ~lock.old
    /\ lock' = [lock EXCEPT !.old = TRUE]
    /\ UNCHANGED <<grub, at, mine, orig, fault, aged, spoiled>>

(***************************************************************************)
(* The writes, and the watcher's restore                                   *)
(***************************************************************************)

retargets(b) == mine[b].target # mine[b].default

SetDefault(b) ==
    /\ at[b] = "setDefault"
    /\ \/ /\ grub' = IF retargets(b) THEN [grub EXCEPT !.default = mine[b].target] ELSE grub
          /\ Goto(b, "setArgs")
          /\ UNCHANGED fault
       \/ /\ retargets(b)
          /\ Fault
          /\ Goto(b, "release")
          /\ UNCHANGED grub
    /\ UNCHANGED <<lock, mine, orig, aged, spoiled>>

SetEntryArgs(b) ==
    /\ at[b] = "setArgs"
    /\ \/ /\ grub' = [grub EXCEPT !.args[mine[b].target] = b]
          /\ Goto(b, "setTimeout")
          /\ UNCHANGED fault
       \/ /\ Fault
          /\ Goto(b, "undoDefault")
          /\ UNCHANGED grub
    /\ UNCHANGED <<lock, mine, orig, aged, spoiled>>

\* Mutant: the ambient timeout is left alone.
autoBoot_Ambient(timeout) == timeout

\* A file without the line is left alone.
autoBoot(timeout) == IF timeout = "none" THEN timeout ELSE "0"

SetTimeout(b) ==
    /\ at[b] = "setTimeout"
    /\ \/ /\ grub' = [grub EXCEPT !.timeout = autoBoot(@)]
          /\ Goto(b, "armed")
          /\ UNCHANGED fault
       \/ /\ Fault
          /\ Goto(b, "undoDefault")
          /\ UNCHANGED grub
    /\ UNCHANGED <<lock, mine, orig, aged, spoiled>>

\* flipForBoot's watcher: the context is cancelled, every node has booted, or
\* the deadline has passed.
Booted(b) ==
    /\ at[b] = "armed"
    /\ Goto(b, "undoDefault")
    /\ UNCHANGED <<grub, lock, mine, orig, fault, aged, spoiled>>

\* One rewrite of undo; a failed one is only logged.
Undo(b, restored, next) ==
    /\ Goto(b, next)
    /\ \/ grub' = restored /\ UNCHANGED <<fault, spoiled>>
       \/ Fault /\ spoiled' = TRUE /\ UNCHANGED grub
    /\ UNCHANGED <<lock, mine, orig, aged>>

UndoDefault(b) ==
    /\ at[b] = "undoDefault"
    /\ Undo(b, IF retargets(b) THEN [grub EXCEPT !.default = mine[b].default] ELSE grub,
            "undoArgs")

\* Mutant: the arguments are put back on the old default.
UndoArgs_Default(b) ==
    /\ at[b] = "undoArgs"
    /\ Undo(b, [grub EXCEPT !.args[mine[b].default] = mine[b].args], "undoTimeout")

UndoArgs(b) ==
    /\ at[b] = "undoArgs"
    /\ Undo(b, [grub EXCEPT !.args[mine[b].target] = mine[b].args], "undoTimeout")

UndoTimeout(b) ==
    /\ at[b] = "undoTimeout"
    /\ Undo(b, IF mine[b].timeout \in {"none", "0"} THEN grub
               ELSE [grub EXCEPT !.timeout = mine[b].timeout],
            "release")

\* release removes the lock file, whoever's it is by now; a removal that fails
\* goes unnoticed, and the file stays.
Release(b) ==
    /\ at[b] = "release"
    /\ \/ lock' = Free /\ UNCHANGED fault
       \/ Fault /\ UNCHANGED lock
    /\ Goto(b, "gone")
    /\ UNCHANGED <<grub, mine, orig, aged, spoiled>>

\* The boot's driver dies; its lock file and its writes stay.
Crash(b) ==
    /\ at[b] \in Places \ {"idle", "gone"}
    /\ Fault
    /\ Goto(b, "gone")
    /\ spoiled' = (spoiled \/ b \in Holders)
    /\ UNCHANGED <<grub, lock, mine, orig, aged>>

(***************************************************************************)
(* The specification                                                       *)
(***************************************************************************)

Flip(b) ==
    \/ \E pick \in Images \cup {NoPick} : ReadDefault(b, pick)
    \/ ReadArgs(b) \/ ReadTimeout(b) \/ ReadFails(b)
    \/ TakeLock(b) \/ StatLock(b) \/ RemoveStale(b) \/ StealLock(b)
    \/ SetDefault(b) \/ SetEntryArgs(b) \/ SetTimeout(b)

Restore(b) == Booted(b) \/ UndoDefault(b) \/ UndoArgs(b) \/ UndoTimeout(b) \/ Release(b)

Next == LockAges \/ \E b \in Boots : Flip(b) \/ Restore(b) \/ Crash(b)

Spec == Init /\ [][Next]_vars

(***************************************************************************)
(* Properties                                                              *)
(***************************************************************************)

\* Every variable has its type: in particular grub.cfg only ever holds values
\* it held before, a boot's own arguments and the auto-boot timeout.
PxeTypeOK ==
    /\ grub \in Grub
    /\ orig \in Grub
    /\ lock \in [holder : Boots \cup {NoBoot}, old : BOOLEAN]
    /\ at \in [Boots -> Places]
    /\ mine \in [Boots -> [default : Images \cup {NoPick}, target : Images \cup {NoPick},
                           args : Boots \cup {Unarmed}, timeout : Timeouts \cup {"unread"}]]
    /\ fault \in 0..MaxFaults
    /\ aged \in BOOLEAN
    /\ spoiled \in BOOLEAN

\* "All writes to the shared grub.cfg are serialized by an advisory lock": as
\* long as no lock has outlived its TTL, one boot at a time is between its
\* AcquireLock and its release, and the lock file is its own.
Exclusive ==
    ~aged => \A b \in Holders : lock.holder = b

\* While its nodes boot, a boot finds in the file what it wrote: its target as
\* the default, armed with its own arguments, booted without a menu (Flip),
\* provided it did not read the file in the middle of another's flip.
BootsThePick ==
    ~aged /\ ~spoiled => \A b \in Boots : at[b] = "armed" =>
        /\ grub.default = mine[b].target
        /\ grub.args[grub.default] = b
        /\ grub.timeout # "-1"

\* Once nobody is flipping, the file is what it was before, failed flips
\* included: default, arguments of every entry, and timeout.
PutBack ==
    ~aged /\ ~spoiled /\ Holders = {} => grub = orig
=============================================================================
