----------------------------- MODULE PxeProofs -----------------------------
(***************************************************************************)
(* For any number of drivers and images: the values in the shared file,    *)
(* the lock that excludes as long as no lock file outlives its TTL, and    *)
(* what that is for: a boot finds what it wrote, and the file is put back. *)
(***************************************************************************)
EXTENDS PxeDefault, TLAPS

\* What makes Exclusive inductive: a boot is past its look at a stale lock
\* only if some lock was stale.
Stealing == \A b \in Boots : at[b] \in {"remove", "retry"} => aged

LockInv ==
    /\ at \in [Boots -> Places]
    /\ aged \in BOOLEAN
    /\ Stealing
    /\ Exclusive

\* Before the first flip nobody holds or steals the lock.
LEMMA LockInit == Init => LockInv
  BY PxeConstants DEF Init, LockInv, Stealing, Exclusive, Holders, Writing, Places

\* The steps that leave the lock file alone, or set only its age: a boot that
\* enters or stays among the holders was one before, and its place is new.
LEMMA LockKept ==
    ASSUME LockInv, NEW b \in Boots, NEW place \in Places,
           at' = [at EXCEPT ![b] = place],
           lock'.holder = lock.holder, aged' = aged,
           place \in Writing => at[b] \in Writing,
           place \notin {"remove", "retry"}
    PROVE  LockInv'
  BY DEF LockInv, Stealing, Exclusive, Holders, Places

\* A boot that finds the lock free takes it: by Exclusive nobody held it.
LEMMA LockTaken ==
    ASSUME LockInv, NEW b \in Boots, lock.holder = NoBoot,
           at' = [at EXCEPT ![b] = "setDefault"],
           lock' = [holder |-> b, old |-> FALSE], aged' = aged
    PROVE  LockInv'
  <1>1. ~aged => Holders = {}
    BY PxeConstants DEF LockInv, Exclusive, Holders
  <1>2. ~aged' => Holders' \subseteq {b}
    BY <1>1 DEF LockInv, Holders, Writing
  <1>3. Exclusive'
    BY <1>2 DEF Exclusive
  <1>4. QED
    BY <1>3 DEF LockInv, Stealing, Places

\* Every step of Flip keeps the lock exclusive.
LEMMA FlipKeeps ==
    ASSUME LockInv, NEW b \in Boots, Flip(b)
    PROVE  LockInv'
  <1>1. CASE \E pick \in Images \cup {NoPick} : ReadDefault(b, pick)
    BY <1>1, LockKept DEF ReadDefault, Goto, Writing, Places
  <1>2. CASE ReadArgs(b)
    BY <1>2, LockKept DEF ReadArgs, Goto, Writing, Places
  <1>3. CASE ReadTimeout(b)
    BY <1>3, LockKept DEF ReadTimeout, Goto, Writing, Places
  <1>4. CASE ReadFails(b)
    BY <1>4, LockKept DEF ReadFails, Goto, Writing, Places
  <1>5. CASE TakeLock(b)
    <2>1. CASE free(b)
      BY <1>5, <2>1, LockTaken DEF TakeLock, free, Goto
    <2>2. CASE ~free(b)
      BY <1>5, <2>2, LockKept DEF TakeLock, Goto, Writing, Places
    <2>3. QED
      BY <2>1, <2>2
  <1>6. CASE StatLock(b)
    BY <1>6 DEF StatLock, Goto, LockInv, Stealing, Exclusive, Holders, Writing, Places
  <1>7. CASE RemoveStale(b)
    BY <1>7 DEF RemoveStale, Goto, LockInv, Stealing, Exclusive, Holders, Writing, Places
  <1>8. CASE StealLock(b)
    <2>1. aged' = TRUE
      BY <1>8 DEF StealLock, LockInv, Stealing
    <2>2. QED
      BY <1>8, <2>1 DEF StealLock, Goto, LockInv, Stealing, Exclusive, Places
  <1>9. CASE SetDefault(b)
    BY <1>9, LockKept DEF SetDefault, Goto, Writing, Places
  <1>10. CASE SetEntryArgs(b)
    BY <1>10, LockKept DEF SetEntryArgs, Goto, Writing, Places
  <1>11. CASE SetTimeout(b)
    BY <1>11, LockKept DEF SetTimeout, Goto, Writing, Places
  <1>12. QED
    BY <1>1, <1>2, <1>3, <1>4, <1>5, <1>6, <1>7, <1>8, <1>9, <1>10, <1>11 DEF Flip

\* So does every step of the watcher's restore: only the last one frees the
\* lock, and by Exclusive it frees its own.
LEMMA RestoreKeeps ==
    ASSUME LockInv, NEW b \in Boots, Restore(b)
    PROVE  LockInv'
  <1>1. CASE Booted(b)
    BY <1>1, LockKept DEF Booted, Goto, Writing, Places
  <1>2. CASE UndoDefault(b)
    BY <1>2, LockKept DEF UndoDefault, Undo, Goto, Writing, Places
  <1>3. CASE UndoArgs(b)
    BY <1>3, LockKept DEF UndoArgs, Undo, Goto, Writing, Places
  <1>4. CASE UndoTimeout(b)
    BY <1>4, LockKept DEF UndoTimeout, Undo, Goto, Writing, Places
  <1>5. CASE Release(b)
    <2>1. ~aged => Holders \subseteq {b}
      BY <1>5 DEF Release, LockInv, Exclusive, Holders, Writing
    <2>2. ~aged' => Holders' = {}
      BY <1>5, <2>1 DEF Release, Goto, LockInv, Holders, Writing
    <2>3. Exclusive'
      BY <2>2 DEF Exclusive
    <2>4. QED
      BY <1>5, <2>3 DEF Release, Goto, LockInv, Stealing, Places
  <1>6. QED
    BY <1>1, <1>2, <1>3, <1>4, <1>5 DEF Restore

\* The lock invariant is inductive.
LEMMA LockStep == LockInv /\ [Next]_vars => LockInv'
  <1> SUFFICES ASSUME LockInv, [Next]_vars PROVE LockInv'
    OBVIOUS
  <1>1. CASE LockAges
    BY <1>1 DEF LockAges, LockInv, Stealing, Exclusive, Holders
  <1>2. CASE \E b \in Boots : Flip(b) \/ Restore(b)
    BY <1>2, FlipKeeps, RestoreKeeps
  <1>3. CASE \E b \in Boots : Crash(b)
    BY <1>3, LockKept DEF Crash, Goto, Writing, Places
  <1>4. CASE UNCHANGED vars
    BY <1>4 DEF vars, LockInv, Stealing, Exclusive, Holders
  <1>5. QED
    BY <1>1, <1>2, <1>3, <1>4 DEF Next

\* However many drivers share the PXE server, two of them are between
\* AcquireLock and release at once only after a lock file outlived its TTL.
THEOREM ExclusiveAlways == Spec => []Exclusive
  <1>1. Init => LockInv
    BY LockInit
  <1>2. LockInv /\ [Next]_vars => LockInv'
    BY LockStep
  <1>3. LockInv => Exclusive
    BY DEF LockInv
  <1>4. QED
    BY <1>1, <1>2, <1>3, PTL DEF Spec

(***************************************************************************)
(* Types                                                                   *)
(***************************************************************************)

\* Where the image, and where the timeout, has been read.
Picked == Places \ {"idle", "gone"}
Read == Picked \ {"args", "timeout"}

\* A boot writes what it has read: values of the file, never a blank.
ReadInv ==
    \A b \in Boots :
        /\ at[b] \in Picked => mine[b].default \in Images /\ mine[b].target \in Images
        /\ at[b] \in Read => mine[b].timeout \in Timeouts

TypeInv == PxeTypeOK /\ ReadInv

(***************************************************************************)
(* The content of the file                                                 *)
(***************************************************************************)

\* What a boot has read is what the file held before the first flip.
MineInv(b) ==
    /\ at[b] \in Picked => mine[b].default = orig.default
    /\ at[b] \in Picked \ {"args"} => mine[b].args = orig.args[mine[b].target]
    /\ at[b] \in Read => mine[b].timeout = orig.timeout

\* How far its holder has changed the file, or changed it back.
HeldInv(b) ==
    /\ grub.default = IF at[b] \in {"setArgs", "setTimeout", "armed", "undoDefault"}
                      THEN mine[b].target ELSE orig.default
    /\ \A i \in Images \ {mine[b].target} : grub.args[i] = orig.args[i]
    /\ at[b] \in {"setTimeout", "armed"} => grub.args[mine[b].target] = b
    /\ at[b] \in {"setDefault", "setArgs", "undoTimeout", "release"} =>
            grub.args[mine[b].target] = orig.args[mine[b].target]
    /\ at[b] = "armed" => grub.timeout = autoBoot(orig.timeout)
    /\ grub.timeout # orig.timeout =>
            /\ at[b] \in {"armed", "undoDefault", "undoArgs", "undoTimeout"}
            /\ grub.timeout = autoBoot(orig.timeout)

FileInv ==
    ~aged /\ ~spoiled =>
        /\ \A b \in Boots : MineInv(b)
        /\ \A b \in Holders : HeldInv(b)
        /\ Holders = {} => grub = orig

(***************************************************************************)
(* Proofs of the types                                                     *)
(***************************************************************************)

\* Nothing has been read at first.
LEMMA TypeInit == Init => TypeInv
  <1> SUFFICES ASSUME Init PROVE TypeInv
    OBVIOUS
  <1>1. grub \in Grub /\ orig \in Grub
    BY DEF Init, Grub, Unarmed
  <1>2. PxeTypeOK
    <2>1. fault \in 0..MaxFaults
      BY PxeConstants DEF Init
    <2>2. lock \in [holder : Boots \cup {NoBoot}, old : BOOLEAN]
      BY DEF Init, Free
    <2>3. aged \in BOOLEAN /\ spoiled \in BOOLEAN
      BY DEF Init
    <2>4. QED
      BY <1>1, <2>1, <2>2, <2>3 DEF Init, PxeTypeOK, Places
  <1>3. ReadInv
    BY DEF Init, ReadInv, Picked, Read
  <1>4. QED
    BY <1>2, <1>3 DEF TypeInv

\* The steps of a boot that read nothing: they keep what was read, and enter
\* no place where more must have been.
LEMMA TypeKept ==
    ASSUME TypeInv, NEW b \in Boots, NEW place \in Places, Goto(b, place),
           mine' = mine, orig' = orig,
           place \in Picked => at[b] \in Picked, place \in Read => at[b] \in Read,
           grub' \in Grub, lock' \in [holder : Boots \cup {NoBoot}, old : BOOLEAN],
           fault' = fault \/ Fault, aged' \in BOOLEAN, spoiled' \in BOOLEAN
    PROVE  TypeInv'
  <1>1. at' \in [Boots -> Places] /\ at'[b] = place /\ \A x \in Boots \ {b} : at'[x] = at[x]
    BY DEF Goto, TypeInv, PxeTypeOK
  <1>2. fault' \in 0..MaxFaults
    BY PxeConstants DEF Fault, TypeInv, PxeTypeOK
  <1>3. PxeTypeOK'
    BY <1>1, <1>2 DEF TypeInv, PxeTypeOK
  <1>4. ReadInv'
    BY <1>1 DEF TypeInv, ReadInv
  <1>5. QED
    BY <1>3, <1>4 DEF TypeInv

\* The steps that read the file.
LEMMA TypeReads ==
    ASSUME TypeInv, NEW b \in Boots,
           \/ \E pick \in Images \cup {NoPick} : ReadDefault(b, pick)
           \/ ReadArgs(b) \/ ReadTimeout(b)
    PROVE  TypeInv'
  <1> USE DEF TypeInv, PxeTypeOK, Goto
  <1>1. UNCHANGED <<grub, lock, orig, fault, aged>> /\ spoiled' \in BOOLEAN
    BY DEF ReadDefault, ReadArgs, ReadTimeout
  <1>2. grub.default \in Images /\ grub.timeout \in Timeouts
        /\ \A i \in Images : grub.args[i] \in Boots \cup {Unarmed}
    BY DEF Grub
  <1>3. ASSUME NEW pick \in Images \cup {NoPick}, ReadDefault(b, pick)
        PROVE  TypeInv'
    <2>1. /\ at' = [at EXCEPT ![b] = "args"]
          /\ \A x \in Boots \ {b} : mine'[x] = mine[x]
          /\ mine'[b].default \in Images /\ mine'[b].target \in Images
          /\ mine' \in [Boots -> [default : Images \cup {NoPick}, target : Images \cup {NoPick},
                           args : Boots \cup {Unarmed}, timeout : Timeouts \cup {"unread"}]]
      <3> DEFINE t == IF pick = NoPick THEN grub.default ELSE pick
      <3>1. t \in Images
        BY <1>2
      <3>2. /\ mine' = [mine EXCEPT ![b].default = grub.default, ![b].target = t]
            /\ at' = [at EXCEPT ![b] = "args"]
        BY <1>3 DEF ReadDefault
      <3> HIDE DEF t
      <3> DEFINE r == [mine[b] EXCEPT !.default = grub.default, !.target = t]
      <3>3. mine' = [mine EXCEPT ![b] = r]
        BY <3>2
      <3>4. /\ r \in [default : Images \cup {NoPick}, target : Images \cup {NoPick},
                      args : Boots \cup {Unarmed}, timeout : Timeouts \cup {"unread"}]
            /\ r.default \in Images /\ r.target \in Images
        BY <1>2, <3>1
      <3> HIDE DEF r
      <3>5. /\ \A x \in Boots \ {b} : mine'[x] = mine[x]
            /\ mine'[b] = r
        BY <3>3
      <3>6. mine' \in [Boots -> [default : Images \cup {NoPick}, target : Images \cup {NoPick},
                           args : Boots \cup {Unarmed}, timeout : Timeouts \cup {"unread"}]]
        BY <3>3, <3>4
      <3>7. QED
        BY <3>2, <3>4, <3>5, <3>6
    <2>2. PxeTypeOK'
      BY <1>1, <2>1 DEF Places
    <2>3. ReadInv'
      BY <2>1 DEF ReadInv, Picked, Read
    <2>4. QED
      BY <2>2, <2>3
  <1>4. CASE ReadArgs(b)
    <2>1. mine[b].target \in Images
      BY <1>4 DEF ReadArgs, ReadInv, Picked, Places
    <2>2. /\ at' = [at EXCEPT ![b] = "timeout"]
          /\ \A x \in Boots \ {b} : mine'[x] = mine[x]
          /\ mine'[b].default = mine[b].default /\ mine'[b].target = mine[b].target
          /\ mine' \in [Boots -> [default : Images \cup {NoPick}, target : Images \cup {NoPick},
                           args : Boots \cup {Unarmed}, timeout : Timeouts \cup {"unread"}]]
      BY <1>2, <1>4, <2>1 DEF ReadArgs
    <2>3. PxeTypeOK'
      BY <1>1, <2>2 DEF Places
    <2>4. ReadInv'
      BY <1>4, <2>2 DEF ReadArgs, ReadInv, Picked, Read, Places
    <2>5. QED
      BY <2>3, <2>4
  <1>5. CASE ReadTimeout(b)
    <2>1. /\ at' = [at EXCEPT ![b] = "lock"]
          /\ \A x \in Boots \ {b} : mine'[x] = mine[x]
          /\ mine'[b].default = mine[b].default /\ mine'[b].target = mine[b].target
          /\ mine'[b].timeout \in Timeouts
          /\ mine' \in [Boots -> [default : Images \cup {NoPick}, target : Images \cup {NoPick},
                           args : Boots \cup {Unarmed}, timeout : Timeouts \cup {"unread"}]]
      BY <1>2, <1>5 DEF ReadTimeout
    <2>2. PxeTypeOK'
      BY <1>1, <2>1 DEF Places
    <2>3. ReadInv'
      BY <1>5, <2>1 DEF ReadTimeout, ReadInv, Picked, Read, Places
    <2>4. QED
      BY <2>2, <2>3
  <1>6. QED
    BY <1>3, <1>4, <1>5

\* The steps on the lock file, and those that give up.
LEMMA TypeLock ==
    ASSUME TypeInv, NEW b \in Boots,
           \/ ReadFails(b) \/ TakeLock(b) \/ StatLock(b) \/ RemoveStale(b) \/ StealLock(b)
           \/ Booted(b) \/ Release(b) \/ Crash(b)
    PROVE  TypeInv'
  <1>1. /\ grub' = grub /\ mine' = mine /\ orig' = orig /\ (fault' = fault \/ Fault)
        /\ aged' \in BOOLEAN /\ spoiled' \in BOOLEAN
    BY DEF TypeInv, PxeTypeOK, ReadFails, TakeLock, StatLock, RemoveStale, StealLock, Booted,
           Release, Crash
  <1>2. lock' \in [holder : Boots \cup {NoBoot}, old : BOOLEAN]
    <2>1. lock' = lock \/ lock' = Free \/ lock' = [holder |-> b, old |-> FALSE]
      BY DEF ReadFails, TakeLock, StatLock, RemoveStale, StealLock, Booted, Release, Crash
    <2>2. /\ Free \in [holder : Boots \cup {NoBoot}, old : BOOLEAN]
          /\ [holder |-> b, old |-> FALSE] \in [holder : Boots \cup {NoBoot}, old : BOOLEAN]
      BY DEF Free
    <2>3. QED
      BY <2>1, <2>2 DEF TypeInv, PxeTypeOK
  <1>3. \E place \in Places : /\ Goto(b, place)
                              /\ place \in Picked => at[b] \in Picked
                              /\ place \in Read => at[b] \in Read
    BY DEF ReadFails, TakeLock, StatLock, RemoveStale, StealLock, Booted, Release, Crash,
           Picked, Read, Places
  <1>4. grub' \in Grub
    BY <1>1 DEF TypeInv, PxeTypeOK
  <1>5. QED
    BY <1>1, <1>2, <1>3, <1>4, TypeKept

\* The rewrites of the file.
LEMMA TypeWrites ==
    ASSUME TypeInv, NEW b \in Boots,
           \/ SetDefault(b) \/ SetEntryArgs(b) \/ SetTimeout(b)
           \/ UndoDefault(b) \/ UndoArgs(b) \/ UndoTimeout(b)
    PROVE  TypeInv'
  <1>1. at[b] \in Picked /\ at[b] \in Read
    BY DEF SetDefault, SetEntryArgs, SetTimeout, UndoDefault, UndoArgs, UndoTimeout, Picked, Read, Places
  <1>2. /\ mine[b].default \in Images /\ mine[b].target \in Images
        /\ mine[b].timeout \in Timeouts /\ mine[b].args \in Boots \cup {Unarmed}
    BY <1>1 DEF TypeInv, ReadInv, PxeTypeOK
  <1>3. /\ lock' = lock /\ mine' = mine /\ orig' = orig /\ (fault' = fault \/ Fault)
        /\ aged' = aged /\ spoiled' \in BOOLEAN
    BY DEF TypeInv, PxeTypeOK, SetDefault, SetEntryArgs, SetTimeout, UndoDefault, UndoArgs,
           UndoTimeout, Undo
  <1>4. \E place \in Places : Goto(b, place)
    BY DEF SetDefault, SetEntryArgs, SetTimeout, UndoDefault, UndoArgs, UndoTimeout, Undo, Places
  <1>5. grub \in Grub
    BY DEF TypeInv, PxeTypeOK
  <1>6. grub' \in Grub
    <2> USE <1>2, <1>5 DEF Grub
    <2>1. CASE SetDefault(b)
      BY <2>1 DEF SetDefault
    <2>2. CASE SetEntryArgs(b)
      BY <2>2 DEF SetEntryArgs
    <2>3. CASE SetTimeout(b)
      BY <2>3 DEF SetTimeout, autoBoot, Timeouts
    <2>4. CASE UndoDefault(b)
      BY <2>4 DEF UndoDefault, Undo
    <2>5. CASE UndoArgs(b)
      BY <2>5 DEF UndoArgs, Undo
    <2>6. CASE UndoTimeout(b)
      BY <2>6 DEF UndoTimeout, Undo
    <2>7. QED
      BY <2>1, <2>2, <2>3, <2>4, <2>5, <2>6
  <1>7. lock' \in [holder : Boots \cup {NoBoot}, old : BOOLEAN] /\ aged' \in BOOLEAN
    BY <1>3 DEF TypeInv, PxeTypeOK
  <1>8. QED
    BY <1>1, <1>3, <1>4, <1>6, <1>7, TypeKept

\* The type invariant is inductive.
LEMMA TypeStep == TypeInv /\ [Next]_vars => TypeInv'
  <1> SUFFICES ASSUME TypeInv, [Next]_vars PROVE TypeInv'
    OBVIOUS
  <1>1. CASE LockAges
    <2>1. lock' \in [holder : Boots \cup {NoBoot}, old : BOOLEAN]
      BY <1>1 DEF LockAges, TypeInv, PxeTypeOK
    <2>2. QED
      BY <1>1, <2>1 DEF LockAges, TypeInv, PxeTypeOK, ReadInv
  <1>2. CASE UNCHANGED vars
    BY <1>2 DEF vars, TypeInv, PxeTypeOK, ReadInv
  <1>3. ASSUME NEW b \in Boots, Flip(b) \/ Restore(b) \/ Crash(b)
        PROVE  TypeInv'
    BY <1>3, TypeReads, TypeLock, TypeWrites DEF Flip, Restore
  <1>4. QED
    BY <1>1, <1>2, <1>3 DEF Next

\* The file only ever holds values it held before, the arguments of a boot and
\* the auto-boot timeout: no step writes a value it has not read (Flip, undo).
THEOREM PxeTypeCorrect == Spec => []PxeTypeOK
  <1>1. TypeInv => PxeTypeOK
    BY DEF TypeInv
  <1>2. QED
    BY <1>1, TypeInit, TypeStep, PTL DEF Spec

(***************************************************************************)
(* Proofs about the content                                                *)
(***************************************************************************)

\* The invariant of the content, where it says something.
Quiet == ~aged /\ ~spoiled
Inv == TypeInv /\ LockInv /\ FileInv

\* A holder is alone.
LEMMA OneHolder ==
    ASSUME Inv, Quiet, NEW b \in Boots, at[b] \in Writing
    PROVE  Holders = {b}
  BY DEF Inv, Quiet, LockInv, Exclusive, Holders

\* A boot moves, the file and what was read stay, and the holders are the same:
\* only a place that requires nothing new of the file is entered.
LEMMA FileKept ==
    ASSUME Inv, NEW b \in Boots, NEW place \in Places, Goto(b, place),
           UNCHANGED <<grub, mine, orig>>, Quiet' => Quiet,
           at[b] \notin Writing, place \notin Writing,
           place \in Picked => at[b] \in Read
    PROVE  FileInv'
  <1>1. at'[b] = place /\ \A x \in Boots \ {b} : at'[x] = at[x]
    BY DEF Goto, Inv, TypeInv, PxeTypeOK
  <1>2. Holders' = Holders
    BY <1>1 DEF Holders
  <1> SUFFICES ASSUME Quiet'
               PROVE  /\ \A x \in Boots : MineInv(x)'
                      /\ \A x \in Holders' : HeldInv(x)'
                      /\ Holders' = {} => grub' = orig'
    BY DEF FileInv, Quiet
  <1>3. Quiet
    OBVIOUS
  <1>4. \A x \in Boots : MineInv(x)'
    BY <1>1, <1>3 DEF Inv, FileInv, Quiet, MineInv, Picked, Read
  <1>5. ASSUME NEW x \in Holders' PROVE HeldInv(x)'
    <2>1. x \in Boots \ {b} /\ x \in Holders
      BY <1>1, <1>2 DEF Holders
    <2>2. QED
      BY <1>1, <1>3, <2>1 DEF Inv, FileInv, Quiet, HeldInv
  <1>6. QED
    BY <1>2, <1>3, <1>4, <1>5 DEF Inv, FileInv, Quiet

\* Flip reads while nobody holds the lock, or the boot is spoiled.
LEMMA FileReads ==
    ASSUME Inv, NEW b \in Boots,
           \/ \E pick \in Images \cup {NoPick} : ReadDefault(b, pick)
           \/ ReadArgs(b) \/ ReadTimeout(b)
    PROVE  FileInv'
  <1>1. /\ UNCHANGED <<grub, lock, orig, fault, aged>>
        /\ spoiled' = (spoiled \/ Holders # {})
        /\ mine \in [Boots -> [default : Images \cup {NoPick}, target : Images \cup {NoPick},
                           args : Boots \cup {Unarmed}, timeout : Timeouts \cup {"unread"}]]
        /\ at \in [Boots -> Places]
    BY DEF ReadDefault, ReadArgs, ReadTimeout, Inv, TypeInv, PxeTypeOK
  <1> SUFFICES ASSUME Quiet' PROVE FileInv'
    BY DEF FileInv, Quiet
  <1>2. Quiet /\ Holders = {}
    BY <1>1 DEF Quiet
  <1>3. grub = orig /\ \A x \in Boots : MineInv(x)
    BY <1>2 DEF Inv, FileInv, Quiet
  <1>4. /\ \A x \in Boots \ {b} : mine'[x] = mine[x] /\ at'[x] = at[x]
        /\ at'[b] \in {"args", "timeout", "lock"}
    BY <1>1 DEF ReadDefault, ReadArgs, ReadTimeout, Goto
  <1>5. Holders' = {}
    BY <1>2, <1>4 DEF Holders, Writing
  <1>6. MineInv(b)'
    <2>1. CASE \E pick \in Images \cup {NoPick} : ReadDefault(b, pick)
      <3>1. at'[b] = "args" /\ mine'[b].default = grub.default
        BY <1>1, <2>1 DEF ReadDefault, Goto
      <3>2. QED
        BY <1>1, <1>3, <3>1 DEF MineInv, Picked, Read
    <2>2. CASE ReadArgs(b)
      <3>1. /\ at[b] = "args" /\ at'[b] = "timeout"
            /\ mine'[b].default = mine[b].default /\ mine'[b].target = mine[b].target
            /\ mine'[b].args = grub.args[mine[b].target]
        BY <1>1, <2>2 DEF ReadArgs, Goto
      <3>2. QED
        BY <1>1, <1>3, <3>1 DEF MineInv, Picked, Read, Places
    <2>3. CASE ReadTimeout(b)
      <3>1. /\ at[b] = "timeout" /\ at'[b] = "lock"
            /\ mine'[b].default = mine[b].default /\ mine'[b].target = mine[b].target
            /\ mine'[b].args = mine[b].args /\ mine'[b].timeout = grub.timeout
        BY <1>1, <2>3 DEF ReadTimeout, Goto
      <3>2. QED
        BY <1>1, <1>3, <3>1 DEF MineInv, Picked, Read, Places
    <2>4. QED
      BY <2>1, <2>2, <2>3
  <1>7. \A x \in Boots \ {b} : MineInv(x)'
    BY <1>1, <1>3, <1>4 DEF MineInv
  <1>8. QED
    BY <1>1, <1>3, <1>5, <1>6, <1>7 DEF FileInv

\* A boot that finds the lock free finds the file as it was.
LEMMA FileTaken ==
    ASSUME Inv, NEW b \in Boots, TakeLock(b) \/ StealLock(b)
    PROVE  FileInv'
  <1>1. CASE StealLock(b)
    BY <1>1 DEF StealLock, Inv, LockInv, Stealing, FileInv
  <1>2. CASE TakeLock(b) /\ ~free(b)
    BY <1>2, FileKept DEF TakeLock, Quiet, Writing, Picked, Read, Places
  <1>3. CASE TakeLock(b) /\ free(b)
    <2>1. /\ UNCHANGED <<grub, mine, orig, aged, spoiled>>
          /\ at[b] = "lock" /\ at'[b] = "setDefault"
          /\ \A x \in Boots \ {b} : at'[x] = at[x]
      BY <1>3 DEF TakeLock, Goto, Inv, LockInv
    <2> SUFFICES ASSUME Quiet PROVE FileInv'
      BY <2>1 DEF FileInv, Quiet
    <2>2. Holders = {}
      BY <1>3, PxeConstants DEF free, Inv, LockInv, Exclusive, Holders, Quiet
    <2>3. grub = orig /\ \A x \in Boots : MineInv(x)
      BY <2>2 DEF Inv, FileInv, Quiet
    <2>4. Holders' = {b}
      BY <2>1, <2>2 DEF Holders, Writing
    <2>5. \A x \in Boots : MineInv(x)'
      BY <2>1, <2>3 DEF MineInv, Picked, Read, Places
    <2>6. HeldInv(b)'
      BY <2>1, <2>3 DEF HeldInv
    <2>7. QED
      BY <2>4, <2>5, <2>6 DEF FileInv
  <1>4. QED
    BY <1>1, <1>2, <1>3

\* The other steps before the lock, and a crash of a boot that does not hold it.
LEMMA FileIdle ==
    ASSUME Inv, NEW b \in Boots, ReadFails(b) \/ StatLock(b) \/ RemoveStale(b) \/ Crash(b)
    PROVE  FileInv'
  <1>1. CASE ReadFails(b)
    BY <1>1, FileKept DEF ReadFails, Quiet, Writing, Picked, Read, Places
  <1>2. CASE StatLock(b)
    BY <1>2, FileKept DEF StatLock, Quiet, Writing, Picked, Read, Places
  <1>3. CASE RemoveStale(b)
    BY <1>3 DEF RemoveStale, Inv, LockInv, Stealing, FileInv
  <1>4. CASE Crash(b)
    <2>1. CASE at[b] \in Writing
      BY <1>4, <2>1 DEF Crash, Holders, FileInv
    <2>2. CASE at[b] \notin Writing
      BY <1>4, <2>2, FileKept DEF Crash, Quiet, Writing, Picked, Read, Places
    <2>3. QED
      BY <2>1, <2>2
  <1>5. QED
    BY <1>1, <1>2, <1>3, <1>4

\* A step of the holder that stays one: the rest follows from what it makes of
\* the file.
LEMMA FileHeld ==
    ASSUME Inv, NEW b \in Boots, NEW place \in Writing, Goto(b, place), at[b] \in Writing,
           UNCHANGED <<mine, orig, aged>>, spoiled => spoiled',
           Quiet /\ Quiet' /\ MineInv(b) /\ HeldInv(b) => HeldInv(b)'
    PROVE  FileInv'
  <1> SUFFICES ASSUME Quiet' PROVE FileInv'
    BY DEF FileInv, Quiet
  <1>1. Quiet
    BY DEF Quiet
  <1>2. Holders = {b}
    BY <1>1, OneHolder
  <1>3. at'[b] = place /\ \A x \in Boots \ {b} : at'[x] = at[x]
    BY DEF Goto, Inv, LockInv
  <1>4. Holders' = {b}
    BY <1>2, <1>3 DEF Holders
  <1>5. HeldInv(b) /\ \A x \in Boots : MineInv(x)
    BY <1>1, <1>2 DEF Inv, FileInv, Quiet
  <1>6. \A x \in Boots : MineInv(x)'
    BY <1>3, <1>5 DEF MineInv, Picked, Read, Writing, Places
  <1>7. HeldInv(b)'
    BY <1>1, <1>5
  <1>8. QED
    BY <1>4, <1>6, <1>7 DEF FileInv

\* Flip's three writes: each leads to the next place, or fails and leaves the
\* file alone.
LEMMA FileSet ==
    ASSUME Inv, NEW b \in Boots, SetDefault(b) \/ SetEntryArgs(b) \/ SetTimeout(b) \/ Booted(b)
    PROVE  FileInv'
  <1>1. /\ mine[b].target \in Images /\ grub \in Grub /\ orig \in Grub
        /\ at \in [Boots -> Places]
        /\ at[b] \in Writing
        /\ UNCHANGED <<mine, orig, aged, spoiled>>
    BY DEF Inv, TypeInv, PxeTypeOK, ReadInv, SetDefault, SetEntryArgs, SetTimeout, Booted,
           Picked, Places, Writing
  <1>2. CASE SetDefault(b)
    <2>1. PICK place \in {"setArgs", "release"} : Goto(b, place)
      BY <1>2 DEF SetDefault
    <2>2. MineInv(b) /\ HeldInv(b) => HeldInv(b)'
      <3> SUFFICES ASSUME MineInv(b), HeldInv(b) PROVE HeldInv(b)'
        OBVIOUS
      <3>1. at[b] = "setDefault" /\ mine[b].default = orig.default
        BY <1>2 DEF SetDefault, MineInv, Picked, Places
      <3>2. CASE at'[b] = "release"
        <4>1. grub' = grub
          BY <1>1, <1>2, <3>2 DEF SetDefault, Goto
        <4>2. QED
          BY <1>1, <3>1, <3>2, <4>1 DEF HeldInv
      <3>3. CASE at'[b] = "setArgs"
        <4>1. /\ grub'.default = mine[b].target
              /\ grub'.args = grub.args /\ grub'.timeout = grub.timeout
          BY <1>1, <1>2, <3>1, <3>3 DEF SetDefault, Goto, retargets, Grub, HeldInv
        <4>2. QED
          BY <1>1, <3>1, <3>3, <4>1 DEF HeldInv
      <3>4. QED
        BY <1>1, <2>1, <3>2, <3>3 DEF Goto
    <2>3. QED
      BY <1>1, <2>1, <2>2, FileHeld DEF Writing
  <1>3. CASE SetEntryArgs(b)
    <2>1. PICK place \in {"setTimeout", "undoDefault"} : Goto(b, place)
      BY <1>3 DEF SetEntryArgs
    <2>2. MineInv(b) /\ HeldInv(b) => HeldInv(b)'
      <3> SUFFICES ASSUME MineInv(b), HeldInv(b) PROVE HeldInv(b)'
        OBVIOUS
      <3>1. at[b] = "setArgs"
        BY <1>3 DEF SetEntryArgs
      <3>2. CASE at'[b] = "undoDefault"
        <4>1. grub' = grub
          BY <1>1, <1>3, <3>2 DEF SetEntryArgs, Goto
        <4>2. QED
          BY <1>1, <3>1, <3>2, <4>1 DEF HeldInv
      <3>3. CASE at'[b] = "setTimeout"
        <4>1. /\ grub'.default = grub.default /\ grub'.timeout = grub.timeout
              /\ grub'.args[mine[b].target] = b
              /\ \A i \in Images \ {mine[b].target} : grub'.args[i] = grub.args[i]
          BY <1>1, <1>3, <3>3 DEF SetEntryArgs, Goto, Grub
        <4>2. QED
          BY <1>1, <3>1, <3>3, <4>1 DEF HeldInv
      <3>4. QED
        BY <1>1, <2>1, <3>2, <3>3 DEF Goto
    <2>3. QED
      BY <1>1, <2>1, <2>2, FileHeld DEF Writing
  <1>4. CASE SetTimeout(b)
    <2>1. PICK place \in {"armed", "undoDefault"} : Goto(b, place)
      BY <1>4 DEF SetTimeout
    <2>2. MineInv(b) /\ HeldInv(b) => HeldInv(b)'
      <3> SUFFICES ASSUME MineInv(b), HeldInv(b) PROVE HeldInv(b)'
        OBVIOUS
      <3>1. at[b] = "setTimeout" /\ grub.timeout = orig.timeout
        BY <1>4 DEF SetTimeout, HeldInv
      <3>2. CASE at'[b] = "undoDefault"
        <4>1. grub' = grub
          BY <1>1, <1>4, <3>2 DEF SetTimeout, Goto
        <4>2. QED
          BY <1>1, <3>1, <3>2, <4>1 DEF HeldInv
      <3>3. CASE at'[b] = "armed"
        <4>1. /\ grub'.default = grub.default /\ grub'.args = grub.args
              /\ grub'.timeout = autoBoot(orig.timeout)
          BY <1>1, <1>4, <3>1, <3>3 DEF SetTimeout, Goto, Grub
        <4>2. QED
          BY <1>1, <3>1, <3>3, <4>1 DEF HeldInv
      <3>4. QED
        BY <1>1, <2>1, <3>2, <3>3 DEF Goto
    <2>3. QED
      BY <1>1, <2>1, <2>2, FileHeld DEF Writing
  <1>5. CASE Booted(b)
    <2>1. /\ Goto(b, "undoDefault") /\ grub' = grub
          /\ at[b] = "armed" /\ at'[b] = "undoDefault"
      BY <1>1, <1>5 DEF Booted, Goto
    <2>2. HeldInv(b) => HeldInv(b)'
      BY <1>1, <2>1 DEF HeldInv
    <2>3. QED
      BY <1>1, <2>1, <2>2, FileHeld DEF Writing
  <1>6. QED
    BY <1>2, <1>3, <1>4, <1>5

\* The undo takes back one write after the other; a write it cannot take back
\* spoils the file.
LEMMA FileUndone ==
    ASSUME Inv, NEW b \in Boots, UndoDefault(b) \/ UndoArgs(b) \/ UndoTimeout(b)
    PROVE  FileInv'
  <1>1. /\ mine[b].target \in Images /\ grub \in Grub /\ orig \in Grub
        /\ mine[b].timeout \in Timeouts
        /\ at \in [Boots -> Places]
        /\ at[b] \in Writing
        /\ UNCHANGED <<mine, orig, aged>>
        /\ spoiled => spoiled'
    BY DEF Inv, TypeInv, PxeTypeOK, ReadInv, UndoDefault, UndoArgs, UndoTimeout, Undo,
           Picked, Read, Places, Writing
  <1>2. CASE UndoDefault(b)
    <2>1. at[b] = "undoDefault" /\ Goto(b, "undoArgs") /\ at'[b] = "undoArgs"
      BY <1>1, <1>2 DEF UndoDefault, Undo, Goto
    <2>2. ASSUME Quiet', MineInv(b), HeldInv(b) PROVE HeldInv(b)'
      <3>1. mine[b].default = orig.default
        BY <2>1, <2>2 DEF MineInv, Picked, Places
      <3>2. /\ grub'.default = orig.default
            /\ grub'.args = grub.args /\ grub'.timeout = grub.timeout
        BY <1>1, <1>2, <2>1, <2>2, <3>1 DEF UndoDefault, Undo, Quiet, retargets, Grub, HeldInv
      <3>3. QED
        BY <1>1, <2>1, <2>2, <3>2 DEF HeldInv
    <2>3. QED
      BY <1>1, <2>1, <2>2, FileHeld DEF Writing
  <1>3. CASE UndoArgs(b)
    <2>1. at[b] = "undoArgs" /\ Goto(b, "undoTimeout") /\ at'[b] = "undoTimeout"
      BY <1>1, <1>3 DEF UndoArgs, Undo, Goto
    <2>2. ASSUME Quiet', MineInv(b), HeldInv(b) PROVE HeldInv(b)'
      <3>1. mine[b].args = orig.args[mine[b].target]
        BY <2>1, <2>2 DEF MineInv, Picked, Places
      <3>2. /\ grub'.default = grub.default /\ grub'.timeout = grub.timeout
            /\ grub'.args[mine[b].target] = orig.args[mine[b].target]
            /\ \A i \in Images \ {mine[b].target} : grub'.args[i] = grub.args[i]
        BY <1>1, <1>3, <2>2, <3>1 DEF UndoArgs, Undo, Quiet, Grub
      <3>3. QED
        BY <1>1, <2>1, <2>2, <3>2 DEF HeldInv
    <2>3. QED
      BY <1>1, <2>1, <2>2, FileHeld DEF Writing
  <1>4. CASE UndoTimeout(b)
    <2>1. at[b] = "undoTimeout" /\ Goto(b, "release") /\ at'[b] = "release"
      BY <1>1, <1>4 DEF UndoTimeout, Undo, Goto
    <2>2. ASSUME Quiet', MineInv(b), HeldInv(b) PROVE HeldInv(b)'
      <3>1. mine[b].timeout = orig.timeout
        BY <2>1, <2>2 DEF MineInv, Picked, Read, Places
      <3>2. grub.timeout = orig.timeout \/ grub.timeout = autoBoot(orig.timeout)
        BY <2>2 DEF HeldInv
      <3>3. /\ grub'.default = grub.default /\ grub'.args = grub.args
            /\ grub'.timeout = orig.timeout
        BY <1>1, <1>4, <2>2, <3>1, <3>2 DEF UndoTimeout, Undo, Quiet, Grub, autoBoot
      <3>4. QED
        BY <1>1, <2>1, <2>2, <3>3 DEF HeldInv
    <2>3. QED
      BY <1>1, <2>1, <2>2, FileHeld DEF Writing
  <1>5. QED
    BY <1>2, <1>3, <1>4

\* The lock is released over a file that is as it was.
LEMMA FileReleased ==
    ASSUME Inv, NEW b \in Boots, Release(b)
    PROVE  FileInv'
  <1>1. /\ UNCHANGED <<grub, mine, orig, aged, spoiled>>
        /\ at[b] = "release" /\ at'[b] = "gone"
        /\ \A x \in Boots \ {b} : at'[x] = at[x]
    BY DEF Release, Goto, Inv, LockInv
  <1> SUFFICES ASSUME Quiet PROVE FileInv'
    BY <1>1 DEF FileInv, Quiet
  <1>2. Holders = {b}
    BY <1>1, OneHolder DEF Writing
  <1>3. HeldInv(b) /\ \A x \in Boots : MineInv(x)
    BY <1>2 DEF Inv, FileInv, Quiet
  <1>4. Holders' = {}
    BY <1>1, <1>2 DEF Holders, Writing
  <1>5. grub = orig
    <2>1. grub \in Grub /\ orig \in Grub
      BY DEF Inv, TypeInv, PxeTypeOK
    <2>2. grub.default = orig.default /\ grub.timeout = orig.timeout
      BY <1>1, <1>3 DEF HeldInv
    <2>3. \A i \in Images : grub.args[i] = orig.args[i]
      BY <1>1, <1>3 DEF HeldInv
    <2>4. grub.args = orig.args
      BY <2>1, <2>3 DEF Grub
    <2>5. QED
      BY <2>1, <2>2, <2>4 DEF Grub
  <1>6. \A x \in Boots : MineInv(x)'
    BY <1>1, <1>3 DEF MineInv, Picked, Read
  <1>7. QED
    BY <1>1, <1>4, <1>5, <1>6 DEF FileInv

\* The invariant of the content is inductive.
LEMMA FileStep == Inv /\ [Next]_vars => Inv'
  <1> SUFFICES ASSUME Inv, [Next]_vars PROVE FileInv'
    BY TypeStep, LockStep DEF Inv
  <1>1. ASSUME UNCHANGED <<grub, at, mine, orig, aged, spoiled>>
        PROVE  FileInv'
    BY <1>1 DEF Inv, FileInv, MineInv, HeldInv, Holders
  <1>2. CASE LockAges \/ UNCHANGED vars
    BY <1>1, <1>2 DEF LockAges, vars
  <1>3. ASSUME NEW b \in Boots, Flip(b) \/ Restore(b) \/ Crash(b)
        PROVE  FileInv'
    BY <1>3, FileReads, FileTaken, FileIdle, FileSet, FileUndone, FileReleased DEF Flip, Restore
  <1>4. QED
    BY <1>2, <1>3 DEF Next

\* At first nobody flips, and the file is as it is.
LEMMA FileInit == Init => Inv
  <1> SUFFICES ASSUME Init PROVE FileInv
    BY TypeInit, LockInit DEF Inv
  <1>1. Holders = {} /\ grub = orig
    BY DEF Init, Holders, Writing
  <1>2. \A b \in Boots : MineInv(b)
    BY DEF Init, MineInv, Picked, Read
  <1>3. QED
    BY <1>1, <1>2 DEF FileInv

\* While its nodes boot, a boot finds in the file the target, the arguments and
\* the timeout it wrote (Flip), whatever other drivers try at the same time.
THEOREM BootsThePickAlways == Spec => []BootsThePick
  <1>1. Inv => BootsThePick
    <2> SUFFICES ASSUME Inv, Quiet, NEW b \in Boots, at[b] = "armed"
                 PROVE  /\ grub.default = mine[b].target
                        /\ grub.args[grub.default] = b
                        /\ grub.timeout # "-1"
      BY DEF BootsThePick, Quiet
    <2>1. HeldInv(b)
      BY DEF Inv, FileInv, Quiet, Holders, Writing
    <2>2. QED
      BY <2>1 DEF HeldInv, autoBoot
  <1>2. QED
    BY <1>1, FileInit, FileStep, PTL DEF Spec

\* Once nobody flips, the file is what it was before the first flip: default,
\* arguments of every entry and timeout, after failed flips too (undo).
THEOREM PutBackAlways == Spec => []PutBack
  <1>1. Inv => PutBack
    BY DEF Inv, FileInv, PutBack
  <1>2. QED
    BY <1>1, FileInit, FileStep, PTL DEF Spec
=============================================================================
