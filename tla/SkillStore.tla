----------------------------- MODULE SkillStore -----------------------------
(***************************************************************************)
(* The skill store of one project, <project>/.aimee/skills: the operations  *)
(* of src/modules/skills/skill.c and skill_rollback.c on it, called from    *)
(* several processes that share nothing but the file system.                *)
(*                                                                          *)
(* On disk are a file per live skill, a file per archived skill, the usage  *)
(* sidecar .usage.json and its lock file .usage.json.lock.  A call is a     *)
(* sequence of steps, one for each access to the file system that another   *)
(* process or a crash can fall between; a call that only reads before it    *)
(* decides makes those reads in one step.                                   *)
(*                                                                          *)
(* Data: contents are model values; a usage record keeps the counters, the  *)
(* pin, the state and the days lifecycle decisions use.  A sidecar that is  *)
(* missing or does not parse reads as empty, so it is the empty one here;   *)
(* one that cannot be read is taken for empty too, which is a step of its   *)
(* own.                                                                     *)
(* Every skill is a flat file of the project tier.                          *)
(***************************************************************************)
EXTENDS Integers, FiniteSets

CONSTANTS
  Names,        \* skill names
  Procs,        \* processes
  Contents,     \* skill bodies
  Poisoned,     \* those skill_body_poison_check rejects
  Unlinted,     \* those skill_lint_content rejects
  Absent,       \* no such file, no such record
  Torn,         \* what a copy cut short leaves
  Snapshot,     \* the snapshot rollback restores: files, archive, usage
  Ops,          \* the operations callers use
  StaleAfter,   \* stale_after_days
  ArchiveAfter, \* archive_after_days
  MaxDay,       \* bound: the last day
  MaxCalls,     \* bound: calls begun
  MaxCrashes,   \* bound: processes killed
  MaxIOErrors,  \* bound: system calls that fail
  MaxBadReads   \* bound: reads of the sidecar that fail

VARIABLES
  file,     \* live skills
  archive,  \* .archive
  usage,    \* .usage.json
  lock,     \* the inode .usage.json.lock names, Absent when there is none
  inode,    \* the last inode allocated
  proc,     \* the call every process is in
  day,      \* the clock
  counted,  \* history: the updates written since the sidecar was last reset
  cut,      \* history: the last rollback to change anything has not succeeded
  calls, crashes, ioErrors, badReads

disk   == <<file, archive, usage, lock, inode>>
bounds == <<calls, crashes, ioErrors, badReads>>
history == <<counted, cut>>
vars   == <<disk, proc, day, history, bounds>>

-----------------------------------------------------------------------------
Days    == 0..MaxDay
Files   == Contents \cup {Absent, Torn}
States  == {"active", "stale", "archived"}
Counts  == [use : Nat, view : Nat, patch : Nat]
Records == [use : Nat, view : Nat, patch : Nat, pinned : BOOLEAN, state : States,
            created : Days, used : Days \cup {Absent}]
Usages  == [Names -> Records \cup {Absent}]

(* What a call of skill_record_mutation or skill_record_event changes.      *)
Updates == [use : {0, 1}, view : {0, 1}, patch : {0, 1},
            state : States \cup {"keep"}, pin : {"on", "off", "keep"}]
Keep    == [use |-> 0, view |-> 0, patch |-> 0, state |-> "keep", pin |-> "keep"]

(* Everything a rollback removes: all of the directory but .snapshots.      *)
Entries == ({"file", "archive"} \X Names) \cup {<<"usage", Absent>>, <<"lock", Absent>>}

NoCounts == [n \in Names |-> [use |-> 0, view |-> 0, patch |-> 0]]
NoUsage  == [n \in Names |-> Absent]
NoFiles  == [n \in Names |-> Absent]

CountsOf(u) == [n \in Names |-> IF u[n] = Absent THEN NoCounts[n]
                  ELSE [use |-> u[n].use, view |-> u[n].view, patch |-> u[n].patch]]

ASSUME AbsentAssumption ==
  /\ Absent \notin Nat /\ Absent \notin Records /\ Absent \notin Usages
  /\ Absent \notin Contents /\ Absent # Torn

ASSUME BoundsAssumption ==
  MaxDay \in Nat /\ StaleAfter \in Nat /\ ArchiveAfter \in Nat
  /\ MaxCalls \in Nat /\ MaxCrashes \in Nat /\ MaxIOErrors \in Nat
  /\ MaxBadReads \in Nat

ASSUME SnapshotAssumption ==
  /\ Snapshot.file \in [Names -> Contents \cup {Absent}]
  /\ Snapshot.archive \in [Names -> Contents \cup {Absent}]
  /\ Snapshot.usage \in [Names -> Records \cup {Absent}]

Idle == [pc |-> "idle", op |-> "none", name |-> Absent, content |-> Absent,
         upd |-> Keep, fd |-> Absent, root |-> Absent, todo |-> {},
         now |-> 0, ok |-> TRUE]

Labels == {"idle", "editCheck", "writeFile", "resolve", "open", "lock", "write",
           "archive", "rename", "life", "clear", "restore", "done"}
Operations == {"create", "edit", "patch", "activate", "view", "pin", "archive",
               "lifecycle", "rollback"}

(* The state of a call: where it is, what it is about, the lock it opened,  *)
(* the sidecar it loaded and what is left of a pass.                        *)
CallStates ==
  [pc : Labels, op : Operations \cup {"none"}, name : Names \cup {Absent},
   content : Contents \cup {Absent}, upd : Updates, fd : Nat \cup {Absent},
   root : Usages \cup {Absent}, todo : SUBSET (Names \cup Entries), now : Days,
   ok : BOOLEAN]

(* The disk holds what the operations put there, and a call that is going   *)
(* to use a name or a body has one.                                         *)
TypeOK ==
  /\ file \in [Names -> Files] /\ archive \in [Names -> Files]
  /\ usage \in Usages
  /\ inode \in Nat /\ lock \in Nat \cup {Absent}
  /\ proc \in [Procs -> CallStates]
  /\ \A p \in Procs :
       /\ proc[p].pc \in {"editCheck", "writeFile", "resolve", "open", "lock", "write",
                          "archive", "rename"} => proc[p].name \in Names
       /\ proc[p].pc \in {"editCheck", "writeFile"} => proc[p].content \in Contents
  /\ day \in Days
  /\ counted \in [Names -> Counts] /\ cut \in BOOLEAN
  /\ calls \in Nat /\ crashes \in Nat /\ ioErrors \in Nat /\ badReads \in Nat

(* A project with no skills, or the state the snapshot was taken of.        *)
Init ==
  /\ \/ file = NoFiles /\ archive = NoFiles /\ usage = NoUsage
     \/ file = Snapshot.file /\ archive = Snapshot.archive /\ usage = Snapshot.usage
  /\ lock = Absent /\ inode = 0
  /\ proc = [p \in Procs |-> Idle]
  /\ day = 0
  /\ counted = CountsOf(usage) /\ cut = FALSE
  /\ calls = 0 /\ crashes = 0 /\ ioErrors = 0 /\ badReads = 0

-----------------------------------------------------------------------------
(* Calls.                                                                   *)

Set(p, r) == proc' = [proc EXCEPT ![p] = r]
At(p, label) == proc[p].pc = label
Goto(p, label) == Set(p, [proc[p] EXCEPT !.pc = label])

IOError == ioErrors < MaxIOErrors /\ ioErrors' = ioErrors + 1
           /\ UNCHANGED <<calls, crashes, badReads>>
BadRead == badReads < MaxBadReads /\ badReads' = badReads + 1
           /\ UNCHANGED <<calls, crashes, ioErrors>>

(* A call ends; an operation of a lifecycle pass ends in the next skill of  *)
(* the pass, which remembers the failure.                                   *)
Ended(r, ok) ==
  IF r.op = "lifecycle"
  THEN [r EXCEPT !.pc = "life", !.ok = @ /\ ok, !.upd = Keep, !.fd = Absent,
                 !.root = Absent, !.name = Absent]
  ELSE [r EXCEPT !.pc = "done", !.ok = ok, !.fd = Absent, !.root = Absent]

Fail(p) == Set(p, Ended(proc[p], FALSE))

Begin(p, op, r) ==
  /\ At(p, "idle") /\ op \in Ops
  /\ calls < MaxCalls /\ calls' = calls + 1
  /\ Set(p, r)
  /\ UNCHANGED <<disk, day, history, crashes, ioErrors, badReads>>

Called(op, n, label) == [Idle EXCEPT !.pc = label, !.op = op, !.name = n]

(* A call whose checks refuse it at once.                                   *)
Guarded(r, ok) == IF ok THEN r ELSE Ended(r, FALSE)

Exists(n) == file[n] # Absent

(* skill_body_poison_check and skill_lint_content, each a set of the bodies *)
(* it lets through; an edit is not checked for poison.                      *)
PoisonFree(c) == c \notin Poisoned
LintFree(c)   == c \notin Unlinted

MayCreate(n, c) == PoisonFree(c) /\ LintFree(c) /\ ~Exists(n)
MayEdit(n, c)   == Exists(n) /\ LintFree(c)

Create(p, n, c) ==
  Begin(p, "create",
        Guarded([Called("create", n, "writeFile") EXCEPT !.content = c,
                    !.upd = [Keep EXCEPT !.state = "active"]],
                MayCreate(n, c)))

Edited(op, n, c, label) ==
  [Called(op, n, label) EXCEPT !.content = c,
     !.upd = [Keep EXCEPT !.patch = 1, !.state = "active"]]

Edit(p, n, c) ==
  Begin(p, "edit", Guarded(Edited("edit", n, c, "writeFile"), MayEdit(n, c)))

(* skill_manage_patch loads the skill and hands the patched text to edit,   *)
(* unless it does not contain the text to replace.                          *)
Patch(p, n, c) ==
  \E hit \in BOOLEAN :
    Begin(p, "patch", Guarded(Edited("patch", n, c, "editCheck"), Exists(n) /\ hit))

EditCheck(p) ==
  /\ At(p, "editCheck")
  /\ Set(p, Guarded([proc[p] EXCEPT !.pc = "writeFile"],
                    MayEdit(proc[p].name, proc[p].content)))
  /\ UNCHANGED <<disk, day, history, bounds>>

Activate(p, n) ==
  Begin(p, "activate", [Called("activate", n, "resolve") EXCEPT !.upd.use = 1])
View(p, n) ==
  Begin(p, "view", [Called("view", n, "resolve") EXCEPT !.upd.view = 1])
SetPinned(p, n, pin) ==
  Begin(p, "pin", [Called("pin", n, "resolve") EXCEPT !.upd.pin = pin])
Archive(p, n) == Begin(p, "archive", Called("archive", n, "archive"))

(* skill_project_list and the clock, read once for the whole pass.          *)
Lifecycle(p) ==
  Begin(p, "lifecycle", [Called("lifecycle", Absent, "life") EXCEPT
          !.todo = {n \in Names : Exists(n)}, !.now = day])

(* Mutant: hidden directories are left alone.                               *)
PresentVisible == {e \in Entries : CASE e[1] = "file"    -> file[e[2]] # Absent
                                     [] e[1] = "archive" -> FALSE
                                     [] e[1] = "usage"   -> usage # NoUsage
                                     [] e[1] = "lock"    -> lock # Absent}

Present == {e \in Entries : CASE e[1] = "file"    -> file[e[2]] # Absent
                              [] e[1] = "archive" -> archive[e[2]] # Absent
                              [] e[1] = "usage"   -> usage # NoUsage
                              [] e[1] = "lock"    -> lock # Absent}

Rollback(p) ==
  Begin(p, "rollback", [Called("rollback", Absent, "clear") EXCEPT !.todo = Present])

Return(p) ==
  /\ At(p, "done")
  /\ Set(p, Idle)
  /\ UNCHANGED <<disk, day, history, bounds>>

-----------------------------------------------------------------------------
(* skill_write_text_file: the new body replaces the file in one rename.     *)
WriteFile(p) ==
  /\ At(p, "writeFile")
  /\ file' = [file EXCEPT ![proc[p].name] = proc[p].content]
  /\ Goto(p, "resolve")
  /\ UNCHANGED <<archive, usage, lock, inode, day, history, bounds>>

WriteFileFails(p) ==
  /\ At(p, "writeFile") /\ IOError /\ Fail(p)
  /\ UNCHANGED <<disk, day, history>>

-----------------------------------------------------------------------------
(* skill_record_mutation and skill_record_event.                            *)

(* Mutant: the archive moves the file even when it could not be recorded.   *)
RecordedUnchecked(r, ok) ==
  IF r.op = "create" THEN Ended(r, TRUE)
  ELSE IF r.upd.state = "archived"
  THEN [r EXCEPT !.pc = "rename", !.fd = Absent, !.root = Absent]
  ELSE Ended(r, ok)

(* skill_manage_create ignores whether the sidecar could be updated; an     *)
(* archive goes on to the rename.                                           *)
Recorded(r, ok) ==
  IF r.op = "create" THEN Ended(r, TRUE)
  ELSE IF ok /\ r.upd.state = "archived"
  THEN [r EXCEPT !.pc = "rename", !.fd = Absent, !.root = Absent]
  ELSE Ended(r, ok)

(* skill_usage_path_source                                                  *)
Resolve(p) ==
  /\ At(p, "resolve")
  /\ IF Exists(proc[p].name) THEN Goto(p, "open")
                             ELSE Set(p, Recorded(proc[p], FALSE))
  /\ UNCHANGED <<disk, day, history, bounds>>

(* skill_usage_lock: open with O_CREAT, then flock the inode that was       *)
(* opened.                                                                  *)
Open(p) ==
  /\ At(p, "open")
  /\ inode' = IF lock = Absent THEN inode + 1 ELSE inode
  /\ lock' = IF lock = Absent THEN inode' ELSE lock
  /\ Set(p, [proc[p] EXCEPT !.pc = "lock", !.fd = lock'])
  /\ UNCHANGED <<file, archive, usage, day, history, bounds>>

(* Mutant: the sidecar is updated without the lock.                         *)
LockIgnored(p) == proc[p].fd # Absent

(* Mutant: a process that has only opened the lock file counts as a holder. *)
LockFreeOfWaiters(p) ==
  \A q \in Procs : At(q, "write") \/ (q # p /\ At(q, "lock")) => proc[q].fd # proc[p].fd

LockFree(p) == \A q \in Procs : At(q, "write") => proc[q].fd # proc[p].fd

(* The lock is taken and the sidecar loaded.                                *)
Lock(p) ==
  /\ At(p, "lock") /\ LockFree(p)
  /\ Set(p, [proc[p] EXCEPT !.pc = "write", !.root = usage])
  /\ UNCHANGED <<disk, day, history, bounds>>

(* skill_usage_load_root cannot read the sidecar and goes on with an empty  *)
(* one.                                                                     *)
LoadFails(p) ==
  /\ At(p, "lock") /\ LockFree(p) /\ BadRead
  /\ Set(p, [proc[p] EXCEPT !.pc = "write", !.root = Absent])
  /\ UNCHANGED <<disk, day, history>>

NewRecord == [use |-> 0, view |-> 0, patch |-> 0, pinned |-> FALSE,
              state |-> "active", created |-> day, used |-> Absent]

(* Mutant: the state parameter is stored as it is, given or not.            *)
UpdatedVerbatim(rec, u) ==
  LET r == IF rec = Absent THEN NewRecord ELSE rec IN
  [r EXCEPT !.use = @ + u.use, !.view = @ + u.view, !.patch = @ + u.patch,
            !.pinned = IF u.pin = "keep" THEN @ ELSE u.pin = "on",
            !.state = IF u.use = 1 THEN "active" ELSE u.state,
            !.used = IF u.use = 1 THEN day ELSE @]

(* Mutant: a skill that was archived starts over with a new record.         *)
UpdatedAfresh(rec, u) ==
  LET r == IF rec = Absent \/ rec.state = "archived" THEN NewRecord ELSE rec IN
  [r EXCEPT !.use = @ + u.use, !.view = @ + u.view, !.patch = @ + u.patch,
            !.pinned = IF u.pin = "keep" THEN @ ELSE u.pin = "on",
            !.state = IF u.use = 1 THEN "active" ELSE IF u.state = "keep" THEN @ ELSE u.state,
            !.used = IF u.use = 1 THEN day ELSE @]

(* The record of a skill after update u; an activation makes it active.     *)
Updated(rec, u) ==
  LET r == IF rec = Absent THEN NewRecord ELSE rec IN
  [use     |-> r.use + u.use,
   view    |-> r.view + u.view,
   patch   |-> r.patch + u.patch,
   pinned  |-> IF u.pin = "keep" THEN r.pinned ELSE u.pin = "on",
   state   |-> IF u.use = 1 THEN "active"
               ELSE IF u.state = "keep" THEN r.state ELSE u.state,
   created |-> r.created,
   used    |-> IF u.use = 1 THEN day ELSE r.used]

(* skill_usage_write_root renames the whole new sidecar into place, and the *)
(* lock is released.                                                        *)
Write(p) ==
  LET n == proc[p].name
      u == proc[p].upd
      lost == proc[p].root = Absent
  IN
  /\ At(p, "write")
  /\ usage' = [(IF lost THEN NoUsage ELSE proc[p].root) EXCEPT ![n] = Updated(@, u)]
  /\ counted' = [(IF lost THEN NoCounts ELSE counted) EXCEPT
                   ![n] = [use |-> @.use + u.use, view |-> @.view + u.view,
                           patch |-> @.patch + u.patch]]
  /\ Set(p, Recorded(proc[p], TRUE))
  /\ UNCHANGED <<file, archive, lock, inode, day, cut, bounds>>

(* The lock file cannot be opened or locked, or the sidecar not written.    *)
RecordFails(p) ==
  /\ proc[p].pc \in {"open", "lock", "write"} /\ IOError
  /\ Set(p, Recorded(proc[p], FALSE))
  /\ UNCHANGED <<disk, day, history>>

-----------------------------------------------------------------------------
(* skill_manage_archive                                                     *)

Pinned(n) == usage[n] # Absent /\ usage[n].pinned

(* The record is written before the file is moved.                          *)
Archiving(r) ==
  [r EXCEPT !.pc = "resolve", !.upd = [Keep EXCEPT !.patch = 1, !.state = "archived"]]

(* Mutants: the pin, or the archived body, is not looked at.                *)
MayArchivePinned(n) == Exists(n) /\ archive[n] = Absent
MayArchiveOver(n)   == Exists(n) /\ ~Pinned(n)

MayArchive(n) == Exists(n) /\ ~Pinned(n) /\ archive[n] = Absent

ArchiveCheck(p) ==
  /\ At(p, "archive")
  /\ Set(p, Guarded(Archiving(proc[p]), MayArchive(proc[p].name)))
  /\ UNCHANGED <<disk, day, history, bounds>>

(* skill_usage_get cannot read the sidecar and takes the skill for one that *)
(* is not pinned.                                                           *)
ArchiveBlind(p) ==
  /\ At(p, "archive") /\ BadRead
  /\ Set(p, Guarded(Archiving(proc[p]),
                    Exists(proc[p].name) /\ archive[proc[p].name] = Absent))
  /\ UNCHANGED <<disk, day, history>>

(* rename fails when another process has moved the file meanwhile.          *)
Rename(p) ==
  LET n == proc[p].name IN
  /\ At(p, "rename")
  /\ IF Exists(n)
     THEN /\ archive' = [archive EXCEPT ![n] = file[n]]
          /\ file' = [file EXCEPT ![n] = Absent]
          /\ Set(p, Ended(proc[p], TRUE))
     ELSE Fail(p) /\ UNCHANGED <<file, archive>>
  /\ UNCHANGED <<usage, lock, inode, day, history, bounds>>

RenameFails(p) ==
  /\ At(p, "rename") /\ IOError /\ Fail(p)
  /\ UNCHANGED <<disk, day, history>>

-----------------------------------------------------------------------------
(* skill_lifecycle_apply, one skill of the pass at a time.                  *)

(* Mutant: age counts from the creation of the skill.                       *)
ActivityCreated(rec) == rec.created

Activity(rec) == IF rec.used # Absent THEN rec.used ELSE rec.created

(* What the pass decides for a skill with usage record rec.                 *)
Decision(rec, now) ==
  IF rec = Absent \/ rec.pinned              THEN "leave"
  ELSE IF ArchiveAfter > 0 /\ now - Activity(rec) >= ArchiveAfter THEN "archive"
  ELSE IF StaleAfter > 0 /\ now - Activity(rec) >= StaleAfter /\ rec.state # "stale"
       THEN "stale"
  ELSE "leave"

LifecycleNext(p, n) ==
  LET r == [proc[p] EXCEPT !.todo = @ \ {n}]
      d == Decision(usage[n], r.now)
  IN
  /\ At(p, "life") /\ n \in proc[p].todo
  /\ Set(p, CASE ~Exists(n)     -> [r EXCEPT !.ok = FALSE]
              [] Exists(n) /\ d = "leave"   -> r
              [] Exists(n) /\ d = "archive" -> [r EXCEPT !.pc = "archive", !.name = n]
              [] Exists(n) /\ d = "stale"   ->
                   [r EXCEPT !.pc = "resolve", !.name = n,
                             !.upd = [Keep EXCEPT !.state = "stale"]])
  /\ UNCHANGED <<disk, day, history, bounds>>

LifecycleEnd(p) ==
  /\ At(p, "life") /\ proc[p].todo = {}
  /\ Goto(p, "done")
  /\ UNCHANGED <<disk, day, history, bounds>>

-----------------------------------------------------------------------------
(* skill_rollback_snapshot: clear everything, then copy the snapshot back.  *)

Put(e, f, a, u) ==
  /\ file' = IF e[1] = "file" THEN [file EXCEPT ![e[2]] = f] ELSE file
  /\ archive' = IF e[1] = "archive" THEN [archive EXCEPT ![e[2]] = a] ELSE archive
  /\ usage' = IF e[1] = "usage" THEN u ELSE usage
  /\ counted' = IF e[1] = "usage" THEN CountsOf(u) ELSE counted
  /\ cut' = TRUE

(* Directory order is arbitrary, and an entry made meanwhile may be seen.   *)
Clear(p, e) ==
  /\ At(p, "clear") /\ e \in proc[p].todo \cup Present
  /\ Put(e, Absent, Absent, NoUsage)
  /\ lock' = IF e[1] = "lock" THEN Absent ELSE lock
  /\ Set(p, [proc[p] EXCEPT !.todo = @ \ {e}])
  /\ UNCHANGED <<inode, day, bounds>>

ClearFails(p, e) ==
  /\ At(p, "clear") /\ e \in proc[p].todo /\ IOError
  /\ Set(p, [proc[p] EXCEPT !.todo = @ \ {e}, !.ok = FALSE])
  /\ UNCHANGED <<disk, day, history>>

InSnapshot == {e \in Entries : CASE e[1] = "file"    -> Snapshot.file[e[2]] # Absent
                                 [] e[1] = "archive" -> Snapshot.archive[e[2]] # Absent
                                 [] e[1] = "usage"   -> Snapshot.usage # NoUsage
                                 [] e[1] = "lock"    -> FALSE}

ClearEnd(p) ==
  /\ At(p, "clear") /\ proc[p].todo = {}
  /\ Set(p, IF proc[p].ok THEN [proc[p] EXCEPT !.pc = "restore", !.todo = InSnapshot]
                          ELSE Ended(proc[p], FALSE))
  /\ UNCHANGED <<disk, day, history, bounds>>

FromSnapshot(e) ==
  Put(e, IF e[1] = "file" THEN Snapshot.file[e[2]] ELSE Absent,
         IF e[1] = "archive" THEN Snapshot.archive[e[2]] ELSE Absent,
         Snapshot.usage)

Restore(p, e) ==
  /\ At(p, "restore") /\ e \in proc[p].todo
  /\ FromSnapshot(e)
  /\ Set(p, [proc[p] EXCEPT !.todo = @ \ {e}])
  /\ UNCHANGED <<lock, inode, day, bounds>>

(* A copy that fails on the way leaves part of the file.                    *)
RestoreFails(p, e) ==
  /\ At(p, "restore") /\ e \in proc[p].todo /\ IOError
  /\ Put(e, Torn, Torn, NoUsage)
  /\ Set(p, [proc[p] EXCEPT !.todo = @ \ {e}, !.ok = FALSE])
  /\ UNCHANGED <<lock, inode, day>>

RestoreEnd(p) ==
  /\ At(p, "restore") /\ proc[p].todo = {}
  /\ Goto(p, "done")
  /\ cut' = (cut /\ ~proc[p].ok)
  /\ UNCHANGED <<disk, day, counted, bounds>>

-----------------------------------------------------------------------------
(* A process is killed: its lock goes with it, its files stay as they are,  *)
(* the one it was copying in part.                                          *)
Crash(p) ==
  /\ proc[p].pc \notin {"idle", "done"}
  /\ crashes < MaxCrashes /\ crashes' = crashes + 1
  /\ Set(p, Idle)
  /\ \/ UNCHANGED <<disk, history>>
     \/ /\ At(p, "restore")
        /\ \E e \in proc[p].todo : Put(e, Torn, Torn, NoUsage)
        /\ UNCHANGED <<lock, inode>>
  /\ UNCHANGED <<day, calls, ioErrors, badReads>>

NextDay ==
  /\ day < MaxDay /\ day' = day + 1
  /\ UNCHANGED <<disk, proc, history, bounds>>

(* Steps of a call that has begun, other than waiting for the lock.         *)
Step(p) ==
  \/ EditCheck(p) \/ WriteFile(p) \/ WriteFileFails(p)
  \/ Resolve(p) \/ Open(p) \/ Write(p) \/ RecordFails(p)
  \/ ArchiveCheck(p) \/ ArchiveBlind(p) \/ Rename(p) \/ RenameFails(p)
  \/ \E n \in Names : LifecycleNext(p, n)
  \/ LifecycleEnd(p)
  \/ \E e \in Entries : Clear(p, e) \/ ClearFails(p, e)
  \/ ClearEnd(p)
  \/ \E e \in Entries : Restore(p, e) \/ RestoreFails(p, e)
  \/ RestoreEnd(p)
  \/ Return(p)

Call(p) ==
  \/ \E n \in Names, c \in Contents : Create(p, n, c) \/ Edit(p, n, c) \/ Patch(p, n, c)
  \/ \E n \in Names : Activate(p, n) \/ View(p, n) \/ Archive(p, n)
  \/ \E n \in Names, pin \in {"on", "off"} : SetPinned(p, n, pin)
  \/ Lifecycle(p) \/ Rollback(p)

Next ==
  \/ \E p \in Procs : Call(p) \/ Step(p) \/ Lock(p) \/ LoadFails(p) \/ Crash(p)
  \/ NextDay

Spec == Init /\ [][Next]_vars

(* A process goes on with its call, and flock does not pass a waiting       *)
(* process over for ever.                                                   *)
FairSpec == Spec /\ \A p \in Procs : WF_vars(Step(p)) /\ SF_vars(Lock(p))

-----------------------------------------------------------------------------
(* Properties.                                                              *)

(* No update is lost: the counters of the sidecar are exactly the updates   *)
(* written since it was created, restored or found unreadable, whoever      *)
(* wrote them, although every writer replaces the whole file with the copy  *)
(* it loaded.                                                               *)
CountersExact == CountsOf(usage) = counted

(* An update whose call succeeded is in the sidecar, as the comment of the  *)
(* telemetry calls in skill.h says: "Return 0 when the sidecar was          *)
(* updated".  A rollback takes no lock and removes the lock file: a process *)
(* inside the locked section does not keep out one that comes after the     *)
(* rollback and locks a new file.                                           *)
UpdatesKept ==
  \A n \in Names : CountsOf(usage)[n].use >= counted[n].use

(* A skill that has been pinned is not archived, by hand or by a lifecycle  *)
(* pass: "pinned skills cannot be archived".                                *)
PinnedNotArchived ==
  [][\A n \in Names : file[n] # Absent /\ file'[n] = Absent /\ archive'[n] # archive[n]
       => ~Pinned(n)]_vars

(* A skill that is only in the archive is recorded as archived, also when a *)
(* crash or a failed system call cut short whatever moved it: the record is *)
(* written before the file is renamed.  Only a rollback that was cut short  *)
(* leaves it otherwise, until one succeeds.                                 *)
ArchivedIsRecorded ==
  ~cut => \A n \in Names : archive[n] # Absent /\ file[n] = Absent =>
            usage[n] # Absent /\ usage[n].state = "archived"

(* An archived body is never overwritten by another one, however often the  *)
(* skill is created and archived again, and goes only when a rollback       *)
(* clears the directory.                                                    *)
ArchiveKept ==
  [][\A n \in Names : archive[n] # Absent /\ archive'[n] # archive[n] =>
       \E p \in Procs : proc[p].op = "rollback"]_vars

(* A lifecycle pass takes away no skill that was in use within the window:  *)
(* it marks none stale that was used or created less than stale_after_days  *)
(* ago and archives none of less than archive_after_days.                   *)
LifecycleSparesUsed ==
  [][\A p \in Procs, n \in Names :
       proc[p].op = "lifecycle" /\ proc[p].pc = "write" /\ usage'[n] # usage[n] =>
         \A touched \in {usage[n].created, usage[n].used} \ {Absent} :
           day - touched >=
             (IF usage'[n].state = "stale" THEN StaleAfter ELSE ArchiveAfter)]_vars

(* When a rollback succeeds the tree is the snapshot, exactly: whatever was *)
(* there before, and whatever an earlier rollback that was killed or failed *)
(* left behind.                                                             *)
RollbackExact ==
  \A p \in Procs : At(p, "done") /\ proc[p].op = "rollback" /\ proc[p].ok =>
     file = Snapshot.file /\ archive = Snapshot.archive /\ usage = Snapshot.usage

(* Every call returns, also when a process that held the lock was killed.   *)
CallReturns == \A p \in Procs : proc[p].pc # "idle" ~> proc[p].pc = "idle"
=============================================================================
