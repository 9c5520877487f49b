------------------------- MODULE SkillArchiveProofs -------------------------
(***************************************************************************)
(* Theorems about the archive, the rollback and the lifecycle pass of the   *)
(* skill store when one process at a time uses it, whatever fails and       *)
(* wherever it is killed.  (With two processes some of them do not hold:    *)
(* the run store_pinned.)                                                   *)
(***************************************************************************)
EXTENDS SkillStoreProofs

-----------------------------------------------------------------------------
(* The sidecar can be read whenever it is there.                            *)
Reliable == MaxBadReads = 0

(* The snapshot was taken of a store that was in order.                     *)
SnapshotInOrder ==
  \A n \in Names : Snapshot.archive[n] # Absent /\ Snapshot.file[n] = Absent =>
    Snapshot.usage[n] # Absent /\ Snapshot.usage[n].state = "archived"

(* A call that is on its way to move its skill to the archive.              *)
Archives(r) == /\ r.upd.state = "archived"
               /\ r.pc \in {"resolve", "open", "lock", "write", "rename"}

(* Where a call can be, and what it is going to record there.               *)
Shape(r) ==
  /\ r.pc = "rename" => r.upd.state = "archived"
  /\ r.upd.state = "archived" => r.upd.pin = "keep" /\ r.upd.use = 0
  /\ r.pc \in {"editCheck", "writeFile"} => r.upd.state # "archived" /\ r.op # "lifecycle"
  /\ r.pc \in {"clear", "restore"} => r.op = "rollback"
  /\ r.op = "rollback" => r.pc \in {"clear", "restore", "done"}
  /\ r.pc = "write" /\ Reliable => r.root # Absent

(* What a call has found out about its skill still holds.                   *)
Found(r) ==
  /\ r.pc \in {"open", "lock", "write", "rename"} => file[r.name] # Absent
  /\ Archives(r) => archive[r.name] = Absent /\ (Reliable => ~Pinned(r.name))
  /\ r.pc = "rename" => usage[r.name] # Absent /\ usage[r.name].state = "archived"

(* What a rollback has dealt with is gone, or is as it is in the snapshot.  *)
Matches(todo, f, a, u) ==
  /\ \A n \in Names : <<"file", n>> \notin todo => file[n] = f[n]
  /\ \A n \in Names : <<"archive", n>> \notin todo => archive[n] = a[n]
  /\ <<"usage", Absent>> \notin todo => usage = u

RolledBack(r) ==
  r.ok => /\ r.pc = "clear" => Matches(r.todo, NoFiles, NoFiles, NoUsage)
          /\ r.pc = "restore" => Matches(r.todo, Snapshot.file, Snapshot.archive, Snapshot.usage)

CallInv == \A p \in Procs : Shape(proc[p]) /\ Found(proc[p]) /\ RolledBack(proc[p])

SeqInv ==
  /\ CallInv /\ RollbackExact
  /\ Reliable /\ SnapshotInOrder => ArchivedIsRecorded

(* A call that asserts nothing about the disk.                              *)
Plain(r) ==
  /\ r.pc \notin {"open", "lock", "write", "rename", "clear", "restore"}
  /\ r.pc = "resolve" => r.upd.state # "archived"

LEMMA PlainFound ==
  ASSUME NEW r, Plain(r)
  PROVE  Found(r) /\ RolledBack(r) /\ Found(r)' /\ RolledBack(r)'
  BY DEF Plain, Found, Archives, RolledBack

LEMMA InitSeq == Init => SeqInv
<1> SUFFICES ASSUME Init PROVE SeqInv
  OBVIOUS
<1>1. Shape(Idle) /\ Plain(Idle)
  BY DEF Shape, Plain, Idle, Keep
<1>2. CallInv
  BY <1>1, PlainFound DEF Init, CallInv
<1>3. RollbackExact
  BY DEF Init, RollbackExact, At, Idle
<1>4. SnapshotInOrder => ArchivedIsRecorded
  BY DEF Init, ArchivedIsRecorded, SnapshotInOrder, NoFiles
<1> QED
  BY <1>2, <1>3, <1>4 DEF SeqInv

(* A step of the only process.                                              *)
LEMMA AloneStep ==
  ASSUME TypeInv, Alone, NEW p \in Procs, NEW r, Set(p, r),
         Shape(r), Found(r)', RolledBack(r)',
         At(p, "done")' /\ r.op = "rollback" /\ r.ok =>
           (file = Snapshot.file /\ archive = Snapshot.archive /\ usage = Snapshot.usage)',
         Reliable /\ SnapshotInOrder => ArchivedIsRecorded'
  PROVE  SeqInv'
<1>1. proc'[p] = r
  BY SetMoves
<1>2. \A q \in Procs : q = p
  BY DEF Alone
<1>3. CallInv'
  BY <1>1, <1>2 DEF CallInv, Found, Archives, Pinned, RolledBack, Matches
<1>4. RollbackExact'
  BY <1>1, <1>2 DEF RollbackExact, At
<1> QED
  BY <1>3, <1>4 DEF SeqInv

(* A step that leaves skills, archive and sidecar alone.                    *)
LEMMA QuietStep ==
  ASSUME TypeInv, SeqInv, Alone, NEW p \in Procs, NEW r, Set(p, r),
         UNCHANGED <<file, archive, usage, cut>>,
         Shape(r), Found(r), RolledBack(r), r.pc = "done" /\ r.op = "rollback" => ~r.ok
  PROVE  SeqInv'
<1>1. Found(r)' /\ RolledBack(r)'
  BY DEF Found, Archives, Pinned, RolledBack, Matches
<1>2. Reliable /\ SnapshotInOrder => ArchivedIsRecorded'
  BY DEF SeqInv, ArchivedIsRecorded
<1>3. proc'[p] = r
  BY SetMoves
<1> QED
  BY <1>1, <1>2, <1>3, AloneStep DEF At

LEMMA EndedShape ==
  ASSUME NEW r \in CallStates, Shape(r), NEW ok \in BOOLEAN, r.op = "rollback" => ~ok
  PROVE  /\ Shape(Ended(r, ok)) /\ Plain(Ended(r, ok))
         /\ Ended(r, ok).op = "rollback" => ~Ended(r, ok).ok
<1>1. CASE r.op = "lifecycle"
  <2> DEFINE e == [r EXCEPT !.pc = "life", !.ok = @ /\ ok, !.upd = Keep, !.fd = Absent,
                            !.root = Absent, !.name = Absent]
  <2>1. Ended(r, ok) = e
    BY <1>1 DEF Ended
  <2>2. e.pc = "life" /\ e.op = "lifecycle" /\ e.upd.state = "keep"
    BY <1>1 DEF CallStates, Keep
  <2> HIDE DEF e
  <2> QED
    BY <2>1, <2>2 DEF Shape, Plain
<1>2. CASE r.op # "lifecycle"
  <2> DEFINE e == [r EXCEPT !.pc = "done", !.ok = ok, !.fd = Absent, !.root = Absent]
  <2>1. Ended(r, ok) = e
    BY <1>2 DEF Ended
  <2>2. e.pc = "done" /\ e.op = r.op /\ e.upd = r.upd /\ e.ok = ok
    BY DEF CallStates
  <2> HIDE DEF e
  <2> QED
    BY <2>1, <2>2 DEF Shape, Plain
<1> QED
  BY <1>1, <1>2

(* A call that ends here, or one of a pass that goes on to the next skill.  *)
LEMMA EndStep ==
  ASSUME TypeInv, SeqInv, Alone, NEW p \in Procs, NEW ok \in BOOLEAN,
         Set(p, Ended(proc[p], ok)), proc[p].op = "rollback" => ~ok,
         UNCHANGED <<file, archive, usage, cut>>
  PROVE  SeqInv'
<1>1. proc[p] \in CallStates /\ Shape(proc[p])
  BY DEF TypeInv, ProcOK, SeqInv, CallInv
<1> DEFINE e == Ended(proc[p], ok)
<1>2. Shape(e) /\ Plain(e) /\ (e.op = "rollback" => ~e.ok)
  BY <1>1, EndedShape
<1> HIDE DEF e
<1>3. Found(e) /\ RolledBack(e)
  BY <1>2, PlainFound
<1> QED
  BY <1>2, <1>3, QuietStep DEF e

LEMMA PlainStep ==
  ASSUME TypeInv, SeqInv, Alone, NEW p \in Procs, NEW r, Set(p, r),
         Shape(r), Plain(r), r.op # "rollback",
         UNCHANGED <<file, archive, usage, cut>>
  PROVE  SeqInv'
  BY PlainFound, QuietStep

(* A call whose first checks are made at once.                              *)
LEMMA GuardedStep ==
  ASSUME TypeInv, SeqInv, Alone, NEW p \in Procs, NEW r \in CallStates, NEW ok,
         Set(p, Guarded(r, ok)), Shape(r), ok => Found(r) /\ RolledBack(r), r.op # "rollback",
         UNCHANGED <<file, archive, usage, cut>>
  PROVE  SeqInv'
<1>1. CASE ok
  BY <1>1, QuietStep DEF Guarded
<1>2. CASE ~ok
  <2> DEFINE e == Ended(r, FALSE)
  <2>1. Shape(e) /\ Plain(e) /\ (e.op = "rollback" => ~e.ok)
    BY EndedShape
  <2>2. Set(p, e)
    BY <1>2 DEF Guarded
  <2> HIDE DEF e
  <2>3. Found(e) /\ RolledBack(e)
    BY <2>1, PlainFound
  <2> QED
    BY <2>1, <2>2, <2>3, QuietStep
<1> QED
  BY <1>1, <1>2

-----------------------------------------------------------------------------
(* Calls.                                                                   *)

LEMMA CalledFields ==
  ASSUME NEW op, NEW n, NEW l
  PROVE  /\ Called(op, n, l).pc = l /\ Called(op, n, l).op = op /\ Called(op, n, l).name = n
         /\ Called(op, n, l).upd = Keep /\ Called(op, n, l).ok = TRUE
         /\ Called(op, n, l).now = 0
  BY DEF Called, Idle

LEMMA EditShapes ==
  ASSUME NEW n \in Names, NEW c \in Contents, NEW r,
         \/ r = [Called("create", n, "writeFile") EXCEPT !.content = c,
                   !.upd = [Keep EXCEPT !.state = "active"]]
         \/ r = Edited("edit", n, c, "writeFile")
         \/ r = Edited("patch", n, c, "editCheck")
  PROVE  /\ r \in CallStates /\ Shape(r) /\ Plain(r)
         /\ r.op \in {"create", "edit", "patch"} /\ r.now = 0
<1>1. r \in CallStates
  BY CallTypes DEF CallOK
<1>2. /\ r.pc \in {"writeFile", "editCheck"} /\ r.op \in {"create", "edit", "patch"}
      /\ r.upd.state = "active" /\ r.now = 0
  <2>1. CASE r = [Called("create", n, "writeFile") EXCEPT !.content = c,
                   !.upd = [Keep EXCEPT !.state = "active"]]
    BY <2>1 DEF Called, Idle, Keep
  <2>2. CASE r = Edited("edit", n, c, "writeFile")
    BY <2>2 DEF Called, Edited, Idle, Keep
  <2>3. CASE r = Edited("patch", n, c, "editCheck")
    BY <2>3 DEF Called, Edited, Idle, Keep
  <2> QED
    BY <2>1, <2>2, <2>3
<1> QED
  BY <1>1, <1>2 DEF Shape, Plain

LEMMA NamedShapes ==
  ASSUME NEW n \in Names, NEW pin \in {"on", "off"}, NEW r,
         \/ r = [Called("activate", n, "resolve") EXCEPT !.upd.use = 1]
         \/ r = [Called("view", n, "resolve") EXCEPT !.upd.view = 1]
         \/ r = [Called("pin", n, "resolve") EXCEPT !.upd.pin = pin]
         \/ r = Called("archive", n, "archive")
  PROVE  /\ Shape(r) /\ Plain(r)
         /\ r.op \in {"activate", "view", "pin", "archive"} /\ r.now = 0
<1>1. /\ r.pc \in {"resolve", "archive"} /\ r.op \in {"activate", "view", "pin", "archive"}
      /\ r.now = 0
  BY DEF Called, Idle
<1>2. r.upd.state = "keep"
  <2>1. CASE r = [Called("activate", n, "resolve") EXCEPT !.upd.use = 1]
    BY <2>1 DEF Called, Idle, Keep
  <2>2. CASE r = [Called("view", n, "resolve") EXCEPT !.upd.view = 1]
    BY <2>2 DEF Called, Idle, Keep
  <2>3. CASE r = [Called("pin", n, "resolve") EXCEPT !.upd.pin = pin]
    BY <2>3 DEF Called, Idle, Keep
  <2>4. CASE r = Called("archive", n, "archive")
    BY <2>4 DEF Called, Idle, Keep
  <2> QED
    BY <2>1, <2>2, <2>3, <2>4
<1> QED
  BY <1>1, <1>2 DEF Shape, Plain

LEMMA CallSeq ==
  ASSUME TypeInv, SeqInv, Alone, NEW p \in Procs, Call(p)
  PROVE  SeqInv'
<1>0. ASSUME NEW op, NEW r, Begin(p, op, r)
      PROVE  Set(p, r) /\ UNCHANGED <<file, archive, usage, cut>>
  BY <1>0 DEF Begin, disk, history
<1>1. ASSUME NEW n \in Names, NEW c \in Contents, Create(p, n, c) \/ Edit(p, n, c) \/ Patch(p, n, c)
      PROVE  SeqInv'
  <2>1. PICK op, r, ok :
          /\ Begin(p, op, Guarded(r, ok))
          /\ \/ r = [Called("create", n, "writeFile") EXCEPT !.content = c,
                       !.upd = [Keep EXCEPT !.state = "active"]]
             \/ r = Edited("edit", n, c, "writeFile")
             \/ r = Edited("patch", n, c, "editCheck")
    BY <1>1 DEF Create, Edit, Patch
  <2>2. r \in CallStates /\ Shape(r) /\ Plain(r) /\ r.op # "rollback"
    BY <2>1, EditShapes
  <2>3. Found(r) /\ RolledBack(r)
    BY <2>2, PlainFound
  <2> QED
    BY <1>0, <2>1, <2>2, <2>3, GuardedStep
<1>2. ASSUME NEW n \in Names, NEW pin \in {"on", "off"},
             Activate(p, n) \/ View(p, n) \/ Archive(p, n) \/ SetPinned(p, n, pin)
      PROVE  SeqInv'
  <2>1. PICK op, r :
          /\ Begin(p, op, r)
          /\ \/ r = [Called("activate", n, "resolve") EXCEPT !.upd.use = 1]
             \/ r = [Called("view", n, "resolve") EXCEPT !.upd.view = 1]
             \/ r = [Called("pin", n, "resolve") EXCEPT !.upd.pin = pin]
             \/ r = Called("archive", n, "archive")
    BY <1>2 DEF Activate, View, Archive, SetPinned
  <2>2. Shape(r) /\ Plain(r) /\ r.op # "rollback"
    BY <2>1, NamedShapes
  <2> QED
    BY <1>0, <2>1, <2>2, PlainStep
<1>3. CASE Lifecycle(p)
  <2> DEFINE r == [Called("lifecycle", Absent, "life") EXCEPT
                     !.todo = {n \in Names : Exists(n)}, !.now = day]
  <2>1. r.pc = "life" /\ r.op = "lifecycle" /\ r.upd.state = "keep"
    BY DEF Called, Idle, Keep
  <2>2. Begin(p, "lifecycle", r)
    BY <1>3 DEF Lifecycle
  <2> HIDE DEF r
  <2>3. Shape(r) /\ Plain(r)
    BY <2>1 DEF Shape, Plain
  <2> QED
    BY <1>0, <2>1, <2>2, <2>3, PlainStep
<1>4. CASE Rollback(p)
  <2> DEFINE r == [Called("rollback", Absent, "clear") EXCEPT !.todo = Present]
  <2>1. r.pc = "clear" /\ r.op = "rollback" /\ r.upd.state = "keep" /\ r.todo = Present
    BY DEF Called, Idle, Keep
  <2>2. Begin(p, "rollback", r)
    BY <1>4 DEF Rollback
  <2> HIDE DEF r
  <2>3. Matches(Present, NoFiles, NoFiles, NoUsage)
    BY DEF Matches, Present, NoFiles, Entries
  <2>4. Shape(r) /\ Found(r) /\ RolledBack(r)
    BY <2>1, <2>3 DEF Shape, Found, Archives, RolledBack
  <2> QED
    BY <1>0, <2>1, <2>2, <2>4, QuietStep
<1>5. "on" \in {"on", "off"}
  OBVIOUS
<1> QED
  BY <1>1, <1>2, <1>3, <1>4, <1>5 DEF Call

-----------------------------------------------------------------------------
(* Steps of a call.                                                         *)

LEMMA EditSeq ==
  ASSUME TypeInv, SeqInv, Alone, NEW p \in Procs,
         EditCheck(p) \/ WriteFile(p) \/ WriteFileFails(p) \/ Return(p)
  PROVE  SeqInv'
<1>0. /\ proc[p] \in CallStates /\ CallOK(proc[p])
      /\ Shape(proc[p]) /\ Found(proc[p]) /\ RolledBack(proc[p])
  BY DEF TypeInv, ProcOK, SeqInv, CallInv
<1>1. CASE EditCheck(p)
  <2> DEFINE r == [proc[p] EXCEPT !.pc = "writeFile"]
  <2>1. /\ r \in CallStates /\ r.pc = "writeFile" /\ r.op = proc[p].op /\ r.upd = proc[p].upd
    BY <1>0 DEF CallStates, Labels
  <2>2. PICK ok : Set(p, Guarded(r, ok))
    BY <1>1 DEF EditCheck
  <2>3. UNCHANGED <<file, archive, usage, cut>> /\ proc[p].pc = "editCheck"
    BY <1>1 DEF EditCheck, At, disk, history
  <2> HIDE DEF r
  <2>4. Shape(r) /\ Plain(r) /\ r.op # "rollback"
    BY <1>0, <2>1, <2>3 DEF Shape, Plain
  <2>5. Found(r) /\ RolledBack(r)
    BY <2>4, PlainFound
  <2> QED
    BY <2>1, <2>2, <2>3, <2>4, <2>5, GuardedStep
<1>2. CASE WriteFile(p)
  <2>r. PICK r : r = [proc[p] EXCEPT !.pc = "resolve"]
    OBVIOUS
  <2>1. r.pc = "resolve" /\ r.op = proc[p].op /\ r.upd = proc[p].upd
    BY <1>0, <2>r DEF CallStates
  <2>2. Set(p, r) /\ UNCHANGED <<archive, usage, cut>> /\ proc[p].pc = "writeFile"
    BY <1>2, <2>r DEF WriteFile, Goto, At, history
  <2>3. Shape(r) /\ Plain(r) /\ r.op # "rollback"
    BY <1>0, <2>1, <2>2 DEF Shape, Plain
  <2>4. proc[p].content # Absent
    BY <1>0, <2>2, AbsentAssumption DEF CallOK
  <2>5. \A n \in Names : file'[n] = Absent => file[n] = Absent
    BY <1>2, <2>4 DEF WriteFile, TypeInv, DiskOK
  <2>6. Reliable /\ SnapshotInOrder => ArchivedIsRecorded'
    BY <2>2, <2>5 DEF SeqInv, ArchivedIsRecorded
  <2>7. Found(r)' /\ RolledBack(r)'
    BY <2>3, PlainFound
  <2> QED
    BY <2>2, <2>3, <2>6, <2>7, AloneStep
<1>3. CASE WriteFileFails(p)
  <2>1. UNCHANGED <<file, archive, usage, cut>> /\ proc[p].pc = "writeFile"
    BY <1>3 DEF WriteFileFails, At, disk, history
  <2>2. proc[p].op # "rollback"
    BY <1>0, <2>1 DEF Shape
  <2>3. Set(p, Ended(proc[p], FALSE))
    BY <1>3 DEF WriteFileFails, Fail
  <2> QED
    BY <2>1, <2>2, <2>3, EndStep
<1>4. CASE Return(p)
  <2>1. Shape(Idle) /\ Plain(Idle) /\ Idle.op # "rollback"
    BY DEF Shape, Plain, Idle, Keep
  <2> QED
    BY <1>4, <2>1, PlainStep DEF Return, disk, history
<1> QED
  BY <1>1, <1>2, <1>3, <1>4

LEMMA RecordSeq ==
  ASSUME TypeInv, SeqInv, Alone, NEW p \in Procs,
         Resolve(p) \/ Open(p) \/ Lock(p) \/ LoadFails(p) \/ RecordFails(p)
  PROVE  SeqInv'
<1>0. /\ proc[p] \in CallStates /\ CallOK(proc[p])
      /\ Shape(proc[p]) /\ Found(proc[p]) /\ RolledBack(proc[p])
  BY DEF TypeInv, ProcOK, SeqInv, CallInv
<1>1. /\ UNCHANGED <<file, archive, usage, cut>>
      /\ proc[p].pc \in {"resolve", "open", "lock", "write"}
  BY DEF Resolve, Open, Lock, LoadFails, RecordFails, At, disk, history
<1>2. proc[p].op # "rollback"
  BY <1>0, <1>1 DEF Shape
(* A call that goes on in the locked section keeps what it has found out.   *)
<1>3. ASSUME NEW r, Set(p, r), r.pc \in {"open", "lock", "write"},
             r.op = proc[p].op, r.upd = proc[p].upd, r.name = proc[p].name,
             file[r.name] # Absent, r.pc = "write" /\ Reliable => r.root # Absent
      PROVE  SeqInv'
  <2>1. Shape(r)
    BY <1>0, <1>2, <1>3 DEF Shape
  <2>2. Found(r)
    BY <1>0, <1>1, <1>3 DEF Found, Archives
  <2>3. RolledBack(r)
    BY <1>3 DEF RolledBack
  <2> QED
    BY <1>1, <1>3, <2>1, <2>2, <2>3, QuietStep
<1>4. ASSUME Set(p, Recorded(proc[p], FALSE)) PROVE SeqInv'
  <2>1. Set(p, Ended(proc[p], TRUE)) \/ Set(p, Ended(proc[p], FALSE))
    BY <1>4 DEF Recorded
  <2>2. CASE Set(p, Ended(proc[p], TRUE))
    BY <1>1, <1>2, <2>2, EndStep
  <2>3. CASE Set(p, Ended(proc[p], FALSE))
    BY <1>1, <1>2, <2>3, EndStep
  <2> QED
    BY <2>1, <2>2, <2>3
<1>5. CASE Resolve(p)
  <2>1. CASE Exists(proc[p].name)
    <3> DEFINE r == [proc[p] EXCEPT !.pc = "open"]
    <3>1. /\ r.pc = "open" /\ r.op = proc[p].op /\ r.upd = proc[p].upd /\ r.name = proc[p].name
      BY <1>0 DEF CallStates
    <3>2. Set(p, r) /\ file[proc[p].name] # Absent
      BY <1>5, <2>1 DEF Resolve, Goto, Exists
    <3> HIDE DEF r
    <3> QED
      BY <1>3, <3>1, <3>2
  <2> QED
    BY <1>4, <1>5, <2>1 DEF Resolve
<1>6. CASE Open(p)
  <2> DEFINE r == [proc[p] EXCEPT !.pc = "lock", !.fd = lock']
  <2>1. /\ r.pc = "lock" /\ r.op = proc[p].op /\ r.upd = proc[p].upd /\ r.name = proc[p].name
    BY <1>0 DEF CallStates
  <2>2. Set(p, r) /\ file[proc[p].name] # Absent
    BY <1>0, <1>6 DEF Open, Found, At
  <2> HIDE DEF r
  <2> QED
    BY <1>3, <2>1, <2>2
<1>7. CASE Lock(p)
  <2> DEFINE r == [proc[p] EXCEPT !.pc = "write", !.root = usage]
  <2>1. /\ r.pc = "write" /\ r.op = proc[p].op /\ r.upd = proc[p].upd /\ r.name = proc[p].name
        /\ r.root = usage
    BY <1>0 DEF CallStates
  <2>2. Set(p, r) /\ file[proc[p].name] # Absent
    BY <1>0, <1>7 DEF Lock, Found, At
  <2>3. usage # Absent
    BY AbsentAssumption DEF TypeInv, DiskOK
  <2> HIDE DEF r
  <2> QED
    BY <1>3, <2>1, <2>2, <2>3
<1>8. CASE LoadFails(p)
  <2> DEFINE r == [proc[p] EXCEPT !.pc = "write", !.root = Absent]
  <2>1. /\ r.pc = "write" /\ r.op = proc[p].op /\ r.upd = proc[p].upd /\ r.name = proc[p].name
    BY <1>0 DEF CallStates
  <2>2. Set(p, r) /\ file[proc[p].name] # Absent
    BY <1>0, <1>8 DEF LoadFails, Found, At
  <2>3. ~Reliable
    BY <1>8 DEF LoadFails, BadRead, Reliable, TypeInv, RestOK
  <2> HIDE DEF r
  <2> QED
    BY <1>3, <2>1, <2>2, <2>3
<1>9. CASE RecordFails(p)
  BY <1>4, <1>9 DEF RecordFails
<1> QED
  BY <1>5, <1>6, <1>7, <1>8, <1>9

(* The record a call writes, next to the one that was there.                *)
LEMMA UpdatedFields ==
  ASSUME NEW rec, NEW u
  PROVE  /\ Updated(rec, u).state = IF u.use = 1 THEN "active"
                                    ELSE IF u.state = "keep"
                                    THEN (IF rec = Absent THEN "active" ELSE rec.state)
                                    ELSE u.state
         /\ u.pin = "keep" /\ (rec = Absent \/ ~rec.pinned) => ~Updated(rec, u).pinned
         /\ Updated(rec, u).created = IF rec = Absent THEN day ELSE rec.created
         /\ Updated(rec, u).used = IF u.use = 1 THEN day
                                   ELSE IF rec = Absent THEN Absent ELSE rec.used
  BY DEF Updated, NewRecord

(* Where the sidecar can be read a writer changes one record of it.         *)
LEMMA WriteEffect ==
  ASSUME TypeInv, LockInv, SeqInv, NEW p \in Procs, Write(p), NEW n, n = proc[p].name
  PROVE  /\ n \in Names /\ proc[p].upd \in Updates /\ proc[p].pc = "write"
         /\ UNCHANGED <<file, archive, cut, day>>
         /\ Set(p, Recorded(proc[p], TRUE))
         /\ \/ usage'[n] = Updated(usage[n], proc[p].upd)
            \/ ~Reliable /\ usage'[n] = Updated(Absent, proc[p].upd)
         /\ usage'[n] # Absent
         /\ Reliable => \A m \in Names \ {n} : usage'[m] = usage[m]
         /\ \A m \in Names \ {n} : usage'[m] \in {usage[m], Absent}
<1>0. /\ proc[p] \in CallStates /\ CallOK(proc[p]) /\ Shape(proc[p]) /\ usage \in Usages
      /\ day \in Days /\ Absent \notin Usages /\ Absent \notin Records
  BY AbsentAssumption DEF TypeInv, ProcOK, SeqInv, CallInv, DiskOK, RestOK
<1>1. proc[p].pc = "write" /\ UNCHANGED <<file, archive, cut, day>> /\ Set(p, Recorded(proc[p], TRUE))
  BY DEF Write, At
<1>2. n \in Names /\ proc[p].upd \in Updates /\ proc[p].root \in {usage, Absent}
  BY <1>0, <1>1 DEF CallOK, CallStates, LockInv, Loaded, At
<1>3. CASE proc[p].root = usage
  <2>1. usage' = [usage EXCEPT ![n] = Updated(@, proc[p].upd)]
    BY <1>0, <1>3 DEF Write
  <2>2. usage'[n] = Updated(usage[n], proc[p].upd) /\ \A m \in Names \ {n} : usage'[m] = usage[m]
    BY <1>0, <1>2, <2>1 DEF Usages
  <2>3. usage[n] \in Records \cup {Absent}
    BY <1>0, <1>2 DEF Usages
  <2>4. usage'[n] # Absent
    BY <1>0, <1>2, <2>2, <2>3, UpdatedType
  <2> QED
    BY <1>1, <1>2, <2>2, <2>4
<1>4. CASE proc[p].root = Absent
  <2>1. usage' = [NoUsage EXCEPT ![n] = Updated(@, proc[p].upd)]
    BY <1>4 DEF Write
  <2>2. usage'[n] = Updated(Absent, proc[p].upd) /\ \A m \in Names \ {n} : usage'[m] = Absent
    BY <1>2, <2>1 DEF NoUsage
  <2>3. usage'[n] # Absent
    BY <1>0, <1>2, <2>2, UpdatedType
  <2>4. ~Reliable
    BY <1>0, <1>1, <1>4 DEF Shape
  <2> QED
    BY <1>1, <1>2, <2>2, <2>3, <2>4
<1> QED
  BY <1>2, <1>3, <1>4

LEMMA WriteSeq ==
  ASSUME TypeInv, LockInv, SeqInv, Alone, NEW p \in Procs, Write(p)
  PROVE  SeqInv'
<1>n. PICK n : n = proc[p].name
  OBVIOUS
<1>u. PICK u : u = proc[p].upd
  OBVIOUS
<1>0. /\ proc[p] \in CallStates /\ Shape(proc[p]) /\ Found(proc[p])
  BY DEF TypeInv, ProcOK, SeqInv, CallInv
<1>1. /\ n \in Names /\ u \in Updates /\ proc[p].pc = "write"
      /\ UNCHANGED <<file, archive, cut, day>>
      /\ Set(p, Recorded(proc[p], TRUE))
      /\ \/ usage'[n] = Updated(usage[n], u)
         \/ ~Reliable /\ usage'[n] = Updated(Absent, u)
      /\ usage'[n] # Absent
      /\ Reliable => \A m \in Names \ {n} : usage'[m] = usage[m]
  BY <1>n, <1>u, WriteEffect
<1>2. proc[p].op # "rollback" /\ file[n] # Absent
  BY <1>0, <1>1, <1>n DEF Shape, Found
<1>3. Reliable /\ SnapshotInOrder => ArchivedIsRecorded'
  <2> SUFFICES ASSUME Reliable, SnapshotInOrder, ~cut, NEW m \in Names, archive[m] # Absent, file[m] = Absent
               PROVE  usage'[m] # Absent /\ usage'[m].state = "archived"
    BY <1>1 DEF ArchivedIsRecorded
  <2>1. m # n
    BY <1>2
  <2> QED
    BY <1>1, <2>1 DEF SeqInv, ArchivedIsRecorded
<1>4. CASE proc[p].op # "create" /\ u.state = "archived"
  <2> DEFINE r == [proc[p] EXCEPT !.pc = "rename", !.fd = Absent, !.root = Absent]
  <2>1. r.pc = "rename" /\ r.op = proc[p].op /\ r.upd = u /\ r.name = n
    BY <1>0, <1>n, <1>u DEF CallStates
  <2>2. Set(p, r)
    BY <1>1, <1>4, <1>u DEF Recorded
  <2>3. PICK q : q = r
    OBVIOUS
  <2> HIDE DEF r
  <2>4. u.pin = "keep" /\ u.use = 0
    BY <1>0, <1>4, <1>u DEF Shape
  <2>5. Shape(q)
    BY <1>2, <1>4, <2>1, <2>3, <2>4 DEF Shape
  <2>a. PICK rec : usage'[n] = Updated(rec, u) /\ (Reliable => rec = usage[n])
    BY <1>1
  <2>b. /\ Updated(rec, u).state = "archived"
        /\ rec = Absent \/ ~rec.pinned => ~Updated(rec, u).pinned
    BY <1>4, <2>4, UpdatedFields
  <2>6. usage'[n].state = "archived"
    BY <2>a, <2>b
  <2>7. archive[n] = Absent /\ (Reliable => ~Pinned(n))
    BY <1>0, <1>1, <1>4, <1>n, <1>u DEF Found, Archives
  <2>8. Reliable => ~usage'[n].pinned
    BY <2>7, <2>a, <2>b DEF Pinned
  <2>9. Found(q)' /\ RolledBack(q)'
    <3>1. Reliable => ~Pinned(n)'
      BY <2>8, <1>n DEF Pinned
    <3> QED
      BY <1>1, <1>2, <2>1, <2>3, <2>6, <2>7, <2>8 DEF Found, Archives, RolledBack, Pinned
  <2>10. Set(p, q) /\ q.op # "rollback"
    BY <1>2, <2>1, <2>2, <2>3
  <2> QED
    BY <1>3, <2>5, <2>9, <2>10, AloneStep
<1>5. CASE ~(proc[p].op # "create" /\ u.state = "archived")
  <2>1. PICK e : e = Ended(proc[p], TRUE)
    OBVIOUS
  <2>2. Set(p, e)
    BY <1>1, <1>5, <1>u, <2>1 DEF Recorded
  <2>3. Shape(e) /\ Plain(e) /\ (e.op = "rollback" => ~e.ok)
    BY <1>0, <1>2, <2>1, EndedShape
  <2>4. Found(e)' /\ RolledBack(e)'
    BY <2>3, PlainFound
  <2> QED
    BY <1>3, <2>2, <2>3, <2>4, AloneStep
<1> QED
  BY <1>4, <1>5

LEMMA ArchiveSeq ==
  ASSUME TypeInv, SeqInv, Alone, NEW p \in Procs,
         ArchiveCheck(p) \/ ArchiveBlind(p) \/ Rename(p) \/ RenameFails(p)
  PROVE  SeqInv'
<1>0. /\ proc[p] \in CallStates /\ CallOK(proc[p]) /\ Shape(proc[p]) /\ Found(proc[p])
  BY DEF TypeInv, ProcOK, SeqInv, CallInv
<1>1. UNCHANGED <<usage, cut>> /\ proc[p].pc \in {"archive", "rename"} /\ proc[p].name \in Names
  BY <1>0 DEF ArchiveCheck, ArchiveBlind, Rename, RenameFails, At, CallOK, disk, history
<1>2. proc[p].op # "rollback"
  BY <1>0, <1>1 DEF Shape
<1>3. CASE ArchiveCheck(p) \/ ArchiveBlind(p)
  <2>0. PICK r : r = Archiving(proc[p])
    OBVIOUS
  <2>a. [Keep EXCEPT !.patch = 1, !.state = "archived"] \in Updates
    BY KeepType DEF States
  <2>1. /\ r \in CallStates /\ r.pc = "resolve" /\ r.op = proc[p].op /\ r.name = proc[p].name
    BY <1>0, <2>0, <2>a DEF Archiving, CallStates, Labels
  <2>2. r.upd.state = "archived" /\ r.upd.pin = "keep" /\ r.upd.use = 0
    BY <1>0, <2>0 DEF Archiving, CallStates, Keep
  <2>3. PICK ok : /\ Set(p, Guarded(r, ok))
                  /\ ok => archive[r.name] = Absent /\ (Reliable => ~Pinned(r.name))
    <3>1. CASE ArchiveCheck(p)
      BY <2>0, <2>1, <3>1 DEF ArchiveCheck, MayArchive
    <3>2. CASE ArchiveBlind(p)
      <4>1. ~Reliable
        BY <3>2 DEF ArchiveBlind, BadRead, Reliable, TypeInv, RestOK
      <4> QED
        BY <2>0, <2>1, <3>2, <4>1 DEF ArchiveBlind
    <3> QED
      BY <1>3, <3>1, <3>2
  <2>4. Shape(r)
    BY <1>2, <2>1, <2>2 DEF Shape
  <2>5. ok => Found(r) /\ RolledBack(r)
    BY <2>1, <2>3 DEF Found, Archives, RolledBack
  <2>6. UNCHANGED <<file, archive, usage, cut>>
    BY <1>3 DEF ArchiveCheck, ArchiveBlind, disk, history
  <2> QED
    BY <1>2, <2>1, <2>3, <2>4, <2>5, <2>6, GuardedStep
<1>4. CASE RenameFails(p)
  BY <1>2, <1>4, EndStep DEF RenameFails, Fail, disk, history
<1>5. CASE Rename(p)
  <2>n. PICK n : n = proc[p].name
    OBVIOUS
  <2>0. /\ proc[p].pc = "rename" /\ Exists(n)
        /\ usage[n] # Absent /\ usage[n].state = "archived"
    BY <1>0, <1>5, <2>n DEF Rename, At, Found, Exists
  <2>1. /\ archive' = [archive EXCEPT ![n] = file[n]] /\ file' = [file EXCEPT ![n] = Absent]
        /\ Set(p, Ended(proc[p], TRUE))
    BY <1>5, <2>n, <2>0 DEF Rename
  <2>2. \A m \in Names \ {n} : archive'[m] = archive[m] /\ file'[m] = file[m]
    BY <2>1 DEF TypeInv, DiskOK
  <2>3. Reliable /\ SnapshotInOrder => ArchivedIsRecorded'
    <3> SUFFICES ASSUME Reliable, SnapshotInOrder, ~cut, NEW m \in Names, archive'[m] # Absent, file'[m] = Absent
                 PROVE  usage[m] # Absent /\ usage[m].state = "archived"
      BY <1>1 DEF ArchivedIsRecorded
    <3>1. CASE m = n
      BY <2>0, <3>1
    <3>2. CASE m # n
      BY <2>2, <3>2 DEF SeqInv, ArchivedIsRecorded
    <3> QED
      BY <3>1, <3>2
  <2>4. PICK e : e = Ended(proc[p], TRUE)
    OBVIOUS
  <2>5. Shape(e) /\ Plain(e) /\ (e.op = "rollback" => ~e.ok)
    BY <1>0, <1>2, <2>4, EndedShape
  <2>6. Found(e)' /\ RolledBack(e)'
    BY <2>5, PlainFound
  <2> QED
    BY <2>1, <2>3, <2>4, <2>5, <2>6, AloneStep
<1> QED
  BY <1>3, <1>4, <1>5

LEMMA PassSeq ==
  ASSUME TypeInv, SeqInv, Alone, NEW p \in Procs,
         (\E n \in Names : LifecycleNext(p, n)) \/ LifecycleEnd(p)
  PROVE  SeqInv'
<1>0. /\ proc[p] \in CallStates /\ Shape(proc[p])
      /\ UNCHANGED <<file, archive, usage, cut>> /\ proc[p].pc = "life"
  BY DEF TypeInv, ProcOK, SeqInv, CallInv, LifecycleNext, LifecycleEnd, At, disk, history
<1>1. proc[p].op # "rollback"
  BY <1>0 DEF Shape
<1>2. ASSUME NEW r, Set(p, r), r.op = proc[p].op, r.pc \in {"life", "done", "archive", "resolve"},
             r.upd = proc[p].upd \/ r.upd.state = "stale",
             r.pc = "resolve" => r.upd.state = "stale"
      PROVE  SeqInv'
  <2>1. Shape(r) /\ Plain(r)
    BY <1>0, <1>1, <1>2 DEF Shape, Plain
  <2> QED
    BY <1>0, <1>1, <1>2, <2>1, PlainStep
<1>3. CASE LifecycleEnd(p)
  <2> DEFINE r == [proc[p] EXCEPT !.pc = "done"]
  <2>1. r.pc = "done" /\ r.op = proc[p].op /\ r.upd = proc[p].upd
    BY <1>0 DEF CallStates
  <2>2. Set(p, r)
    BY <1>3 DEF LifecycleEnd, Goto
  <2> HIDE DEF r
  <2> QED
    BY <1>2, <2>1, <2>2
<1>4. ASSUME NEW n \in Names, LifecycleNext(p, n) PROVE SeqInv'
  <2> DEFINE r == [proc[p] EXCEPT !.todo = @ \ {n}]
             d == Decision(usage[n], r.now)
  <2>1. r \in CallStates /\ r.pc = "life" /\ r.op = proc[p].op /\ r.upd = proc[p].upd
    BY <1>0 DEF CallStates
  <2>2. Set(p, CASE ~Exists(n)     -> [r EXCEPT !.ok = FALSE]
                 [] Exists(n) /\ d = "leave"   -> r
                 [] Exists(n) /\ d = "archive" -> [r EXCEPT !.pc = "archive", !.name = n]
                 [] Exists(n) /\ d = "stale"   ->
                      [r EXCEPT !.pc = "resolve", !.name = n,
                                !.upd = [Keep EXCEPT !.state = "stale"]])
    BY <1>4 DEF LifecycleNext
  <2>3. d \in {"leave", "archive", "stale"}
    BY DEF Decision
  <2> HIDE DEF r, d
  <2> DEFINE r1 == [r EXCEPT !.ok = FALSE]
             r2 == [r EXCEPT !.pc = "archive", !.name = n]
             r3 == [r EXCEPT !.pc = "resolve", !.name = n, !.upd = [Keep EXCEPT !.state = "stale"]]
  <2>4. /\ r1.pc = "life" /\ r1.op = proc[p].op /\ r1.upd = proc[p].upd
        /\ r2.pc = "archive" /\ r2.op = proc[p].op /\ r2.upd = proc[p].upd
        /\ r3.pc = "resolve" /\ r3.op = proc[p].op /\ r3.upd.state = "stale"
    BY <2>1 DEF CallStates, Keep
  <2>5. Set(p, r1) \/ Set(p, r) \/ Set(p, r2) \/ Set(p, r3)
    BY <2>2, <2>3
  <2> HIDE DEF r1, r2, r3
  <2> QED
    BY <1>2, <2>1, <2>4, <2>5
<1> QED
  BY <1>3, <1>4

-----------------------------------------------------------------------------
(* The rollback.                                                            *)

LEMMA EntryParts ==
  ASSUME NEW e \in Entries
  PROVE  /\ \A n : e = <<"file", n>> <=> e[1] = "file" /\ e[2] = n
         /\ \A n : e = <<"archive", n>> <=> e[1] = "archive" /\ e[2] = n
         /\ e = <<"usage", Absent>> <=> e[1] = "usage"
  BY DEF Entries

(* An entry that has been dealt with matches what is put in its place.      *)
LEMMA PutMatches ==
  ASSUME TypeInv, NEW e \in Entries, NEW f, NEW a, NEW u, Put(e, f, a, u),
         NEW todo, NEW f0, NEW a0, NEW u0, Matches(todo, f0, a0, u0),
         e[1] = "file" => f = f0[e[2]], e[1] = "archive" => a = a0[e[2]], u = u0
  PROVE  Matches(todo \ {e}, f0, a0, u0)'
<1>0. file \in [Names -> Files] /\ archive \in [Names -> Files]
  BY DEF TypeInv, DiskOK
<1>1. ASSUME NEW n \in Names, <<"file", n>> \notin todo \ {e} PROVE file'[n] = f0[n]
  <2>1. CASE e = <<"file", n>>
    BY <1>0, <2>1 DEF Put
  <2>2. CASE e # <<"file", n>>
    <3>1. file[n] = f0[n]
      BY <1>1, <2>2 DEF Matches
    <3>2. ~(e[1] = "file" /\ e[2] = n)
      BY <2>2, EntryParts
    <3> QED
      BY <1>0, <3>1, <3>2 DEF Put
  <2> QED
    BY <2>1, <2>2
<1>2. ASSUME NEW n \in Names, <<"archive", n>> \notin todo \ {e} PROVE archive'[n] = a0[n]
  <2>1. CASE e = <<"archive", n>>
    BY <1>0, <2>1 DEF Put
  <2>2. CASE e # <<"archive", n>>
    <3>1. archive[n] = a0[n]
      BY <1>2, <2>2 DEF Matches
    <3>2. ~(e[1] = "archive" /\ e[2] = n)
      BY <2>2, EntryParts
    <3> QED
      BY <1>0, <3>1, <3>2 DEF Put
  <2> QED
    BY <2>1, <2>2
<1>3. ASSUME <<"usage", Absent>> \notin todo \ {e} PROVE usage' = u0
  <2>1. CASE e = <<"usage", Absent>>
    BY <2>1 DEF Put
  <2>2. CASE e # <<"usage", Absent>>
    <3>1. usage = u0
      BY <1>3, <2>2 DEF Matches
    <3> QED
      BY <3>1 DEF Put
  <2> QED
    BY <2>1, <2>2
<1> QED
  BY <1>1, <1>2, <1>3 DEF Matches

LEMMA RollbackSeq ==
  ASSUME TypeInv, SeqInv, Alone, NEW p \in Procs,
         \/ \E e \in Entries : Clear(p, e) \/ ClearFails(p, e) \/ Restore(p, e) \/ RestoreFails(p, e)
         \/ ClearEnd(p) \/ RestoreEnd(p)
  PROVE  SeqInv'
<1>0. /\ proc[p] \in CallStates /\ Shape(proc[p]) /\ RolledBack(proc[p])
      /\ proc[p].pc \in {"clear", "restore"}
  BY DEF TypeInv, ProcOK, SeqInv, CallInv, Clear, ClearFails, Restore, RestoreFails, ClearEnd,
         RestoreEnd, At
<1>1. proc[p].op = "rollback"
  BY <1>0 DEF Shape
(* The call after a step within one of the two loops.                       *)
<1>2. ASSUME NEW r, Set(p, r), r.pc = proc[p].pc, r.op = proc[p].op, r.upd = proc[p].upd,
             RolledBack(r)', cut' = TRUE
      PROVE  SeqInv'
  <2>1. Shape(r)
    BY <1>0, <1>2 DEF Shape
  <2>2. Found(r)'
    BY <1>0, <1>2 DEF Found, Archives
  <2>3. ArchivedIsRecorded'
    BY <1>2 DEF ArchivedIsRecorded
  <2>4. proc'[p].pc # "done"
    BY <1>0, <1>2, SetMoves
  <2> QED
    BY <1>2, <2>1, <2>2, <2>3, <2>4, AloneStep DEF At
<1>3. ASSUME NEW e \in Entries, Clear(p, e) PROVE SeqInv'
  <2>r. PICK r : r = [proc[p] EXCEPT !.todo = @ \ {e}]
    OBVIOUS
  <2>1. /\ r.pc = proc[p].pc /\ r.op = proc[p].op /\ r.upd = proc[p].upd /\ r.ok = proc[p].ok
        /\ r.todo = proc[p].todo \ {e}
    BY <1>0, <2>r DEF CallStates
  <2>2. Set(p, r) /\ proc[p].pc = "clear" /\ Put(e, Absent, Absent, NoUsage)
    BY <1>3, <2>r DEF Clear, At
  <2>3. e[1] \in {"file", "archive"} => NoFiles[e[2]] = Absent
    BY EntryTypes DEF NoFiles
  <2>t. PICK todo : todo = proc[p].todo
    OBVIOUS
  <2>4. proc[p].ok => Matches(todo \ {e}, NoFiles, NoFiles, NoUsage)'
    <3> SUFFICES ASSUME proc[p].ok PROVE Matches(todo \ {e}, NoFiles, NoFiles, NoUsage)'
      OBVIOUS
    <3>1. Matches(todo, NoFiles, NoFiles, NoUsage)
      BY <1>0, <2>2, <2>t DEF RolledBack
    <3> QED
      BY <2>2, <2>3, <3>1, PutMatches DEF NoFiles, NoUsage
  <2>5. RolledBack(r)'
    BY <2>1, <2>2, <2>4, <2>t DEF RolledBack
  <2> QED
    BY <1>2, <2>1, <2>2, <2>5 DEF Put
<1>4. ASSUME NEW e \in Entries, Restore(p, e) PROVE SeqInv'
  <2>r. PICK r : r = [proc[p] EXCEPT !.todo = @ \ {e}]
    OBVIOUS
  <2>1. /\ r.pc = proc[p].pc /\ r.op = proc[p].op /\ r.upd = proc[p].upd /\ r.ok = proc[p].ok
        /\ r.todo = proc[p].todo \ {e}
    BY <1>0, <2>r DEF CallStates
  <2>2. /\ Set(p, r) /\ proc[p].pc = "restore"
        /\ Put(e, IF e[1] = "file" THEN Snapshot.file[e[2]] ELSE Absent,
                  IF e[1] = "archive" THEN Snapshot.archive[e[2]] ELSE Absent, Snapshot.usage)
    BY <1>4, <2>r DEF Restore, At, FromSnapshot
  <2>t. PICK todo : todo = proc[p].todo
    OBVIOUS
  <2>4. proc[p].ok => Matches(todo \ {e}, Snapshot.file, Snapshot.archive, Snapshot.usage)'
    <3> SUFFICES ASSUME proc[p].ok
                 PROVE  Matches(todo \ {e}, Snapshot.file, Snapshot.archive, Snapshot.usage)'
      OBVIOUS
    <3>1. Matches(todo, Snapshot.file, Snapshot.archive, Snapshot.usage)
      BY <1>0, <2>2, <2>t DEF RolledBack
    <3> QED
      BY <2>2, <3>1, PutMatches
  <2>5. RolledBack(r)'
    BY <2>1, <2>2, <2>4, <2>t DEF RolledBack
  <2> QED
    BY <1>2, <2>1, <2>2, <2>5 DEF Put
<1>5. ASSUME NEW e \in Entries, RestoreFails(p, e) PROVE SeqInv'
  <2>r. PICK r : r = [proc[p] EXCEPT !.todo = @ \ {e}, !.ok = FALSE]
    OBVIOUS
  <2>1. r.pc = proc[p].pc /\ r.op = proc[p].op /\ r.upd = proc[p].upd /\ ~r.ok
    BY <1>0, <2>r DEF CallStates
  <2>2. Set(p, r) /\ cut' = TRUE
    BY <1>5, <2>r DEF RestoreFails, Put
  <2>3. RolledBack(r)'
    BY <2>1 DEF RolledBack
  <2> QED
    BY <1>2, <2>1, <2>2, <2>3
<1>6. ASSUME NEW e \in Entries, ClearFails(p, e) PROVE SeqInv'
  <2>r. PICK r : r = [proc[p] EXCEPT !.todo = @ \ {e}, !.ok = FALSE]
    OBVIOUS
  <2>1. r.pc = proc[p].pc /\ r.op = proc[p].op /\ r.upd = proc[p].upd /\ ~r.ok
    BY <1>0, <2>r DEF CallStates
  <2>2. Set(p, r) /\ UNCHANGED <<file, archive, usage, cut>>
    BY <1>6, <2>r DEF ClearFails, disk, history
  <2>3. Shape(r) /\ Found(r) /\ RolledBack(r)
    BY <1>0, <2>1 DEF Shape, Found, Archives, RolledBack
  <2> QED
    BY <1>0, <2>1, <2>2, <2>3, QuietStep
<1>7. CASE ClearEnd(p)
  <2>0. proc[p].pc = "clear" /\ proc[p].todo = {} /\ UNCHANGED <<file, archive, usage, cut>>
    BY <1>7 DEF ClearEnd, At, disk, history
  <2>1. CASE proc[p].ok
    <3>r. PICK r : r = [proc[p] EXCEPT !.pc = "restore", !.todo = InSnapshot]
      OBVIOUS
    <3>1. /\ r.pc = "restore" /\ r.op = proc[p].op /\ r.upd = proc[p].upd
          /\ r.todo = InSnapshot
      BY <1>0, <3>r DEF CallStates
    <3>2. Set(p, r)
      BY <1>7, <2>1, <3>r DEF ClearEnd
    <3>3. /\ \A n \in Names : file[n] = Absent /\ archive[n] = Absent
          /\ usage = NoUsage
      BY <1>0, <2>0, <2>1 DEF RolledBack, Matches, NoFiles
    <3>4. Matches(InSnapshot, Snapshot.file, Snapshot.archive, Snapshot.usage)
      <4>1. ASSUME NEW n \in Names, <<"file", n>> \notin InSnapshot PROVE Snapshot.file[n] = Absent
        BY <4>1 DEF InSnapshot, Entries
      <4>2. ASSUME NEW n \in Names, <<"archive", n>> \notin InSnapshot PROVE Snapshot.archive[n] = Absent
        BY <4>2 DEF InSnapshot, Entries
      <4>3. ASSUME <<"usage", Absent>> \notin InSnapshot PROVE Snapshot.usage = NoUsage
        BY <4>3 DEF InSnapshot, Entries
      <4> QED
        BY <3>3, <4>1, <4>2, <4>3 DEF Matches
    <3>5. Shape(r) /\ Found(r) /\ RolledBack(r)
      BY <1>0, <1>1, <3>1, <3>4 DEF Shape, Found, Archives, RolledBack
    <3> QED
      BY <2>0, <3>1, <3>2, <3>5, QuietStep
  <2>2. CASE ~proc[p].ok
    BY <1>7, <2>0, <2>2, EndStep DEF ClearEnd
  <2> QED
    BY <2>1, <2>2
<1>8. CASE RestoreEnd(p)
  <2>0. /\ proc[p].pc = "restore" /\ proc[p].todo = {} /\ UNCHANGED <<file, archive, usage>>
        /\ cut' = (cut /\ ~proc[p].ok)
    BY <1>8 DEF RestoreEnd, At, disk
  <2>r. PICK r : r = [proc[p] EXCEPT !.pc = "done"]
    OBVIOUS
  <2>1. r.pc = "done" /\ r.op = proc[p].op /\ r.upd = proc[p].upd /\ r.ok = proc[p].ok
    BY <1>0, <2>r DEF CallStates
  <2>2. Set(p, r)
    BY <1>8, <2>r DEF RestoreEnd, Goto
  <2>3. proc[p].ok => file = Snapshot.file /\ archive = Snapshot.archive /\ usage = Snapshot.usage
    <3> SUFFICES ASSUME proc[p].ok
                 PROVE  file = Snapshot.file /\ archive = Snapshot.archive /\ usage = Snapshot.usage
      OBVIOUS
    <3>1. Matches({}, Snapshot.file, Snapshot.archive, Snapshot.usage)
      BY <1>0, <2>0 DEF RolledBack
    <3>2. file \in [Names -> Files] /\ archive \in [Names -> Files]
      BY DEF TypeInv, DiskOK
    <3> QED
      BY <3>1, <3>2, SnapshotTypes DEF Matches
  <2>4. Shape(r) /\ Plain(r)
    BY <1>0, <2>1 DEF Shape, Plain
  <2>5. Found(r)' /\ RolledBack(r)'
    BY <2>4, PlainFound
  <2>6. Reliable /\ SnapshotInOrder => ArchivedIsRecorded'
    <3>1. CASE proc[p].ok
      BY <2>0, <2>3, <3>1 DEF SnapshotInOrder, ArchivedIsRecorded
    <3>2. CASE ~proc[p].ok
      BY <2>0, <3>2 DEF SeqInv, ArchivedIsRecorded
    <3> QED
      BY <3>1, <3>2
  <2> QED
    BY <2>0, <2>1, <2>2, <2>3, <2>4, <2>5, <2>6, AloneStep
<1> QED
  BY <1>3, <1>4, <1>5, <1>6, <1>7, <1>8

LEMMA CrashSeq ==
  ASSUME TypeInv, SeqInv, Alone, NEW p \in Procs, Crash(p)
  PROVE  SeqInv'
<1>1. Set(p, Idle) /\ Shape(Idle) /\ Plain(Idle) /\ Idle.op # "rollback"
  BY DEF Crash, Shape, Plain, Idle, Keep
<1>2. CASE UNCHANGED <<disk, history>>
  BY <1>1, <1>2, PlainStep DEF disk, history
<1>3. CASE \E e \in proc[p].todo : Put(e, Torn, Torn, NoUsage)
  <2>1. ArchivedIsRecorded'
    BY <1>3 DEF Put, ArchivedIsRecorded
  <2>2. Found(Idle)' /\ RolledBack(Idle)'
    BY <1>1 DEF Found, RolledBack, Idle, Archives, Keep
  <2> QED
    BY <1>1, <2>1, <2>2, AloneStep
<1> QED
  BY <1>2, <1>3 DEF Crash

LEMMA NextSeq ==
  ASSUME Alone
  PROVE  TypeInv /\ LockInv /\ SeqInv /\ [Next]_vars => SeqInv'
<1> SUFFICES ASSUME TypeInv, LockInv, SeqInv, [Next]_vars PROVE SeqInv'
  OBVIOUS
<1>1. ASSUME NEW p \in Procs, Call(p) PROVE SeqInv'
  BY <1>1, CallSeq
<1>2. ASSUME NEW p \in Procs, Step(p) PROVE SeqInv'
  BY <1>2, EditSeq, RecordSeq, WriteSeq, ArchiveSeq, PassSeq, RollbackSeq DEF Step
<1>3. ASSUME NEW p \in Procs, Lock(p) \/ LoadFails(p) PROVE SeqInv'
  BY <1>3, RecordSeq
<1>4. ASSUME NEW p \in Procs, Crash(p) PROVE SeqInv'
  BY <1>4, CrashSeq
<1>5. CASE NextDay \/ UNCHANGED vars
  <2>1. UNCHANGED <<proc, file, archive, usage, cut>>
    BY <1>5 DEF NextDay, vars, disk, history
  <2> QED
    BY <2>1
    DEF SeqInv, CallInv, Shape, Found, Archives, Pinned, RolledBack, Matches, RollbackExact, At,
        ArchivedIsRecorded
<1> QED
  BY <1>1, <1>2, <1>3, <1>4, <1>5 DEF Next

LEMMA SeqHolds ==
  ASSUME Alone
  PROVE  Spec => [](TypeInv /\ LockInv /\ SeqInv)
<1>1. TypeInv /\ LockInv /\ [Next]_vars => LockInv'
  BY NextLock
<1>2. TypeInv /\ LockInv /\ SeqInv /\ [Next]_vars => SeqInv'
  BY NextSeq
<1> QED
  BY <1>1, <1>2, InitLock, InitSeq, TypesHold, PTL DEF Spec

(* When skill_rollback_snapshot succeeds the tree is the snapshot, exactly, *)
(* whatever was there before and whatever earlier rollbacks that failed or  *)
(* were killed left behind.                                                 *)
THEOREM RollbacksAreExact ==
  ASSUME Alone
  PROVE  Spec => []RollbackExact
<1>1. SeqInv => RollbackExact
  BY DEF SeqInv
<1> QED
  BY <1>1, SeqHolds, PTL

(* A skill that is only in the archive is recorded as archived, wherever a  *)
(* crash or an error cuts skill_manage_archive or a lifecycle pass short:   *)
(* the record is written first, and every other call that writes a record   *)
(* has seen that the skill is live.                                         *)
THEOREM ArchivedAreRecorded ==
  ASSUME Alone, Reliable, SnapshotInOrder
  PROVE  Spec => []ArchivedIsRecorded
<1>1. SeqInv => ArchivedIsRecorded
  BY DEF SeqInv
<1> QED
  BY <1>1, SeqHolds, PTL

-----------------------------------------------------------------------------
(* What a step may do to an archived body.                                  *)

(* Only the rename of an archive and a rollback touch the archive, and a    *)
(* rollback one entry at a time.                                            *)
LEMMA ArchiveChanges ==
  ASSUME TypeInv, [Next]_vars, NEW n \in Names, archive'[n] # archive[n]
  PROVE  \E p \in Procs :
           \/ proc[p].pc = "rename" /\ proc[p].name = n
           \/ proc[p].pc \in {"clear", "restore"} /\ file' = file
<1>0. archive \in [Names -> Files]
  BY DEF TypeInv, DiskOK
<1>1. ASSUME NEW e, NEW f, NEW a, NEW u, Put(e, f, a, u)
      PROVE  file' = file
  BY <1>1 DEF Put
<1>2. ASSUME NEW p \in Procs, Call(p) PROVE FALSE
  BY <1>2 DEF Call, Create, Edit, Patch, Activate, View, SetPinned, Archive, Lifecycle, Rollback,
              Begin, disk
<1>3. ASSUME NEW p \in Procs, Rename(p)
      PROVE  proc[p].pc = "rename" /\ proc[p].name = n
  BY <1>0, <1>3 DEF Rename, At
<1>4. ASSUME NEW p \in Procs, NEW e, Clear(p, e) \/ Restore(p, e) \/ RestoreFails(p, e)
      PROVE  proc[p].pc \in {"clear", "restore"} /\ file' = file
  BY <1>1, <1>4 DEF Clear, Restore, RestoreFails, FromSnapshot, At
<1>5. ASSUME NEW p \in Procs, Crash(p)
      PROVE  proc[p].pc \in {"clear", "restore"} /\ file' = file
  <2>1. archive' # archive
    OBVIOUS
  <2> QED
    BY <1>1, <1>5, <2>1 DEF Crash, At, disk
<1>6. ASSUME NEW p \in Procs,
             \/ EditCheck(p) \/ WriteFile(p) \/ WriteFileFails(p) \/ Return(p)
             \/ Resolve(p) \/ Open(p) \/ Lock(p) \/ LoadFails(p) \/ Write(p) \/ RecordFails(p)
             \/ ArchiveCheck(p) \/ ArchiveBlind(p) \/ RenameFails(p)
             \/ (\E m \in Names : LifecycleNext(p, m)) \/ LifecycleEnd(p)
             \/ (\E e \in Entries : ClearFails(p, e)) \/ ClearEnd(p) \/ RestoreEnd(p)
      PROVE  FALSE
  BY <1>6 DEF EditCheck, WriteFile, WriteFileFails, Return, Resolve, Open, Lock, LoadFails, Write,
              RecordFails, ArchiveCheck, ArchiveBlind, RenameFails, LifecycleNext, LifecycleEnd,
              ClearFails, ClearEnd, RestoreEnd, disk
<1>7. CASE NextDay \/ UNCHANGED vars
  BY <1>7 DEF NextDay, vars, disk
<1> QED
  BY <1>2, <1>3, <1>4, <1>5, <1>6, <1>7 DEF Next, Step

(* An archived body is never overwritten by another one, however often the  *)
(* skill is created and archived again: the check of skill_manage_archive   *)
(* still holds at the rename.                                               *)
THEOREM ArchivedBodiesKept ==
  ASSUME Alone
  PROVE  Spec => ArchiveKept
<1>1. TypeInv /\ SeqInv /\ [Next]_vars =>
        [\A n \in Names : archive[n] # Absent /\ archive'[n] # archive[n] =>
           \E p \in Procs : proc[p].op = "rollback"]_vars
  <2> SUFFICES ASSUME TypeInv, SeqInv, [Next]_vars, NEW n \in Names,
                      archive[n] # Absent, archive'[n] # archive[n]
               PROVE  \E p \in Procs : proc[p].op = "rollback"
    OBVIOUS
  <2>1. PICK p \in Procs : \/ proc[p].pc = "rename" /\ proc[p].name = n
                           \/ proc[p].pc \in {"clear", "restore"} /\ file' = file
    BY ArchiveChanges
  <2>2. Shape(proc[p]) /\ Found(proc[p])
    BY DEF SeqInv, CallInv
  <2> QED
    BY <2>1, <2>2 DEF Shape, Found, Archives
<1> QED
  BY <1>1, SeqHolds, PTL DEF Spec, ArchiveKept

(* A skill that has been pinned is not archived, by hand or by a lifecycle  *)
(* pass: the pin is looked at before the record is written, and neither the *)
(* record nor anything else sets it before the rename.  With a second       *)
(* process it can be set in between: the run store_pinned.                  *)
THEOREM PinnedStaysLive ==
  ASSUME Alone, Reliable
  PROVE  Spec => PinnedNotArchived
<1>1. TypeInv /\ SeqInv /\ [Next]_vars =>
        [\A n \in Names : file[n] # Absent /\ file'[n] = Absent /\ archive'[n] # archive[n]
           => ~Pinned(n)]_vars
  <2> SUFFICES ASSUME TypeInv, SeqInv, [Next]_vars, NEW n \in Names,
                      file[n] # Absent, file'[n] = Absent, archive'[n] # archive[n]
               PROVE  ~Pinned(n)
    OBVIOUS
  <2>1. PICK p \in Procs : \/ proc[p].pc = "rename" /\ proc[p].name = n
                           \/ proc[p].pc \in {"clear", "restore"} /\ file' = file
    BY ArchiveChanges
  <2>2. Shape(proc[p]) /\ Found(proc[p])
    BY DEF SeqInv, CallInv
  <2> QED
    BY <2>1, <2>2 DEF Shape, Found, Archives
<1> QED
  BY <1>1, SeqHolds, PTL DEF Spec, PinnedNotArchived

-----------------------------------------------------------------------------
(* The lifecycle pass.                                                      *)

(* The snapshot was taken before the first day that passes.                 *)
SnapshotDated ==
  \A n \in Names : Snapshot.usage[n] # Absent =>
    Snapshot.usage[n].created = 0 /\ Snapshot.usage[n].used \in {0, Absent}

(* A skill is created before it is used, and neither is ahead of the clock. *)
DatedRecord(rec) ==
  /\ rec.created <= day
  /\ rec.used # Absent => rec.created <= rec.used /\ rec.used <= day

Dated == \A n \in Names : usage[n] # Absent => DatedRecord(usage[n])

(* What a pass has decided about its skill still holds.                     *)
Unused(r, k) == usage[r.name] # Absent /\ r.now - Activity(usage[r.name]) >= k

Deciding(r) == r.op = "lifecycle" /\ r.pc \in {"archive", "resolve", "open", "lock", "write"}

Decided(r) ==
  /\ r.now <= day
  /\ Deciding(r) /\ r.pc = "archive" => Unused(r, ArchiveAfter)
  /\ Deciding(r) /\ r.pc # "archive" =>
       /\ r.upd.use = 0 /\ r.upd.state \in {"stale", "archived"}
       /\ Unused(r, IF r.upd.state = "stale" THEN StaleAfter ELSE ArchiveAfter)

PassInv == Dated /\ \A p \in Procs : Decided(proc[p])

LEMMA InitPass ==
  ASSUME SnapshotDated
  PROVE  Init => PassInv
<1> SUFFICES ASSUME Init PROVE PassInv
  OBVIOUS
<1>1. Dated
  BY AbsentAssumption DEF Init, Dated, DatedRecord, SnapshotDated, NoUsage
<1>2. \A p \in Procs : Decided(proc[p])
  BY DEF Init, Decided, Deciding, Idle
<1> QED
  BY <1>1, <1>2 DEF PassInv

LEMMA PassStep ==
  ASSUME TypeInv, Alone, NEW p \in Procs, NEW r, Set(p, r), Dated', Decided(r)'
  PROVE  PassInv'
<1>1. proc'[p] = r /\ \A q \in Procs : q = p
  BY SetMoves DEF Alone
<1> QED
  BY <1>1 DEF PassInv, Decided, Deciding, Unused

LEMMA SameDates ==
  ASSUME Dated, UNCHANGED <<usage, day>>
  PROVE  Dated'
  BY DEF Dated, DatedRecord

(* A step that decides nothing.                                             *)
LEMMA EasyPass ==
  ASSUME TypeInv, PassInv, Alone, NEW p \in Procs, NEW r, Set(p, r),
         UNCHANGED <<usage, day>>, r.now <= day, ~Deciding(r)
  PROVE  PassInv'
<1>1. Decided(r)'
  BY DEF Decided, Deciding
<1>2. Dated'
  BY SameDates DEF PassInv
<1> QED
  BY <1>1, <1>2, PassStep

(* A step that keeps to what was decided.                                   *)
LEMMA SamePass ==
  ASSUME TypeInv, PassInv, Alone, NEW p \in Procs, NEW r, Set(p, r),
         UNCHANGED <<usage, day>>, Decided(r)
  PROVE  PassInv'
<1>1. Decided(r)'
  BY DEF Decided, Deciding, Unused
<1>2. Dated'
  BY SameDates DEF PassInv
<1> QED
  BY <1>1, <1>2, PassStep

LEMMA EndNow ==
  ASSUME NEW r \in CallStates, NEW ok
  PROVE  /\ Ended(r, ok).now = r.now /\ ~Deciding(Ended(r, ok))
         /\ Recorded(r, ok).now = r.now /\ ~Deciding(Recorded(r, ok))
<1>1. \A k : Ended(r, k).now = r.now
  BY DEF Ended, CallStates
<1>2. \A k : ~Deciding(Ended(r, k))
  BY EndLabels DEF Deciding
<1>3. Recorded(r, ok).now = r.now
  BY <1>1 DEF Recorded, CallStates
<1>4. ~Deciding(Recorded(r, ok))
  BY EndLabels DEF Deciding
<1> QED
  BY <1>1, <1>2, <1>3, <1>4

LEMMA CallPass ==
  ASSUME TypeInv, PassInv, Alone, NEW p \in Procs, Call(p)
  PROVE  PassInv'
<1>0. ASSUME NEW op, NEW r, Begin(p, op, r)
      PROVE  Set(p, r) /\ UNCHANGED <<usage, day>>
  BY <1>0 DEF Begin, disk
<1>d. day \in Nat
  BY BoundsAssumption DEF TypeInv, RestOK, Days
<1>1. ASSUME NEW n \in Names, NEW c \in Contents, Create(p, n, c) \/ Edit(p, n, c) \/ Patch(p, n, c)
      PROVE  PassInv'
  <2>1. PICK op, r, ok :
          /\ Begin(p, op, Guarded(r, ok))
          /\ \/ r = [Called("create", n, "writeFile") EXCEPT !.content = c,
                       !.upd = [Keep EXCEPT !.state = "active"]]
             \/ r = Edited("edit", n, c, "writeFile")
             \/ r = Edited("patch", n, c, "editCheck")
    BY <1>1 DEF Create, Edit, Patch
  <2>2. r \in CallStates /\ r.op # "lifecycle" /\ r.now = 0
    BY <2>1, EditShapes
  <2>3. Guarded(r, ok).now = 0 /\ ~Deciding(Guarded(r, ok))
    BY <2>2, EndNow DEF Guarded, Deciding
  <2> QED
    BY <1>0, <1>d, <2>1, <2>3, EasyPass
<1>2. ASSUME NEW n \in Names, NEW pin \in {"on", "off"},
             Activate(p, n) \/ View(p, n) \/ Archive(p, n) \/ SetPinned(p, n, pin)
      PROVE  PassInv'
  <2>1. PICK op, r :
          /\ Begin(p, op, r)
          /\ \/ r = [Called("activate", n, "resolve") EXCEPT !.upd.use = 1]
             \/ r = [Called("view", n, "resolve") EXCEPT !.upd.view = 1]
             \/ r = [Called("pin", n, "resolve") EXCEPT !.upd.pin = pin]
             \/ r = Called("archive", n, "archive")
    BY <1>2 DEF Activate, View, Archive, SetPinned
  <2>2. r.op # "lifecycle" /\ r.now = 0
    BY <2>1, NamedShapes
  <2> QED
    BY <1>0, <1>d, <2>1, <2>2, EasyPass DEF Deciding
<1>3. CASE Lifecycle(p)
  <2> DEFINE r == [Called("lifecycle", Absent, "life") EXCEPT
                     !.todo = {n \in Names : Exists(n)}, !.now = day]
  <2>1. Begin(p, "lifecycle", r)
    BY <1>3 DEF Lifecycle
  <2>2. r.pc = "life" /\ r.now = day
    BY DEF Called, Idle
  <2> HIDE DEF r
  <2> QED
    BY <1>0, <1>d, <2>1, <2>2, EasyPass DEF Deciding
<1>4. CASE Rollback(p)
  <2> DEFINE r == [Called("rollback", Absent, "clear") EXCEPT !.todo = Present]
  <2>1. Begin(p, "rollback", r)
    BY <1>4 DEF Rollback
  <2>2. r.op = "rollback" /\ r.now = 0
    BY DEF Called, Idle
  <2> HIDE DEF r
  <2> QED
    BY <1>0, <1>d, <2>1, <2>2, EasyPass DEF Deciding
<1>5. "on" \in {"on", "off"}
  OBVIOUS
<1> QED
  BY <1>1, <1>2, <1>3, <1>4, <1>5 DEF Call

(* A call that ends here, or one of a pass that goes on to the next skill.  *)
LEMMA EndPass ==
  ASSUME TypeInv, PassInv, Alone, NEW p \in Procs, NEW ok,
         Set(p, Ended(proc[p], ok)) \/ Set(p, Recorded(proc[p], ok)),
         UNCHANGED <<usage, day>>
  PROVE  PassInv'
<1>1. proc[p] \in CallStates /\ proc[p].now <= day
  BY DEF TypeInv, ProcOK, PassInv, Decided
<1>2. /\ Ended(proc[p], ok).now <= day /\ ~Deciding(Ended(proc[p], ok))
      /\ Recorded(proc[p], ok).now <= day /\ ~Deciding(Recorded(proc[p], ok))
  BY <1>1, EndNow
<1> QED
  BY <1>2, EasyPass

LEMMA EditPass ==
  ASSUME TypeInv, SeqInv, PassInv, Alone, NEW p \in Procs,
         EditCheck(p) \/ WriteFile(p) \/ WriteFileFails(p) \/ Return(p)
  PROVE  PassInv'
<1>0. /\ proc[p] \in CallStates /\ Shape(proc[p]) /\ proc[p].now <= day /\ day \in Nat
      /\ UNCHANGED <<usage, day>>
  BY BoundsAssumption
  DEF TypeInv, ProcOK, RestOK, Days, SeqInv, CallInv, PassInv, Decided, EditCheck, WriteFile,
      WriteFileFails, Return, disk
<1>1. CASE EditCheck(p)
  <2>1. PICK r, ok : r = [proc[p] EXCEPT !.pc = "writeFile"] /\ Set(p, Guarded(r, ok))
    BY <1>1 DEF EditCheck
  <2>2. r \in CallStates /\ r.pc = "writeFile" /\ r.now = proc[p].now
    BY <1>0, <2>1 DEF CallStates, Labels
  <2>3. ~Deciding(r) /\ ~Deciding(Ended(r, FALSE)) /\ Ended(r, FALSE).now = r.now
    BY <2>2, EndNow DEF Deciding
  <2> QED
    BY <1>0, <2>1, <2>2, <2>3, EasyPass DEF Guarded
<1>2. CASE WriteFile(p)
  <2> DEFINE r == [proc[p] EXCEPT !.pc = "resolve"]
  <2>1. r.op = proc[p].op /\ r.now = proc[p].now
    BY <1>0 DEF CallStates
  <2>2. Set(p, r) /\ proc[p].op # "lifecycle"
    BY <1>0, <1>2 DEF WriteFile, Goto, At, Shape
  <2> HIDE DEF r
  <2> QED
    BY <1>0, <2>1, <2>2, EasyPass DEF Deciding
<1>3. CASE WriteFileFails(p)
  BY <1>0, <1>3, EndPass DEF WriteFileFails, Fail
<1>4. CASE Return(p)
  <2>1. Set(p, Idle) /\ Idle.now <= day /\ ~Deciding(Idle)
    BY <1>0, <1>4 DEF Return, Idle, Deciding
  <2> QED
    BY <1>0, <2>1, EasyPass
<1> QED
  BY <1>1, <1>2, <1>3, <1>4

LEMMA RecordPass ==
  ASSUME TypeInv, PassInv, Alone, NEW p \in Procs,
         Resolve(p) \/ Open(p) \/ Lock(p) \/ LoadFails(p) \/ RecordFails(p)
  PROVE  PassInv'
<1>0. proc[p] \in CallStates /\ Decided(proc[p]) /\ UNCHANGED <<usage, day>>
  BY DEF TypeInv, ProcOK, PassInv, Resolve, Open, Lock, LoadFails, RecordFails, disk
<1>1. ASSUME NEW r, Set(p, r), r.pc \in {"open", "lock", "write"},
             proc[p].pc \in {"resolve", "open", "lock"},
             r.op = proc[p].op, r.upd = proc[p].upd, r.name = proc[p].name, r.now = proc[p].now
      PROVE  PassInv'
  <2>1. Decided(r)
    BY <1>0, <1>1 DEF Decided, Deciding, Unused
  <2> QED
    BY <1>0, <1>1, <2>1, SamePass
<1>2. CASE Resolve(p) /\ Exists(proc[p].name)
  <2> DEFINE r == [proc[p] EXCEPT !.pc = "open"]
  <2>1. /\ r.pc = "open" /\ r.op = proc[p].op /\ r.upd = proc[p].upd
        /\ r.name = proc[p].name /\ r.now = proc[p].now
    BY <1>0 DEF CallStates
  <2>2. Set(p, r) /\ proc[p].pc = "resolve"
    BY <1>2 DEF Resolve, Goto, At
  <2> HIDE DEF r
  <2> QED
    BY <1>1, <2>1, <2>2
<1>3. CASE Open(p)
  <2> DEFINE r == [proc[p] EXCEPT !.pc = "lock", !.fd = lock']
  <2>1. /\ r.pc = "lock" /\ r.op = proc[p].op /\ r.upd = proc[p].upd
        /\ r.name = proc[p].name /\ r.now = proc[p].now
    BY <1>0 DEF CallStates
  <2>2. Set(p, r) /\ proc[p].pc = "open"
    BY <1>3 DEF Open, At
  <2> HIDE DEF r
  <2> QED
    BY <1>1, <2>1, <2>2
<1>4. CASE Lock(p) \/ LoadFails(p)
  <2>1. PICK u : Set(p, [proc[p] EXCEPT !.pc = "write", !.root = u])
    BY <1>4 DEF Lock, LoadFails
  <2> DEFINE r == [proc[p] EXCEPT !.pc = "write", !.root = u]
  <2>2. /\ r.pc = "write" /\ r.op = proc[p].op /\ r.upd = proc[p].upd
        /\ r.name = proc[p].name /\ r.now = proc[p].now
    BY <1>0 DEF CallStates
  <2>3. Set(p, r) /\ proc[p].pc = "lock"
    BY <1>4, <2>1 DEF Lock, LoadFails, At
  <2> HIDE DEF r
  <2> QED
    BY <1>1, <2>2, <2>3
<1>5. CASE Set(p, Recorded(proc[p], FALSE))
  BY <1>0, <1>5, EndPass
<1> QED
  BY <1>2, <1>3, <1>4, <1>5 DEF Resolve, RecordFails

LEMMA ArchivePass ==
  ASSUME TypeInv, PassInv, Alone, NEW p \in Procs,
         ArchiveCheck(p) \/ ArchiveBlind(p) \/ Rename(p) \/ RenameFails(p)
  PROVE  PassInv'
<1>0. proc[p] \in CallStates /\ Decided(proc[p]) /\ UNCHANGED <<usage, day>>
  BY DEF TypeInv, ProcOK, PassInv, ArchiveCheck, ArchiveBlind, Rename, RenameFails, disk
<1>1. CASE ArchiveCheck(p) \/ ArchiveBlind(p)
  <2>1. PICK r, ok : r = Archiving(proc[p]) /\ Set(p, Guarded(r, ok))
    BY <1>1 DEF ArchiveCheck, ArchiveBlind
  <2>a. [Keep EXCEPT !.patch = 1, !.state = "archived"] \in Updates
    BY KeepType DEF States
  <2>2. /\ r \in CallStates /\ r.pc = "resolve" /\ r.op = proc[p].op /\ r.name = proc[p].name
        /\ r.now = proc[p].now
    BY <1>0, <2>1, <2>a DEF Archiving, CallStates, Labels
  <2>3. r.upd.state = "archived" /\ r.upd.use = 0
    BY <1>0, <2>1 DEF Archiving, CallStates, Keep
  <2>4. proc[p].pc = "archive"
    BY <1>1 DEF ArchiveCheck, ArchiveBlind, At
  <2>5. Decided(r)
    BY <1>0, <2>2, <2>3, <2>4 DEF Decided, Deciding, Unused
  <2>6. Ended(r, FALSE).now <= day /\ ~Deciding(Ended(r, FALSE))
    BY <2>2, <2>5, EndNow DEF Decided
  <2>7. CASE ok
    BY <1>0, <2>1, <2>5, <2>7, SamePass DEF Guarded
  <2>8. CASE ~ok
    BY <1>0, <2>1, <2>6, <2>8, EasyPass DEF Guarded
  <2> QED
    BY <2>7, <2>8
<1>2. CASE Rename(p) \/ RenameFails(p)
  <2>1. PICK ok : Set(p, Ended(proc[p], ok))
    BY <1>2 DEF Rename, RenameFails, Fail
  <2> QED
    BY <1>0, <2>1, EndPass
<1> QED
  BY <1>1, <1>2

LEMMA DecisionAge ==
  ASSUME NEW rec, NEW now
  PROVE  /\ Decision(rec, now) \in {"leave", "archive", "stale"}
         /\ Decision(rec, now) = "archive" => rec # Absent /\ now - Activity(rec) >= ArchiveAfter
         /\ Decision(rec, now) = "stale" => rec # Absent /\ now - Activity(rec) >= StaleAfter
  BY DEF Decision

LEMMA LifecyclePass ==
  ASSUME TypeInv, PassInv, Alone, NEW p \in Procs,
         (\E n \in Names : LifecycleNext(p, n)) \/ LifecycleEnd(p)
  PROVE  PassInv'
<1>0. proc[p] \in CallStates /\ proc[p].now <= day /\ UNCHANGED <<usage, day>>
  BY DEF TypeInv, ProcOK, PassInv, Decided, LifecycleNext, LifecycleEnd, disk
<1>1. CASE LifecycleEnd(p)
  <2> DEFINE r == [proc[p] EXCEPT !.pc = "done"]
  <2>1. r.pc = "done" /\ r.now = proc[p].now
    BY <1>0 DEF CallStates
  <2>2. Set(p, r)
    BY <1>1 DEF LifecycleEnd, Goto
  <2> HIDE DEF r
  <2> QED
    BY <1>0, <2>1, <2>2, EasyPass DEF Deciding
<1>2. ASSUME NEW n \in Names, LifecycleNext(p, n) PROVE PassInv'
  <2> DEFINE r == [proc[p] EXCEPT !.todo = @ \ {n}]
             d == Decision(usage[n], r.now)
  <2>1. r \in CallStates /\ r.pc = proc[p].pc /\ proc[p].pc = "life" /\ r.now = proc[p].now
    BY <1>0, <1>2 DEF CallStates, LifecycleNext, At
  <2>2. Set(p, CASE ~Exists(n)     -> [r EXCEPT !.ok = FALSE]
                 [] Exists(n) /\ d = "leave"   -> r
                 [] Exists(n) /\ d = "archive" -> [r EXCEPT !.pc = "archive", !.name = n]
                 [] Exists(n) /\ d = "stale"   ->
                      [r EXCEPT !.pc = "resolve", !.name = n,
                                !.upd = [Keep EXCEPT !.state = "stale"]])
    BY <1>2 DEF LifecycleNext
  <2>3. /\ d \in {"leave", "archive", "stale"}
        /\ d = "archive" => usage[n] # Absent /\ r.now - Activity(usage[n]) >= ArchiveAfter
        /\ d = "stale" => usage[n] # Absent /\ r.now - Activity(usage[n]) >= StaleAfter
    BY DecisionAge
  <2> HIDE DEF r, d
  <2> DEFINE r1 == [r EXCEPT !.ok = FALSE]
             r2 == [r EXCEPT !.pc = "archive", !.name = n]
             r3 == [r EXCEPT !.pc = "resolve", !.name = n, !.upd = [Keep EXCEPT !.state = "stale"]]
  <2>4. /\ r1.pc = "life" /\ r1.now = r.now
        /\ r2.pc = "archive" /\ r2.name = n /\ r2.now = r.now
        /\ r3.pc = "resolve" /\ r3.name = n /\ r3.now = r.now
        /\ r3.upd.state = "stale" /\ r3.upd.use = 0
    BY <2>1 DEF CallStates, Keep
  <2>5. \/ Set(p, r1) \/ Set(p, r)
        \/ Set(p, r2) /\ d = "archive"
        \/ Set(p, r3) /\ d = "stale"
    BY <2>2, <2>3
  <2> HIDE DEF r1, r2, r3
  <2>6. CASE Set(p, r1) \/ Set(p, r)
    BY <1>0, <2>1, <2>4, <2>6, EasyPass DEF Deciding
  <2>7. CASE Set(p, r2) /\ d = "archive"
    <3>1. Decided(r2)
      BY <1>0, <2>1, <2>3, <2>4, <2>7 DEF Decided, Unused
    <3> QED
      BY <1>0, <2>7, <3>1, SamePass
  <2>8. CASE Set(p, r3) /\ d = "stale"
    <3>1. Decided(r3)
      BY <1>0, <2>1, <2>3, <2>4, <2>8 DEF Decided, Unused
    <3> QED
      BY <1>0, <2>8, <3>1, SamePass
  <2> QED
    BY <2>5, <2>6, <2>7, <2>8
<1> QED
  BY <1>1, <1>2

(* A record stays dated when it is updated.                                 *)
LEMMA UpdatedDated ==
  ASSUME day \in Days, NEW rec \in Records \cup {Absent}, NEW u \in Updates,
         rec # Absent => DatedRecord(rec)
  PROVE  DatedRecord(Updated(rec, u))
<1>0. day \in Nat /\ Absent \notin Nat /\ Absent \notin Records
  BY AbsentAssumption, BoundsAssumption DEF Days
<1>1. /\ Updated(rec, u).created = IF rec = Absent THEN day ELSE rec.created
      /\ Updated(rec, u).used = IF u.use = 1 THEN day
                                ELSE IF rec = Absent THEN Absent ELSE rec.used
  BY UpdatedFields
<1>2. CASE rec = Absent
  BY <1>0, <1>1, <1>2 DEF DatedRecord
<1>3. CASE rec \in Records
  <2>1. DatedRecord(rec) /\ rec # Absent
    BY <1>0, <1>3
  <2> QED
    BY <1>0, <1>1, <2>1 DEF DatedRecord
<1> QED
  BY <1>2, <1>3

LEMMA WritePass ==
  ASSUME TypeInv, LockInv, SeqInv, PassInv, Alone, NEW p \in Procs, Write(p)
  PROVE  PassInv'
<1>0. /\ proc[p] \in CallStates /\ Decided(proc[p]) /\ usage \in Usages /\ day \in Days /\ Dated
      /\ Absent \notin Records
  BY AbsentAssumption DEF TypeInv, ProcOK, DiskOK, RestOK, PassInv
<1>n. PICK n : n = proc[p].name
  OBVIOUS
<1>1. /\ n \in Names /\ proc[p].upd \in Updates /\ day' = day
      /\ Set(p, Recorded(proc[p], TRUE))
      /\ usage'[n] \in {Updated(usage[n], proc[p].upd), Updated(Absent, proc[p].upd)}
      /\ \A m \in Names \ {n} : usage'[m] \in {usage[m], Absent}
  BY <1>n, WriteEffect
<1>2. usage[n] \in Records \cup {Absent} /\ (usage[n] # Absent => DatedRecord(usage[n]))
  BY <1>0, <1>1 DEF Usages, Dated
<1>3. DatedRecord(Updated(usage[n], proc[p].upd)) /\ DatedRecord(Updated(Absent, proc[p].upd))
  BY <1>0, <1>1, <1>2, UpdatedDated
<1>4. DatedRecord(usage'[n])
  BY <1>1, <1>3
<1>5. Dated'
  <2> SUFFICES ASSUME NEW m \in Names, usage'[m] # Absent PROVE DatedRecord(usage[m])'
    BY DEF Dated
  <2>1. DatedRecord(usage'[m])
    BY <1>0, <1>1, <1>4 DEF Dated
  <2> QED
    BY <1>1, <2>1 DEF DatedRecord
<1>6. PICK r : r = Recorded(proc[p], TRUE)
  OBVIOUS
<1>7. r.now = proc[p].now /\ ~Deciding(r)
  BY <1>0, <1>6, EndNow
<1>8. Decided(r)'
  BY <1>0, <1>1, <1>7 DEF Decided, Deciding
<1> QED
  BY <1>1, <1>5, <1>6, <1>8, PassStep

LEMMA PutDated ==
  ASSUME day \in Nat, SnapshotDated, Dated, day' = day, NEW e, NEW f, NEW a, NEW u, Put(e, f, a, u),
         u \in {NoUsage, Snapshot.usage}
  PROVE  Dated'
<1>1. \A n \in Names : usage'[n] \in {usage[n], Absent, Snapshot.usage[n]}
  BY DEF Put, NoUsage
<1> QED
  BY <1>1 DEF Dated, DatedRecord, SnapshotDated

(* A rollback, or the kill of one, touches no decision of a pass.           *)
LEMMA RollbackPass ==
  ASSUME TypeInv, SeqInv, PassInv, Alone, SnapshotDated, NEW p \in Procs,
         \/ \E e \in Entries : Clear(p, e) \/ ClearFails(p, e) \/ Restore(p, e) \/ RestoreFails(p, e)
         \/ ClearEnd(p) \/ RestoreEnd(p) \/ Crash(p)
  PROVE  PassInv'
<1>a. day' = day
  BY DEF Clear, ClearFails, Restore, RestoreFails, ClearEnd, RestoreEnd, Crash
<1>0. /\ proc[p] \in CallStates /\ Shape(proc[p]) /\ Decided(proc[p]) /\ Dated
      /\ day \in Nat /\ day' = day
  BY <1>a, BoundsAssumption DEF TypeInv, ProcOK, RestOK, Days, SeqInv, CallInv, PassInv
<1>1. Dated'
  <2>1. CASE UNCHANGED usage
    BY <1>0, <2>1, SameDates
  <2>2. ASSUME NEW e, NEW f, NEW a, NEW u \in {NoUsage, Snapshot.usage}, Put(e, f, a, u)
        PROVE  Dated'
    BY <1>0, <2>2, PutDated
  <2> QED
    BY <2>1, <2>2
    DEF Clear, ClearFails, Restore, FromSnapshot, RestoreFails, ClearEnd, RestoreEnd, Crash, disk
<1>2. ASSUME NEW r, Set(p, r), r.now <= day, r.op # "lifecycle" PROVE PassInv'
  <2>1. Decided(r)'
    BY <1>0, <1>2 DEF Decided, Deciding
  <2> QED
    BY <1>1, <1>2, <2>1, PassStep
<1>3. CASE Crash(p)
  <2>1. Set(p, Idle) /\ Idle.now <= day /\ Idle.op # "lifecycle"
    BY <1>0, <1>3 DEF Crash, Idle
  <2> QED
    BY <1>2, <2>1
<1>4. CASE ~Crash(p)
  <2>1. proc[p].op = "rollback" /\ proc[p].now <= day
    BY <1>0, <1>4 DEF Shape, Decided, At, Clear, ClearFails, Restore, RestoreFails, ClearEnd, RestoreEnd
  <2>2. ASSUME NEW l, NEW t, NEW k
        PROVE  /\ Ended(proc[p], k).now = proc[p].now /\ Ended(proc[p], k).op = "rollback"
               /\ [proc[p] EXCEPT !.todo = t].now = proc[p].now
               /\ [proc[p] EXCEPT !.todo = t].op = "rollback"
               /\ [proc[p] EXCEPT !.todo = t, !.ok = k].now = proc[p].now
               /\ [proc[p] EXCEPT !.todo = t, !.ok = k].op = "rollback"
               /\ [proc[p] EXCEPT !.pc = l, !.todo = t].now = proc[p].now
               /\ [proc[p] EXCEPT !.pc = l, !.todo = t].op = "rollback"
               /\ [proc[p] EXCEPT !.pc = l].now = proc[p].now
               /\ [proc[p] EXCEPT !.pc = l].op = "rollback"
    BY <1>0, <2>1 DEF Ended, CallStates
  <2>3. ASSUME NEW e \in Entries, Clear(p, e) \/ Restore(p, e) PROVE PassInv'
    <3>1. Set(p, [proc[p] EXCEPT !.todo = @ \ {e}])
      BY <2>3 DEF Clear, Restore
    <3> QED
      BY <1>2, <2>1, <2>2, <3>1
  <2>4. ASSUME NEW e \in Entries, ClearFails(p, e) \/ RestoreFails(p, e) PROVE PassInv'
    <3> DEFINE r == [proc[p] EXCEPT !.todo = @ \ {e}, !.ok = FALSE]
    <3>1. Set(p, r)
      BY <2>4 DEF ClearFails, RestoreFails
    <3>2. r.now = proc[p].now /\ r.op = "rollback"
      BY <2>2
    <3> HIDE DEF r
    <3> QED
      BY <1>2, <2>1, <3>1, <3>2
  <2>5. CASE ClearEnd(p)
    <3>1. CASE proc[p].ok
      <4>1. Set(p, [proc[p] EXCEPT !.pc = "restore", !.todo = InSnapshot])
        BY <2>5, <3>1 DEF ClearEnd
      <4> QED
        BY <1>2, <2>1, <2>2, <4>1
    <3>2. CASE ~proc[p].ok
      <4>1. Set(p, Ended(proc[p], FALSE))
        BY <2>5, <3>2 DEF ClearEnd
      <4> QED
        BY <1>2, <2>1, <2>2, <4>1
    <3> QED
      BY <3>1, <3>2
  <2>6. CASE RestoreEnd(p)
    <3>1. Set(p, [proc[p] EXCEPT !.pc = "done"])
      BY <2>6 DEF RestoreEnd, Goto
    <3> QED
      BY <1>2, <2>1, <2>2, <3>1
  <2> QED
    BY <1>4, <2>3, <2>4, <2>5, <2>6
<1> QED
  BY <1>3, <1>4

LEMMA NextPass ==
  ASSUME Alone, SnapshotDated
  PROVE  TypeInv /\ LockInv /\ SeqInv /\ PassInv /\ [Next]_vars => PassInv'
<1> SUFFICES ASSUME TypeInv, LockInv, SeqInv, PassInv, [Next]_vars PROVE PassInv'
  OBVIOUS
<1>1. ASSUME NEW p \in Procs, Call(p) PROVE PassInv'
  BY <1>1, CallPass
<1>2. ASSUME NEW p \in Procs, Step(p) PROVE PassInv'
  BY <1>2, EditPass, RecordPass, WritePass, ArchivePass, LifecyclePass, RollbackPass DEF Step
<1>3. ASSUME NEW p \in Procs, Lock(p) \/ LoadFails(p) PROVE PassInv'
  BY <1>3, RecordPass
<1>4. ASSUME NEW p \in Procs, Crash(p) PROVE PassInv'
  BY <1>4, RollbackPass
<1>5. CASE NextDay \/ UNCHANGED vars
  <2>1. UNCHANGED <<usage, proc>> /\ (day' = day \/ day' = day + 1)
    BY <1>5 DEF NextDay, vars, disk
  <2>2. /\ day \in Nat /\ proc \in [Procs -> CallStates] /\ usage \in Usages
        /\ Absent \notin Records /\ Days \subseteq Nat
    BY AbsentAssumption, BoundsAssumption DEF TypeInv, RestOK, ProcOK, DiskOK, Days
  <2>3. Dated'
    <3> SUFFICES ASSUME NEW n \in Names, usage[n] # Absent PROVE DatedRecord(usage[n])'
      BY <2>1 DEF Dated
    <3>1. DatedRecord(usage[n])
      BY DEF PassInv, Dated
    <3>2. usage[n].created \in Nat /\ usage[n].used \in Nat \cup {Absent}
      BY <2>2 DEF Usages, Records
    <3> QED
      BY <2>1, <2>2, <3>1, <3>2 DEF DatedRecord
  <2>4. ASSUME NEW p \in Procs PROVE Decided(proc[p])'
    <3>1. proc[p].now \in Nat
      BY <2>2 DEF CallStates
    <3>2. proc'[p] = proc[p]
      BY <2>1
    <3>3. Decided(proc[p])
      BY DEF PassInv
    <3> QED
      BY <2>1, <2>2, <3>1, <3>2, <3>3 DEF Decided, Deciding, Unused
  <2> QED
    BY <2>3, <2>4 DEF PassInv
<1> QED
  BY <1>1, <1>2, <1>3, <1>4, <1>5 DEF Next

(* Only a writer and a rollback change the sidecar.                         *)
LEMMA UsageChanges ==
  ASSUME TypeInv, [Next]_vars, usage' # usage
  PROVE  \E p \in Procs : Write(p) \/ proc[p].pc \in {"clear", "restore"}
<1>1. ASSUME NEW p \in Procs, Call(p) PROVE FALSE
  BY <1>1 DEF Call, Create, Edit, Patch, Activate, View, SetPinned, Archive, Lifecycle, Rollback,
              Begin, disk
<1>2. ASSUME NEW p \in Procs, NEW e, Clear(p, e) \/ Restore(p, e) \/ RestoreFails(p, e)
      PROVE  proc[p].pc \in {"clear", "restore"}
  BY <1>2 DEF Clear, Restore, RestoreFails, At
<1>3. ASSUME NEW p \in Procs, Crash(p)
      PROVE  proc[p].pc \in {"clear", "restore"}
  BY <1>3 DEF Crash, At, disk
<1>4. ASSUME NEW p \in Procs,
             \/ EditCheck(p) \/ WriteFile(p) \/ WriteFileFails(p) \/ Return(p)
             \/ Resolve(p) \/ Open(p) \/ Lock(p) \/ LoadFails(p) \/ RecordFails(p)
             \/ ArchiveCheck(p) \/ ArchiveBlind(p) \/ Rename(p) \/ RenameFails(p)
             \/ (\E m \in Names : LifecycleNext(p, m)) \/ LifecycleEnd(p)
             \/ (\E e \in Entries : ClearFails(p, e)) \/ ClearEnd(p) \/ RestoreEnd(p)
      PROVE  FALSE
  BY <1>4 DEF EditCheck, WriteFile, WriteFileFails, Return, Resolve, Open, Lock, LoadFails,
              RecordFails, ArchiveCheck, ArchiveBlind, Rename, RenameFails, LifecycleNext,
              LifecycleEnd, ClearFails, ClearEnd, RestoreEnd, disk
<1>5. CASE NextDay \/ UNCHANGED vars
  BY <1>5 DEF NextDay, vars, disk
<1> QED
  BY <1>1, <1>2, <1>3, <1>4, <1>5 DEF Next, Step

(* A lifecycle pass takes away no skill that was in use within the window:  *)
(* between the decision of skill_lifecycle_apply and the write of the       *)
(* record nothing is used, and the last activity is the latest date of the  *)
(* record.                                                                  *)
THEOREM PassSparesUsed ==
  ASSUME Alone, Reliable, SnapshotDated
  PROVE  Spec => LifecycleSparesUsed
<1>1. TypeInv /\ LockInv /\ SeqInv /\ PassInv /\ [Next]_vars =>
        [\A p \in Procs, n \in Names :
           proc[p].op = "lifecycle" /\ proc[p].pc = "write" /\ usage'[n] # usage[n] =>
             \A touched \in {usage[n].created, usage[n].used} \ {Absent} :
               day - touched >=
                 (IF usage'[n].state = "stale" THEN StaleAfter ELSE ArchiveAfter)]_vars
  <2> SUFFICES ASSUME TypeInv, LockInv, SeqInv, PassInv, [Next]_vars, NEW p \in Procs, NEW n \in Names,
                      proc[p].op = "lifecycle", proc[p].pc = "write", usage'[n] # usage[n],
                      NEW touched \in {usage[n].created, usage[n].used} \ {Absent}
               PROVE  day - touched >=
                        (IF usage'[n].state = "stale" THEN StaleAfter ELSE ArchiveAfter)
    OBVIOUS
  <2>1. Write(p)
    <3>1. PICK q \in Procs : Write(q) \/ proc[q].pc \in {"clear", "restore"}
      BY UsageChanges
    <3>2. q = p
      BY DEF Alone
    <3> QED
      BY <3>1, <3>2
  <2>2. n = proc[p].name
    <3>1. PICK m : m = proc[p].name
      OBVIOUS
    <3>2. \A k \in Names \ {m} : usage'[k] = usage[k]
      BY <2>1, <3>1, WriteEffect
    <3> QED
      BY <3>1, <3>2
  <2>3. usage'[n] = Updated(usage[n], proc[p].upd)
    BY <2>1, <2>2, WriteEffect
  <2>4. /\ proc[p].now <= day /\ proc[p].upd.use = 0 /\ proc[p].upd.state \in {"stale", "archived"}
        /\ Unused(proc[p], IF proc[p].upd.state = "stale" THEN StaleAfter ELSE ArchiveAfter)
    BY DEF PassInv, Decided, Deciding
  <2>5. usage'[n].state = proc[p].upd.state
    BY <2>3, <2>4, UpdatedFields
  <2>6. /\ usage[n] # Absent
        /\ proc[p].now - Activity(usage[n]) >=
             (IF usage'[n].state = "stale" THEN StaleAfter ELSE ArchiveAfter)
    BY <2>2, <2>4, <2>5 DEF Unused
  <2>7. /\ usage[n].created \in Nat /\ usage[n].used \in Nat \cup {Absent}
        /\ proc[p].now \in Nat /\ day \in Nat /\ StaleAfter \in Nat /\ ArchiveAfter \in Nat
    <3>1. usage[n] \in Records /\ proc[p] \in CallStates /\ day \in Days /\ Days \subseteq Nat
      BY <2>6, BoundsAssumption DEF TypeInv, DiskOK, Usages, ProcOK, RestOK, Days
    <3> QED
      BY <3>1, BoundsAssumption DEF Records, CallStates
  <2>8. touched \in Nat /\ Activity(usage[n]) \in Nat /\ touched <= Activity(usage[n])
    BY <2>6, <2>7 DEF PassInv, Dated, DatedRecord, Activity
  <2> QED
    BY <2>4, <2>6, <2>7, <2>8
<1>2. TypeInv /\ LockInv /\ SeqInv /\ PassInv /\ [Next]_vars => PassInv'
  BY NextPass
<1>3. Init => PassInv
  BY InitPass
<1> QED
  BY <1>1, <1>2, <1>3, SeqHolds, PTL DEF Spec, LifecycleSparesUsed

=============================================================================
