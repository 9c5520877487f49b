-------------------------- MODULE SkillStoreProofs --------------------------
(***************************************************************************)
(* Theorems about the skill store, for any sets of names, processes and     *)
(* contents, any snapshot and any bounds.                                   *)
(***************************************************************************)
EXTENDS SkillStore, TLAPS

-----------------------------------------------------------------------------
(* Types.                                                                   *)

(* The type of the call of one process; what a rollback has left to do are  *)
(* entries of the directory, which TypeOK does not say.                     *)
CallOK(r) ==
  /\ r \in CallStates
  /\ r.pc \in {"editCheck", "writeFile", "resolve", "open", "lock", "write",
               "archive", "rename"} => r.name \in Names
  /\ r.pc \in {"editCheck", "writeFile"} => r.content \in Contents
  /\ r.pc \in {"clear", "restore"} => r.todo \subseteq Entries

DiskOK ==
  /\ file \in [Names -> Files] /\ archive \in [Names -> Files]
  /\ usage \in Usages
  /\ inode \in Nat /\ lock \in Nat \cup {Absent}

RestOK ==
  /\ day \in Days
  /\ counted \in [Names -> Counts] /\ cut \in BOOLEAN
  /\ calls \in Nat /\ crashes \in Nat /\ ioErrors \in Nat /\ badReads \in Nat

ProcOK == proc \in [Procs -> CallStates] /\ \A p \in Procs : CallOK(proc[p])

TypeInv == DiskOK /\ RestOK /\ ProcOK

LEMMA TypeImplied == TypeInv => TypeOK
  BY DEF TypeInv, TypeOK, DiskOK, RestOK, ProcOK, CallOK

LEMMA KeepType ==
  /\ Keep \in Updates
  /\ \A s \in States, k \in {0, 1} : [Keep EXCEPT !.patch = k, !.state = s] \in Updates
  /\ \A s \in States : [Keep EXCEPT !.state = s] \in Updates
  BY DEF Keep, Updates

LEMMA IdleType == CallOK(Idle)
<1>1. 0 \in Days /\ "idle" \in Labels /\ {} \in SUBSET (Names \cup Entries)
  BY BoundsAssumption DEF Days, Labels
<1>2. Idle \in CallStates
  BY <1>1, KeepType DEF CallStates, Idle
<1> QED
  BY <1>2 DEF CallOK, Idle

LEMMA EndedType ==
  ASSUME NEW r \in CallStates, NEW ok \in BOOLEAN
  PROVE  CallOK(Ended(r, ok)) /\ Ended(r, ok).pc \in {"life", "done"}
  BY KeepType DEF CallStates, CallOK, Ended, Labels

LEMMA SetType ==
  ASSUME ProcOK, NEW p \in Procs, NEW r, CallOK(r), Set(p, r)
  PROVE  ProcOK'
  BY DEF ProcOK, CallOK, Set
LEMMA GuardedType ==
  ASSUME NEW r, CallOK(r), NEW ok
  PROVE  CallOK(Guarded(r, ok))
  BY EndedType DEF Guarded, CallOK

LEMMA RecordedType ==
  ASSUME NEW r \in CallStates, r.name \in Names, NEW ok \in BOOLEAN
  PROVE  CallOK(Recorded(r, ok))
<1>1. CallOK([r EXCEPT !.pc = "rename", !.fd = Absent, !.root = Absent])
  BY DEF CallStates, CallOK, Labels
<1> QED
  BY <1>1, EndedType DEF Recorded

LEMMA CountsOfType ==
  ASSUME NEW u \in Usages
  PROVE  CountsOf(u) \in [Names -> Counts]
<1>1. \A n \in Names : NoCounts[n] \in Counts
  BY DEF NoCounts, Counts
<1>2. ASSUME NEW n \in Names, u[n] # Absent
      PROVE  [use |-> u[n].use, view |-> u[n].view, patch |-> u[n].patch] \in Counts
  <2>1. u[n] \in Records
    BY <1>2 DEF Usages
  <2> QED
    BY <2>1 DEF Records, Counts
<1> QED
  BY <1>1, <1>2 DEF CountsOf

LEMMA NoUsageType == NoUsage \in Usages /\ NoCounts \in [Names -> Counts]
  BY DEF NoUsage, Usages, NoCounts, Counts

LEMMA UpdatedType ==
  ASSUME NEW rec \in Records \cup {Absent}, NEW u \in Updates, day \in Days
  PROVE  Updated(rec, u) \in Records
<1> DEFINE r == IF rec = Absent THEN NewRecord ELSE rec
<1>1. NewRecord \in Records
  BY DEF NewRecord, Records, States
<1>2. r \in Records
  BY <1>1
<1> HIDE DEF r
<1>3. /\ u.use \in {0, 1} /\ u.view \in {0, 1} /\ u.patch \in {0, 1}
      /\ u.state \in States \cup {"keep"}
  BY DEF Updates
<1>4. /\ r.use + u.use \in Nat /\ r.view + u.view \in Nat /\ r.patch + u.patch \in Nat
      /\ r.pinned \in BOOLEAN /\ r.state \in States /\ r.created \in Days
      /\ r.used \in Days \cup {Absent}
  BY <1>2, <1>3 DEF Records
<1> DEFINE pin == IF u.pin = "keep" THEN r.pinned ELSE u.pin = "on"
<1>6. pin \in BOOLEAN
  BY <1>4
<1>5. Updated(rec, u) =
        [use |-> r.use + u.use, view |-> r.view + u.view, patch |-> r.patch + u.patch,
         pinned |-> pin,
         state |-> IF u.use = 1 THEN "active"
                   ELSE IF u.state = "keep" THEN r.state ELSE u.state,
         created |-> r.created, used |-> IF u.use = 1 THEN day ELSE r.used]
  BY DEF Updated, r
<1> HIDE DEF pin
<1> QED
  BY <1>3, <1>4, <1>5, <1>6 DEF Records, States

LEMMA EntryTypes ==
  ASSUME NEW e \in Entries
  PROVE  /\ e[1] \in {"file", "archive", "usage", "lock"}
         /\ e[1] \in {"file", "archive"} => e[2] \in Names
  BY DEF Entries

LEMMA SnapshotTypes ==
  /\ Snapshot.file \in [Names -> Files] /\ Snapshot.archive \in [Names -> Files]
  /\ Snapshot.usage \in Usages
  BY SnapshotAssumption DEF Files, Usages

LEMMA PutType ==
  ASSUME DiskOK, RestOK, NEW e \in Entries, NEW f \in Files, NEW a \in Files,
         NEW u \in Usages, Put(e, f, a, u)
  PROVE  /\ file' \in [Names -> Files] /\ archive' \in [Names -> Files]
         /\ usage' \in Usages /\ counted' \in [Names -> Counts] /\ cut' \in BOOLEAN
  BY EntryTypes, CountsOfType DEF Put, DiskOK, RestOK

LEMMA InitTypes == Init => TypeInv
<1> SUFFICES ASSUME Init PROVE TypeInv
  OBVIOUS
<1>1. NoFiles \in [Names -> Files]
  BY DEF NoFiles, Files
<1>2. DiskOK
  BY <1>1, NoUsageType, SnapshotTypes DEF Init, DiskOK
<1>3. RestOK
  <2>1. counted \in [Names -> Counts]
    BY <1>2, CountsOfType DEF Init, DiskOK
  <2>2. day \in Days
    BY BoundsAssumption DEF Init, Days
  <2> QED
    BY <2>1, <2>2 DEF Init, RestOK
<1>4. ProcOK
  BY IdleType DEF Init, ProcOK, CallOK
<1> QED
  BY <1>2, <1>3, <1>4 DEF TypeInv

-----------------------------------------------------------------------------
(* A call begins with a state of its type.                                  *)
LEMMA BeginType ==
  ASSUME TypeInv, NEW p \in Procs, NEW op, NEW r, CallOK(r), Begin(p, op, r)
  PROVE  TypeInv'
<1> USE DEF TypeInv
<1>1. DiskOK' /\ RestOK'
  BY DEF Begin, DiskOK, RestOK, disk, history
<1>2. ProcOK'
  BY SetType DEF Begin
<1> QED
  BY <1>1, <1>2, PTL

LEMMA CalledType ==
  ASSUME NEW op \in Operations, NEW n \in Names \cup {Absent}, NEW l \in Labels
  PROVE  /\ Called(op, n, l) \in CallStates
         /\ Called(op, n, l).pc = l /\ Called(op, n, l).name = n /\ Called(op, n, l).op = op
         /\ Called(op, n, l).upd = Keep
<1>1. Idle \in CallStates /\ Idle.upd = Keep
  BY IdleType DEF CallOK, Idle
<1> QED
  BY <1>1 DEF CallStates, Called

LEMMA CallTypes ==
  ASSUME NEW n \in Names, NEW c \in Contents
  PROVE  /\ CallOK([Called("create", n, "writeFile") EXCEPT !.content = c,
                      !.upd = [Keep EXCEPT !.state = "active"]])
         /\ CallOK(Edited("edit", n, c, "writeFile"))
         /\ CallOK(Edited("patch", n, c, "editCheck"))
<1>1. "active" \in States /\ 1 \in {0, 1}
  BY DEF States
<1>2. ASSUME NEW r \in CallStates, r.name \in Names, NEW u \in Updates,
             r.pc \notin {"clear", "restore"}
      PROVE  CallOK([r EXCEPT !.content = c, !.upd = u])
  BY <1>2 DEF CallOK, CallStates
<1>3. /\ "create" \in Operations /\ "edit" \in Operations /\ "patch" \in Operations
      /\ "writeFile" \in Labels /\ "editCheck" \in Labels
  BY DEF Operations, Labels
<1>4. ASSUME NEW op \in Operations, NEW l \in Labels
      PROVE  /\ Called(op, n, l) \in CallStates /\ Called(op, n, l).name \in Names
             /\ Called(op, n, l).pc = l
  BY <1>4, CalledType
<1>5. /\ [Keep EXCEPT !.state = "active"] \in Updates
      /\ [Keep EXCEPT !.patch = 1, !.state = "active"] \in Updates
  BY <1>1, KeepType
<1>6. CallOK([Called("create", n, "writeFile") EXCEPT !.content = c,
                !.upd = [Keep EXCEPT !.state = "active"]])
  BY <1>2, <1>3, <1>4, <1>5
<1>7. /\ CallOK(Edited("edit", n, c, "writeFile"))
      /\ CallOK(Edited("patch", n, c, "editCheck"))
  BY <1>2, <1>3, <1>4, <1>5 DEF Edited
<1> QED
  BY <1>6, <1>7

LEMMA NamedTypes ==
  ASSUME NEW n \in Names
  PROVE  /\ CallOK([Called("activate", n, "resolve") EXCEPT !.upd.use = 1])
         /\ CallOK([Called("view", n, "resolve") EXCEPT !.upd.view = 1])
         /\ \A pin \in {"on", "off"} :
              CallOK([Called("pin", n, "resolve") EXCEPT !.upd.pin = pin])
         /\ CallOK(Called("archive", n, "archive"))
<1>1. ASSUME NEW r \in CallStates, r.name \in Names,
             r.pc \notin {"editCheck", "writeFile", "clear", "restore"}
      PROVE  /\ CallOK([r EXCEPT !.upd.use = 1]) /\ CallOK([r EXCEPT !.upd.view = 1])
             /\ \A pin \in {"on", "off"} : CallOK([r EXCEPT !.upd.pin = pin])
             /\ CallOK(r)
  BY <1>1 DEF CallOK, CallStates, Updates
<1>2. /\ "activate" \in Operations /\ "view" \in Operations /\ "pin" \in Operations
      /\ "archive" \in Operations /\ "resolve" \in Labels /\ "archive" \in Labels
  BY DEF Operations, Labels
<1>3. ASSUME NEW op \in Operations, NEW l \in Labels
      PROVE  /\ Called(op, n, l) \in CallStates /\ Called(op, n, l).name \in Names
             /\ Called(op, n, l).pc = l
  BY <1>3, CalledType
<1> QED
  BY <1>1, <1>2, <1>3

LEMMA PassTypes ==
  ASSUME day \in Days, NEW t \in SUBSET (Names \cup Entries)
  PROVE  /\ CallOK([Called("lifecycle", Absent, "life") EXCEPT !.todo = t, !.now = day])
         /\ t \subseteq Entries => CallOK([Called("rollback", Absent, "clear") EXCEPT !.todo = t])
<1>1. ASSUME NEW r \in CallStates
      PROVE  /\ r.pc = "life" => CallOK([r EXCEPT !.todo = t, !.now = day])
             /\ r.pc = "clear" /\ t \subseteq Entries => CallOK([r EXCEPT !.todo = t])
  BY DEF CallOK, CallStates
<1>2. /\ "lifecycle" \in Operations /\ "rollback" \in Operations
      /\ "life" \in Labels /\ "clear" \in Labels
  BY DEF Operations, Labels
<1>3. ASSUME NEW op \in Operations, NEW l \in Labels
      PROVE  Called(op, Absent, l) \in CallStates /\ Called(op, Absent, l).pc = l
  BY <1>3, CalledType
<1> QED
  BY <1>1, <1>2, <1>3

LEMMA CallType ==
  ASSUME TypeInv, NEW p \in Procs, Call(p)
  PROVE  TypeInv'
<1>0. day \in Days
  BY DEF TypeInv, RestOK
<1>1. ASSUME NEW n \in Names, NEW c \in Contents, Create(p, n, c) \/ Edit(p, n, c) \/ Patch(p, n, c)
      PROVE  TypeInv'
  BY <1>0, <1>1, CallTypes, GuardedType, BeginType DEF Create, Edit, Patch
<1>2. ASSUME NEW n \in Names, Activate(p, n) \/ View(p, n) \/ Archive(p, n)
      PROVE  TypeInv'
  BY <1>2, NamedTypes, BeginType DEF Activate, View, Archive
<1>3. ASSUME NEW n \in Names, NEW pin \in {"on", "off"}, SetPinned(p, n, pin)
      PROVE  TypeInv'
  BY <1>3, NamedTypes, BeginType DEF SetPinned
<1>4. CASE Lifecycle(p)
  <2>1. {n \in Names : Exists(n)} \in SUBSET (Names \cup Entries)
    OBVIOUS
  <2> QED
    BY <1>0, <1>4, <2>1, PassTypes, BeginType DEF Lifecycle
<1>5. CASE Rollback(p)
  <2>1. Present \in SUBSET (Names \cup Entries) /\ Present \subseteq Entries
    BY DEF Present
  <2> QED
    BY <1>0, <1>5, <2>1, PassTypes, BeginType DEF Rollback
<1> QED
  BY <1>1, <1>2, <1>3, <1>4, <1>5 DEF Call

-----------------------------------------------------------------------------
(* The steps of a call that has begun.                                      *)

(* A step that only moves the call on, or fails and counts the failure.     *)
LEMMA MoveType ==
  ASSUME TypeInv, NEW p \in Procs, NEW r, CallOK(r), Set(p, r),
         UNCHANGED <<disk, day, history>>,
         UNCHANGED bounds \/ IOError \/ BadRead
  PROVE  TypeInv'
<1>1. DiskOK /\ RestOK /\ ProcOK
  BY DEF TypeInv
<1>2. DiskOK'
  BY <1>1 DEF DiskOK, disk
<1>3. RestOK'
  BY <1>1 DEF RestOK, history, bounds, IOError, BadRead
<1>4. ProcOK'
  BY <1>1, SetType
<1> QED
  BY <1>2, <1>3, <1>4 DEF TypeInv

LEMMA EditStepType ==
  ASSUME TypeInv, NEW p \in Procs,
         EditCheck(p) \/ WriteFile(p) \/ WriteFileFails(p) \/ Return(p)
  PROVE  TypeInv'
<1>0. CallOK(proc[p]) /\ proc[p] \in CallStates /\ DiskOK /\ RestOK /\ ProcOK
  BY DEF TypeInv, ProcOK
<1>1. CASE EditCheck(p)
  <2>1. CallOK([proc[p] EXCEPT !.pc = "writeFile"])
    BY <1>0, <1>1 DEF CallOK, CallStates, EditCheck, At, Labels
  <2> QED
    BY <1>1, <2>1, GuardedType, MoveType DEF EditCheck
<1>2. CASE WriteFile(p)
  <2>1. proc[p].name \in Names /\ proc[p].content \in Contents
    BY <1>0, <1>2 DEF CallOK, WriteFile, At
  <2>2. CallOK([proc[p] EXCEPT !.pc = "resolve"])
    BY <1>0, <2>1 DEF CallOK, CallStates, Labels
  <2>3. ProcOK'
    BY <1>0, <1>2, <2>2, SetType DEF WriteFile, Goto
  <2>4. DiskOK' /\ RestOK'
    BY <1>0, <1>2, <2>1 DEF WriteFile, DiskOK, RestOK, Files, history, bounds
  <2> QED
    BY <2>3, <2>4 DEF TypeInv
<1>3. CASE WriteFileFails(p)
  <2>1. CallOK(Ended(proc[p], FALSE))
    BY <1>0, EndedType
  <2> QED
    BY <1>3, <2>1, MoveType DEF WriteFileFails, Fail
<1>4. CASE Return(p)
  BY <1>4, IdleType, MoveType DEF Return
<1> QED
  BY <1>1, <1>2, <1>3, <1>4

LEMMA RecordStepType ==
  ASSUME TypeInv, NEW p \in Procs,
         Resolve(p) \/ Open(p) \/ Lock(p) \/ LoadFails(p) \/ RecordFails(p)
  PROVE  TypeInv'
<1>0. CallOK(proc[p]) /\ proc[p] \in CallStates /\ DiskOK /\ RestOK /\ ProcOK
  BY DEF TypeInv, ProcOK
<1>1. proc[p].name \in Names
  BY <1>0 DEF CallOK, Resolve, Open, Lock, LoadFails, RecordFails, At
<1>2. CallOK(Recorded(proc[p], FALSE))
  BY <1>0, <1>1, RecordedType
<1>3. CASE Resolve(p)
  <2>1. CallOK([proc[p] EXCEPT !.pc = "open"])
    BY <1>0, <1>1 DEF CallOK, CallStates, Labels
  <2> QED
    BY <1>2, <1>3, <2>1, MoveType DEF Resolve, Goto
<1>4. CASE Open(p)
  <2>1. inode' \in Nat /\ lock' \in Nat
    BY <1>0, <1>4 DEF Open, DiskOK
  <2>2. CallOK([proc[p] EXCEPT !.pc = "lock", !.fd = lock'])
    BY <1>0, <1>1, <2>1 DEF CallOK, CallStates, Labels
  <2>3. ProcOK'
    BY <1>0, <1>4, <2>2, SetType DEF Open
  <2>4. DiskOK' /\ RestOK'
    BY <1>0, <1>4, <2>1 DEF Open, DiskOK, RestOK, history, bounds
  <2> QED
    BY <2>3, <2>4 DEF TypeInv
<1>5. CASE Lock(p)
  <2>1. CallOK([proc[p] EXCEPT !.pc = "write", !.root = usage])
    BY <1>0, <1>1 DEF CallOK, CallStates, Labels, DiskOK
  <2> QED
    BY <1>5, <2>1, MoveType DEF Lock
<1>6. CASE LoadFails(p)
  <2>1. CallOK([proc[p] EXCEPT !.pc = "write", !.root = Absent])
    BY <1>0, <1>1 DEF CallOK, CallStates, Labels
  <2> QED
    BY <1>6, <2>1, MoveType DEF LoadFails
<1>7. CASE RecordFails(p)
  BY <1>2, <1>7, MoveType DEF RecordFails
<1> QED
  BY <1>3, <1>4, <1>5, <1>6, <1>7

LEMMA WriteType ==
  ASSUME TypeInv, NEW p \in Procs, Write(p)
  PROVE  TypeInv'
<1>0. CallOK(proc[p]) /\ proc[p] \in CallStates /\ DiskOK /\ RestOK /\ ProcOK
  BY DEF TypeInv, ProcOK
<1>1. proc[p].name \in Names /\ proc[p].upd \in Updates /\ proc[p].root \in Usages \cup {Absent}
  BY <1>0 DEF CallOK, CallStates, Write, At
<1> DEFINE n == proc[p].name
           u == proc[p].upd
           root == IF proc[p].root = Absent THEN NoUsage ELSE proc[p].root
           cnt == IF proc[p].root = Absent THEN NoCounts ELSE counted
<1>2. root \in Usages /\ cnt \in [Names -> Counts]
  BY <1>0, <1>1, NoUsageType DEF RestOK
<1>3. usage' = [root EXCEPT ![n] = Updated(@, u)]
  BY DEF Write
<1>4. counted' = [cnt EXCEPT ![n] = [use |-> @.use + u.use, view |-> @.view + u.view,
                                     patch |-> @.patch + u.patch]]
  BY DEF Write
<1> HIDE DEF root, cnt
<1>5. usage' \in Usages
  <2>1. root[n] \in Records \cup {Absent}
    BY <1>1, <1>2 DEF Usages
  <2>2. Updated(root[n], u) \in Records
    BY <1>0, <1>1, <2>1, UpdatedType DEF RestOK
  <2> QED
    BY <1>2, <1>3, <2>2 DEF Usages
<1>6. counted' \in [Names -> Counts]
  <2>1. cnt[n] \in Counts
    BY <1>1, <1>2
  <2>2. u.use \in {0, 1} /\ u.view \in {0, 1} /\ u.patch \in {0, 1}
    BY <1>1 DEF Updates
  <2>3. [use |-> cnt[n].use + u.use, view |-> cnt[n].view + u.view,
         patch |-> cnt[n].patch + u.patch] \in Counts
    BY <2>1, <2>2 DEF Counts
  <2> QED
    BY <1>2, <1>4, <2>3
<1>7. DiskOK' /\ RestOK'
  BY <1>0, <1>5, <1>6 DEF Write, DiskOK, RestOK, bounds
<1>8. ProcOK'
  <2>1. CallOK(Recorded(proc[p], TRUE))
    BY <1>0, <1>1, RecordedType
  <2> QED
    BY <1>0, <2>1, SetType DEF Write
<1> QED
  BY <1>7, <1>8 DEF TypeInv

LEMMA ArchiveStepType ==
  ASSUME TypeInv, NEW p \in Procs,
         ArchiveCheck(p) \/ ArchiveBlind(p) \/ Rename(p) \/ RenameFails(p)
  PROVE  TypeInv'
<1>0. CallOK(proc[p]) /\ proc[p] \in CallStates /\ DiskOK /\ RestOK /\ ProcOK
  BY DEF TypeInv, ProcOK
<1>1. proc[p].name \in Names
  BY <1>0 DEF CallOK, ArchiveCheck, ArchiveBlind, Rename, RenameFails, At
<1>2. CallOK(Archiving(proc[p]))
  <2>1. [Keep EXCEPT !.patch = 1, !.state = "archived"] \in Updates
    BY KeepType DEF States
  <2> QED
    BY <1>0, <1>1, <2>1 DEF Archiving, CallOK, CallStates, Labels
<1>3. CallOK(Ended(proc[p], TRUE)) /\ CallOK(Ended(proc[p], FALSE))
  BY <1>0, EndedType
<1>4. CASE ArchiveCheck(p) \/ ArchiveBlind(p)
  BY <1>2, <1>4, GuardedType, MoveType DEF ArchiveCheck, ArchiveBlind
<1>5. CASE RenameFails(p)
  BY <1>3, <1>5, MoveType DEF RenameFails, Fail
<1>6. CASE Rename(p)
  <2>1. ProcOK'
    BY <1>0, <1>3, <1>6, SetType DEF Rename, Fail
  <2>2. DiskOK' /\ RestOK'
    BY <1>0, <1>1, <1>6 DEF Rename, DiskOK, RestOK, Files, history, bounds
  <2> QED
    BY <2>1, <2>2 DEF TypeInv
<1> QED
  BY <1>4, <1>5, <1>6

LEMMA PassStepType ==
  ASSUME TypeInv, NEW p \in Procs,
         (\E n \in Names : LifecycleNext(p, n)) \/ LifecycleEnd(p)
  PROVE  TypeInv'
<1>0. CallOK(proc[p]) /\ proc[p] \in CallStates
  BY DEF TypeInv, ProcOK
<1>1. ASSUME NEW n \in Names, LifecycleNext(p, n) PROVE TypeInv'
  <2> DEFINE r == [proc[p] EXCEPT !.todo = @ \ {n}]
             d == Decision(usage[n], r.now)
  <2>1. r \in CallStates /\ r.pc = "life"
    BY <1>0, <1>1 DEF CallStates, LifecycleNext, At
  <2>2. /\ Set(p, CASE ~Exists(n)     -> [r EXCEPT !.ok = FALSE]
                    [] Exists(n) /\ d = "leave"   -> r
                    [] Exists(n) /\ d = "archive" -> [r EXCEPT !.pc = "archive", !.name = n]
                    [] Exists(n) /\ d = "stale"   ->
                         [r EXCEPT !.pc = "resolve", !.name = n,
                                   !.upd = [Keep EXCEPT !.state = "stale"]])
        /\ UNCHANGED <<disk, day, history, bounds>>
    BY <1>1 DEF LifecycleNext
  <2>3. d \in {"leave", "archive", "stale"}
    BY DEF Decision
  <2> HIDE DEF r, d
  <2>4. [Keep EXCEPT !.state = "stale"] \in Updates
    BY KeepType DEF States
  <2>5. /\ CallOK([r EXCEPT !.ok = FALSE]) /\ CallOK(r)
        /\ CallOK([r EXCEPT !.pc = "archive", !.name = n])
        /\ CallOK([r EXCEPT !.pc = "resolve", !.name = n, !.upd = [Keep EXCEPT !.state = "stale"]])
    BY <2>1, <2>4 DEF CallOK, CallStates, Labels
  <2> QED
    BY <2>2, <2>3, <2>5, MoveType
<1>2. CASE LifecycleEnd(p)
  <2>1. CallOK([proc[p] EXCEPT !.pc = "done"])
    BY <1>0 DEF CallOK, CallStates, Labels
  <2> QED
    BY <1>2, <2>1, MoveType DEF LifecycleEnd, Goto
<1> QED
  BY <1>1, <1>2

LEMMA RollbackStepType ==
  ASSUME TypeInv, NEW p \in Procs,
         \/ \E e \in Entries : Clear(p, e) \/ ClearFails(p, e) \/ Restore(p, e) \/ RestoreFails(p, e)
         \/ ClearEnd(p) \/ RestoreEnd(p)
  PROVE  TypeInv'
<1>0. CallOK(proc[p]) /\ proc[p] \in CallStates /\ DiskOK /\ RestOK /\ ProcOK
  BY DEF TypeInv, ProcOK
<1>1. /\ Absent \in Files /\ Torn \in Files /\ NoUsage \in Usages
      /\ Snapshot.usage \in Usages
  BY NoUsageType, SnapshotTypes DEF Files
<1>3. ASSUME NEW e \in Entries, Clear(p, e) PROVE TypeInv'
  <2> DEFINE r == [proc[p] EXCEPT !.todo = @ \ {e}]
  <2>a. Set(p, r) /\ proc[p].pc \in {"clear", "restore"}
    BY <1>3 DEF Clear, At
  <2>b. CallOK(r)
    BY <1>0, <2>a DEF CallOK, CallStates
  <2> HIDE DEF r
  <2>1. ProcOK'
    BY <1>0, <2>a, <2>b, SetType
  <2>2. DiskOK' /\ RestOK'
    <3>1. /\ file' \in [Names -> Files] /\ archive' \in [Names -> Files]
          /\ usage' \in Usages /\ counted' \in [Names -> Counts] /\ cut' \in BOOLEAN
      BY <1>0, <1>1, <1>3, PutType DEF Clear
    <3> QED
      BY <1>0, <1>3, <3>1 DEF Clear, DiskOK, RestOK, bounds
  <2> QED
    BY <2>1, <2>2 DEF TypeInv
<1>4. ASSUME NEW e \in Entries, ClearFails(p, e) PROVE TypeInv'
  <2> DEFINE r == [proc[p] EXCEPT !.todo = @ \ {e}, !.ok = FALSE]
  <2>a. Set(p, r) /\ proc[p].pc \in {"clear", "restore"}
    BY <1>4 DEF ClearFails, At
  <2>b. CallOK(r)
    BY <1>0, <2>a DEF CallOK, CallStates
  <2> HIDE DEF r
  <2> QED
    BY <1>4, <2>a, <2>b, MoveType DEF ClearFails
<1>5. ASSUME NEW e \in Entries, Restore(p, e) PROVE TypeInv'
  <2> DEFINE r == [proc[p] EXCEPT !.todo = @ \ {e}]
  <2>a. Set(p, r) /\ proc[p].pc \in {"clear", "restore"}
    BY <1>5 DEF Restore, At
  <2>b. CallOK(r)
    BY <1>0, <2>a DEF CallOK, CallStates
  <2> HIDE DEF r
  <2>1. ProcOK'
    BY <1>0, <2>a, <2>b, SetType
  <2>2. DiskOK' /\ RestOK'
    <3> DEFINE f == IF e[1] = "file" THEN Snapshot.file[e[2]] ELSE Absent
               a == IF e[1] = "archive" THEN Snapshot.archive[e[2]] ELSE Absent
    <3>1. f \in Files /\ a \in Files
      BY <1>1, EntryTypes, SnapshotTypes
    <3>2. Put(e, f, a, Snapshot.usage)
      BY <1>5 DEF Restore, FromSnapshot
    <3> HIDE DEF f, a
    <3>3. /\ file' \in [Names -> Files] /\ archive' \in [Names -> Files]
          /\ usage' \in Usages /\ counted' \in [Names -> Counts] /\ cut' \in BOOLEAN
      BY <1>0, <1>1, <3>1, <3>2, PutType
    <3> QED
      BY <1>0, <1>5, <3>3 DEF Restore, DiskOK, RestOK, bounds
  <2> QED
    BY <2>1, <2>2 DEF TypeInv
<1>6. ASSUME NEW e \in Entries, RestoreFails(p, e) PROVE TypeInv'
  <2> DEFINE r == [proc[p] EXCEPT !.todo = @ \ {e}, !.ok = FALSE]
  <2>a. Set(p, r) /\ proc[p].pc \in {"clear", "restore"}
    BY <1>6 DEF RestoreFails, At
  <2>b. CallOK(r)
    BY <1>0, <2>a DEF CallOK, CallStates
  <2> HIDE DEF r
  <2>1. ProcOK'
    BY <1>0, <2>a, <2>b, SetType
  <2>2. DiskOK' /\ RestOK'
    <3>1. /\ file' \in [Names -> Files] /\ archive' \in [Names -> Files]
          /\ usage' \in Usages /\ counted' \in [Names -> Counts] /\ cut' \in BOOLEAN
      BY <1>0, <1>1, <1>6, PutType DEF RestoreFails
    <3>2. UNCHANGED <<lock, inode, day, calls, crashes, badReads>> /\ ioErrors' = ioErrors + 1
      BY <1>6 DEF RestoreFails, IOError
    <3> QED
      BY <1>0, <3>1, <3>2 DEF DiskOK, RestOK
  <2> QED
    BY <2>1, <2>2 DEF TypeInv
<1>7. CASE ClearEnd(p)
  <2>1. InSnapshot \in SUBSET (Names \cup Entries) /\ InSnapshot \subseteq Entries
    BY DEF InSnapshot
  <2>2. CallOK([proc[p] EXCEPT !.pc = "restore", !.todo = InSnapshot])
    BY <1>0, <2>1 DEF CallOK, CallStates, Labels
  <2>3. CallOK(Ended(proc[p], FALSE))
    BY <1>0, EndedType
  <2> QED
    BY <1>7, <2>2, <2>3, MoveType DEF ClearEnd
<1>8. CASE RestoreEnd(p)
  <2>1. CallOK([proc[p] EXCEPT !.pc = "done"])
    BY <1>0 DEF CallOK, CallStates, Labels
  <2>2. ProcOK'
    BY <1>0, <1>8, <2>1, SetType DEF RestoreEnd, Goto
  <2>3. cut' \in BOOLEAN
    BY <1>8 DEF RestoreEnd
  <2>4. DiskOK' /\ RestOK'
    BY <1>0, <1>8, <2>3 DEF RestoreEnd, DiskOK, RestOK, disk, bounds
  <2> QED
    BY <2>2, <2>4 DEF TypeInv
<1> QED
  BY <1>3, <1>4, <1>5, <1>6, <1>7, <1>8

LEMMA CrashType ==
  ASSUME TypeInv, NEW p \in Procs, Crash(p)
  PROVE  TypeInv'
<1>0. CallOK(proc[p]) /\ proc[p] \in CallStates /\ DiskOK /\ RestOK /\ ProcOK
  BY DEF TypeInv, ProcOK
<1>1. Torn \in Files /\ NoUsage \in Usages
  BY NoUsageType DEF Files
<1>2. ProcOK'
  BY <1>0, IdleType, SetType DEF Crash
<1>3. ASSUME UNCHANGED <<disk, history>> PROVE DiskOK' /\ RestOK'
  BY <1>0, <1>3 DEF Crash, DiskOK, RestOK, disk, history
<1>4. ASSUME At(p, "restore"), NEW e \in proc[p].todo, Put(e, Torn, Torn, NoUsage), UNCHANGED <<lock, inode>>
      PROVE  DiskOK' /\ RestOK'
  <2>1. e \in Entries => /\ file' \in [Names -> Files] /\ archive' \in [Names -> Files]
                         /\ usage' \in Usages /\ counted' \in [Names -> Counts]
                         /\ cut' \in BOOLEAN
    BY <1>0, <1>1, <1>4, PutType
  <2>2. e \in Entries
    BY <1>0, <1>4 DEF CallOK, At
  <2> QED
    BY <1>0, <1>4, <2>1, <2>2 DEF Crash, DiskOK, RestOK
<1> QED
  BY <1>2, <1>3, <1>4 DEF Crash, TypeInv

LEMMA NextType == TypeInv /\ [Next]_vars => TypeInv'
<1> SUFFICES ASSUME TypeInv, [Next]_vars PROVE TypeInv'
  OBVIOUS
<1>1. ASSUME NEW p \in Procs, Call(p) PROVE TypeInv'
  BY <1>1, CallType
<1>2. ASSUME NEW p \in Procs, Step(p) PROVE TypeInv'
  BY <1>2, EditStepType, RecordStepType, WriteType, ArchiveStepType, PassStepType,
     RollbackStepType
  DEF Step
<1>3. ASSUME NEW p \in Procs, Lock(p) \/ LoadFails(p) PROVE TypeInv'
  BY <1>3, RecordStepType
<1>4. ASSUME NEW p \in Procs, Crash(p) PROVE TypeInv'
  BY <1>4, CrashType
<1>5. CASE NextDay
  BY <1>5, BoundsAssumption
  DEF NextDay, TypeInv, DiskOK, RestOK, ProcOK, CallOK, disk, history, bounds, Days
<1>6. CASE UNCHANGED vars
  BY <1>6
  DEF vars, TypeInv, DiskOK, RestOK, ProcOK, CallOK, disk, history, bounds
<1> QED
  BY <1>1, <1>2, <1>3, <1>4, <1>5, <1>6 DEF Next

LEMMA TypesHold == Spec => []TypeInv
  BY InitTypes, NextType, PTL DEF Spec

(* Every variable has its type, for every set of processes and operations:  *)
(* the disk holds only what some operation puts there, the record a call    *)
(* writes back is a record, and a call that is about to use a name or a     *)
(* body has one, also after an error or a crash anywhere.                   *)
THEOREM TypeCorrect == Spec => []TypeOK
  BY TypesHold, TypeImplied, PTL

-----------------------------------------------------------------------------
(* The sidecar and its lock.                                                *)

Alone == \A p, q \in Procs : p = q
Quiet == "rollback" \notin Ops

Moved(p) == \A q \in Procs \ {p} : proc'[q] = proc[q]

(* Where no rollback removes the lock file, everybody who has opened it has *)
(* the same one open.                                                       *)
SameLock ==
  Quiet => \A p \in Procs : /\ proc[p].pc \notin {"clear", "restore"}
                            /\ proc[p].pc \in {"lock", "write"} =>
                                 lock # Absent /\ proc[p].fd = lock

OneWriter == \A p, q \in Procs : At(p, "write") /\ At(q, "write") => p = q

(* What a writer loaded is what it is going to replace.                     *)
Loaded == \A p \in Procs : At(p, "write") => proc[p].root \in {usage, Absent}

LockInv == SameLock /\ OneWriter /\ Loaded /\ CountersExact

LEMMA InitLock == Init => LockInv
  BY DEF Init, LockInv, SameLock, OneWriter, Loaded, CountersExact, At, Idle

LEMMA SetMoves ==
  ASSUME TypeInv, NEW p \in Procs, NEW r, Set(p, r)
  PROVE  proc'[p] = r /\ Moved(p)
  BY DEF TypeInv, ProcOK, Set, Moved

(* A step into no part of the locked section, and away from it.             *)
LEMMA AwayLock ==
  ASSUME LockInv, NEW p \in Procs, Moved(p), proc'[p].pc \notin {"lock", "write"},
         Quiet => proc'[p].pc \notin {"clear", "restore"} /\ lock' = lock,
         usage' = usage \/ Alone, CountersExact'
  PROVE  LockInv'
<1>1. SameLock'
  BY DEF LockInv, SameLock, Moved
<1>2. OneWriter'
  BY DEF LockInv, OneWriter, Moved, At
<1>3. Loaded'
  BY DEF LockInv, Loaded, Moved, At, Alone
<1> QED
  BY <1>1, <1>2, <1>3 DEF LockInv

LEMMA SameCounts ==
  ASSUME CountersExact, UNCHANGED <<usage, counted>>
  PROVE  CountersExact'
  BY DEF CountersExact, CountsOf

(* The steps that touch neither the sidecar nor its lock.                   *)
LEMMA AsideLock ==
  ASSUME TypeInv, LockInv, NEW p \in Procs, NEW r, Set(p, r),
         r.pc \notin {"lock", "write", "clear", "restore"},
         UNCHANGED <<usage, counted, lock>>
  PROVE  LockInv'
<1>1. proc'[p] = r /\ Moved(p)
  BY SetMoves
<1>2. CountersExact'
  BY SameCounts DEF LockInv
<1> QED
  BY <1>1, <1>2, AwayLock

LEMMA EndLabels ==
  ASSUME NEW r \in CallStates, NEW ok
  PROVE  /\ Ended(r, ok).pc \in {"life", "done"}
         /\ Recorded(r, ok).pc \in {"life", "done", "rename"}
         /\ Guarded(r, ok).pc \in {r.pc, "life", "done"}
<1>1. \A k : Ended(r, k).pc \in {"life", "done"}
  BY DEF Ended, CallStates
<1> QED
  BY <1>1 DEF Recorded, Guarded, CallStates

LEMMA CallLock ==
  ASSUME TypeInv, LockInv, NEW p \in Procs, Call(p), Quiet \/ Alone
  PROVE  LockInv'
<1>0. ASSUME NEW op, NEW r, Begin(p, op, r), r.pc \notin {"lock", "write", "clear", "restore"}
      PROVE  LockInv'
  BY <1>0, AsideLock DEF Begin, disk, history
<1>t. \A r : CallOK(r) => r \in CallStates
  BY DEF CallOK
<1>l. /\ "create" \in Operations /\ "edit" \in Operations /\ "patch" \in Operations
      /\ "activate" \in Operations /\ "view" \in Operations /\ "pin" \in Operations
      /\ "archive" \in Operations /\ "lifecycle" \in Operations /\ "rollback" \in Operations
      /\ {"writeFile", "editCheck", "resolve", "archive", "life", "clear"} \subseteq Labels
  BY DEF Operations, Labels
<1>p. ASSUME NEW op \in Operations, NEW n \in Names \cup {Absent}, NEW l \in Labels
      PROVE  Called(op, n, l) \in CallStates /\ Called(op, n, l).pc = l
  BY CalledType
<1>1. ASSUME NEW n \in Names, NEW c \in Contents, Create(p, n, c)
      PROVE  LockInv'
  <2> DEFINE r == [Called("create", n, "writeFile") EXCEPT !.content = c,
                     !.upd = [Keep EXCEPT !.state = "active"]]
  <2>1. r \in CallStates
    BY <1>t, CallTypes
  <2>a. r.pc = "writeFile"
    BY <1>l, <1>p DEF CallStates
  <2>2. Begin(p, "create", Guarded(r, MayCreate(n, c)))
    BY <1>1 DEF Create
  <2> HIDE DEF r
  <2>3. Guarded(r, MayCreate(n, c)).pc \notin {"lock", "write", "clear", "restore"}
    BY <2>1, <2>a, EndLabels
  <2> QED
    BY <1>0, <2>2, <2>3
<1>2. ASSUME NEW n \in Names, NEW c \in Contents, Edit(p, n, c) \/ Patch(p, n, c)
      PROVE  LockInv'
  <2>1. /\ Edited("edit", n, c, "writeFile") \in CallStates
        /\ Edited("patch", n, c, "editCheck") \in CallStates
    BY <1>t, CallTypes
  <2>2. /\ Edited("edit", n, c, "writeFile").pc = "writeFile"
        /\ Edited("patch", n, c, "editCheck").pc = "editCheck"
    BY <1>l, <1>p DEF Edited, CallStates
  <2>3. \A ok : /\ Guarded(Edited("edit", n, c, "writeFile"), ok).pc \in {"writeFile", "life", "done"}
                /\ Guarded(Edited("patch", n, c, "editCheck"), ok).pc \in {"editCheck", "life", "done"}
    BY <2>1, <2>2, EndLabels
  <2> QED
    BY <1>0, <1>2, <2>3 DEF Edit, Patch
<1>3. ASSUME NEW n \in Names, NEW pin \in {"on", "off"},
             Activate(p, n) \/ View(p, n) \/ Archive(p, n) \/ SetPinned(p, n, pin)
      PROVE  LockInv'
  <2>1. /\ Called("activate", n, "resolve") \in CallStates /\ Called("activate", n, "resolve").pc = "resolve"
        /\ Called("view", n, "resolve") \in CallStates /\ Called("view", n, "resolve").pc = "resolve"
        /\ Called("pin", n, "resolve") \in CallStates /\ Called("pin", n, "resolve").pc = "resolve"
        /\ Called("archive", n, "archive").pc = "archive"
    BY <1>l, <1>p
  <2>2. /\ [Called("activate", n, "resolve") EXCEPT !.upd.use = 1].pc = "resolve"
        /\ [Called("view", n, "resolve") EXCEPT !.upd.view = 1].pc = "resolve"
        /\ [Called("pin", n, "resolve") EXCEPT !.upd.pin = pin].pc = "resolve"
    BY <2>1 DEF CallStates
  <2>3. CASE Activate(p, n)
    BY <1>0, <2>2, <2>3 DEF Activate
  <2>4. CASE View(p, n)
    BY <1>0, <2>2, <2>4 DEF View
  <2>5. CASE SetPinned(p, n, pin)
    BY <1>0, <2>2, <2>5 DEF SetPinned
  <2>6. CASE Archive(p, n)
    BY <1>0, <2>1, <2>6 DEF Archive
  <2> QED
    BY <1>3, <2>3, <2>4, <2>5, <2>6
<1>4. CASE Lifecycle(p)
  <2> DEFINE r == [Called("lifecycle", Absent, "life") EXCEPT
                     !.todo = {n \in Names : Exists(n)}, !.now = day]
  <2>1. r.pc = "life"
    BY <1>l, <1>p DEF CallStates
  <2>2. Begin(p, "lifecycle", r)
    BY <1>4 DEF Lifecycle
  <2> HIDE DEF r
  <2> QED
    BY <1>0, <2>1, <2>2
<1>5. CASE Rollback(p)
  <2> DEFINE r == [Called("rollback", Absent, "clear") EXCEPT !.todo = Present]
  <2>1. r.pc = "clear"
    BY <1>l, <1>p DEF CallStates
  <2>2. Begin(p, "rollback", r)
    BY <1>5 DEF Rollback
  <2> HIDE DEF r
  <2>3. ~Quiet /\ Set(p, r) /\ UNCHANGED <<usage, counted, lock>>
    BY <2>2 DEF Begin, Quiet, disk, history
  <2>4. proc'[p] = r /\ Moved(p) /\ CountersExact'
    BY <2>3, SetMoves, SameCounts DEF LockInv
  <2> QED
    BY <2>1, <2>3, <2>4, AwayLock
<1>6. {"on", "off"} # {}
  OBVIOUS
<1> QED
  BY <1>1, <1>2, <1>3, <1>4, <1>5, <1>6 DEF Call

(* Taking the lock.                                                         *)
LEMMA OpenLock ==
  ASSUME TypeInv, LockInv, NEW p \in Procs, Open(p)
  PROVE  LockInv'
<1> DEFINE r == [proc[p] EXCEPT !.pc = "lock", !.fd = lock']
<1>0. /\ inode \in Nat /\ lock \in Nat \cup {Absent} /\ proc[p] \in CallStates /\ Absent \notin Nat
  BY AbsentAssumption DEF TypeInv, DiskOK, ProcOK
<1>1. Set(p, r) /\ UNCHANGED <<usage, counted>>
  BY DEF Open, history
<1>2. r.pc = "lock" /\ r.fd = lock'
  BY <1>0 DEF CallStates
<1> HIDE DEF r
<1>3. proc'[p] = r /\ Moved(p)
  BY <1>1, SetMoves
<1>4. lock' # Absent /\ (lock # Absent => lock' = lock)
  BY <1>0 DEF Open
<1>5. SameLock'
  BY <1>2, <1>3, <1>4 DEF LockInv, SameLock, Moved
<1>6. OneWriter' /\ Loaded'
  BY <1>1, <1>2, <1>3 DEF LockInv, OneWriter, Loaded, Moved, At
<1> QED
  BY <1>1, <1>5, <1>6, SameCounts DEF LockInv

LEMMA TakeLock ==
  ASSUME TypeInv, LockInv, NEW p \in Procs, Lock(p) \/ LoadFails(p), Quiet \/ Alone
  PROVE  LockInv'
<1>0. At(p, "lock") /\ LockFree(p) /\ UNCHANGED <<usage, counted, lock>>
  BY DEF Lock, LoadFails, disk, history
<1>1. PICK root \in {usage, Absent} : Set(p, [proc[p] EXCEPT !.pc = "write", !.root = root])
  BY DEF Lock, LoadFails
<1> DEFINE r == [proc[p] EXCEPT !.pc = "write", !.root = root]
<1>2. r.pc = "write" /\ r.fd = proc[p].fd /\ r.root = root
  BY DEF TypeInv, ProcOK, CallStates
<1>3. proc'[p] = r /\ Moved(p)
  BY <1>1, SetMoves
<1> HIDE DEF r
<1>4. SameLock'
  BY <1>0, <1>2, <1>3 DEF LockInv, SameLock, Moved, At
<1>5. ASSUME NEW q \in Procs, q # p, At(q, "write") PROVE FALSE
  <2>1. CASE Quiet
    BY <1>0, <1>5, <2>1 DEF LockInv, SameLock, LockFree, At
  <2>2. CASE Alone
    BY <1>5, <2>2 DEF Alone
  <2> QED
    BY <2>1, <2>2
<1>6. OneWriter'
  BY <1>3, <1>5 DEF OneWriter, Moved, At
<1>7. Loaded'
  BY <1>0, <1>1, <1>2, <1>3 DEF LockInv, Loaded, Moved, At
<1> QED
  BY <1>0, <1>4, <1>6, <1>7, SameCounts DEF LockInv

(* An update adds to the counters of its skill what it counts.              *)
LEMMA UpdateCounts ==
  ASSUME NEW usg \in Usages, NEW n \in Names, NEW u \in Updates, day \in Days
  PROVE  CountsOf([usg EXCEPT ![n] = Updated(@, u)]) =
           [CountsOf(usg) EXCEPT ![n] = [use |-> @.use + u.use, view |-> @.view + u.view,
                                         patch |-> @.patch + u.patch]]
<1> DEFINE rec == Updated(usg[n], u)
           new == [usg EXCEPT ![n] = rec]
           add == [use |-> CountsOf(usg)[n].use + u.use, view |-> CountsOf(usg)[n].view + u.view,
                   patch |-> CountsOf(usg)[n].patch + u.patch]
<1>0. usg[n] \in Records \cup {Absent} /\ Absent \notin Records
  BY AbsentAssumption DEF Usages
<1>1. rec \in Records
  BY <1>0, UpdatedType
<1>2. \A m \in Names \ {n} : new[m] = usg[m]
  BY DEF Usages
<1>3. new[n] = rec
  BY DEF Usages
<1>4. \A m \in Names \ {n} : CountsOf(new)[m] = CountsOf(usg)[m]
  BY <1>2 DEF CountsOf
<1>5. CountsOf(new)[n] = [use |-> rec.use, view |-> rec.view, patch |-> rec.patch]
  BY <1>0, <1>1, <1>3 DEF CountsOf
<1>6. rec.use = CountsOf(usg)[n].use + u.use /\ rec.view = CountsOf(usg)[n].view + u.view
      /\ rec.patch = CountsOf(usg)[n].patch + u.patch
  <2>1. CASE usg[n] = Absent
    <3>1. CountsOf(usg)[n] = [use |-> 0, view |-> 0, patch |-> 0]
      BY <2>1 DEF CountsOf, NoCounts
    <3> QED
      BY <2>1, <3>1 DEF Updated, NewRecord
  <2>2. CASE usg[n] # Absent
    <3>1. CountsOf(usg)[n] = [use |-> usg[n].use, view |-> usg[n].view, patch |-> usg[n].patch]
      BY <2>2 DEF CountsOf
    <3> QED
      BY <2>2, <3>1 DEF Updated
  <2> QED
    BY <2>1, <2>2
<1>7. CountsOf(new)[n] = add
  BY <1>5, <1>6
<1>8. CountsOf(new) = [m \in Names |-> CountsOf(new)[m]] /\ CountsOf(usg) = [m \in Names |-> CountsOf(usg)[m]]
  BY DEF CountsOf
<1> HIDE DEF rec, new, add
<1>9. CountsOf(new) = [CountsOf(usg) EXCEPT ![n] = add]
  BY <1>4, <1>7, <1>8
<1> QED
  BY <1>9 DEF rec, new, add

LEMMA NoUsageCounts == CountsOf(NoUsage) = NoCounts
  BY DEF CountsOf, NoUsage, NoCounts

LEMMA WriteLock ==
  ASSUME TypeInv, LockInv, NEW p \in Procs, Write(p)
  PROVE  LockInv'
<1>0. /\ At(p, "write") /\ proc[p] \in CallStates /\ proc[p].name \in Names
      /\ proc[p].upd \in Updates /\ usage \in Usages /\ day \in Days
      /\ lock' = lock /\ Absent \notin Usages
  BY AbsentAssumption DEF Write, At, TypeInv, ProcOK, CallOK, CallStates, DiskOK, RestOK
<1>1. Set(p, Recorded(proc[p], TRUE))
  BY DEF Write
<1>2. proc'[p].pc \in {"life", "done", "rename"} /\ Moved(p)
  BY <1>0, <1>1, SetMoves, EndLabels
<1>3. \A q \in Procs : ~At(q, "write")'
  BY <1>0, <1>2 DEF LockInv, OneWriter, Moved, At
<1>4. SameLock'
  BY <1>0, <1>2 DEF LockInv, SameLock, Moved
<1>5. OneWriter' /\ Loaded'
  BY <1>3 DEF OneWriter, Loaded
<1> DEFINE n == proc[p].name
           u == proc[p].upd
           root == IF proc[p].root = Absent THEN NoUsage ELSE proc[p].root
           cnt == IF proc[p].root = Absent THEN NoCounts ELSE counted
<1>6. /\ usage' = [root EXCEPT ![n] = Updated(@, u)]
      /\ counted' = [cnt EXCEPT ![n] = [use |-> @.use + u.use, view |-> @.view + u.view,
                                        patch |-> @.patch + u.patch]]
  BY DEF Write
<1>7. root \in Usages /\ CountsOf(root) = cnt
  BY <1>0, NoUsageType, NoUsageCounts DEF LockInv, Loaded, CountersExact
<1> HIDE DEF n, u, root, cnt
<1>8. n \in Names /\ u \in Updates
  BY <1>0 DEF n, u
<1>9. CountsOf(usage') = counted'
  BY <1>0, <1>6, <1>7, <1>8, UpdateCounts
<1>10. CountersExact'
  BY <1>9 DEF CountersExact, CountsOf
<1> QED
  BY <1>4, <1>5, <1>10 DEF LockInv

(* Every other step of a call that is not a rollback.                       *)
LEMMA OtherStepLock ==
  ASSUME TypeInv, LockInv, NEW p \in Procs,
         \/ EditCheck(p) \/ WriteFile(p) \/ WriteFileFails(p) \/ Return(p)
         \/ Resolve(p) \/ RecordFails(p)
         \/ ArchiveCheck(p) \/ ArchiveBlind(p) \/ Rename(p) \/ RenameFails(p)
         \/ (\E n \in Names : LifecycleNext(p, n)) \/ LifecycleEnd(p)
  PROVE  LockInv'
<1>0. proc[p] \in CallStates
  BY DEF TypeInv, ProcOK
<1>1. /\ UNCHANGED <<usage, counted, lock>>
  BY DEF EditCheck, WriteFile, WriteFileFails, Return, Resolve, RecordFails, ArchiveCheck,
         ArchiveBlind, Rename, RenameFails, LifecycleNext, LifecycleEnd, disk, history
<1>2. ASSUME NEW r, Set(p, r), r.pc \notin {"lock", "write", "clear", "restore"}
      PROVE  LockInv'
  BY <1>1, <1>2, AsideLock
<1>3. CASE EditCheck(p)
  <2> DEFINE r == [proc[p] EXCEPT !.pc = "writeFile"]
  <2>1. r \in CallStates /\ r.pc = "writeFile"
    BY <1>0 DEF CallStates, Labels
  <2>2. Set(p, Guarded(r, MayEdit(proc[p].name, proc[p].content)))
    BY <1>3 DEF EditCheck
  <2> HIDE DEF r
  <2> QED
    BY <1>2, <2>1, <2>2, EndLabels
<1>4. CASE WriteFileFails(p) \/ RenameFails(p) \/ Rename(p)
  BY <1>0, <1>2, <1>4, EndLabels DEF WriteFileFails, RenameFails, Rename, Fail
<1>5. CASE WriteFile(p) \/ LifecycleEnd(p)
  <2>1. PICK l \in {"resolve", "done"} : Set(p, [proc[p] EXCEPT !.pc = l])
    BY <1>5 DEF WriteFile, LifecycleEnd, Goto
  <2> DEFINE r == [proc[p] EXCEPT !.pc = l]
  <2>2. r.pc = l
    BY <1>0 DEF CallStates
  <2> HIDE DEF r
  <2> QED
    BY <1>2, <2>1, <2>2 DEF r
<1>6. CASE Return(p)
  <2>1. Idle.pc = "idle"
    BY DEF Idle
  <2> QED
    BY <1>2, <1>6, <2>1 DEF Return
<1>7. CASE Resolve(p) \/ RecordFails(p)
  <2>1. CASE Set(p, Recorded(proc[p], FALSE))
    BY <1>0, <1>2, <2>1, EndLabels
  <2>2. CASE Goto(p, "open")
    <3> DEFINE r == [proc[p] EXCEPT !.pc = "open"]
    <3>1. r.pc = "open"
      BY <1>0 DEF CallStates
    <3>2. Set(p, r)
      BY <2>2 DEF Goto
    <3> HIDE DEF r
    <3> QED
      BY <1>2, <3>1, <3>2
  <2> QED
    BY <1>7, <2>1, <2>2 DEF Resolve, RecordFails
<1>8. CASE ArchiveCheck(p) \/ ArchiveBlind(p)
  <2>0. [Keep EXCEPT !.patch = 1, !.state = "archived"] \in Updates
    BY KeepType DEF States
  <2>1. Archiving(proc[p]) \in CallStates /\ Archiving(proc[p]).pc = "resolve"
    BY <1>0, <2>0 DEF Archiving, CallStates, Labels
  <2>2. PICK ok : Set(p, Guarded(Archiving(proc[p]), ok))
    BY <1>8 DEF ArchiveCheck, ArchiveBlind
  <2> QED
    BY <1>2, <2>1, <2>2, EndLabels
<1>9. ASSUME NEW n \in Names, LifecycleNext(p, n) PROVE LockInv'
  <2> DEFINE r == [proc[p] EXCEPT !.todo = @ \ {n}]
             d == Decision(usage[n], r.now)
  <2>1. r \in CallStates /\ r.pc = "life"
    BY <1>0, <1>9 DEF CallStates, LifecycleNext, At
  <2>2. Set(p, CASE ~Exists(n)     -> [r EXCEPT !.ok = FALSE]
                 [] Exists(n) /\ d = "leave"   -> r
                 [] Exists(n) /\ d = "archive" -> [r EXCEPT !.pc = "archive", !.name = n]
                 [] Exists(n) /\ d = "stale"   ->
                      [r EXCEPT !.pc = "resolve", !.name = n,
                                !.upd = [Keep EXCEPT !.state = "stale"]])
    BY <1>9 DEF LifecycleNext
  <2>3. d \in {"leave", "archive", "stale"}
    BY DEF Decision
  <2> HIDE DEF r, d
  <2>4. /\ [r EXCEPT !.ok = FALSE].pc = "life"
        /\ [r EXCEPT !.pc = "archive", !.name = n].pc = "archive"
        /\ [r EXCEPT !.pc = "resolve", !.name = n, !.upd = [Keep EXCEPT !.state = "stale"]].pc
             = "resolve"
    BY <2>1 DEF CallStates
  <2> QED
    BY <1>2, <2>1, <2>2, <2>3, <2>4
<1> QED
  BY <1>3, <1>4, <1>5, <1>6, <1>7, <1>8, <1>9

LEMMA PutCounts ==
  ASSUME CountersExact, NEW e, NEW f, NEW a, NEW u, Put(e, f, a, u)
  PROVE  CountersExact'
<1>1. CASE e[1] = "usage"
  <2>1. CountsOf(usage') = counted'
    BY <1>1 DEF Put
  <2> QED
    BY <2>1 DEF CountersExact, CountsOf
<1>2. CASE e[1] # "usage"
  BY <1>2, SameCounts DEF Put
<1> QED
  BY <1>1, <1>2

(* A rollback takes no lock: it is let in only where nobody else is about.  *)
LEMMA RollbackLock ==
  ASSUME TypeInv, LockInv, NEW p \in Procs, Quiet \/ Alone,
         \/ \E e \in Entries : Clear(p, e) \/ ClearFails(p, e) \/ Restore(p, e) \/ RestoreFails(p, e)
         \/ ClearEnd(p) \/ RestoreEnd(p)
  PROVE  LockInv'
<1>0. proc[p] \in CallStates /\ proc[p].pc \in {"clear", "restore"}
  BY DEF TypeInv, ProcOK, Clear, ClearFails, Restore, RestoreFails, ClearEnd, RestoreEnd, At
<1>1. ~Quiet /\ Alone
  BY <1>0 DEF LockInv, SameLock
<1>2. CountersExact'
  <2>1. ASSUME UNCHANGED <<usage, counted>> PROVE CountersExact'
    BY <2>1, SameCounts DEF LockInv
  <2> QED
    BY <2>1, PutCounts DEF LockInv, Clear, ClearFails, Restore, RestoreFails, ClearEnd, RestoreEnd,
       FromSnapshot, disk, history
<1>3. PICK r : Set(p, r) /\ r.pc \notin {"lock", "write"}
  <2>1. ASSUME NEW e, Set(p, [proc[p] EXCEPT !.todo = @ \ {e}])
        PROVE  \E r : Set(p, r) /\ r.pc \notin {"lock", "write"}
    <3> DEFINE r == [proc[p] EXCEPT !.todo = @ \ {e}]
    <3>1. r.pc = proc[p].pc
      BY <1>0 DEF CallStates
    <3>2. Set(p, r)
      BY <2>1
    <3> HIDE DEF r
    <3> QED
      BY <1>0, <3>1, <3>2
  <2>2. ASSUME NEW e, Set(p, [proc[p] EXCEPT !.todo = @ \ {e}, !.ok = FALSE])
        PROVE  \E r : Set(p, r) /\ r.pc \notin {"lock", "write"}
    <3> DEFINE r == [proc[p] EXCEPT !.todo = @ \ {e}, !.ok = FALSE]
    <3>1. r.pc = proc[p].pc
      BY <1>0 DEF CallStates
    <3>2. Set(p, r)
      BY <2>2
    <3> HIDE DEF r
    <3> QED
      BY <1>0, <3>1, <3>2
  <2>3. CASE ClearEnd(p) \/ RestoreEnd(p)
    <3> DEFINE r1 == [proc[p] EXCEPT !.pc = "restore", !.todo = InSnapshot]
               r2 == Ended(proc[p], FALSE)
               r3 == [proc[p] EXCEPT !.pc = "done"]
    <3>1. Set(p, r1) \/ Set(p, r2) \/ Set(p, r3)
      BY <2>3 DEF ClearEnd, RestoreEnd, Goto
    <3>2. r1.pc = "restore" /\ r3.pc = "done"
      BY <1>0 DEF CallStates
    <3>3. r2.pc \in {"life", "done"}
      BY <1>0, EndLabels
    <3> HIDE DEF r1, r2, r3
    <3> QED
      BY <3>1, <3>2, <3>3
  <2> QED
    BY <2>1, <2>2, <2>3 DEF Clear, ClearFails, Restore, RestoreFails
<1>4. proc'[p].pc \notin {"lock", "write"} /\ Moved(p)
  BY <1>3, SetMoves
<1> QED
  BY <1>1, <1>2, <1>4, AwayLock

LEMMA CrashLock ==
  ASSUME TypeInv, LockInv, NEW p \in Procs, Crash(p), Quiet \/ Alone
  PROVE  LockInv'
<1>0. Set(p, Idle) /\ Idle.pc = "idle"
  BY DEF Crash, Idle
<1>1. proc'[p].pc = "idle" /\ Moved(p)
  BY <1>0, SetMoves
<1>2. CASE UNCHANGED <<disk, history>>
  BY <1>0, <1>2, AsideLock DEF disk, history
<1>3. CASE At(p, "restore") /\ (\E e \in proc[p].todo : Put(e, Torn, Torn, NoUsage)) /\ UNCHANGED <<lock, inode>>
  <2>1. CountersExact'
    BY <1>3, PutCounts DEF LockInv
  <2>2. ~Quiet /\ Alone
    BY <1>3 DEF LockInv, SameLock, At
  <2> QED
    BY <1>1, <2>1, <2>2, AwayLock
<1> QED
  BY <1>2, <1>3 DEF Crash

LEMMA NextLock ==
  ASSUME Quiet \/ Alone
  PROVE  TypeInv /\ LockInv /\ [Next]_vars => LockInv'
<1> SUFFICES ASSUME TypeInv, LockInv, [Next]_vars PROVE LockInv'
  OBVIOUS
<1>1. ASSUME NEW p \in Procs, Call(p) PROVE LockInv'
  BY <1>1, CallLock
<1>2. ASSUME NEW p \in Procs, Step(p) PROVE LockInv'
  BY <1>2, OtherStepLock, OpenLock, WriteLock, RollbackLock DEF Step
<1>3. ASSUME NEW p \in Procs, Lock(p) \/ LoadFails(p) PROVE LockInv'
  BY <1>3, TakeLock
<1>4. ASSUME NEW p \in Procs, Crash(p) PROVE LockInv'
  BY <1>4, CrashLock
<1>5. CASE NextDay \/ UNCHANGED vars
  <2>1. UNCHANGED <<proc, usage, counted, lock>>
    BY <1>5 DEF NextDay, vars, disk, history
  <2> QED
    BY <2>1, SameCounts DEF LockInv, SameLock, OneWriter, Loaded, At
<1> QED
  BY <1>1, <1>2, <1>3, <1>4, <1>5 DEF Next

(* No update of the sidecar is lost, however many processes write it: every *)
(* writer replaces the whole file, but the lock makes what it loaded what   *)
(* it replaces.  It holds as long as no rollback removes the lock file      *)
(* under the writers, or a single process does everything; the run          *)
(* store_lost_lock shows that with a concurrent rollback it does not.       *)
THEOREM NoUpdateLost ==
  ASSUME Quiet \/ Alone
  PROVE  Spec => []CountersExact
<1>1. LockInv => CountersExact
  BY DEF LockInv
<1>2. TypeInv /\ LockInv /\ [Next]_vars => LockInv'
  BY NextLock
<1> QED
  BY <1>1, <1>2, InitLock, TypesHold, PTL DEF Spec
=============================================================================
