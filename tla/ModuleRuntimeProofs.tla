------------------------ MODULE ModuleRuntimeProofs ------------------------
(***************************************************************************)
(* Theorems about ModuleRuntime, for every number of correlations, every    *)
(* table size, ring capacity and body limit.                                *)
(***************************************************************************)
EXTENDS ModuleRuntime, FiniteSetTheorems, FunctionTheorems, SequenceTheorems,
        TLAPS

-----------------------------------------------------------------------------
(* Types of the operators the actions are built from.                       *)

(* What Normalise returns is a result that replyModuleResult can send, for  *)
(* whatever a handler returned.                                             *)
LEMMA NormaliseType ==
  ASSUME NEW r \in RawResults
  PROVE  /\ Normalise(r) \in [status : Statuses, parts : 0..MaxBody]
         /\ Normalise(r) \in Results
         /\ Fragments(Normalise(r)) \in 1..(MaxBody + 1)
  BY ConstantsAssumption DEF Normalise, Fragments, Statuses, Results, RawResults

(* A result that was settled may be normalised again.                       *)
LEMMA ResultsAreRaw ==
  /\ Results \subseteq RawResults
  /\ \A s \in Statuses : [status |-> s, parts |-> 0] \in Results
  BY ConstantsAssumption DEF Results, Statuses, RawResults

(* Beginning a reply leaves the reply variables and the program counter     *)
(* well typed.                                                              *)
LEMMA BeginReplyType ==
  ASSUME TypeOK, NEW c \in Corr, NEW r \in RawResults,
         NEW by \in {"loop", "handler"}, BeginReply(c, r, by)
  PROVE  /\ reply' \in Replies
         /\ answered' \in [Corr -> Seq(Answers)]
         /\ pc' = "reply" /\ outcome' = outcome /\ outbound' = outbound
<1>1. Normalise(r) \in [status : Statuses, parts : 0..MaxBody]
      /\ Fragments(Normalise(r)) \in 1..(MaxBody + 1)
  BY NormaliseType
<1>2. reply' \in Replies
  BY <1>1 DEF BeginReply, Replies
<1>3. [status |-> Normalise(r).status, by |-> by] \in Answers
  BY <1>1 DEF Answers
<1>4. answered[c] \in Seq(Answers)
  BY DEF TypeOK
<1>5. Append(answered[c], [status |-> Normalise(r).status, by |-> by])
        \in Seq(Answers)
  BY <1>3, <1>4, AppendProperties
<1>6. answered' \in [Corr -> Seq(Answers)]
  BY <1>5 DEF BeginReply, TypeOK
<1> QED
  BY <1>2, <1>6 DEF BeginReply

(* Refusing is beginning a reply without a body.                            *)
LEMMA RefuseType ==
  ASSUME TypeOK, NEW c \in Corr, NEW status \in Statuses, Refuse(c, status)
  PROVE  /\ reply' \in Replies
         /\ answered' \in [Corr -> Seq(Answers)]
         /\ pc' = "reply" /\ outcome' = outcome /\ outbound' = outbound
<1>1. [status |-> status, parts |-> 0] \in RawResults
  BY ResultsAreRaw
<1> QED
  BY <1>1, BeginReplyType DEF Refuse

(* The assembly that fragment f makes, when it is not too large.            *)
LEMMA ExtendedType ==
  ASSUME TypeOK, NEW f \in Frames, ~TooLarge(f)
  PROVE  Extended(f) \in Assemblies
<1> DEFINE old == IF f.corr \in assemblies THEN assembly[f.corr].body ELSE <<>>
<1>1. old \in Seq(0..MaxFrags)
  <2>1. assembly[f.corr] \in Assemblies
    BY DEF TypeOK, Frames
  <2>2. assembly[f.corr].body \in Seq(0..MaxFrags)
    BY <2>1 DEF Assemblies, Bodies
  <2>3. <<>> \in Seq(0..MaxFrags)
    OBVIOUS
  <2>. QED  BY <2>2, <2>3
<1>2. Append(old, f.tok) \in Seq(0..MaxFrags)
  BY <1>1, AppendProperties DEF Frames
<1>3. f.hdr \in HdrType
  BY DEF Frames, HdrType
<1>4. Extended(f).body = Append(old, f.tok) /\ Extended(f).hdr = f.hdr
  BY DEF Extended
<1>5. Len(Append(old, f.tok)) <= MaxBody
  <2>1. Len(Append(old, f.tok)) \in Nat
    BY <1>2, LenProperties
  <2>. QED  BY <1>4, <2>1, ConstantsAssumption DEF TooLarge
<1> QED
  BY <1>2, <1>3, <1>5 DEF Extended, Assemblies, Bodies

(* The empty values of the assembly table, the job table and the results    *)
(* have the types of the tables.                                            *)
LEMMA BlankTypes ==
  Blank \in Assemblies /\ NoWork \in Works /\ NoResult \in Results
<1>1. <<>> \in Bodies
  BY ConstantsAssumption DEF Bodies
<1> QED
  BY <1>1, ConstantsAssumption DEF Blank, NoWork, NoResult, Assemblies, Works, Results, HdrType

(* Dropping an assembly keeps the table well typed.                         *)
LEMMA DropType ==
  ASSUME TypeOK, NEW c \in Corr, DropAssembly(c)
  PROVE  assemblies' \subseteq Corr /\ assembly' \in [Corr -> Assemblies]
  BY BlankTypes DEF TypeOK, DropAssembly

-----------------------------------------------------------------------------
(* Type correctness.                                                        *)

(* RunModuleClient starts with every variable in its type.                  *)
LEMMA InitType == Init => TypeOK
<1> SUFFICES ASSUME Init PROVE TypeOK
  OBVIOUS
<1>1. assembly \in [Corr -> Assemblies] /\ work \in [Corr -> Works]
      /\ result \in [Corr -> Results]
  BY BlankTypes DEF Init
<1>2. done \in Seq(Corr) /\ outbound \in Seq(OutFrames) /\ Len(outbound) <= OutCap
      /\ answered \in [Corr -> Seq(Answers)]
  BY ConstantsAssumption DEF Init
<1>3. need \in [Corr -> 1..MaxFrags] /\ sent \in [Corr -> 0..MaxFrags]
      /\ \A c \in Corr : sent[c] <= need[c]
  BY ConstantsAssumption DEF Init
<1>4. phase \in [Corr -> {"none", "running", "sending"}] /\ faults \in 0..Faults
  BY ConstantsAssumption DEF Init
<1> QED
  BY <1>1, <1>2, <1>3, <1>4 DEF Init, TypeOK

(* Each branch of the dispatch keeps the types of everything it changes;    *)
(* what it leaves alone is settled where the frame comes from.              *)
LEMMA DispatchType ==
  ASSUME TypeOK, NEW f \in Frames, pc = "poll", Dispatch(f)
  PROVE  /\ pc' \in {"drain", "reply"}
         /\ outcome' = outcome /\ now' = now
         /\ assemblies' \subseteq Corr /\ assembly' \in [Corr -> Assemblies]
         /\ jobs' \subseteq Corr /\ work' \in [Corr -> Works]
         /\ phase' \in [Corr -> {"none", "running", "sending"}]
         /\ result' = result /\ done' = done
         /\ reply' \in Replies \cup {NoReply}
         /\ pc' = "reply" => reply' \in Replies
         /\ outbound' = outbound
         /\ answered' \in [Corr -> Seq(Answers)]
<1>0. f.corr \in Corr
  BY DEF Frames
<1>1. CASE RejectInvalid(f)
  <2>1. "InvalidRequest" \in Statuses  BY DEF Statuses
  <2>. QED  BY <1>0, <1>1, <2>1, DropType, RefuseType
            DEF RejectInvalid, TypeOK, workerVars
<1>2. CASE RefuseAssembly(f)
  <2>1. "Internal" \in Statuses  BY DEF Statuses
  <2>. QED  BY <1>0, <1>2, <2>1, RefuseType
            DEF RefuseAssembly, TypeOK, workerVars, tableVars
<1>3. CASE Overflow(f)
  <2>1. "Internal" \in Statuses  BY DEF Statuses
  <2>. QED  BY <1>0, <1>3, <2>1, DropType, RefuseType
            DEF Overflow, TypeOK, workerVars
<1>4. CASE Extend(f)
  <2>1. Extended(f) \in Assemblies
    BY <1>4, ExtendedType DEF Extend
  <2>2. assembly' \in [Corr -> Assemblies]
    BY <1>4, <2>1 DEF Extend, TypeOK
  <2>. QED  BY <1>0, <1>4, <2>2 DEF Extend, TypeOK, workerVars, replyVars
<1>5. CASE RefuseComplete(f)
  <2>1. PICK status \in Refusal(f) : Refuse(f.corr, status)
    BY <1>5 DEF RefuseComplete
  <2>2. status \in Statuses
    BY <2>1 DEF Refusal, Statuses
  <2>. QED  BY <1>0, <1>5, <2>1, <2>2, DropType, RefuseType
            DEF RefuseComplete, TypeOK, workerVars
<1>6. CASE Spawn(f)
  <2>1. Extended(f).body \in Bodies
    BY <1>6, ExtendedType DEF Spawn, Assemblies
  <2>2. [hdr |-> f.hdr, body |-> Extended(f).body, cancelled |-> FALSE] \in Works
    BY <2>1 DEF Works, Frames, HdrType
  <2>3. work' \in [Corr -> Works]
    BY <1>6, <2>2 DEF Spawn, TypeOK
  <2>. QED  BY <1>0, <1>6, <2>3, DropType DEF Spawn, TypeOK, replyVars
<1> QED
  BY <1>1, <1>2, <1>3, <1>4, <1>5, <1>6 DEF Dispatch

(* The two kinds of polled request frame are frames.                        *)
LEMMA NextFrameType ==
  ASSUME TypeOK, NEW c \in Corr, sent[c] < need[c]
  PROVE  NextFrame(c) \in Frames
<1>1. sent[c] + 1 \in 0..MaxFrags
  BY ConstantsAssumption DEF TypeOK
<1> QED
  BY <1>1, ConstantsAssumption DEF NextFrame, Frames

(* Forgetting the job at the head of done.                                  *)
LEMMA ForgetType ==
  ASSUME TypeOK, done # <<>>, ForgetJob(Head(done))
  PROVE  /\ Head(done) \in Corr
         /\ jobs' \subseteq Corr /\ work' \in [Corr -> Works]
         /\ result' \in [Corr -> Results] /\ done' \in Seq(Corr)
         /\ assemblies' = assemblies /\ assembly' = assembly /\ phase' = phase
<1>1. done \in Seq(Corr)
  BY DEF TypeOK
<1>2. Head(done) \in Corr /\ Tail(done) \in Seq(Corr)
  BY <1>1, HeadTailProperties
<1>3. work' \in [Corr -> Works] /\ result' \in [Corr -> Results]
  BY BlankTypes DEF ForgetJob, TypeOK
<1> QED
  BY <1>2, <1>3 DEF ForgetJob, TypeOK

(* Every step of the loop, of a handler and of the environment keeps the    *)
(* types: one step per action.                                              *)
LEMMA NextType == TypeOK /\ [Next]_vars => TypeOK'
<1> SUFFICES ASSUME TypeOK, [Next]_vars PROVE TypeOK'
  OBVIOUS
<1> USE DEF tableVars, workerVars, replyVars, callerVars, hostVars, loopVars
<1>1. CASE EmitFragment
  <2>1. reply \in Replies /\ outbound \in Seq(OutFrames)
    BY <1>1 DEF EmitFragment, TypeOK
  <2>2. [corr |-> reply.corr, status |-> reply.status, more |-> reply.left > 1]
          \in OutFrames
    BY <2>1 DEF Replies, OutFrames
  <2>3. outbound' \in Seq(OutFrames) /\ Len(outbound') = Len(outbound) + 1
    BY <1>1, <2>1, <2>2, AppendProperties DEF EmitFragment
  <2>4. Len(outbound') <= OutCap
    BY <1>1, <2>1, <2>3, LenProperties, ConstantsAssumption DEF EmitFragment
  <2>5. /\ reply' \in Replies \cup {NoReply}
        /\ pc' \in {"reply", "drain"} /\ (pc' = "reply" => reply' \in Replies)
    BY <1>1, <2>1, ConstantsAssumption DEF EmitFragment, Replies
  <2> QED
    BY <1>1, <2>3, <2>4, <2>5 DEF EmitFragment, TypeOK
<1>2. CASE ReplyFails
  BY <1>2 DEF ReplyFails, Leave, TypeOK
<1>3. CASE DrainDone
  <2>1. result[Head(done)] \in RawResults /\ Head(done) \in Corr
    BY <1>3, ForgetType, ResultsAreRaw DEF DrainDone, TypeOK
  <2>2. /\ reply' \in Replies
        /\ answered' \in [Corr -> Seq(Answers)]
        /\ pc' = "reply" /\ outcome' = outcome /\ outbound' = outbound
    BY <1>3, <2>1, BeginReplyType DEF DrainDone
  <2> QED
    BY <1>3, <2>2, ForgetType DEF DrainDone, TypeOK
<1>4. CASE DrainEmpty
  BY <1>4 DEF DrainEmpty, TypeOK
<1>5. CASE BeginShutdown
  <2>1. \A c \in Corr : [work[c] EXCEPT !.cancelled = TRUE] \in Works /\ work[c] \in Works
    BY DEF TypeOK, Works
  <2>2. work' \in [Corr -> Works]
    BY <1>5, <2>1 DEF BeginShutdown
  <2> QED
    BY <1>5, <2>2 DEF BeginShutdown, TypeOK
<1>6. CASE ShutdownReceive
  BY <1>6, ForgetType DEF ShutdownReceive, TypeOK
<1>7. CASE ShutdownDone
  BY <1>7 DEF ShutdownDone, Leave, TypeOK
<1>8. CASE CheckEpoch
  BY <1>8 DEF CheckEpoch, Leave, TypeOK
<1>9. CASE PollEpoch
  BY <1>9 DEF PollEpoch, Leave, TypeOK
<1>10. CASE PollNothing
  BY <1>10 DEF PollNothing, TypeOK
<1>11. ASSUME NEW c \in Corr, PollCancel(c) PROVE TypeOK'
  <2>1. work[c] \in Works /\ [work[c] EXCEPT !.cancelled = TRUE] \in Works
    BY DEF TypeOK, Works
  <2>2. work' \in [Corr -> Works]
    BY <1>11, <2>1 DEF PollCancel, TypeOK
  <2> QED
    BY <1>11, <2>2, DropType DEF PollCancel, TypeOK
<1>12. ASSUME NEW c \in Corr, PollRequest(c) PROVE TypeOK'
  <2>1. NextFrame(c) \in Frames
    BY <1>12, NextFrameType DEF PollRequest
  <2>2. /\ sent' \in [Corr -> 0..MaxFrags]
        /\ \A d \in Corr : sent'[d] <= need[d]
    BY <1>12, ConstantsAssumption DEF PollRequest, TypeOK
  <2>3. pc = "poll" /\ Dispatch(NextFrame(c)) /\ UNCHANGED <<need, left, faults, hostVars>>
    BY <1>12 DEF PollRequest
  <2> HIDE DEF tableVars, workerVars, replyVars, callerVars, loopVars
  <2> QED
    BY <2>1, <2>2, <2>3, DispatchType DEF TypeOK
<1>13. ASSUME NEW f \in Frames, PollStray(f) PROVE TypeOK'
  <2>1. pc = "poll" /\ Dispatch(f) /\ UNCHANGED <<need, sent, left, hostVars>>
    BY <1>13 DEF PollStray
  <2>2. faults' \in 0..Faults
    BY <1>13, ConstantsAssumption DEF PollStray, TypeOK
  <2> HIDE DEF tableVars, workerVars, replyVars, callerVars, loopVars
  <2> QED
    BY <2>1, <2>2, DispatchType DEF TypeOK
<1>14. ASSUME NEW c \in Corr, HandlerReturn(c) PROVE TypeOK'
  <2>1. PICK r \in HandlerResults : result' = [result EXCEPT ![c] = Settle(c, r)]
    BY <1>14 DEF HandlerReturn
  <2>2. r \in RawResults
    BY ConstantsAssumption
  <2>3. Settle(c, r) \in Results
    BY <2>2, NormaliseType, ResultsAreRaw DEF Settle, Statuses
  <2>4. result' \in [Corr -> Results]
    BY <2>1, <2>3 DEF TypeOK
  <2> QED
    BY <1>14, <2>4 DEF HandlerReturn, TypeOK
<1>15. ASSUME NEW c \in Corr, HandlerSend(c) PROVE TypeOK'
  <2>1. done' \in Seq(Corr)
    BY <1>15, AppendProperties DEF HandlerSend, TypeOK
  <2> QED
    BY <1>15, <2>1 DEF HandlerSend, TypeOK
<1>16. CASE HostTake
  <2>1. outbound \in Seq(OutFrames) /\ outbound # <<>>
    BY <1>16 DEF HostTake, TypeOK
  <2>2. outbound' \in Seq(OutFrames) /\ Len(outbound') = Len(outbound) - 1
    BY <1>16, <2>1, HeadTailProperties DEF HostTake
  <2>3. Len(outbound') <= OutCap
    BY <2>1, <2>2, LenProperties, ConstantsAssumption DEF TypeOK
  <2> QED
    BY <1>16, <2>2, <2>3 DEF HostTake, TypeOK
<1>17. CASE CancelCtx
  BY <1>17 DEF CancelCtx, TypeOK
<1>18. CASE BumpEpoch
  BY <1>18 DEF BumpEpoch, TypeOK
<1>19. ASSUME NEW h \in Timed, Expire(h) PROVE TypeOK'
  BY <1>19 DEF Expire, TypeOK
<1>20. CASE UNCHANGED vars
  BY <1>20 DEF vars, TypeOK
<1> QED
  BY <1>1, <1>2, <1>3, <1>4, <1>5, <1>6, <1>7, <1>8, <1>9, <1>10, <1>11, <1>12,
     <1>13, <1>14, <1>15, <1>16, <1>17, <1>18, <1>19, <1>20
  DEF Next, Loop, Exited

(* The serving loop keeps every variable in its type: the outbound ring is  *)
(* never overfilled, a body never exceeds ModuleMessageMaxBody, and a reply *)
(* is pending whenever replyModuleResult runs.                              *)
THEOREM TypeCorrect == Spec => []TypeOK
  BY InitType, NextType, PTL DEF Spec

-----------------------------------------------------------------------------
(* Jobs, handler goroutines and the channel.                                *)

(* Every handler goroutine belongs to a job, every entry of done is the job *)
(* of a goroutine that has ended, and no job is in done twice.              *)
WorkersInv ==
  /\ \A c \in Corr : phase[c] # "none" => c \in jobs
  /\ \A i \in 1..Len(done) : done[i] \in jobs /\ phase[done[i]] = "none"
  /\ \A i, j \in 1..Len(done) : done[i] = done[j] => i = j

(* The loop leaves on the end of the context only with an empty job table.  *)
StoppedInv == outcome = "ctx" => pc = "exit" /\ jobs = {}

(* The inductive invariant.                                                 *)
IInv == TypeOK /\ TablesBounded /\ WorkersInv /\ StoppedInv

(* A set of correlations is finite, and counting it is monotone.            *)
LEMMA CorrFinite ==
  ASSUME NEW S \in SUBSET Corr
  PROVE  IsFiniteSet(S) /\ Cardinality(S) \in Nat
  BY ConstantsAssumption, FS_Subset, FS_CardinalityType

(* Removing a member never breaks a bound; adding one keeps it when there   *)
(* was room.                                                                *)
LEMMA BoundPreserved ==
  ASSUME NEW S \in SUBSET Corr, NEW c, Cardinality(S) <= MaxInFlight
  PROVE  /\ Cardinality(S \ {c}) <= MaxInFlight
         /\ ~(Cardinality(S) >= MaxInFlight) => Cardinality(S \cup {c}) <= MaxInFlight
<1>1. IsFiniteSet(S) /\ Cardinality(S) \in Nat
  BY CorrFinite
<1>2. Cardinality(S \ {c}) = IF c \in S THEN Cardinality(S) - 1 ELSE Cardinality(S)
  BY <1>1, FS_RemoveElement
<1>3. Cardinality(S \cup {c}) = IF c \in S THEN Cardinality(S) ELSE Cardinality(S) + 1
  BY <1>1, FS_AddElement
<1> QED
  BY <1>1, <1>2, <1>3, ConstantsAssumption

(* The entries of done are distinct jobs other than any job whose goroutine *)
(* has not ended, so there are fewer of them than jobs.                     *)
LEMMA RoomInDone ==
  ASSUME TypeOK, WorkersInv, Cardinality(jobs) <= MaxInFlight,
         NEW c \in Corr, phase[c] # "none"
  PROVE  Len(done) < MaxInFlight
<1> DEFINE others == jobs \ {c}
<1>1. c \in jobs
  BY DEF WorkersInv
<1>2. IsFiniteSet(jobs) /\ Cardinality(jobs) \in Nat
  BY CorrFinite DEF TypeOK
<1>3. IsFiniteSet(others) /\ Cardinality(others) = Cardinality(jobs) - 1
  BY <1>1, <1>2, FS_RemoveElement
<1>4. done \in Seq(Corr)
  BY DEF TypeOK
<1>5. done \in [1..Len(done) -> Corr] /\ Len(done) \in Nat
  BY <1>4, LenProperties
<1>6. \A i \in 1..Len(done) : done[i] \in others
  BY DEF WorkersInv
<1>7. done \in [1..Len(done) -> others]
  BY <1>5, <1>6
<1>8. done \in Injection(1..Len(done), others)
  BY <1>7, Fun_IsInj DEF WorkersInv
<1>9. Cardinality(1..Len(done)) <= Cardinality(others)
  BY <1>3, <1>8, FS_Injection
<1>10. Cardinality(1..Len(done)) = Len(done)
  <2>1. 1 \in Int /\ Len(done) \in Int
    BY <1>5
  <2>2. Cardinality(1..Len(done)) = IF 1 > Len(done) THEN 0 ELSE Len(done) - 1 + 1
    BY <2>1, FS_Interval
  <2> QED
    BY <1>5, <2>2
<1> QED
  BY <1>2, <1>3, <1>5, <1>9, <1>10, ConstantsAssumption

(* The inductive invariant holds when runModuleClient starts.               *)
LEMMA InitInv == Init => IInv
<1> SUFFICES ASSUME Init PROVE IInv
  OBVIOUS
<1>1. TypeOK
  BY InitType
<1>2. TablesBounded
  BY FS_EmptySet, ConstantsAssumption DEF Init, TablesBounded
<1>3. WorkersInv
  BY DEF Init, WorkersInv
<1>4. StoppedInv
  BY DEF Init, StoppedInv
<1> QED
  BY <1>1, <1>2, <1>3, <1>4 DEF IInv

(* What the dispatch of a polled frame does to the tables: the correlation  *)
(* leaves the assemblies or enters them with room, and enters the jobs with *)
(* room and no assembly left behind.                                        *)
LEMMA DispatchTables ==
  ASSUME TypeOK, TablesBounded, NEW f \in Frames, Dispatch(f)
  PROVE  /\ TablesBounded'
         /\ \/ jobs' = jobs /\ phase' = phase
            \/ /\ jobs' = jobs \cup {f.corr} /\ f.corr \notin jobs
               /\ phase' = [phase EXCEPT ![f.corr] = "running"]
<1> DEFINE c == f.corr
<1>0. assemblies \in SUBSET Corr /\ jobs \in SUBSET Corr
  BY DEF TypeOK
<1>1. Cardinality(assemblies \ {c}) <= MaxInFlight
  BY <1>0, BoundPreserved DEF TablesBounded
<1>2. CASE RejectInvalid(f)
  BY <1>1, <1>2 DEF RejectInvalid, DropAssembly, TablesBounded, workerVars
<1>3. CASE RefuseAssembly(f)
  BY <1>3 DEF RefuseAssembly, TablesBounded, workerVars, tableVars
<1>4. CASE Overflow(f)
  BY <1>1, <1>4 DEF Overflow, DropAssembly, TablesBounded, workerVars
<1>5. CASE Extend(f)
  <2>1. c \notin jobs /\ (c \in assemblies \/ ~(Cardinality(assemblies) >= MaxInFlight))
    BY <1>5 DEF Extend, Accepted, Invalid, AssembliesFull
  <2>2. c \in assemblies => assemblies \cup {c} = assemblies
    OBVIOUS
  <2>3. Cardinality(assemblies \cup {c}) <= MaxInFlight
    BY <1>0, <2>1, <2>2, BoundPreserved DEF TablesBounded
  <2>4. assemblies' = assemblies \cup {c} /\ jobs' = jobs /\ phase' = phase
    BY <1>5 DEF Extend, workerVars
  <2> QED
    BY <2>1, <2>3, <2>4 DEF TablesBounded
<1>6. CASE RefuseComplete(f)
  BY <1>1, <1>6 DEF RefuseComplete, DropAssembly, TablesBounded, workerVars
<1>7. CASE Spawn(f)
  <2>1. c \notin jobs
    BY <1>7 DEF Spawn, Accepted, Invalid
  <2>2. ~(Cardinality(jobs) >= MaxInFlight)
    BY <1>7 DEF Spawn, Refusal, JobsFull
  <2>3. Cardinality(jobs \cup {c}) <= MaxInFlight
    BY <1>0, <2>2, BoundPreserved DEF TablesBounded
  <2>4. /\ assemblies' = assemblies \ {c} /\ jobs' = jobs \cup {c}
        /\ phase' = [phase EXCEPT ![c] = "running"]
    BY <1>7 DEF Spawn, DropAssembly
  <2> QED
    BY <1>1, <2>1, <2>3, <2>4 DEF TablesBounded
<1> QED
  BY <1>2, <1>3, <1>4, <1>5, <1>6, <1>7 DEF Dispatch

(* The dispatch never touches the channel or the reason to stop.            *)
LEMMA DispatchKeeps ==
  ASSUME TypeOK, IInv, NEW f \in Frames, pc = "poll", Dispatch(f)
  PROVE  TablesBounded' /\ WorkersInv' /\ StoppedInv'
<1>1. TablesBounded /\ WorkersInv /\ StoppedInv
  BY DEF IInv
<1>2. TablesBounded'
  BY <1>1, DispatchTables
<1>3. done' = done /\ outcome' = outcome
  BY DispatchType
<1>4. WorkersInv'
  <2>1. CASE jobs' = jobs /\ phase' = phase
    BY <1>1, <1>3, <2>1 DEF WorkersInv
  <2>2. CASE /\ jobs' = jobs \cup {f.corr} /\ f.corr \notin jobs
             /\ phase' = [phase EXCEPT ![f.corr] = "running"]
    BY <1>1, <1>3, <2>2 DEF WorkersInv, TypeOK
  <2> QED
    BY <1>1, <2>1, <2>2, DispatchTables
<1>5. StoppedInv'
  BY <1>1, <1>3 DEF StoppedInv
<1> QED
  BY <1>2, <1>4, <1>5

(* Taking the head of done away with its job.                               *)
LEMMA ForgetKeeps ==
  ASSUME IInv, done # <<>>, ForgetJob(Head(done))
  PROVE  TablesBounded' /\ WorkersInv'
<1> DEFINE c == Head(done)
<1>1. TypeOK /\ TablesBounded /\ WorkersInv
  BY DEF IInv
<1>2. done \in Seq(Corr) /\ Len(done) \in Nat /\ jobs \in SUBSET Corr
  BY <1>1, LenProperties DEF TypeOK
<1>3. /\ c = done[1]
      /\ done' = Tail(done) /\ Len(done') = Len(done) - 1 /\ Len(done) > 0
      /\ \A i \in 1..Len(done') : done'[i] = done[i + 1]
  <2>1. /\ Len(Tail(done)) = Len(done) - 1
        /\ \A i \in 1 .. Len(Tail(done)) : Tail(done)[i] = done[i + 1]
    BY <1>2, HeadTailProperties
  <2>2. c = done[1] /\ Len(done) > 0
    BY <1>2
  <2> QED
    BY <2>1, <2>2 DEF ForgetJob
<1>4. jobs' = jobs \ {c} /\ assemblies' = assemblies /\ phase' = phase
  BY DEF ForgetJob
<1>5. TablesBounded'
  <2>1. Cardinality(jobs \ {c}) <= MaxInFlight
    BY <1>1, <1>2, BoundPreserved DEF TablesBounded
  <2> QED
    BY <1>1, <1>4, <2>1 DEF TablesBounded
<1>6. \A i \in 1..Len(done') : i + 1 \in 1..Len(done) /\ done'[i] # c
  <2>1. \A i \in 1..Len(done') : i + 1 \in 1..Len(done) /\ i + 1 # 1
    BY <1>2, <1>3
  <2>2. 1 \in 1..Len(done)
    BY <1>2, <1>3
  <2> QED
    BY <1>1, <1>3, <2>1, <2>2 DEF WorkersInv
<1>7. phase[c] = "none"
  <2>1. 1 \in 1..Len(done)
    BY <1>2, <1>3
  <2> QED
    BY <1>1, <1>3, <2>1 DEF WorkersInv
<1>8. \A d \in Corr : phase'[d] # "none" => d \in jobs'
  BY <1>1, <1>4, <1>7 DEF WorkersInv
<1>9. \A i \in 1..Len(done') : done'[i] \in jobs' /\ phase'[done'[i]] = "none"
  BY <1>1, <1>3, <1>4, <1>6 DEF WorkersInv
<1>10. \A i, j \in 1..Len(done') : done'[i] = done'[j] => i = j
  <2> SUFFICES ASSUME NEW i \in 1..Len(done'), NEW j \in 1..Len(done'),
                      done'[i] = done'[j]
               PROVE  i = j
    OBVIOUS
  <2>1. done[i + 1] = done[j + 1] /\ i + 1 \in 1..Len(done) /\ j + 1 \in 1..Len(done)
    BY <1>3, <1>6
  <2>2. i + 1 = j + 1
    BY <1>1, <2>1 DEF WorkersInv
  <2> QED
    BY <1>2, <1>3, <2>2
<1> QED
  BY <1>5, <1>8, <1>9, <1>10 DEF WorkersInv

(* Every step keeps the inductive invariant: one step per action, and under *)
(* it the conjuncts the action can disturb.                                 *)
LEMMA NextInv == IInv /\ [Next]_vars => IInv'
<1> SUFFICES ASSUME IInv, [Next]_vars PROVE TablesBounded' /\ WorkersInv' /\ StoppedInv'
  BY NextType DEF IInv
<1>0. TypeOK /\ TablesBounded /\ WorkersInv /\ StoppedInv
  BY DEF IInv
<1> DEFINE Quiet == UNCHANGED <<jobs, assemblies, phase, done>>
<1>a. ASSUME Quiet, (outcome' = outcome /\ (pc = "exit" => pc' = "exit")) \/ outcome' # "ctx"
      PROVE  TablesBounded' /\ WorkersInv' /\ StoppedInv'
  BY <1>0, <1>a DEF TablesBounded, WorkersInv, StoppedInv
<1>1. CASE EmitFragment
  BY <1>1, <1>a DEF EmitFragment, tableVars, workerVars
<1>2. CASE ReplyFails
  BY <1>2, <1>a DEF ReplyFails, Leave, tableVars, workerVars
<1>3. CASE DrainDone
  <2>1. TablesBounded' /\ WorkersInv'
    BY <1>3, ForgetKeeps DEF DrainDone
  <2>2. StoppedInv'
    BY <1>0, <1>3 DEF DrainDone, BeginReply, StoppedInv
  <2> QED
    BY <2>1, <2>2
<1>4. CASE DrainEmpty
  BY <1>4, <1>a DEF DrainEmpty, tableVars, workerVars
<1>5. CASE BeginShutdown
  BY <1>5, <1>a DEF BeginShutdown, workerVars
<1>6. CASE ShutdownReceive
  <2>1. TablesBounded' /\ WorkersInv'
    BY <1>6, ForgetKeeps DEF ShutdownReceive
  <2>2. StoppedInv'
    BY <1>0, <1>6 DEF ShutdownReceive, StoppedInv, loopVars
  <2> QED
    BY <2>1, <2>2
<1>7. CASE ShutdownDone
  BY <1>0, <1>7 DEF ShutdownDone, Leave, tableVars, workerVars, TablesBounded,
                    WorkersInv, StoppedInv
<1>8. CASE CheckEpoch
  BY <1>8, <1>a DEF CheckEpoch, Leave, tableVars, workerVars
<1>9. CASE PollEpoch
  BY <1>9, <1>a DEF PollEpoch, Leave, tableVars, workerVars
<1>10. CASE PollNothing
  BY <1>10, <1>a DEF PollNothing, tableVars, workerVars
<1>11. ASSUME NEW c \in Corr, PollCancel(c)
       PROVE  TablesBounded' /\ WorkersInv' /\ StoppedInv'
  <2>1. Cardinality(assemblies \ {c}) <= MaxInFlight
    BY <1>0, BoundPreserved DEF TablesBounded, TypeOK
  <2>2. assemblies' = assemblies \ {c} /\ UNCHANGED <<jobs, phase, done, outcome>>
    BY <1>11 DEF PollCancel, DropAssembly, workerVars
  <2>3. pc = "poll"
    BY <1>11 DEF PollCancel
  <2> QED
    BY <1>0, <2>1, <2>2, <2>3 DEF TablesBounded, WorkersInv, StoppedInv
<1>12. ASSUME NEW c \in Corr, PollRequest(c)
       PROVE  TablesBounded' /\ WorkersInv' /\ StoppedInv'
  <2>1. NextFrame(c) \in Frames
    BY <1>0, <1>12, NextFrameType DEF PollRequest
  <2> QED
    BY <1>0, <1>12, <2>1, DispatchKeeps DEF PollRequest
<1>13. ASSUME NEW f \in Frames, PollStray(f)
       PROVE  TablesBounded' /\ WorkersInv' /\ StoppedInv'
  BY <1>0, <1>13, DispatchKeeps DEF PollStray
<1>14. ASSUME NEW c \in Corr, HandlerReturn(c)
       PROVE  TablesBounded' /\ WorkersInv' /\ StoppedInv'
  <2>1. UNCHANGED <<jobs, assemblies, done, outcome, pc>>
        /\ phase' = [phase EXCEPT ![c] = "sending"] /\ phase[c] = "running"
    BY <1>14 DEF HandlerReturn, tableVars, loopVars
  <2>2. WorkersInv'
    BY <1>0, <2>1 DEF WorkersInv, TypeOK
  <2> QED
    BY <1>0, <2>1, <2>2 DEF TablesBounded, StoppedInv
<1>15. ASSUME NEW c \in Corr, HandlerSend(c)
       PROVE  TablesBounded' /\ WorkersInv' /\ StoppedInv'
  <2>1. UNCHANGED <<jobs, assemblies, outcome, pc>> /\ done' = Append(done, c)
        /\ phase' = [phase EXCEPT ![c] = "none"] /\ phase[c] = "sending"
    BY <1>15 DEF HandlerSend, tableVars, loopVars
  <2>2. done \in Seq(Corr) /\ Len(done) \in Nat
    BY <1>0, LenProperties DEF TypeOK
  <2>3. /\ Len(done') = Len(done) + 1 /\ done'[Len(done) + 1] = c
        /\ \A i \in 1..Len(done) : done'[i] = done[i]
    BY <2>1, <2>2, AppendProperties
  <2>4. c \in jobs /\ \A i \in 1..Len(done) : done[i] # c
    BY <1>0, <2>1 DEF WorkersInv
  <2>5. \A i \in 1..Len(done') : i \in 1..Len(done) \/ i = Len(done) + 1
    BY <2>2, <2>3
  <2>6. \A d \in Corr : phase'[d] # "none" => d \in jobs'
    BY <1>0, <2>1 DEF WorkersInv, TypeOK
  <2>7. \A i \in 1..Len(done') : done'[i] \in jobs' /\ phase'[done'[i]] = "none"
    BY <1>0, <2>1, <2>3, <2>4, <2>5 DEF WorkersInv, TypeOK
  <2>8. \A i, j \in 1..Len(done') : done'[i] = done'[j] => i = j
    BY <1>0, <2>3, <2>4, <2>5 DEF WorkersInv
  <2>9. WorkersInv'
    BY <2>6, <2>7, <2>8 DEF WorkersInv
  <2> QED
    BY <1>0, <2>1, <2>9 DEF TablesBounded, StoppedInv
<1>16. CASE HostTake
  BY <1>16, <1>a DEF HostTake, tableVars, workerVars, loopVars
<1>17. CASE CancelCtx
  BY <1>17, <1>a DEF CancelCtx, tableVars, workerVars, loopVars
<1>18. CASE BumpEpoch
  BY <1>18, <1>a DEF BumpEpoch, tableVars, workerVars, loopVars
<1>19. ASSUME NEW h \in Timed, Expire(h)
       PROVE  TablesBounded' /\ WorkersInv' /\ StoppedInv'
  BY <1>19, <1>a DEF Expire, tableVars, workerVars, loopVars
<1>20. CASE UNCHANGED vars
  BY <1>20, <1>a DEF vars, tableVars, workerVars, loopVars
<1> QED
  BY <1>1, <1>2, <1>3, <1>4, <1>5, <1>6, <1>7, <1>8, <1>9, <1>10, <1>11, <1>12,
     <1>13, <1>14, <1>15, <1>16, <1>17, <1>18, <1>19, <1>20
  DEF Next, Loop, Exited

(* The inductive invariant of runModuleClient holds throughout: what is in  *)
(* done or on its way there is a job, each once, and nothing is left after  *)
(* a shutdown.                                                              *)
THEOREM InvariantHolds == Spec => []IInv
  BY InitInv, NextInv, PTL DEF Spec

(* Both tables of runModuleClient stay within moduleMaxInFlight and no      *)
(* correlation is in both.                                                  *)
THEOREM TablesStayBounded == Spec => []TablesBounded
<1>1. IInv => TablesBounded
  BY DEF IInv
<1> QED
  BY <1>1, InvariantHolds, PTL

(* The send at the end of runHandler never blocks: the channel has a place  *)
(* for every job the table admits, whoever still receives.                  *)
THEOREM HandlersNeverBlock == Spec => []SendNeverBlocks
<1>1. IInv => SendNeverBlocks
  <2> SUFFICES ASSUME IInv, NEW c \in Corr, phase[c] = "sending"
               PROVE  Len(done) < MaxInFlight
    BY DEF SendNeverBlocks
  <2> QED
    BY RoomInDone DEF IInv, TablesBounded
<1> QED
  BY <1>1, InvariantHolds, PTL

(* A loop that returns because its context ended leaves no handler behind.  *)
THEOREM ShutdownLeavesNothing == Spec => []ShutdownJoins
<1>1. IInv => ShutdownJoins
  <2> SUFFICES ASSUME IInv, outcome = "ctx"
               PROVE  done = <<>> /\ \A c \in Corr : phase[c] = "none"
    BY DEF ShutdownJoins
  <2>1. jobs = {} /\ WorkersInv
    BY DEF IInv, StoppedInv
  <2>2. done \in Seq(Corr) /\ Len(done) \in Nat
    BY LenProperties DEF IInv, TypeOK
  <2>3. Len(done) = 0
    BY <2>1, <2>2 DEF WorkersInv
  <2>4. done = <<>>
    BY <2>2, <2>3
  <2> QED
    BY <2>1, <2>4 DEF WorkersInv
<1> QED
  BY <1>1, InvariantHolds, PTL

-----------------------------------------------------------------------------
(* Whole requests.                                                          *)

(* While nothing of c was refused or cancelled, the fragments polled so far *)
(* are exactly the body of one assembly under the caller's header.          *)
AssemblyInv ==
  /\ \A c \in assemblies :
       assembly[c].hdr = OwnHdr[c] => assembly[c].body = Whole(sent[c]) \/ Refused(c)
  /\ \A c \in Corr : \/ sent[c] = 0 \/ sent[c] = need[c]
                     \/ c \in left \/ Refused(c)
                     \/ c \in assemblies /\ assembly[c].hdr = OwnHdr[c]

WholeInv == WholeOrRefused /\ AssemblyInv

(* Appending the next fragment number to a whole prefix gives the next one. *)
LEMMA WholeAppend ==
  ASSUME NEW n \in Nat
  PROVE  Append(Whole(n), n + 1) = Whole(n + 1)
<1>1. Whole(n) \in Seq(Nat) /\ Len(Whole(n)) = n
  BY DEF Whole
<1>2. Whole(n + 1) \in Seq(Nat) /\ Len(Whole(n + 1)) = n + 1
  BY DEF Whole
<1>3. /\ Append(Whole(n), n + 1) \in Seq(Nat)
      /\ Len(Append(Whole(n), n + 1)) = n + 1
      /\ \A i \in 1..n : Append(Whole(n), n + 1)[i] = Whole(n)[i]
      /\ Append(Whole(n), n + 1)[n + 1] = n + 1
  BY <1>1, AppendProperties
<1>4. \A i \in 1..(n + 1) : Append(Whole(n), n + 1)[i] = Whole(n + 1)[i]
  BY <1>3 DEF Whole
<1> QED
  BY <1>2, <1>3, <1>4, SeqEqual

(* A refusal is never forgotten, and the loop's own replies are refusals.   *)
LEMMA RefusedGrows ==
  ASSUME TypeOK, NEW c \in Corr, NEW r, NEW by, BeginReply(c, r, by)
  PROVE  /\ \A d \in Corr : Refused(d) => Refused(d)'
         /\ by = "loop" => Refused(c)'
<1> DEFINE a == [status |-> Normalise(r).status, by |-> by]
<1>1. answered' = [answered EXCEPT ![c] = Append(answered[c], a)]
  BY DEF BeginReply
<1>2. answered[c] \in Seq(Answers) /\ Len(answered[c]) \in Nat
  BY LenProperties DEF TypeOK
<1>3. answered[c] \in Seq(Answers \cup {a}) /\ a \in Answers \cup {a}
  BY <1>2
<1>4. /\ Len(Append(answered[c], a)) = Len(answered[c]) + 1
      /\ \A i \in 1..Len(answered[c]) : Append(answered[c], a)[i] = answered[c][i]
      /\ Append(answered[c], a)[Len(answered[c]) + 1] = a
  <2> HIDE DEF a
  <2> QED  BY <1>3, AppendProperties
<1>5. answered'[c] = Append(answered[c], a) /\ \A d \in Corr \ {c} : answered'[d] = answered[d]
  BY <1>1 DEF TypeOK
<1>6. Refused(c) => Refused(c)'
  BY <1>2, <1>4, <1>5 DEF Refused
<1>7. by = "loop" => Refused(c)'
  BY <1>2, <1>4, <1>5 DEF Refused
<1>8. \A d \in Corr \ {c} : Refused(d) => Refused(d)'
  BY <1>5 DEF Refused
<1> QED
  BY <1>6, <1>7, <1>8

(* The three ways a polled frame can go: the caller is refused, the frame   *)
(* extends an assembly, or it completes a request that a handler is given.  *)
GoesRefused(f) ==
  /\ Refused(f.corr)'
  /\ \A d \in Corr : Refused(d) => Refused(d)'
  /\ UNCHANGED <<jobs, work>>
  /\ f.corr \notin assemblies'
  /\ \A d \in Corr \ {f.corr} : assembly'[d] = assembly[d] /\ (d \in assemblies' <=> d \in assemblies)

GoesOn(f) ==
  /\ ~Invalid(f) /\ f.more
  /\ assemblies' = assemblies \cup {f.corr}
  /\ assembly' = [assembly EXCEPT ![f.corr] = Extended(f)]
  /\ UNCHANGED <<jobs, work, answered>>

GoesToHandler(f) ==
  /\ ~Invalid(f) /\ ~f.more
  /\ assemblies' = assemblies \ {f.corr}
  /\ assembly' = [assembly EXCEPT ![f.corr] = Blank]
  /\ jobs' = jobs \cup {f.corr}
  /\ work' = [work EXCEPT ![f.corr] =
                [hdr |-> f.hdr, body |-> Extended(f).body, cancelled |-> FALSE]]
  /\ UNCHANGED answered

(* The six ways of Dispatch are three as far as bodies are concerned: the   *)
(* loop refuses the request, goes on assembling it or hands it to a         *)
(* handler.                                                                 *)
LEMMA DispatchSplit ==
  ASSUME TypeOK, NEW f \in Frames, Dispatch(f)
  PROVE  GoesRefused(f) \/ GoesOn(f) \/ GoesToHandler(f)
<1>0. f.corr \in Corr
  BY DEF Frames
<1>1. ASSUME NEW status, Refuse(f.corr, status)
      PROVE  Refused(f.corr)' /\ \A d \in Corr : Refused(d) => Refused(d)'
  BY <1>0, <1>1, RefusedGrows DEF Refuse
<1>2. ASSUME DropAssembly(f.corr)
      PROVE  /\ f.corr \notin assemblies'
             /\ \A d \in Corr \ {f.corr} :
                  assembly'[d] = assembly[d] /\ (d \in assemblies' <=> d \in assemblies)
  BY <1>2 DEF DropAssembly, TypeOK
<1>3. CASE RejectInvalid(f)
  BY <1>1, <1>2, <1>3 DEF RejectInvalid, GoesRefused
<1>4. CASE RefuseAssembly(f)
  BY <1>1, <1>4 DEF RefuseAssembly, GoesRefused, tableVars
<1>5. CASE Overflow(f)
  BY <1>1, <1>2, <1>5 DEF Overflow, GoesRefused
<1>6. CASE Extend(f)
  BY <1>6 DEF Extend, Accepted, GoesOn, replyVars
<1>7. CASE RefuseComplete(f)
  BY <1>1, <1>2, <1>7 DEF RefuseComplete, GoesRefused
<1>8. CASE Spawn(f)
  BY <1>8 DEF Spawn, Accepted, DropAssembly, GoesToHandler, replyVars
<1> QED
  BY <1>3, <1>4, <1>5, <1>6, <1>7, <1>8 DEF Dispatch

(* A caller's own fragment.                                                 *)
LEMMA RequestWhole ==
  ASSUME TypeOK, WholeInv, NEW c \in Corr, PollRequest(c)
  PROVE  WholeInv'
<1>f. PICK f \in Frames : f = NextFrame(c)
  BY NextFrameType DEF PollRequest
<1>0. /\ sent[c] < need[c] /\ c \notin left
      /\ sent' = [sent EXCEPT ![c] = sent[c] + 1]
      /\ Dispatch(f) /\ UNCHANGED <<need, left>>
  BY <1>f DEF PollRequest
<1>1. /\ f.corr = c /\ f.hdr = OwnHdr[c] /\ f.tok = sent[c] + 1
      /\ f.more <=> sent[c] + 1 < need[c]
  BY <1>f DEF NextFrame
<1>2. /\ sent[c] \in Nat /\ need[c] \in Nat /\ sent'[c] = sent[c] + 1
      /\ \A d \in Corr \ {c} : sent'[d] = sent[d]
  BY <1>0, ConstantsAssumption DEF TypeOK
<1>3. jobs \subseteq Corr /\ assemblies \subseteq Corr
      /\ assembly \in [Corr -> Assemblies] /\ work \in [Corr -> Works]
  BY DEF TypeOK
<1>4. CASE GoesRefused(f)
  <2>1. /\ Refused(c)' /\ UNCHANGED <<jobs, work>>
        /\ \A d \in Corr : Refused(d) => Refused(d)'
        /\ \A d \in Corr \ {c} : assembly'[d] = assembly[d] /\ (d \in assemblies' <=> d \in assemblies)
    BY <1>1, <1>4 DEF GoesRefused
  <2>2. WholeOrRefused'
    BY <1>0, <1>3, <2>1 DEF WholeInv, WholeOrRefused
  <2>3. assemblies' \subseteq Corr
    BY <1>0, <1>1, DispatchType DEF PollRequest
  <2>4. AssemblyInv'
    BY <1>0, <1>2, <1>3, <2>1, <2>3 DEF WholeInv, AssemblyInv
  <2> QED
    BY <2>2, <2>4 DEF WholeInv
<1>5. ASSUME ~Invalid(f), ~Refused(c)
      PROVE  Extended(f).body = Whole(sent[c] + 1)
  <2>1. c \in assemblies => assembly[c].hdr = OwnHdr[c]
    BY <1>1, <1>5 DEF Invalid
  <2>2. c \in assemblies => assembly[c].body = Whole(sent[c])
    BY <1>5, <2>1 DEF WholeInv, AssemblyInv
  <2>3. c \notin assemblies => sent[c] = 0
    BY <1>0, <1>2, <1>5 DEF WholeInv, AssemblyInv
  <2>4. <<>> = Whole(0)
    BY DEF Whole
  <2>5. Extended(f).body = Append(Whole(sent[c]), sent[c] + 1)
    BY <1>1, <2>2, <2>3, <2>4 DEF Extended
  <2> QED
    BY <1>2, <2>5, WholeAppend
<1>6. CASE GoesOn(f)
  <2>1. /\ UNCHANGED <<jobs, work, answered>> /\ ~Invalid(f)
        /\ assemblies' = assemblies \cup {c}
        /\ assembly' = [assembly EXCEPT ![c] = Extended(f)]
    BY <1>1, <1>6 DEF GoesOn
  <2>2. \A d \in Corr : Refused(d)' <=> Refused(d)
    BY <2>1 DEF Refused
  <2>3. WholeOrRefused'
    BY <1>0, <1>3, <2>1, <2>2 DEF WholeInv, WholeOrRefused
  <2>4. assembly'[c] = Extended(f) /\ Extended(f).hdr = OwnHdr[c]
    BY <1>1, <1>3, <2>1 DEF Extended
  <2>5. \A d \in assemblies' : assembly'[d].hdr = OwnHdr[d]
                                 => assembly'[d].body = Whole(sent'[d]) \/ Refused(d)'
    BY <1>2, <1>3, <1>5, <2>1, <2>2, <2>4 DEF WholeInv, AssemblyInv
  <2>6. \A d \in Corr : \/ sent'[d] = 0 \/ sent'[d] = need'[d]
                        \/ d \in left' \/ Refused(d)'
                        \/ d \in assemblies' /\ assembly'[d].hdr = OwnHdr[d]
    BY <1>0, <1>2, <1>3, <2>1, <2>2, <2>4 DEF WholeInv, AssemblyInv
  <2> QED
    BY <2>3, <2>5, <2>6 DEF WholeInv, AssemblyInv
<1>7. CASE GoesToHandler(f)
  <2>1. /\ UNCHANGED answered /\ ~Invalid(f) /\ ~f.more
        /\ assemblies' = assemblies \ {c}
        /\ assembly' = [assembly EXCEPT ![c] = Blank]
        /\ jobs' = jobs \cup {c}
        /\ work'[c].body = Extended(f).body
        /\ \A d \in Corr \ {c} : work'[d] = work[d]
    BY <1>1, <1>3, <1>7 DEF GoesToHandler
  <2>2. \A d \in Corr : Refused(d)' <=> Refused(d)
    BY <2>1 DEF Refused
  <2>3. sent[c] + 1 = need[c]
    BY <1>0, <1>1, <1>2, <2>1
  <2>4. WholeOrRefused'
    <3>1. work'[c].body = Whole(need'[c]) \/ Refused(c)'
      BY <1>0, <1>5, <2>1, <2>2, <2>3
    <3> QED
      BY <1>0, <1>3, <2>1, <2>2, <3>1 DEF WholeInv, WholeOrRefused
  <2>5. AssemblyInv'
    BY <1>0, <1>2, <1>3, <2>1, <2>2, <2>3 DEF WholeInv, AssemblyInv
  <2> QED
    BY <2>4, <2>5 DEF WholeInv
<1> QED
  BY <1>0, <1>1, <1>4, <1>6, <1>7, DispatchSplit

(* A frame no correct caller sends.                                         *)
LEMMA StrayWhole ==
  ASSUME TypeOK, WholeInv, NEW f \in Frames, PollStray(f)
  PROVE  WholeInv'
<1> DEFINE c == f.corr
<1>0. /\ ~f.wf \/ f.hdr # OwnHdr[c]
      /\ Dispatch(f) /\ UNCHANGED <<need, sent, left>>
  BY DEF PollStray
<1>1. c \in Corr
  BY DEF Frames
<1>2. jobs \subseteq Corr /\ assemblies \subseteq Corr
      /\ assembly \in [Corr -> Assemblies] /\ work \in [Corr -> Works]
  BY DEF TypeOK
<1>3. CASE GoesRefused(f)
  <2>1. WholeOrRefused'
    BY <1>0, <1>2, <1>3 DEF WholeInv, WholeOrRefused, GoesRefused
  <2>2. assemblies' \subseteq Corr
    BY <1>0, DispatchType DEF PollStray
  <2>3. AssemblyInv'
    BY <1>0, <1>2, <1>3, <2>2 DEF WholeInv, AssemblyInv, GoesRefused
  <2> QED
    BY <2>1, <2>3 DEF WholeInv
<1>4. ~Invalid(f) => f.hdr # OwnHdr[c] /\ (c \in assemblies => assembly[c].hdr # OwnHdr[c])
  BY <1>0 DEF Invalid
<1>5. CASE GoesOn(f)
  <2>1. \A d \in Corr : Refused(d)' <=> Refused(d)
    BY <1>5 DEF Refused, GoesOn
  <2>2. WholeOrRefused'
    BY <1>0, <1>2, <1>5, <2>1 DEF WholeInv, WholeOrRefused, GoesOn
  <2>3. assembly'[c].hdr # OwnHdr[c]
    BY <1>1, <1>2, <1>4, <1>5 DEF GoesOn, Extended
  <2>4. AssemblyInv'
    BY <1>0, <1>1, <1>2, <1>4, <1>5, <2>1, <2>3 DEF WholeInv, AssemblyInv, GoesOn
  <2> QED
    BY <2>2, <2>4 DEF WholeInv
<1>6. CASE GoesToHandler(f)
  <2>1. \A d \in Corr : Refused(d)' <=> Refused(d)
    BY <1>6 DEF Refused, GoesToHandler
  <2>2. work'[c].hdr # OwnHdr[c]
    BY <1>1, <1>2, <1>4, <1>6 DEF GoesToHandler
  <2>3. WholeOrRefused'
    BY <1>0, <1>1, <1>2, <1>6, <2>1, <2>2 DEF WholeInv, WholeOrRefused, GoesToHandler
  <2>4. AssemblyInv'
    BY <1>0, <1>1, <1>2, <1>4, <1>6, <2>1 DEF WholeInv, AssemblyInv, GoesToHandler
  <2> QED
    BY <2>3, <2>4 DEF WholeInv
<1> QED
  BY <1>0, <1>3, <1>5, <1>6, DispatchSplit

(* Every step keeps WholeOrRefused and the facts about assemblies it rests  *)
(* on: one step per action.                                                 *)
LEMMA NextWhole == TypeOK /\ WholeInv /\ [Next]_vars => WholeInv'
<1> SUFFICES ASSUME TypeOK, WholeInv, [Next]_vars PROVE WholeInv'
  OBVIOUS
<1> DEFINE Same == UNCHANGED <<sent, need, left, answered, assemblies, assembly>>
<1>a. ASSUME Same, jobs' \subseteq jobs,
             \A c \in jobs' : work'[c].hdr = work[c].hdr /\ work'[c].body = work[c].body
      PROVE  WholeInv'
  BY <1>a DEF WholeInv, WholeOrRefused, AssemblyInv, Refused
<1>b. ASSUME Same, UNCHANGED <<jobs, work>> PROVE WholeInv'
  BY <1>a, <1>b
<1> USE DEF tableVars, workerVars, replyVars, callerVars, hostVars, loopVars
<1>1. CASE EmitFragment
  BY <1>1, <1>b DEF EmitFragment
<1>2. CASE ReplyFails
  BY <1>2, <1>b DEF ReplyFails
<1>3. CASE DrainDone
  <2>1. Head(done) \in Corr
    BY <1>3, ForgetType DEF DrainDone
  <2>2. \A d \in Corr : Refused(d) => Refused(d)'
    BY <1>3, <2>1, RefusedGrows DEF DrainDone
  <2>3. /\ UNCHANGED <<assemblies, assembly, sent, need, left>>
        /\ jobs' = jobs \ {Head(done)}
        /\ \A d \in jobs' : work'[d] = work[d]
    BY <1>3, <2>1 DEF DrainDone, ForgetJob, TypeOK
  <2>4. jobs \subseteq Corr /\ assemblies \subseteq Corr
    BY DEF TypeOK
  <2>5. WholeOrRefused'
    BY <2>2, <2>3, <2>4 DEF WholeInv, WholeOrRefused
  <2>6. AssemblyInv'
    BY <2>2, <2>3, <2>4 DEF WholeInv, AssemblyInv
  <2> QED
    BY <2>5, <2>6 DEF WholeInv
<1>4. CASE DrainEmpty
  BY <1>4, <1>b DEF DrainEmpty
<1>5. CASE BeginShutdown
  <2>1. \A c \in jobs : work'[c].hdr = work[c].hdr /\ work'[c].body = work[c].body
    BY <1>5 DEF BeginShutdown, TypeOK, Works
  <2> QED
    BY <1>5, <2>1, <1>a DEF BeginShutdown
<1>6. CASE ShutdownReceive
  <2>1. jobs' = jobs \ {Head(done)} /\ \A c \in jobs' : work'[c] = work[c]
    BY <1>6, ForgetType DEF ShutdownReceive, ForgetJob, TypeOK
  <2> QED
    BY <1>6, <2>1, <1>a DEF ShutdownReceive, ForgetJob
<1>7. CASE ShutdownDone
  BY <1>7, <1>b DEF ShutdownDone
<1>8. CASE CheckEpoch
  BY <1>8, <1>b DEF CheckEpoch
<1>9. CASE PollEpoch
  BY <1>9, <1>b DEF PollEpoch
<1>10. CASE PollNothing
  BY <1>10, <1>b DEF PollNothing
<1>11. ASSUME NEW c \in Corr, PollCancel(c) PROVE WholeInv'
  <2>1. /\ UNCHANGED <<jobs, answered, sent, need>> /\ left' = left \cup {c}
        /\ assemblies' = assemblies \ {c}
        /\ \A d \in Corr \ {c} : assembly'[d] = assembly[d]
        /\ \A d \in jobs : work'[d].hdr = work[d].hdr /\ work'[d].body = work[d].body
    BY <1>11 DEF PollCancel, DropAssembly, TypeOK, Works
  <2>2. \A d \in Corr : Refused(d)' <=> Refused(d)
    BY <2>1 DEF Refused
  <2>3. WholeOrRefused'
    BY <2>1, <2>2 DEF WholeInv, WholeOrRefused, TypeOK
  <2>4. AssemblyInv'
    BY <2>1, <2>2 DEF WholeInv, AssemblyInv, TypeOK
  <2> QED
    BY <2>3, <2>4 DEF WholeInv
<1>12. ASSUME NEW c \in Corr, PollRequest(c) PROVE WholeInv'
  BY <1>12, RequestWhole
<1>13. ASSUME NEW f \in Frames, PollStray(f) PROVE WholeInv'
  BY <1>13, StrayWhole
<1>14. ASSUME NEW c \in Corr, HandlerReturn(c) PROVE WholeInv'
  BY <1>14, <1>b DEF HandlerReturn
<1>15. ASSUME NEW c \in Corr, HandlerSend(c) PROVE WholeInv'
  BY <1>15, <1>b DEF HandlerSend
<1>16. CASE HostTake
  BY <1>16, <1>b DEF HostTake
<1>17. CASE CancelCtx
  BY <1>17, <1>b DEF CancelCtx
<1>18. CASE BumpEpoch
  BY <1>18, <1>b DEF BumpEpoch
<1>19. ASSUME NEW h \in Timed, Expire(h) PROVE WholeInv'
  BY <1>19, <1>b DEF Expire
<1>20. CASE UNCHANGED vars
  BY <1>20, <1>b DEF vars
<1> QED
  BY <1>1, <1>2, <1>3, <1>4, <1>5, <1>6, <1>7, <1>8, <1>9, <1>10, <1>11, <1>12,
     <1>13, <1>14, <1>15, <1>16, <1>17, <1>18, <1>19, <1>20
  DEF Next, Loop, Exited

(* A handler is only ever given the whole request of its caller, or the     *)
(* caller has already been sent a refusal for it: whatever the number of    *)
(* callers, the sizes of the tables and the frames that others inject.      *)
THEOREM HandlersSeeWholeRequests == Spec => []WholeOrRefused
<1>1. Init => WholeInv
  BY DEF Init, WholeInv, WholeOrRefused, AssemblyInv
<1>2. WholeInv => WholeOrRefused
  BY DEF WholeInv
<1> QED
  BY <1>1, <1>2, TypeCorrect, NextWhole, PTL DEF Spec

-----------------------------------------------------------------------------
(* Bodies and replies: the steps that matter to them.                       *)

(* Jobs may end or be cancelled, and nothing else that bodies or replies    *)
(* depend on changes.                                                       *)
Quiet ==
  /\ UNCHANGED <<sent, need, faults, answered, assemblies, assembly>>
  /\ jobs' \subseteq jobs
  /\ \A c \in jobs' : work'[c].hdr = work[c].hdr /\ work'[c].body = work[c].body

(* Every step but the four that poll a frame or answer a job is quiet.      *)
LEMMA NextSplit ==
  ASSUME TypeOK, [Next]_vars
  PROVE  \/ Quiet \/ DrainDone
         \/ \E c \in Corr : PollCancel(c) \/ PollRequest(c)
         \/ \E f \in Frames : PollStray(f)
<1>a. ASSUME UNCHANGED <<sent, need, faults, answered, assemblies, assembly, jobs, work>>
      PROVE  Quiet
  BY <1>a DEF Quiet
<1> USE DEF tableVars, workerVars, replyVars, callerVars, hostVars, loopVars
<1>1. CASE EmitFragment
  BY <1>1, <1>a DEF EmitFragment
<1>2. CASE ReplyFails
  BY <1>2, <1>a DEF ReplyFails
<1>4. CASE DrainEmpty
  BY <1>4, <1>a DEF DrainEmpty
<1>5. CASE BeginShutdown
  <2>1. \A c \in jobs : work'[c].hdr = work[c].hdr /\ work'[c].body = work[c].body
    BY <1>5 DEF BeginShutdown, TypeOK, Works
  <2> QED
    BY <1>5, <2>1 DEF BeginShutdown, Quiet
<1>6. CASE ShutdownReceive
  <2>1. jobs' = jobs \ {Head(done)} /\ \A c \in jobs' : work'[c] = work[c]
    BY <1>6, ForgetType DEF ShutdownReceive, ForgetJob, TypeOK
  <2> QED
    BY <1>6, <2>1 DEF ShutdownReceive, ForgetJob, Quiet
<1>7. CASE ShutdownDone
  BY <1>7, <1>a DEF ShutdownDone
<1>8. CASE CheckEpoch
  BY <1>8, <1>a DEF CheckEpoch
<1>9. CASE PollEpoch
  BY <1>9, <1>a DEF PollEpoch
<1>10. CASE PollNothing
  BY <1>10, <1>a DEF PollNothing
<1>14. ASSUME NEW c \in Corr, HandlerReturn(c) PROVE Quiet
  BY <1>14, <1>a DEF HandlerReturn
<1>15. ASSUME NEW c \in Corr, HandlerSend(c) PROVE Quiet
  BY <1>15, <1>a DEF HandlerSend
<1>16. CASE HostTake
  BY <1>16, <1>a DEF HostTake
<1>17. CASE CancelCtx
  BY <1>17, <1>a DEF CancelCtx
<1>18. CASE BumpEpoch
  BY <1>18, <1>a DEF BumpEpoch
<1>19. ASSUME NEW h \in Timed, Expire(h) PROVE Quiet
  BY <1>19, <1>a DEF Expire
<1>20. CASE UNCHANGED vars
  BY <1>20, <1>a DEF vars
<1> QED
  BY <1>1, <1>2, <1>4, <1>5, <1>6, <1>7, <1>8, <1>9, <1>10,
     <1>14, <1>15, <1>16, <1>17, <1>18, <1>19, <1>20
  DEF Next, Loop, Exited

(* What an answered job and a cancel change.                                *)
LEMMA DrainDoneEffect ==
  ASSUME TypeOK, DrainDone
  PROVE  /\ Head(done) \in Corr
         /\ UNCHANGED <<sent, need, faults, assemblies, assembly>>
         /\ jobs' = jobs \ {Head(done)} /\ \A c \in jobs' : work'[c] = work[c]
  BY ForgetType DEF DrainDone, ForgetJob, TypeOK, callerVars

LEMMA PollCancelEffect ==
  ASSUME TypeOK, NEW c \in Corr, PollCancel(c)
  PROVE  /\ UNCHANGED <<sent, need, faults, answered, jobs>>
         /\ assemblies' = assemblies \ {c}
         /\ \A d \in Corr \ {c} : assembly'[d] = assembly[d]
         /\ \A d \in jobs : work'[d].hdr = work[d].hdr /\ work'[d].body = work[d].body
  BY DEF PollCancel, DropAssembly, TypeOK, Works, replyVars

-----------------------------------------------------------------------------
(* Bodies.                                                                  *)

(* The fragments first to last of a request.                                *)
Run(first, last) == [i \in 1..(last - first + 1) |-> first + i - 1]

LEMMA RunAppend ==
  ASSUME NEW first \in Nat, NEW n \in Nat, first <= n
  PROVE  Append(Run(first, n), n + 1) = Run(first, n + 1)
<1> DEFINE k == n - first + 1
<1>0. k \in Nat /\ n + 1 - first + 1 = k + 1 /\ first + (k + 1) - 1 = n + 1
  OBVIOUS
<1>1. /\ Run(first, n) \in Seq(Int) /\ Len(Run(first, n)) = k
      /\ \A i \in 1..k : Run(first, n)[i] = first + i - 1
  BY <1>0 DEF Run
<1>2. /\ Run(first, n + 1) \in Seq(Int) /\ Len(Run(first, n + 1)) = k + 1
      /\ \A i \in 1..(k + 1) : Run(first, n + 1)[i] = first + i - 1
  BY <1>0 DEF Run
<1>3. /\ Append(Run(first, n), n + 1) \in Seq(Int)
      /\ Len(Append(Run(first, n), n + 1)) = k + 1
      /\ \A i \in 1..k : Append(Run(first, n), n + 1)[i] = Run(first, n)[i]
      /\ Append(Run(first, n), n + 1)[k + 1] = n + 1
  BY <1>1, AppendProperties
<1> HIDE DEF k
<1>4. \A i \in 1..(k + 1) : Append(Run(first, n), n + 1)[i] = Run(first, n + 1)[i]
  <2> SUFFICES ASSUME NEW i \in 1..(k + 1)
               PROVE  Append(Run(first, n), n + 1)[i] = Run(first, n + 1)[i]
    OBVIOUS
  <2>1. i \in 1..k \/ i = k + 1
    BY <1>0
  <2> QED
    BY <2>1, <1>0, <1>1, <1>2, <1>3
<1> QED
  BY <1>2, <1>3, <1>4, SeqEqual

LEMMA RunOfOne ==
  ASSUME NEW n \in Nat
  PROVE  Append(<<>>, n) = Run(n, n)
  BY n - n + 1 = 1 DEF Run

(* Body b belongs to the caller of c, whose fragments up to the n-th were   *)
(* polled, or contains none of them.                                        *)
Unspliced(c, hdr, b, n) ==
  IF hdr = OwnHdr[c] THEN \E from \in 1..n : b = Run(from, n)
                     ELSE \A i \in 1..Len(b) : b[i] = 0

SpliceInv ==
  /\ \A c \in assemblies : Unspliced(c, assembly[c].hdr, assembly[c].body, sent[c])
  /\ \A c \in jobs : Unspliced(c, work[c].hdr, work[c].body, need[c])

(* A caller's next fragment continues its run.                              *)
LEMMA OwnExtends ==
  ASSUME TypeOK, SpliceInv, NEW c \in Corr, sent[c] < need[c], ~Invalid(NextFrame(c))
  PROVE  /\ Extended(NextFrame(c)).hdr = OwnHdr[c]
         /\ Unspliced(c, OwnHdr[c], Extended(NextFrame(c)).body, sent[c] + 1)
<1> DEFINE n == sent[c]
           b == Extended(NextFrame(c)).body
<1>0. n \in Nat /\ Extended(NextFrame(c)).hdr = OwnHdr[c]
  BY DEF TypeOK, Extended, NextFrame
<1>1. CASE c \in assemblies
  <2>1. assembly[c].hdr = OwnHdr[c] /\ b = Append(assembly[c].body, n + 1)
    BY <1>1 DEF Invalid, NextFrame, Extended
  <2>2. PICK from \in 1..n : assembly[c].body = Run(from, n)
    BY <1>1, <2>1 DEF SpliceInv, Unspliced
  <2>3. from \in Nat /\ from <= n /\ from \in 1..(n + 1)
    BY <1>0
  <2>4. Append(Run(from, n), n + 1) = Run(from, n + 1)
    BY <1>0, <2>3, RunAppend
  <2> QED
    BY <1>0, <2>1, <2>2, <2>3, <2>4 DEF Unspliced
<1>2. CASE c \notin assemblies
  <2>1. b = Append(<<>>, n + 1)
    BY <1>2 DEF NextFrame, Extended
  <2>2. b = Run(n + 1, n + 1) /\ n + 1 \in 1..(n + 1)
    BY <1>0, <2>1, RunOfOne
  <2> QED
    BY <1>0, <2>2 DEF Unspliced
<1> QED
  BY <1>1, <1>2

(* A stray frame's body holds nothing of the caller's.                      *)
LEMMA StrayExtends ==
  ASSUME TypeOK, SpliceInv, NEW f \in Frames, PollStray(f), ~Invalid(f)
  PROVE  /\ f.hdr # OwnHdr[f.corr] /\ Extended(f).hdr = f.hdr
         /\ \A n : Unspliced(f.corr, f.hdr, Extended(f).body, n)
<1> DEFINE c == f.corr
           old == IF c \in assemblies THEN assembly[c].body ELSE <<>>
<1>0. c \in Corr /\ f.hdr # OwnHdr[c] /\ f.tok = 0 /\ Extended(f).hdr = f.hdr
      /\ Extended(f).body = Append(old, 0)
  BY DEF PollStray, Invalid, Extended, Frames
<1>1. old \in Seq(Nat) /\ \A i \in 1..Len(old) : old[i] = 0
  <2>1. CASE c \in assemblies
    <3>1. assembly[c] \in Assemblies /\ assembly[c].hdr # OwnHdr[c]
      BY <1>0, <2>1 DEF Invalid, TypeOK
    <3>2. assembly[c].body \in Seq(0..MaxFrags)
      BY <3>1 DEF Assemblies, Bodies
    <3>3. assembly[c].body \in Seq(Nat)
      BY <3>2, ConstantsAssumption
    <3> QED
      BY <2>1, <3>1, <3>3 DEF SpliceInv, Unspliced
  <2>2. CASE c \notin assemblies
    BY <2>2
  <2> QED
    BY <2>1, <2>2
<1> HIDE DEF old
<1>2. \A i \in 1..Len(Append(old, 0)) : Append(old, 0)[i] = 0
  <2>1. /\ Len(Append(old, 0)) = Len(old) + 1 /\ Len(old) \in Nat
        /\ \A i \in 1..Len(old) : Append(old, 0)[i] = old[i]
        /\ Append(old, 0)[Len(old) + 1] = 0
    BY <1>1, AppendProperties, LenProperties
  <2>2. \A i \in 1..(Len(old) + 1) : i \in 1..Len(old) \/ i = Len(old) + 1
    BY <2>1
  <2> QED
    BY <1>1, <2>1, <2>2
<1> QED
  BY <1>0, <1>2 DEF Unspliced

(* A frame of c: whatever becomes of it, the other correlations' bodies are *)
(* left alone, and c's become what Extended makes of them.                  *)
LEMMA DispatchSplices ==
  ASSUME TypeOK, SpliceInv, NEW f \in Frames, pc = "poll", Dispatch(f), need' = need,
         \A d \in Corr \ {f.corr} : sent'[d] = sent[d],
         ~Invalid(f) => /\ Extended(f).hdr = f.hdr
                        /\ Unspliced(f.corr, f.hdr, Extended(f).body, sent'[f.corr]),
         ~Invalid(f) /\ ~f.more => Unspliced(f.corr, f.hdr, Extended(f).body, need[f.corr])
  PROVE  SpliceInv'
<1> DEFINE c == f.corr
<1>0. c \in Corr /\ jobs \subseteq Corr /\ assemblies \subseteq Corr
      /\ assembly \in [Corr -> Assemblies] /\ work \in [Corr -> Works]
  BY DEF TypeOK, Frames
<1>1. assemblies' \subseteq Corr
  BY DispatchType
<1>2. CASE GoesRefused(f)
  BY <1>0, <1>1, <1>2 DEF GoesRefused, SpliceInv, Unspliced
<1>3. CASE GoesOn(f)
  <2>1. /\ assemblies' = assemblies \cup {c} /\ UNCHANGED <<jobs, work>> /\ ~Invalid(f)
        /\ assembly'[c] = Extended(f)
        /\ \A d \in Corr \ {c} : assembly'[d] = assembly[d]
    BY <1>0, <1>3 DEF GoesOn
  <2>2. Unspliced(c, assembly'[c].hdr, assembly'[c].body, sent'[c])
    BY <2>1
  <2>3. \A d \in assemblies' : Unspliced(d, assembly'[d].hdr, assembly'[d].body, sent'[d])
    BY <1>0, <2>1, <2>2 DEF SpliceInv
  <2> QED
    BY <2>1, <2>3 DEF SpliceInv, Unspliced
<1>4. CASE GoesToHandler(f)
  <2>1. /\ assemblies' = assemblies \ {c} /\ jobs' = jobs \cup {c} /\ ~Invalid(f) /\ ~f.more
        /\ work'[c].hdr = f.hdr /\ work'[c].body = Extended(f).body
        /\ \A d \in Corr \ {c} : assembly'[d] = assembly[d] /\ work'[d] = work[d]
    BY <1>0, <1>4 DEF GoesToHandler
  <2>2. Unspliced(c, work'[c].hdr, work'[c].body, need[c])
    BY <2>1
  <2>3. \A d \in jobs' : Unspliced(d, work'[d].hdr, work'[d].body, need'[d])
    BY <1>0, <2>1, <2>2 DEF SpliceInv
  <2>4. \A d \in assemblies' : Unspliced(d, assembly'[d].hdr, assembly'[d].body, sent'[d])
    BY <1>0, <2>1 DEF SpliceInv
  <2> QED
    BY <2>3, <2>4 DEF SpliceInv, Unspliced
<1> QED
  BY <1>2, <1>3, <1>4, DispatchSplit

LEMMA NextSplices == TypeOK /\ SpliceInv /\ [Next]_vars => SpliceInv'
<1> SUFFICES ASSUME TypeOK, SpliceInv, [Next]_vars PROVE SpliceInv'
  OBVIOUS
<1>1. CASE Quiet
  BY <1>1 DEF Quiet, SpliceInv, Unspliced
<1>2. CASE DrainDone
  BY <1>2, DrainDoneEffect DEF SpliceInv, Unspliced
<1>3. ASSUME NEW c \in Corr, PollCancel(c) PROVE SpliceInv'
  <2>1. assemblies \subseteq Corr /\ jobs \subseteq Corr
    BY DEF TypeOK
  <2>2. /\ UNCHANGED <<sent, need, jobs>> /\ assemblies' = assemblies \ {c}
        /\ \A d \in Corr \ {c} : assembly'[d] = assembly[d]
        /\ \A d \in jobs : work'[d].hdr = work[d].hdr /\ work'[d].body = work[d].body
    BY <1>3, PollCancelEffect
  <2>3. \A d \in assemblies' : Unspliced(d, assembly'[d].hdr, assembly'[d].body, sent'[d])
    BY <2>1, <2>2 DEF SpliceInv
  <2>4. \A d \in jobs' : Unspliced(d, work'[d].hdr, work'[d].body, need'[d])
    BY <2>2 DEF SpliceInv
  <2> QED
    BY <2>3, <2>4 DEF SpliceInv, Unspliced
<1>4. ASSUME NEW c \in Corr, PollRequest(c) PROVE SpliceInv'
  <2>1. PICK f \in Frames : f = NextFrame(c)
    BY <1>4, NextFrameType DEF PollRequest
  <2>2. /\ sent[c] < need[c] /\ sent' = [sent EXCEPT ![c] = sent[c] + 1]
        /\ Dispatch(f) /\ need' = need /\ pc = "poll"
    BY <1>4, <2>1 DEF PollRequest
  <2>3. /\ f.corr = c /\ f.hdr = OwnHdr[c] /\ (f.more <=> sent[c] + 1 < need[c])
    BY <2>1 DEF NextFrame
  <2>4. /\ sent'[c] = sent[c] + 1 /\ sent[c] \in Nat /\ need[c] \in Nat
        /\ \A d \in Corr \ {c} : sent'[d] = sent[d]
    BY <2>2 DEF TypeOK
  <2>5. ~f.more => sent[c] + 1 = need[c]
    BY <2>2, <2>3, <2>4
  <2>6. ~Invalid(f) => /\ Extended(f).hdr = OwnHdr[c]
                       /\ Unspliced(c, OwnHdr[c], Extended(f).body, sent[c] + 1)
    BY <2>1, <2>2, OwnExtends
  <2> QED
    BY <2>2, <2>3, <2>4, <2>5, <2>6, DispatchSplices
<1>5. ASSUME NEW f \in Frames, PollStray(f) PROVE SpliceInv'
  <2>1. Dispatch(f) /\ need' = need /\ sent' = sent /\ pc = "poll"
    BY <1>5 DEF PollStray
  <2> QED
    BY <1>5, <2>1, StrayExtends, DispatchSplices
<1> QED
  BY <1>1, <1>2, <1>3, <1>4, <1>5, NextSplit

(* A body a handler is given is an unbroken run of the caller's fragments   *)
(* up to the last, or holds none of them, whatever frames others inject and *)
(* whichever fragments the loop refuses.                                    *)
THEOREM BodiesNeverSpliced == Spec => []NoSplice
<1>1. Init => SpliceInv
  BY DEF Init, SpliceInv
<1>2. SpliceInv => NoSplice
  BY DEF SpliceInv, Unspliced, Run, NoSplice
<1> QED
  BY <1>1, <1>2, TypeCorrect, NextSplices, PTL DEF Spec

-----------------------------------------------------------------------------
(* Replies.                                                                 *)

(* The reply to a fragment for which there is no room.                      *)
NoRoom == [status |-> "Internal", by |-> "loop"]

(* Without stray frames c's assembly carries the caller's header, c has no  *)
(* job before its last fragment is polled, and a first reply other than     *)
(* NoRoom is the last: the request is over.                                 *)
Decided(c) ==
  /\ c \in assemblies => assembly[c].hdr = OwnHdr[c]
  /\ sent[c] < need[c] => c \notin jobs
  /\ \/ answered[c] = <<>>
     \/ answered[c][1] = NoRoom
     \/ Len(answered[c]) = 1 /\ sent[c] = need[c] /\ c \notin jobs

ReplyInv == faults = Faults => \A c \in Corr : Decided(c)

(* Appending a reply keeps the first, or makes it.                          *)
LEMMA FirstReply ==
  ASSUME TypeOK, NEW c \in Corr, NEW a
  PROVE  IF answered[c] = <<>>
         THEN Append(answered[c], a)[1] = a /\ Len(Append(answered[c], a)) = 1
         ELSE Append(answered[c], a)[1] = answered[c][1]
<1>1. answered[c] \in Seq(Answers \cup {a}) /\ Len(answered[c]) \in Nat /\ a \in Answers \cup {a}
  BY LenProperties DEF TypeOK
<1>2. /\ Len(Append(answered[c], a)) = Len(answered[c]) + 1
      /\ \A i \in 1..Len(answered[c]) : Append(answered[c], a)[i] = answered[c][i]
      /\ Append(answered[c], a)[Len(answered[c]) + 1] = a
  BY <1>1, AppendProperties
<1>3. answered[c] # <<>> => 1 \in 1..Len(answered[c])
  BY <1>1, EmptySeq
<1> QED
  BY <1>2, <1>3

LEMMA BeginReplyEffect ==
  ASSUME TypeOK, NEW c \in Corr, NEW r, NEW by, BeginReply(c, r, by)
  PROVE  /\ answered'[c] = Append(answered[c], [status |-> Normalise(r).status, by |-> by])
         /\ \A d \in Corr \ {c} : answered'[d] = answered[d]
  BY DEF BeginReply, TypeOK

(* There is room for the reply NoRoom whatever MaxBody is.                  *)
LEMMA RefuseInternal ==
  ASSUME TypeOK, NEW c \in Corr, Refuse(c, "Internal")
  PROVE  /\ answered'[c] = Append(answered[c], NoRoom)
         /\ \A d \in Corr \ {c} : answered'[d] = answered[d]
<1>1. Normalise([status |-> "Internal", parts |-> 0]).status = "Internal"
  BY ConstantsAssumption DEF Normalise, Statuses
<1> QED
  BY <1>1, BeginReplyEffect DEF Refuse, NoRoom

(* What becomes of the next fragment of c's own request, which is valid.    *)
LEMMA OwnFragment ==
  ASSUME TypeOK, NEW c \in Corr, Decided(c), PollRequest(c)
  PROVE  /\ sent'[c] = sent[c] + 1 /\ sent[c] < need[c] /\ UNCHANGED <<need, faults>>
         /\ \A d \in Corr \ {c} : /\ sent'[d] = sent[d] /\ answered'[d] = answered[d]
                                  /\ d \in jobs' <=> d \in jobs
                                  /\ d \in assemblies' => d \in assemblies
                                  /\ assembly'[d] = assembly[d]
         /\ c \in assemblies' => assembly'[c].hdr = OwnHdr[c]
         /\ \/ answered'[c] = Append(answered[c], NoRoom) /\ c \notin jobs'
            \/ answered'[c] = answered[c] /\ c \notin jobs'
            \/ answered'[c] = answered[c] /\ sent'[c] = need[c]
            \/ /\ \E a : answered'[c] = Append(answered[c], a)
               /\ c \notin jobs' /\ sent'[c] = need[c]
<1>f. PICK f \in Frames : f = NextFrame(c)
  BY NextFrameType DEF PollRequest
<1>0. /\ sent[c] < need[c] /\ sent' = [sent EXCEPT ![c] = sent[c] + 1]
      /\ Dispatch(f) /\ UNCHANGED <<need, faults>> /\ pc = "poll"
  BY <1>f DEF PollRequest
<1>1. /\ f.corr = c /\ f.hdr = OwnHdr[c] /\ f.wf /\ (f.more <=> sent[c] + 1 < need[c])
  BY <1>f DEF NextFrame
<1>2. /\ sent[c] \in Nat /\ need[c] \in Nat /\ sent'[c] = sent[c] + 1
      /\ \A d \in Corr \ {c} : sent'[d] = sent[d]
  BY <1>0 DEF TypeOK
<1>3. jobs \subseteq Corr /\ assemblies \subseteq Corr /\ c \notin jobs
      /\ assembly \in [Corr -> Assemblies] /\ answered \in [Corr -> Seq(Answers)]
  BY <1>0 DEF TypeOK, Decided
<1>4. ~Invalid(f)
  BY <1>1, <1>3 DEF Invalid, Decided
<1>5. ~f.more => sent'[c] = need[c]
  BY <1>0, <1>1, <1>2
<1>6. ASSUME DropAssembly(c)
      PROVE  c \notin assemblies' /\ \A d \in Corr \ {c} : /\ d \in assemblies' => d \in assemblies
                                                          /\ assembly'[d] = assembly[d]
  BY <1>3, <1>6 DEF DropAssembly
<1>7. CASE RefuseAssembly(f)
  <2>1. Refuse(c, "Internal") /\ UNCHANGED <<assemblies, assembly, jobs>> /\ c \notin assemblies
    BY <1>1, <1>7 DEF RefuseAssembly, tableVars
  <2> QED
    BY <1>0, <1>2, <1>3, <2>1, RefuseInternal
<1>8. CASE Overflow(f)
  <2>1. Refuse(c, "Internal") /\ DropAssembly(c) /\ UNCHANGED jobs
    BY <1>1, <1>8 DEF Overflow
  <2> QED
    BY <1>0, <1>2, <1>3, <1>6, <2>1, RefuseInternal
<1>9. CASE Extend(f)
  <2>1. /\ assemblies' = assemblies \cup {c} /\ UNCHANGED <<jobs, answered>>
        /\ assembly' = [assembly EXCEPT ![c] = Extended(f)] /\ Extended(f).hdr = OwnHdr[c]
    BY <1>1, <1>9 DEF Extend, replyVars, Extended
  <2> QED
    BY <1>0, <1>2, <1>3, <2>1
<1>10. CASE RefuseComplete(f)
  <2>1. PICK status \in Refusal(f) : Refuse(c, status)
    BY <1>1, <1>10 DEF RefuseComplete
  <2>2. DropAssembly(c) /\ UNCHANGED jobs /\ ~f.more
    BY <1>1, <1>10 DEF RefuseComplete
  <2>3. /\ \E a : answered'[c] = Append(answered[c], a)
        /\ \A d \in Corr \ {c} : answered'[d] = answered[d]
    BY <2>1, BeginReplyEffect DEF Refuse
  <2> QED
    BY <1>0, <1>2, <1>3, <1>5, <1>6, <2>2, <2>3
<1>11. CASE Spawn(f)
  <2>1. DropAssembly(c) /\ jobs' = jobs \cup {c} /\ ~f.more /\ UNCHANGED answered
    BY <1>1, <1>11 DEF Spawn, replyVars
  <2> QED
    BY <1>0, <1>2, <1>3, <1>5, <1>6, <2>1
<1> QED
  BY <1>0, <1>4, <1>7, <1>8, <1>9, <1>10, <1>11 DEF Dispatch, RejectInvalid

LEMMA RequestDecides ==
  ASSUME TypeOK, ReplyInv, faults = Faults, NEW c \in Corr, PollRequest(c), NEW d \in Corr
  PROVE  Decided(d)'
<1>0. \A e \in Corr : Decided(e)
  BY DEF ReplyInv
<1>1. /\ sent'[c] = sent[c] + 1 /\ sent[c] < need[c] /\ need' = need
      /\ sent[c] \in Nat /\ need[c] \in Nat
  BY <1>0, OwnFragment DEF TypeOK
<1>2. CASE d # c
  BY <1>0, <1>2, OwnFragment DEF Decided
<1>3. CASE d = c
  <2>1. c \in assemblies' => assembly'[c].hdr = OwnHdr[c]
    BY <1>0, OwnFragment
  <2>2. answered[c] = <<>> \/ answered[c][1] = NoRoom
    BY <1>0, <1>1 DEF Decided
  <2>3. CASE answered'[c] = Append(answered[c], NoRoom) /\ c \notin jobs'
    <3>1. Append(answered[c], NoRoom)[1] = NoRoom
      BY <2>2, FirstReply
    <3> QED
      BY <1>1, <1>3, <2>1, <2>3, <3>1 DEF Decided
  <2>4. CASE answered'[c] = answered[c] /\ c \notin jobs'
    BY <1>1, <1>3, <2>1, <2>2, <2>4 DEF Decided
  <2>5. CASE answered'[c] = answered[c] /\ sent'[c] = need[c]
    BY <1>1, <1>3, <2>1, <2>2, <2>5 DEF Decided
  <2>6. CASE /\ \E a : answered'[c] = Append(answered[c], a)
             /\ c \notin jobs' /\ sent'[c] = need[c]
    <3>1. answered'[c][1] = NoRoom \/ Len(answered'[c]) = 1
      BY <2>2, <2>6, FirstReply
    <3> QED
      BY <1>1, <1>3, <2>1, <2>6, <3>1 DEF Decided
  <2> QED
    BY <1>0, <2>3, <2>4, <2>5, <2>6, OwnFragment
<1> QED
  BY <1>2, <1>3

LEMMA NextReplies == IInv /\ ReplyInv /\ [Next]_vars => ReplyInv'
<1> SUFFICES ASSUME IInv, ReplyInv, [Next]_vars, faults' = Faults, NEW d \in Corr
             PROVE  Decided(d)'
  BY DEF ReplyInv
<1>a. TypeOK /\ faults \in 0..Faults /\ Faults \in Nat /\ jobs \subseteq Corr /\ assemblies \subseteq Corr
  BY ConstantsAssumption DEF IInv, TypeOK
<1>1. CASE Quiet
  BY <1>1 DEF Quiet, ReplyInv, Decided
<1>2. CASE DrainDone
  <2> DEFINE c == Head(done)
  <2>1. /\ c \in Corr /\ UNCHANGED <<sent, need, faults, assemblies, assembly>>
        /\ jobs' = jobs \ {c}
    BY <1>2, <1>a, DrainDoneEffect
  <2>2. done \in Seq(Corr) /\ done # <<>> /\ 1 \in 1..Len(done) /\ c = done[1]
    BY <1>2, <1>a, LenProperties, EmptySeq DEF DrainDone, TypeOK
  <2>3. c \in jobs
    BY <2>2 DEF IInv, WorkersInv
  <2>4. /\ \E a : answered'[c] = Append(answered[c], a)
        /\ \A e \in Corr \ {c} : answered'[e] = answered[e]
    BY <1>2, <1>a, <2>1, BeginReplyEffect DEF DrainDone
  <2> HIDE DEF c
  <2>5. Decided(d)
    BY <2>1 DEF ReplyInv
  <2>6. CASE d = c
    <3>1. answered[c] = <<>> \/ answered[c][1] = NoRoom
      BY <2>3, <2>5, <2>6 DEF Decided
    <3>2. answered'[c][1] = NoRoom \/ Len(answered'[c]) = 1
      BY <1>a, <2>1, <2>4, <3>1, FirstReply
    <3>3. sent[c] = need[c]
      <4>1. sent[c] <= need[c] /\ sent[c] \in Nat /\ need[c] \in Nat
        BY <1>a, <2>1 DEF TypeOK
      <4> QED
        BY <4>1, <2>3, <2>5, <2>6 DEF Decided
    <3> QED
      BY <2>1, <2>5, <2>6, <3>2, <3>3 DEF Decided
  <2>7. CASE d # c
    BY <2>1, <2>4, <2>5, <2>7 DEF Decided
  <2> QED
    BY <2>6, <2>7
<1>3. ASSUME NEW c \in Corr, PollCancel(c) PROVE Decided(d)'
  <2>1. /\ UNCHANGED <<sent, need, faults, answered, jobs>>
        /\ assemblies' = assemblies \ {c}
        /\ \A e \in Corr \ {c} : assembly'[e] = assembly[e]
    BY <1>3, <1>a, PollCancelEffect
  <2> QED
    BY <2>1 DEF ReplyInv, Decided
<1>4. ASSUME NEW c \in Corr, PollRequest(c) PROVE Decided(d)'
  <2>1. faults = Faults
    BY <1>4 DEF PollRequest
  <2> QED
    BY <1>4, <1>a, <2>1, RequestDecides
<1>5. ASSUME NEW f \in Frames, PollStray(f) PROVE Decided(d)'
  <2>1. faults' = faults - 1
    BY <1>5 DEF PollStray
  <2> QED
    BY <1>a, <2>1
<1> QED
  BY <1>a, <1>1, <1>2, <1>3, <1>4, <1>5, NextSplit

(* As long as no stray frame uses a correlation, a caller is sent a second  *)
(* reply only when the first refused one of its fragments for want of room: *)
(* never after a handler's answer, a passed deadline or a missing handler.  *)
THEOREM AnswersAreFinal == Spec => []SecondReplyOnlyAfterRefusal
<1>1. Init => ReplyInv
  BY ConstantsAssumption DEF Init, ReplyInv, Decided
<1>2. TypeOK /\ ReplyInv => SecondReplyOnlyAfterRefusal
  <2> SUFFICES ASSUME TypeOK, ReplyInv, NEW c \in Corr, faults = Faults, Len(answered[c]) > 1
               PROVE  answered[c][1] = NoRoom
    BY DEF SecondReplyOnlyAfterRefusal, NoRoom
  <2>1. answered[c] \in Seq(Answers) /\ Len(answered[c]) \in Nat
    BY LenProperties DEF TypeOK
  <2>2. Len(answered[c]) # 1
    BY <2>1
  <2>3. answered[c] # <<>>
    BY <2>1
  <2> QED
    BY <2>2, <2>3 DEF ReplyInv, Decided
<1> QED
  BY <1>1, <1>2, InvariantHolds, TypeCorrect, NextReplies, PTL DEF Spec

=============================================================================
