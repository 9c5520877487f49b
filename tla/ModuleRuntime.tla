--------------------------- MODULE ModuleRuntime ---------------------------
(***************************************************************************)
(* The serving loop of a module process: runModuleClient, replyModuleResult *)
(* and runHandler of server-go/bus/module_runtime.go.                       *)
(*                                                                          *)
(* One loop goroutine polls the bus, assembles request fragments, starts    *)
(* one handler goroutine per complete request and sends the replies.        *)
(* Handlers hand their results back through the buffered channel done.      *)
(* Callers and the host are the environment: they send fragments and        *)
(* cancels, drain the outbound ring, restart (epoch) and end the context.   *)
(*                                                                          *)
(* Data: a correlation stands for one request of one caller.  A header is   *)
(* the combination of event kind, stage, deadline and trace that every      *)
(* fragment of a request repeats.  A body is the sequence of the fragment   *)
(* numbers put into it, 0 standing for a fragment the caller did not send.  *)
(* Sizes are counted in fragments.                                          *)
(***************************************************************************)
EXTENDS Integers, Sequences, FiniteSets

CONSTANTS
  Corr,           \* correlation identifiers
  Hdrs,           \* request headers
  Timed,          \* the headers with a nonzero deadline
  OwnHdr,         \* the header each caller writes
  MaxInFlight,    \* moduleMaxInFlight
  MaxBody,        \* ModuleMessageMaxBody
  OutCap,         \* capacity of the outbound ring
  MaxFrags,       \* bound: fragments of one request
  Faults,         \* bound: frames that no correct caller sends
  HandlerResults, \* what the handler may return
  HasHandler      \* config.Handler # nil

(* The statuses of the protocol, and what a handler may return before       *)
(* runHandler has looked at it.                                             *)
Statuses == {"OK", "CapabilityAbsent", "Cancelled", "DeadlineExceeded",
             "InvalidRequest", "Internal"}
RawResults == [status : Statuses \cup {"unknown"}, parts : Nat]

ASSUME ConstantsAssumption ==
  /\ IsFiniteSet(Corr)
  /\ Timed \subseteq Hdrs
  /\ OwnHdr \in [Corr -> Hdrs]
  /\ MaxInFlight \in Nat \ {0}
  /\ MaxBody \in Nat
  /\ OutCap \in Nat \ {0}
  /\ MaxFrags \in Nat \ {0}
  /\ Faults \in Nat
  /\ HandlerResults \subseteq RawResults /\ HandlerResults # {}
  /\ HasHandler \in BOOLEAN

VARIABLES
  pc,         \* where the loop goroutine is
  outcome,    \* why it left the loop
  now,        \* the clock it read at the top of the iteration: deadlines passed
  assemblies, \* keys of the assembly table
  assembly,   \* header and body of every assembly
  jobs,       \* keys of the job table
  work,       \* header, body and cancel flag of every job
  phase,      \* the handler goroutine of every job
  result,     \* what it is about to send to done
  done,       \* the channel of finished jobs
  reply,      \* the reply replyModuleResult is sending
  outbound,   \* the outbound ring
  answered,   \* history: the replies begun to each correlation
  need,       \* fragments of each caller's request
  sent,       \* fragments of it polled so far
  left,       \* callers that cancelled
  faults,     \* frames no correct caller sends, still to come
  ctx,        \* the context is done
  epoch,      \* the host has restarted since attach
  expired     \* the deadlines that have passed

loopVars   == <<pc, outcome, now>>
tableVars  == <<assemblies, assembly, jobs, work>>
workerVars == <<phase, result, done>>
replyVars  == <<reply, outbound, answered>>
callerVars == <<need, sent, left, faults>>
hostVars   == <<ctx, epoch, expired>>
vars == <<loopVars, tableVars, workerVars, replyVars, callerVars, hostVars>>

-----------------------------------------------------------------------------
NoHdr    == "none"
Blank    == [hdr |-> NoHdr, body |-> <<>>]
NoWork   == [hdr |-> NoHdr, body |-> <<>>, cancelled |-> FALSE]
NoResult == [status |-> "unknown", parts |-> 0]
NoReply  == [corr |-> "none", status |-> "none", left |-> 0]

Whole(n) == [i \in 1..n |-> i]

Bodies  == {b \in Seq(0..MaxFrags) : Len(b) <= MaxBody}
HdrType == Hdrs \cup {NoHdr}

(* moduleAssembly, moduleWork and moduleResult.                             *)
Assemblies == [hdr : HdrType, body : Bodies]
Works      == [hdr : HdrType, body : Bodies, cancelled : BOOLEAN]
Results    == [status : Statuses \cup {"unknown"}, parts : 0..MaxBody]

(* The reply being sent, with the fragments left, and a frame of it.        *)
Replies   == [corr : Corr, status : Statuses, left : 1..(MaxBody + 1)]
OutFrames == [corr : Corr, status : Statuses, more : BOOLEAN]

(* A reply a caller has been sent: who decided it, the loop or the handler. *)
Answers == [status : Statuses, by : {"loop", "handler"}]

(* Every variable has its type, the ring stays within its capacity, no      *)
(* caller sends more than its request and a reply is pending whenever the   *)
(* loop is in replyModuleResult.                                            *)
TypeOK ==
  /\ pc \in {"drain", "epoch", "poll", "reply", "shutdown", "exit"}
  /\ outcome \in {"serving", "ctx", "epoch", "error"}
  /\ now \subseteq Timed
  /\ assemblies \subseteq Corr
  /\ assembly \in [Corr -> Assemblies]
  /\ jobs \subseteq Corr
  /\ work \in [Corr -> Works]
  /\ phase \in [Corr -> {"none", "running", "sending"}]
  /\ result \in [Corr -> Results]
  /\ done \in Seq(Corr)
  /\ reply \in Replies \cup {NoReply}
  /\ pc = "reply" => reply \in Replies
  /\ outbound \in Seq(OutFrames) /\ Len(outbound) <= OutCap
  /\ answered \in [Corr -> Seq(Answers)]
  /\ need \in [Corr -> 1..MaxFrags]
  /\ sent \in [Corr -> 0..MaxFrags]
  /\ \A c \in Corr : sent[c] <= need[c]
  /\ left \subseteq Corr
  /\ faults \in 0..Faults
  /\ ctx \in BOOLEAN /\ epoch \in BOOLEAN
  /\ expired \subseteq Timed

Init ==
  /\ pc = "drain" /\ outcome = "serving" /\ now = {}
  /\ assemblies = {} /\ assembly = [c \in Corr |-> Blank]
  /\ jobs = {} /\ work = [c \in Corr |-> NoWork]
  /\ phase = [c \in Corr |-> "none"]
  /\ result = [c \in Corr |-> NoResult]
  /\ done = <<>>
  /\ reply = NoReply /\ outbound = <<>>
  /\ answered = [c \in Corr |-> <<>>]
  /\ need \in [Corr -> 1..MaxFrags]
  /\ sent = [c \in Corr |-> 0]
  /\ left = {} /\ faults = Faults
  /\ ctx = FALSE /\ epoch = FALSE /\ expired = {}

-----------------------------------------------------------------------------
(* Replies.                                                                 *)

(* Mutant: the size of a reply is not looked at.                            *)
NormaliseUnsized(r) ==
  IF r.status \notin Statuses THEN [status |-> "Internal", parts |-> 0]
  ELSE IF r.status # "OK" THEN [r EXCEPT !.parts = 0] ELSE r

(* An unknown status or an oversized body becomes Internal, and only an OK  *)
(* reply keeps its body.                                                    *)
Normalise(r) ==
  IF r.status \notin Statuses \/ r.parts > MaxBody
  THEN [status |-> "Internal", parts |-> 0]
  ELSE IF r.status # "OK" THEN [r EXCEPT !.parts = 0] ELSE r

(* replyModuleResult sends at least one fragment, with an empty body too.   *)
Fragments(r) == IF r.parts = 0 THEN 1 ELSE r.parts

BeginReply(c, r, by) ==
  LET n == Normalise(r) IN
  /\ reply' = [corr |-> c, status |-> n.status, left |-> Fragments(n)]
  /\ answered' = [answered EXCEPT ![c] =
                    Append(@, [status |-> n.status, by |-> by])]
  /\ pc' = "reply"
  /\ UNCHANGED <<outcome, outbound>>

(* A reply the loop makes by itself: it never has a body.                   *)
Refuse(c, status) ==
  BeginReply(c, [status |-> status, parts |-> 0], "loop")

Leave(why) == pc' = "exit" /\ outcome' = why

(* One ReplyFragment that finds room in the ring.                           *)
EmitFragment ==
  /\ pc = "reply" /\ ~epoch /\ Len(outbound) < OutCap
  /\ outbound' = Append(outbound, [corr |-> reply.corr, status |-> reply.status,
                                   more |-> reply.left > 1])
  /\ IF reply.left > 1
     THEN reply' = [reply EXCEPT !.left = @ - 1] /\ UNCHANGED pc
     ELSE reply' = NoReply /\ pc' = "drain"
  /\ UNCHANGED <<outcome, now, answered, tableVars, workerVars, callerVars,
                 hostVars>>

(* Neither emit nor the retry loop goes on after a host restart, and the    *)
(* retry loop ends with the context: both are errors to the caller.         *)
ReplyFails ==
  /\ pc = "reply"
  /\ epoch \/ (ctx /\ Len(outbound) = OutCap)
  /\ Leave("error") /\ reply' = NoReply
  /\ UNCHANGED <<now, outbound, answered, tableVars, workerVars, callerVars,
                 hostVars>>

-----------------------------------------------------------------------------
(* The top of the loop.                                                     *)

ForgetJob(c) ==
  /\ jobs' = jobs \ {c}
  /\ work' = [work EXCEPT ![c] = NoWork]
  /\ result' = [result EXCEPT ![c] = NoResult]
  /\ done' = Tail(done)
  /\ UNCHANGED <<assemblies, assembly, phase>>

(* finishModuleWork                                                         *)
DrainDone ==
  /\ pc = "drain" /\ done # <<>>
  /\ ForgetJob(Head(done))
  /\ BeginReply(Head(done), result[Head(done)], "handler")
  /\ UNCHANGED <<now, callerVars, hostVars>>

(* Mutant: the end of the context is not looked at.                         *)
DrainEmptyAlways ==
  /\ pc = "drain" /\ done = <<>>
  /\ pc' = "epoch"
  /\ UNCHANGED <<outcome, now, tableVars, workerVars, replyVars, callerVars,
                 hostVars>>

DrainEmpty ==
  /\ pc = "drain" /\ done = <<>> /\ ~ctx
  /\ pc' = "epoch"
  /\ UNCHANGED <<outcome, now, tableVars, workerVars, replyVars, callerVars,
                 hostVars>>

(* The context is done: every job is told to stop before the loop waits for *)
(* all of them.                                                             *)
BeginShutdown ==
  /\ pc = "drain" /\ done = <<>> /\ ctx
  /\ work' = [c \in Corr |-> IF c \in jobs THEN [work[c] EXCEPT !.cancelled = TRUE]
                                           ELSE work[c]]
  /\ pc' = "shutdown"
  /\ UNCHANGED <<outcome, now, assemblies, assembly, jobs, workerVars,
                 replyVars, callerVars, hostVars>>

ShutdownReceive ==
  /\ pc = "shutdown" /\ jobs # {} /\ done # <<>>
  /\ ForgetJob(Head(done))
  /\ UNCHANGED <<loopVars, replyVars, callerVars, hostVars>>

(* Mutant: the loop returns without waiting for the handlers.               *)
ShutdownAtOnce ==
  /\ pc = "shutdown"
  /\ Leave("ctx")
  /\ UNCHANGED <<now, tableVars, workerVars, replyVars, callerVars, hostVars>>

ShutdownDone ==
  /\ pc = "shutdown" /\ jobs = {}
  /\ Leave("ctx")
  /\ UNCHANGED <<now, tableVars, workerVars, replyVars, callerVars, hostVars>>

(* The epoch test and the clock reading the iteration goes on to use.       *)
CheckEpoch ==
  /\ pc = "epoch"
  /\ IF epoch THEN Leave("epoch") /\ UNCHANGED now
              ELSE pc' = "poll" /\ now' = expired /\ UNCHANGED outcome
  /\ UNCHANGED <<tableVars, workerVars, replyVars, callerVars, hostVars>>

-----------------------------------------------------------------------------
(* Poll.                                                                    *)

PollEpoch ==
  /\ pc = "poll" /\ epoch
  /\ Leave("epoch")
  /\ UNCHANGED <<now, tableVars, workerVars, replyVars, callerVars, hostVars>>

(* No frame, one that does not decode, or one that is no request: skipped.  *)
PollNothing ==
  /\ pc = "poll" /\ ~epoch
  /\ pc' = "drain"
  /\ UNCHANGED <<outcome, now, tableVars, workerVars, replyVars, callerVars,
                 hostVars>>

DropAssembly(c) ==
  /\ assemblies' = assemblies \ {c}
  /\ assembly' = [assembly EXCEPT ![c] = Blank]

(* Mutant: a cancelled job is answered by the loop as well.                 *)
PollCancelReplies(c) ==
  /\ pc = "poll" /\ ~epoch
  /\ c \notin left /\ sent[c] > 0
  /\ left' = left \cup {c}
  /\ DropAssembly(c)
  /\ work' = IF c \in jobs THEN [work EXCEPT ![c].cancelled = TRUE] ELSE work
  /\ Refuse(c, "Cancelled")
  /\ UNCHANGED <<now, jobs, workerVars, need, sent, faults, hostVars>>

PollCancel(c) ==
  /\ pc = "poll" /\ ~epoch
  /\ c \notin left /\ sent[c] > 0
  /\ left' = left \cup {c}
  /\ DropAssembly(c)
  /\ work' = IF c \in jobs THEN [work EXCEPT ![c].cancelled = TRUE] ELSE work
  /\ pc' = "drain"
  /\ UNCHANGED <<outcome, now, jobs, workerVars, replyVars, need, sent, faults,
                 hostVars>>

(* A request frame f: its correlation, its header, whether it decodes to an *)
(* invoke of the stage its kind is bound to, the fragment it carries, and   *)
(* whether more follow.                                                     *)
Frames == [corr : Corr, hdr : Hdrs, wf : BOOLEAN, tok : 0..MaxFrags,
           more : BOOLEAN]

(* Mutant: the header of a later fragment is not compared.                  *)
InvalidFirstOnly(f) == ~f.wf \/ f.corr \in jobs

Invalid(f) ==
  \/ ~f.wf
  \/ f.corr \in jobs
  \/ f.corr \in assemblies /\ assembly[f.corr].hdr # f.hdr

(* Mutants: one more than moduleMaxInFlight.                                *)
AssembliesOverfull == Cardinality(assemblies) > MaxInFlight
JobsOverfull       == Cardinality(jobs) > MaxInFlight

AssembliesFull == Cardinality(assemblies) >= MaxInFlight
JobsFull       == Cardinality(jobs) >= MaxInFlight

(* Mutant: every fragment starts the assembly afresh.                       *)
ExtendedAfresh(f) == [hdr |-> f.hdr, body |-> <<f.tok>>]

(* The assembly after fragment f, started afresh when there is none.        *)
Extended(f) ==
  [hdr  |-> f.hdr,
   body |-> Append(IF f.corr \in assemblies THEN assembly[f.corr].body ELSE <<>>,
                   f.tok)]

TooLarge(f) == Len(Extended(f).body) > MaxBody

(* Why the loop refuses a complete request, the empty set when it does not. *)
Refusal(f) ==
  IF f.hdr \in now      THEN {"DeadlineExceeded"}
  ELSE IF ~HasHandler   THEN {"CapabilityAbsent"}
  ELSE IF JobsFull      THEN {"Internal"}
  ELSE {}

RejectInvalid(f) ==
  /\ Invalid(f)
  /\ DropAssembly(f.corr)
  /\ Refuse(f.corr, "InvalidRequest")
  /\ UNCHANGED <<now, jobs, work, workerVars>>

(* Mutant: a fragment that finds the table full is dropped.                 *)
DropWhenFull(f) ==
  /\ ~Invalid(f)
  /\ f.corr \notin assemblies /\ AssembliesFull
  /\ pc' = "drain"
  /\ UNCHANGED <<outcome, now, tableVars, workerVars, replyVars>>

RefuseAssembly(f) ==
  /\ ~Invalid(f)
  /\ f.corr \notin assemblies /\ AssembliesFull
  /\ Refuse(f.corr, "Internal")
  /\ UNCHANGED <<now, tableVars, workerVars>>

Accepted(f) ==
  /\ ~Invalid(f)
  /\ f.corr \in assemblies \/ ~AssembliesFull

Overflow(f) ==
  /\ Accepted(f) /\ TooLarge(f)
  /\ DropAssembly(f.corr)
  /\ Refuse(f.corr, "Internal")
  /\ UNCHANGED <<now, jobs, work, workerVars>>

Extend(f) ==
  /\ Accepted(f) /\ ~TooLarge(f) /\ f.more
  /\ assemblies' = assemblies \cup {f.corr}
  /\ assembly' = [assembly EXCEPT ![f.corr] = Extended(f)]
  /\ pc' = "drain"
  /\ UNCHANGED <<outcome, now, jobs, work, workerVars, replyVars>>

RefuseComplete(f) ==
  /\ Accepted(f) /\ ~TooLarge(f) /\ ~f.more
  /\ DropAssembly(f.corr)
  /\ \E status \in Refusal(f) : Refuse(f.corr, status)
  /\ UNCHANGED <<now, jobs, work, workerVars>>

Spawn(f) ==
  /\ Accepted(f) /\ ~TooLarge(f) /\ ~f.more
  /\ Refusal(f) = {}
  /\ DropAssembly(f.corr)
  /\ jobs' = jobs \cup {f.corr}
  /\ work' = [work EXCEPT ![f.corr] =
                [hdr |-> f.hdr, body |-> Extended(f).body, cancelled |-> FALSE]]
  /\ phase' = [phase EXCEPT ![f.corr] = "running"]
  /\ pc' = "drain"
  /\ UNCHANGED <<outcome, now, result, done, replyVars>>

Dispatch(f) ==
  \/ RejectInvalid(f)
  \/ RefuseAssembly(f)
  \/ Overflow(f)
  \/ Extend(f)
  \/ RefuseComplete(f)
  \/ Spawn(f)

(* The next fragment of the request the caller of c is sending.             *)
NextFrame(c) == [corr |-> c, hdr |-> OwnHdr[c], wf |-> TRUE, tok |-> sent[c] + 1,
                 more |-> sent[c] + 1 < need[c]]

PollRequest(c) ==
  /\ pc = "poll" /\ ~epoch
  /\ c \notin left /\ sent[c] < need[c]
  /\ sent' = [sent EXCEPT ![c] = @ + 1]
  /\ Dispatch(NextFrame(c))
  /\ UNCHANGED <<need, left, faults, hostVars>>

(* A request frame no correct caller sends: malformed, or under a           *)
(* correlation already used with another header.                            *)
PollStray(f) ==
  /\ pc = "poll" /\ ~epoch
  /\ faults > 0
  /\ f.tok = 0 /\ (~f.wf \/ f.hdr # OwnHdr[f.corr])
  /\ faults' = faults - 1
  /\ Dispatch(f)
  /\ UNCHANGED <<need, sent, left, hostVars>>

-----------------------------------------------------------------------------
(* runHandler, one goroutine per job.                                       *)

(* Mutant: the deadline outranks the cancel.                                *)
SettleDeadlineFirst(c, r) ==
  IF work[c].hdr \in expired THEN [status |-> "DeadlineExceeded", parts |-> 0]
  ELSE IF work[c].cancelled THEN [status |-> "Cancelled", parts |-> 0]
  ELSE Normalise(r)

(* Cancellation outranks the deadline, and both outrank the handler.        *)
Settle(c, r) ==
  IF work[c].cancelled THEN [status |-> "Cancelled", parts |-> 0]
  ELSE IF work[c].hdr \in expired THEN [status |-> "DeadlineExceeded", parts |-> 0]
  ELSE Normalise(r)

HandlerReturn(c) ==
  /\ phase[c] = "running"
  /\ \E r \in HandlerResults : result' = [result EXCEPT ![c] = Settle(c, r)]
  /\ phase' = [phase EXCEPT ![c] = "sending"]
  /\ UNCHANGED <<done, loopVars, tableVars, replyVars, callerVars, hostVars>>

(* The send blocks while the channel is full.                               *)
HandlerSend(c) ==
  /\ phase[c] = "sending" /\ Len(done) < MaxInFlight
  /\ done' = Append(done, c)
  /\ phase' = [phase EXCEPT ![c] = "none"]
  /\ UNCHANGED <<result, loopVars, tableVars, replyVars, callerVars, hostVars>>

-----------------------------------------------------------------------------
(* The environment.                                                         *)

HostTake ==
  /\ outbound # <<>>
  /\ outbound' = Tail(outbound)
  /\ UNCHANGED <<reply, answered, loopVars, tableVars, workerVars, callerVars,
                 hostVars>>

CancelCtx ==
  /\ ~ctx /\ ctx' = TRUE
  /\ UNCHANGED <<epoch, expired, loopVars, tableVars, workerVars, replyVars,
                 callerVars>>

BumpEpoch ==
  /\ ~epoch /\ epoch' = TRUE
  /\ UNCHANGED <<ctx, expired, loopVars, tableVars, workerVars, replyVars,
                 callerVars>>

Expire(h) ==
  /\ h \notin expired /\ expired' = expired \cup {h}
  /\ UNCHANGED <<ctx, epoch, loopVars, tableVars, workerVars, replyVars,
                 callerVars>>

Exited == pc = "exit" /\ UNCHANGED vars

Loop ==
  \/ EmitFragment \/ ReplyFails
  \/ DrainDone \/ DrainEmpty
  \/ BeginShutdown \/ ShutdownReceive \/ ShutdownDone
  \/ CheckEpoch \/ PollEpoch \/ PollNothing
  \/ \E c \in Corr : PollCancel(c) \/ PollRequest(c)
  \/ \E f \in Frames : PollStray(f)

Next ==
  \/ Loop
  \/ \E c \in Corr : HandlerReturn(c) \/ HandlerSend(c)
  \/ HostTake \/ CancelCtx \/ BumpEpoch \/ \E h \in Timed : Expire(h)
  \/ Exited

Spec == Init /\ [][Next]_vars

(* The loop runs, handlers return and their sends go through, the host      *)
(* drains the ring, and a frame that stays available is polled some day.    *)
Fairness ==
  /\ WF_vars(Loop)
  /\ \A c \in Corr : WF_vars(HandlerReturn(c)) /\ WF_vars(HandlerSend(c))
  /\ WF_vars(HostTake)
  /\ \A c \in Corr : SF_vars(PollRequest(c))

FairSpec == Spec /\ Fairness

-----------------------------------------------------------------------------
(* Properties.                                                              *)

(* The loop has refused a fragment of c: its caller was sent a failure.     *)
Refused(c) == \E i \in 1..Len(answered[c]) : answered[c][i].by = "loop"

(* A handler that has its result never waits for room in done: the channel  *)
(* has moduleMaxInFlight places and the job table admits no more jobs, also *)
(* after the loop has left on a host restart and nobody receives any more.  *)
SendNeverBlocks ==
  \A c \in Corr : phase[c] = "sending" => Len(done) < MaxInFlight

(* Both tables stay within moduleMaxInFlight and no correlation is in both: *)
(* a request whose handler runs is not being assembled again.               *)
TablesBounded ==
  /\ Cardinality(jobs) <= MaxInFlight
  /\ Cardinality(assemblies) <= MaxInFlight
  /\ jobs \cap assemblies = {}

(* A handler is given the whole body its caller sent, unless the caller was *)
(* already sent a refusal for that correlation (a fragment that found the   *)
(* assembly table full, overflowed or did not fit): the fragments that      *)
(* follow start a new assembly, and only such a request can reach a handler *)
(* truncated.                                                               *)
WholeOrRefused ==
  \A c \in jobs :
    work[c].hdr = OwnHdr[c] => work[c].body = Whole(need[c]) \/ Refused(c)

(* RequestFragment promises that More keeps the correlation in the assembly *)
(* until the final fragment: a handler would only ever be given whole       *)
(* requests.  The loop forgets a refused request and does not keep that.    *)
WholeRequest ==
  \A c \in jobs : work[c].body = Whole(need[c])

(* A body is never spliced from two requests under one correlation: it is   *)
(* an unbroken run of the caller's fragments up to the last one under the   *)
(* caller's header, or contains none of them.                               *)
NoSplice ==
  \A c \in jobs :
    LET b == work[c].body
        Own == \E from \in 1..need[c] : b = [i \in 1..(need[c] - from + 1) |-> from + i - 1]
    IN  IF work[c].hdr = OwnHdr[c] THEN Own ELSE \A i \in 1..Len(b) : b[i] = 0

(* The reply a caller acts on is the first one to its correlation; a second *)
(* one follows only when the first was the loop refusing a fragment, never  *)
(* after a handler's answer, as long as no stray frame used a correlation.  *)
SecondReplyOnlyAfterRefusal ==
  \A c \in Corr : faults = Faults /\ Len(answered[c]) > 1 =>
     answered[c][1] = [status |-> "Internal", by |-> "loop"]

(* When the loop returns because the context ended, no handler goroutine is *)
(* left running and no result is left in the channel.                       *)
ShutdownJoins ==
  outcome = "ctx" => done = <<>> /\ \A c \in Corr : phase[c] = "none"

(* Every request sent to the end is answered, unless its caller cancelled   *)
(* it or the loop left: no refusal, deadline, full table or full ring loses *)
(* a request silently.                                                      *)
RequestAnswered ==
  \A c \in Corr : sent[c] = need[c] ~> (answered[c] # <<>> \/ c \in left \/ pc = "exit")

(* The end of the context ends the loop, whatever handlers and replies are  *)
(* under way.                                                               *)
ShutdownTerminates == ctx ~> pc = "exit"

(* A cancel that finds the handler still running decides the answer, however*)
(* the handler ends and whether or not the deadline passes meanwhile.       *)
CancelWins ==
  \A c \in Corr :
    phase[c] = "running" /\ work[c].cancelled ~>
      \/ pc = "exit"
      \/ answered[c] # <<>> /\ answered[c][Len(answered[c])] =
                                 [status |-> "Cancelled", by |-> "handler"]
=============================================================================
