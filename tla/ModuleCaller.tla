---------------------------- MODULE ModuleCaller ----------------------------
(***************************************************************************)
(* Calling a module stage: ModuleCaller.Call of                             *)
(* server-go/bus/module_caller.go, against a host and a module that answer  *)
(* early, late, twice or not at all.                                        *)
(*                                                                          *)
(* A caller makes one call after the other, each under a new correlation.   *)
(* Call sends the request in fragments, takes events off the inbound ring   *)
(* until its reply is complete or it gives up, and then cancels.  The host  *)
(* forwards frames in order or refuses a request itself.  The module is     *)
(* what ModuleRuntime.tla shows of the serving loop: it may refuse any      *)
(* fragment, forget the request, and go on to serve the fragments that      *)
(* follow.                                                                  *)
(*                                                                          *)
(* Data: a body is a sequence of fragments, each named by its correlation   *)
(* and its place in the reply.                                              *)
(***************************************************************************)
EXTENDS Naturals, Sequences, FiniteSets

CONSTANTS
  MaxCalls,   \* bound: calls made
  MaxFrags,   \* bound: fragments of a request
  MaxReply,   \* bound: fragments of a reply
  Limit,      \* responseLimit, in fragments
  OutCap,     \* capacity of the outbound ring
  InCap,      \* capacity of the inbound ring
  MaxJunk     \* bound: inbound events that are no answer to any call

ASSUME BoundsAssumption ==
  /\ MaxCalls \in Nat /\ MaxFrags \in Nat \ {0} /\ MaxReply \in Nat \ {0}
  /\ Limit \in Nat /\ OutCap \in Nat \ {0} /\ InCap \in Nat \ {0} /\ MaxJunk \in Nat

Calls == 1..MaxCalls

VARIABLES
  pc,       \* where Call is
  corr,     \* the correlation of the call made last
  parts,    \* fragments of its request
  sent,     \* fragments sent
  timed,    \* it has a deadline
  expired,  \* which has passed
  ctx,      \* its context is done
  body,     \* the reply received so far
  outcome,  \* what every call returned
  value,    \* the body it returned
  outbound, \* frames on the way to the host
  inbound,  \* events on the way to the caller
  epoch,    \* the host has restarted since attach
  stage,    \* the module's view of every call
  replied,  \* fragments of its reply sent
  refused,  \* calls the module refused a fragment of
  junk      \* unrelated events still to come

callVars   == <<pc, corr, parts, sent, timed, expired, ctx, body>>
resultVars == <<outcome, value>>
moduleVars == <<stage, replied, refused, junk>>
vars == <<callVars, resultVars, outbound, inbound, epoch, moduleVars>>

-----------------------------------------------------------------------------
Failures  == {"sendFailed", "bus", "cancelled", "deadline", "absent", "rejected",
              "status", "runtime"}
Requests  == [op : {"request", "cancel"}, corr : Calls, more : BOOLEAN]
Fragments == Calls \X (0..MaxReply)
(* kind tells the host's control frames, the stage's results and everything *)
(* else apart.                                                              *)
Events    == [kind : {"result", "absent", "error", "other"}, corr : 0..MaxCalls,
              ok : BOOLEAN, part : 0..MaxReply, more : BOOLEAN]

(* Every variable has its type, the rings keep to their capacity and a body *)
(* never grows past responseLimit.                                          *)
TypeOK ==
  /\ pc \in {"idle", "send", "await", "cancel"}
  /\ corr \in 0..MaxCalls /\ (pc # "idle" => corr > 0)
  /\ parts \in 0..MaxFrags /\ sent \in 0..parts
  /\ timed \in BOOLEAN /\ expired \in BOOLEAN /\ ctx \in BOOLEAN
  /\ body \in Seq(Fragments) /\ Len(body) <= Limit
  /\ outcome \in [Calls -> Failures \cup {"none", "ok"}]
  /\ value \in [Calls -> Seq(Fragments)]
  /\ outbound \in Seq(Requests) /\ Len(outbound) <= OutCap
  /\ inbound \in Seq(Events) /\ Len(inbound) <= InCap
  /\ epoch \in BOOLEAN
  /\ stage \in [Calls -> {"none", "assembling", "running", "stopping", "over"}]
  /\ replied \in [Calls -> 0..MaxReply]
  /\ refused \subseteq Calls /\ junk \in 0..MaxJunk

Init ==
  /\ pc = "idle" /\ corr = 0 /\ parts = 0 /\ sent = 0
  /\ timed = FALSE /\ expired = FALSE /\ ctx = FALSE /\ body = <<>>
  /\ outcome = [c \in Calls |-> "none"] /\ value = [c \in Calls |-> <<>>]
  /\ outbound = <<>> /\ inbound = <<>> /\ epoch = FALSE
  /\ stage = [c \in Calls |-> "none"] /\ replied = [c \in Calls |-> 0]
  /\ refused = {} /\ junk = MaxJunk

-----------------------------------------------------------------------------
(* Call and send.                                                           *)

CallBegin ==
  /\ pc = "idle" /\ corr < MaxCalls
  /\ corr' = corr + 1
  /\ parts' \in 1..MaxFrags /\ timed' \in BOOLEAN
  /\ sent' = 0 /\ expired' = FALSE /\ ctx' = FALSE /\ body' = <<>>
  /\ pc' = "send"
  /\ UNCHANGED <<resultVars, outbound, inbound, epoch, moduleVars>>

(* Mutant: the last fragment announces another one.                         *)
MoreAlways == sent + 1 <= parts

MoreFollows == sent + 1 < parts

SendFragment ==
  /\ pc = "send" /\ ~epoch /\ Len(outbound) < OutCap
  /\ outbound' = Append(outbound, [op |-> "request", corr |-> corr, more |-> MoreFollows])
  /\ sent' = sent + 1
  /\ pc' = IF sent + 1 < parts THEN "send" ELSE "await"
  /\ UNCHANGED <<corr, parts, timed, expired, ctx, body, resultVars, inbound, epoch,
                 moduleVars>>

(* A fragment that does not go out ends the call at once; nothing tells the *)
(* module about the fragments it already has.                               *)
SendFails ==
  /\ pc = "send" /\ (epoch \/ Len(outbound) = OutCap)
  /\ outcome' = [outcome EXCEPT ![corr] = "sendFailed"]
  /\ pc' = "idle"
  /\ UNCHANGED <<corr, parts, sent, timed, expired, ctx, body, value, outbound, inbound,
                 epoch, moduleVars>>

-----------------------------------------------------------------------------
(* awaitReply                                                               *)

GiveUp(why) ==
  /\ outcome' = [outcome EXCEPT ![corr] = why]
  /\ pc' = "cancel"
  /\ UNCHANGED <<body, value>>

(* Mutant: the correlation of an event is not compared.                     *)
IsResultOfAny(e) == e.kind = "result"

IsResult(e) == e.kind = "result" /\ e.corr = corr

(* A control frame of the host carries its own kind and is matched first.   *)
TakeControl(e) ==
  /\ e.corr = corr /\ e.kind \in {"absent", "error"}
  /\ GiveUp(IF e.kind = "absent" THEN "absent" ELSE "rejected")

TakeOther(e) ==
  /\ ~(e.corr = corr /\ e.kind \in {"absent", "error"}) /\ ~IsResult(e)
  /\ UNCHANGED <<pc, body, resultVars>>

(* Mutant: a failure is skipped like somebody else's event.                 *)
SkipFailure(e) ==
  /\ IsResult(e) /\ ~e.ok
  /\ UNCHANGED <<pc, body, resultVars>>

TakeFailure(e) == IsResult(e) /\ ~e.ok /\ GiveUp("status")

(* Mutant: the limit is not looked at.                                      *)
FitsAlways == Len(body) >= 0

Fits == Len(body) + 1 <= Limit

TakeTooLong(e) == IsResult(e) /\ e.ok /\ ~Fits /\ GiveUp("runtime")

TakePart(e) ==
  /\ IsResult(e) /\ e.ok /\ Fits
  /\ body' = Append(body, <<e.corr, e.part>>)
  /\ IF e.more THEN UNCHANGED <<pc, resultVars>>
     ELSE /\ outcome' = [outcome EXCEPT ![corr] = "ok"]
          /\ value' = [value EXCEPT ![corr] = body']
          /\ pc' = "idle"

TakeEvent ==
  /\ pc = "await" /\ ~epoch /\ inbound # <<>>
  /\ inbound' = Tail(inbound)
  /\ LET e == Head(inbound) IN
       \/ TakeControl(e) \/ TakeOther(e) \/ TakeFailure(e) \/ TakeTooLong(e) \/ TakePart(e)
  /\ UNCHANGED <<corr, parts, sent, timed, expired, ctx, outbound, epoch, moduleVars>>

(* Mutant: only the context ends the wait.                                  *)
WaitedForContext == ctx /\ GiveUp("cancelled")

(* The context and the deadline are looked at when there is no event.       *)
WaitedEnough == IF ctx THEN GiveUp("cancelled") ELSE expired /\ GiveUp("deadline")

TakeNothing ==
  /\ pc = "await" /\ ~epoch /\ inbound = <<>>
  /\ WaitedEnough
  /\ UNCHANGED <<corr, parts, sent, timed, expired, ctx, outbound, inbound, epoch,
                 moduleVars>>

PollFails ==
  /\ pc = "await" /\ epoch
  /\ GiveUp("bus")
  /\ UNCHANGED <<corr, parts, sent, timed, expired, ctx, outbound, inbound, epoch,
                 moduleVars>>

(* One try, its result ignored.                                             *)
Cancel ==
  /\ pc = "cancel"
  /\ outbound' = IF ~epoch /\ Len(outbound) < OutCap
                 THEN Append(outbound, [op |-> "cancel", corr |-> corr, more |-> FALSE])
                 ELSE outbound
  /\ pc' = "idle"
  /\ UNCHANGED <<corr, parts, sent, timed, expired, ctx, body, resultVars, inbound, epoch,
                 moduleVars>>

-----------------------------------------------------------------------------
(* The host and the module.                                                 *)

Room == Len(inbound) < InCap
Send(e) == inbound' = Append(inbound, e)
Frame == Head(outbound)
Taken(op) == outbound # <<>> /\ Frame.op = op /\ outbound' = Tail(outbound)

(* Nobody serves the kind (any more, with what it had assembled gone too),  *)
(* or the grant does not cover it.                                          *)
HostRefuses ==
  /\ Taken("request") /\ Room
  /\ \E kind \in {"absent", "error"} :
       Send([kind |-> kind, corr |-> Frame.corr, ok |-> FALSE, part |-> 0, more |-> FALSE])
  /\ stage' = [stage EXCEPT ![Frame.corr] = "none"]
  /\ UNCHANGED <<callVars, resultVars, epoch, replied, refused, junk>>

(* The module answers a fragment with a failure and forgets the request.    *)
ModuleRefuses ==
  /\ Taken("request") /\ Room
  /\ stage[Frame.corr] \in {"none", "assembling"}
  /\ Send([kind |-> "result", corr |-> Frame.corr, ok |-> FALSE, part |-> 0, more |-> FALSE])
  /\ stage' = [stage EXCEPT ![Frame.corr] = "none"]
  /\ refused' = refused \cup {Frame.corr}
  /\ UNCHANGED <<callVars, resultVars, epoch, replied, junk>>

ModuleTakes ==
  /\ Taken("request")
  /\ stage[Frame.corr] \in {"none", "assembling"}
  /\ stage' = [stage EXCEPT ![Frame.corr] = IF Frame.more THEN "assembling" ELSE "running"]
  /\ UNCHANGED <<callVars, resultVars, inbound, epoch, replied, refused, junk>>

ModuleCancelled ==
  /\ Taken("cancel")
  /\ stage' = [stage EXCEPT ![Frame.corr] = CASE @ = "assembling" -> "none"
                                              [] @ = "running"    -> "stopping"
                                              [] OTHER            -> @]
  /\ UNCHANGED <<callVars, resultVars, inbound, epoch, replied, refused, junk>>

(* The next fragment of an OK reply.  A reply that has begun is sent to the *)
(* end, whatever arrives meanwhile.                                         *)
ModuleReplies(c) ==
  /\ stage[c] = "running" \/ (stage[c] = "stopping" /\ replied[c] > 0)
  /\ Room /\ replied[c] < MaxReply
  /\ replied' = [replied EXCEPT ![c] = @ + 1]
  /\ \E more \in BOOLEAN :
       /\ more => replied[c] + 1 < MaxReply
       /\ Send([kind |-> "result", corr |-> c, ok |-> TRUE, part |-> replied[c] + 1,
                more |-> more])
       /\ stage' = IF more THEN stage ELSE [stage EXCEPT ![c] = "over"]
  /\ UNCHANGED <<callVars, resultVars, outbound, epoch, refused, junk>>

ModuleFails(c) ==
  /\ stage[c] \in {"running", "stopping"} /\ replied[c] = 0 /\ Room
  /\ Send([kind |-> "result", corr |-> c, ok |-> FALSE, part |-> 0, more |-> FALSE])
  /\ stage' = [stage EXCEPT ![c] = "over"]
  /\ UNCHANGED <<callVars, resultVars, outbound, epoch, replied, refused, junk>>

(* An event of another kind, or a payload that is no result.                *)
Unrelated ==
  /\ junk > 0 /\ Room
  /\ junk' = junk - 1
  /\ \E c \in {0, corr} :
       Send([kind |-> "other", corr |-> c, ok |-> TRUE, part |-> 0, more |-> FALSE])
  /\ UNCHANGED <<callVars, resultVars, outbound, epoch, stage, replied, refused>>

Expire ==
  /\ pc = "await" /\ timed /\ ~expired /\ expired' = TRUE
  /\ UNCHANGED <<pc, corr, parts, sent, timed, ctx, body, resultVars, outbound, inbound,
                 epoch, moduleVars>>

EndContext ==
  /\ pc # "idle" /\ ~ctx /\ ctx' = TRUE
  /\ UNCHANGED <<pc, corr, parts, sent, timed, expired, body, resultVars, outbound, inbound,
                 epoch, moduleVars>>

BumpEpoch ==
  /\ ~epoch /\ epoch' = TRUE
  /\ UNCHANGED <<callVars, resultVars, outbound, inbound, moduleVars>>

-----------------------------------------------------------------------------
Step == SendFragment \/ SendFails \/ TakeEvent \/ TakeNothing \/ PollFails \/ Cancel

Module == \/ HostRefuses \/ ModuleRefuses \/ ModuleTakes \/ ModuleCancelled
          \/ \E c \in Calls : ModuleReplies(c) \/ ModuleFails(c)

Next == CallBegin \/ Step \/ Module \/ Unrelated \/ Expire \/ EndContext \/ BumpEpoch

Spec == Init /\ [][Next]_vars

(* Call runs and time passes; the module owes nothing.                      *)
FairSpec == Spec /\ WF_vars(Step) /\ WF_vars(Expire)

-----------------------------------------------------------------------------
(* Properties.                                                              *)

(* A call that succeeds returns the whole reply to its own request, every   *)
(* fragment once and in order, although replies to earlier calls that were  *)
(* given up arrive on the same stream.                                      *)
AnswerIsWhole ==
  \A c \in Calls : outcome[c] = "ok" =>
    stage[c] = "over" /\ value[c] = [i \in 1..replied[c] |-> <<c, i>>]

(* A call the module refused a fragment of does not succeed, although the   *)
(* module may go on to serve what is left of that request and answer it: a  *)
(* truncated request is never taken for a good one.                         *)
RefusedNeverSucceeds ==
  \A c \in refused : outcome[c] # "ok"

(* A call that is over leaves the module an unfinished assembly, which takes*)
(* one of its places for ever, only when a fragment could not be sent.      *)
UnfinishedOnlyIfNotSent ==
  \A c \in Calls :
    /\ stage[c] = "assembling" /\ outcome[c] # "none" /\ (c = corr => pc = "idle")
    /\ \A i \in 1..Len(outbound) : outbound[i].corr # c
    => outcome[c] = "sendFailed"

(* A call with a deadline returns, whatever the host and the module do.     *)
DeadlineEndsCall == pc = "await" /\ timed ~> pc = "idle"
=============================================================================
