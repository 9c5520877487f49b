------------------------ MODULE ModuleCallerProofs ------------------------
(***************************************************************************)
(* Theorems about ModuleCaller, for any number of calls, fragments and      *)
(* parts, every ring capacity and every responseLimit.                      *)
(***************************************************************************)
EXTENDS ModuleCaller, SequenceTheorems, TLAPS

-----------------------------------------------------------------------------
(* The rings.                                                               *)

(* Putting an element at the end of a ring and taking the first one off.    *)
LEMMA Appended ==
  ASSUME NEW S, NEW s \in Seq(S), NEW e \in S
  PROVE  /\ Append(s, e) \in Seq(S) /\ Len(s) \in Nat /\ Len(Append(s, e)) = Len(s) + 1
         /\ \A i \in 1..Len(s) : Append(s, e)[i] = s[i]
         /\ Append(s, e)[Len(s) + 1] = e
         /\ \A i \in 1..(Len(s) + 1) : i \in 1..Len(s) \/ i = Len(s) + 1
         /\ Len(s) + 1 \in 1..(Len(s) + 1) /\ \A i \in 1..Len(s) : i \in 1..(Len(s) + 1)
<1>1. Len(s) \in Nat
  BY LenProperties
<1> QED
  BY <1>1, AppendProperties

LEMMA Behead ==
  ASSUME NEW S, NEW s \in Seq(S), s # <<>>
  PROVE  /\ Tail(s) \in Seq(S) /\ Len(s) \in Nat \ {0} /\ Len(Tail(s)) = Len(s) - 1
         /\ Head(s) = s[1] /\ Head(s) \in S /\ 1 \in 1..Len(s)
         /\ \A i \in 1..(Len(s) - 1) : Tail(s)[i] = s[i + 1] /\ i + 1 \in 1..Len(s)
         /\ \A i \in 1..Len(s) : i = 1 \/ (i - 1 \in 1..(Len(s) - 1) /\ Tail(s)[i - 1] = s[i])
<1>1. Len(s) \in Nat \ {0}
  BY EmptySeq
<1>2. /\ Tail(s) \in Seq(S) /\ Len(Tail(s)) = Len(s) - 1 /\ Head(s) \in S
      /\ \A i \in 1..Len(Tail(s)) : Tail(s)[i] = s[i + 1]
  BY HeadTailProperties
<1>3. Head(s) = s[1]
  OBVIOUS
<1>4. ASSUME NEW i \in 1..(Len(s) - 1)
      PROVE  Tail(s)[i] = s[i + 1] /\ i + 1 \in 1..Len(s)
  BY <1>1, <1>2
<1>5. ASSUME NEW i \in 1..Len(s), i # 1
      PROVE  i - 1 \in 1..(Len(s) - 1) /\ Tail(s)[i - 1] = s[i]
  <2>1. i - 1 \in 1..(Len(s) - 1) /\ (i - 1) + 1 = i
    BY <1>1, <1>5
  <2> QED
    BY <2>1, <1>4
<1> QED
  BY <1>1, <1>2, <1>3, <1>4, <1>5

-----------------------------------------------------------------------------
(* Type correctness.                                                        *)

TypeInv == TypeOK /\ (pc = "send" => sent < parts)

LEMMA InitType == Init => TypeInv
<1> SUFFICES ASSUME Init PROVE TypeInv
  OBVIOUS
<1>1. <<>> \in Seq(Fragments) /\ <<>> \in Seq(Requests) /\ <<>> \in Seq(Events) /\ Len(<<>>) = 0
  OBVIOUS
<1>2. /\ corr \in 0..MaxCalls /\ parts \in 0..MaxFrags /\ sent \in 0..parts
      /\ Len(body) <= Limit /\ Len(outbound) <= OutCap /\ Len(inbound) <= InCap
      /\ replied \in [Calls -> 0..MaxReply] /\ junk \in 0..MaxJunk
  BY <1>1, BoundsAssumption DEF Init
<1> QED
  BY <1>1, <1>2 DEF Init, TypeInv, TypeOK

(* A caller that is not idle has a correlation.                             *)
LEMMA CorrType ==
  ASSUME TypeOK
  PROVE  corr \in Nat /\ MaxCalls \in Nat /\ (pc # "idle" => corr \in Calls)
  BY BoundsAssumption DEF TypeOK, Calls

(* Giving up.                                                               *)
LEMMA GiveUpType ==
  ASSUME TypeOK, pc # "idle", NEW why \in Failures, GiveUp(why)
  PROVE  /\ pc' = "cancel" /\ body' = body /\ value' = value
         /\ outcome' \in [Calls -> Failures \cup {"none", "ok"}]
  BY CorrType DEF GiveUp, TypeOK

(* A fragment of the host's or the module's making.                         *)
LEMMA SendType ==
  ASSUME TypeOK, NEW e \in Events, Room, Send(e)
  PROVE  inbound' \in Seq(Events) /\ Len(inbound') <= InCap
<1>1. inbound \in Seq(Events) /\ Len(inbound) \in Nat
  BY LenProperties DEF TypeOK
<1>2. inbound' \in Seq(Events) /\ Len(inbound') = Len(inbound) + 1
  BY <1>1, Appended DEF Send
<1> QED
  BY <1>1, <1>2, BoundsAssumption DEF Room

LEMMA PutType ==
  ASSUME TypeOK, NEW r \in Requests, Len(outbound) < OutCap, outbound' = Append(outbound, r)
  PROVE  outbound' \in Seq(Requests) /\ Len(outbound') <= OutCap
<1>1. outbound \in Seq(Requests) /\ Len(outbound) \in Nat
  BY LenProperties DEF TypeOK
<1>2. outbound' \in Seq(Requests) /\ Len(outbound') = Len(outbound) + 1
  BY <1>1, Appended
<1> QED
  BY <1>1, <1>2, BoundsAssumption

LEMMA TakenType ==
  ASSUME TypeOK, NEW op, Taken(op)
  PROVE  /\ outbound # <<>> /\ Frame \in Requests /\ Frame.corr \in Calls
         /\ Frame.more \in BOOLEAN /\ Frame = outbound[1] /\ Frame.op = op
         /\ outbound' = Tail(outbound)
         /\ outbound' \in Seq(Requests) /\ Len(outbound') <= OutCap
<1>1. outbound \in Seq(Requests) /\ outbound # <<>> /\ Len(outbound) <= OutCap
  BY DEF TypeOK, Taken
<1>2. Frame \in Requests /\ Frame = outbound[1] /\ Len(outbound) \in Nat \ {0}
      /\ Tail(outbound) \in Seq(Requests) /\ Len(Tail(outbound)) = Len(outbound) - 1
  BY <1>1, Behead DEF Frame
<1> QED
  BY <1>1, <1>2, BoundsAssumption DEF Taken, Requests

(* The kinds of event the host and the module send.                         *)
LEMMA EventTypes ==
  /\ \A c \in Calls, k \in {"result", "absent", "error"} :
       [kind |-> k, corr |-> c, ok |-> FALSE, part |-> 0, more |-> FALSE] \in Events
  /\ \A c \in Calls, p \in 0..MaxReply, m \in BOOLEAN :
       [kind |-> "result", corr |-> c, ok |-> TRUE, part |-> p, more |-> m] \in Events
  /\ \A c \in 0..MaxCalls :
       [kind |-> "other", corr |-> c, ok |-> TRUE, part |-> 0, more |-> FALSE] \in Events
  BY BoundsAssumption DEF Events, Calls

(* Call takes an event: the reply it collects stays within responseLimit.   *)
LEMMA TakeEventType ==
  ASSUME TypeInv, TakeEvent
  PROVE  TypeInv'
<1> DEFINE e == Head(inbound)
<1>0. TypeOK /\ pc = "await" /\ inbound # <<>> /\ corr \in Calls
  BY CorrType DEF TypeInv, TakeEvent
<1>1. /\ inbound \in Seq(Events) /\ e \in Events /\ inbound' \in Seq(Events)
      /\ Len(inbound') = Len(inbound) - 1 /\ Len(inbound) \in Nat
  BY <1>0, Behead DEF TakeEvent, TypeOK
<1>2. Len(inbound') <= InCap
  BY <1>0, <1>1, BoundsAssumption DEF TypeOK
<1> HIDE DEF e
<1>3. UNCHANGED <<corr, parts, sent, timed, expired, ctx, outbound, epoch, moduleVars>>
  BY DEF TakeEvent
<1>4. /\ pc' \in {"idle", "await", "cancel"}
      /\ outcome' \in [Calls -> Failures \cup {"none", "ok"}]
      /\ value' \in [Calls -> Seq(Fragments)]
      /\ body' \in Seq(Fragments) /\ Len(body') <= Limit
  <2>1. CASE TakeControl(e)
    BY <1>0, <2>1, GiveUpType DEF TakeControl, TypeOK, Failures
  <2>2. CASE TakeOther(e)
    BY <1>0, <2>2 DEF TakeOther, TypeOK, resultVars
  <2>3. CASE TakeFailure(e)
    BY <1>0, <2>3, GiveUpType DEF TakeFailure, TypeOK, Failures
  <2>4. CASE TakeTooLong(e)
    BY <1>0, <2>4, GiveUpType DEF TakeTooLong, TypeOK, Failures
  <2>5. CASE TakePart(e)
    <3>1. <<e.corr, e.part>> \in Fragments
      BY <1>0, <1>1, <2>5 DEF TakePart, IsResult, Fragments, Events
    <3>2. body \in Seq(Fragments) /\ Len(body) \in Nat
      BY <1>0, LenProperties DEF TypeOK
    <3>3. body' \in Seq(Fragments) /\ Len(body') = Len(body) + 1
      BY <2>5, <3>1, <3>2, Appended DEF TakePart
    <3>4. Len(body') <= Limit
      BY <2>5, <3>2, <3>3, BoundsAssumption DEF TakePart, Fits
    <3> QED
      BY <1>0, <2>5, <3>3, <3>4 DEF TakePart, TypeOK, resultVars
  <2> QED
    BY <2>1, <2>2, <2>3, <2>4, <2>5 DEF TakeEvent, e
<1> QED
  BY <1>0, <1>1, <1>2, <1>3, <1>4 DEF TypeInv, TypeOK, moduleVars

LEMMA NextType == TypeInv /\ [Next]_vars => TypeInv'
<1> SUFFICES ASSUME TypeInv, [Next]_vars PROVE TypeInv'
  OBVIOUS
<1>0. TypeOK
  BY DEF TypeInv
<1> USE DEF callVars, resultVars, moduleVars
<1>1. CASE CallBegin
  <2>1. corr' \in 0..MaxCalls /\ corr' > 0 /\ parts' \in 0..MaxFrags /\ sent' \in 0..parts' /\ sent' < parts'
    BY <1>0, <1>1, BoundsAssumption DEF CallBegin, TypeOK
  <2>2. body' \in Seq(Fragments) /\ Len(body') <= Limit
    BY <1>1, BoundsAssumption DEF CallBegin
  <2> QED
    BY <1>0, <1>1, <2>1, <2>2 DEF CallBegin, TypeInv, TypeOK
<1>2. CASE SendFragment
  <2>1. [op |-> "request", corr |-> corr, more |-> MoreFollows] \in Requests
    BY <1>0, <1>2, CorrType DEF SendFragment, Requests, MoreFollows
  <2>2. outbound' \in Seq(Requests) /\ Len(outbound') <= OutCap
    BY <1>0, <1>2, <2>1, PutType DEF SendFragment
  <2>3. /\ sent' \in 0..parts' /\ pc' \in {"send", "await"} /\ (pc' = "send" => sent' < parts')
    BY <1>0, <1>2, BoundsAssumption DEF SendFragment, TypeInv, TypeOK
  <2> QED
    BY <1>0, <1>2, <2>2, <2>3 DEF SendFragment, TypeInv, TypeOK
<1>3. CASE SendFails
  BY <1>0, <1>3, CorrType DEF SendFails, TypeInv, TypeOK, Failures
<1>4. CASE TakeEvent
  BY <1>4, TakeEventType
<1>5. CASE TakeNothing
  <2>1. GiveUp("cancelled") \/ GiveUp("deadline")
    BY <1>5 DEF TakeNothing, WaitedEnough
  <2>2. /\ pc' = "cancel" /\ body' = body /\ value' = value
        /\ outcome' \in [Calls -> Failures \cup {"none", "ok"}]
    BY <1>0, <1>5, <2>1, GiveUpType DEF TakeNothing, Failures
  <2> QED
    BY <1>0, <1>5, <2>2 DEF TakeNothing, TypeInv, TypeOK
<1>6. CASE PollFails
  <2>1. /\ pc' = "cancel" /\ body' = body /\ value' = value
        /\ outcome' \in [Calls -> Failures \cup {"none", "ok"}]
    BY <1>0, <1>6, GiveUpType DEF PollFails, Failures
  <2> QED
    BY <1>0, <1>6, <2>1 DEF PollFails, TypeInv, TypeOK
<1>7. CASE Cancel
  <2>1. [op |-> "cancel", corr |-> corr, more |-> FALSE] \in Requests
    BY <1>0, <1>7, CorrType DEF Cancel, Requests
  <2>2. outbound' \in Seq(Requests) /\ Len(outbound') <= OutCap
    BY <1>0, <1>7, <2>1, PutType DEF Cancel, TypeOK
  <2> QED
    BY <1>0, <1>7, <2>2 DEF Cancel, TypeInv, TypeOK
<1>8. CASE HostRefuses
  <2>1. inbound' \in Seq(Events) /\ Len(inbound') <= InCap
    BY <1>0, <1>8, TakenType, EventTypes, SendType DEF HostRefuses
  <2> QED
    BY <1>0, <1>8, <2>1, TakenType DEF HostRefuses, TypeInv, TypeOK
<1>9. CASE ModuleRefuses
  <2>1. inbound' \in Seq(Events) /\ Len(inbound') <= InCap
    BY <1>0, <1>9, TakenType, EventTypes, SendType DEF ModuleRefuses
  <2> QED
    BY <1>0, <1>9, <2>1, TakenType DEF ModuleRefuses, TypeInv, TypeOK
<1>10. CASE ModuleTakes
  BY <1>0, <1>10, TakenType DEF ModuleTakes, TypeInv, TypeOK
<1>11. CASE ModuleCancelled
  BY <1>0, <1>11, TakenType DEF ModuleCancelled, TypeInv, TypeOK
<1>12. ASSUME NEW c \in Calls, ModuleReplies(c) PROVE TypeInv'
  <2>1. PICK more \in BOOLEAN :
          /\ Send([kind |-> "result", corr |-> c, ok |-> TRUE, part |-> replied[c] + 1,
                   more |-> more])
          /\ stage' = IF more THEN stage ELSE [stage EXCEPT ![c] = "over"]
    BY <1>12 DEF ModuleReplies
  <2>2. replied[c] + 1 \in 0..MaxReply
    BY <1>0, <1>12, BoundsAssumption DEF ModuleReplies, TypeOK
  <2>3. inbound' \in Seq(Events) /\ Len(inbound') <= InCap
    BY <1>0, <1>12, <2>1, <2>2, EventTypes, SendType DEF ModuleReplies
  <2> QED
    BY <1>0, <1>12, <2>1, <2>2, <2>3 DEF ModuleReplies, TypeInv, TypeOK
<1>13. ASSUME NEW c \in Calls, ModuleFails(c) PROVE TypeInv'
  <2>1. inbound' \in Seq(Events) /\ Len(inbound') <= InCap
    BY <1>0, <1>13, EventTypes, SendType DEF ModuleFails
  <2> QED
    BY <1>0, <1>13, <2>1 DEF ModuleFails, TypeInv, TypeOK
<1>14. CASE Unrelated
  <2>1. 0 \in 0..MaxCalls /\ corr \in 0..MaxCalls
    BY <1>0, BoundsAssumption DEF TypeOK
  <2>2. inbound' \in Seq(Events) /\ Len(inbound') <= InCap
    BY <1>0, <1>14, <2>1, EventTypes, SendType DEF Unrelated
  <2>3. junk' \in 0..MaxJunk
    BY <1>0, <1>14, BoundsAssumption DEF Unrelated, TypeOK
  <2> QED
    BY <1>0, <1>14, <2>2, <2>3 DEF Unrelated, TypeInv, TypeOK
<1>15. CASE Expire
  BY <1>0, <1>15 DEF Expire, TypeInv, TypeOK
<1>16. CASE EndContext
  BY <1>0, <1>16 DEF EndContext, TypeInv, TypeOK
<1>17. CASE BumpEpoch
  BY <1>0, <1>17 DEF BumpEpoch, TypeInv, TypeOK
<1>18. CASE UNCHANGED vars
  BY <1>0, <1>18 DEF vars, TypeInv, TypeOK
<1> QED
  BY <1>1, <1>2, <1>3, <1>4, <1>5, <1>6, <1>7, <1>8, <1>9, <1>10, <1>11, <1>12, <1>13,
     <1>14, <1>15, <1>16, <1>17, <1>18
  DEF Next, Step, Module

(* Call never sends more fragments than its request has, never collects a   *)
(* body longer than responseLimit, and neither ring is overfilled.          *)
THEOREM TypeCorrect == Spec => []TypeOK
<1>1. TypeInv => TypeOK
  BY DEF TypeInv
<1> QED
  BY <1>1, InitType, NextType, PTL DEF Spec

-----------------------------------------------------------------------------
(* Requests on their way to the module.                                     *)

(* Positions of the two rings, and what is at them.                         *)
In  == 1..Len(inbound)
Out == 1..Len(outbound)
Asks(c, i)    == outbound[i].op = "request" /\ outbound[i].corr = c
Result(c, i)  == inbound[i].kind = "result" /\ inbound[i].corr = c
Part(c, i)    == Result(c, i) /\ inbound[i].ok
Failure(c, i) == Result(c, i) /\ ~inbound[i].ok

(* The call under way is still open to a reply.                             *)
Open == pc \in {"send", "await"}

(* A correlation is not in use before its call begins.                      *)
Known ==
  /\ \A i \in Out : outbound[i].corr <= corr
  /\ \A i \in In : inbound[i].corr <= corr

Fresh ==
  \A c \in Calls : c > corr =>
    stage[c] = "none" /\ replied[c] = 0 /\ c \notin refused /\ outcome[c] = "none"

(* While Call sends, another fragment is to come, and nothing polled so far *)
(* was the last one.                                                        *)
Sending ==
  pc = "send" =>
    /\ sent < parts /\ stage[corr] \in {"none", "assembling"}
    /\ \A i \in Out : Asks(corr, i) => outbound[i].more

(* As long as a fragment of c is on its way the module has not started on   *)
(* it, and only the last one says that none follows.                        *)
Asked ==
  \A c \in Calls : \A i \in Out : Asks(c, i) =>
    /\ stage[c] \in {"none", "assembling"}
    /\ \A j \in Out : Asks(c, j) /\ i < j => outbound[i].more

Silent == \A c \in Calls : stage[c] \in {"none", "assembling"} => replied[c] = 0

(* A request that the module has begun to assemble, or is about to, is      *)
(* still being sent, has its last fragment on its way, or was given up      *)
(* because a fragment could not be sent.                                    *)
Owed ==
  \A c \in Calls : stage[c] = "assembling" \/ (\E i \in Out : Asks(c, i)) =>
    \/ c = corr /\ pc = "send"
    \/ outcome[c] = "sendFailed"
    \/ \E i \in Out : Asks(c, i) /\ ~outbound[i].more

Undecided == Open => outcome[corr] = "none"

RequestInv == Known /\ Fresh /\ Sending /\ Asked /\ Silent /\ Owed /\ Undecided

LEMMA InitRequests == Init => RequestInv
<1> SUFFICES ASSUME Init PROVE RequestInv
  OBVIOUS
<1>1. Out = {} /\ In = {}
  BY DEF Init, Out, In
<1> QED
  BY <1>1 DEF Init, RequestInv, Known, Fresh, Sending, Asked, Silent, Owed, Undecided, Open

LEMMA RingTypes ==
  ASSUME TypeOK
  PROVE  /\ \A i \in Out : outbound[i] \in Requests /\ outbound[i].corr \in Nat
         /\ \A i \in In : inbound[i] \in Events /\ inbound[i].corr \in Nat
<1>1. \A r \in Requests : r.corr \in Nat
  BY BoundsAssumption DEF Requests, Calls
<1>2. \A e \in Events : e.corr \in Nat
  BY BoundsAssumption DEF Events
<1>3. \A i \in Out : outbound[i] \in Requests
  <2>1. outbound \in Seq(Requests)
    BY DEF TypeOK
  <2> QED
    BY <2>1, LenProperties DEF Out
<1>4. \A i \in In : inbound[i] \in Events
  <2>1. inbound \in Seq(Events)
    BY DEF TypeOK
  <2> QED
    BY <2>1, LenProperties DEF In
<1> QED
  BY <1>1, <1>2, <1>3, <1>4

(* Events come from the host and the module about calls that were begun.    *)
LEMMA SendKnown ==
  ASSUME TypeOK, Known, NEW e \in Events, e.corr <= corr, Send(e), corr' = corr,
         \A i \in Out' : outbound'[i].corr <= corr
  PROVE  Known'
<1>1. inbound \in Seq(Events)
  BY DEF TypeOK
<1> QED
  BY <1>1, Appended DEF Known, Send, In

(* Taking a frame off leaves the others in their order.                     *)
LEMMA TakenRequests ==
  ASSUME TypeInv, RequestInv, NEW op, Taken(op)
  PROVE  /\ Frame.corr \in Calls /\ Frame.corr <= corr /\ 1 \in Out
         /\ outbound[1] = Frame /\ Frame.op = op
         /\ \A i \in Out' : i + 1 \in Out /\ outbound'[i] = outbound[i + 1]
         /\ \A i \in Out : i = 1 \/ (i - 1 \in Out' /\ outbound'[i - 1] = outbound[i])
         /\ \A i \in Out' : outbound'[i].corr <= corr
<1>1. outbound \in Seq(Requests) /\ outbound # <<>> /\ outbound' = Tail(outbound)
      /\ Frame.corr \in Calls /\ outbound[1] = Frame /\ Frame.op = op
  BY TakenType DEF TypeInv, TypeOK
<1>2. /\ 1 \in Out
      /\ \A i \in Out' : i + 1 \in Out /\ outbound'[i] = outbound[i + 1]
      /\ \A i \in Out : i = 1 \/ (i - 1 \in Out' /\ outbound'[i - 1] = outbound[i])
  BY <1>1, Behead DEF Out
<1> QED
  BY <1>1, <1>2 DEF RequestInv, Known

LEMMA CallBeginRequests ==
  ASSUME TypeInv, RequestInv, CallBegin
  PROVE  RequestInv'
<1> USE DEF RequestInv
<1>0. /\ corr \in Nat /\ corr' = corr + 1 /\ corr' \in Calls /\ pc' = "send" /\ pc = "idle"
      /\ sent' = 0 /\ parts' \in 1..MaxFrags
      /\ UNCHANGED <<outcome, outbound, inbound, stage, replied, refused>>
  BY BoundsAssumption DEF CallBegin, TypeInv, TypeOK, Calls, resultVars, moduleVars
<1>1. /\ stage[corr'] = "none" /\ outcome[corr'] = "none"
      /\ \A i \in Out : outbound[i].corr # corr'
  <2>1. \A i \in Out : outbound[i].corr <= corr /\ outbound[i].corr \in Nat
    BY RingTypes DEF Known, TypeInv
  <2> QED
    BY <1>0, <2>1 DEF Fresh
<1>2. Out' = Out /\ In' = In
  BY <1>0 DEF Out, In
<1>3. Known'
  <2>1. \A i \in In : inbound[i].corr \in Nat
    BY RingTypes DEF TypeInv
  <2>2. \A i \in Out : outbound[i].corr \in Nat
    BY RingTypes DEF TypeInv
  <2> QED
    BY <1>0, <1>2, <2>1, <2>2 DEF Known
<1>4. Fresh'
  BY <1>0 DEF Fresh, Calls
<1>5. Sending'
  BY <1>0, <1>1, <1>2 DEF Sending, Asks
<1>6. Asked' /\ Silent'
  BY <1>0, <1>2 DEF Asked, Asks, Silent
<1>7. Owed'
  BY <1>0, <1>2 DEF Owed, Asks
<1>8. Undecided'
  BY <1>0, <1>1 DEF Undecided
<1> QED
  BY <1>3, <1>4, <1>5, <1>6, <1>7, <1>8

LEMMA SendFragmentRequests ==
  ASSUME TypeInv, RequestInv, SendFragment
  PROVE  RequestInv'
<1> USE DEF RequestInv
<1> DEFINE r == [op |-> "request", corr |-> corr, more |-> MoreFollows]
           n == Len(outbound)
<1>0. /\ corr \in Calls /\ corr \in Nat /\ pc = "send" /\ outbound' = Append(outbound, r)
      /\ pc' \in {"send", "await"} /\ (pc' = "send" <=> MoreFollows)
      /\ UNCHANGED <<corr, outcome, inbound, stage, replied, refused>>
  BY CorrType DEF SendFragment, TypeInv, resultVars, moduleVars, MoreFollows
<1>1. r \in Requests /\ outbound \in Seq(Requests)
  BY <1>0 DEF Requests, MoreFollows, TypeInv, TypeOK
<1>2. /\ n \in Nat /\ Out' = 1..(n + 1) /\ Out = 1..n
      /\ \A i \in Out : outbound'[i] = outbound[i] /\ i \in Out' /\ i < n + 1
      /\ outbound'[n + 1] = r /\ n + 1 \in Out'
      /\ \A i \in Out' : i \in Out \/ i = n + 1
  BY <1>0, <1>1, Appended DEF Out
<1>3. r.op = "request" /\ r.corr = corr /\ r.more = MoreFollows
  OBVIOUS
<1> HIDE DEF r, n
<1>4. In' = In
  BY <1>0 DEF In
<1>5. Known'
  <2>1. ASSUME NEW i \in Out' PROVE outbound'[i].corr <= corr'
    <3>1. CASE i \in Out
      BY <1>0, <1>2, <3>1 DEF Known
    <3>2. CASE i = n + 1
      <4>1. outbound'[i].corr = corr /\ corr' = corr /\ corr \in Nat
        BY <1>0, <1>2, <1>3, <3>2
      <4> QED
        BY <4>1
    <3> QED
      BY <1>2, <3>1, <3>2
  <2> QED
    BY <1>0, <1>4, <2>1 DEF Known
<1>6. Fresh' /\ Silent' /\ Undecided'
  BY <1>0 DEF Fresh, Silent, Undecided, Open
<1>7. Sending'
  <2>1. pc' = "send" => sent' < parts'
    BY NextType DEF Next, Step, TypeInv
  <2> QED
    BY <1>0, <1>2, <1>3, <2>1 DEF Sending, Asks
<1>8. Asked'
  <2> SUFFICES ASSUME NEW c \in Calls, NEW i \in Out', Asks(c, i)'
               PROVE  /\ stage'[c] \in {"none", "assembling"}
                      /\ \A j \in Out' : Asks(c, j)' /\ i < j => outbound'[i].more
    BY DEF Asked
  <2>1. CASE i \in Out
    <3>1. Asks(c, i)
      BY <1>2, <2>1 DEF Asks
    <3>2. CASE c = corr
      BY <1>0, <1>2, <2>1, <3>1, <3>2 DEF Sending
    <3>3. CASE c # corr
      <4>1. \A j \in Out' : Asks(c, j)' => j \in Out /\ Asks(c, j)
        BY <1>2, <1>3, <3>3 DEF Asks
      <4> QED
        BY <1>0, <1>2, <2>1, <3>1, <4>1 DEF Asked
    <3> QED
      BY <3>2, <3>3
  <2>2. CASE i = n + 1
    <3>1. c = corr
      BY <1>2, <1>3, <2>2 DEF Asks
    <3>2. \A j \in Out' : ~(i < j)
      BY <1>2, <2>2
    <3> QED
      BY <1>0, <3>1, <3>2 DEF Sending
  <2> QED
    BY <1>2, <2>1, <2>2
<1>9. Owed'
  <2> SUFFICES ASSUME NEW c \in Calls,
                      stage'[c] = "assembling" \/ (\E i \in Out' : Asks(c, i)')
               PROVE  \/ c = corr' /\ pc' = "send"
                      \/ outcome'[c] = "sendFailed"
                      \/ \E i \in Out' : Asks(c, i)' /\ ~outbound'[i].more
    BY DEF Owed
  <2>1. CASE c = corr
    BY <1>0, <1>2, <1>3, <2>1 DEF Asks
  <2>2. CASE c # corr
    <3>1. \A i \in Out' : Asks(c, i)' => i \in Out /\ Asks(c, i)
      BY <1>2, <1>3, <2>2 DEF Asks
    <3>2. \/ outcome[c] = "sendFailed"
          \/ \E i \in Out : Asks(c, i) /\ ~outbound[i].more
      BY <1>0, <2>2, <3>1 DEF Owed
    <3> QED
      BY <1>0, <1>2, <3>2 DEF Asks
  <2> QED
    BY <2>1, <2>2
<1> QED
  BY <1>5, <1>6, <1>7, <1>8, <1>9

(* The call ends, or goes on waiting; nothing is sent.                      *)
LEMMA WaitRequests ==
  ASSUME TypeInv, RequestInv, Known', pc = "await", pc' # "send",
         UNCHANGED <<corr, outbound, stage, replied, refused>>,
         \A c \in Calls \ {corr} : outcome'[c] = outcome[c],
         pc' = "await" => outcome' = outcome
  PROVE  RequestInv'
<1> USE DEF RequestInv
<1>0. corr \in Calls /\ corr \in Nat /\ Out' = Out
  BY CorrType DEF TypeInv, Out
<1>1. Fresh'
  BY <1>0 DEF Fresh, Calls
<1>2. Sending' /\ Silent' /\ Undecided'
  BY DEF Sending, Silent, Undecided, Open
<1>3. Asked'
  BY <1>0 DEF Asked, Asks
<1>4. Owed'
  BY <1>0 DEF Owed, Asks, Undecided, Open
<1> QED
  BY <1>1, <1>2, <1>3, <1>4

LEMMA SendFailsRequests ==
  ASSUME TypeInv, RequestInv, SendFails
  PROVE  RequestInv'
<1> USE DEF RequestInv
<1>0. /\ corr \in Calls /\ corr \in Nat /\ Out' = Out /\ In' = In
      /\ outcome'[corr] = "sendFailed" /\ \A c \in Calls \ {corr} : outcome'[c] = outcome[c]
      /\ UNCHANGED <<corr, outbound, inbound, stage, replied, refused>> /\ pc' = "idle"
  BY CorrType DEF SendFails, TypeInv, TypeOK, Out, In, moduleVars
<1>1. Known'
  BY <1>0 DEF Known
<1>2. Fresh'
  BY <1>0 DEF Fresh, Calls
<1>3. Sending' /\ Silent' /\ Undecided'
  BY <1>0 DEF Sending, Silent, Undecided, Open
<1>4. Asked'
  BY <1>0 DEF Asked, Asks
<1>5. Owed'
  BY <1>0 DEF Owed, Asks
<1> QED
  BY <1>1, <1>2, <1>3, <1>4, <1>5

(* A step that moves neither a request nor the call.                        *)
LEMMA AsideRequests ==
  ASSUME RequestInv, Known',
         UNCHANGED <<pc, corr, parts, sent, outcome, outbound, stage, replied, refused>>
  PROVE  RequestInv'
<1>1. Out' = Out
  BY DEF Out
<1> QED
  BY <1>1 DEF RequestInv, Fresh, Sending, Asked, Silent, Owed, Undecided, Open, Asks

LEMMA CancelRequests ==
  ASSUME TypeInv, RequestInv, Cancel
  PROVE  RequestInv'
<1> USE DEF RequestInv
<1> DEFINE r == [op |-> "cancel", corr |-> corr, more |-> FALSE]
           n == Len(outbound)
<1>0. /\ corr \in Calls /\ corr \in Nat /\ pc = "cancel" /\ pc' = "idle" /\ In' = In
      /\ outbound' = outbound \/ outbound' = Append(outbound, r)
      /\ UNCHANGED <<corr, outcome, inbound, stage, replied, refused>>
  BY CorrType DEF Cancel, TypeInv, resultVars, moduleVars, In
<1>1. r \in Requests /\ outbound \in Seq(Requests)
  BY <1>0 DEF Requests, TypeInv, TypeOK
<1>2. /\ \A i \in Out : outbound'[i] = outbound[i] /\ i \in Out'
      /\ \A i \in Out' : i \in Out \/ outbound'[i] = r
  <2>1. CASE outbound' = outbound
    BY <2>1 DEF Out
  <2>2. CASE outbound' = Append(outbound, r)
    BY <1>1, <2>2, Appended DEF Out
  <2> QED
    BY <1>0, <2>1, <2>2
<1>3. r.op = "cancel" /\ r.corr = corr
  OBVIOUS
<1> HIDE DEF r, n
<1>4. \A i \in Out' : outbound'[i].corr <= corr'
  <2> SUFFICES ASSUME NEW i \in Out' PROVE outbound'[i].corr <= corr
    BY <1>0
  <2>1. CASE i \in Out
    BY <1>2, <2>1 DEF Known
  <2>2. CASE outbound'[i] = r
    <3>1. outbound'[i].corr = corr /\ corr \in Nat
      BY <1>0, <1>3, <2>2
    <3> QED
      BY <3>1
  <2> QED
    BY <1>2, <2>1, <2>2
<1>5. Known'
  BY <1>0, <1>4 DEF Known
<1>6. Fresh' /\ Sending' /\ Silent' /\ Undecided'
  BY <1>0 DEF Fresh, Sending, Silent, Undecided, Open
<1>7. \A c \in Calls : \A i \in Out' : Asks(c, i)' => i \in Out /\ Asks(c, i)
  BY <1>2, <1>3 DEF Asks
<1>8. Asked'
  BY <1>0, <1>2, <1>7 DEF Asked
<1>9. Owed'
  <2> SUFFICES ASSUME NEW c \in Calls,
                      stage'[c] = "assembling" \/ (\E i \in Out' : Asks(c, i)')
               PROVE  \/ outcome'[c] = "sendFailed"
                      \/ \E i \in Out' : Asks(c, i)' /\ ~outbound'[i].more
    BY DEF Owed
  <2>1. \/ outcome[c] = "sendFailed"
        \/ \E i \in Out : Asks(c, i) /\ ~outbound[i].more
    BY <1>0, <1>7 DEF Owed
  <2> QED
    BY <1>0, <1>2, <2>1 DEF Asks
<1> QED
  BY <1>5, <1>6, <1>8, <1>9

(* The host or the module takes a fragment of a request: the module forgets *)
(* the request, assembles it or starts on it.                               *)
LEMMA RequestTaken ==
  ASSUME TypeInv, RequestInv, Known', Taken("request"), NEW s,
         stage' = [stage EXCEPT ![Frame.corr] = s],
         s \in {"none", "assembling", "running"},
         s = "assembling" => Frame.more, s = "running" => ~Frame.more,
         UNCHANGED <<pc, corr, parts, sent, outcome, replied>>,
         refused' \subseteq refused \cup {Frame.corr}
  PROVE  RequestInv'
<1> USE DEF RequestInv
<1> DEFINE c == Frame.corr
           more == Frame.more
<1>0. /\ c \in Calls /\ c <= corr /\ 1 \in Out /\ Asks(c, 1) /\ outbound[1].more = more
      /\ \A i \in Out' : i + 1 \in Out /\ outbound'[i] = outbound[i + 1]
      /\ \A i \in Out : i = 1 \/ (i - 1 \in Out' /\ outbound'[i - 1] = outbound[i])
      /\ corr \in Nat
  BY TakenRequests, CorrType DEF Asks, TypeInv
<1>1. /\ stage'[c] = s /\ \A d \in Calls \ {c} : stage'[d] = stage[d]
      /\ (s = "assembling" => more) /\ (s = "running" => ~more)
  BY <1>0 DEF TypeInv, TypeOK
<1>2. stage[c] \in {"none", "assembling"} /\ replied[c] = 0
      /\ \A j \in Out : Asks(c, j) /\ 1 < j => more
  BY <1>0 DEF Asked, Silent
<1>r. refused' \subseteq refused \cup {c}
  OBVIOUS
<1> HIDE DEF c, more
<1>3. \A d \in Calls, i \in Out' : Asks(d, i)' => Asks(d, i + 1)
  BY <1>0 DEF Asks
<1>4. \A i \in Out' : i \in Nat /\ 1 < i + 1 /\ \A j \in Out' : i < j => i + 1 < j + 1
  BY DEF Out
<1>5. Fresh'
  BY <1>0, <1>1, <1>r DEF Fresh, Calls
<1>6. Sending'
  <2> SUFFICES ASSUME pc = "send"
               PROVE  /\ stage'[corr] \in {"none", "assembling"}
                      /\ \A i \in Out' : Asks(corr, i)' => outbound'[i].more
    BY DEF Sending
  <2>1. corr \in Calls
    BY CorrType DEF TypeInv
  <2>2. c = corr => more
    BY <1>0 DEF Sending
  <2>3. stage'[corr] \in {"none", "assembling"}
    BY <1>1, <2>1, <2>2 DEF Sending
  <2> QED
    BY <1>0, <1>3, <2>1, <2>3 DEF Sending
<1>7. Asked'
  <2> SUFFICES ASSUME NEW d \in Calls, NEW i \in Out', Asks(d, i)'
               PROVE  /\ stage'[d] \in {"none", "assembling"}
                      /\ \A j \in Out' : Asks(d, j)' /\ i < j => outbound'[i].more
    BY DEF Asked
  <2>1. i + 1 \in Out /\ Asks(d, i + 1) /\ outbound'[i] = outbound[i + 1]
    BY <1>0, <1>3
  <2>2. stage'[d] \in {"none", "assembling"}
    <3>1. CASE d = c
      BY <1>1, <1>2, <1>4, <2>1, <3>1
    <3>2. CASE d # c
      BY <1>1, <2>1, <3>2 DEF Asked
    <3> QED
      BY <3>1, <3>2
  <2>3. ASSUME NEW j \in Out', Asks(d, j)', i < j PROVE outbound'[i].more
    <3>1. j + 1 \in Out /\ Asks(d, j + 1) /\ i + 1 < j + 1
      BY <1>0, <1>3, <1>4, <2>3
    <3> QED
      BY <2>1, <3>1 DEF Asked
  <2> QED
    BY <2>2, <2>3
<1>8. Silent'
  BY <1>1, <1>2 DEF Silent
<1>9. Owed'
  <2> SUFFICES ASSUME NEW d \in Calls,
                      stage'[d] = "assembling" \/ (\E i \in Out' : Asks(d, i)')
               PROVE  \/ d = corr /\ pc = "send"
                      \/ outcome[d] = "sendFailed"
                      \/ \E i \in Out' : Asks(d, i)' /\ ~outbound'[i].more
    BY DEF Owed
  <2>1. d = c => more
    BY <1>0, <1>1, <1>2, <1>3, <1>4
  <2>2. \/ d = corr /\ pc = "send"
        \/ outcome[d] = "sendFailed"
        \/ \E i \in Out : Asks(d, i) /\ ~outbound[i].more
    BY <1>0, <1>1, <1>3 DEF Owed
  <2>3. ASSUME NEW i \in Out, Asks(d, i), ~outbound[i].more
        PROVE  \E k \in Out' : Asks(d, k)' /\ ~outbound'[k].more
    <3>1. i # 1
      BY <1>0, <2>1, <2>3 DEF Asks
    <3> QED
      BY <1>0, <2>3, <3>1 DEF Asks
  <2> QED
    BY <2>2, <2>3
<1>10. Undecided'
  BY DEF Undecided, Open
<1> QED
  BY <1>5, <1>6, <1>7, <1>8, <1>9, <1>10

(* The module takes a cancel: it forgets the request or stops.              *)
LEMMA CancelTaken ==
  ASSUME TypeInv, RequestInv, Known', ModuleCancelled
  PROVE  RequestInv'
<1> USE DEF RequestInv
<1> DEFINE c == Frame.corr
<1>0. /\ c \in Calls /\ c <= corr /\ outbound[1].op = "cancel"
      /\ \A i \in Out' : i + 1 \in Out /\ outbound'[i] = outbound[i + 1]
      /\ \A i \in Out : i = 1 \/ (i - 1 \in Out' /\ outbound'[i - 1] = outbound[i])
      /\ corr \in Nat
  BY TakenRequests, CorrType DEF TypeInv, ModuleCancelled
<1>1. /\ UNCHANGED <<pc, corr, parts, sent, outcome, replied, refused>>
      /\ \/ stage'[c] = stage[c]
         \/ stage[c] = "assembling" /\ stage'[c] = "none"
         \/ stage[c] = "running" /\ stage'[c] = "stopping"
      /\ \A d \in Calls \ {c} : stage'[d] = stage[d]
  BY <1>0 DEF TypeInv, TypeOK, ModuleCancelled, callVars, resultVars
<1> HIDE DEF c
<1>3. \A d \in Calls, i \in Out' : Asks(d, i)' => Asks(d, i + 1)
  BY <1>0 DEF Asks
<1>4. \A i, j \in Out' : i < j => i + 1 < j + 1
  BY DEF Out
<1>5. Fresh'
  BY <1>0, <1>1 DEF Fresh, Calls
<1>6. Sending'
  <2>1. pc = "send" => corr \in Calls
    BY CorrType DEF TypeInv
  <2> QED
    BY <1>0, <1>1, <1>3, <2>1 DEF Sending
<1>7. Asked'
  <2> SUFFICES ASSUME NEW d \in Calls, NEW i \in Out', Asks(d, i)'
               PROVE  /\ stage'[d] \in {"none", "assembling"}
                      /\ \A j \in Out' : Asks(d, j)' /\ i < j => outbound'[i].more
    BY DEF Asked
  <2>1. i + 1 \in Out /\ Asks(d, i + 1) /\ outbound'[i] = outbound[i + 1]
    BY <1>0, <1>3
  <2>2. stage'[d] \in {"none", "assembling"}
    BY <1>1, <2>1 DEF Asked
  <2>3. ASSUME NEW j \in Out', Asks(d, j)', i < j PROVE outbound'[i].more
    <3>1. j + 1 \in Out /\ Asks(d, j + 1) /\ i + 1 < j + 1
      BY <1>0, <1>3, <1>4, <2>3
    <3> QED
      BY <2>1, <3>1 DEF Asked
  <2> QED
    BY <2>2, <2>3
<1>8. Silent' /\ Undecided'
  BY <1>1 DEF Silent, Undecided, Open
<1>9. Owed'
  <2> SUFFICES ASSUME NEW d \in Calls,
                      stage'[d] = "assembling" \/ (\E i \in Out' : Asks(d, i)')
               PROVE  \/ d = corr /\ pc = "send"
                      \/ outcome[d] = "sendFailed"
                      \/ \E i \in Out' : Asks(d, i)' /\ ~outbound'[i].more
    BY <1>1 DEF Owed
  <2>2. \/ d = corr /\ pc = "send"
        \/ outcome[d] = "sendFailed"
        \/ \E i \in Out : Asks(d, i) /\ ~outbound[i].more
    BY <1>0, <1>1, <1>3 DEF Owed
  <2>3. ASSUME NEW i \in Out, Asks(d, i), ~outbound[i].more
        PROVE  \E k \in Out' : Asks(d, k)' /\ ~outbound'[k].more
    <3>1. i # 1
      BY <1>0, <2>3 DEF Asks
    <3> QED
      BY <1>0, <2>3, <3>1 DEF Asks
  <2> QED
    BY <2>2, <2>3
<1> QED
  BY <1>5, <1>6, <1>7, <1>8, <1>9

(* The module answers a request it has started on.                          *)
LEMMA AnswerRequests ==
  ASSUME TypeInv, RequestInv, Known', NEW c \in Calls, stage[c] \in {"running", "stopping"},
         UNCHANGED <<pc, corr, parts, sent, outcome, outbound, refused>>,
         stage'[c] \in {"running", "stopping", "over"},
         \A d \in Calls \ {c} : stage'[d] = stage[d] /\ replied'[d] = replied[d]
  PROVE  RequestInv'
<1> USE DEF RequestInv
<1>1. Out' = Out
  BY DEF Out
<1>2. Fresh' /\ Silent' /\ Undecided'
  BY DEF Fresh, Silent, Undecided, Open
<1>3. Sending'
  <2>1. pc = "send" => corr \in Calls
    BY CorrType DEF TypeInv
  <2> QED
    BY <1>1, <2>1 DEF Sending, Asks
<1>4. Asked'
  BY <1>1 DEF Asked, Asks
<1>5. Owed'
  BY <1>1 DEF Owed, Asks
<1> QED
  BY <1>2, <1>3, <1>4, <1>5

(* Known, where the inbound ring keeps its events or loses the first.       *)
LEMMA InboundKnown ==
  ASSUME TypeOK, Known, corr' = corr, \A i \in Out' : outbound'[i].corr <= corr,
         inbound' = inbound \/ (inbound # <<>> /\ inbound' = Tail(inbound))
  PROVE  Known'
<1>1. \A i \in In' : inbound'[i].corr <= corr
  <2>1. CASE inbound' = inbound
    BY <2>1 DEF Known, In
  <2>2. CASE inbound # <<>> /\ inbound' = Tail(inbound)
    <3>1. inbound \in Seq(Events)
      BY DEF TypeOK
    <3> QED
      BY <2>2, <3>1, Behead DEF Known, In
  <2> QED
    BY <2>1, <2>2
<1> QED
  BY <1>1 DEF Known

(* What becomes of the call when it takes an event.                         *)
LEMMA TakeEventEffect ==
  ASSUME TypeInv, TakeEvent
  PROVE  /\ pc = "await" /\ pc' \in {"await", "cancel", "idle"}
         /\ UNCHANGED <<corr, outbound, stage, replied, refused>>
         /\ \A c \in Calls \ {corr} : outcome'[c] = outcome[c] /\ value'[c] = value[c]
         /\ pc' = "await" => outcome' = outcome /\ value' = value
         /\ pc' = "cancel" => outcome'[corr] \in Failures
<1> DEFINE e == Head(inbound)
<1>0. corr \in Calls
  BY CorrType DEF TypeInv, TakeEvent
<1>1. TakeControl(e) \/ TakeOther(e) \/ TakeFailure(e) \/ TakeTooLong(e) \/ TakePart(e)
  BY DEF TakeEvent
<1> HIDE DEF e
<1>2. /\ pc = "await" /\ outcome \in [Calls -> Failures \cup {"none", "ok"}]
      /\ value \in [Calls -> Seq(Fragments)]
      /\ UNCHANGED <<corr, outbound, stage, replied, refused>>
  BY DEF TakeEvent, TypeInv, TypeOK, moduleVars
<1>3. CASE TakePart(e)
  BY <1>0, <1>2, <1>3 DEF TakePart, resultVars
<1>4. CASE ~TakePart(e)
  BY <1>0, <1>1, <1>2, <1>4
  DEF TakeControl, TakeOther, TakeFailure, TakeTooLong, GiveUp, Failures, resultVars
<1> QED
  BY <1>3, <1>4

(* Every step keeps the facts about requests: one step per action.          *)
LEMMA NextRequests == TypeInv /\ RequestInv /\ [Next]_vars => RequestInv'
<1> SUFFICES ASSUME TypeInv, RequestInv, [Next]_vars PROVE RequestInv'
  OBVIOUS
<1>0. TypeOK /\ Known /\ (\A i \in Out : outbound[i].corr <= corr) /\ corr \in Nat
  BY CorrType DEF TypeInv, RequestInv, Known
<1>a. outbound' = outbound => Out' = Out
  BY DEF Out
<1>1. CASE CallBegin
  BY <1>1, CallBeginRequests
<1>2. CASE SendFragment
  BY <1>2, SendFragmentRequests
<1>3. CASE SendFails
  BY <1>3, SendFailsRequests
<1>4. CASE TakeEvent
  <2>1. Known'
    BY <1>0, <1>a, <1>4, TakeEventEffect, InboundKnown DEF TakeEvent
  <2> QED
    BY <1>4, <2>1, TakeEventEffect, WaitRequests
<1>5. ASSUME NEW why, pc = "await", GiveUp(why),
             UNCHANGED <<corr, outbound, inbound, stage, replied, refused>>
      PROVE  RequestInv'
  <2>1. Known'
    BY <1>0, <1>a, <1>5, InboundKnown
  <2>2. pc' = "cancel" /\ \A c \in Calls \ {corr} : outcome'[c] = outcome[c]
    BY <1>0, <1>5 DEF GiveUp, TypeOK
  <2> QED
    BY <1>5, <2>1, <2>2, WaitRequests
<1>6. CASE TakeNothing \/ PollFails
  BY <1>5, <1>6 DEF TakeNothing, PollFails, WaitedEnough, moduleVars
<1>7. CASE Cancel
  BY <1>7, CancelRequests
<1>8. CASE HostRefuses
  <2>1. Known'
    BY <1>0, <1>8, TakenRequests, EventTypes, SendKnown DEF HostRefuses, callVars
  <2> DEFINE s == "none"
  <2>2. /\ Taken("request") /\ stage' = [stage EXCEPT ![Frame.corr] = s]
        /\ UNCHANGED <<pc, corr, parts, sent, outcome, replied>>
        /\ refused' \subseteq refused \cup {Frame.corr}
    BY <1>8 DEF HostRefuses, callVars, resultVars
  <2>3. /\ s \in {"none", "assembling", "running"}
        /\ (s = "assembling" => Frame.more) /\ (s = "running" => ~Frame.more)
    OBVIOUS
  <2> HIDE DEF s
  <2> QED
    BY <2>1, <2>2, <2>3, RequestTaken
<1>9. CASE ModuleRefuses
  <2>1. Known'
    BY <1>0, <1>9, TakenRequests, EventTypes, SendKnown DEF ModuleRefuses, callVars
  <2> DEFINE s == "none"
  <2>2. /\ Taken("request") /\ stage' = [stage EXCEPT ![Frame.corr] = s]
        /\ UNCHANGED <<pc, corr, parts, sent, outcome, replied>>
        /\ refused' \subseteq refused \cup {Frame.corr}
    BY <1>9 DEF ModuleRefuses, callVars, resultVars
  <2>3. /\ s \in {"none", "assembling", "running"}
        /\ (s = "assembling" => Frame.more) /\ (s = "running" => ~Frame.more)
    OBVIOUS
  <2> HIDE DEF s
  <2> QED
    BY <2>1, <2>2, <2>3, RequestTaken
<1>10. CASE ModuleTakes
  <2>1. Known'
    BY <1>0, <1>10, TakenRequests, InboundKnown DEF ModuleTakes, callVars
  <2> DEFINE s == IF Frame.more THEN "assembling" ELSE "running"
  <2>2. /\ Taken("request") /\ stage' = [stage EXCEPT ![Frame.corr] = s]
        /\ UNCHANGED <<pc, corr, parts, sent, outcome, replied>>
        /\ refused' \subseteq refused \cup {Frame.corr}
    BY <1>10 DEF ModuleTakes, callVars, resultVars
  <2>3. /\ s \in {"none", "assembling", "running"}
        /\ (s = "assembling" => Frame.more) /\ (s = "running" => ~Frame.more)
    OBVIOUS
  <2> HIDE DEF s
  <2> QED
    BY <2>1, <2>2, <2>3, RequestTaken
<1>11. CASE ModuleCancelled
  <2>1. Known'
    BY <1>0, <1>11, TakenRequests, InboundKnown DEF ModuleCancelled, callVars
  <2> QED
    BY <1>11, <2>1, CancelTaken
<1>12. ASSUME NEW c \in Calls, ModuleReplies(c) PROVE RequestInv'
  <2>1. PICK more \in BOOLEAN :
          /\ Send([kind |-> "result", corr |-> c, ok |-> TRUE, part |-> replied[c] + 1,
                   more |-> more])
          /\ stage' = IF more THEN stage ELSE [stage EXCEPT ![c] = "over"]
    BY <1>12 DEF ModuleReplies
  <2>2. /\ stage[c] \in {"running", "stopping"} /\ replied[c] + 1 \in 0..MaxReply
        /\ stage'[c] \in {"running", "stopping", "over"}
        /\ \A d \in Calls \ {c} : stage'[d] = stage[d] /\ replied'[d] = replied[d]
        /\ UNCHANGED <<pc, corr, parts, sent, outcome, outbound, refused>>
    BY <1>0, <1>12, <2>1, BoundsAssumption DEF ModuleReplies, callVars, resultVars, TypeOK
  <2>3. c <= corr
    BY <1>0, <2>2 DEF RequestInv, Fresh, Calls
  <2>4. Known'
    BY <1>0, <1>a, <2>1, <2>2, <2>3, EventTypes, SendKnown
  <2> QED
    BY <2>2, <2>4, AnswerRequests
<1>13. ASSUME NEW c \in Calls, ModuleFails(c) PROVE RequestInv'
  <2>1. /\ stage[c] \in {"running", "stopping"} /\ stage'[c] = "over"
        /\ \A d \in Calls \ {c} : stage'[d] = stage[d] /\ replied'[d] = replied[d]
        /\ UNCHANGED <<pc, corr, parts, sent, outcome, outbound, refused>>
    BY <1>0, <1>13 DEF ModuleFails, callVars, resultVars, TypeOK
  <2>2. c <= corr
    BY <1>0, <2>1 DEF RequestInv, Fresh, Calls
  <2>3. Known'
    BY <1>0, <1>a, <1>13, <2>1, <2>2, EventTypes, SendKnown DEF ModuleFails
  <2> QED
    BY <2>1, <2>3, AnswerRequests
<1>14. CASE Unrelated
  <2>1. 0 \in 0..MaxCalls /\ corr \in 0..MaxCalls /\ 0 <= corr /\ corr <= corr
    BY <1>0, BoundsAssumption DEF TypeOK
  <2>2. Known'
    BY <1>0, <1>a, <1>14, <2>1, EventTypes, SendKnown DEF Unrelated, callVars
  <2> QED
    BY <1>14, <2>2, AsideRequests DEF Unrelated, callVars, resultVars
<1>15. CASE Expire \/ EndContext \/ BumpEpoch \/ UNCHANGED vars
  <2>1. UNCHANGED <<pc, corr, parts, sent, outcome, outbound, inbound, stage, replied, refused>>
    BY <1>15 DEF Expire, EndContext, BumpEpoch, vars, callVars, resultVars, moduleVars
  <2>2. Known'
    BY <1>0, <1>a, <2>1, InboundKnown
  <2> QED
    BY <2>1, <2>2, AsideRequests
<1> QED
  BY <1>1, <1>2, <1>3, <1>4, <1>6, <1>7, <1>8, <1>9, <1>10, <1>11, <1>12, <1>13, <1>14, <1>15
  DEF Next, Step, Module

LEMMA RequestsHold == Spec => [](TypeInv /\ RequestInv)
  BY InitType, InitRequests, NextType, NextRequests, PTL DEF Spec

(* A call that is over leaves the module an unfinished assembly only when   *)
(* send failed part of the way: a call given up for any other reason has    *)
(* its last fragment on its way, which ends the assembly.                   *)
THEOREM UnfinishedOnlyAfterFailedSend == Spec => []UnfinishedOnlyIfNotSent
<1>1. TypeInv /\ RequestInv => UnfinishedOnlyIfNotSent
  BY DEF RequestInv, Owed, Asks, Out, UnfinishedOnlyIfNotSent
<1> QED
  BY <1>1, RequestsHold, PTL

-----------------------------------------------------------------------------
(* Replies on their way back.                                               *)

(* The first n parts of a reply to c.                                       *)
Parts(c, n) == [i \in 1..n |-> <<c, i>>]

(* The last part of a reply says so, and nothing follows it.                *)
LastPart ==
  \A c \in Calls : \A i \in In : Part(c, i) /\ ~inbound[i].more =>
    stage[c] = "over" /\ inbound[i].part = replied[c]

(* What was received of the reply to the open call and what is still on its *)
(* way are together what the module has sent, in order.                     *)
Stream ==
  Open =>
    /\ Len(body) <= replied[corr] /\ body = Parts(corr, Len(body))
    /\ \A i \in In : Part(corr, i) =>
         /\ inbound[i].part > Len(body) /\ inbound[i].part <= replied[corr]
         /\ \A j \in In : Part(corr, j) /\ i < j => inbound[i].part < inbound[j].part
    /\ \A p \in (Len(body) + 1)..replied[corr] :
         \E i \in In : Part(corr, i) /\ inbound[i].part = p

(* A refusal of the open call comes before every part of a reply to it.     *)
Warned ==
  Open /\ corr \in refused =>
    \E k \in In : /\ Failure(corr, k)
                  /\ \A j \in In : Part(corr, j) => k < j

ReplyInv == LastPart /\ Stream /\ Warned /\ AnswerIsWhole /\ RefusedNeverSucceeds

LEMMA InitReplies == Init => ReplyInv
<1> SUFFICES ASSUME Init PROVE ReplyInv
  OBVIOUS
<1>1. In = {}
  BY DEF Init, In
<1> QED
  BY <1>1 DEF Init, ReplyInv, LastPart, Stream, Warned, AnswerIsWhole, RefusedNeverSucceeds, Open

LEMMA PartsAppend ==
  ASSUME NEW c, NEW n \in Nat
  PROVE  Append(Parts(c, n), <<c, n + 1>>) = Parts(c, n + 1)
<1> DEFINE S == {c} \X Nat
<1>1. /\ Parts(c, n) \in Seq(S) /\ Len(Parts(c, n)) = n
      /\ Parts(c, n + 1) \in Seq(S) /\ Len(Parts(c, n + 1)) = n + 1
      /\ <<c, n + 1>> \in S
  BY DEF Parts
<1> HIDE DEF S
<1>2. /\ Append(Parts(c, n), <<c, n + 1>>) \in Seq(S)
      /\ Len(Append(Parts(c, n), <<c, n + 1>>)) = n + 1
      /\ \A i \in 1..n : Append(Parts(c, n), <<c, n + 1>>)[i] = Parts(c, n)[i]
      /\ Append(Parts(c, n), <<c, n + 1>>)[n + 1] = <<c, n + 1>>
      /\ \A i \in 1..(n + 1) : i \in 1..n \/ i = n + 1
  BY <1>1, Appended
<1>3. \A i \in 1..(n + 1) : Append(Parts(c, n), <<c, n + 1>>)[i] = Parts(c, n + 1)[i]
  BY <1>2 DEF Parts
<1> QED
  BY <1>1, <1>2, <1>3, SeqEqual

(* Steps that leave the inbound ring and what was received alone.           *)
LEMMA QuietReplies ==
  ASSUME ReplyInv, UNCHANGED <<corr, body, value, inbound, replied, refused>>,
         Open' => Open,
         \A c \in Calls : stage[c] = "over" => stage'[c] = "over",
         \A c \in Calls : outcome'[c] = "ok" => outcome[c] = "ok",
         refused \subseteq Calls
  PROVE  ReplyInv'
<1> USE DEF ReplyInv
<1>1. In' = In
  BY DEF In
<1>2. LastPart'
  BY <1>1 DEF LastPart, Part, Result
<1>3. Stream'
  BY <1>1 DEF Stream, Part, Result
<1>4. Warned'
  BY <1>1 DEF Warned, Part, Failure, Result
<1>5. AnswerIsWhole' /\ RefusedNeverSucceeds'
  BY DEF AnswerIsWhole, RefusedNeverSucceeds
<1> QED
  BY <1>2, <1>3, <1>4, <1>5

(* A new call: nothing of a reply to it can be on its way.                  *)
LEMMA CallBeginReplies ==
  ASSUME TypeInv, RequestInv, ReplyInv, CallBegin
  PROVE  ReplyInv'
<1> USE DEF ReplyInv
<1>0. /\ corr \in Nat /\ corr' = corr + 1 /\ corr' \in Calls /\ body' = <<>>
      /\ UNCHANGED <<outcome, value, inbound, stage, replied, refused>>
  BY BoundsAssumption DEF CallBegin, TypeInv, TypeOK, Calls, resultVars, moduleVars
<1>1. replied[corr'] = 0 /\ corr' \notin refused
  BY <1>0 DEF RequestInv, Fresh
<1>2. \A i \in In : inbound[i].corr # corr'
  <2>1. \A i \in In : inbound[i].corr <= corr /\ inbound[i].corr \in Nat
    BY RingTypes DEF TypeInv, RequestInv, Known
  <2> QED
    BY <1>0, <2>1
<1>3. In' = In
  BY <1>0 DEF In
<1>4. LastPart'
  BY <1>0, <1>3 DEF LastPart, Part, Result
<1>5. Stream'
  <2>1. Len(body') = 0 /\ body' = Parts(corr', 0) /\ (0 + 1)..0 = {}
    BY <1>0 DEF Parts
  <2> QED
    BY <1>0, <1>1, <1>2, <1>3, <2>1 DEF Stream, Part, Result
<1>6. Warned'
  BY <1>0, <1>1 DEF Warned
<1>7. AnswerIsWhole' /\ RefusedNeverSucceeds'
  BY <1>0 DEF AnswerIsWhole, RefusedNeverSucceeds
<1> QED
  BY <1>4, <1>5, <1>6, <1>7

(* Putting an event on the inbound ring.                                    *)
LEMMA SentTo ==
  ASSUME TypeOK, NEW e \in Events, Send(e), NEW n, n = Len(inbound)
  PROVE  /\ n \in Nat /\ n + 1 \in In' /\ inbound'[n + 1] = e
         /\ \A i \in In : i \in In' /\ inbound'[i] = inbound[i] /\ i < n + 1
         /\ \A i \in In' : i \in In \/ i = n + 1
         /\ In' \subseteq Nat
<1>1. inbound \in Seq(Events)
  BY DEF TypeOK
<1> QED
  BY <1>1, Appended DEF Send, In

(* An event that is no part of a reply, and possibly the module's refusal   *)
(* of a call it has sent no part to.                                        *)
LEMMA FailureReplies ==
  ASSUME TypeInv, ReplyInv, NEW e \in Events, Send(e), e.kind # "result" \/ ~e.ok,
         UNCHANGED <<pc, corr, body, outcome, value, replied>>,
         \A c \in Calls : stage[c] = "over" => stage'[c] = "over",
         \/ refused' = refused
         \/ /\ e.kind = "result" /\ e.corr \in Calls /\ refused' = refused \cup {e.corr}
            /\ replied[e.corr] = 0 /\ outcome[e.corr] # "ok"
  PROVE  ReplyInv'
<1> USE DEF ReplyInv
<1>n. PICK n : n = Len(inbound)
  OBVIOUS
<1>1. /\ n \in Nat /\ n + 1 \in In' /\ inbound'[n + 1] = e
      /\ \A i \in In : i \in In' /\ inbound'[i] = inbound[i] /\ i < n + 1
      /\ \A i \in In' : i \in In \/ i = n + 1
  BY <1>n, SentTo DEF TypeInv
<1>2. \A c : \A i \in In' : Part(c, i)' => i \in In /\ Part(c, i)
  BY <1>1 DEF Part, Result
<1>3. \A c : \A i \in In : (Part(c, i) <=> Part(c, i)') /\ (Failure(c, i) <=> Failure(c, i)')
  BY <1>1 DEF Part, Failure, Result
<1>o. Open' <=> Open
  BY DEF Open
<1>4. LastPart'
  BY <1>1, <1>2 DEF LastPart
<1>5. Stream'
  <2> SUFFICES ASSUME Open, Stream, UNCHANGED <<corr, body, replied>>
               PROVE  /\ Len(body) <= replied[corr] /\ body = Parts(corr, Len(body))
                      /\ \A i \in In' : Part(corr, i)' =>
                           /\ inbound'[i].part > Len(body) /\ inbound'[i].part <= replied[corr]
                           /\ \A j \in In' : Part(corr, j)' /\ i < j => inbound'[i].part < inbound'[j].part
                      /\ \A p \in (Len(body) + 1)..replied[corr] :
                           \E i \in In' : Part(corr, i)' /\ inbound'[i].part = p
    BY <1>o DEF Stream
  <2>1. Len(body) <= replied[corr] /\ body = Parts(corr, Len(body))
    BY DEF Stream
  <2>2. ASSUME NEW i \in In', Part(corr, i)'
        PROVE  /\ inbound'[i].part > Len(body) /\ inbound'[i].part <= replied[corr]
               /\ \A j \in In' : Part(corr, j)' /\ i < j => inbound'[i].part < inbound'[j].part
    BY <1>1, <1>2, <2>2 DEF Stream
  <2>3. ASSUME NEW p \in (Len(body) + 1)..replied[corr]
        PROVE  \E i \in In' : Part(corr, i)' /\ inbound'[i].part = p
    BY <1>1, <1>3, <2>3 DEF Stream
  <2> QED
    BY <2>1, <2>2, <2>3
<1>6. Warned'
  <2> SUFFICES ASSUME Open, corr \in refused'
               PROVE  \E k \in In' : /\ Failure(corr, k)'
                                     /\ \A j \in In' : Part(corr, j)' => k < j
    BY <1>o DEF Warned
  <2>1. CASE corr \in refused
    BY <1>1, <1>2, <1>3, <2>1 DEF Warned
  <2>2. CASE corr \notin refused
    <3>1. e.kind = "result" /\ ~e.ok /\ e.corr = corr /\ replied[corr] = 0
      BY <2>2
    <3>2. Failure(corr, n + 1)'
      BY <1>1, <3>1 DEF Failure, Result
    <3>3. \A j \in In : ~Part(corr, j)
      <4> SUFFICES ASSUME NEW j \in In, Part(corr, j) PROVE FALSE
        OBVIOUS
      <4>1. inbound[j].part > Len(body) /\ inbound[j].part <= 0
        BY <3>1 DEF Stream
      <4>2. inbound[j].part \in Nat
        BY RingTypes, BoundsAssumption DEF Events, TypeInv
      <4>3. Len(body) \in Nat
        BY LenProperties DEF TypeInv, TypeOK
      <4> QED
        BY <4>1, <4>2, <4>3
    <3> QED
      BY <1>1, <1>2, <3>2, <3>3
  <2> QED
    BY <2>1, <2>2
<1>7. AnswerIsWhole'
  BY DEF AnswerIsWhole
<1>8. RefusedNeverSucceeds'
  BY DEF RefusedNeverSucceeds
<1> QED
  BY <1>4, <1>5, <1>6, <1>7, <1>8

(* The next part of a reply.                                                *)
LEMMA ModuleReplyReplies ==
  ASSUME TypeInv, RequestInv, ReplyInv, NEW c \in Calls, ModuleReplies(c)
  PROVE  ReplyInv'
<1> USE DEF ReplyInv
<1>0. /\ replied \in [Calls -> 0..MaxReply] /\ stage[c] # "over" /\ Room
      /\ MaxReply \in Nat /\ replied[c] \in Nat /\ replied[c] + 1 \in 0..MaxReply
      /\ UNCHANGED <<pc, corr, body, outcome, value, refused>>
      /\ replied'[c] = replied[c] + 1
      /\ \A d \in Calls \ {c} : replied'[d] = replied[d]
  BY BoundsAssumption DEF ModuleReplies, TypeInv, TypeOK, callVars, resultVars
<1>1. PICK more \in BOOLEAN :
        /\ Send([kind |-> "result", corr |-> c, ok |-> TRUE, part |-> replied[c] + 1,
                 more |-> more])
        /\ stage' = IF more THEN stage ELSE [stage EXCEPT ![c] = "over"]
  BY DEF ModuleReplies
<1>2. PICK e \in Events : /\ Send(e) /\ e.kind = "result" /\ e.corr = c /\ e.ok
                          /\ e.part = replied[c] + 1 /\ e.more = more
  BY <1>0, <1>1, EventTypes
<1>3. /\ \A d \in Calls \ {c} : stage'[d] = stage[d]
      /\ ~more => stage'[c] = "over"
  BY <1>1 DEF TypeInv, TypeOK
<1>n. PICK n : n = Len(inbound)
  OBVIOUS
<1>4. /\ n \in Nat /\ n + 1 \in In' /\ inbound'[n + 1] = e
      /\ \A i \in In : i \in In' /\ inbound'[i] = inbound[i] /\ i < n + 1 /\ i \in Nat
      /\ \A i \in In' : i \in In \/ i = n + 1
  BY <1>2, <1>n, SentTo DEF TypeInv, In
<1>5. \A d : \A i \in In : (Part(d, i) <=> Part(d, i)') /\ (Failure(d, i) <=> Failure(d, i)')
  BY <1>4 DEF Part, Failure, Result
<1>6. Part(c, n + 1)' /\ (\A d : Part(d, n + 1)' => d = c)
  BY <1>2, <1>4 DEF Part, Result
<1>o. Open' <=> Open
  BY <1>0 DEF Open
<1>7. LastPart'
  <2> SUFFICES ASSUME NEW d \in Calls, NEW i \in In', Part(d, i)', ~inbound'[i].more
               PROVE  stage'[d] = "over" /\ inbound'[i].part = replied'[d]
    BY DEF LastPart
  <2>1. CASE i \in In
    <3>1. stage[d] = "over" /\ inbound'[i].part = replied[d]
      BY <1>4, <1>5, <2>1 DEF LastPart
    <3> QED
      BY <1>0, <1>3, <3>1
  <2>2. CASE i = n + 1
    BY <1>0, <1>2, <1>3, <1>4, <1>6, <2>2
  <2> QED
    BY <1>4, <2>1, <2>2
<1>8. Stream'
  <2> SUFFICES ASSUME Open
               PROVE  /\ Len(body) <= replied'[corr] /\ body = Parts(corr, Len(body))
                      /\ \A i \in In' : Part(corr, i)' =>
                           /\ inbound'[i].part > Len(body) /\ inbound'[i].part <= replied'[corr]
                           /\ \A j \in In' : Part(corr, j)' /\ i < j => inbound'[i].part < inbound'[j].part
                      /\ \A p \in (Len(body) + 1)..replied'[corr] :
                           \E i \in In' : Part(corr, i)' /\ inbound'[i].part = p
    BY <1>0, <1>o DEF Stream
  <2>0. /\ corr \in Calls /\ Len(body) \in Nat /\ replied[corr] \in Nat
        /\ Len(body) <= replied[corr] /\ body = Parts(corr, Len(body))
    BY <1>0, CorrType, LenProperties DEF Stream, Open, TypeInv, TypeOK
  <2>1. \A i \in In : Part(corr, i) => inbound[i].part \in Nat
    <3>1. \A i \in In : inbound[i] \in Events
      BY RingTypes DEF TypeInv
    <3> QED
      BY <1>0, <3>1 DEF Events
  <2>2. CASE corr # c
    <3>1. replied'[corr] = replied[corr]
      BY <1>0, <2>0, <2>2
    <3>2. ASSUME NEW i \in In', Part(corr, i)'
          PROVE  i \in In /\ Part(corr, i) /\ inbound'[i] = inbound[i]
      BY <1>0, <1>4, <1>5, <1>6, <2>2, <3>2
    <3>3. ASSUME NEW p \in (Len(body) + 1)..replied[corr]
          PROVE  \E i \in In' : Part(corr, i)' /\ inbound'[i].part = p
      BY <1>0, <1>4, <1>5, <3>3 DEF Stream
    <3> QED
      BY <2>0, <3>1, <3>2, <3>3 DEF Stream
  <2>3. CASE corr = c
    <3>1. replied'[corr] = replied[corr] + 1
      BY <1>0, <2>3
    <3>2. ASSUME NEW i \in In', Part(corr, i)'
          PROVE  \/ i \in In /\ Part(corr, i) /\ inbound'[i] = inbound[i]
                 \/ i = n + 1 /\ inbound'[i].part = replied[corr] + 1
      BY <1>0, <1>2, <1>4, <1>5, <2>3, <3>2
    <3>3. ASSUME NEW i \in In', Part(corr, i)'
          PROVE  inbound'[i].part > Len(body) /\ inbound'[i].part <= replied[corr] + 1
      <4>1. CASE i \in In /\ Part(corr, i) /\ inbound'[i] = inbound[i]
        <5>1. inbound[i].part > Len(body) /\ inbound[i].part <= replied[corr]
          BY <4>1 DEF Stream
        <5> QED
          BY <2>0, <2>1, <4>1, <5>1
      <4>2. CASE i = n + 1 /\ inbound'[i].part = replied[corr] + 1
        BY <2>0, <4>2
      <4> QED
        BY <3>2, <3>3, <4>1, <4>2
    <3>4. ASSUME NEW i \in In', Part(corr, i)', NEW j \in In', Part(corr, j)', i < j
          PROVE  inbound'[i].part < inbound'[j].part
      <4>1. CASE j \in In /\ Part(corr, j) /\ inbound'[j] = inbound[j]
        <5>1. i \in In /\ Part(corr, i) /\ inbound'[i] = inbound[i]
          <6>1. i # n + 1
            BY <1>4, <3>4, <4>1
          <6> QED
            BY <3>2, <3>4, <6>1
        <5> QED
          BY <3>4, <4>1, <5>1 DEF Stream
      <4>2. CASE j = n + 1 /\ inbound'[j].part = replied[corr] + 1
        <5>1. i \in In /\ Part(corr, i) /\ inbound'[i] = inbound[i]
          <6>1. i # n + 1
            BY <1>4, <3>4, <4>2
          <6> QED
            BY <3>2, <3>4, <6>1
        <5>2. inbound[i].part <= replied[corr]
          BY <5>1 DEF Stream
        <5> QED
          BY <2>0, <2>1, <4>2, <5>1, <5>2
      <4> QED
        BY <3>2, <3>4, <4>1, <4>2
    <3>5. ASSUME NEW p \in (Len(body) + 1)..(replied[corr] + 1)
          PROVE  \E i \in In' : Part(corr, i)' /\ inbound'[i].part = p
      <4>1. CASE p = replied[corr] + 1
        BY <1>0, <1>2, <1>4, <1>6, <2>3, <4>1
      <4>2. CASE p \in (Len(body) + 1)..replied[corr]
        BY <1>0, <1>4, <1>5, <4>2 DEF Stream
      <4>3. p = replied[corr] + 1 \/ p \in (Len(body) + 1)..replied[corr]
        BY <2>0, <3>5
      <4> QED
        BY <4>1, <4>2, <4>3
    <3>6. Len(body) <= replied[corr] + 1
      BY <2>0
    <3> QED
      BY <2>0, <3>1, <3>3, <3>4, <3>5, <3>6
  <2> QED
    BY <2>2, <2>3
<1>9. Warned'
  <2> SUFFICES ASSUME Open, corr \in refused
               PROVE  \E k \in In' : /\ Failure(corr, k)'
                                     /\ \A j \in In' : Part(corr, j)' => k < j
    BY <1>0, <1>o DEF Warned
  <2>1. PICK k \in In : Failure(corr, k) /\ \A j \in In : Part(corr, j) => k < j
    BY DEF Warned
  <2>2. ASSUME NEW j \in In', Part(corr, j)' PROVE k < j
    BY <1>0, <1>4, <1>5, <2>1, <2>2
  <2> QED
    BY <1>0, <1>4, <1>5, <2>1, <2>2
<1>10. AnswerIsWhole'
  <2> SUFFICES ASSUME NEW d \in Calls, outcome[d] = "ok"
               PROVE  stage'[d] = "over" /\ value[d] = [i \in 1..replied'[d] |-> <<d, i>>]
    BY <1>0 DEF AnswerIsWhole
  <2>1. stage[d] = "over" /\ value[d] = [i \in 1..replied[d] |-> <<d, i>>]
    BY DEF AnswerIsWhole
  <2> QED
    BY <1>0, <1>3, <2>1
<1>11. RefusedNeverSucceeds'
  BY <1>0 DEF RefusedNeverSucceeds
<1> QED
  BY <1>7, <1>8, <1>9, <1>10, <1>11

(* Taking the first event off the inbound ring.                             *)
LEMMA TakenEvent ==
  ASSUME TypeInv, TakeEvent
  PROVE  /\ Head(inbound) = inbound[1] /\ inbound[1] \in Events /\ 1 \in In
         /\ inbound[1].part \in Nat
         /\ \A i \in In : i \in Nat /\ i >= 1 /\ inbound[i].part \in Nat
         /\ \A i \in In' : i \in Nat /\ i + 1 \in In /\ inbound'[i] = inbound[i + 1]
         /\ \A i \in In : i # 1 => i - 1 \in In' /\ inbound'[i - 1] = inbound[i]
<1>1. inbound \in Seq(Events) /\ inbound # <<>> /\ inbound' = Tail(inbound)
  BY DEF TypeInv, TypeOK, TakeEvent
<1>2. \A e \in Events : e.part \in Nat
  BY BoundsAssumption DEF Events
<1>3. \A i \in In : inbound[i] \in Events /\ i \in Nat /\ i >= 1
  BY RingTypes DEF TypeInv, In
<1>4. /\ Head(inbound) = inbound[1] /\ inbound[1] \in Events /\ 1 \in In
      /\ \A i \in In' : i \in Nat /\ i + 1 \in In /\ inbound'[i] = inbound[i + 1]
      /\ \A i \in In : i # 1 => i - 1 \in In' /\ inbound'[i - 1] = inbound[i]
  BY <1>1, Behead DEF In
<1> QED
  BY <1>2, <1>3, <1>4

(* What a taken event leaves behind is the last part of a reply only where  *)
(* it was before.                                                           *)
LEMMA TakenLastPart ==
  ASSUME TypeInv, ReplyInv, TakeEvent
  PROVE  LastPart'
<1>1. UNCHANGED <<stage, replied>>
  BY TakeEventEffect
<1>2. \A i \in In' : i \in Nat /\ i + 1 \in In /\ inbound'[i] = inbound[i + 1]
  BY TakenEvent
<1> QED
  BY <1>1, <1>2 DEF ReplyInv, LastPart, Part, Result

(* An event that ends the call without an answer.                           *)
LEMMA GivenUpReplies ==
  ASSUME TypeInv, ReplyInv, TakeEvent, pc' = "cancel",
         value' = value
  PROVE  ReplyInv'
<1> USE DEF ReplyInv
<1>1. LastPart'
  BY TakenLastPart
<1>2. Stream' /\ Warned'
  BY DEF Stream, Warned, Open
<1>3. /\ UNCHANGED <<corr, stage, replied, refused>> /\ outcome'[corr] \in Failures
      /\ \A c \in Calls \ {corr} : outcome'[c] = outcome[c]
      /\ refused \subseteq Calls
  BY TakeEventEffect DEF TypeInv, TypeOK
<1>4. \A c \in Calls : outcome'[c] = "ok" => outcome[c] = "ok"
  BY <1>3 DEF Failures
<1>5. AnswerIsWhole' /\ RefusedNeverSucceeds'
  BY <1>3, <1>4 DEF AnswerIsWhole, RefusedNeverSucceeds
<1> QED
  BY <1>1, <1>2, <1>5

(* An event of somebody else, or a late one of an earlier call.             *)
LEMMA OtherReplies ==
  ASSUME TypeInv, ReplyInv, TakeEvent, TakeOther(Head(inbound))
  PROVE  ReplyInv'
<1> USE DEF ReplyInv
<1>0. /\ UNCHANGED <<pc, corr, body, outcome, value, stage, replied, refused>>
      /\ pc = "await" /\ Open
  BY TakeEventEffect DEF TakeOther, resultVars, Open
<1>1. ~Part(corr, 1) /\ ~Failure(corr, 1)
  BY TakenEvent DEF TakeOther, IsResult, Part, Failure, Result
<1>2. /\ \A i \in In' : /\ i \in Nat /\ i + 1 \in In /\ inbound'[i] = inbound[i + 1]
                        /\ Part(corr, i)' <=> Part(corr, i + 1)
      /\ \A i \in In : i # 1 => /\ i - 1 \in In' /\ inbound'[i - 1] = inbound[i]
                                /\ Part(corr, i) => Part(corr, i - 1)'
                                /\ Failure(corr, i) => Failure(corr, i - 1)'
      /\ \A i \in In : i \in Nat
  BY <1>0, TakenEvent DEF Part, Failure, Result
<1>3. LastPart'
  BY TakenLastPart
<1>4. Stream'
  <2>1. Len(body) <= replied[corr] /\ body = Parts(corr, Len(body))
    BY <1>0 DEF Stream
  <2>2. ASSUME NEW i \in In', Part(corr, i)'
        PROVE  /\ inbound'[i].part > Len(body) /\ inbound'[i].part <= replied[corr]
               /\ \A j \in In' : Part(corr, j)' /\ i < j => inbound'[i].part < inbound'[j].part
    <3>1. i + 1 \in In /\ Part(corr, i + 1) /\ inbound'[i] = inbound[i + 1] /\ i \in Nat
      BY <1>2, <2>2
    <3>2. ASSUME NEW j \in In', Part(corr, j)', i < j
          PROVE  inbound'[i].part < inbound'[j].part
      <4>1. j \in Nat /\ j + 1 \in In /\ Part(corr, j + 1) /\ inbound'[j] = inbound[j + 1]
        BY <1>2, <3>2
      <4>2. i + 1 < j + 1
        BY <3>1, <3>2, <4>1
      <4> QED
        BY <1>0, <3>1, <4>1, <4>2 DEF Stream
    <3> QED
      BY <1>0, <3>1, <3>2 DEF Stream
  <2>3. ASSUME NEW p \in (Len(body) + 1)..replied[corr]
        PROVE  \E i \in In' : Part(corr, i)' /\ inbound'[i].part = p
    <3>1. PICK i \in In : Part(corr, i) /\ inbound[i].part = p
      BY <1>0, <2>3 DEF Stream
    <3>2. i - 1 \in In' /\ Part(corr, i - 1)' /\ inbound'[i - 1].part = p
      BY <1>1, <1>2, <3>1
    <3> QED
      BY <3>2
  <2> QED
    BY <1>0, <2>1, <2>2, <2>3 DEF Stream
<1>5. Warned'
  <2> SUFFICES ASSUME corr \in refused
               PROVE  \E k \in In' : /\ Failure(corr, k)'
                                     /\ \A j \in In' : Part(corr, j)' => k < j
    BY <1>0 DEF Warned
  <2>1. PICK k \in In : Failure(corr, k) /\ \A j \in In : Part(corr, j) => k < j
    BY <1>0 DEF Warned
  <2>2. k \in Nat /\ k - 1 \in In' /\ Failure(corr, k - 1)'
    BY <1>1, <1>2, <2>1
  <2>3. ASSUME NEW j \in In', Part(corr, j)' PROVE k - 1 < j
    <3>1. j \in Nat /\ k < j + 1
      BY <1>2, <2>1, <2>3
    <3> QED
      BY <2>2, <3>1
  <2> QED
    BY <2>2, <2>3
<1>6. AnswerIsWhole' /\ RefusedNeverSucceeds'
  BY <1>0 DEF AnswerIsWhole, RefusedNeverSucceeds
<1> QED
  BY <1>3, <1>4, <1>5, <1>6

(* A part of the reply to this call is the next one, and no refusal of the  *)
(* call came before it.                                                     *)
LEMMA NextPart ==
  ASSUME TypeInv, ReplyInv, TakeEvent, Part(corr, 1)
  PROVE  /\ Len(body) \in Nat /\ replied[corr] \in Nat /\ corr \in Calls
         /\ inbound[1].part = Len(body) + 1 /\ Len(body) + 1 <= replied[corr]
         /\ body = Parts(corr, Len(body)) /\ corr \notin refused
<1> USE DEF ReplyInv
<1>0. Open /\ Len(body) \in Nat /\ corr \in Calls
  BY CorrType, TakeEventEffect, LenProperties DEF Open, TypeInv, TypeOK
<1>1. replied[corr] \in Nat
  BY <1>0, BoundsAssumption DEF TypeInv, TypeOK
<1>2. /\ inbound[1].part > Len(body) /\ inbound[1].part <= replied[corr]
      /\ 1 \in In /\ inbound[1].part \in Nat /\ body = Parts(corr, Len(body))
      /\ \A j \in In : Part(corr, j) /\ 1 < j => inbound[1].part < inbound[j].part
  BY <1>0, TakenEvent DEF Stream
<1>3. Len(body) + 1 \in (Len(body) + 1)..replied[corr]
  BY <1>0, <1>1, <1>2
<1>4. PICK i \in In : Part(corr, i) /\ inbound[i].part = Len(body) + 1
  BY <1>0, <1>3 DEF Stream
<1>5. i \in Nat /\ i >= 1
  BY <1>4, TakenEvent
<1>6. inbound[1].part = Len(body) + 1
  <2>1. CASE i = 1
    BY <1>4, <2>1
  <2>2. CASE 1 < i
    BY <1>0, <1>2, <1>4, <2>2
  <2> QED
    BY <1>5, <2>1, <2>2
<1>7. corr \notin refused
  <2> SUFFICES ASSUME corr \in refused PROVE FALSE
    OBVIOUS
  <2>1. PICK k \in In : k < 1
    BY <1>0, <1>2 DEF Warned
  <2> QED
    BY <2>1, TakenEvent
<1> QED
  BY <1>0, <1>1, <1>2, <1>3, <1>6, <1>7

LEMMA PartReplies ==
  ASSUME TypeInv, ReplyInv, TakeEvent, TakePart(Head(inbound))
  PROVE  ReplyInv'
<1> USE DEF ReplyInv
<1>e. PICK e : e = Head(inbound)
  OBVIOUS
<1>0. /\ UNCHANGED <<corr, stage, replied, refused>> /\ pc = "await" /\ Open
      /\ refused \subseteq Calls
      /\ \A c \in Calls \ {corr} : outcome'[c] = outcome[c] /\ value'[c] = value[c]
  BY TakeEventEffect DEF Open, TypeInv, TypeOK
<1>1. Part(corr, 1) /\ e = inbound[1] /\ e.corr = corr
  BY <1>e, TakenEvent DEF TakePart, IsResult, Part, Result
<1>m. PICK m : m = Len(body)
  OBVIOUS
<1>2. /\ m \in Nat /\ replied[corr] \in Nat /\ corr \in Calls
      /\ inbound[1].part = m + 1 /\ m + 1 <= replied[corr]
      /\ body = Parts(corr, m) /\ corr \notin refused
  BY <1>1, <1>m, NextPart
<1>3. body' = Parts(corr, m + 1) /\ Len(body') = m + 1
  <2>1. body' = Append(body, <<corr, m + 1>>)
    BY <1>e, <1>1, <1>2 DEF TakePart
  <2>2. Len(Parts(corr, m + 1)) = m + 1
    BY <1>2 DEF Parts
  <2> QED
    BY <1>2, <2>1, <2>2, PartsAppend
<1>4. LastPart'
  BY TakenLastPart
<1>5. Warned'
  BY <1>0, <1>2 DEF Warned
<1>6. CASE e.more
  <2>1. UNCHANGED <<pc, outcome, value>>
    BY <1>e, <1>6 DEF TakePart, resultVars
  <2>2. AnswerIsWhole' /\ RefusedNeverSucceeds'
    BY <1>0, <2>1 DEF AnswerIsWhole, RefusedNeverSucceeds
  <2>3. /\ \A i \in In' : /\ i \in Nat /\ i + 1 \in In /\ inbound'[i] = inbound[i + 1]
                          /\ Part(corr, i)' <=> Part(corr, i + 1)
        /\ \A i \in In : i # 1 => /\ i - 1 \in In' /\ inbound'[i - 1] = inbound[i]
                                  /\ Part(corr, i) => Part(corr, i - 1)'
        /\ \A i \in In : i \in Nat /\ inbound[i].part \in Nat
        /\ 1 \in In
    BY <1>0, TakenEvent DEF Part, Result
  <2>4. Stream'
    <3>1. ASSUME NEW i \in In', Part(corr, i)'
          PROVE  /\ inbound'[i].part > m + 1 /\ inbound'[i].part <= replied[corr]
                 /\ \A j \in In' : Part(corr, j)' /\ i < j => inbound'[i].part < inbound'[j].part
      <4>1. i + 1 \in In /\ Part(corr, i + 1) /\ inbound'[i] = inbound[i + 1] /\ i \in Nat
        BY <2>3, <3>1
      <4>2. 1 < i + 1
        <5>1. i # 0
          BY <3>1, <4>1 DEF In
        <5> QED
          BY <4>1, <5>1
      <4>3. ASSUME NEW j \in In', Part(corr, j)', i < j
            PROVE  inbound'[i].part < inbound'[j].part
        <5>1. j \in Nat /\ j + 1 \in In /\ Part(corr, j + 1) /\ inbound'[j] = inbound[j + 1]
          BY <2>3, <4>3
        <5>2. i + 1 < j + 1
          BY <4>1, <4>3, <5>1
        <5> QED
          BY <1>0, <4>1, <5>1, <5>2 DEF Stream
      <4>4. inbound[1].part < inbound[i + 1].part /\ inbound[i + 1].part <= replied[corr]
        BY <1>0, <1>1, <2>3, <4>1, <4>2 DEF Stream
      <4>5. inbound'[i].part > m + 1
        BY <1>2, <2>3, <4>1, <4>4
      <4> QED
        BY <4>1, <4>3, <4>4, <4>5
    <3>2. ASSUME NEW p \in ((m + 1) + 1)..replied[corr]
          PROVE  \E i \in In' : Part(corr, i)' /\ inbound'[i].part = p
      <4>1. p \in (m + 1)..replied[corr] /\ p # m + 1
        BY <1>2, <3>2
      <4>2. PICK i \in In : Part(corr, i) /\ inbound[i].part = p
        BY <1>0, <1>m, <4>1 DEF Stream
      <4>3. i # 1
        BY <1>2, <4>1, <4>2
      <4>4. i - 1 \in In' /\ Part(corr, i - 1)' /\ inbound'[i - 1].part = p
        BY <2>3, <4>2, <4>3
      <4> QED
        BY <4>4
    <3> QED
      BY <1>0, <1>2, <1>3, <3>1, <3>2 DEF Stream
  <2> QED
    BY <1>4, <1>5, <2>2, <2>4
<1>7. CASE ~e.more
  <2>1. pc' = "idle" /\ value'[corr] = body'
    BY <1>e, <1>2, <1>7 DEF TakePart, TypeInv, TypeOK
  <2>2. Stream'
    BY <2>1 DEF Stream, Open
  <2>3. stage[corr] = "over" /\ m + 1 = replied[corr]
    BY <1>1, <1>2, <1>7, TakenEvent DEF LastPart
  <2>4. value'[corr] = [i \in 1..replied[corr] |-> <<corr, i>>]
    BY <1>3, <2>1, <2>3 DEF Parts
  <2>5. AnswerIsWhole'
    BY <1>0, <2>3, <2>4 DEF AnswerIsWhole
  <2>6. RefusedNeverSucceeds'
    BY <1>0, <1>2 DEF RefusedNeverSucceeds
  <2> QED
    BY <1>4, <1>5, <2>2, <2>5, <2>6
<1> QED
  BY <1>6, <1>7

LEMMA NextReplies == TypeInv /\ RequestInv /\ ReplyInv /\ [Next]_vars => ReplyInv'
<1> SUFFICES ASSUME TypeInv, RequestInv, ReplyInv, [Next]_vars PROVE ReplyInv'
  OBVIOUS
<1>0. /\ corr \in 0..MaxCalls /\ (pc # "idle" => corr \in Calls)
      /\ outcome \in [Calls -> Failures \cup {"none", "ok"}]
      /\ refused \subseteq Calls /\ outbound \in Seq(Requests)
      /\ stage \in [Calls -> {"none", "assembling", "running", "stopping", "over"}]
      /\ MaxReply \in Nat
  BY CorrType, BoundsAssumption DEF TypeInv, TypeOK
<1>t. TypeOK
  BY DEF TypeInv
(* The call a frame is about, as long as the module has not answered it.    *)
<1>f. ASSUME Taken("request")
      PROVE  /\ Frame.corr \in Calls /\ stage[Frame.corr] \in {"none", "assembling"}
             /\ replied[Frame.corr] = 0 /\ outcome[Frame.corr] # "ok"
  <2>1. /\ 1 \in Out /\ outbound[1] = Frame /\ Frame \in Requests
    BY <1>0, <1>f, Behead DEF Taken, Frame, Out
  <2>2. Frame.corr \in Calls /\ Asks(Frame.corr, 1)
    BY <1>f, <2>1 DEF Requests, Asks, Taken
  <2>3. stage[Frame.corr] \in {"none", "assembling"}
    BY <2>1, <2>2 DEF RequestInv, Asked
  <2> QED
    BY <2>2, <2>3 DEF RequestInv, Silent, ReplyInv, AnswerIsWhole
<1>1. CASE CallBegin
  BY <1>1, CallBeginReplies
<1>2. CASE SendFragment \/ SendFails \/ TakeNothing \/ PollFails \/ Cancel
  <2>1. UNCHANGED <<corr, body, value, inbound, replied, refused, stage>>
    BY <1>2 DEF SendFragment, SendFails, TakeNothing, PollFails, Cancel, WaitedEnough, GiveUp,
                moduleVars, resultVars
  <2>2. Open' => Open
    BY <1>2 DEF SendFragment, SendFails, TakeNothing, PollFails, Cancel, WaitedEnough, GiveUp, Open
  <2>3. \A c \in Calls : outcome'[c] = "ok" => outcome[c] = "ok"
    BY <1>0, <1>2 DEF SendFragment, SendFails, TakeNothing, PollFails, Cancel, WaitedEnough, GiveUp,
                      resultVars
  <2> QED
    BY <1>0, <2>1, <2>2, <2>3, QuietReplies
<1>3. CASE TakeEvent
  <2> DEFINE e == Head(inbound)
  <2>1. TakeControl(e) \/ TakeOther(e) \/ TakeFailure(e) \/ TakeTooLong(e) \/ TakePart(e)
    BY <1>3 DEF TakeEvent
  <2>2. TakeControl(e) \/ TakeFailure(e) \/ TakeTooLong(e) => pc' = "cancel" /\ value' = value
    BY DEF TakeControl, TakeFailure, TakeTooLong, GiveUp
  <2> QED
    BY <1>3, <2>1, <2>2, GivenUpReplies, OtherReplies, PartReplies
<1>4. CASE ModuleTakes \/ ModuleCancelled
  <2>1. UNCHANGED <<pc, corr, body, value, outcome, inbound, replied, refused>>
    BY <1>4 DEF ModuleTakes, ModuleCancelled, callVars, resultVars
  <2>2. \A c \in Calls : stage[c] = "over" => stage'[c] = "over"
    BY <1>0, <1>4 DEF ModuleTakes, ModuleCancelled
  <2> QED
    BY <1>0, <2>1, <2>2, QuietReplies DEF Open
<1>5. CASE HostRefuses
  <2>1. Taken("request")
    BY <1>5 DEF HostRefuses
  <2>2. PICK kind \in {"absent", "error"} :
          Send([kind |-> kind, corr |-> Frame.corr, ok |-> FALSE, part |-> 0, more |-> FALSE])
    BY <1>5 DEF HostRefuses
  <2>3. PICK e \in Events : Send(e) /\ e.kind # "result"
    BY <1>f, <2>1, <2>2, EventTypes DEF Calls
  <2>4. UNCHANGED <<pc, corr, body, outcome, value, replied, refused>>
    BY <1>5 DEF HostRefuses, callVars, resultVars
  <2>5. \A c \in Calls : stage[c] = "over" => stage'[c] = "over"
    BY <1>0, <1>5, <1>f, <2>1 DEF HostRefuses
  <2> QED
    BY <2>3, <2>4, <2>5, FailureReplies
<1>6. CASE ModuleRefuses
  <2>1. Taken("request")
    BY <1>6 DEF ModuleRefuses
  <2>3. PICK e \in Events : Send(e) /\ e.kind = "result" /\ ~e.ok /\ e.corr = Frame.corr
    BY <1>6, <1>f, <2>1, EventTypes DEF ModuleRefuses, Calls
  <2>4. UNCHANGED <<pc, corr, body, outcome, value, replied>> /\ refused' = refused \cup {e.corr}
    BY <1>6, <2>3 DEF ModuleRefuses, callVars, resultVars
  <2>5. \A c \in Calls : stage[c] = "over" => stage'[c] = "over"
    BY <1>0, <1>6, <1>f, <2>1 DEF ModuleRefuses
  <2> QED
    BY <1>f, <2>1, <2>3, <2>4, <2>5, FailureReplies
<1>7. ASSUME NEW c \in Calls, ModuleReplies(c) PROVE ReplyInv'
  BY <1>7, ModuleReplyReplies
<1>8. ASSUME NEW c \in Calls, ModuleFails(c) PROVE ReplyInv'
  <2>1. PICK e \in Events : Send(e) /\ ~e.ok
    BY <1>8, EventTypes DEF ModuleFails, Calls
  <2>2. UNCHANGED <<pc, corr, body, outcome, value, replied, refused>>
    BY <1>8 DEF ModuleFails, callVars, resultVars
  <2>3. \A d \in Calls : stage[d] = "over" => stage'[d] = "over"
    BY <1>0, <1>8 DEF ModuleFails
  <2> QED
    BY <2>1, <2>2, <2>3, FailureReplies
<1>9. CASE Unrelated
  <2>1. PICK c \in {0, corr} :
          Send([kind |-> "other", corr |-> c, ok |-> TRUE, part |-> 0, more |-> FALSE])
    BY <1>9 DEF Unrelated
  <2>2. c \in 0..MaxCalls
    BY <1>0, BoundsAssumption
  <2>3. PICK e \in Events : Send(e) /\ e.kind # "result"
    BY <2>1, <2>2, EventTypes
  <2> QED
    BY <1>9, <2>3, FailureReplies DEF Unrelated, callVars, resultVars
<1>10. CASE Expire \/ EndContext \/ BumpEpoch \/ UNCHANGED vars
  BY <1>0, <1>10, QuietReplies
  DEF Expire, EndContext, BumpEpoch, vars, callVars, resultVars, moduleVars, Open
<1> QED
  BY <1>1, <1>2, <1>3, <1>4, <1>5, <1>6, <1>7, <1>8, <1>9, <1>10 DEF Next, Step, Module

LEMMA RepliesHold == Spec => []ReplyInv
  BY InitReplies, RequestsHold, NextReplies, PTL DEF Spec

(* A call that succeeds returns the whole reply to its own request, every   *)
(* fragment once and in order: awaitReply drops what answers earlier calls, *)
(* and the module sends nothing after the last part.                        *)
THEOREM AnswersAreWhole == Spec => []AnswerIsWhole
<1>1. ReplyInv => AnswerIsWhole
  BY DEF ReplyInv
<1> QED
  BY <1>1, RepliesHold, PTL

(* A call the module refused a fragment of does not succeed, whatever the   *)
(* module makes of the fragments that follow: the refusal is ahead of every *)
(* part of a reply, and awaitReply stops at it.                             *)
THEOREM RefusedCallsNeverSucceed == Spec => []RefusedNeverSucceeds
<1>1. ReplyInv => RefusedNeverSucceeds
  BY DEF ReplyInv
<1> QED
  BY <1>1, RepliesHold, PTL
=============================================================================
