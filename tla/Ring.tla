-------------------------------- MODULE Ring --------------------------------
(***************************************************************************)
(* The single-producer single-consumer ring in shared memory of             *)
(* server-go/bus/ring.go, with the two ends bus/client.go puts on it: emit  *)
(* produces and Poll consumes.  Each end runs in a process of its own; the  *)
(* other end of either ring is the host, which follows the same protocol.   *)
(*                                                                          *)
(* A step is one atomic load or store of an index, together with the        *)
(* process's own work up to the next; the slot is written without any       *)
(* atomicity, and is Torn while it is.  Indices are unsigned integers that  *)
(* wrap around at Modulus (2^64 in the code).                               *)
(***************************************************************************)
EXTENDS Naturals, Sequences

CONSTANTS
  Frames,       \* the frames that may be sent
  Undecodable,  \* those Decode rejects
  Cap,          \* capacity, a power of two
  Modulus,      \* number of index values, a multiple of Cap
  None,         \* no frame
  Torn          \* a slot that is being written

ASSUME GeometryAssumption ==
  /\ Cap \in Nat \ {0, 1} /\ Modulus \in Nat
  /\ Modulus > Cap /\ Modulus % Cap = 0

ASSUME FramesAssumption ==
  Undecodable \subseteq Frames /\ None \notin Frames /\ Torn \notin Frames /\ Torn # None

VARIABLES
  head, tail, \* the indices, free running
  slots,      \* the slots
  producer,   \* where emit is
  frame,      \* the frame emit is sending
  consumer,   \* where Poll is
  pending,    \* pendingRead: the slot handed out is still in use
  event,      \* the frame handed out, as it was then, until the next Poll
  view,       \* the slot its payload points into
  epoch       \* the host has restarted since attach

vars == <<head, tail, slots, producer, frame, consumer, pending, event, view, epoch>>

-----------------------------------------------------------------------------
Index == 0..(Modulus - 1)
Cells == 0..(Cap - 1)

Succ(i) == (i + 1) % Modulus

(* head - tail in unsigned arithmetic.                                      *)
Count == (head + Modulus - tail) % Modulus

(* Mutant: one frame too many.                                              *)
FullLate == Count > Cap

Full == Count >= Cap
Cell(i) == i % Cap

(* The indices and slots have their types and AttachRing's bound on them    *)
(* goes on to hold.                                                         *)
TypeOK ==
  /\ head \in Index /\ tail \in Index /\ Count <= Cap
  /\ slots \in [Cells -> Frames \cup {Torn}]
  /\ producer \in {"idle", "writing", "written"}
  /\ frame \in Frames \cup {None} /\ (producer # "idle" => frame \in Frames)
  /\ consumer \in {"idle", "begin"}
  /\ pending \in BOOLEAN
  /\ event \in Frames \cup {None} /\ view \in Cells
  /\ epoch \in BOOLEAN

(* AttachRing adopts a ring wherever its indices are, provided they are no  *)
(* further apart than its capacity.                                         *)
Init ==
  /\ head \in Index /\ tail \in Index /\ Count <= Cap
  /\ slots \in [Cells -> Frames]
  /\ producer = "idle" /\ frame = None
  /\ consumer = "idle" /\ pending = FALSE /\ event = None /\ view = 0
  /\ epoch = FALSE

-----------------------------------------------------------------------------
(* Client.emit                                                              *)

producerVars == <<producer, frame>>
consumerVars == <<consumer, pending, event, view>>

(* ProduceBegin finds room; with none emit returns ErrWouldBlock.           *)
ProduceBegin(f) ==
  /\ producer = "idle" /\ ~epoch /\ ~Full
  /\ slots' = [slots EXCEPT ![Cell(head)] = Torn]
  /\ producer' = "writing" /\ frame' = f
  /\ UNCHANGED <<head, tail, consumerVars, epoch>>

(* Encode and copy have filled the slot.                                    *)
Encoded ==
  /\ producer = "writing"
  /\ slots' = [slots EXCEPT ![Cell(head)] = frame]
  /\ producer' = "written"
  /\ UNCHANGED <<head, tail, frame, consumerVars, epoch>>

(* Encode fails: emit returns without publishing the slot.                  *)
EncodeFails ==
  /\ producer = "writing"
  /\ producer' = "idle" /\ frame' = None
  /\ UNCHANGED <<head, tail, slots, consumerVars, epoch>>

(* Mutant: the slot is published before it has been filled.                 *)
ProduceCommitEarly ==
  /\ producer \in {"writing", "written"}
  /\ head' = Succ(head)
  /\ producer' = "idle" /\ frame' = None
  /\ UNCHANGED <<tail, slots, consumerVars, epoch>>

ProduceCommit ==
  /\ producer = "written"
  /\ head' = Succ(head)
  /\ producer' = "idle" /\ frame' = None
  /\ UNCHANGED <<tail, slots, consumerVars, epoch>>

-----------------------------------------------------------------------------
(* Client.Poll                                                              *)

(* Poll begins by letting go of the slot it handed out last, whose event is *)
(* no longer used.                                                          *)
PollStart ==
  /\ consumer = "idle" /\ ~epoch
  /\ tail' = IF pending THEN Succ(tail) ELSE tail
  /\ pending' = FALSE /\ event' = None
  /\ consumer' = "begin"
  /\ UNCHANGED <<head, slots, producerVars, view, epoch>>

PollEmpty ==
  /\ consumer = "begin" /\ head = tail
  /\ consumer' = "idle"
  /\ UNCHANGED <<head, tail, slots, producerVars, pending, event, view, epoch>>

(* Mutant: the slot is released as soon as its frame is decoded.            *)
PollTakeReleasing ==
  /\ consumer = "begin" /\ head # tail /\ slots[Cell(tail)] \notin Undecodable
  /\ event' = slots[Cell(tail)] /\ view' = Cell(tail)
  /\ tail' = Succ(tail)
  /\ pending' = FALSE /\ consumer' = "idle"
  /\ UNCHANGED <<head, slots, producerVars, epoch>>

PollTake ==
  /\ consumer = "begin" /\ head # tail /\ slots[Cell(tail)] \notin Undecodable
  /\ event' = slots[Cell(tail)] /\ view' = Cell(tail)
  /\ pending' = TRUE /\ consumer' = "idle"
  /\ UNCHANGED <<head, tail, slots, producerVars, epoch>>

(* Mutant: a frame that does not decode is left where it is.                *)
PollUndecodableKept ==
  /\ consumer = "begin" /\ head # tail /\ slots[Cell(tail)] \in Undecodable
  /\ consumer' = "idle"
  /\ UNCHANGED <<head, tail, slots, producerVars, pending, event, view, epoch>>

(* A frame that does not decode is released at once and not reported.       *)
PollUndecodable ==
  /\ consumer = "begin" /\ head # tail /\ slots[Cell(tail)] \in Undecodable
  /\ tail' = Succ(tail) /\ consumer' = "idle"
  /\ UNCHANGED <<head, slots, producerVars, pending, event, view, epoch>>

-----------------------------------------------------------------------------
BumpEpoch ==
  /\ ~epoch /\ epoch' = TRUE
  /\ UNCHANGED <<head, tail, slots, producerVars, consumerVars>>

(* Both ends have found the host restarted: no call does anything any more. *)
Ended == epoch /\ producer = "idle" /\ consumer = "idle" /\ UNCHANGED vars

Produce == (\E f \in Frames : ProduceBegin(f)) \/ Encoded \/ EncodeFails \/ ProduceCommit
Poll    == PollStart \/ PollEmpty \/ PollTake \/ PollUndecodable

Next == Produce \/ Poll \/ BumpEpoch \/ Ended

Spec == Init /\ [][Next]_vars

(* The consumer goes on polling: the loops of module_runtime.go and         *)
(* module_caller.go call Poll until they leave.                             *)
FairSpec == Spec /\ WF_vars(Poll)

-----------------------------------------------------------------------------
(* Properties.                                                              *)

(* What is between tail and head, oldest first.                             *)
Contents == [i \in 1..Count |-> slots[Cell(tail + i - 1)]]

Queue == INSTANCE FrameQueue WITH
           queue <- Contents,
           held  <- IF pending THEN event ELSE None

(* The ring is a bounded queue: every frame that was committed is handed    *)
(* out once, in order and whole, across the wrap of the indices and however *)
(* the two ends interleave; nothing that was not committed is seen.         *)
IsBoundedQueue == Queue!QSpec

(* The payload Poll returned points into a slot that keeps its bytes until  *)
(* the next Poll, as the comment of Poll says: the producer does not reuse  *)
(* it meanwhile.                                                            *)
PayloadStable == event # None => slots[view] = event

(* A full ring has room again some day while the host does not restart,     *)
(* also when what blocks it does not decode: emit's ErrWouldBlock is never  *)
(* for ever.                                                                *)
RoomAgain == Full ~> (~Full \/ epoch)
=============================================================================
