----------------------------- MODULE RingProofs -----------------------------
(***************************************************************************)
(* Proofs about Ring, for every capacity, every index width that the        *)
(* capacity divides, and every set of frames: the type invariant, that a    *)
(* payload handed out stays intact, and that the ring implements the        *)
(* bounded queue of FrameQueue.                                             *)
(***************************************************************************)
EXTENDS Ring, Integers, SequenceTheorems, TLAPS

-----------------------------------------------------------------------------
(* Arithmetic of the free-running indices.                                  *)

(* A remainder is in range, and names a quotient.                           *)
LEMMA Division ==
  ASSUME NEW m \in Nat \ {0}, NEW a \in Nat
  PROVE  /\ a % m \in 0..(m - 1)
         /\ a \div m \in Nat
         /\ a = m * (a \div m) + (a % m)
  OBVIOUS

(* ... and the remainder is the only number in range that does.             *)
LEMMA Remainder ==
  ASSUME NEW m \in Nat \ {0}, NEW q \in Nat, NEW r \in 0..(m - 1)
  PROVE  (m * q + r) % m = r
  OBVIOUS

(* Two numbers less than m apart have different remainders.                 *)
LEMMA RemaindersDiffer ==
  ASSUME NEW m \in Nat \ {0}, NEW a \in Nat, NEW b \in Nat, a < b, b < a + m
  PROVE  a % m # b % m
<1> DEFINE p == a \div m
           q == b \div m
<1>1. /\ p \in Nat /\ a = m * p + (a % m)
      /\ q \in Nat /\ b = m * q + (b % m)
  BY Division
<1>2. a % m \in Int /\ b % m \in Int /\ m * p \in Int /\ m * q \in Int
  BY Division, <1>1
<1> HIDE DEF p, q
<1>3. SUFFICES ASSUME a % m = b % m PROVE FALSE
  OBVIOUS
<1>4. b - a = m * q - m * p
  BY <1>1, <1>2, <1>3
<1>5. m * q - m * p = m * (q - p)
  BY <1>1
<1>6. \A d \in Int : m * d # b - a
  BY a < b, b < a + m
<1>7. q - p \in Int
  BY <1>1
<1> QED
  BY <1>4, <1>5, <1>6, <1>7

(* Adding a multiple leaves the remainder alone.                            *)
LEMMA RemainderPeriodic ==
  ASSUME NEW m \in Nat \ {0}, NEW a \in Nat, NEW k \in Nat
  PROVE  (a + m * k) % m = a % m
<1> DEFINE p == a \div m
           r == a % m
<1>1. p \in Nat /\ r \in 0..(m - 1) /\ a = m * p + r
  BY Division
<1> HIDE DEF p, r
<1>2. a + m * k = m * (p + k) + r
  <2>1. m * (p + k) = m * p + m * k /\ m * p \in Int /\ m * k \in Int
    BY <1>1
  <2> QED
    BY <1>1, <2>1
<1>3. (m * (p + k) + r) % m = r
  BY <1>1, Remainder
<1> QED
  BY <1>2, <1>3 DEF r

-----------------------------------------------------------------------------
(* The ring's own operators.                                                *)

LEMMA Geometry ==
  /\ Cap \in Nat \ {0} /\ Cap > 1 /\ Modulus \in Nat \ {0} /\ Modulus > Cap
  /\ Modulus = Cap * (Modulus \div Cap) /\ Modulus \div Cap \in Nat
<1>1. Cap \in Nat \ {0} /\ Cap > 1 /\ Modulus \in Nat \ {0} /\ Modulus > Cap /\ Modulus % Cap = 0
  BY GeometryAssumption
<1>2. Modulus \div Cap \in Nat /\ Modulus = Cap * (Modulus \div Cap) + (Modulus % Cap)
  BY <1>1, Division
<1>3. Cap * (Modulus \div Cap) \in Int
  BY <1>1, <1>2
<1> QED
  BY <1>1, <1>2, <1>3

(* A cell is a slot of the ring; an index and the one Modulus later are in  *)
(* the same slot, so that the wrap of an index moves nothing.               *)
LEMMA CellWraps ==
  ASSUME NEW i \in Nat
  PROVE  Cell(i) \in Cells /\ Cell(i + Modulus) = Cell(i)
<1>1. Cell(i) \in Cells
  BY Geometry, Division DEF Cell, Cells
<1>2. Cell(i + Modulus) = Cell(i)
  BY Geometry, RemainderPeriodic DEF Cell
<1> QED
  BY <1>1, <1>2

(* Fewer than Cap consecutive positions are in different slots.             *)
LEMMA CellsDiffer ==
  ASSUME NEW i \in Nat, NEW j \in Nat, i < j, j < i + Cap
  PROVE  Cell(i) # Cell(j)
  BY Geometry, RemaindersDiffer DEF Cell

(* The successor of an index, without the remainder.                        *)
LEMMA SuccIs ==
  ASSUME NEW i \in Index
  PROVE  /\ Succ(i) \in Index
         /\ Succ(i) = i + 1 \/ Succ(i) + Modulus = i + 1
  BY Geometry DEF Index, Succ

LEMMA CellOfSucc ==
  ASSUME NEW i \in Index, NEW k \in Nat
  PROVE  Cell(Succ(i) + k) = Cell(i + k + 1)
<1>1. Succ(i) \in Nat /\ i \in Nat
  BY SuccIs, Geometry DEF Index
<1>2. CASE Succ(i) = i + 1
  BY <1>1, <1>2, i + k + 1 = Succ(i) + k
<1>3. CASE Succ(i) + Modulus = i + 1
  <2>1. Succ(i) + k + Modulus = i + k + 1
    BY <1>1, <1>3, Geometry
  <2> QED
    BY <1>1, <2>1, CellWraps
<1> QED
  BY <1>2, <1>3, SuccIs

(* The distance from t to h, without the remainder.                         *)
Distance(h, t) == (h + Modulus - t) % Modulus

LEMMA DistanceIs ==
  ASSUME NEW h \in Index, NEW t \in Index
  PROVE  /\ Distance(h, t) \in 0..(Modulus - 1)
         /\ t + Distance(h, t) = h \/ t + Distance(h, t) = h + Modulus
         /\ Distance(h, t) = 0 <=> h = t
  BY Geometry DEF Index, Distance

(* The position after the last of the queue is the slot head names.         *)
LEMMA CellOfHead ==
  ASSUME NEW h \in Index, NEW t \in Index
  PROVE  Cell(t + Distance(h, t)) = Cell(h)
<1>1. h \in Nat
  BY Geometry DEF Index
<1> QED
  BY <1>1, DistanceIs, CellWraps

(* Moving head away from tail, while there is room, and tail towards head.  *)
LEMMA DistanceGrows ==
  ASSUME NEW h \in Index, NEW t \in Index, Distance(h, t) < Cap
  PROVE  Distance(Succ(h), t) = Distance(h, t) + 1
<1>1. Succ(h) \in Index /\ (Succ(h) = h + 1 \/ Succ(h) + Modulus = h + 1)
  BY SuccIs
<1>2. /\ Distance(h, t) \in 0..(Modulus - 1)
      /\ t + Distance(h, t) = h \/ t + Distance(h, t) = h + Modulus
      /\ Distance(h, t) = 0 <=> h = t
  BY DistanceIs
<1>3. /\ Distance(Succ(h), t) \in 0..(Modulus - 1)
      /\ t + Distance(Succ(h), t) = Succ(h) \/ t + Distance(Succ(h), t) = Succ(h) + Modulus
  BY <1>1, DistanceIs
<1> QED
  BY <1>1, <1>2, <1>3, Geometry DEF Index

LEMMA DistanceShrinks ==
  ASSUME NEW h \in Index, NEW t \in Index, h # t
  PROVE  Distance(h, Succ(t)) = Distance(h, t) - 1
<1>1. Succ(t) \in Index /\ (Succ(t) = t + 1 \/ Succ(t) + Modulus = t + 1)
  BY SuccIs
<1>2. /\ Distance(h, t) \in 0..(Modulus - 1)
      /\ t + Distance(h, t) = h \/ t + Distance(h, t) = h + Modulus
      /\ Distance(h, t) = 0 <=> h = t
  BY DistanceIs
<1>3. /\ Distance(h, Succ(t)) \in 0..(Modulus - 1)
      /\ Succ(t) + Distance(h, Succ(t)) = h \/ Succ(t) + Distance(h, Succ(t)) = h + Modulus
  BY <1>1, DistanceIs
<1> QED
  BY <1>1, <1>2, <1>3, Geometry DEF Index

-----------------------------------------------------------------------------
(* The inductive invariant.                                                 *)

(* What lies between tail and head is a frame, never a slot being written.  *)
Published == \A i \in 0..(Count - 1) : slots[Cell(tail + i)] \in Frames

(* The slot emit writes lies outside, and once written holds its frame.     *)
Claimed ==
  /\ producer # "idle" => ~Full
  /\ producer = "written" => slots[Cell(head)] = frame

(* A frame handed out is the oldest one, which tail has not passed.         *)
HandedOut ==
  /\ pending => /\ head # tail /\ consumer = "idle"
                /\ view = Cell(tail) /\ event = slots[Cell(tail)]
                /\ event \notin Undecodable
  /\ ~pending => event = None

IInv == TypeOK /\ Published /\ Claimed /\ HandedOut

LEMMA CountIs ==
  /\ Count = Distance(head, tail) 
  /\ Count' = Distance(head', tail')
  BY DEF Count, Distance

LEMMA InitIInv == Init => IInv
<1> SUFFICES ASSUME Init PROVE IInv
  OBVIOUS
<1>1. Count \in Nat /\ tail \in Nat
  BY CountIs, DistanceIs, Geometry DEF Init, Index
<1>2. 0 \in Cells
  BY Geometry DEF Cells
<1>3. TypeOK
  BY <1>2 DEF Init, TypeOK
<1>4. Published
  BY <1>1, CellWraps DEF Init, Published
<1> QED
  BY <1>3, <1>4 DEF Init, IInv, Claimed, HandedOut

(* Positions of the queue, and the slot beyond it when there is room.       *)
LEMMA QueueCells ==
  ASSUME TypeOK
  PROVE  /\ head \in Nat /\ tail \in Nat /\ Count \in 0..Cap /\ Cell(head) \in Cells
         /\ Cell(tail + Count) = Cell(head)
         /\ Count = 0 <=> head = tail
         /\ ~Full => \A i \in 0..(Count - 1) : Cell(tail + i) # Cell(head)
<1>1. head \in Index /\ tail \in Index /\ Count <= Cap
  BY DEF TypeOK
<1>2. head \in Nat /\ tail \in Nat
  BY <1>1, Geometry DEF Index
<1>3. Count \in 0..Cap /\ (Count = 0 <=> head = tail) /\ Cell(tail + Count) = Cell(head)
  BY <1>1, CountIs, DistanceIs, CellOfHead, Geometry
<1>4. ASSUME ~Full, NEW i \in 0..(Count - 1) PROVE Cell(tail + i) # Cell(head)
  <2>1. /\ tail + i \in Nat /\ tail + Count \in Nat
        /\ tail + i < tail + Count /\ tail + Count < tail + i + Cap
    BY <1>2, <1>3, <1>4, Geometry DEF Full
  <2> QED
    BY <2>1, <1>3, CellsDiffer
<1> QED
  BY <1>2, <1>3, <1>4, CellWraps

(* Letting go of the oldest frame: Poll's release of a slot.                *)
LEMMA Release ==
  ASSUME TypeOK, head # tail, tail' = Succ(tail), head' = head
  PROVE  /\ tail' \in Index /\ Count' = Count - 1 /\ Count' \in Nat
         /\ \A k \in Nat : Cell(tail' + k) = Cell(tail + k + 1)
<1>1. head \in Index /\ tail \in Index
  BY DEF TypeOK
<1>2. Count' = Count - 1
  BY <1>1, CountIs, DistanceShrinks
<1> QED
  BY <1>1, <1>2, SuccIs, CellOfSucc, QueueCells, Geometry

-----------------------------------------------------------------------------
(* Every step keeps it.                                                     *)

(* Filling the slot beyond the queue disturbs neither the queue nor the     *)
(* frame handed out: the heart of PayloadStable.                            *)
LEMMA FillKeeps ==
  ASSUME IInv, ~Full, NEW v \in Frames \cup {Torn},
         slots' = [slots EXCEPT ![Cell(head)] = v],
         UNCHANGED <<head, tail, consumerVars>>
  PROVE  /\ slots' \in [Cells -> Frames \cup {Torn}] /\ slots'[Cell(head)] = v
         /\ Count' = Count /\ Published' /\ HandedOut'
<1> USE DEF IInv
<1>1. slots' \in [Cells -> Frames \cup {Torn}] /\ slots'[Cell(head)] = v
  BY QueueCells DEF TypeOK
<1>2. Count' = Count
  BY DEF Count
<1>3. \A i \in 0..(Count - 1) :
        Cell(tail + i) \in Cells /\ slots'[Cell(tail + i)] = slots[Cell(tail + i)]
  BY QueueCells, CellWraps DEF TypeOK
<1>4. Published'
  BY <1>2, <1>3 DEF Published
<1>5. pending => slots'[Cell(tail)] = slots[Cell(tail)]
  <2> SUFFICES ASSUME pending PROVE slots'[Cell(tail)] = slots[Cell(tail)]
    OBVIOUS
  <2>1. 0 \in 0..(Count - 1) /\ tail + 0 = tail
    BY QueueCells DEF HandedOut
  <2> QED
    BY <2>1, <1>3
<1>6. HandedOut'
  BY <1>5 DEF HandedOut, consumerVars
<1> QED
  BY <1>1, <1>2, <1>4, <1>6

LEMMA ProduceBeginKeeps ==
  ASSUME IInv, NEW f \in Frames, ProduceBegin(f)
  PROVE  IInv'
<1> USE DEF IInv, ProduceBegin
<1>1. /\ slots' \in [Cells -> Frames \cup {Torn}]
      /\ Count' = Count /\ Published' /\ HandedOut'
  BY FillKeeps
<1>2. TypeOK'
  BY <1>1 DEF TypeOK, consumerVars
<1>3. Claimed'
  BY <1>1 DEF Claimed, Full
<1> QED
  BY <1>1, <1>2, <1>3

LEMMA EncodedKeeps ==
  ASSUME IInv, Encoded
  PROVE  IInv'
<1> USE DEF IInv, Encoded
<1>1. frame \in Frames /\ ~Full
  BY DEF TypeOK, Claimed
<1>2. /\ slots' \in [Cells -> Frames \cup {Torn}] /\ slots'[Cell(head)] = frame
      /\ Count' = Count /\ Published' /\ HandedOut'
  BY <1>1, FillKeeps
<1>3. TypeOK'
  BY <1>1, <1>2 DEF TypeOK, consumerVars
<1>4. Claimed'
  BY <1>1, <1>2 DEF Claimed, Full
<1> QED
  BY <1>2, <1>3, <1>4

(* Publishing: the slot written becomes the last of the queue.              *)
LEMMA ProduceCommitKeeps ==
  ASSUME IInv, ProduceCommit
  PROVE  IInv' /\ Count' = Count + 1 /\ slots'[Cell(tail + Count)] = frame
<1> USE DEF IInv, ProduceCommit
<1>1. head \in Index /\ tail \in Index /\ Count < Cap /\ Count \in Nat
  BY QueueCells, Geometry DEF TypeOK, Claimed, Full
<1>2. head' \in Index /\ Count' = Count + 1
  BY <1>1, CountIs, DistanceGrows, SuccIs
<1>3. slots'[Cell(tail + Count)] = frame /\ frame \in Frames
  BY QueueCells DEF Claimed, TypeOK
<1>4. TypeOK'
  BY <1>1, <1>2, Geometry DEF TypeOK, consumerVars
<1>5. Published'
  <2> SUFFICES ASSUME NEW i \in 0..(Count' - 1) PROVE slots'[Cell(tail' + i)] \in Frames
    BY DEF Published
  <2>1. i = Count \/ i \in 0..(Count - 1)
    BY <1>1, <1>2
  <2> QED
    BY <2>1, <1>3 DEF Published
<1>6. HandedOut'
  <2>1. pending => head' # tail'
    BY <1>1, <1>2, <1>4, QueueCells, CountIs, DistanceIs
  <2> QED
    BY <2>1 DEF HandedOut, consumerVars
<1>7. Claimed'
  BY DEF Claimed
<1> QED
  BY <1>2, <1>3, <1>4, <1>5, <1>6, <1>7

(* Letting go of the oldest frame leaves the others where they are.         *)
LEMMA ReleaseKeeps ==
  ASSUME IInv, head # tail, tail' = Succ(tail), UNCHANGED <<head, slots, producerVars>>
  PROVE  tail' \in Index /\ Count' <= Cap /\ Published' /\ Claimed'
<1> USE DEF IInv
<1>1. /\ tail' \in Index /\ Count' = Count - 1 /\ Count' \in Nat
      /\ \A k \in Nat : Cell(tail' + k) = Cell(tail + k + 1)
  BY Release
<1>2. Count \in 0..Cap /\ tail \in Nat
  BY QueueCells
<1>3. Published'
  <2> SUFFICES ASSUME NEW i \in 0..(Count' - 1) PROVE slots'[Cell(tail' + i)] \in Frames
    BY DEF Published
  <2>1. i \in Nat /\ i + 1 \in 0..(Count - 1) /\ tail + i + 1 = tail + (i + 1)
    BY <1>1, <1>2
  <2>2. Cell(tail' + i) = Cell(tail + (i + 1))
    BY <1>1, <2>1
  <2> QED
    BY <2>1, <2>2 DEF Published
<1>4. Claimed'
  BY <1>1, <1>2, Geometry DEF Claimed, Full, producerVars
<1> QED
  BY <1>1, <1>2, <1>3, <1>4, Geometry

LEMMA PollStartKeeps ==
  ASSUME IInv, PollStart
  PROVE  IInv'
<1> USE DEF IInv, PollStart
<1>1. tail' \in Index /\ Count' <= Cap /\ Published' /\ Claimed'
  <2>1. CASE pending
    BY <2>1, ReleaseKeeps DEF HandedOut
  <2>2. CASE ~pending
    BY <2>2 DEF TypeOK, Published, Claimed, Full, Count, producerVars
  <2> QED
    BY <2>1, <2>2
<1>2. TypeOK'
  BY <1>1 DEF TypeOK, producerVars
<1>3. HandedOut'
  BY DEF HandedOut
<1> QED
  BY <1>1, <1>2, <1>3

LEMMA PollTakeKeeps ==
  ASSUME IInv, PollTake
  PROVE  IInv' /\ event' \in Frames
<1> USE DEF IInv, PollTake
<1>1. 0 \in 0..(Count - 1) /\ tail + 0 = tail /\ tail \in Nat
  BY QueueCells
<1>2. event' \in Frames /\ view' \in Cells
  BY <1>1, CellWraps DEF Published
<1>3. Count' = Count /\ Full' = Full /\ Published' /\ Claimed'
  BY DEF Count, Full, Published, Claimed, producerVars
<1>4. TypeOK'
  BY <1>2, <1>3 DEF TypeOK, producerVars
<1>5. HandedOut'
  BY DEF HandedOut
<1> QED
  BY <1>2, <1>3, <1>4, <1>5

LEMMA PollUndecodableKeeps ==
  ASSUME IInv, PollUndecodable
  PROVE  IInv'
<1> USE DEF IInv, PollUndecodable
<1>1. tail' \in Index /\ Count' <= Cap /\ Published' /\ Claimed'
  BY ReleaseKeeps
<1>2. TypeOK'
  BY <1>1 DEF TypeOK, producerVars
<1>3. HandedOut'
  BY DEF HandedOut
<1> QED
  BY <1>1, <1>2, <1>3

(* A step that changes neither the indices, the slots nor the frame handed  *)
(* out.                                                                     *)
LEMMA AsideKeeps ==
  ASSUME IInv, UNCHANGED <<head, tail, slots, pending, event, view>>,
         producer' \in {producer, "idle"}, 
         frame' = frame \/ (frame' = None /\ producer' = "idle"),
         consumer' \in {consumer, "idle"}, epoch' \in BOOLEAN
  PROVE  IInv'
<1> USE DEF IInv
<1>1. Count' = Count /\ Full' = Full
  BY DEF Count, Full
<1>2. TypeOK'
  BY <1>1 DEF TypeOK
<1>3. Published' /\ Claimed' /\ HandedOut'
  BY <1>1 DEF Published, Claimed, HandedOut
<1> QED
  BY <1>2, <1>3

LEMMA StepKeeps == IInv /\ [Next]_vars => IInv'
<1> SUFFICES ASSUME IInv, [Next]_vars PROVE IInv'
  OBVIOUS
<1>1. ASSUME NEW f \in Frames, ProduceBegin(f) PROVE IInv'
  BY <1>1, ProduceBeginKeeps
<1>2. CASE Encoded
  BY <1>2, EncodedKeeps
<1>3. CASE EncodeFails
  BY <1>3, AsideKeeps DEF EncodeFails, consumerVars, IInv, TypeOK
<1>4. CASE ProduceCommit
  BY <1>4, ProduceCommitKeeps
<1>5. CASE PollStart
  BY <1>5, PollStartKeeps
<1>6. CASE PollEmpty
  BY <1>6, AsideKeeps DEF PollEmpty, producerVars, IInv, TypeOK
<1>7. CASE PollTake
  BY <1>7, PollTakeKeeps
<1>8. CASE PollUndecodable
  BY <1>8, PollUndecodableKeeps
<1>9. CASE BumpEpoch
  BY <1>9, AsideKeeps DEF BumpEpoch, producerVars, consumerVars
<1>10. CASE UNCHANGED vars
  BY <1>10, AsideKeeps DEF vars, IInv, TypeOK
<1> QED
  BY <1>1, <1>2, <1>3, <1>4, <1>5, <1>6, <1>7, <1>8, <1>9, <1>10
  DEF Next, Produce, Poll, Ended

LEMMA Invariance == Spec => []IInv
  BY InitIInv, StepKeeps, PTL DEF Spec

-----------------------------------------------------------------------------
(* The indices and the slots keep their types, and the indices are never    *)
(* further apart than the capacity: the bound AttachRing checks once.       *)
THEOREM TypeCorrect == Spec => []TypeOK
<1>1. IInv => TypeOK
  BY DEF IInv
<1> QED
  BY <1>1, Invariance, PTL

(* The slot a payload points into keeps its bytes until the next Poll,      *)
(* wherever the indices are and however emit interleaves.                   *)
THEOREM PayloadsStayIntact == Spec => []PayloadStable
<1>1. IInv => PayloadStable
  BY DEF IInv, HandedOut, PayloadStable
<1> QED
  BY <1>1, Invariance, PTL

-----------------------------------------------------------------------------
(* The ring implements the bounded queue.                                   *)

(* The queue as a sequence.                                                 *)
IsSequence ==
  /\ Contents \in Seq(Frames) /\ Len(Contents) = Count
  /\ Contents \in [1..Count -> Frames]
  /\ \A i \in 1..Count : Contents[i] = slots[Cell(tail + i - 1)]
  /\ Contents = <<>> <=> head = tail
  /\ head # tail => Head(Contents) = slots[Cell(tail)]

LEMMA ContentsIs == IInv => IsSequence
<1> SUFFICES ASSUME IInv PROVE IsSequence
  OBVIOUS
<1> USE DEF IInv
<1>1. tail \in Nat /\ Count \in Nat /\ (Count = 0 <=> head = tail)
  BY QueueCells, Geometry
<1>2. \A i \in 1..Count : slots[Cell(tail + i - 1)] \in Frames
  <2> SUFFICES ASSUME NEW i \in 1..Count PROVE slots[Cell(tail + i - 1)] \in Frames
    OBVIOUS
  <2>1. i - 1 \in 0..(Count - 1) /\ tail + i - 1 = tail + (i - 1)
    BY <1>1
  <2> QED
    BY <2>1 DEF Published
<1>3. /\ Contents \in [1..Count -> Frames]
      /\ \A i \in 1..Count : Contents[i] = slots[Cell(tail + i - 1)]
  BY <1>2 DEF Contents
<1>4. Contents \in Seq(Frames) /\ Len(Contents) = Count
  BY <1>1, <1>3
<1>5. Contents = <<>> <=> head = tail
  BY <1>1, <1>4, EmptySeq
<1>6. head # tail => Head(Contents) = slots[Cell(tail)]
  <2> SUFFICES ASSUME head # tail PROVE Head(Contents) = slots[Cell(tail)]
    OBVIOUS
  <2>1. 1 \in 1..Count /\ tail + 1 - 1 = tail
    BY <1>1
  <2>2. Head(Contents) = Contents[1]
    BY <1>4
  <2> QED
    BY <2>1, <2>2, <1>3
<1> QED
  BY <1>3, <1>4, <1>5, <1>6 DEF IsSequence

(* Steps that leave the positions of the queue and their slots alone.       *)
LEMMA ContentsKept ==
  ASSUME IInv, UNCHANGED <<head, tail>>,
         \A i \in 0..(Count - 1) : slots'[Cell(tail + i)] = slots[Cell(tail + i)]
  PROVE  Contents' = Contents
<1>1. tail \in Nat /\ Count \in Nat /\ Count' = Count
  BY QueueCells, Geometry DEF IInv, Count
<1>2. ASSUME NEW i \in 1..Count
      PROVE  slots'[Cell(tail' + i - 1)] = slots[Cell(tail + i - 1)]
  <2>1. i - 1 \in 0..(Count - 1) /\ tail + i - 1 = tail + (i - 1)
    BY <1>1
  <2> QED
    BY <2>1
<1> QED
  BY <1>1, <1>2 DEF Contents

(* Filling the slot beyond the queue is no step of the queue.               *)
LEMMA FillStutters ==
  ASSUME IInv, ~Full, NEW v, slots' = [slots EXCEPT ![Cell(head)] = v],
         UNCHANGED <<head, tail>>
  PROVE  Contents' = Contents
<1>1. \A i \in 0..(Count - 1) : slots'[Cell(tail + i)] = slots[Cell(tail + i)]
  BY QueueCells, CellWraps DEF IInv, TypeOK
<1> QED
  BY <1>1, ContentsKept

(* Publishing appends the frame.                                            *)
LEMMA CommitAppends ==
  ASSUME IInv, ProduceCommit
  PROVE  Count < Cap /\ frame \in Frames /\ Contents' = Append(Contents, frame)
<1>1. IInv' /\ Count' = Count + 1 /\ slots'[Cell(tail + Count)] = frame
  BY ProduceCommitKeeps
<1>2. Count < Cap /\ frame \in Frames /\ tail \in Nat /\ Count \in Nat
  BY QueueCells, Geometry DEF IInv, TypeOK, Claimed, Full, ProduceCommit
<1>3. IsSequence
  BY ContentsIs
<1>4. IsSequence'
  BY <1>1, ContentsIs, PTL
<1>5. ASSUME NEW i \in 1..(Count + 1) PROVE Contents'[i] = Append(Contents, frame)[i]
  <2>0. i \in 1..Count' /\ tail' = tail
    BY <1>1 DEF ProduceCommit
  <2>1. Contents'[i] = slots'[Cell(tail + i - 1)]
    BY <2>0, <1>4 DEF IsSequence
  <2>2. CASE i = Count + 1
    <3>1. tail + i - 1 = tail + Count
      BY <2>2, <1>2
    <3>2. Append(Contents, frame)[Count + 1] = frame
      BY <1>2, <1>3, AppendProperties DEF IsSequence
    <3> QED
      BY <2>1, <2>2, <3>1, <3>2, <1>1
  <2>3. CASE i \in 1..Count
    BY <2>1, <2>3, <1>2, <1>3, AppendProperties DEF IsSequence, ProduceCommit
  <2>4. i = Count + 1 \/ i \in 1..Count
    BY <1>2
  <2> QED
    BY <2>2, <2>3, <2>4
<1>6. /\ Contents' \in Seq(Frames) /\ Len(Contents') = Count + 1
      /\ Append(Contents, frame) \in Seq(Frames) /\ Len(Append(Contents, frame)) = Count + 1
  BY <1>1, <1>2, <1>3, <1>4, AppendProperties DEF IsSequence
<1> QED
  BY <1>2, <1>5, <1>6, SeqEqual

(* Letting go takes the oldest frame off.                                   *)
LEMMA ReleaseTails ==
  ASSUME IInv, IInv', head # tail, tail' = Succ(tail), UNCHANGED <<head, slots>>
  PROVE  Contents # <<>> /\ Contents' = Tail(Contents)
<1>1. /\ Count' = Count - 1 /\ Count' \in Nat
      /\ \A k \in Nat : Cell(tail' + k) = Cell(tail + k + 1)
  BY Release DEF IInv
<1>2. tail \in Nat /\ tail' \in Nat /\ Count \in Nat
  BY QueueCells, Geometry DEF IInv, TypeOK, Index
<1>3. IsSequence
  BY ContentsIs
<1>4. IsSequence'
  BY ContentsIs, PTL
<1>5. /\ Contents # <<>> /\ Tail(Contents) \in Seq(Frames) /\ Len(Tail(Contents)) = Count - 1
      /\ \A i \in 1..(Count - 1) : Tail(Contents)[i] = Contents[i + 1]
  BY <1>3, HeadTailProperties DEF IsSequence
<1>6. Contents' \in Seq(Frames) /\ Len(Contents') = Count - 1
  BY <1>1, <1>4 DEF IsSequence
<1>7. ASSUME NEW i \in 1..(Count - 1) PROVE Contents'[i] = Tail(Contents)[i]
  <2>1. Contents'[i] = slots[Cell(tail' + i - 1)]
    BY <1>1, <1>4 DEF IsSequence
  <2>2. /\ i - 1 \in Nat /\ i + 1 \in 1..Count
        /\ tail' + i - 1 = tail' + (i - 1) /\ tail + (i + 1) - 1 = tail + (i - 1) + 1
    BY <1>2
  <2>3. Contents[i + 1] = slots[Cell(tail + (i + 1) - 1)]
    BY <2>2, <1>3 DEF IsSequence
  <2> QED
    BY <2>1, <2>2, <2>3, <1>1, <1>5
<1> QED
  BY <1>5, <1>6, <1>7, SeqEqual

LEMMA InitRefines == Init => Queue!QInit
<1> SUFFICES ASSUME Init PROVE Queue!QInit
  OBVIOUS
<1>1. IInv
  BY InitIInv
<1>2. Contents \in [1..Count -> Frames] /\ Count \in 0..Cap
  BY <1>1, ContentsIs, QueueCells DEF IsSequence, IInv
<1> QED
  BY <1>2 DEF Init, Queue!QInit

(* Every step of the ring is a step of the queue or leaves it unchanged.    *)
LEMMA StepRefines == IInv /\ IInv' /\ [Next]_vars => [Queue!QNext]_(Queue!qvars)
<1> SUFFICES ASSUME IInv, IInv', [Next]_vars PROVE [Queue!QNext]_(Queue!qvars)
  OBVIOUS
<1> DEFINE Same == Contents' = Contents /\ UNCHANGED (IF pending THEN event ELSE None)
<1>0. Same => UNCHANGED Queue!qvars
  BY DEF Queue!qvars
<1>a. IsSequence
  BY ContentsIs
<1>1. ASSUME NEW f \in Frames, ProduceBegin(f) PROVE Same
  BY <1>1, FillStutters DEF ProduceBegin, consumerVars
<1>2. CASE Encoded
  BY <1>0, <1>2, FillStutters DEF Encoded, consumerVars, IInv, Claimed
<1>3. CASE EncodeFails
  BY <1>0, <1>3, ContentsKept DEF EncodeFails, consumerVars
<1>4. CASE ProduceCommit
  <2>1. Count < Cap /\ frame \in Frames /\ Contents' = Append(Contents, frame)
    BY <1>4, CommitAppends
  <2>2. Queue!Put(frame)
    BY <1>4, <1>a, <2>1 DEF Queue!Put, IsSequence, ProduceCommit, consumerVars
  <2> QED
    BY <2>1, <2>2 DEF Queue!QNext
<1>5. CASE PollStart
  <2>1. CASE pending
    <3>1. Contents' = Tail(Contents)
      BY <1>5, <2>1, ReleaseTails DEF PollStart, IInv, HandedOut
    <3>2. event # None
      BY <2>1, <1>a, FramesAssumption, HeadTailProperties DEF IInv, HandedOut, IsSequence
    <3>3. Queue!LetGo
      BY <1>5, <2>1, <3>1, <3>2 DEF Queue!LetGo, PollStart
    <3> QED
      BY <3>3 DEF Queue!QNext
  <2>2. CASE ~pending
    BY <1>5, <2>2, <1>0, ContentsKept DEF PollStart
  <2> QED
    BY <2>1, <2>2
<1>6. CASE PollEmpty
  BY <1>0, <1>6, ContentsKept DEF PollEmpty
<1>7. CASE PollTake
  <2>1. Contents' = Contents
    BY <1>7, ContentsKept DEF PollTake
  <2>2. Queue!Take
    BY <1>7, <2>1, <1>a DEF Queue!Take, PollTake, IsSequence, IInv, HandedOut
  <2> QED
    BY <2>2 DEF Queue!QNext
<1>8. CASE PollUndecodable
  <2>1. Contents' = Tail(Contents)
    BY <1>8, ReleaseTails DEF PollUndecodable
  <2>2. Queue!Discard
    BY <1>8, <2>1, <1>a DEF Queue!Discard, PollUndecodable, IsSequence, IInv, HandedOut
  <2> QED
    BY <2>2 DEF Queue!QNext
<1>9. CASE BumpEpoch
  BY <1>0, <1>9, ContentsKept DEF BumpEpoch, consumerVars
<1>10. CASE UNCHANGED vars
  BY <1>0, <1>10, ContentsKept DEF vars
<1> QED
  BY <1>0, <1>1, <1>2, <1>3, <1>4, <1>5, <1>6, <1>7, <1>8, <1>9, <1>10
  DEF Next, Produce, Poll, Ended

(* The ring is a bounded queue, for every capacity and index width: what    *)
(* emit commits Poll hands out once, in order and whole, and nothing else.  *)
THEOREM RingIsBoundedQueue == Spec => IsBoundedQueue
  BY InitRefines, StepRefines, Invariance, PTL DEF Spec, IsBoundedQueue, Queue!QSpec

=============================================================================
