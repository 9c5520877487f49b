----------------------------- MODULE FrameQueue -----------------------------
(***************************************************************************)
(* What a ring promises its two ends: a bounded queue.  The consumer is     *)
(* handed the oldest frame, which keeps its place in the queue until the    *)
(* consumer lets go of it; a frame that does not decode is dropped.         *)
(***************************************************************************)
EXTENDS Naturals, Sequences

CONSTANTS
  Frames,       \* the frames that may be sent
  Undecodable,  \* those the consumer cannot decode
  Cap,          \* the slots of the ring
  None          \* no frame

VARIABLES
  queue, \* the frames sent and not let go of, oldest first
  held   \* the frame the consumer holds

qvars == <<queue, held>>

QInit == queue \in UNION {[1..n -> Frames] : n \in 0..Cap} /\ held = None

Put(f) == Len(queue) < Cap /\ queue' = Append(queue, f) /\ UNCHANGED held

Take ==
  /\ held = None /\ queue # <<>> /\ Head(queue) \notin Undecodable
  /\ held' = Head(queue) /\ UNCHANGED queue

LetGo == held # None /\ held' = None /\ queue' = Tail(queue)

Discard ==
  /\ held = None /\ queue # <<>> /\ Head(queue) \in Undecodable
  /\ queue' = Tail(queue) /\ UNCHANGED held

QNext == (\E f \in Frames : Put(f)) \/ Take \/ LetGo \/ Discard

QSpec == QInit /\ [][QNext]_qvars
=============================================================================
