---------------------------- MODULE CameraQueue -----------------------------
(***************************************************************************)
(* The queue that keeps the newest item of each camera, as the worker has  *)
(* it twice: between the camera threads and an inference consumer          *)
(* (shared/frame_buffer.py, per_camera mode) and between a consumer and    *)
(* the thread that sends its results (inference/dispatch.py).  An item is  *)
(* the sequence number of the frame it stems from.                         *)
(***************************************************************************)
EXTENDS Naturals, Sequences

CONSTANTS Cameras, None

ASSUME QueueAssumption == None \notin Nat \cup (Cameras \X Nat)

\* _camera_frames and _camera_order, _pending and _order: the item of each camera
\* and the cameras with an item, in the order they began to wait.
Queue == [item : [Cameras -> Nat \cup {None}], order : Seq(Cameras)]

Empty == [item |-> [c \in Cameras |-> None], order |-> << >>]

Waits(q, c) == q.item[c] # None
IsFull(q, size) == Len(q.order) >= size

\* Mutant of Replaced: the camera goes to the end of the line.
Requeued(q, c, x) ==
  [item |-> [q.item EXCEPT ![c] = x],
   order |-> Append(SelectSeq(q.order, LAMBDA d : d # c), c)]

\* A newer item of a waiting camera takes the place of the older one.
Replaced(q, c, x) == [q EXCEPT !.item[c] = x]

\* The camera that waits longest loses its item.
Evicted(q) == [item |-> [q.item EXCEPT ![Head(q.order)] = None], order |-> Tail(q.order)]

Joined(q, c, x) == [item |-> [q.item EXCEPT ![c] = x], order |-> Append(q.order, c)]

Put(q, c, x, size) ==
  IF Waits(q, c) THEN Replaced(q, c, x)
  ELSE IF IsFull(q, size) THEN Joined(Evicted(q), c, x)
  ELSE Joined(q, c, x)

\* Mutant of Served: the item is read and stays.
Peeked(q) == q

\* The camera that waits longest is served, which leaves the queue as eviction does.
Served(q) == Evicted(q)

\* Each camera in line has an item and stands there once; nobody else has one.
Consistent(q, size) ==
  /\ Len(q.order) <= size
  /\ \A i, j \in 1..Len(q.order) : q.order[i] = q.order[j] => i = j
  /\ \A c \in Cameras : Waits(q, c) <=> \E i \in 1..Len(q.order) : q.order[i] = c

\* c stands before d.
Before(q, c, d) ==
  \E i, j \in 1..Len(q.order) : i < j /\ q.order[i] = c /\ q.order[j] = d

=============================================================================
