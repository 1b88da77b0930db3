--------------------------- MODULE PipelineProofs ---------------------------
(* The invariants of Pipeline for any number of cameras and lanes and any     *)
(* maxsize of the queues, after what the operations of CameraQueue keep.      *)
EXTENDS Pipeline, TLAPS

-----------------------------------------------------------------------------
(* The queue of the newest item of each camera.                            *)

\* A new queue is empty and consistent.
LEMMA EmptyQueue ==
  ASSUME NEW size \in Nat
  PROVE /\ Empty \in Queue /\ Consistent(Empty, size) /\ Len(Empty.order) = 0
        /\ \A c \in Cameras : Empty.item[c] = None
BY QueueAssumption DEF Empty, Queue, Consistent, Waits

\* A queue in which nobody stands in line is empty.
LEMMA NobodyWaits ==
  ASSUME NEW size, NEW q \in Queue, Consistent(q, size), q.order = << >>
  PROVE q = Empty
<1>1. Len(q.order) = 0
  OBVIOUS
<1>2. \A c \in Cameras : ~Waits(q, c)
  <2> SUFFICES ASSUME NEW c \in Cameras, Waits(q, c) PROVE FALSE
    OBVIOUS
  <2>1. PICK i \in 1..Len(q.order) : q.order[i] = c
    BY DEF Consistent
  <2> QED BY <1>1, <2>1
<1>3. q.item = [c \in Cameras |-> None]
  BY <1>2 DEF Waits, Queue
<1> QED BY <1>3 DEF Queue, Empty

\* The newest item replaces the older one of its camera, and nothing else changes.
LEMMA ReplacedQueue ==
  ASSUME NEW size \in Nat, NEW q \in Queue, Consistent(q, size),
         NEW c \in Cameras, Waits(q, c), NEW x \in Nat
  PROVE /\ Replaced(q, c, x) \in Queue /\ Consistent(Replaced(q, c, x), size)
        /\ Replaced(q, c, x).order = q.order
        /\ Replaced(q, c, x).item = [q.item EXCEPT ![c] = x]
BY QueueAssumption DEF Replaced, Queue, Consistent, Waits

\* Eviction makes room and takes the item of the first camera in line only.
LEMMA EvictedQueue ==
  ASSUME NEW size \in Nat, NEW q \in Queue, Consistent(q, size), q.order # << >>
  PROVE /\ Evicted(q) \in Queue /\ Consistent(Evicted(q), size)
        /\ Len(Evicted(q).order) = Len(q.order) - 1
        /\ Head(q.order) \in Cameras /\ Waits(q, Head(q.order))
        /\ Evicted(q).item = [q.item EXCEPT ![Head(q.order)] = None]
        /\ q.item[Head(q.order)] \in Nat
<1> DEFINE h == Head(q.order)
           t == Tail(q.order)
<1>1. /\ q.order \in Seq(Cameras) /\ q.item \in [Cameras -> Nat \cup {None}]
      /\ q = [item |-> q.item, order |-> q.order] /\ Len(q.order) \in Nat
  BY DEF Queue
<1>2. /\ h \in Cameras /\ h = q.order[1] /\ 1 \in 1..Len(q.order)
      /\ t \in Seq(Cameras) /\ Len(t) = Len(q.order) - 1
      /\ \A i \in 1..Len(t) : t[i] = q.order[i + 1] /\ i + 1 \in 1..Len(q.order)
  BY <1>1
<1>3. Waits(q, h) /\ q.item[h] \in Nat
  BY <1>1, <1>2 DEF Consistent, Waits
<1>4. Evicted(q).item = [q.item EXCEPT ![h] = None] /\ Evicted(q).order = t
  BY DEF Evicted
<1>5. Evicted(q) \in Queue
  BY <1>1, <1>2 DEF Evicted, Queue
<1>6. \A i, j \in 1..Len(t) : t[i] = t[j] => i = j
  <2> SUFFICES ASSUME NEW i \in 1..Len(t), NEW j \in 1..Len(t), t[i] = t[j] PROVE i = j
    OBVIOUS
  <2>1. i + 1 = j + 1
    BY <1>2 DEF Consistent
  <2> QED BY <2>1, <1>2
<1>7. \A c \in Cameras : Waits(Evicted(q), c) <=> \E i \in 1..Len(t) : t[i] = c
  <2> SUFFICES ASSUME NEW c \in Cameras
               PROVE Waits(Evicted(q), c) <=> \E i \in 1..Len(t) : t[i] = c
    OBVIOUS
  <2>1. CASE c = h
    <3>1. ~Waits(Evicted(q), c)
      BY <2>1, <1>1, <1>2, <1>4 DEF Waits
    <3>2. \A i \in 1..Len(t) : t[i] # c
      BY <2>1, <1>1, <1>2 DEF Consistent
    <3> QED BY <3>1, <3>2
  <2>2. CASE c # h
    <3>1. Waits(Evicted(q), c) <=> \E i \in 1..Len(q.order) : q.order[i] = c
      BY <2>2, <1>1, <1>2, <1>4 DEF Waits, Consistent
    <3>2. ASSUME NEW i \in 1..Len(q.order), q.order[i] = c
          PROVE \E k \in 1..Len(t) : t[k] = c
      <4>1. i - 1 \in 1..Len(t)
        BY <3>2, <2>2, <1>1, <1>2
      <4> QED BY <4>1, <3>2, <1>1, <1>2
    <3>3. ASSUME NEW i \in 1..Len(t), t[i] = c
          PROVE \E k \in 1..Len(q.order) : q.order[k] = c
      BY <3>3, <1>2
    <3> QED BY <3>1, <3>2, <3>3
  <2> QED BY <2>1, <2>2
<1>8. Consistent(Evicted(q), size)
  BY <1>1, <1>2, <1>4, <1>6, <1>7 DEF Consistent
<1> QED BY <1>2, <1>3, <1>4, <1>5, <1>8

\* A camera that does not wait joins at the end, where there is room.
LEMMA JoinedQueue ==
  ASSUME NEW size \in Nat, NEW q \in Queue, Consistent(q, size), Len(q.order) < size,
         NEW c \in Cameras, ~Waits(q, c), NEW x \in Nat
  PROVE /\ Joined(q, c, x) \in Queue /\ Consistent(Joined(q, c, x), size)
        /\ Len(Joined(q, c, x).order) = Len(q.order) + 1
        /\ Joined(q, c, x).item = [q.item EXCEPT ![c] = x]
<1> DEFINE o == Append(q.order, c)
<1>1. /\ q.order \in Seq(Cameras) /\ q.item \in [Cameras -> Nat \cup {None}]
      /\ Len(q.order) \in Nat
  BY DEF Queue
<1>2. /\ o \in Seq(Cameras) /\ Len(o) = Len(q.order) + 1 /\ o[Len(o)] = c
      /\ \A i \in 1..Len(q.order) : o[i] = q.order[i]
  BY <1>1
<1>3. Joined(q, c, x).item = [q.item EXCEPT ![c] = x] /\ Joined(q, c, x).order = o
  BY DEF Joined
<1>4. Joined(q, c, x) \in Queue
  BY <1>1, <1>2 DEF Joined, Queue
<1>5. \A i \in 1..Len(q.order) : q.order[i] # c
  BY DEF Consistent
<1> HIDE DEF o
<1>6. \A i, j \in 1..Len(o) : o[i] = o[j] => i = j
  <2> SUFFICES ASSUME NEW i \in 1..Len(o), NEW j \in 1..Len(o), o[i] = o[j] PROVE i = j
    OBVIOUS
  <2>1. CASE i \in 1..Len(q.order) /\ j \in 1..Len(q.order)
    BY <2>1, <1>2 DEF Consistent
  <2>2. CASE i = Len(o) \/ j = Len(o)
    BY <2>2, <1>1, <1>2, <1>5
  <2> QED BY <2>1, <2>2, <1>1, <1>2
<1>7. \A d \in Cameras : Waits(Joined(q, c, x), d) <=> \E i \in 1..Len(o) : o[i] = d
  <2> SUFFICES ASSUME NEW d \in Cameras
               PROVE Waits(Joined(q, c, x), d) <=> \E i \in 1..Len(o) : o[i] = d
    OBVIOUS
  <2>1. CASE d = c
    BY <2>1, <1>1, <1>2, <1>3, QueueAssumption DEF Waits
  <2>2. CASE d # c
    <3>1. Waits(Joined(q, c, x), d) <=> \E i \in 1..Len(q.order) : q.order[i] = d
      BY <2>2, <1>1, <1>3 DEF Waits, Consistent
    <3>2. ASSUME NEW i \in 1..Len(o), o[i] = d PROVE i \in 1..Len(q.order)
      BY <3>2, <2>2, <1>1, <1>2
    <3>3. \A i \in 1..Len(q.order) : i \in 1..Len(o)
      BY <1>1, <1>2
    <3> QED BY <3>1, <3>2, <3>3, <1>2
  <2> QED BY <2>1, <2>2
<1>8. Consistent(Joined(q, c, x), size)
  BY <1>1, <1>2, <1>3, <1>6, <1>7 DEF Consistent
<1> QED BY <1>2, <1>3, <1>4, <1>8

\* Put keeps the queue consistent, holds the new item and loses one item at most,
\* exactly when the camera waited already or the queue was full.
LEMMA PutQueue ==
  ASSUME NEW size \in Nat \ {0}, NEW q \in Queue, Consistent(q, size),
         NEW c \in Cameras, NEW x \in Nat
  PROVE /\ Put(q, c, x, size) \in Queue /\ Consistent(Put(q, c, x, size), size)
        /\ Put(q, c, x, size).item[c] = x
        /\ \A d \in Cameras \ {c} : Put(q, c, x, size).item[d] \in {q.item[d], None}
        /\ Len(Put(q, c, x, size).order)
             = IF Waits(q, c) \/ IsFull(q, size) THEN Len(q.order) ELSE Len(q.order) + 1
<1>1. /\ q.order \in Seq(Cameras) /\ q.item \in [Cameras -> Nat \cup {None}]
      /\ Len(q.order) \in Nat /\ Len(q.order) <= size /\ size \in Nat
  BY DEF Queue, Consistent
<1>2. CASE Waits(q, c)
  <2>1. Put(q, c, x, size) = Replaced(q, c, x)
    BY <1>2 DEF Put
  <2>2. /\ Replaced(q, c, x) \in Queue /\ Consistent(Replaced(q, c, x), size)
        /\ Replaced(q, c, x).order = q.order
        /\ Replaced(q, c, x).item = [q.item EXCEPT ![c] = x]
    BY <1>1, <1>2, ReplacedQueue
  <2>3. /\ Replaced(q, c, x).item[c] = x
        /\ \A d \in Cameras \ {c} : Replaced(q, c, x).item[d] \in {q.item[d], None}
    BY <1>1, <2>2
  <2> QED BY <1>2, <2>1, <2>2, <2>3
<1>3. CASE ~Waits(q, c) /\ IsFull(q, size)
  <2> DEFINE e == Evicted(q)
  <2>1. Put(q, c, x, size) = Joined(e, c, x)
    BY <1>3 DEF Put
  <2>2. q.order # << >>
    BY <1>1, <1>3 DEF IsFull
  <2>3. /\ e \in Queue /\ Consistent(e, size) /\ Len(e.order) = Len(q.order) - 1
        /\ Head(q.order) \in Cameras
        /\ e.item = [q.item EXCEPT ![Head(q.order)] = None]
    BY <1>1, <2>2, EvictedQueue
  <2>4. ~Waits(e, c) /\ Len(e.order) < size
    BY <1>1, <1>3, <2>3 DEF Waits
  <2> HIDE DEF e
  <2>5. /\ Joined(e, c, x) \in Queue /\ Consistent(Joined(e, c, x), size)
        /\ Len(Joined(e, c, x).order) = Len(e.order) + 1
        /\ Joined(e, c, x).item = [e.item EXCEPT ![c] = x]
    BY <1>1, <2>3, <2>4, JoinedQueue
  <2>6. /\ Joined(e, c, x).item[c] = x
        /\ \A d \in Cameras \ {c} : Joined(e, c, x).item[d] \in {q.item[d], None}
    BY <1>1, <2>3, <2>5 DEF Queue
  <2> QED BY <1>1, <1>3, <2>1, <2>3, <2>5, <2>6
<1>4. CASE ~Waits(q, c) /\ ~IsFull(q, size)
  <2>1. Put(q, c, x, size) = Joined(q, c, x)
    BY <1>4 DEF Put
  <2>2. Len(q.order) < size
    BY <1>1, <1>4 DEF IsFull
  <2>3. /\ Joined(q, c, x) \in Queue /\ Consistent(Joined(q, c, x), size)
        /\ Len(Joined(q, c, x).order) = Len(q.order) + 1
        /\ Joined(q, c, x).item = [q.item EXCEPT ![c] = x]
    BY <1>1, <1>4, <2>2, JoinedQueue
  <2>4. /\ Joined(q, c, x).item[c] = x
        /\ \A d \in Cameras \ {c} : Joined(q, c, x).item[d] \in {q.item[d], None}
    BY <1>1, <2>3
  <2> QED BY <1>4, <2>1, <2>3, <2>4
<1> QED BY <1>2, <1>3, <1>4

\* Two cameras do not stand before each other at the same time.
LEMMA BeforeIsStrict ==
  ASSUME NEW size \in Nat, NEW q \in Queue, Consistent(q, size),
         NEW c \in Cameras, NEW d \in Cameras, Before(q, c, d)
  PROVE ~Before(q, d, c)
BY DEF Before, Consistent, Queue

\* Eviction changes no order.
LEMMA EvictedKeepsOrder ==
  ASSUME NEW size \in Nat, NEW q \in Queue, Consistent(q, size), q.order # << >>,
         NEW c \in Cameras, NEW d \in Cameras, Before(Evicted(q), c, d)
  PROVE Before(q, c, d)
<1>1. PICK i, j \in 1..Len(Tail(q.order)) :
        i < j /\ Tail(q.order)[i] = c /\ Tail(q.order)[j] = d
  BY DEF Before, Evicted
<1>2. /\ i + 1 \in 1..Len(q.order) /\ j + 1 \in 1..Len(q.order)
      /\ i + 1 < j + 1 /\ q.order[i + 1] = c /\ q.order[j + 1] = d
  BY <1>1 DEF Queue
<1> QED BY <1>2 DEF Before

\* Who joins stands behind all the others.
LEMMA JoinedKeepsOrder ==
  ASSUME NEW size \in Nat, NEW q \in Queue, Consistent(q, size),
         NEW e \in Cameras, ~Waits(q, e), NEW x \in Nat,
         NEW c \in Cameras, NEW d \in Cameras, Before(Joined(q, e, x), c, d), d # e
  PROVE Before(q, c, d)
<1> DEFINE o == Append(q.order, e)
<1>1. /\ o \in Seq(Cameras) /\ Len(o) = Len(q.order) + 1 /\ o[Len(o)] = e
      /\ \A i \in 1..Len(q.order) : o[i] = q.order[i]
      /\ Len(q.order) \in Nat
  BY DEF Queue
<1>2. PICK i, j \in 1..Len(o) : i < j /\ o[i] = c /\ o[j] = d
  BY DEF Before, Joined
<1>3. i \in 1..Len(q.order) /\ j \in 1..Len(q.order)
  BY <1>1, <1>2
<1> QED BY <1>1, <1>2, <1>3 DEF Before

\* Whatever is put, two cameras that keep waiting keep their order.
LEMMA PutKeepsOrder ==
  ASSUME NEW size \in Nat \ {0}, NEW q \in Queue, Consistent(q, size),
         NEW e \in Cameras, NEW x \in Nat,
         NEW c \in Cameras, NEW d \in Cameras, Before(q, c, d)
  PROVE ~Before(Put(q, e, x, size), d, c)
<1> SUFFICES ASSUME Before(Put(q, e, x, size), d, c) PROVE FALSE
  OBVIOUS
<1>1. ~Before(q, d, c)
  BY BeforeIsStrict
<1>2. q.order \in Seq(Cameras) /\ size \in Nat
  BY DEF Queue
<1>3. CASE Waits(q, e)
  <2>1. Put(q, e, x, size).order = q.order
    BY <1>3 DEF Put, Replaced, Queue
  <2> QED BY <1>1, <2>1 DEF Before
<1>4. CASE ~Waits(q, e) /\ ~IsFull(q, size)
  <2>1. Put(q, e, x, size) = Joined(q, e, x)
    BY <1>4 DEF Put
  <2>2. Waits(q, c)
    BY DEF Before, Consistent, Queue
  <2> QED BY <1>1, <1>2, <1>4, <2>1, <2>2, JoinedKeepsOrder
<1>5. CASE ~Waits(q, e) /\ IsFull(q, size)
  <2> DEFINE v == Evicted(q)
  <2>1. Put(q, e, x, size) = Joined(v, e, x)
    BY <1>5 DEF Put
  <2>2. q.order # << >>
    BY <1>2, <1>5 DEF IsFull
  <2>3. /\ v \in Queue /\ Consistent(v, size)
        /\ Head(q.order) \in Cameras
        /\ v.item = [q.item EXCEPT ![Head(q.order)] = None]
    BY <1>2, <2>2, EvictedQueue
  <2>4. ~Waits(v, e) /\ Waits(q, c)
    BY <1>5, <2>3 DEF Waits, Before, Consistent, Queue
  <2> HIDE DEF v
  <2>5. Before(v, d, c)
    BY <1>2, <1>5, <2>1, <2>3, <2>4, JoinedKeepsOrder
  <2> QED BY <1>1, <1>2, <2>2, <2>5, EvictedKeepsOrder DEF v
<1> QED BY <1>3, <1>4, <1>5

-----------------------------------------------------------------------------
(* The inductive invariant.                                                *)

\* The inductive invariant, one part per group of variables: the types, the
\* consistency of the queues, and that a lane only handles frames of its own cameras.
MainInv == shutdown \in BOOLEAN /\ RunnerTypes
BufferInv ==
  /\ BufferTypes
  /\ \A l \in Lanes : Consistent(buffer[l], BufferSize)
  /\ \A l \in Lanes, c \in Cameras : Waits(buffer[l], c) => LaneOf[c] = l
ConsumerInv ==
  /\ ConsumerTypes
  /\ \A l \in Lanes : inHand[l] # None => LaneOf[inHand[l][1]] = l
QueueInv ==
  /\ QueueTypes
  /\ \A l \in Lanes : Consistent(queue[l], QueueSize)
  /\ \A l \in Lanes, c \in Cameras : Waits(queue[l], c) => LaneOf[c] = l
SenderInv ==
  /\ SenderTypes
  /\ \A l \in Lanes : outbox[l] # None => LaneOf[outbox[l][1]] = l
IInv == MainInv /\ CameraTypes /\ BufferInv /\ ConsumerInv /\ QueueInv /\ SenderInv

-----------------------------------------------------------------------------
\* Initially everything is empty.
LEMMA InitIInv == Init => IInv
<1> SUFFICES ASSUME Init PROVE IInv
  OBVIOUS
<1>1. /\ Empty \in Queue /\ \A size \in Nat : Consistent(Empty, size)
      /\ \A c \in Cameras : ~Waits(Empty, c)
  BY EmptyQueue DEF Waits
<1>2. MainInv /\ CameraTypes
  BY DEF Init, MainInv, RunnerTypes, CameraTypes
<1>3. BufferInv
  BY <1>1, PipelineAssumption DEF Init, BufferInv, BufferTypes
<1>4. ConsumerInv
  BY DEF Init, ConsumerInv, ConsumerTypes
<1>5. QueueInv
  BY <1>1, PipelineAssumption DEF Init, QueueInv, QueueTypes
<1>6. SenderInv
  BY DEF Init, SenderInv, SenderTypes
<1> QED BY <1>2, <1>3, <1>4, <1>5, <1>6 DEF IInv

\* A group of variables that a step leaves alone keeps its part.
LEMMA CamerasKept == ASSUME CameraTypes, UNCHANGED cameraVars PROVE CameraTypes'
BY DEF CameraTypes, cameraVars
LEMMA BuffersKept == ASSUME BufferInv, UNCHANGED bufferVars PROVE BufferInv'
BY DEF BufferInv, BufferTypes, bufferVars
LEMMA ConsumersKept == ASSUME ConsumerInv, UNCHANGED consumerVars PROVE ConsumerInv'
BY DEF ConsumerInv, ConsumerTypes, consumerVars
LEMMA QueuesKept == ASSUME QueueInv, UNCHANGED queueVars PROVE QueueInv'
BY DEF QueueInv, QueueTypes, queueVars
LEMMA SendersKept == ASSUME SenderInv, UNCHANGED senderVars PROVE SenderInv'
BY DEF SenderInv, SenderTypes, senderVars
LEMMA MainKept == ASSUME MainInv, UNCHANGED <<shutdown, runnerVars>> PROVE MainInv'
BY DEF MainInv, RunnerTypes, runnerVars

-----------------------------------------------------------------------------
(* One lemma per step that moves a frame.                                  *)

\* The counters stay counters.
LEMMA CountsAreCounters ==
  ASSUME NEW q, NEW c
  PROVE /\ \A s \in [accepted : Nat, dropped : Nat, consumed : Nat] :
             FrameCounts(s, q, c) \in [accepted : Nat, dropped : Nat, consumed : Nat]
        /\ \A s \in [accepted : Nat, coalesced : Nat, dropped : Nat,
                      dispatched : Nat, failed : Nat] :
             ResultCounts(s, q, c) \in [accepted : Nat, coalesced : Nat, dropped : Nat,
                                       dispatched : Nat, failed : Nat]
<1> DEFINE n1 == Count(Waits(q, c) \/ IsFull(q, BufferSize))
           m2 == Count(Waits(q, c))
           n2 == Count(~Waits(q, c) /\ IsFull(q, QueueSize))
<1>1. n1 \in Nat /\ m2 \in Nat /\ n2 \in Nat
  BY DEF Count
<1>2. /\ \A s : FrameCounts(s, q, c) =
             [accepted |-> s.accepted + 1, dropped |-> s.dropped + n1, consumed |-> s.consumed]
      /\ \A s : ResultCounts(s, q, c) =
             [accepted |-> s.accepted + 1, coalesced |-> s.coalesced + m2,
              dropped |-> s.dropped + n2, dispatched |-> s.dispatched, failed |-> s.failed]
  BY Zenon DEF FrameCounts, ResultCounts
<1> HIDE DEF n1, m2, n2
<1>3. ASSUME NEW s \in [accepted : Nat, dropped : Nat, consumed : Nat]
      PROVE FrameCounts(s, q, c) \in [accepted : Nat, dropped : Nat, consumed : Nat]
  <2>1. /\ s.accepted + 1 \in Nat /\ s.dropped + n1 \in Nat /\ s.consumed \in Nat
    BY <1>1
  <2> QED BY <1>2, <2>1
<1>4. ASSUME NEW s \in [accepted : Nat, coalesced : Nat, dropped : Nat,
                        dispatched : Nat, failed : Nat]
      PROVE ResultCounts(s, q, c) \in [accepted : Nat, coalesced : Nat, dropped : Nat,
                                      dispatched : Nat, failed : Nat]
  <2>1. /\ s.accepted + 1 \in Nat /\ s.coalesced + m2 \in Nat /\ s.dropped + n2 \in Nat
        /\ s.dispatched \in Nat /\ s.failed \in Nat
    BY <1>1
  <2> QED BY <1>2, <2>1
<1> QED BY <1>3, <1>4

\* FrameBuffer.put keeps the buffers consistent and within their lanes.
LEMMA PutFrameIInv == ASSUME IInv, NEW c \in Cameras, PutFrame(c) PROVE IInv'
<1> DEFINE l == LaneOf[c]
           n == captured[c] + 1
           b == Put(buffer[l], c, n, BufferSize)
           f == FrameCounts(frameStats[l], buffer[l], c)
<1>1. l \in Lanes /\ BufferSize \in Nat \ {0}
  BY PipelineAssumption
<1>2. n \in Nat
  BY DEF IInv, CameraTypes
<1>3. CameraTypes'
  BY DEF IInv, CameraTypes, PutFrame, Go
<1>4. CASE ~bufferOpen[l]
  BY <1>3, <1>4, BuffersKept, ConsumersKept, QueuesKept, SendersKept, MainKept
  DEF IInv, PutFrame, bufferVars
<1>5. CASE bufferOpen[l]
  <2>1. buffer[l] \in Queue /\ Consistent(buffer[l], BufferSize)
    BY <1>1 DEF IInv, BufferInv, BufferTypes
  <2>2. /\ b \in Queue /\ Consistent(b, BufferSize)
        /\ \A d \in Cameras \ {c} : b.item[d] \in {buffer[l].item[d], None}
    BY <1>1, <1>2, <2>1, PutQueue
  <2>3. f \in [accepted : Nat, dropped : Nat, consumed : Nat]
    BY <1>1, CountsAreCounters DEF IInv, BufferInv, BufferTypes
  <2>4. /\ buffer' = [buffer EXCEPT ![l] = b]
        /\ frameStats' = [frameStats EXCEPT ![l] = f]
        /\ bufferOpen' = bufferOpen
    BY <1>5 DEF PutFrame
  <2> HIDE DEF b, f
  <2>5. BufferTypes'
    BY <1>1, <2>2, <2>3, <2>4 DEF IInv, BufferInv, BufferTypes
  <2>6. \A k \in Lanes : Consistent(buffer'[k], BufferSize)
    BY <1>1, <2>2, <2>4 DEF IInv, BufferInv, BufferTypes
  <2>7. \A k \in Lanes, d \in Cameras : Waits(buffer'[k], d) => LaneOf[d] = k
    BY <1>1, <2>2, <2>4 DEF IInv, BufferInv, BufferTypes, Waits
  <2> QED
    BY <1>3, <2>5, <2>6, <2>7, ConsumersKept, QueuesKept, SendersKept, MainKept
    DEF IInv, BufferInv, PutFrame
<1> QED BY <1>4, <1>5

\* What leaves a queue is a frame of the lane, and the queue stays as it should be.
LEMMA ServedFrame ==
  ASSUME NEW size \in Nat, NEW q \in Queue, Consistent(q, size), q.order # << >>,
         NEW l \in Lanes, \A c \in Cameras : Waits(q, c) => LaneOf[c] = l
  PROVE /\ Served(q) \in Queue /\ Consistent(Served(q), size)
        /\ \A c \in Cameras : Waits(Served(q), c) => LaneOf[c] = l
        /\ <<Head(q.order), q.item[Head(q.order)]>> \in Cameras \X Nat
        /\ LaneOf[Head(q.order)] = l
<1>1. /\ Evicted(q) \in Queue /\ Consistent(Evicted(q), size)
      /\ Head(q.order) \in Cameras /\ Waits(q, Head(q.order))
      /\ Evicted(q).item = [q.item EXCEPT ![Head(q.order)] = None]
      /\ q.item[Head(q.order)] \in Nat
  BY EvictedQueue
<1>2. \A c \in Cameras : Waits(Evicted(q), c) => Waits(q, c)
  BY <1>1 DEF Waits, Queue
<1> QED BY <1>1, <1>2 DEF Served

\* get_latest hands a frame of the lane to the consumer.
LEMMA GetFrameIInv == ASSUME IInv, NEW l \in Lanes, GetFrame(l) PROVE IInv'
<1> DEFINE h == <<Head(buffer[l].order), buffer[l].item[Head(buffer[l].order)]>>
           b == Served(buffer[l])
<1>1. /\ buffer[l] \in Queue /\ Consistent(buffer[l], BufferSize) /\ BufferSize \in Nat
      /\ \A c \in Cameras : Waits(buffer[l], c) => LaneOf[c] = l
  BY PipelineAssumption DEF IInv, BufferInv, BufferTypes
<1>2. /\ b \in Queue /\ Consistent(b, BufferSize)
      /\ \A c \in Cameras : Waits(b, c) => LaneOf[c] = l
      /\ h \in Cameras \X Nat /\ LaneOf[h[1]] = l
  BY <1>1, ServedFrame DEF GetFrame
<1>3. /\ consumer[l] = "getting" /\ consumer' = [consumer EXCEPT ![l] = "inferring"]
      /\ inHand' = [inHand EXCEPT ![l] = h]
      /\ buffer' = [buffer EXCEPT ![l] = b]
      /\ frameStats' = [frameStats EXCEPT ![l].consumed = @ + 1]
      /\ bufferOpen' = bufferOpen /\ failures' = failures
  BY DEF GetFrame, Go
<1>4. h # None
  BY <1>3, <1>2, QueueAssumption
<1> HIDE DEF h, b
<1>5. ConsumerInv'
  BY <1>2, <1>3, <1>4 DEF IInv, ConsumerInv, ConsumerTypes
<1>6. BufferTypes'
  BY <1>2, <1>3 DEF IInv, BufferInv, BufferTypes
<1>7. BufferInv'
  BY <1>2, <1>3, <1>6 DEF IInv, BufferInv, BufferTypes
<1> QED BY <1>5, <1>7, CamerasKept, QueuesKept, SendersKept, MainKept DEF IInv, GetFrame

\* AsyncResultDispatcher.__call__ does for the queue what put does for the buffer.
LEMMA HandleResultIInv == ASSUME IInv, NEW l \in Lanes, HandleResult(l) PROVE IInv'
<1> DEFINE c == inHand[l][1]
           n == inHand[l][2]
           q == Put(queue[l], c, n, QueueSize)
           r == ResultCounts(resultStats[l], queue[l], c)
<1>1. /\ c \in Cameras /\ n \in Nat /\ LaneOf[c] = l /\ QueueSize \in Nat \ {0}
  BY PipelineAssumption DEF IInv, ConsumerInv, ConsumerTypes, HandleResult
<1>2. /\ consumer[l] = "handling" /\ consumer' = [consumer EXCEPT ![l] = "checking"]
      /\ inHand' = [inHand EXCEPT ![l] = None] /\ failures' = failures
  BY DEF HandleResult, Go
<1>3. ConsumerInv'
  BY <1>2 DEF IInv, ConsumerInv, ConsumerTypes
<1>4. QueueInv'
  <2>1. CASE ~queueOpen[l]
    <3>1. /\ refused' = refused \cup {l} /\ queueOpen' = queueOpen
          /\ queue' = queue /\ resultStats' = resultStats
      BY <2>1 DEF HandleResult
    <3> QED BY <3>1 DEF IInv, QueueInv, QueueTypes
  <2>2. CASE queueOpen[l]
    <3>1. queue[l] \in Queue /\ Consistent(queue[l], QueueSize)
      BY DEF IInv, QueueInv, QueueTypes
    <3>2. /\ q \in Queue /\ Consistent(q, QueueSize)
          /\ \A d \in Cameras \ {c} : q.item[d] \in {queue[l].item[d], None}
      BY <1>1, <3>1, PutQueue
    <3>3. r \in [accepted : Nat, coalesced : Nat, dropped : Nat, dispatched : Nat, failed : Nat]
      BY CountsAreCounters DEF IInv, QueueInv, QueueTypes
    <3>4. /\ queue' = [queue EXCEPT ![l] = q]
          /\ resultStats' = [resultStats EXCEPT ![l] = r]
          /\ queueOpen' = queueOpen /\ refused' = refused
      BY <2>2 DEF HandleResult
    <3> HIDE DEF c, q, r
    <3>5. QueueTypes'
      BY <3>2, <3>3, <3>4 DEF IInv, QueueInv, QueueTypes
    <3>6. \A k \in Lanes : Consistent(queue'[k], QueueSize)
      BY <3>2, <3>4 DEF IInv, QueueInv, QueueTypes
    <3>7. \A k \in Lanes, d \in Cameras : Waits(queue'[k], d) => LaneOf[d] = k
      BY <1>1, <3>2, <3>4 DEF IInv, QueueInv, QueueTypes, Waits
    <3> QED BY <3>5, <3>6, <3>7 DEF QueueInv
  <2> QED BY <2>1, <2>2
<1> QED
  BY <1>3, <1>4, CamerasKept, BuffersKept, SendersKept, MainKept DEF IInv, HandleResult

\* _take hands a result of the lane to the sender.
LEMMA TakeResultIInv == ASSUME IInv, NEW l \in Lanes, TakeResult(l) PROVE IInv'
<1> DEFINE c == Head(queue[l].order)
           h == <<c, queue[l].item[c]>>
           q == Served(queue[l])
<1>1. /\ queue[l] \in Queue /\ Consistent(queue[l], QueueSize) /\ QueueSize \in Nat
      /\ \A d \in Cameras : Waits(queue[l], d) => LaneOf[d] = l
  BY PipelineAssumption DEF IInv, QueueInv, QueueTypes
<1>2. /\ q \in Queue /\ Consistent(q, QueueSize)
      /\ \A d \in Cameras : Waits(q, d) => LaneOf[d] = l
      /\ h \in Cameras \X Nat /\ c \in Cameras /\ LaneOf[h[1]] = l
  BY <1>1, ServedFrame DEF TakeResult
<1>3. /\ sender[l] = "taking" /\ sender' = [sender EXCEPT ![l] = "sending"]
      /\ outbox' = [outbox EXCEPT ![l] = h]
      /\ queue' = [queue EXCEPT ![l] = q]
      /\ resting' = resting \cup {c} /\ delivered' = delivered
      /\ queueOpen' = queueOpen /\ resultStats' = resultStats /\ refused' = refused
  BY DEF TakeResult, Go
<1>4. h # None
  BY <1>2, QueueAssumption
<1> HIDE DEF c, h, q
<1>5. SenderInv'
  BY <1>2, <1>3, <1>4 DEF IInv, SenderInv, SenderTypes
<1>6. QueueInv'
  BY <1>2, <1>3 DEF IInv, QueueInv, QueueTypes
<1> QED BY <1>5, <1>6, CamerasKept, BuffersKept, ConsumersKept, MainKept DEF IInv, TakeResult

\* _dispatch: the result arrives or is lost, and the sender takes the next.
LEMMA SendResultIInv == ASSUME IInv, NEW l \in Lanes, SendResult(l) PROVE IInv'
<1>1. /\ outbox[l][1] \in Cameras /\ outbox[l][2] \in Nat
  BY DEF IInv, SenderInv, SenderTypes, SendResult
<1>2. /\ sender[l] = "sending" /\ sender' = [sender EXCEPT ![l] = "taking"]
      /\ outbox' = [outbox EXCEPT ![l] = None] /\ resting' = resting
      /\ \/ delivered' = delivered
         \/ delivered' = [delivered EXCEPT ![outbox[l][1]] = outbox[l][2]]
  BY DEF SendResult, Go
<1>3. SenderInv'
  BY <1>1, <1>2 DEF IInv, SenderInv, SenderTypes
<1> DEFINE Counters == [accepted : Nat, coalesced : Nat, dropped : Nat, dispatched : Nat,
                        failed : Nat]
<1>4. resultStats' \in [Lanes -> Counters]
  <2>1. resultStats \in [Lanes -> Counters] /\ resultStats[l] \in Counters
    BY DEF IInv, QueueInv, QueueTypes
  <2>2. /\ [resultStats[l] EXCEPT !.dispatched = @ + 1] \in Counters
        /\ [resultStats[l] EXCEPT !.failed = @ + 1] \in Counters
    BY <2>1
  <2>3. \/ resultStats' = [resultStats EXCEPT ![l] = [resultStats[l] EXCEPT !.dispatched = @ + 1]]
        \/ resultStats' = [resultStats EXCEPT ![l] = [resultStats[l] EXCEPT !.failed = @ + 1]]
    BY DEF SendResult
  <2> HIDE DEF Counters
  <2> QED BY <2>1, <2>2, <2>3
<1>5. QueueInv'
  BY <1>4 DEF IInv, QueueInv, QueueTypes, SendResult
<1> QED BY <1>3, <1>5, CamerasKept, BuffersKept, ConsumersKept, MainKept DEF IInv, SendResult

-----------------------------------------------------------------------------
(* The steps that move no frame, one lemma per thread.                     *)

\* A camera thread looks at the shutdown event, reads nothing or ends.
LEMMA IdleCameraIInv ==
  ASSUME IInv, NEW c \in Cameras, CheckShutdown(c) \/ ReadNothing(c) \/ CameraDies(c)
  PROVE IInv'
<1>1. CameraTypes'
  BY DEF IInv, CameraTypes, CheckShutdown, ReadNothing, CameraDies, Go
<1> QED
  BY <1>1, BuffersKept, ConsumersKept, QueuesKept, SendersKept, MainKept
  DEF IInv, CheckShutdown, ReadNothing, CameraDies

\* A consumer thread ends, gets no frame, infers or loses its frame.
LEMMA IdleConsumerIInv ==
  ASSUME IInv, NEW l \in Lanes,
         CheckEnd(l) \/ GetNothing(l) \/ Infer(l) \/ InferFails(l) \/ HandlerFails(l)
  PROVE IInv'
<1>1. CASE CheckEnd(l) \/ GetNothing(l)
  <2>1. ConsumerInv'
    BY <1>1 DEF IInv, ConsumerInv, ConsumerTypes, CheckEnd, GetNothing, Go
  <2> QED
    BY <1>1, <2>1, CamerasKept, BuffersKept, QueuesKept, SendersKept, MainKept
    DEF IInv, CheckEnd, GetNothing
<1>2. CASE Infer(l)
  <2>1. ConsumerInv'
    BY <1>2 DEF IInv, ConsumerInv, ConsumerTypes, Infer, Go
  <2> QED
    BY <1>2, <2>1, CamerasKept, BuffersKept, QueuesKept, SendersKept, MainKept DEF IInv, Infer
<1>3. CASE InferFails(l)
  <2>1. ConsumerInv'
    BY <1>3 DEF IInv, ConsumerInv, ConsumerTypes, InferFails, Go
  <2>2. MainInv'
    BY <1>3 DEF IInv, MainInv, RunnerTypes, InferFails, runnerVars
  <2> QED
    BY <1>3, <2>1, <2>2, CamerasKept, BuffersKept, QueuesKept, SendersKept DEF IInv, InferFails
<1>4. CASE HandlerFails(l)
  <2>1. ConsumerInv'
    BY <1>4 DEF IInv, ConsumerInv, ConsumerTypes, HandlerFails, Go
  <2> QED
    BY <1>4, <2>1, CamerasKept, BuffersKept, QueuesKept, SendersKept, MainKept
    DEF IInv, HandlerFails
<1> QED BY <1>1, <1>2, <1>3, <1>4

\* A sender ends, or an interval passes.
LEMMA IdleSenderIInv ==
  ASSUME IInv, (\E l \in Lanes : EndSender(l)) \/ (\E c \in Cameras : Rest(c))
  PROVE IInv'
<1>1. SenderInv'
  BY DEF IInv, SenderInv, SenderTypes, EndSender, Rest, Go
<1> QED
  BY <1>1, CamerasKept, BuffersKept, ConsumersKept, QueuesKept, MainKept
  DEF IInv, EndSender, Rest

\* Closing buffers empties them.
LEMMA ClosedBuffers ==
  ASSUME BufferInv, NEW K \in SUBSET Lanes,
         bufferOpen' = [l \in Lanes |-> IF l \in K THEN FALSE ELSE bufferOpen[l]],
         buffer' = [l \in Lanes |-> IF l \in K THEN Empty ELSE buffer[l]],
         UNCHANGED frameStats
  PROVE BufferInv'
<1>1. /\ Empty \in Queue /\ \A size \in Nat : Consistent(Empty, size)
      /\ \A c \in Cameras : ~Waits(Empty, c)
  BY EmptyQueue DEF Waits
<1> QED BY <1>1, PipelineAssumption DEF BufferInv, BufferTypes

\* The main thread.
LEMMA RunnerIInv == ASSUME IInv, RequestShutdown \/ Runner PROVE IInv'
<1>1. CASE RequestShutdown
  <2>1. BufferInv'
    BY <1>1, ClosedBuffers DEF IInv, RequestShutdown
  <2>2. MainInv'
    BY <1>1 DEF IInv, MainInv, RunnerTypes, RequestShutdown, runnerVars
  <2> QED
    BY <1>1, <2>1, <2>2, CamerasKept, ConsumersKept, QueuesKept, SendersKept
    DEF IInv, RequestShutdown
<1>2. CASE StartCameras
  <2>1. CameraTypes' /\ MainInv'
    BY <1>2 DEF IInv, CameraTypes, MainInv, RunnerTypes, StartCameras
  <2> QED
    BY <1>2, <2>1, BuffersKept, ConsumersKept, QueuesKept, SendersKept DEF IInv, StartCameras
<1>3. CASE StartFails \/ JoinCameras
  <2>1. MainInv'
    BY <1>3 DEF IInv, MainInv, RunnerTypes, StartFails, JoinCameras
  <2> QED
    BY <1>3, <2>1, CamerasKept, BuffersKept, ConsumersKept, QueuesKept, SendersKept
    DEF IInv, StartFails, JoinCameras
<1>4. ASSUME NEW l \in Lanes, CloseBuffer(l) PROVE IInv'
  <2>1. /\ bufferOpen' = [k \in Lanes |-> IF k \in {l} THEN FALSE ELSE bufferOpen[k]]
        /\ buffer' = [k \in Lanes |-> IF k \in {l} THEN Empty ELSE buffer[k]]
    BY <1>4 DEF IInv, BufferInv, BufferTypes, CloseBuffer
  <2>2. BufferInv'
    BY <1>4, <2>1, ClosedBuffers DEF IInv, CloseBuffer
  <2>3. MainInv'
    BY <1>4 DEF IInv, MainInv, RunnerTypes, CloseBuffer, Passes
  <2> QED
    BY <1>4, <2>2, <2>3, CamerasKept, ConsumersKept, QueuesKept, SendersKept DEF IInv, CloseBuffer
<1>5. ASSUME NEW l \in Lanes,
             JoinConsumer(l) \/ ConsumerIsLate(l) \/ JoinSender(l) \/ SenderIsLate(l)
      PROVE IInv'
  <2>1. MainInv'
    BY <1>5 DEF IInv, MainInv, RunnerTypes, JoinConsumer, ConsumerIsLate, JoinSender,
                SenderIsLate, Passes
  <2> QED
    BY <1>5, <2>1, CamerasKept, BuffersKept, ConsumersKept, QueuesKept, SendersKept
    DEF IInv, JoinConsumer, ConsumerIsLate, JoinSender, SenderIsLate
<1>6. ASSUME NEW l \in Lanes, CloseDispatcher(l) PROVE IInv'
  <2>1. QueueInv'
    BY <1>6 DEF IInv, QueueInv, QueueTypes, CloseDispatcher
  <2> QED
    BY <1>6, <2>1, CamerasKept, BuffersKept, ConsumersKept, SendersKept, MainKept
    DEF IInv, CloseDispatcher
<1> QED BY <1>1, <1>2, <1>3, <1>4, <1>5, <1>6 DEF Runner

-----------------------------------------------------------------------------
\* IInv is inductive.
LEMMA NextIInv == IInv /\ [Next]_vars => IInv'
<1> SUFFICES ASSUME IInv, [Next]_vars PROVE IInv'
  OBVIOUS
<1>1. ASSUME NEW c \in Cameras, Camera(c) PROVE IInv'
  BY <1>1, PutFrameIInv, IdleCameraIInv DEF Camera
<1>2. ASSUME NEW l \in Lanes, Consumer(l) PROVE IInv'
  BY <1>2, GetFrameIInv, HandleResultIInv, IdleConsumerIInv DEF Consumer
<1>3. ASSUME NEW l \in Lanes, Sender(l) PROVE IInv'
  BY <1>3, TakeResultIInv, SendResultIInv, IdleSenderIInv DEF Sender
<1>4. CASE UNCHANGED vars
  BY <1>4, CamerasKept, BuffersKept, ConsumersKept, QueuesKept, SendersKept, MainKept
  DEF IInv, vars
<1> QED BY <1>1, <1>2, <1>3, <1>4, IdleSenderIInv, RunnerIInv DEF Next

\* The inductive invariant holds of every execution.
LEMMA AlwaysIInv == Spec => []IInv
BY InitIInv, NextIInv, PTL DEF Spec

\* Type correctness of the worker's threads and queues.
THEOREM TypeCorrect == Spec => []TypeOK
<1>1. IInv => TypeOK
  BY DEF IInv, MainInv, BufferInv, ConsumerInv, QueueInv, SenderInv, TypeOK
<1> QED BY <1>1, AlwaysIInv, PTL

\* Both queues of every lane stay bounded and consistent, for any number of cameras.
THEOREM QueuesStayConsistent == Spec => []QueuesConsistent
<1>1. IInv => QueuesConsistent
  BY DEF IInv, BufferInv, QueueInv, QueuesConsistent
<1> QED BY <1>1, AlwaysIInv, PTL

-----------------------------------------------------------------------------
(* What a step does to a queue, and that this changes no order.            *)

\* A step leaves a queue, empties it, serves its first camera or puts an item.
QueueStep(q, r, size) ==
  \/ r = q \/ r = Empty
  \/ q.order # << >> /\ r = Served(q)
  \/ \E c \in Cameras, x \in Nat : r = Put(q, c, x, size)

LEMMA StepsOfQueues ==
  ASSUME IInv, [Next]_vars, NEW l \in Lanes
  PROVE QueueStep(buffer[l], buffer'[l], BufferSize) /\ QueueStep(queue[l], queue'[l], QueueSize)
<1>1. CASE UNCHANGED <<buffer, queue>>
  BY <1>1 DEF QueueStep
<1>2. ASSUME NEW c \in Cameras, PutFrame(c)
      PROVE QueueStep(buffer[l], buffer'[l], BufferSize) /\ queue' = queue
  <2>1. LaneOf[c] \in Lanes /\ captured[c] + 1 \in Nat
    BY PipelineAssumption DEF IInv, CameraTypes
  <2>2. /\ \/ buffer' = buffer
           \/ buffer' = [buffer EXCEPT ![LaneOf[c]] = Put(@, c, captured[c] + 1, BufferSize)]
        /\ queue' = queue
    BY <1>2 DEF PutFrame, queueVars
  <2> QED BY <2>1, <2>2 DEF IInv, BufferInv, BufferTypes, QueueStep
<1>3. ASSUME NEW k \in Lanes, GetFrame(k)
      PROVE QueueStep(buffer[l], buffer'[l], BufferSize) /\ queue' = queue
  BY <1>3 DEF GetFrame, IInv, BufferInv, BufferTypes, QueueStep, queueVars
<1>4. ASSUME NEW k \in Lanes, HandleResult(k)
      PROVE QueueStep(queue[l], queue'[l], QueueSize) /\ buffer' = buffer
  <2>1. inHand[k][1] \in Cameras /\ inHand[k][2] \in Nat
    BY <1>4 DEF IInv, ConsumerInv, ConsumerTypes, HandleResult
  <2>2. /\ \/ queue' = queue
           \/ queue' = [queue EXCEPT ![k] = Put(@, inHand[k][1], inHand[k][2], QueueSize)]
        /\ buffer' = buffer
    BY <1>4 DEF HandleResult, bufferVars
  <2> QED BY <2>1, <2>2 DEF IInv, QueueInv, QueueTypes, QueueStep
<1>5. ASSUME NEW k \in Lanes, TakeResult(k)
      PROVE QueueStep(queue[l], queue'[l], QueueSize) /\ buffer' = buffer
  BY <1>5 DEF TakeResult, IInv, QueueInv, QueueTypes, QueueStep, bufferVars
<1>6. ASSUME RequestShutdown \/ \E k \in Lanes : CloseBuffer(k)
      PROVE QueueStep(buffer[l], buffer'[l], BufferSize) /\ queue' = queue
  BY <1>6 DEF RequestShutdown, CloseBuffer, IInv, BufferInv, BufferTypes, QueueStep, queueVars
<1>7. ASSUME NEW c \in Cameras,
             CheckShutdown(c) \/ ReadNothing(c) \/ CameraDies(c) \/ Rest(c)
      PROVE UNCHANGED <<buffer, queue>>
  BY <1>7 DEF CheckShutdown, ReadNothing, CameraDies, Rest, bufferVars, queueVars
<1>8. ASSUME NEW k \in Lanes,
             \/ CheckEnd(k) \/ GetNothing(k) \/ Infer(k) \/ InferFails(k) \/ HandlerFails(k)
             \/ SendResult(k) \/ EndSender(k)
      PROVE UNCHANGED <<buffer, queue>>
  BY <1>8 DEF CheckEnd, GetNothing, Infer, InferFails, HandlerFails, SendResult, EndSender,
              bufferVars, queueVars
<1>9. ASSUME \/ StartCameras \/ StartFails \/ JoinCameras
             \/ \E k \in Lanes : \/ JoinConsumer(k) \/ ConsumerIsLate(k) \/ CloseDispatcher(k)
                                \/ JoinSender(k) \/ SenderIsLate(k)
      PROVE UNCHANGED <<buffer, queue>>
  BY <1>9 DEF StartCameras, StartFails, JoinCameras, JoinConsumer, ConsumerIsLate,
              CloseDispatcher, JoinSender, SenderIsLate, bufferVars, queueVars
<1>10. CASE UNCHANGED vars
  BY <1>10, <1>1 DEF vars, bufferVars, queueVars
<1> QED
  BY <1>1, <1>2, <1>3, <1>4, <1>5, <1>6, <1>7, <1>8, <1>9, <1>10
  DEF Next, Camera, Consumer, Sender, Runner, QueueStep

LEMMA StepKeepsOrder ==
  ASSUME NEW size \in Nat \ {0}, NEW q \in Queue, Consistent(q, size), NEW r,
         QueueStep(q, r, size), NEW c \in Cameras, NEW d \in Cameras, Before(q, c, d)
  PROVE ~Before(r, d, c)
<1>1. CASE r = q
  BY <1>1, BeforeIsStrict
<1>2. CASE r = Empty
  BY <1>2, EmptyQueue DEF Before
<1>3. CASE q.order # << >> /\ r = Served(q)
  BY <1>3, EvictedKeepsOrder, BeforeIsStrict DEF Served
<1>4. CASE \E e \in Cameras, x \in Nat : r = Put(q, e, x, size)
  BY <1>4, PutKeepsOrder
<1> QED BY <1>1, <1>2, <1>3, <1>4 DEF QueueStep

\* Two cameras that wait keep their order, in the buffer and in the dispatcher,
\* whatever the others do and however often newer frames replace theirs.
THEOREM LineIsFair == Spec => FirstComeFirstServed
<1> DEFINE Kept(q, r) == \A c, d \in Cameras : Before(q, c, d) => ~Before(r, d, c)
<1>1. ASSUME IInv, [Next]_vars, NEW l \in Lanes
      PROVE Kept(buffer[l], buffer'[l]) /\ Kept(queue[l], queue'[l])
  <2>1. /\ buffer[l] \in Queue /\ Consistent(buffer[l], BufferSize)
        /\ queue[l] \in Queue /\ Consistent(queue[l], QueueSize)
    BY <1>1 DEF IInv, BufferInv, BufferTypes, QueueInv, QueueTypes
  <2>2. QueueStep(buffer[l], buffer'[l], BufferSize) /\ QueueStep(queue[l], queue'[l], QueueSize)
    BY <1>1, StepsOfQueues
  <2> QED BY <2>1, <2>2, StepKeepsOrder, PipelineAssumption
<1> DEFINE Step == \A l \in Lanes : \A c, d \in Cameras :
                     /\ Before(buffer[l], c, d) => ~Before(buffer'[l], d, c)
                     /\ Before(queue[l], c, d) => ~Before(queue'[l], d, c)
<1>2. IInv /\ [Next]_vars => [Step]_vars
  BY <1>1
<1> QED BY <1>2, AlwaysIInv, PTL DEF Spec, FirstComeFirstServed

-----------------------------------------------------------------------------
(* The end of the process.                                                 *)

Stopped(l) == consumer[l] \in {"ended", "crashed"}

\* A dispatcher is closed when its consumer stopped or is late, a sender ends when
\* its queue is closed and empty, and the main thread has seen to the lanes that
\* are no longer left in its phase.
EndInv ==
  /\ refused \subseteq late
  /\ \A l \in Lanes : ~queueOpen[l] => Stopped(l) \/ l \in late
  /\ \A l \in Lanes : sender[l] = "ended" => ~queueOpen[l] /\ queue[l].order = << >>
  /\ runner = "joining consumers" => \A l \in Lanes \ left : Stopped(l) \/ l \in late
  /\ runner = "closing dispatchers" => \A l \in Lanes : Stopped(l) \/ l \in late
  /\ runner = "closing dispatchers" => \A l \in Lanes \ left : sender[l] = "ended" \/ l \in late
  /\ runner = "done" => \A l \in Lanes : sender[l] = "ended" \/ l \in late

\* A consumer that handles a result at a closed dispatcher is late.
LEMMA HandleResultEndInv ==
  ASSUME IInv, EndInv, NEW l \in Lanes, HandleResult(l) PROVE EndInv'
<1>1. consumer[l] = "handling" /\ consumer' = [consumer EXCEPT ![l] = "checking"]
  BY DEF HandleResult, Go
<1>2. \A k \in Lanes : Stopped(k) => Stopped(k)'
  BY <1>1 DEF Stopped, IInv, ConsumerInv, ConsumerTypes
<1>3. ~queueOpen[l] => l \in late
  BY <1>1 DEF EndInv, Stopped
<1>4. /\ UNCHANGED <<queueOpen, sender, runner, left, late>>
      /\ \A k \in Lanes : ~queueOpen[k] => queue'[k] = queue[k]
      /\ refused' = refused \/ (~queueOpen[l] /\ refused' = refused \cup {l})
  BY DEF HandleResult, IInv, QueueInv, QueueTypes, senderVars, runnerVars
<1> QED BY <1>2, <1>3, <1>4 DEF EndInv

LEMMA NextEndInv == ASSUME IInv, EndInv, [Next]_vars PROVE EndInv'
<1>1. CASE UNCHANGED <<consumer, queue, queueOpen, refused, sender, runner, left, late>>
  BY <1>1 DEF EndInv, Stopped
<1>2. ASSUME NEW c \in Cameras, Camera(c) \/ Rest(c)
      PROVE UNCHANGED <<consumer, queue, queueOpen, refused, sender, runner, left, late>>
  BY <1>2 DEF Camera, CheckShutdown, ReadNothing, CameraDies, PutFrame, Rest,
              consumerVars, queueVars, senderVars, runnerVars
<1>3. ASSUME NEW l \in Lanes,
             \/ CheckEnd(l) \/ GetFrame(l) \/ GetNothing(l) \/ Infer(l) \/ InferFails(l)
             \/ HandlerFails(l)
      PROVE EndInv'
  <2>1. ~Stopped(l) /\ UNCHANGED <<queue, queueOpen, refused, sender, runner, left, late>>
    BY <1>3 DEF CheckEnd, GetFrame, GetNothing, Infer, InferFails, HandlerFails, Stopped,
                queueVars, senderVars, runnerVars
  <2>2. \A k \in Lanes \ {l} : consumer'[k] = consumer[k]
    BY <1>3 DEF CheckEnd, GetFrame, GetNothing, Infer, InferFails, HandlerFails, Go,
                IInv, ConsumerInv, ConsumerTypes
  <2> QED BY <2>1, <2>2 DEF EndInv, Stopped
<1>4. ASSUME NEW l \in Lanes, Sender(l) PROVE EndInv'
  <2>1. /\ sender[l] # "ended"
        /\ UNCHANGED <<consumer, queueOpen, refused, runner, left, late>>
        /\ \A k \in Lanes \ {l} : sender'[k] = sender[k] /\ queue'[k] = queue[k]
        /\ sender'[l] = "ended" => ~queueOpen[l] /\ queue'[l].order = << >>
    BY <1>4 DEF Sender, TakeResult, SendResult, EndSender, Go, IInv, SenderInv, SenderTypes,
                QueueInv, QueueTypes, consumerVars, queueVars, runnerVars
  <2> QED BY <2>1 DEF EndInv, Stopped
<1>5. CASE RequestShutdown
  BY <1>5, <1>1 DEF RequestShutdown, consumerVars, queueVars, senderVars, runnerVars
<1>6. ASSUME NEW l \in Lanes, CloseDispatcher(l) PROVE EndInv'
  BY <1>6 DEF EndInv, Stopped, CloseDispatcher, IInv, QueueInv, QueueTypes, consumerVars,
              senderVars, runnerVars
<1>7. CASE StartCameras \/ StartFails \/ JoinCameras
  BY <1>7 DEF EndInv, Stopped, StartCameras, StartFails, JoinCameras, consumerVars, queueVars,
              senderVars
<1>8. ASSUME NEW l \in Lanes, CloseBuffer(l) PROVE EndInv'
  BY <1>8 DEF EndInv, Stopped, CloseBuffer, Passes, consumerVars, queueVars, senderVars
<1>9. ASSUME NEW l \in Lanes, JoinConsumer(l) \/ ConsumerIsLate(l) PROVE EndInv'
  <2>1. /\ UNCHANGED <<consumer, queue, queueOpen, refused, sender>>
        /\ runner = "joining consumers" /\ Passes(l, "closing dispatchers")
        /\ late \subseteq late' /\ (Stopped(l) \/ l \in late')
    BY <1>9 DEF JoinConsumer, ConsumerIsLate, consumerVars, queueVars, senderVars, Stopped
  <2> QED BY <2>1 DEF EndInv, Stopped, Passes
<1>10. ASSUME NEW l \in Lanes, JoinSender(l) \/ SenderIsLate(l) PROVE EndInv'
  <2>1. /\ UNCHANGED <<consumer, queue, queueOpen, refused, sender>>
        /\ runner = "closing dispatchers" /\ Passes(l, "done")
        /\ late \subseteq late' /\ (sender[l] = "ended" \/ l \in late')
    BY <1>10 DEF JoinSender, SenderIsLate, consumerVars, queueVars, senderVars
  <2> QED BY <2>1 DEF EndInv, Stopped, Passes
<1>11. CASE UNCHANGED vars
  BY <1>11, <1>1 DEF vars, consumerVars, queueVars, senderVars, runnerVars
<1>12. ASSUME NEW l \in Lanes, Consumer(l) PROVE EndInv'
  BY <1>12, <1>3, HandleResultEndInv DEF Consumer
<1>13. CASE Runner
  BY <1>13, <1>6, <1>7, <1>8, <1>9, <1>10 DEF Runner
<1> QED BY <1>1, <1>2, <1>4, <1>5, <1>11, <1>12, <1>13 DEF Next

\* Every result that was handed over before the end is sent or counted as failed,
\* unless a thread outlasted the timeout of its join.
THEOREM NothingIsLostAtTheEnd == Spec => []NoResultLostAtTheEnd
<1>1. Init => EndInv
  BY DEF Init, EndInv
<1>2. IInv /\ EndInv => NoResultLostAtTheEnd
  <2> SUFFICES ASSUME IInv, EndInv, runner = "done", NEW l \in Lanes \ late
               PROVE sender[l] = "ended" /\ queue[l] = Empty
    BY DEF EndInv, NoResultLostAtTheEnd
  <2>1. sender[l] = "ended" /\ queue[l].order = << >>
    BY DEF EndInv
  <2>2. queue[l] \in Queue /\ Consistent(queue[l], QueueSize)
    BY DEF IInv, QueueInv, QueueTypes
  <2> QED BY <2>1, <2>2, NobodyWaits
<1>3. IInv /\ EndInv /\ [Next]_vars => EndInv'
  BY NextEndInv
<1> QED BY <1>1, <1>2, <1>3, AlwaysIInv, PTL DEF Spec

-----------------------------------------------------------------------------
(* The order of the frames of a camera.                                    *)

\* What stands in a stage is older than what stands in a later one.
InOrder(s) == \A i, j \in 1..6 : i < j => \A old \in s[i], new \in s[j] : old < new

\* A stage keeps or loses what it has, or gets what the stage before it gives away.
Advanced(s, t) ==
  \A i \in 1..6 : t[i] \subseteq s[i] \/ (i # 6 /\ t[i] \subseteq s[i + 1] /\ t[i + 1] = {})

\* This disturbs no order.
LEMMA AdvanceKeepsOrder ==
  ASSUME NEW s, NEW t, InOrder(s), Advanced(s, t)
  PROVE InOrder(t)
<1> SUFFICES ASSUME NEW i \in 1..6, NEW j \in 1..6, i < j, NEW old \in t[i], NEW new \in t[j]
             PROVE old < new
  BY DEF InOrder
<1>1. old \in s[i] \/ (old \in s[i + 1] /\ i + 1 # j /\ i + 1 \in 1..6)
  BY DEF Advanced
<1>2. new \in s[j] \/ (new \in s[j + 1] /\ j + 1 \in 1..6)
  BY DEF Advanced
<1> QED BY <1>1, <1>2 DEF InOrder

\* The stages of a camera by number.
LEMMA StagesByNumber ==
  ASSUME NEW c
  PROVE LET l == LaneOf[c] IN
    /\ Stages(c)[1] = {delivered[c]} /\ Stages(c)[2] = Held(outbox[l], c)
    /\ Stages(c)[3] = Waiting(queue[l], c) /\ Stages(c)[4] = Held(inHand[l], c)
    /\ Stages(c)[5] = Waiting(buffer[l], c) /\ Stages(c)[6] = {captured[c] + 1}
BY DEF Stages

\* The same one step later.
LEMMA StagesByNumberNext ==
  ASSUME NEW c
  PROVE LET l == LaneOf[c] IN
    /\ Stages(c)'[1] = {delivered'[c]} /\ Stages(c)'[2] = Held(outbox'[l], c)
    /\ Stages(c)'[3] = Waiting(queue'[l], c) /\ Stages(c)'[4] = Held(inHand'[l], c)
    /\ Stages(c)'[5] = Waiting(buffer'[l], c) /\ Stages(c)'[6] = {captured'[c] + 1}
BY DEF Stages

\* What stands in them is a frame.
LEMMA StagesAreFrames ==
  ASSUME IInv, NEW c \in Cameras
  PROVE \A i \in 1..5 : Stages(c)[i] \subseteq Nat
<1> DEFINE l == LaneOf[c]
<1>1. l \in Lanes
  BY PipelineAssumption
<1>2. delivered[c] \in Nat
  BY DEF IInv, SenderInv, SenderTypes
<1>3. Held(outbox[l], c) \subseteq Nat /\ Held(inHand[l], c) \subseteq Nat
  BY <1>1 DEF Held, IInv, SenderInv, SenderTypes, ConsumerInv, ConsumerTypes
<1>4. Waiting(queue[l], c) \subseteq Nat /\ Waiting(buffer[l], c) \subseteq Nat
  BY <1>1 DEF Waiting, Waits, Queue, IInv, QueueInv, QueueTypes, BufferInv, BufferTypes
<1> QED BY <1>2, <1>3, <1>4, StagesByNumber

\* A new frame comes last.
LEMMA PutFrameInOrder ==
  ASSUME IInv, NEW e \in Cameras, PutFrame(e), NEW c \in Cameras, InOrder(Stages(c))
  PROVE InOrder(Stages(c)')
<1> DEFINE l == LaneOf[c]
           k == LaneOf[e]
           s == Stages(c)
           t == Stages(c)'
           b == Put(buffer[k], e, captured[e] + 1, BufferSize)
<1>1. /\ k \in Lanes /\ l \in Lanes /\ captured[e] \in Nat /\ captured[c] \in Nat
      /\ buffer[k] \in Queue /\ Consistent(buffer[k], BufferSize)
  BY PipelineAssumption DEF IInv, CameraTypes, BufferInv, BufferTypes
<1>2. b \in Queue /\ b.item[e] = captured[e] + 1
      /\ \A d \in Cameras \ {e} : b.item[d] \in {buffer[k].item[d], None}
  BY <1>1, PutQueue, PipelineAssumption
<1>3. /\ captured' = [captured EXCEPT ![e] = captured[e] + 1]
      /\ buffer' = buffer \/ buffer' = [buffer EXCEPT ![k] = b]
      /\ UNCHANGED <<delivered, outbox, queue, inHand>>
  BY DEF PutFrame, consumerVars, queueVars, senderVars
<1> HIDE DEF b
<1>4. /\ s[6] = {captured[c] + 1} /\ s[5] = Waiting(buffer[l], c)
      /\ t[6] = {captured'[c] + 1} /\ t[5] = Waiting(buffer'[l], c)
      /\ t[1] = s[1] /\ t[2] = s[2] /\ t[3] = s[3] /\ t[4] = s[4]
  <2>1. /\ s[1] = {delivered[c]} /\ s[2] = Held(outbox[l], c)
        /\ s[3] = Waiting(queue[l], c) /\ s[4] = Held(inHand[l], c)
        /\ s[5] = Waiting(buffer[l], c) /\ s[6] = {captured[c] + 1}
    BY StagesByNumber
  <2>2. /\ t[1] = {delivered'[c]} /\ t[2] = Held(outbox'[l], c)
        /\ t[3] = Waiting(queue'[l], c) /\ t[4] = Held(inHand'[l], c)
        /\ t[5] = Waiting(buffer'[l], c) /\ t[6] = {captured'[c] + 1}
    BY StagesByNumberNext
  <2> HIDE DEF s, t
  <2> QED BY <1>3, <2>1, <2>2
<1>5. \A i \in 1..5 : s[i] \subseteq Nat
  BY StagesAreFrames
<1> HIDE DEF s, t
<1>6. CASE c # e
  <2>1. captured'[c] = captured[c]
    BY <1>3, <1>6 DEF IInv, CameraTypes
  <2>2. Waiting(buffer'[l], c) \subseteq Waiting(buffer[l], c)
    BY <1>1, <1>2, <1>3, <1>6 DEF Waiting, Waits, IInv, BufferInv, BufferTypes
  <2>3. Advanced(s, t)
    BY <1>4, <2>1, <2>2 DEF Advanced
  <2> QED BY <2>3, AdvanceKeepsOrder DEF s, t
<1>7. CASE c = e
  <2>1. captured'[c] = captured[c] + 1
    BY <1>3, <1>7 DEF IInv, CameraTypes
  <2>2. t[5] \subseteq s[5] \/ t[5] \subseteq {captured[c] + 1}
    BY <1>1, <1>2, <1>3, <1>4, <1>7 DEF Waiting, IInv, BufferInv, BufferTypes
  <2>3. \A i \in 1..5 : \A old \in s[i] : old < captured[c] + 1
    BY <1>4 DEF InOrder, s
  <2>4. InOrder(s)
    BY DEF s
  <2>5. \A i \in 1..4, j \in 1..5 : i < j => \A old \in t[i], new \in t[j] : old < new
    BY <1>4, <2>2, <2>3, <2>4 DEF InOrder
  <2>6. \A i \in 1..5 : \A old \in t[i] : old \in s[i] \/ old = captured[c] + 1
    BY <1>4, <2>2
  <2>7. \A i \in 1..5 : \A old \in t[i] : old < captured[c] + 2
    BY <1>1, <1>5, <2>3, <2>6
  <2> QED BY <1>1, <1>4, <2>1, <2>5, <2>7 DEF InOrder, t
<1> QED BY <1>6, <1>7

\* The same, said of the variables: each stage of c keeps or loses its frame, or gets
\* the one of the stage before.
Advances(c) ==
  LET l == LaneOf[c] IN
  /\ captured'[c] = captured[c]
  /\ \/ delivered'[c] = delivered[c]
     \/ {delivered'[c]} \subseteq Held(outbox[l], c) /\ Held(outbox'[l], c) = {}
  /\ \/ Held(outbox'[l], c) \subseteq Held(outbox[l], c)
     \/ Held(outbox'[l], c) \subseteq Waiting(queue[l], c) /\ Waiting(queue'[l], c) = {}
  /\ \/ Waiting(queue'[l], c) \subseteq Waiting(queue[l], c)
     \/ Waiting(queue'[l], c) \subseteq Held(inHand[l], c) /\ Held(inHand'[l], c) = {}
  /\ \/ Held(inHand'[l], c) \subseteq Held(inHand[l], c)
     \/ Held(inHand'[l], c) \subseteq Waiting(buffer[l], c) /\ Waiting(buffer'[l], c) = {}
  /\ Waiting(buffer'[l], c) \subseteq Waiting(buffer[l], c)

LEMMA AdvancesInOrder ==
  ASSUME NEW c \in Cameras, InOrder(Stages(c)), Advances(c)
  PROVE InOrder(Stages(c)')
<1> DEFINE l == LaneOf[c]
           s == Stages(c)
           t == Stages(c)'
<1>1. /\ s[1] = {delivered[c]} /\ s[2] = Held(outbox[l], c)
      /\ s[3] = Waiting(queue[l], c) /\ s[4] = Held(inHand[l], c)
      /\ s[5] = Waiting(buffer[l], c) /\ s[6] = {captured[c] + 1}
  BY StagesByNumber
<1>2. /\ t[1] = {delivered'[c]} /\ t[2] = Held(outbox'[l], c)
      /\ t[3] = Waiting(queue'[l], c) /\ t[4] = Held(inHand'[l], c)
      /\ t[5] = Waiting(buffer'[l], c) /\ t[6] = {captured'[c] + 1}
  BY StagesByNumberNext
<1> HIDE DEF s, t
<1>3. /\ t[6] \subseteq s[6] /\ t[5] \subseteq s[5]
      /\ t[1] \subseteq s[1] \/ (t[1] \subseteq s[2] /\ t[2] = {})
      /\ t[2] \subseteq s[2] \/ (t[2] \subseteq s[3] /\ t[3] = {})
      /\ t[3] \subseteq s[3] \/ (t[3] \subseteq s[4] /\ t[4] = {})
      /\ t[4] \subseteq s[4] \/ (t[4] \subseteq s[5] /\ t[5] = {})
  BY <1>1, <1>2 DEF Advances
<1>4. Advanced(s, t)
  BY <1>3 DEF Advanced
<1> QED BY <1>4, AdvanceKeepsOrder DEF s, t

\* A served frame leaves the queue of its lane; the others wait on.
LEMMA ServedWaiting ==
  ASSUME NEW size \in Nat, NEW q \in Queue, Consistent(q, size), q.order # << >>,
         NEW c \in Cameras
  PROVE LET h == Head(q.order)
            served == <<h, q.item[h]>>
        IN /\ c # h => Held(served, c) = {} /\ Waiting(Served(q), c) = Waiting(q, c)
           /\ c = h => Held(served, c) = Waiting(q, c) /\ Waiting(Served(q), c) = {}
<1> DEFINE h == Head(q.order)
           served == <<h, q.item[h]>>
<1>1. /\ h \in Cameras /\ Waits(q, h) /\ q.item[h] \in Nat
      /\ Served(q).item = [q.item EXCEPT ![h] = None]
  BY EvictedQueue DEF Served
<1>2. served # None /\ served[1] = h /\ served[2] = q.item[h]
  BY <1>1, QueueAssumption
<1> HIDE DEF served
<1>3. Waiting(Served(q), c) = IF c = h THEN {} ELSE Waiting(q, c)
  BY <1>1 DEF Waiting, Waits, Queue
<1>4. Held(served, c) = IF c = h THEN {q.item[h]} ELSE {}
  BY <1>2 DEF Held
<1>5. Waiting(q, h) = {q.item[h]}
  BY <1>1 DEF Waiting
<1> QED BY <1>3, <1>4, <1>5 DEF served

LEMMA GetFrameAdvances ==
  ASSUME IInv, NEW k \in Lanes, GetFrame(k), NEW c \in Cameras PROVE Advances(c)
<1> DEFINE h == Head(buffer[k].order)
           served == <<h, buffer[k].item[h]>>
           b == Served(buffer[k])
<1>1. /\ buffer[k] \in Queue /\ Consistent(buffer[k], BufferSize) /\ BufferSize \in Nat
      /\ buffer[k].order # << >>
  BY PipelineAssumption DEF IInv, BufferInv, BufferTypes, GetFrame
<1>2. /\ c # h => Held(served, c) = {} /\ Waiting(b, c) = Waiting(buffer[k], c)
      /\ c = h => Held(served, c) = Waiting(buffer[k], c) /\ Waiting(b, c) = {}
  BY <1>1, ServedWaiting
<1>3. /\ inHand' = [inHand EXCEPT ![k] = served]
      /\ buffer' = [buffer EXCEPT ![k] = b]
      /\ UNCHANGED <<captured, delivered, outbox, queue>>
  BY DEF GetFrame, cameraVars, queueVars, senderVars
<1> HIDE DEF h, served, b
<1> QED
  BY <1>2, <1>3, PipelineAssumption
  DEF Advances, IInv, BufferInv, BufferTypes, ConsumerInv, ConsumerTypes

LEMMA HandleResultAdvances ==
  ASSUME IInv, NEW k \in Lanes, HandleResult(k), NEW c \in Cameras PROVE Advances(c)
<1> DEFINE e == inHand[k][1]
           n == inHand[k][2]
           q == Put(queue[k], e, n, QueueSize)
<1>1. inHand[k] # None /\ e \in Cameras /\ n \in Nat /\ LaneOf[e] = k
  BY DEF IInv, ConsumerInv, ConsumerTypes, HandleResult
<1>2. /\ q \in Queue /\ q.item[e] = n
      /\ \A d \in Cameras \ {e} : q.item[d] \in {queue[k].item[d], None}
  <2>1. queue[k] \in Queue /\ Consistent(queue[k], QueueSize) /\ QueueSize \in Nat \ {0}
    BY PipelineAssumption DEF IInv, QueueInv, QueueTypes
  <2>2. \A p \in Queue : Consistent(p, QueueSize) =>
          \A y \in Cameras, x \in Nat :
            LET r == Put(p, y, x, QueueSize) IN
              /\ r \in Queue /\ r.item[y] = x
              /\ \A d \in Cameras \ {y} : r.item[d] \in {p.item[d], None}
    BY <2>1, PutQueue
  <2> HIDE DEF e, n
  <2> QED BY <1>1, <2>1, <2>2
<1>3. /\ inHand' = [inHand EXCEPT ![k] = None]
      /\ queue' = queue \/ queue' = [queue EXCEPT ![k] = q]
      /\ UNCHANGED <<captured, delivered, outbox, buffer>>
  BY DEF HandleResult, cameraVars, bufferVars, senderVars
<1>4. Held(None, c) = {}
  BY DEF Held
<1>5. /\ c # e => Waiting(q, c) \subseteq Waiting(queue[k], c)
      /\ c = e => Waiting(q, c) \subseteq Held(inHand[k], c)
  <2> HIDE DEF q
  <2> QED BY <1>1, <1>2 DEF Waiting, Waits, Held
<1> HIDE DEF e, n, q
<1> QED
  BY <1>3, <1>4, <1>5, PipelineAssumption
  DEF Advances, IInv, QueueInv, QueueTypes, ConsumerInv, ConsumerTypes

LEMMA TakeResultAdvances ==
  ASSUME IInv, NEW k \in Lanes, TakeResult(k), NEW c \in Cameras PROVE Advances(c)
<1> DEFINE h == Head(queue[k].order)
           served == <<h, queue[k].item[h]>>
           q == Served(queue[k])
<1>1. /\ queue[k] \in Queue /\ Consistent(queue[k], QueueSize) /\ QueueSize \in Nat
      /\ queue[k].order # << >>
  BY PipelineAssumption DEF IInv, QueueInv, QueueTypes, TakeResult
<1>2. /\ c # h => Held(served, c) = {} /\ Waiting(q, c) = Waiting(queue[k], c)
      /\ c = h => Held(served, c) = Waiting(queue[k], c) /\ Waiting(q, c) = {}
  BY <1>1, ServedWaiting
<1>3. /\ outbox' = [outbox EXCEPT ![k] = served]
      /\ queue' = [queue EXCEPT ![k] = q]
      /\ UNCHANGED <<captured, delivered, inHand, buffer>>
  BY DEF TakeResult, cameraVars, bufferVars, consumerVars
<1> HIDE DEF h, served, q
<1> QED
  BY <1>2, <1>3, PipelineAssumption
  DEF Advances, IInv, QueueInv, QueueTypes, SenderInv, SenderTypes

LEMMA SendResultAdvances ==
  ASSUME IInv, NEW k \in Lanes, SendResult(k), NEW c \in Cameras PROVE Advances(c)
<1> DEFINE e == outbox[k][1]
           n == outbox[k][2]
<1>1. /\ outbox[k] # None /\ e \in Cameras /\ n \in Nat /\ LaneOf[e] = k
  BY DEF IInv, SenderInv, SenderTypes, SendResult
<1>2. /\ outbox' = [outbox EXCEPT ![k] = None]
      /\ delivered' = delivered \/ delivered' = [delivered EXCEPT ![e] = n]
      /\ UNCHANGED <<captured, queue, inHand, buffer>>
  BY DEF SendResult, cameraVars, bufferVars, consumerVars
<1>3. Held(None, c) = {} /\ (c = e => Held(outbox[k], c) = {n})
  BY <1>1 DEF Held
<1> HIDE DEF e, n
<1> QED
  BY <1>1, <1>2, <1>3, PipelineAssumption DEF Advances, IInv, SenderInv, SenderTypes

\* A frame that is dropped, or a step that touches none.
LEMMA OtherStepsAdvance ==
  ASSUME IInv, NEW c \in Cameras,
         \/ UNCHANGED vars \/ RequestShutdown \/ Runner
         \/ \E d \in Cameras : CheckShutdown(d) \/ ReadNothing(d) \/ CameraDies(d) \/ Rest(d)
         \/ \E k \in Lanes : \/ CheckEnd(k) \/ GetNothing(k) \/ Infer(k) \/ InferFails(k)
                            \/ HandlerFails(k) \/ EndSender(k)
  PROVE Advances(c)
<1>1. UNCHANGED <<captured, delivered, outbox, queue>>
  BY DEF vars, RequestShutdown, Runner, CheckShutdown, ReadNothing, CameraDies, Rest, CheckEnd,
         GetNothing, Infer, InferFails, HandlerFails, EndSender, StartCameras, StartFails,
         JoinCameras, CloseBuffer, JoinConsumer, ConsumerIsLate, CloseDispatcher, JoinSender,
         SenderIsLate, cameraVars, bufferVars, consumerVars, queueVars, senderVars
<1>2. \/ inHand' = inHand
      \/ \E k \in Lanes : inHand' = [inHand EXCEPT ![k] = None]
  BY DEF vars, RequestShutdown, Runner, CheckShutdown, ReadNothing, CameraDies, Rest, CheckEnd,
         GetNothing, Infer, InferFails, HandlerFails, EndSender, StartCameras, StartFails,
         JoinCameras, CloseBuffer, JoinConsumer, ConsumerIsLate, CloseDispatcher, JoinSender,
         SenderIsLate, consumerVars
<1>3. \/ buffer' = buffer
      \/ buffer' = [k \in Lanes |-> Empty]
      \/ \E k \in Lanes : buffer' = [buffer EXCEPT ![k] = Empty]
  BY DEF vars, RequestShutdown, Runner, CheckShutdown, ReadNothing, CameraDies, Rest, CheckEnd,
         GetNothing, Infer, InferFails, HandlerFails, EndSender, StartCameras, StartFails,
         JoinCameras, CloseBuffer, JoinConsumer, ConsumerIsLate, CloseDispatcher, JoinSender,
         SenderIsLate, bufferVars
<1>4. Held(None, c) = {} /\ Waiting(Empty, c) = {}
  BY EmptyQueue DEF Held, Waiting, Waits
<1>5. Held(inHand'[LaneOf[c]], c) \subseteq Held(inHand[LaneOf[c]], c)
  BY <1>2, <1>4, PipelineAssumption DEF IInv, ConsumerInv, ConsumerTypes
<1>6. Waiting(buffer'[LaneOf[c]], c) \subseteq Waiting(buffer[LaneOf[c]], c)
  BY <1>3, <1>4, PipelineAssumption DEF IInv, BufferInv, BufferTypes
<1> QED BY <1>1, <1>5, <1>6 DEF Advances

\* No frame overtakes an older one of its camera on the way to the server.
THEOREM FramesStayInOrder == Spec => []FramesInOrder
<1> DEFINE Ordered == \A c \in Cameras : InOrder(Stages(c))
<1>1. Init => Ordered
  <2> SUFFICES ASSUME Init, NEW c \in Cameras PROVE InOrder(Stages(c))
    OBVIOUS
  <2>1. LaneOf[c] \in Lanes
    BY PipelineAssumption
  <2>2. /\ Held(None, c) = {} /\ Waiting(Empty, c) = {}
    BY EmptyQueue DEF Held, Waiting, Waits
  <2>3. /\ Stages(c)[1] = {0} /\ Stages(c)[2] = {} /\ Stages(c)[3] = {}
        /\ Stages(c)[4] = {} /\ Stages(c)[5] = {} /\ Stages(c)[6] = {1}
    BY <2>1, <2>2, StagesByNumber DEF Init
  <2> QED BY <2>3 DEF InOrder
<1>2. ASSUME IInv, [Next]_vars, NEW c \in Cameras, InOrder(Stages(c))
      PROVE InOrder(Stages(c)')
  <2>1. Advances(c) \/ \E d \in Cameras : PutFrame(d)
    BY <1>2, GetFrameAdvances, HandleResultAdvances, TakeResultAdvances, SendResultAdvances,
       OtherStepsAdvance
    DEF Next, Camera, Consumer, Sender
  <2> QED BY <1>2, <2>1, AdvancesInOrder, PutFrameInOrder
<1>3. IInv /\ Ordered /\ [Next]_vars => Ordered'
  BY <1>2
<1>4. Ordered => FramesInOrder
  BY DEF InOrder, FramesInOrder
<1> QED BY <1>1, <1>3, <1>4, AlwaysIInv, PTL DEF Spec

-----------------------------------------------------------------------------
(* The counters.                                                           *)

FrameSum(accepted, dropped, consumed, len) == accepted = dropped + consumed + len
ResultSum(accepted, coalesced, dropped, dispatched, failed, len, sent) ==
  accepted = coalesced + dropped + dispatched + failed + len + sent

FramesAddUp(open, f, q) == open => FrameSum(f.accepted, f.dropped, f.consumed, Len(q.order))
ResultsAddUp(r, q, sending) ==
  ResultSum(r.accepted, r.coalesced, r.dropped, r.dispatched, r.failed, Len(q.order),
            Count(sending))

\* The lengths the counters are compared with.
LEMMA LengthsOfQueues ==
  ASSUME NEW size \in Nat \ {0}, NEW q \in Queue, Consistent(q, size)
  PROVE /\ Len(q.order) \in Nat
        /\ q.order # << >> => Len(Served(q).order) = Len(q.order) - 1
        /\ \A c \in Cameras, x \in Nat :
             Len(Put(q, c, x, size).order)
               = Len(q.order) + 1 - Count(Waits(q, c) \/ IsFull(q, size))
<1>1. Len(q.order) \in Nat
  BY DEF Queue
<1>2. q.order # << >> => Len(Served(q).order) = Len(q.order) - 1
  BY EvictedQueue DEF Served
<1>3. ASSUME NEW c \in Cameras, NEW x \in Nat
      PROVE Len(Put(q, c, x, size).order)
              = Len(q.order) + 1 - Count(Waits(q, c) \/ IsFull(q, size))
  <2>1. Len(Put(q, c, x, size).order)
          = IF Waits(q, c) \/ IsFull(q, size) THEN Len(q.order) ELSE Len(q.order) + 1
    BY PutQueue
  <2>2. CASE Waits(q, c) \/ IsFull(q, size)
    BY <1>1, <2>1, <2>2 DEF Count
  <2>3. CASE ~(Waits(q, c) \/ IsFull(q, size))
    BY <1>1, <2>1, <2>3 DEF Count
  <2> QED BY <2>2, <2>3
<1> QED BY <1>1, <1>2, <1>3

\* The arithmetic of it.
LEMMA FrameSums ==
  ASSUME NEW a \in Nat, NEW d \in Nat, NEW u \in Nat, NEW n \in Nat, NEW len \in Nat,
         FrameSum(a, d, u, len)
  PROVE FrameSum(a + 1, d + n, u, len + 1 - n) /\ FrameSum(a, d, u + 1, len - 1)
BY DEF FrameSum

LEMMA ResultSums ==
  ASSUME NEW a \in Nat, NEW co \in Nat, NEW d \in Nat, NEW s \in Nat, NEW f \in Nat,
         NEW m \in Nat, NEW n \in Nat, NEW len \in Nat, NEW w \in Nat,
         ResultSum(a, co, d, s, f, len, w)
  PROVE /\ ResultSum(a + 1, co + m, d + n, s, f, len + 1 - (m + n), w)
        /\ w = 0 => ResultSum(a, co, d, s, f, len - 1, 1)
        /\ w = 1 => ResultSum(a, co, d, s + 1, f, len, 0) /\ ResultSum(a, co, d, s, f + 1, len, 0)
BY DEF ResultSum

\* A step of a lane's frames and of its results, whoever takes it.
LEMMA FramesStayCounted ==
  ASSUME IInv, [Next]_vars, NEW l \in Lanes, FramesAddUp(bufferOpen[l], frameStats[l], buffer[l])
  PROVE FramesAddUp(bufferOpen'[l], frameStats'[l], buffer'[l])
<1>1. /\ buffer[l] \in Queue /\ Consistent(buffer[l], BufferSize)
      /\ BufferSize \in Nat \ {0}
      /\ frameStats[l].accepted \in Nat /\ frameStats[l].dropped \in Nat
      /\ frameStats[l].consumed \in Nat
  BY PipelineAssumption DEF IInv, BufferInv, BufferTypes
<1>2. CASE \/ UNCHANGED <<bufferOpen[l], frameStats[l], buffer[l]>>
           \/ bufferOpen'[l] = FALSE
  BY <1>2 DEF FramesAddUp
<1>3. ASSUME NEW c \in Cameras, PutFrame(c), LaneOf[c] = l, bufferOpen[l]
      PROVE FramesAddUp(bufferOpen'[l], frameStats'[l], buffer'[l])
  <2> DEFINE n == Count(Waits(buffer[l], c) \/ IsFull(buffer[l], BufferSize))
             b == Put(buffer[l], c, captured[c] + 1, BufferSize)
  <2>1. captured[c] + 1 \in Nat /\ n \in Nat
    BY <1>1 DEF IInv, CameraTypes, Count
  <2>2. Len(b.order) = Len(buffer[l].order) + 1 - n /\ Len(buffer[l].order) \in Nat
    BY <1>1, <2>1, LengthsOfQueues
  <2>3. /\ buffer'[l] = b
        /\ frameStats'[l] = [accepted |-> frameStats[l].accepted + 1,
                             dropped |-> frameStats[l].dropped + n,
                             consumed |-> frameStats[l].consumed]
    BY <1>3 DEF PutFrame, FrameCounts, IInv, BufferInv, BufferTypes
  <2> HIDE DEF n, b
  <2>4. FrameSum(frameStats[l].accepted, frameStats[l].dropped, frameStats[l].consumed,
                 Len(buffer[l].order))
    BY <1>3 DEF FramesAddUp
  <2>5. FrameSum(frameStats[l].accepted + 1, frameStats[l].dropped + n, frameStats[l].consumed,
                 Len(buffer[l].order) + 1 - n)
    BY <1>1, <2>1, <2>2, <2>4, FrameSums
  <2>6. FrameSum(frameStats[l].accepted + 1, frameStats[l].dropped + n, frameStats[l].consumed,
                 Len(b.order))
    BY <2>2, <2>5, Zenon
  <2> QED BY <2>3, <2>6 DEF FramesAddUp
<1>4. ASSUME NEW c \in Cameras, PutFrame(c), LaneOf[c] # l \/ ~bufferOpen[l]
      PROVE UNCHANGED <<bufferOpen[l], frameStats[l], buffer[l]>>
  BY <1>4, PipelineAssumption DEF PutFrame, IInv, BufferInv, BufferTypes
<1>5. CASE GetFrame(l)
  <2> DEFINE b == Served(buffer[l])
  <2>1. /\ buffer'[l] = b /\ bufferOpen[l]
        /\ frameStats'[l].accepted = frameStats[l].accepted
        /\ frameStats'[l].dropped = frameStats[l].dropped
        /\ frameStats'[l].consumed = frameStats[l].consumed + 1
    BY <1>1, <1>5 DEF GetFrame, IInv, BufferInv, BufferTypes
  <2>2. Len(b.order) = Len(buffer[l].order) - 1 /\ Len(buffer[l].order) \in Nat
    BY <1>1, <1>5, LengthsOfQueues DEF GetFrame
  <2> HIDE DEF b
  <2>3. FrameSum(frameStats[l].accepted, frameStats[l].dropped, frameStats[l].consumed,
                 Len(buffer[l].order))
    BY <2>1 DEF FramesAddUp
  <2>4. FrameSum(frameStats[l].accepted, frameStats[l].dropped, frameStats[l].consumed + 1,
                 Len(buffer[l].order) - 1)
    BY <1>1, <2>2, <2>3, FrameSums
  <2>5. FrameSum(frameStats[l].accepted, frameStats[l].dropped, frameStats[l].consumed + 1,
                 Len(b.order))
    BY <2>2, <2>4, Zenon
  <2> QED BY <2>1, <2>5 DEF FramesAddUp
<1>6. ASSUME NEW k \in Lanes, GetFrame(k), k # l
      PROVE UNCHANGED <<bufferOpen[l], frameStats[l], buffer[l]>>
  BY <1>6 DEF GetFrame, IInv, BufferInv, BufferTypes
<1>7. ASSUME RequestShutdown \/ \E k \in Lanes : CloseBuffer(k)
      PROVE \/ UNCHANGED <<bufferOpen[l], frameStats[l], buffer[l]>>
            \/ bufferOpen'[l] = FALSE
  BY <1>7 DEF RequestShutdown, CloseBuffer, IInv, BufferInv, BufferTypes
<1>8. ASSUME NEW c \in Cameras,
             CheckShutdown(c) \/ ReadNothing(c) \/ CameraDies(c) \/ Rest(c)
      PROVE UNCHANGED bufferVars
  BY <1>8 DEF CheckShutdown, ReadNothing, CameraDies, Rest
<1>9. ASSUME NEW k \in Lanes,
             \/ CheckEnd(k) \/ GetNothing(k) \/ Infer(k) \/ InferFails(k) \/ HandleResult(k)
             \/ HandlerFails(k) \/ Sender(k)
      PROVE UNCHANGED bufferVars
  BY <1>9 DEF CheckEnd, GetNothing, Infer, InferFails, HandleResult, HandlerFails, Sender,
              TakeResult, SendResult, EndSender
<1>10. ASSUME \/ StartCameras \/ StartFails \/ JoinCameras
              \/ \E k \in Lanes : \/ JoinConsumer(k) \/ ConsumerIsLate(k) \/ CloseDispatcher(k)
                                 \/ JoinSender(k) \/ SenderIsLate(k)
      PROVE UNCHANGED bufferVars
  BY <1>10 DEF StartCameras, StartFails, JoinCameras, JoinConsumer, ConsumerIsLate,
               CloseDispatcher, JoinSender, SenderIsLate
<1>11. CASE UNCHANGED bufferVars
  BY <1>11, <1>2 DEF bufferVars
<1>12. CASE UNCHANGED vars
  BY <1>12, <1>11 DEF vars
<1> QED
  BY <1>2, <1>3, <1>4, <1>5, <1>6, <1>7, <1>8, <1>9, <1>10, <1>11, <1>12
  DEF Next, Camera, Consumer, Runner

LEMMA ResultsStayCounted ==
  ASSUME IInv, [Next]_vars, NEW l \in Lanes,
         ResultsAddUp(resultStats[l], queue[l], sender[l] = "sending")
  PROVE ResultsAddUp(resultStats'[l], queue'[l], sender'[l] = "sending")
<1>1. /\ queue[l] \in Queue /\ Consistent(queue[l], QueueSize)
      /\ QueueSize \in Nat \ {0}
      /\ resultStats[l].accepted \in Nat /\ resultStats[l].coalesced \in Nat
      /\ resultStats[l].dropped \in Nat /\ resultStats[l].dispatched \in Nat
      /\ resultStats[l].failed \in Nat
  BY PipelineAssumption DEF IInv, QueueInv, QueueTypes
<1>2. Count(TRUE) = 1 /\ Count(FALSE) = 0
  BY DEF Count
<1>3. CASE UNCHANGED <<resultStats[l], queue[l], sender[l]>>
  BY <1>3 DEF ResultsAddUp
<1>4. CASE HandleResult(l) /\ queueOpen[l]
  <2> DEFINE c == inHand[l][1]
             x == inHand[l][2]
             m == Count(Waits(queue[l], c))
             n == Count(~Waits(queue[l], c) /\ IsFull(queue[l], QueueSize))
             q == Put(queue[l], c, x, QueueSize)
             w == Count(sender[l] = "sending")
  <2>1. c \in Cameras /\ x \in Nat
    BY <1>4 DEF IInv, ConsumerInv, ConsumerTypes, HandleResult
  <2>2. m \in Nat /\ n \in Nat /\ w \in Nat
        /\ Count(Waits(queue[l], c) \/ IsFull(queue[l], QueueSize)) = m + n
    BY DEF Count
  <2>3. Len(q.order) = Len(queue[l].order) + 1 - (m + n) /\ Len(queue[l].order) \in Nat
    <3>1. Len(q.order) = Len(queue[l].order) + 1
                           - Count(Waits(queue[l], c) \/ IsFull(queue[l], QueueSize))
      <4> HIDE DEF c, x
      <4> QED BY <1>1, <2>1, LengthsOfQueues
    <3> HIDE DEF m, n, q
    <3> QED BY <1>1, <2>2, <3>1, LengthsOfQueues
  <2>4. /\ queue'[l] = q /\ sender'[l] = sender[l]
        /\ resultStats'[l] = [accepted |-> resultStats[l].accepted + 1,
                              coalesced |-> resultStats[l].coalesced + m,
                              dropped |-> resultStats[l].dropped + n,
                              dispatched |-> resultStats[l].dispatched,
                              failed |-> resultStats[l].failed]
    BY <1>4 DEF HandleResult, ResultCounts, IInv, QueueInv, QueueTypes, senderVars
  <2>5. ResultSum(resultStats[l].accepted, resultStats[l].coalesced, resultStats[l].dropped,
                resultStats[l].dispatched, resultStats[l].failed, Len(queue[l].order), w)
    BY DEF ResultsAddUp
  <2> HIDE DEF m, n, q
  <2>6. ResultSum(resultStats[l].accepted + 1, resultStats[l].coalesced + m,
                  resultStats[l].dropped + n, resultStats[l].dispatched, resultStats[l].failed,
                  Len(queue[l].order) + 1 - (m + n), w)
    <3> HIDE DEF w
    <3> QED BY <1>1, <2>2, <2>3, <2>5, ResultSums
  <2>7. ResultSum(resultStats[l].accepted + 1, resultStats[l].coalesced + m,
                  resultStats[l].dropped + n, resultStats[l].dispatched, resultStats[l].failed,
                  Len(q.order), w)
    BY <2>3, <2>6, Zenon
  <2> QED BY <2>4, <2>7 DEF ResultsAddUp
<1>5. ASSUME NEW k \in Lanes, HandleResult(k), k # l \/ ~queueOpen[l]
      PROVE UNCHANGED <<resultStats[l], queue[l], sender[l]>>
  BY <1>5 DEF HandleResult, IInv, QueueInv, QueueTypes, senderVars
<1>6. CASE TakeResult(l)
  <2> DEFINE q == Served(queue[l])
  <2>1. /\ queue'[l] = q /\ resultStats'[l] = resultStats[l]
        /\ sender[l] # "sending" /\ sender'[l] = "sending"
    BY <1>6 DEF TakeResult, Go, IInv, QueueInv, QueueTypes, SenderInv, SenderTypes
  <2>2. Len(q.order) = Len(queue[l].order) - 1 /\ Len(queue[l].order) \in Nat
    BY <1>1, <1>6, LengthsOfQueues DEF TakeResult
  <2> HIDE DEF q
  <2>3. ResultSum(resultStats[l].accepted, resultStats[l].coalesced, resultStats[l].dropped,
                resultStats[l].dispatched, resultStats[l].failed, Len(queue[l].order), 0)
    BY <1>2, <2>1 DEF ResultsAddUp
  <2>4. ResultSum(resultStats[l].accepted, resultStats[l].coalesced, resultStats[l].dropped,
                  resultStats[l].dispatched, resultStats[l].failed, Len(queue[l].order) - 1, 1)
    BY <1>1, <2>2, <2>3, ResultSums
  <2>5. ResultSum(resultStats[l].accepted, resultStats[l].coalesced, resultStats[l].dropped,
                  resultStats[l].dispatched, resultStats[l].failed, Len(q.order), 1)
    BY <2>2, <2>4, Zenon
  <2> QED BY <1>2, <2>1, <2>5 DEF ResultsAddUp
<1>7. CASE SendResult(l)
  <2>1. /\ queue'[l] = queue[l] /\ sender[l] = "sending" /\ sender'[l] # "sending"
        /\ resultStats'[l].accepted = resultStats[l].accepted
        /\ resultStats'[l].coalesced = resultStats[l].coalesced
        /\ resultStats'[l].dropped = resultStats[l].dropped
        /\ \/ /\ resultStats'[l].dispatched = resultStats[l].dispatched + 1
              /\ resultStats'[l].failed = resultStats[l].failed
           \/ /\ resultStats'[l].dispatched = resultStats[l].dispatched
              /\ resultStats'[l].failed = resultStats[l].failed + 1
    BY <1>7 DEF SendResult, Go, IInv, QueueInv, QueueTypes, SenderInv, SenderTypes
  <2>2. Len(queue[l].order) \in Nat
    BY <1>1, LengthsOfQueues
  <2>3. ResultSum(resultStats[l].accepted, resultStats[l].coalesced, resultStats[l].dropped,
                  resultStats[l].dispatched, resultStats[l].failed, Len(queue[l].order), 1)
    BY <1>2, <2>1 DEF ResultsAddUp
  <2>4. /\ ResultSum(resultStats[l].accepted, resultStats[l].coalesced, resultStats[l].dropped,
                     resultStats[l].dispatched + 1, resultStats[l].failed,
                     Len(queue[l].order), 0)
        /\ ResultSum(resultStats[l].accepted, resultStats[l].coalesced, resultStats[l].dropped,
                     resultStats[l].dispatched, resultStats[l].failed + 1,
                     Len(queue[l].order), 0)
    BY <1>1, <2>2, <2>3, ResultSums
  <2> QED BY <1>2, <2>1, <2>4 DEF ResultsAddUp
<1>8. ASSUME NEW k \in Lanes, TakeResult(k) \/ SendResult(k), k # l
      PROVE UNCHANGED <<resultStats[l], queue[l], sender[l]>>
  BY <1>8 DEF TakeResult, SendResult, Go, IInv, QueueInv, QueueTypes, SenderInv, SenderTypes
<1>9. ASSUME NEW k \in Lanes, EndSender(k)
      PROVE /\ UNCHANGED <<resultStats[l], queue[l]>>
            /\ (sender'[l] = "sending") = (sender[l] = "sending")
  BY <1>9 DEF EndSender, Go, IInv, SenderInv, SenderTypes, queueVars
<1>10. ASSUME NEW c \in Cameras, Camera(c) \/ Rest(c)
       PROVE UNCHANGED <<resultStats[l], queue[l], sender[l]>>
  BY <1>10 DEF Camera, CheckShutdown, ReadNothing, CameraDies, PutFrame, Rest, queueVars,
               senderVars
<1>11. ASSUME NEW k \in Lanes,
              \/ CheckEnd(k) \/ GetFrame(k) \/ GetNothing(k) \/ Infer(k) \/ InferFails(k)
              \/ HandlerFails(k)
       PROVE UNCHANGED <<resultStats[l], queue[l], sender[l]>>
  BY <1>11 DEF CheckEnd, GetFrame, GetNothing, Infer, InferFails, HandlerFails, queueVars,
               senderVars
<1>12. ASSUME RequestShutdown \/ Runner
       PROVE UNCHANGED <<resultStats[l], queue[l], sender[l]>>
  BY <1>12 DEF RequestShutdown, Runner, StartCameras, StartFails, JoinCameras, CloseBuffer,
               JoinConsumer, ConsumerIsLate, CloseDispatcher, JoinSender, SenderIsLate,
               queueVars, senderVars
<1>13. CASE UNCHANGED vars
  BY <1>13, <1>3 DEF vars, queueVars, senderVars
<1>14. ASSUME NEW k \in Lanes, EndSender(k)
       PROVE ResultsAddUp(resultStats'[l], queue'[l], sender'[l] = "sending")
  BY <1>9, <1>14 DEF ResultsAddUp
<1> QED
  BY <1>3, <1>4, <1>5, <1>6, <1>7, <1>8, <1>10, <1>11, <1>12, <1>13, <1>14
  DEF Next, Consumer, Sender

\* The counters of frames and results add up, whatever is replaced, evicted or lost.
THEOREM EverythingIsCounted == Spec => []NothingUncounted
<1> DEFINE Counted == \A l \in Lanes :
             /\ FramesAddUp(bufferOpen[l], frameStats[l], buffer[l])
             /\ ResultsAddUp(resultStats[l], queue[l], sender[l] = "sending")
<1>1. Init => Counted
  <2>1. Len(Empty.order) = 0
    BY DEF Empty
  <2>2. Count("taking" = "sending") = 0
    BY DEF Count
  <2> QED BY <2>1, <2>2 DEF Init, FramesAddUp, ResultsAddUp, FrameSum, ResultSum
<1>2. IInv /\ Counted /\ [Next]_vars => Counted'
  BY FramesStayCounted, ResultsStayCounted
<1>3. Counted => NothingUncounted
  BY DEF FramesAddUp, ResultsAddUp, FrameSum, ResultSum, NothingUncounted
<1> QED BY <1>1, <1>2, <1>3, AlwaysIInv, PTL DEF Spec
=============================================================================
