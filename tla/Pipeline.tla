------------------------------ MODULE Pipeline ------------------------------
(***************************************************************************)
(* The threads of the worker process (worker/pipeline): one thread per     *)
(* camera puts sampled frames into a buffer, one consumer per lane         *)
(* (tracking, entry) infers on them and hands the result to a dispatcher   *)
(* whose own thread sends it, and the main thread starts and ends it all.  *)
(*                                                                         *)
(* A frame is its sequence number.  The consumer's handler chain up to the *)
(* dispatcher is one step (IdentityHandover models what it decides); the   *)
(* lanes of an overlay dispatcher, recordings and metrics are left out.    *)
(* Buffers are used in per_camera mode, as pipeline/main.py does.          *)
(***************************************************************************)
EXTENDS CameraQueue

CONSTANTS
  Lanes,
  LaneOf,      \* the lane of each camera
  BufferSize,  \* maxsize of the frame buffers
  QueueSize,   \* maxsize of the dispatchers
  MaxFailures, \* max_consecutive_failures
  MaxFrames    \* how many frames the bound lets a camera sample

ASSUME PipelineAssumption ==
  /\ LaneOf \in [Cameras -> Lanes]
  /\ BufferSize \in Nat \ {0} /\ QueueSize \in Nat \ {0}
  /\ MaxFailures \in Nat \ {0} /\ MaxFrames \in Nat

VARIABLES
  shutdown,     \* shutdown_event
  camera,       \* where each camera thread is
  captured,     \* the last frame each camera sampled
  buffer,       \* the frame buffer of each lane
  bufferOpen,   \* whether it is open
  frameStats,   \* its counters: accepted, dropped, consumed
  consumer,     \* where each consumer thread is
  inHand,       \* the frame it works on: <<camera, frame>>, else None
  failures,     \* _consecutive_failures
  queue,        \* the queue of each lane's dispatcher
  queueOpen,    \* whether it is open
  resultStats,  \* its counters: accepted, coalesced, dropped, dispatched, failed
  sender,       \* where its thread is
  outbox,       \* the result it sends: <<camera, frame>>, else None
  resting,      \* the cameras sent less than min_interval_seconds ago
  delivered,    \* the last frame of each camera whose result arrived
  runner,       \* where the main thread is
  left,         \* the lanes it still has to see to in that phase
  late,         \* the lanes whose join timed out
  refused       \* the lanes whose dispatcher was closed when a result came

cameraVars == <<camera, captured>>
bufferVars == <<buffer, bufferOpen, frameStats>>
consumerVars == <<consumer, inHand, failures>>
queueVars == <<queue, queueOpen, resultStats, refused>>
senderVars == <<sender, outbox, resting, delivered>>
runnerVars == <<runner, left, late>>
vars == <<shutdown, cameraVars, bufferVars, consumerVars, queueVars, senderVars, runnerVars>>

Go(threads, t, step) == [threads EXCEPT ![t] = step]

-----------------------------------------------------------------------------
(* Camera threads.                                                         *)

\* CameraPipeline.run looks at the shutdown event before each frame.
CheckShutdown(c) ==
  /\ camera[c] = "checking"
  /\ camera' = Go(camera, c, IF shutdown THEN "ended" ELSE "reading")
  /\ UNCHANGED <<shutdown, captured, bufferVars, consumerVars, queueVars, senderVars, runnerVars>>

\* No frame came, or one the sampling leaves out, or the connection is lost and
\* tried again later.
ReadNothing(c) ==
  /\ camera[c] = "reading"
  /\ camera' = Go(camera, c, "checking")
  /\ UNCHANGED <<shutdown, captured, bufferVars, consumerVars, queueVars, senderVars, runnerVars>>

\* An error that is not a lost connection (a full disk while recording) ends the thread.
CameraDies(c) ==
  /\ camera[c] = "reading"
  /\ camera' = Go(camera, c, "ended")
  /\ UNCHANGED <<shutdown, captured, bufferVars, consumerVars, queueVars, senderVars, runnerVars>>

Count(event) == IF event THEN 1 ELSE 0

\* Mutant of FrameCounts: a replaced frame is not counted as dropped.
ReplacedNotCounted(stats, q, c) ==
  [accepted |-> stats.accepted + 1,
   dropped |-> stats.dropped + Count(~Waits(q, c) /\ IsFull(q, BufferSize)),
   consumed |-> stats.consumed]

FrameCounts(stats, q, c) ==
  [accepted |-> stats.accepted + 1,
   dropped |-> stats.dropped + Count(Waits(q, c) \/ IsFull(q, BufferSize)),
   consumed |-> stats.consumed]

\* FrameBuffer.put: a closed buffer takes nothing.
PutFrame(c) ==
  LET l == LaneOf[c] IN
  /\ camera[c] = "reading"
  /\ captured[c] < MaxFrames
  /\ captured' = [captured EXCEPT ![c] = @ + 1]
  /\ camera' = Go(camera, c, "checking")
  /\ IF bufferOpen[l]
     THEN /\ buffer' = [buffer EXCEPT ![l] = Put(@, c, captured[c] + 1, BufferSize)]
          /\ frameStats' = [frameStats EXCEPT ![l] = FrameCounts(@, buffer[l], c)]
     ELSE UNCHANGED <<buffer, frameStats>>
  /\ UNCHANGED <<shutdown, bufferOpen, consumerVars, queueVars, senderVars, runnerVars>>

-----------------------------------------------------------------------------
(* Consumer threads.                                                       *)

\* InferenceConsumer.run looks at the shutdown event before it asks for a frame.
CheckEnd(l) ==
  /\ consumer[l] = "checking"
  /\ consumer' = Go(consumer, l, IF shutdown THEN "ended" ELSE "getting")
  /\ UNCHANGED <<shutdown, cameraVars, bufferVars, inHand, failures, queueVars, senderVars,
                 runnerVars>>

\* get_latest: the frame of the camera that waits longest.
GetFrame(l) ==
  LET c == Head(buffer[l].order) IN
  /\ consumer[l] = "getting"
  /\ bufferOpen[l] /\ buffer[l].order # << >>
  /\ inHand' = [inHand EXCEPT ![l] = <<c, buffer[l].item[c]>>]
  /\ buffer' = [buffer EXCEPT ![l] = Served(@)]
  /\ frameStats' = [frameStats EXCEPT ![l].consumed = @ + 1]
  /\ consumer' = Go(consumer, l, "inferring")
  /\ UNCHANGED <<shutdown, cameraVars, bufferOpen, failures, queueVars, senderVars, runnerVars>>

\* The buffer is closed, or it stayed empty until the timeout.
GetNothing(l) ==
  /\ consumer[l] = "getting"
  /\ ~bufferOpen[l] \/ buffer[l].order = << >>
  /\ consumer' = Go(consumer, l, "checking")
  /\ UNCHANGED <<shutdown, cameraVars, bufferVars, inHand, failures, queueVars, senderVars,
                 runnerVars>>

Infer(l) ==
  /\ consumer[l] = "inferring"
  /\ failures' = [failures EXCEPT ![l] = 0]
  /\ consumer' = Go(consumer, l, "handling")
  /\ UNCHANGED <<shutdown, cameraVars, bufferVars, inHand, queueVars, senderVars, runnerVars>>

\* A failed inference drops the frame; too many in a row end the process.
InferFails(l) ==
  /\ consumer[l] = "inferring"
  /\ failures' = [failures EXCEPT ![l] = @ + 1]
  /\ shutdown' = (shutdown \/ failures[l] + 1 >= MaxFailures)
  /\ inHand' = [inHand EXCEPT ![l] = None]
  /\ consumer' = Go(consumer, l, "checking")
  /\ UNCHANGED <<cameraVars, bufferVars, queueVars, senderVars, runnerVars>>

ResultCounts(stats, q, c) ==
  [accepted |-> stats.accepted + 1,
   coalesced |-> stats.coalesced + Count(Waits(q, c)),
   dropped |-> stats.dropped + Count(~Waits(q, c) /\ IsFull(q, QueueSize)),
   dispatched |-> stats.dispatched, failed |-> stats.failed]

\* AsyncResultDispatcher.__call__: a closed dispatcher takes nothing.
HandleResult(l) ==
  LET c == inHand[l][1]
      n == inHand[l][2]
  IN
  /\ consumer[l] = "handling"
  /\ IF queueOpen[l]
     THEN /\ queue' = [queue EXCEPT ![l] = Put(@, c, n, QueueSize)]
          /\ resultStats' = [resultStats EXCEPT ![l] = ResultCounts(@, queue[l], c)]
          /\ UNCHANGED refused
     ELSE refused' = refused \cup {l} /\ UNCHANGED <<queue, resultStats>>
  /\ inHand' = [inHand EXCEPT ![l] = None]
  /\ consumer' = Go(consumer, l, "checking")
  /\ UNCHANGED <<shutdown, cameraVars, bufferVars, failures, queueOpen, senderVars, runnerVars>>

\* An exception of the handler chain is not caught: the thread is gone.
HandlerFails(l) ==
  /\ consumer[l] = "handling"
  /\ inHand' = [inHand EXCEPT ![l] = None]
  /\ consumer' = Go(consumer, l, "crashed")
  /\ UNCHANGED <<shutdown, cameraVars, bufferVars, failures, queueVars, senderVars, runnerVars>>

-----------------------------------------------------------------------------
(* Sender threads of the dispatchers.                                      *)

\* _take: the head of the line waits out its interval unless the queue is closed.
TakeResult(l) ==
  LET c == Head(queue[l].order) IN
  /\ sender[l] = "taking"
  /\ queue[l].order # << >>
  /\ queueOpen[l] => c \notin resting
  /\ outbox' = [outbox EXCEPT ![l] = <<c, queue[l].item[c]>>]
  /\ queue' = [queue EXCEPT ![l] = Served(@)]
  /\ resting' = resting \cup {c}
  /\ sender' = Go(sender, l, "sending")
  /\ UNCHANGED <<shutdown, cameraVars, bufferVars, consumerVars, queueOpen, resultStats, refused,
                 delivered, runnerVars>>

\* min_interval_seconds have passed since the camera was sent.
Rest(c) ==
  /\ c \in resting
  /\ resting' = resting \ {c}
  /\ UNCHANGED <<shutdown, cameraVars, bufferVars, consumerVars, queueVars, sender, outbox,
                 delivered, runnerVars>>

\* Mutant of SendResult: the exception of a handler ends the thread.
SendResultUnprotected(l) ==
  LET c == outbox[l][1]
      n == outbox[l][2]
  IN
  /\ sender[l] = "sending"
  /\ \/ /\ delivered' = [delivered EXCEPT ![c] = n]
        /\ resultStats' = [resultStats EXCEPT ![l].dispatched = @ + 1]
        /\ sender' = Go(sender, l, "taking")
     \/ /\ sender' = Go(sender, l, "ended")
        /\ UNCHANGED <<delivered, resultStats>>
  /\ outbox' = [outbox EXCEPT ![l] = None]
  /\ UNCHANGED <<shutdown, cameraVars, bufferVars, consumerVars, queue, queueOpen, refused,
                 resting, runnerVars>>

\* _dispatch: the handler returns or throws.
SendResult(l) ==
  LET c == outbox[l][1]
      n == outbox[l][2]
  IN
  /\ sender[l] = "sending"
  /\ \/ /\ delivered' = [delivered EXCEPT ![c] = n]
        /\ resultStats' = [resultStats EXCEPT ![l].dispatched = @ + 1]
     \/ /\ resultStats' = [resultStats EXCEPT ![l].failed = @ + 1]
        /\ UNCHANGED delivered
  /\ outbox' = [outbox EXCEPT ![l] = None]
  /\ sender' = Go(sender, l, "taking")
  /\ UNCHANGED <<shutdown, cameraVars, bufferVars, consumerVars, queue, queueOpen, refused,
                 resting, runnerVars>>

\* Mutant of EndSender: what still waits in the queue is left there.
EndSenderAtOnce(l) ==
  /\ sender[l] = "taking"
  /\ ~queueOpen[l]
  /\ sender' = Go(sender, l, "ended")
  /\ UNCHANGED <<shutdown, cameraVars, bufferVars, consumerVars, queueVars, outbox, resting,
                 delivered, runnerVars>>

\* The dispatcher is closed and nothing waits any more.
EndSender(l) ==
  /\ sender[l] = "taking"
  /\ ~queueOpen[l] /\ queue[l].order = << >>
  /\ sender' = Go(sender, l, "ended")
  /\ UNCHANGED <<shutdown, cameraVars, bufferVars, consumerVars, queueVars, outbox, resting,
                 delivered, runnerVars>>

-----------------------------------------------------------------------------
(* The main thread: PipelineRunner.run around StreamWorker.run.            *)

StartCameras ==
  /\ runner = "starting"
  /\ runner' = "supervising"
  /\ camera' = [c \in Cameras |-> "checking"]
  /\ UNCHANGED <<shutdown, captured, bufferVars, consumerVars, queueVars, senderVars, left, late>>

\* The RTSP publisher does not start: the finally block of PipelineRunner.run.
StartFails ==
  /\ runner = "starting"
  /\ runner' = "closing buffers" /\ left' = Lanes
  /\ shutdown' = TRUE
  /\ UNCHANGED <<cameraVars, bufferVars, consumerVars, queueVars, senderVars, late>>

\* request_shutdown, in the handler of SIGINT and SIGTERM.
RequestShutdown ==
  /\ runner # "done"
  /\ shutdown' = TRUE
  /\ bufferOpen' = [l \in Lanes |-> FALSE]
  /\ buffer' = [l \in Lanes |-> Empty]
  /\ UNCHANGED <<cameraVars, frameStats, consumerVars, queueVars, senderVars, runnerVars>>

\* _supervise ends with the shutdown event; the camera threads are joined for as
\* long as it takes, then the finally block of PipelineRunner.run begins.
JoinCameras ==
  /\ runner = "supervising"
  /\ shutdown
  /\ \A c \in Cameras : camera[c] = "ended"
  /\ runner' = "closing buffers" /\ left' = Lanes
  /\ UNCHANGED <<shutdown, cameraVars, bufferVars, consumerVars, queueVars, senderVars, late>>

\* The next phase begins when the last lane is through this one.
Passes(l, next) ==
  /\ left' = IF left = {l} THEN Lanes ELSE left \ {l}
  /\ runner' = IF left = {l} THEN next ELSE runner

CloseBuffer(l) ==
  /\ runner = "closing buffers" /\ l \in left
  /\ bufferOpen' = [bufferOpen EXCEPT ![l] = FALSE]
  /\ buffer' = [buffer EXCEPT ![l] = Empty]
  /\ Passes(l, "joining consumers")
  /\ UNCHANGED <<shutdown, cameraVars, frameStats, consumerVars, queueVars, senderVars, late>>

JoinConsumer(l) ==
  /\ runner = "joining consumers" /\ l \in left
  /\ consumer[l] \in {"ended", "crashed"}
  /\ Passes(l, "closing dispatchers")
  /\ UNCHANGED <<shutdown, cameraVars, bufferVars, consumerVars, queueVars, senderVars, late>>

\* Mutant of ConsumerIsLate: the consumers are joined without a timeout.
ConsumerIsAwaited(l) == FALSE

\* consumer_join_timeout_seconds are over.
ConsumerIsLate(l) ==
  /\ runner = "joining consumers" /\ l \in left
  /\ consumer[l] \notin {"ended", "crashed"}
  /\ late' = late \cup {l}
  /\ Passes(l, "closing dispatchers")
  /\ UNCHANGED <<shutdown, cameraVars, bufferVars, consumerVars, queueVars, senderVars>>

\* AsyncResultDispatcher.close, one dispatcher after the other.
CloseDispatcher(l) ==
  /\ runner = "closing dispatchers" /\ l \in left
  /\ \A k \in left : queueOpen[k]
  /\ queueOpen' = [queueOpen EXCEPT ![l] = FALSE]
  /\ UNCHANGED <<shutdown, cameraVars, bufferVars, consumerVars, queue, resultStats, refused,
                 senderVars, runnerVars>>

JoinSender(l) ==
  /\ runner = "closing dispatchers" /\ l \in left
  /\ ~queueOpen[l] /\ sender[l] = "ended"
  /\ Passes(l, "done")
  /\ UNCHANGED <<shutdown, cameraVars, bufferVars, consumerVars, queueVars, senderVars, late>>

\* close_timeout_seconds are over.
SenderIsLate(l) ==
  /\ runner = "closing dispatchers" /\ l \in left
  /\ ~queueOpen[l] /\ sender[l] # "ended"
  /\ late' = late \cup {l}
  /\ Passes(l, "done")
  /\ UNCHANGED <<shutdown, cameraVars, bufferVars, consumerVars, queueVars, senderVars>>

-----------------------------------------------------------------------------
Init ==
  /\ shutdown = FALSE
  /\ camera = [c \in Cameras |-> "idle"]
  /\ captured = [c \in Cameras |-> 0]
  /\ buffer = [l \in Lanes |-> Empty]
  /\ bufferOpen = [l \in Lanes |-> TRUE]
  /\ frameStats = [l \in Lanes |-> [accepted |-> 0, dropped |-> 0, consumed |-> 0]]
  /\ consumer = [l \in Lanes |-> "checking"]
  /\ inHand = [l \in Lanes |-> None]
  /\ failures = [l \in Lanes |-> 0]
  /\ queue = [l \in Lanes |-> Empty]
  /\ queueOpen = [l \in Lanes |-> TRUE]
  /\ resultStats = [l \in Lanes |->
       [accepted |-> 0, coalesced |-> 0, dropped |-> 0, dispatched |-> 0, failed |-> 0]]
  /\ sender = [l \in Lanes |-> "taking"]
  /\ outbox = [l \in Lanes |-> None]
  /\ resting = {}
  /\ delivered = [c \in Cameras |-> 0]
  /\ runner = "starting"
  /\ left = {} /\ late = {} /\ refused = {}

Camera(c) == CheckShutdown(c) \/ ReadNothing(c) \/ PutFrame(c) \/ CameraDies(c)
Consumer(l) ==
  \/ CheckEnd(l) \/ GetFrame(l) \/ GetNothing(l)
  \/ Infer(l) \/ InferFails(l) \/ HandleResult(l) \/ HandlerFails(l)
Sender(l) == TakeResult(l) \/ SendResult(l) \/ EndSender(l)
Runner ==
  \/ StartCameras \/ StartFails \/ JoinCameras
  \/ \E l \in Lanes :
       \/ CloseBuffer(l) \/ JoinConsumer(l) \/ ConsumerIsLate(l)
       \/ CloseDispatcher(l) \/ JoinSender(l) \/ SenderIsLate(l)

Next ==
  \/ \E c \in Cameras : Camera(c) \/ Rest(c)
  \/ \E l \in Lanes : Consumer(l) \/ Sender(l)
  \/ RequestShutdown
  \/ Runner

Spec == Init /\ [][Next]_vars

\* The main thread and the camera threads get on: reading from a camera and all
\* joins but theirs have timeouts.  Inference and sending may hang.
EndingFairness ==
  /\ WF_vars(Runner)
  /\ \A c \in Cameras : WF_vars(CheckShutdown(c)) /\ WF_vars(ReadNothing(c) \/ PutFrame(c))

\* Inference and sending get on as well, and intervals pass.
WorkFairness ==
  /\ \A l \in Lanes : WF_vars(Consumer(l)) /\ WF_vars(Sender(l))
  /\ \A c \in Cameras : WF_vars(Rest(c))

FairSpec == Spec /\ EndingFairness
WorkingSpec == FairSpec /\ WorkFairness

-----------------------------------------------------------------------------
(* Properties.                                                             *)

CameraTypes ==
  /\ camera \in [Cameras -> {"idle", "checking", "reading", "ended"}]
  /\ captured \in [Cameras -> Nat]
BufferTypes ==
  /\ buffer \in [Lanes -> Queue]
  /\ bufferOpen \in [Lanes -> BOOLEAN]
  /\ frameStats \in [Lanes -> [accepted : Nat, dropped : Nat, consumed : Nat]]
ConsumerTypes ==
  /\ consumer \in [Lanes -> {"checking", "getting", "inferring", "handling", "ended", "crashed"}]
  /\ inHand \in [Lanes -> (Cameras \X Nat) \cup {None}]
  /\ \A l \in Lanes : inHand[l] # None <=> consumer[l] \in {"inferring", "handling"}
  /\ failures \in [Lanes -> Nat]
QueueTypes ==
  /\ queue \in [Lanes -> Queue]
  /\ queueOpen \in [Lanes -> BOOLEAN]
  /\ resultStats \in [Lanes -> [accepted : Nat, coalesced : Nat, dropped : Nat,
                                 dispatched : Nat, failed : Nat]]
  /\ refused \in SUBSET Lanes
SenderTypes ==
  /\ sender \in [Lanes -> {"taking", "sending", "ended"}]
  /\ outbox \in [Lanes -> (Cameras \X Nat) \cup {None}]
  /\ \A l \in Lanes : outbox[l] # None <=> sender[l] = "sending"
  /\ resting \in SUBSET Cameras
  /\ delivered \in [Cameras -> Nat]
RunnerTypes ==
  /\ runner \in {"starting", "supervising", "closing buffers", "joining consumers",
                 "closing dispatchers", "done"}
  /\ left \in SUBSET Lanes /\ late \in SUBSET Lanes

\* Every variable stays within its type.
TypeOK ==
  /\ shutdown \in BOOLEAN
  /\ CameraTypes /\ BufferTypes /\ ConsumerTypes /\ QueueTypes /\ SenderTypes /\ RunnerTypes

Held(holding, c) == IF holding # None /\ holding[1] = c THEN {holding[2]} ELSE {}
Waiting(q, c) == IF Waits(q, c) THEN {q.item[c]} ELSE {}

\* Where frames of c are between the camera and the server, the oldest first.
Stages(c) ==
  LET l == LaneOf[c] IN
  << {delivered[c]}, Held(outbox[l], c), Waiting(queue[l], c), Held(inHand[l], c),
     Waiting(buffer[l], c), {captured[c] + 1} >>

\* No frame overtakes an older one of its camera on the way through four threads
\* and two queues that replace and drop items, so the server gets the results of
\* a camera in the order of its frames.
FramesInOrder ==
  \A c \in Cameras : \A i, j \in 1..6 :
    i < j => \A old \in Stages(c)[i], new \in Stages(c)[j] : old < new

\* Each camera in a line has an item and stands there once, and no line is longer
\* than its maxsize.
QueuesConsistent ==
  /\ \A l \in Lanes : Consistent(buffer[l], BufferSize)
  /\ \A l \in Lanes : Consistent(queue[l], QueueSize)

\* The counters the metrics are made of add up: every accepted frame waits or was
\* dropped or consumed, and every accepted result waits, is being sent or has one
\* of the four ends.
NothingUncounted ==
  \A l \in Lanes :
    /\ LET f == frameStats[l] IN
         bufferOpen[l] => f.accepted = f.dropped + f.consumed + Len(buffer[l].order)
    /\ LET r == resultStats[l] IN
         r.accepted = r.coalesced + r.dropped + r.dispatched + r.failed
                      + Len(queue[l].order) + Count(sender[l] = "sending")

\* Dispatchers are closed after the consumers: unless a join timed out, no result
\* comes to a closed dispatcher and none is left in it at the end.
NoResultLostAtTheEnd ==
  /\ refused \subseteq late
  /\ runner = "done" => \A l \in Lanes \ late : sender[l] = "ended" /\ queue[l] = Empty

\* A fast camera does not put itself behind or before a slow one: as long as two
\* cameras wait, they keep their order.
FirstComeFirstServed ==
  [][\A l \in Lanes : \A c, d \in Cameras :
       /\ Before(buffer[l], c, d) => ~Before(buffer'[l], d, c)
       /\ Before(queue[l], c, d) => ~Before(queue'[l], d, c)]_vars

\* The process ends after a shutdown request even when inference or the server hangs.
ShutdownFinishes == shutdown ~> runner = "done"

\* No camera is starved while the threads work: over and over there is a time at
\* which no frame of it waits in the buffer, unless the consumer crashed, and one at
\* which no result of it waits in the queue.  A newer one that takes the place of
\* the one that waits does not count, only being taken or evicted.
WaitingIsServed ==
  \A c \in Cameras :
    /\ []<>(~Waits(buffer[LaneOf[c]], c) \/ consumer[LaneOf[c]] = "crashed")
    /\ []<>~Waits(queue[LaneOf[c]], c)

=============================================================================
