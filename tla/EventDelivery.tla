--------------------------- MODULE EventDelivery ----------------------------
(***************************************************************************)
(* How the worker's events get into the server.  A lane of the worker      *)
(* posts one event after the other, each a bounded number of times, and    *)
(* drops it then.  An attempt it gives up waiting for may still be on its  *)
(* way, or at work in the server, so attempts overlap.  A detection is     *)
(* shown, stored and judged; an observation of the entrance is stored,     *)
(* entered in its stream and shown.                                        *)
(*                                                                         *)
(* One camera of each kind.  Events are named by the time of their frame,  *)
(* in half milliseconds: an odd time has a fraction MongoDB does not keep. *)
(***************************************************************************)
EXTENDS Naturals, FiniteSets, FiniteSetsExt

CONSTANTS
  Times,       \* the frames' times the bound allows
  MaxEvents,   \* bound on the events the lanes are handed
  MaxRetries,  \* max_retries of the handlers
  MaxFailures, \* bound on the calls of the repositories that fail
  Subscribers, Capacity, MaxWalks

ASSUME DeliveryAssumption ==
  /\ Times \in SUBSET (Nat \ {0, 1})
  /\ MaxEvents \in Nat /\ MaxRetries \in Nat /\ MaxFailures \in Nat
  /\ Capacity \in Nat \ {0} /\ MaxWalks \in Nat \ {0}

Kinds == {"detection", "entry"}
Attempts == 1..(MaxRetries + 1)
Posts == Kinds \X Times \X Attempts

VARIABLES
  frame,   \* the event each lane posts, or posted last; 0 before the first
  attempt, \* its attempt, 0 when the lane is free
  acked,   \* the events each lane was told to be stored
  step,    \* where each request is in the server
  fresh,   \* the requests that found their event new
  stored,  \* the events on record
  last,    \* last_detection_at of the two streams
  judges,  \* whether the camera has a classroom and the role SEAT_JUDGING
  judged,  \* the detections mapped to seats and judged
  logged,  \* the detections whose judging went wrong, which is logged and no more
  failures,
  subs, queue, walk

laneVars == <<frame, attempt, acked>>
busVars == <<subs, queue, walk>>
judgeVars == <<judges, judged, logged>>
storeVars == <<stored, last, judgeVars>>
deliveryVars == <<laneVars, step, fresh, storeVars, failures, busVars>>

Bus == INSTANCE Broadcaster WITH Publishers <- Posts

\* The time as MongoDB keeps it.
Kept(t) == 2 * (t \div 2)
Exact(t) == Kept(t) = t

Kind(r) == r[1]
Time(r) == r[2]
Current(k) == <<k, frame[k], attempt[k]>>

Answered == {"done", "refused", "error"}

-----------------------------------------------------------------------------
(* The worker: FastAPIResultHandler, FastAPIEntryIdentityEventHandler.     *)

Post(r) == step' = [step EXCEPT ![r] = "posted"]

Handled == {e \in Kinds \X Times : step[<<e[1], e[2], 1>>] # "none"}

\* A lane is handed an event.
Handle(k, t) ==
  /\ attempt[k] = 0 /\ t > frame[k]
  /\ Cardinality(Handled) < MaxEvents
  /\ frame' = [frame EXCEPT ![k] = t]
  /\ attempt' = [attempt EXCEPT ![k] = 1]
  /\ Post(<<k, t, 1>>)
  /\ UNCHANGED <<acked, fresh, storeVars, failures, busVars>>

\* Whatever went wrong, the event is posted again, or dropped after the last attempt.
TryAgain(k) ==
  IF attempt[k] > MaxRetries
  THEN attempt' = [attempt EXCEPT ![k] = 0] /\ UNCHANGED step
  ELSE /\ attempt' = [attempt EXCEPT ![k] = @ + 1]
       /\ Post(<<k, frame[k], attempt[k] + 1>>)

\* The answer arrives; a status other than success is an error like any other.
Hear(k) ==
  /\ attempt[k] > 0 /\ step[Current(k)] \in Answered
  /\ IF step[Current(k)] = "done"
     THEN /\ acked' = [acked EXCEPT ![k] = @ \cup {frame[k]}]
          /\ attempt' = [attempt EXCEPT ![k] = 0] /\ UNCHANGED step
     ELSE TryAgain(k) /\ UNCHANGED acked
  /\ UNCHANGED <<frame, fresh, storeVars, failures, busVars>>

\* No answer in time: the request or its answer is lost or late.
TimeOut(k) ==
  /\ attempt[k] > 0
  /\ TryAgain(k)
  /\ UNCHANGED <<frame, acked, fresh, storeVars, failures, busVars>>

-----------------------------------------------------------------------------
(* The server: receive_inference_event and save_event.                     *)

Go(r, to) == step' = [step EXCEPT ![r] = to]

\* publish: the overlay of a detection when the request arrives, before anything is
\* read; an entry event after it was stored as a new one.
StartShow(r) ==
  /\ step[r] = "show" \/ (step[r] = "posted" /\ Kind(r) = "detection")
  /\ Bus!StartWalk(r) /\ Go(r, "showing")
  /\ UNCHANGED <<laneVars, fresh, storeVars, failures>>

Show(r) ==
  /\ step[r] = "showing"
  /\ Bus!PutNext(r)
  /\ UNCHANGED <<laneVars, step, fresh, storeVars, failures>>

\* Whether a detection is new is read before it is stored.
Find(r) ==
  /\ Kind(r) = "detection" /\ step[r] = "showing" /\ Bus!EndWalk(r)
  /\ fresh' = IF Time(r) \in stored[Kind(r)] THEN fresh ELSE fresh \cup {r}
  /\ Go(r, "save")
  /\ UNCHANGED <<laneVars, storeVars, failures>>

EndShow(r) ==
  /\ Kind(r) = "entry" /\ step[r] = "showing" /\ Bus!EndWalk(r)
  /\ Go(r, "done")
  /\ UNCHANGED <<laneVars, fresh, storeVars, failures>>

\* Mutant of AfterSave: only the request that stored an entry event enters it.
AfterNewSave(r, new) == IF new \/ r \in fresh THEN "update" ELSE "done"

\* Mutant of AfterSave: only a first attempt is followed up.
AfterFirstAttempt(r, new) == IF Kind(r) = "entry" \/ r[3] = 1 THEN "update" ELSE "done"

\* A detection is followed up by the requests that read it as new, an entry event by
\* every request.
AfterSave(r, new) ==
  IF Kind(r) = "entry" \/ r \in fresh THEN "update" ELSE "done"

\* save: the first insert stores the event, another one compares its content with the
\* stored one, the time among it.
Save(r) ==
  LET k == Kind(r)
      new == Time(r) \notin stored[k]
  IN /\ step[r] = IF k = "entry" THEN "posted" ELSE "save"
     /\ stored' = [stored EXCEPT ![k] = @ \cup {Time(r)}]
     /\ fresh' = IF k = "entry" /\ new THEN fresh \cup {r} ELSE fresh
     /\ Go(r, IF ~new /\ ~Exact(Time(r)) THEN "refused" ELSE AfterSave(r, new))
     /\ UNCHANGED <<laneVars, last, judgeVars, failures, busVars>>

\* update_last_detection, which never goes back.
Update(r) ==
  LET k == Kind(r) IN
  /\ step[r] = "update"
  /\ last' = [last EXCEPT ![k] = Max({@, Kept(Time(r))})]
  /\ Go(r, IF k = "detection" THEN "judge" ELSE IF r \in fresh THEN "show" ELSE "done")
  /\ UNCHANGED <<laneVars, fresh, stored, judgeVars, failures, busVars>>

\* The seats and the students of a camera that judges seats.  Whatever goes wrong there,
\* a classroom or an ROI that is missing included, is logged, and the request succeeds.
Judge(r) ==
  /\ step[r] = "judge"
  /\ \/ judges /\ judged' = judged \cup {Time(r)} /\ UNCHANGED logged
     \/ judges /\ logged' = logged \cup {Time(r)} /\ UNCHANGED judged
     \/ ~judges /\ UNCHANGED <<judged, logged>>
  /\ Go(r, "done")
  /\ UNCHANGED <<laneVars, fresh, stored, last, judges, failures, busVars>>

\* A call of a repository fails, and so does the request; the insert may have been
\* done all the same.
Fail(r) ==
  /\ step[r] \in {"save", "update"} \/ (step[r] = "posted" /\ Kind(r) = "entry")
  /\ failures < MaxFailures /\ failures' = failures + 1
  /\ \/ UNCHANGED stored
     \/ step[r] # "update" /\ stored' = [stored EXCEPT ![Kind(r)] = @ \cup {Time(r)}]
  /\ Go(r, "error")
  /\ UNCHANGED <<laneVars, fresh, last, judgeVars, busVars>>

-----------------------------------------------------------------------------
DeliveryInit ==
  /\ frame = [k \in Kinds |-> 0] /\ attempt = [k \in Kinds |-> 0]
  /\ acked = [k \in Kinds |-> {}]
  /\ step = [r \in Posts |-> "none"] /\ fresh = {}
  /\ stored = [k \in Kinds |-> {}] /\ last = [k \in Kinds |-> 0]
  /\ judges \in BOOLEAN /\ judged = {} /\ logged = {}
  /\ failures = 0
  /\ Bus!BusInit

Process(r) ==
  StartShow(r) \/ Show(r) \/ EndShow(r) \/ Find(r) \/ Save(r) \/ Update(r) \/ Judge(r) \/ Fail(r)

Connection(s) == Bus!Subscribe(s) \/ Bus!Unsubscribe(s) \/ Bus!Deliver(s)

DeliveryNext ==
  \/ \E k \in Kinds, t \in Times : Handle(k, t)
  \/ \E k \in Kinds : Hear(k) \/ TimeOut(k)
  \/ \E r \in Posts : Process(r)
  \/ \E s \in Subscribers :
       Connection(s) /\ UNCHANGED <<laneVars, step, fresh, storeVars, failures>>

DeliverySpec == DeliveryInit /\ [][DeliveryNext]_deliveryVars

-----------------------------------------------------------------------------
(* Properties.                                                             *)

EveryoneIsTold == Bus!EveryoneIsTold

\* An entry event the worker was told to be stored is stored and entered in its stream,
\* by whichever of its attempts, and however they overlap and fail.
AckedIsEntered ==
  \A t \in acked["entry"] : t \in stored["entry"] /\ last["entry"] >= Kept(t)

\* A detection of a camera that judges seats, which the worker was told to be stored, is
\* judged, or it was tried and what went wrong is in the log.  The exception is a request
\* that was to judge it and failed after it was stored; the retry of that one is answered
\* as done.
AckedIsJudged ==
  \A t \in acked["detection"] :
    \/ ~judges \/ t \in judged \cup logged
    \/ \E r \in fresh :
         Kind(r) = "detection" /\ Time(r) = t /\ step[r] \in {"update", "judge", "error"}
=============================================================================
