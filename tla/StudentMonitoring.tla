------------------------- MODULE StudentMonitoring --------------------------
(***************************************************************************)
(* The receipt of detection events by app/student_monitoring: a worker     *)
(* posts each event, several times when it got no answer, and the server   *)
(* runs one handler per request in a thread pool.  A handler stores the    *)
(* event, maps it to the seats of its camera, records the seat batch and   *)
(* judges every assigned student, one repository call after the other, so  *)
(* handlers interleave between those calls.                                *)
(*                                                                         *)
(* One classroom, watched by SEAT_JUDGING cameras.  The seat batch is one  *)
(* atomic step here.  Overlays, SSE payloads, names and classroom lookups  *)
(* are left out.  Frames reach the server in any order.                    *)
(***************************************************************************)
EXTENDS StateRules, FiniteSets

CONSTANTS
  Cameras,
  Roi,           \* the seats each camera has a valid ROI for
  Events,        \* event ids the bound allows
  Times,         \* captured_at values the bound allows
  Handlers,      \* requests the server handles at the same time
  MaxPosts,      \* how many posts the bound allows
  OccupancyHold, \* occupancy_hold_seconds
  MayFail,       \* whether repository calls may fail and the process may restart
  MayReassign    \* whether an administrator moves students between seats

Frames ==
  UNION {[camera : {c}, at : Times, sights : [Roi[c] -> Sights], outside : SUBSET Students] :
         c \in Cameras}

\* A stored StudentStateRecord.
Records ==
  [state : StudentStates, seat : Seats \cup {None}, assigned : Seats, at : Times,
   event : Events, identifiedAt : Times \cup {None}, vacantSince : Times \cup {None}]

ASSUME MonitoringAssumption ==
  /\ Roi \in [Cameras -> SUBSET Seats]
  /\ Times \in SUBSET Nat
  /\ MaxPosts \in Nat /\ OccupancyHold \in Nat
  /\ MayFail \in BOOLEAN /\ MayReassign \in BOOLEAN
  /\ None \notin Frames /\ None \notin Records

VARIABLES
  frames,    \* the frame of each event that was posted, else None
  posts,     \* how many posts there were
  saved,     \* the detection events that are stored
  batches,   \* the events whose seat batch is recorded
  occupancy, \* the current occupancy of each seat: [state, at]
  states,    \* the stored StudentStateRecord of each student, else None
  history,   \* the state transitions on record: [event, student, from, to]
  assigned,  \* the seat each student is assigned to, else None
  lastSeen,  \* _last_seen: when a camera last saw somebody on a seat, else None
  pc,        \* where each handler is
  job        \* what a handler works with: [event, fresh, held, seats, before, todo, moved]

storeVars == <<saved, batches, occupancy, states, history>>
vars == <<frames, posts, storeVars, assigned, lastSeen, pc, job>>

\* A student is on one seat or outside, never both, and a camera takes one frame
\* at a time.
Plausible(frame) ==
  /\ \A a, b \in DOMAIN frame.sights :
       frame.sights[a] = frame.sights[b] /\ frame.sights[a] \in Students => a = b
  /\ \A a \in DOMAIN frame.sights : frame.sights[a] \notin frame.outside
  /\ \A e \in Events : frames[e] # None =>
       frames[e].camera # frame.camera \/ frames[e].at # frame.at

NoJob == [event |-> None, fresh |-> FALSE, held |-> {}, seats |-> [s \in Students |-> None],
          before |-> [s \in Students |-> None], todo |-> {}, moved |-> None]

Go(h, step) == pc' = [pc EXCEPT ![h] = step]
Finish(h) == Go(h, "idle") /\ job' = [job EXCEPT ![h] = NoJob]
Frame(h) == frames[job[h].event]

-----------------------------------------------------------------------------
(* receive_inference_event                                                 *)

\* A post of an event arrives, the first one with any frame; whether the event is
\* new is read before it is stored.
Receive(h, e) ==
  /\ pc[h] = "idle"
  /\ posts < MaxPosts /\ posts' = posts + 1
  /\ \/ frames[e] # None /\ UNCHANGED frames
     \/ /\ frames[e] = None
        /\ \E frame \in Frames : Plausible(frame) /\ frames' = [frames EXCEPT ![e] = frame]
  /\ job' = [job EXCEPT ![h] = [NoJob EXCEPT !.event = e, !.fresh = e \notin saved]]
  /\ Go(h, "save")
  /\ UNCHANGED <<storeVars, assigned, lastSeen>>

\* Mutant of Save: a retry is judged again.
SaveAndMap(h) ==
  /\ pc[h] = "save"
  /\ saved' = saved \cup {job[h].event}
  /\ Go(h, "map") /\ UNCHANGED job
  /\ UNCHANGED <<frames, posts, batches, occupancy, states, history, assigned, lastSeen>>

\* The insert of an event that is stored already returns the stored one; only an
\* event that was read as new is mapped and judged.
Save(h) ==
  /\ pc[h] = "save"
  /\ saved' = saved \cup {job[h].event}
  /\ IF job[h].fresh THEN Go(h, "map") /\ UNCHANGED job ELSE Finish(h)
  /\ UNCHANGED <<frames, posts, batches, occupancy, states, history, assigned, lastSeen>>

\* _held_seats
HeldSeats(frame) ==
  {seat \in Roi[frame.camera] :
     /\ OccupancyHold > 0
     /\ lastSeen[<<frame.camera, seat>>] # None
     /\ lastSeen[<<frame.camera, seat>>] >= frame.at - OccupancyHold}

MapSeats(h) ==
  /\ pc[h] = "map"
  /\ job' = [job EXCEPT ![h].held = HeldSeats(Frame(h))]
  /\ Go(h, "remember")
  /\ UNCHANGED <<frames, posts, storeVars, assigned, lastSeen>>

\* Mutant of LastSeenAfter: a weak detection counts.
LastSeenWeakly(frame, held) ==
  [k \in Cameras \X Seats |->
     IF /\ k[1] = frame.camera /\ k[2] \in Roi[frame.camera] \ held
        /\ frame.sights[k[2]] # "nobody"
        /\ lastSeen[k] = None \/ lastSeen[k] <= frame.at
     THEN frame.at ELSE lastSeen[k]]

\* _remember_seen: seats that are held are skipped, whether seen now or not.
LastSeenAfter(frame, held) ==
  [k \in Cameras \X Seats |->
     IF /\ k[1] = frame.camera /\ k[2] \in Roi[frame.camera] \ held
        /\ Strong(frame.sights[k[2]])
        /\ lastSeen[k] = None \/ lastSeen[k] <= frame.at
     THEN frame.at ELSE lastSeen[k]]

Remember(h) ==
  /\ pc[h] = "remember"
  /\ lastSeen' = LastSeenAfter(Frame(h), job[h].held)
  /\ Go(h, "record")
  /\ UNCHANGED <<frames, posts, storeVars, assigned, job>>

\* record_seat_observation_batch: each seat takes the observation unless it has a
\* newer one.  A batch that is on record already is compared with this one and
\* returned, or refused when they differ.
OccupancyAfter(frame, held) ==
  [seat \in Seats |->
     IF seat \in Roi[frame.camera] /\ (occupancy[seat].at = None \/ occupancy[seat].at <= frame.at)
     THEN [state |-> SeatState(frame, held)[seat], at |-> frame.at]
     ELSE occupancy[seat]]

RecordBatch(h) ==
  /\ pc[h] = "record"
  /\ \/ /\ Roi[Frame(h).camera] # {} /\ job[h].event \notin batches
        /\ batches' = batches \cup {job[h].event}
        /\ occupancy' = OccupancyAfter(Frame(h), job[h].held)
        /\ Go(h, "read") /\ UNCHANGED job
     \/ /\ Roi[Frame(h).camera] = {} \/ job[h].event \in batches
        /\ UNCHANGED <<batches, occupancy>>
        /\ Go(h, "read") /\ UNCHANGED job
     \/ /\ Roi[Frame(h).camera] # {} /\ job[h].event \in batches
        /\ UNCHANGED <<batches, occupancy>>
        /\ Finish(h)
  /\ UNCHANGED <<frames, posts, saved, states, history, assigned, lastSeen>>

-----------------------------------------------------------------------------
(* _evaluate_student_states                                                *)

\* _active_assignments: only students with a seat are judged.
Judged == {s \in Students : assigned[s] # None}

\* The assignments and then the stored states are read once for all students.
ReadAssignments(h) ==
  /\ pc[h] = "read"
  /\ IF Judged = {} THEN Finish(h)
     ELSE /\ job' = [job EXCEPT ![h].seats = assigned, ![h].todo = Judged]
          /\ Go(h, "previous")
  /\ UNCHANGED <<frames, posts, storeVars, assigned, lastSeen>>

ReadStates(h) ==
  /\ pc[h] = "previous"
  /\ job' = [job EXCEPT ![h].before = states]
  /\ Go(h, "write")
  /\ UNCHANGED <<frames, posts, storeVars, assigned, lastSeen>>

\* Mutant of Outdated.
NeverOutdated(before, frame) == FALSE

\* A frame older than the stored judgement that was read does not judge.
Outdated(before, frame) == before # None /\ before.at > frame.at

StateOf(record) == IF record = None THEN "UNKNOWN" ELSE record.state

\* The state of the next student is stored, and with it goes the history entry
\* when the state is another one; students are taken in any order.
WriteState(h) ==
  /\ pc[h] = "write"
  /\ \E s \in job[h].todo :
       LET before == job[h].before[s]
           record == Decide(s, job[h].seats[s], job[h].event, Frame(h), job[h].held, before)
           left == job[h].todo \ {s}
       IN \/ /\ Outdated(before, Frame(h))
             /\ UNCHANGED states
             /\ IF left = {} THEN Finish(h)
                ELSE Go(h, "write") /\ job' = [job EXCEPT ![h].todo = left]
          \/ /\ ~Outdated(before, Frame(h))
             /\ states' = [states EXCEPT ![s] = record]
             /\ IF StateOf(before) # record.state
                THEN /\ Go(h, "history")
                     /\ job' = [job EXCEPT ![h].todo = left, ![h].moved =
                          [student |-> s, from |-> StateOf(before), to |-> record.state]]
                ELSE IF left = {} THEN Finish(h)
                ELSE Go(h, "write") /\ job' = [job EXCEPT ![h].todo = left]
  /\ UNCHANGED <<frames, posts, saved, batches, occupancy, history, assigned, lastSeen>>

\* append_history, one entry per event and student; then the change is published.
AppendHistory(h) ==
  LET moved == job[h].moved IN
  /\ pc[h] = "history"
  /\ history' = history \cup
       (IF \E x \in history : x.event = job[h].event /\ x.student = moved.student THEN {}
        ELSE {[event |-> job[h].event, student |-> moved.student,
               from |-> moved.from, to |-> moved.to]})
  /\ IF job[h].todo = {} THEN Finish(h)
     ELSE Go(h, "write") /\ job' = [job EXCEPT ![h].moved = None]
  /\ UNCHANGED <<frames, posts, saved, batches, occupancy, states, assigned, lastSeen>>

-----------------------------------------------------------------------------
(* Failures and the administrator.                                         *)

\* A repository call fails: before the event is stored, and between the insert and
\* the mapping, the request fails; later the exception is logged and swallowed.
Fail(h) ==
  /\ MayFail
  /\ pc[h] # "idle"
  /\ Finish(h)
  /\ UNCHANGED <<frames, posts, storeVars, assigned, lastSeen>>

\* The process restarts: the handlers and the memory of the seats are gone.
Restart ==
  /\ MayFail
  /\ pc' = [h \in Handlers |-> "idle"]
  /\ job' = [h \in Handlers |-> NoJob]
  /\ lastSeen' = [k \in Cameras \X Seats |-> None]
  /\ UNCHANGED <<frames, posts, storeVars, assigned>>

\* assign_student, unassign: a student moves to a seat, whose former student is
\* left without one, or loses the seat.
Reassign ==
  /\ MayReassign
  /\ \E s \in Students, seat \in Seats \cup {None} :
       /\ seat # assigned[s]
       /\ assigned' = [x \in Students |-> IF x = s THEN seat
                                          ELSE IF assigned[x] = seat THEN None ELSE assigned[x]]
  /\ UNCHANGED <<frames, posts, storeVars, lastSeen, pc, job>>

-----------------------------------------------------------------------------
Init ==
  /\ frames = [e \in Events |-> None]
  /\ posts = 0
  /\ saved = {} /\ batches = {} /\ history = {}
  /\ occupancy = [seat \in Seats |-> [state |-> "UNKNOWN", at |-> None]]
  /\ states = [s \in Students |-> None]
  /\ assigned \in [Students -> Seats \cup {None}]
  /\ \A s, t \in Students : assigned[s] = assigned[t] /\ assigned[s] # None => s = t
  /\ lastSeen = [k \in Cameras \X Seats |-> None]
  /\ pc = [h \in Handlers |-> "idle"]
  /\ job = [h \in Handlers |-> NoJob]

Handle(h) ==
  \/ \E e \in Events : Receive(h, e)
  \/ Save(h)
  \/ MapSeats(h)
  \/ Remember(h)
  \/ RecordBatch(h)
  \/ ReadAssignments(h)
  \/ ReadStates(h)
  \/ WriteState(h)
  \/ AppendHistory(h)
  \/ Fail(h)

Next == (\E h \in Handlers : Handle(h)) \/ Restart \/ Reassign

Spec == Init /\ [][Next]_vars

-----------------------------------------------------------------------------
(* Properties.                                                             *)

Moves == [student : Students, from : StudentStates, to : StudentStates]
Jobs ==
  [event : Events \cup {None}, fresh : BOOLEAN, held : SUBSET Seats,
   seats : [Students -> Seats \cup {None}], before : [Students -> Records \cup {None}],
   todo : SUBSET Students, moved : Moves \cup {None}]
Steps == {"idle", "save", "map", "remember", "record", "read", "previous", "write", "history"}

\* Every variable stays within its type.
TypeOK ==
  /\ frames \in [Events -> Frames \cup {None}]
  /\ posts \in 0..MaxPosts
  /\ saved \in SUBSET Events
  /\ batches \in SUBSET Events
  /\ occupancy \in [Seats -> [state : SeatStates, at : Times \cup {None}]]
  /\ states \in [Students -> Records \cup {None}]
  /\ history \in SUBSET [event : Events, student : Students,
                         from : StudentStates, to : StudentStates]
  /\ assigned \in [Students -> Seats \cup {None}]
  /\ lastSeen \in [Cameras \X Seats -> Times \cup {None}]
  /\ pc \in [Handlers -> Steps]
  /\ job \in [Handlers -> Jobs]

Entries(s, x) == Cardinality({move \in history : move.student = s /\ move.to = x})
Departures(s, x) == Cardinality({move \in history : move.student = s /\ move.from = x})

Saw(e, seat, sight) == seat \in Roi[frames[e].camera] /\ frames[e].sights[seat] = sight

\* A student is said to sit somewhere only on the strength of a stored frame that
\* identified that very student on that seat, at most IdentityHold before the
\* judgement, however the handlers interleave, fail and are retried.
IdentityHasSource ==
  \A s \in Students :
    states[s] # None /\ states[s].state \in {"PRESENT", "WRONG_SEAT"} =>
      \E e \in saved :
        /\ frames[e].at = states[s].identifiedAt
        /\ states[s].at - frames[e].at \in 0..IdentityHold
        /\ Saw(e, states[s].seat, s)

\* Absence is judged by a frame that saw the assigned seat empty, and dates from a
\* stored frame at least AbsentGrace earlier that saw a seat empty.
AbsentSawAnEmptySeat ==
  \A s \in Students :
    states[s] # None /\ states[s].state = "ABSENT" =>
      /\ Saw(states[s].event, states[s].assigned, "nobody")
      /\ \E e \in saved :
           /\ frames[e].at = states[s].vacantSince
           /\ states[s].at - frames[e].at >= AbsentGrace
           /\ \E seat \in Seats : Saw(e, seat, "nobody")

\* A seat counts as occupied only when a stored frame saw somebody there for
\* certain, not longer than OccupancyHold before the frame that says so: a held
\* seat does not keep itself occupied and a weak detection does not hold it.
OccupiedHasSource ==
  \A seat \in Seats :
    occupancy[seat].state = "OCCUPIED" =>
      \E e \in saved :
        /\ seat \in Roi[frames[e].camera] /\ Strong(frames[e].sights[seat])
        /\ frames[e].at >= occupancy[seat].at - OccupancyHold

\* Only a handler that read a student's state before another one replaced it can
\* put an older judgement in the place of a newer one.
OnlyStaleReadsGoBack ==
  [][\A s \in Students :
       states[s] # None /\ states'[s].at < states[s].at =>
         \E h \in Handlers : pc[h] = "write" /\ job[h].before[s] # states[s]]_vars

\* When one handler at a time runs to its end, the history of a student is a chain
\* that leads from UNKNOWN to the state on record: each state is entered as often
\* as it is left, save the two ends.
HistoryChains ==
  \A s \in Students, x \in StudentStates :
    (\A h \in Handlers : pc[h] # "history") =>
      Entries(s, x) + (IF x = "UNKNOWN" THEN 1 ELSE 0)
        = Departures(s, x) + (IF x = StateOf(states[s]) THEN 1 ELSE 0)

=============================================================================
