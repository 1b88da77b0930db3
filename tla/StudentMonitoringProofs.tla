------------------------ MODULE StudentMonitoringProofs -------------------------
(***************************************************************************)
(* That what is said of students and seats goes back to what stored frames *)
(* saw, for any number of handlers, however they interleave, fail and are  *)
(* retried, and that only a stale read turns a judgement back.             *)
(***************************************************************************)
EXTENDS StudentMonitoring, FiniteSetTheorems, TLAPS

-----------------------------------------------------------------------------
(* The invariant.                                                          *)

\* A record goes back to stored frames: where it says the student sits, since when it
\* says the seat is empty, and what makes it say that the student is absent.
Sourced(r, s) ==
  /\ r.state \in {"PRESENT", "WRONG_SEAT"} =>
       \E e \in saved : /\ frames[e].at = r.identifiedAt
                        /\ r.at - frames[e].at \in 0..IdentityHold
                        /\ Saw(e, r.seat, s)
  /\ r.vacantSince # None =>
       \E e \in saved : /\ frames[e].at = r.vacantSince
                        /\ \E seat \in Seats : Saw(e, seat, "nobody")
  /\ r.state = "ABSENT" =>
       /\ r.event \in saved /\ Saw(r.event, r.assigned, "nobody")
       /\ r.vacantSince # None /\ r.at - r.vacantSince >= AbsentGrace

\* A stored frame saw somebody on the seat for certain, at or after the time.
SeatSource(seat, at) ==
  \E e \in saved : /\ seat \in Roi[frames[e].camera] /\ Strong(frames[e].sights[seat])
                   /\ frames[e].at >= at

\* What a handler works with.
JobInv(p, j) ==
  /\ p # "idle" => j.event \in Events /\ frames[j.event] \in Frames
  /\ p \notin {"idle", "save"} => j.event \in saved
  /\ \A s \in Students : j.before[s] # None => Sourced(j.before[s], s)
  /\ \A s \in j.todo : j.seats[s] \in Seats
  /\ p = "history" => j.moved \in Moves
  /\ p # "idle" =>
       \A seat \in j.held : SeatSource(seat, frames[j.event].at - OccupancyHold)

SavedInv == \A e \in saved : frames[e] \in Frames
StatesInv == \A s \in Students : states[s] # None => Sourced(states[s], s)
SeenInv ==
  \A k \in Cameras \X Seats : lastSeen[k] # None => SeatSource(k[2], lastSeen[k])
HandlersInv == \A h \in Handlers : JobInv(pc[h], job[h])

IInv == TypeOK /\ SavedInv /\ StatesInv /\ SeenInv /\ OccupiedHasSource /\ HandlersInv

-----------------------------------------------------------------------------
(* Frames and judgements.                                                  *)

LEMMA FrameType ==
  ASSUME NEW frame \in Frames
  PROVE  /\ frame.camera \in Cameras /\ frame.at \in Times /\ frame.at \in Nat
         /\ frame.sights \in [Roi[frame.camera] -> Sights] /\ Roi[frame.camera] \subseteq Seats
<1>1. PICK c \in Cameras :
        frame \in [camera : {c}, at : Times, sights : [Roi[c] -> Sights], outside : SUBSET Students]
  BY DEF Frames
<1> QED BY <1>1, MonitoringAssumption

\* The state of each seat of a frame.
LEMMA SeatStateOf ==
  ASSUME NEW frame \in Frames, NEW held, NEW seat \in Roi[frame.camera]
  PROVE  /\ SeatState(frame, held)[seat] \in SeatStates
         /\ SeatState(frame, held)[seat] = "OCCUPIED" =>
              Strong(frame.sights[seat]) \/ seat \in held
         /\ SeatState(frame, held)[seat] = "VACANT" => frame.sights[seat] = "nobody"
<1>1. DOMAIN frame.sights = Roi[frame.camera] BY FrameType
<1> QED BY <1>1 DEF SeatState, SeatStates, Strong

\* A judgement is a record of the frame's time and event.
LEMMA DecideType ==
  ASSUME NEW s \in Students, NEW seat \in Seats, NEW e \in Events, NEW frame \in Frames,
         NEW held, NEW before \in Records \cup {None}
  PROVE  /\ Decide(s, seat, e, frame, held, before) \in Records
         /\ Decide(s, seat, e, frame, held, before).at = frame.at
<1> DEFINE seated == SeatsIdentifying(frame, s)
           current == CHOOSE x \in seated : TRUE
           seatState == SeatState(frame, held)
           since == VacantSince(before, frame.at)
<1>1. /\ frame.at \in Times /\ frame.sights \in [Roi[frame.camera] -> Sights]
      /\ Roi[frame.camera] \subseteq Seats
  BY FrameType
<1>2. seated # {} => current \in Seats BY <1>1 DEF SeatsIdentifying
<1>3. since \in Times BY <1>1 DEF VacantSince, Records
<1>4. IdentifiedAt(before) \in Times \cup {None} BY DEF IdentifiedAt, Records
<1>5. HoldsIdentity(before, seatState, frame.at) =>
        /\ before.state \in StudentStates /\ before.seat \in Seats \cup {None}
        /\ before.identifiedAt \in Times \cup {None}
  BY DEF HoldsIdentity, Records
<1> HIDE DEF seated, current, seatState, since
<1>6. ASSUME NEW state \in StudentStates, NEW x \in Seats \cup {None},
             NEW i \in Times \cup {None}, NEW v \in Times \cup {None}
      PROVE  LET r == [state |-> state, seat |-> x, assigned |-> seat, at |-> frame.at, event |-> e,
                       identifiedAt |-> i, vacantSince |-> v]
             IN r \in Records /\ r.at = frame.at
  BY <1>1, <1>6 DEF Records
<1>7. CASE seated # {}
  BY <1>1, <1>2, <1>6, <1>7 DEF Decide, seated, current, StudentStates
<1>8. CASE seated = {} /\ s \in Outside(frame)
  BY <1>1, <1>6, <1>8 DEF Decide, seated, StudentStates
<1>9. CASE seated = {} /\ s \notin Outside(frame) /\ HoldsIdentity(before, seatState, frame.at)
  BY <1>5, <1>6, <1>9 DEF Decide, seated, seatState, StudentStates
<1>10. CASE seated = {} /\ s \notin Outside(frame) /\ ~HoldsIdentity(before, seatState, frame.at)
  BY <1>3, <1>4, <1>6, <1>10 DEF Decide, seated, seatState, since, StudentStates
<1> QED BY <1>7, <1>8, <1>9, <1>10

\* A judgement by a stored frame goes back to stored frames when the one before does.
LEMMA DecideSourced ==
  ASSUME NEW s \in Students, NEW seat \in Seats, NEW e \in saved, NEW frame \in Frames,
         NEW held, NEW before \in Records \cup {None},
         saved \subseteq Events, SavedInv, frames[e] = frame,
         before # None => Sourced(before, s), ~Outdated(before, frame)
  PROVE  Sourced(Decide(s, seat, e, frame, held, before), s)
<1> DEFINE seated == SeatsIdentifying(frame, s)
           current == CHOOSE x \in seated : TRUE
           seatState == SeatState(frame, held)
           since == VacantSince(before, frame.at)
           r == Decide(s, seat, e, frame, held, before)
<1>1. /\ frame.at \in Times /\ frame.at \in Nat /\ frame.sights \in [Roi[frame.camera] -> Sights]
      /\ Roi[frame.camera] \subseteq Seats
  BY FrameType
<1>2. IdentityHold \in Nat /\ AbsentGrace \in Nat /\ None \notin Times
  <2>1. Times \subseteq Nat /\ Nat \subseteq Int BY MonitoringAssumption
  <2>2. IdentityHold \in Nat /\ AbsentGrace \in Nat BY RulesAssumption
  <2>3. None \notin Int BY RulesAssumption
  <2> QED BY <2>1, <2>2, <2>3
<1>3. before # None =>
        /\ before \in Records /\ before.at \in Nat /\ before.at <= frame.at
        /\ before.identifiedAt \in Nat \cup {None} /\ before.vacantSince \in Times \cup {None}
  <2> SUFFICES ASSUME before # None
               PROVE  /\ before \in Records /\ before.at \in Nat /\ before.at <= frame.at
                      /\ before.identifiedAt \in Nat \cup {None}
                      /\ before.vacantSince \in Times \cup {None}
    OBVIOUS
  <2>1. before \in Records OBVIOUS
  <2>2. /\ before.at \in Times /\ before.identifiedAt \in Times \cup {None}
        /\ before.vacantSince \in Times \cup {None}
    BY <2>1 DEF Records
  <2>3. Times \subseteq Nat BY MonitoringAssumption
  <2>4. before.at \in Nat /\ before.identifiedAt \in Nat \cup {None} BY <2>2, <2>3
  <2>5. ~(before.at > frame.at) BY DEF Outdated
  <2>6. before.at <= frame.at BY <1>1, <2>4, <2>5
  <2> QED BY <2>1, <2>2, <2>4, <2>6
<1>4. CASE seated # {}
  <2>1. current \in seated BY <1>4
  <2>2. current \in Roi[frame.camera] /\ frame.sights[current] = s
    BY <1>1, <2>1 DEF seated, SeatsIdentifying
  <2> HIDE DEF seated
  <2>3. r = [state |-> IF current = seat THEN "PRESENT" ELSE "WRONG_SEAT", seat |-> current,
             assigned |-> seat, at |-> frame.at, event |-> e, identifiedAt |-> frame.at,
             vacantSince |-> None]
    BY <1>4 DEF Decide, seated
  <2> HIDE DEF current, r
  <2>4. /\ r.state # "ABSENT" /\ r.vacantSince = None /\ r.identifiedAt = frame.at
        /\ r.at = frame.at /\ r.seat = current
    BY <2>3
  <2>5. frames[e].at = r.identifiedAt /\ r.at - frames[e].at \in 0..IdentityHold /\ Saw(e, r.seat, s)
    BY <1>1, <1>2, <2>2, <2>4 DEF Saw
  <2> QED BY <2>4, <2>5 DEF Sourced, r
<1>5. CASE seated = {} /\ s \in Outside(frame)
  <2>1. r.state = "IN_CLASSROOM" /\ r.vacantSince = None BY <1>5 DEF Decide, seated
  <2> QED BY <2>1 DEF Sourced
<1>6. CASE seated = {} /\ s \notin Outside(frame) /\ HoldsIdentity(before, seatState, frame.at)
  <2>1. /\ r.state = before.state /\ r.vacantSince = None /\ r.identifiedAt = before.identifiedAt
        /\ r.at = frame.at /\ r.seat = before.seat
    BY <1>6 DEF Decide, seated, seatState
  <2>2. /\ before # None /\ before.state \in {"PRESENT", "WRONG_SEAT"}
        /\ frame.at - before.identifiedAt <= IdentityHold
    BY <1>6 DEF HoldsIdentity
  <2>3. PICK x \in saved : /\ frames[x].at = before.identifiedAt
                           /\ before.at - frames[x].at \in 0..IdentityHold
                           /\ Saw(x, before.seat, s)
    BY <2>2 DEF Sourced
  <2>4. frames[x].at \in Nat BY FrameType DEF SavedInv
  <2> HIDE DEF r
  <2>5. r.at - frames[x].at \in 0..IdentityHold BY <1>1, <1>2, <1>3, <2>1, <2>2, <2>3, <2>4
  <2>6. frames[x].at = r.identifiedAt /\ Saw(x, r.seat, s) BY <2>1, <2>3
  <2>7. r.state # "ABSENT" BY <2>1, <2>2
  <2> QED BY <2>1, <2>5, <2>6, <2>7 DEF Sourced, r
<1>7. CASE /\ seated = {} /\ s \notin Outside(frame) /\ ~HoldsIdentity(before, seatState, frame.at)
           /\ ~SeenAs(seatState, seat, "VACANT")
  <2>1. r.state = "UNKNOWN" /\ r.vacantSince = None BY <1>7 DEF Decide, seated, seatState
  <2> QED BY <2>1 DEF Sourced
<1>8. CASE /\ seated = {} /\ s \notin Outside(frame) /\ ~HoldsIdentity(before, seatState, frame.at)
           /\ SeenAs(seatState, seat, "VACANT")
  <2>1. /\ r.state = (IF frame.at - since >= AbsentGrace THEN "ABSENT" ELSE "UNKNOWN")
        /\ r.vacantSince = since /\ r.at = frame.at /\ r.event = e /\ r.assigned = seat
    BY <1>8 DEF Decide, seated, seatState, since
  <2>2. Saw(e, seat, "nobody")
    <3>1. seat \in Roi[frame.camera] /\ seatState[seat] = "VACANT"
      BY <1>1, <1>8 DEF SeenAs, SeatState
    <3> QED BY <3>1, SeatStateOf DEF Saw, seatState
  <2>3. \E x \in saved : frames[x].at = since /\ \E y \in Seats : Saw(x, y, "nobody")
    <3>1. CASE before # None /\ before.vacantSince # None
      BY <3>1 DEF Sourced, since, VacantSince
    <3>2. CASE ~(before # None /\ before.vacantSince # None)
      <4>1. since = frame.at BY <3>2 DEF since, VacantSince
      <4> QED BY <2>2, <4>1
    <3> QED BY <3>1, <3>2
  <2>4. since \in Times BY <1>1, <1>3 DEF since, VacantSince
  <2>5. since # None BY <1>2, <2>4
  <2> HIDE DEF r, since
  <2> QED BY <2>1, <2>2, <2>3, <2>5 DEF Sourced, r
<1> QED BY <1>4, <1>5, <1>6, <1>7, <1>8

-----------------------------------------------------------------------------
(* What a step keeps.                                                      *)

\* Frames do not change once they are posted, and events stay stored.
Keeps ==
  /\ \A e \in Events : frames[e] \in Frames => frames'[e] = frames[e]
  /\ saved \subseteq saved'

LEMMA SourcesStay ==
  ASSUME TypeOK, SavedInv, Keeps
  PROVE  /\ \A e \in saved : e \in saved' /\ frames'[e] = frames[e]
         /\ \A r \in Records : \A s \in Students : Sourced(r, s) => Sourced(r, s)'
         /\ \A seat, at : SeatSource(seat, at) => SeatSource(seat, at)'
<1>1. \A e \in saved : e \in saved' /\ frames'[e] = frames[e] BY DEF TypeOK, SavedInv, Keeps
<1>2. \A e \in saved : \A seat, sight : Saw(e, seat, sight) => Saw(e, seat, sight)'
  BY <1>1 DEF Saw
<1>3. ASSUME NEW r \in Records, NEW s \in Students, Sourced(r, s) PROVE Sourced(r, s)'
  BY <1>1, <1>2, <1>3 DEF Sourced, Saw
<1>4. ASSUME NEW seat, NEW at, SeatSource(seat, at) PROVE SeatSource(seat, at)'
  BY <1>1, <1>4 DEF SeatSource
<1> QED BY <1>1, <1>3, <1>4

LEMMA JobStays ==
  ASSUME TypeOK, SavedInv, Keeps, NEW p \in Steps, NEW j \in Jobs, JobInv(p, j)
  PROVE  JobInv(p, j)'
<1>1. p # "idle" => frames'[j.event] = frames[j.event] BY DEF JobInv, Keeps
<1>2. \A s \in Students : j.before[s] # None => Sourced(j.before[s], s)'
  <2>1. \A s \in Students : j.before[s] \in Records \cup {None} BY DEF Jobs
  <2> QED BY <2>1, SourcesStay DEF JobInv
<1>3. p # "idle" =>
        \A seat \in j.held : SeatSource(seat, frames[j.event].at - OccupancyHold)'
  <2> SUFFICES ASSUME p # "idle", NEW seat \in j.held
               PROVE  SeatSource(seat, frames[j.event].at - OccupancyHold)'
    OBVIOUS
  <2>3. PICK at : at = frames[j.event].at - OccupancyHold OBVIOUS
  <2>4. SeatSource(seat, at) BY <2>3 DEF JobInv
  <2>5. SeatSource(seat, at)' BY <2>4, SourcesStay
  <2> QED BY <1>1, <2>3, <2>5
<1> QED BY <1>1, <1>2, <1>3 DEF JobInv, Keeps

\* A step of one handler: the others, and what is in the store, stay sourced.
LEMMA HandlerStep ==
  ASSUME IInv, NEW h \in Handlers, NEW p \in Steps, NEW j \in Jobs,
         pc' = [pc EXCEPT ![h] = p], job' = [job EXCEPT ![h] = j],
         Keeps, SavedInv', JobInv(p, j)'
  PROVE  /\ HandlersInv'
         /\ pc' \in [Handlers -> Steps] /\ job' \in [Handlers -> Jobs]
<1>1. pc \in [Handlers -> Steps] /\ job \in [Handlers -> Jobs] BY DEF IInv, TypeOK
<1>2. pc' \in [Handlers -> Steps] /\ job' \in [Handlers -> Jobs] BY <1>1
<1>3. ASSUME NEW g \in Handlers PROVE JobInv(pc[g], job[g])'
  <2>1. PICK q \in Steps, k \in Jobs : q = pc[g] /\ k = job[g] BY <1>1
  <2>2. JobInv(q, k)' BY <2>1, JobStays DEF IInv, HandlersInv
  <2>3. CASE g = h
    <3>1. pc'[g] = p /\ job'[g] = j BY <1>1, <2>3
    <3> QED BY <3>1
  <2>4. CASE g # h
    <3>1. pc'[g] = q /\ job'[g] = k BY <1>1, <2>1, <2>4
    <3> QED BY <2>2, <3>1
  <2> QED BY <2>3, <2>4
<1> QED BY <1>2, <1>3 DEF HandlersInv

\* What a step does not touch stays sourced.
LEMMA StoreStays ==
  ASSUME IInv, Keeps
  PROVE  /\ states' = states => StatesInv'
         /\ lastSeen' = lastSeen => SeenInv'
         /\ occupancy' = occupancy => OccupiedHasSource'
<1>0. TypeOK /\ SavedInv BY DEF IInv
<1>1. ASSUME states' = states PROVE StatesInv'
  <2> SUFFICES ASSUME NEW s \in Students, states[s] # None PROVE Sourced(states[s], s)'
    BY <1>1 DEF StatesInv
  <2>1. PICK r \in Records : r = states[s] BY <1>0 DEF TypeOK
  <2>2. Sourced(r, s) BY <2>1 DEF IInv, StatesInv
  <2>3. Sourced(r, s)' BY <1>0, <2>2, SourcesStay
  <2> QED BY <1>1, <2>1, <2>3
<1>2. ASSUME lastSeen' = lastSeen PROVE SeenInv'
  <2> SUFFICES ASSUME NEW k \in Cameras \X Seats, lastSeen[k] # None
               PROVE  SeatSource(k[2], lastSeen[k])'
    BY <1>2 DEF SeenInv
  <2>1. PICK at : at = lastSeen[k] OBVIOUS
  <2>2. SeatSource(k[2], at) BY <2>1 DEF IInv, SeenInv
  <2>3. SeatSource(k[2], at)' BY <1>0, <2>2, SourcesStay
  <2> QED BY <1>2, <2>1, <2>3
<1>3. ASSUME occupancy' = occupancy PROVE OccupiedHasSource'
  <2>1. \A e \in saved : e \in saved' /\ frames'[e] = frames[e] BY <1>0, SourcesStay
  <2> QED BY <1>3, <2>1 DEF IInv, OccupiedHasSource
<1> QED BY <1>1, <1>2, <1>3

LEMMA NoJobInv == NoJob \in Jobs /\ JobInv("idle", NoJob) /\ JobInv("idle", NoJob)'
BY DEF NoJob, Jobs, JobInv

\* A step of one handler that leaves frames and events alone.
LEMMA QuietStep ==
  ASSUME IInv, NEW h \in Handlers, UNCHANGED <<frames, saved>>,
         \/ Finish(h)
         \/ \E p \in Steps, j \in Jobs :
              JobInv(p, j) /\ pc' = [pc EXCEPT ![h] = p] /\ job' = [job EXCEPT ![h] = j]
  PROVE  /\ Keeps /\ SavedInv' /\ HandlersInv'
         /\ pc' \in [Handlers -> Steps] /\ job' \in [Handlers -> Jobs]
<1>1. Keeps /\ SavedInv' BY DEF IInv, SavedInv, Keeps
<1>2. PICK p \in Steps, j \in Jobs :
        JobInv(p, j) /\ pc' = [pc EXCEPT ![h] = p] /\ job' = [job EXCEPT ![h] = j]
  BY NoJobInv DEF Finish, Go, Steps
<1>3. JobInv(p, j)' BY <1>1, <1>2, JobStays DEF IInv
<1> QED BY <1>1, <1>2, <1>3, HandlerStep

\* The job of a handler at work.
LEMMA JobFacts ==
  ASSUME IInv, NEW h \in Handlers, pc[h] # "idle"
  PROVE  /\ job[h] \in Jobs /\ job[h].event \in Events
         /\ Frame(h) \in Frames /\ JobInv(pc[h], job[h])
         /\ pc[h] # "save" => job[h].event \in saved
         /\ job = [job EXCEPT ![h] = job[h]]
<1>0. pc[h] \in Steps BY DEF IInv, TypeOK
<1>1. job \in [Handlers -> Jobs] /\ JobInv(pc[h], job[h]) BY DEF IInv, TypeOK, HandlersInv
<1> QED BY <1>1 DEF JobInv, Frame

-----------------------------------------------------------------------------
(* receive_inference_event.                                                *)

LEMMA ReceiveStep == ASSUME IInv, NEW h \in Handlers, NEW e \in Events, Receive(h, e) PROVE IInv'
<1>0. TypeOK /\ SavedInv BY DEF IInv
<1>1. PICK j \in Jobs : j = [NoJob EXCEPT !.event = e, !.fresh = e \notin saved]
  BY NoJobInv DEF Jobs
<1>2. /\ pc' = [pc EXCEPT ![h] = "save"] /\ job' = [job EXCEPT ![h] = j]
      /\ posts < MaxPosts /\ posts' = posts + 1
      /\ UNCHANGED <<saved, batches, occupancy, states, history, assigned, lastSeen>>
  BY <1>1 DEF Receive, Go, storeVars
<1>3. /\ frames' \in [Events -> Frames \cup {None}] /\ frames'[e] \in Frames
      /\ \A x \in Events : frames[x] \in Frames => frames'[x] = frames[x]
  <2>1. CASE frames[e] # None /\ UNCHANGED frames BY <1>0, <2>1 DEF TypeOK
  <2>2. CASE frames[e] = None /\ \E frame \in Frames : frames' = [frames EXCEPT ![e] = frame]
    BY <1>0, <2>2, MonitoringAssumption DEF TypeOK
  <2> QED BY <2>1, <2>2 DEF Receive
<1>4. Keeps BY <1>2, <1>3 DEF Keeps
<1>5. SavedInv' BY <1>0, <1>2, <1>3 DEF SavedInv, TypeOK
<1>6. j.event = e /\ j.before = [s \in Students |-> None] /\ j.todo = {} /\ j.held = {}
  BY <1>1 DEF NoJob
<1>7. JobInv("save", j)' BY <1>3, <1>6 DEF JobInv
<1>8. HandlersInv' /\ pc' \in [Handlers -> Steps] /\ job' \in [Handlers -> Jobs]
  <2>1. "save" \in Steps BY DEF Steps
  <2> QED BY <1>2, <1>4, <1>5, <1>7, <2>1, HandlerStep
<1>9. TypeOK'
  <2>1. posts' \in 0..MaxPosts BY <1>0, <1>2, MonitoringAssumption DEF TypeOK
  <2> QED BY <1>0, <1>2, <1>3, <1>8, <2>1 DEF TypeOK
<1> QED BY <1>2, <1>4, <1>5, <1>8, <1>9, StoreStays DEF IInv

LEMMA SaveStep == ASSUME IInv, NEW h \in Handlers, Save(h) PROVE IInv'
<1>0. TypeOK /\ SavedInv BY DEF IInv
<1>1. /\ pc[h] = "save" /\ saved' = saved \cup {job[h].event}
      /\ UNCHANGED <<frames, posts, batches, occupancy, states, history, assigned, lastSeen>>
  BY DEF Save
<1>2. PICK j \in Jobs : j = job[h] BY <1>1, JobFacts
<1>3. /\ j.event \in Events /\ frames[j.event] \in Frames /\ JobInv("save", j)
      /\ job = [job EXCEPT ![h] = j]
  BY <1>1, <1>2, JobFacts DEF Frame
<1>4. Keeps BY <1>1 DEF Keeps
<1>5. SavedInv' BY <1>0, <1>1, <1>2, <1>3 DEF SavedInv
<1>6. HandlersInv' /\ pc' \in [Handlers -> Steps] /\ job' \in [Handlers -> Jobs]
  <2>0. "map" \in Steps /\ "save" \in Steps /\ "idle" \in Steps BY DEF Steps
  <2>1. CASE Finish(h) BY <1>4, <1>5, <2>0, <2>1, NoJobInv, HandlerStep DEF Finish, Go
  <2>2. CASE Go(h, "map") /\ UNCHANGED job
    <3>1. JobInv("save", j)' BY <1>0, <1>3, <1>4, <2>0, JobStays
    <3>2. JobInv("map", j)' BY <1>1, <1>2, <3>1 DEF JobInv
    <3>3. pc' = [pc EXCEPT ![h] = "map"] /\ job' = [job EXCEPT ![h] = j]
      BY <1>3, <2>2 DEF Go
    <3> QED BY <1>4, <1>5, <2>0, <3>2, <3>3, HandlerStep
  <2> QED BY <2>1, <2>2 DEF Save
<1>7. TypeOK' BY <1>0, <1>1, <1>2, <1>3, <1>6 DEF TypeOK
<1> QED BY <1>1, <1>4, <1>5, <1>6, <1>7, StoreStays DEF IInv

\* A seat is held for what was seen of it.
LEMMA HeldAreSourced ==
  ASSUME IInv, NEW frame \in Frames, NEW seat \in HeldSeats(frame)
  PROVE  seat \in Seats /\ SeatSource(seat, frame.at - OccupancyHold)
<1>0. TypeOK /\ SeenInv /\ SavedInv BY DEF IInv
<1>1. /\ seat \in Roi[frame.camera] /\ lastSeen[<<frame.camera, seat>>] # None
      /\ lastSeen[<<frame.camera, seat>>] >= frame.at - OccupancyHold
  BY DEF HeldSeats
<1>2. seat \in Seats /\ <<frame.camera, seat>> \in Cameras \X Seats BY <1>1, FrameType
<1>3. PICK t \in Times : t = lastSeen[<<frame.camera, seat>>] BY <1>0, <1>1, <1>2 DEF TypeOK
<1>4. SeatSource(seat, t) BY <1>0, <1>1, <1>2, <1>3 DEF SeenInv
<1>5. PICK e \in saved : /\ seat \in Roi[frames[e].camera] /\ Strong(frames[e].sights[seat])
                         /\ frames[e].at >= t
  BY <1>4 DEF SeatSource
<1>6. frames[e].at \in Nat /\ t \in Nat /\ frame.at \in Nat /\ OccupancyHold \in Nat
  <2>1. frames[e] \in Frames BY <1>0 DEF SavedInv
  <2> QED BY <2>1, FrameType, MonitoringAssumption
<1>7. frames[e].at >= frame.at - OccupancyHold BY <1>1, <1>3, <1>5, <1>6
<1> QED BY <1>2, <1>5, <1>7 DEF SeatSource

LEMMA MapSeatsStep == ASSUME IInv, NEW h \in Handlers, MapSeats(h) PROVE IInv'
<1>0. TypeOK BY DEF IInv
<1>1. /\ pc[h] = "map" /\ pc' = [pc EXCEPT ![h] = "remember"]
      /\ job' = [job EXCEPT ![h] = [job[h] EXCEPT !.held = HeldSeats(Frame(h))]]
      /\ UNCHANGED <<frames, posts, saved, batches, occupancy, states, history, assigned, lastSeen>>
  BY <1>0 DEF MapSeats, Go, storeVars, TypeOK
<1>2. job[h] \in Jobs /\ job[h].event \in saved /\ Frame(h) \in Frames /\ JobInv("map", job[h])
  BY <1>1, JobFacts
<1>3. PICK held \in SUBSET Seats : held = HeldSeats(Frame(h)) BY <1>2, HeldAreSourced
<1>4. PICK j \in Jobs : j = [job[h] EXCEPT !.held = held] BY <1>2 DEF Jobs
<1>5. /\ j.event = job[h].event /\ j.before = job[h].before /\ j.todo = job[h].todo
      /\ j.held = held /\ j.seats = job[h].seats
  BY <1>2, <1>4 DEF Jobs
<1>6. \A seat \in j.held : SeatSource(seat, frames[j.event].at - OccupancyHold)
  BY <1>2, <1>3, <1>5, HeldAreSourced DEF Frame
<1>7. JobInv("remember", j) BY <1>2, <1>5, <1>6 DEF JobInv
<1>8. "remember" \in Steps BY DEF Steps
<1>9. /\ Keeps /\ SavedInv' /\ HandlersInv'
      /\ pc' \in [Handlers -> Steps] /\ job' \in [Handlers -> Jobs]
  BY <1>1, <1>3, <1>4, <1>7, <1>8, QuietStep
<1>10. TypeOK' BY <1>0, <1>1, <1>9 DEF TypeOK
<1> QED BY <1>1, <1>9, <1>10, StoreStays DEF IInv

\* A handler that goes on with what it has.
LEMMA GoesOn ==
  ASSUME IInv, NEW h \in Handlers, NEW p \in Steps, pc[h] \notin {"idle", "save"},
         p # "history", UNCHANGED <<frames, saved, job>>, Go(h, p)
  PROVE  /\ Keeps /\ SavedInv' /\ HandlersInv'
         /\ pc' \in [Handlers -> Steps] /\ job' \in [Handlers -> Jobs]
<1>1. PICK j \in Jobs : j = job[h] BY JobFacts
<1>2. JobInv(pc[h], j) /\ job = [job EXCEPT ![h] = j] BY <1>1, JobFacts
<1>3. JobInv(p, j) BY <1>2 DEF JobInv
<1>4. pc' = [pc EXCEPT ![h] = p] /\ job' = [job EXCEPT ![h] = j] BY <1>2 DEF Go
<1> QED BY <1>3, <1>4, QuietStep

LEMMA RememberStep == ASSUME IInv, NEW h \in Handlers, Remember(h) PROVE IInv'
<1>0. TypeOK /\ SeenInv BY DEF IInv
<1>1. /\ pc[h] = "remember" /\ Go(h, "record")
      /\ lastSeen' = LastSeenAfter(Frame(h), job[h].held)
      /\ UNCHANGED <<frames, posts, saved, batches, occupancy, states, history, assigned, job>>
  BY DEF Remember, storeVars
<1>2. PICK e \in saved, frame \in Frames : e = job[h].event /\ frame = frames[e] /\ frame = Frame(h)
  BY <1>1, JobFacts DEF Frame
<1>3. "record" \in Steps BY DEF Steps
<1>4. /\ Keeps /\ SavedInv' /\ HandlersInv'
      /\ pc' \in [Handlers -> Steps] /\ job' \in [Handlers -> Jobs]
  BY <1>1, <1>3, GoesOn
<1>5. \A k \in Cameras \X Seats :
        \/ lastSeen'[k] = lastSeen[k]
        \/ lastSeen'[k] = frame.at /\ k[2] \in Roi[frame.camera] /\ Strong(frame.sights[k[2]])
  BY <1>1, <1>2 DEF LastSeenAfter
<1>6. TypeOK'
  <2>1. lastSeen' = [k \in Cameras \X Seats |-> lastSeen'[k]] BY <1>1 DEF LastSeenAfter
  <2>2. \A k \in Cameras \X Seats : lastSeen'[k] \in Times \cup {None}
    BY <1>0, <1>5, FrameType DEF TypeOK
  <2>3. lastSeen' \in [Cameras \X Seats -> Times \cup {None}] BY <2>1, <2>2
  <2> QED BY <1>0, <1>1, <1>4, <2>3 DEF TypeOK
<1>7. SeenInv'
  <2> SUFFICES ASSUME NEW k \in Cameras \X Seats, lastSeen'[k] # None
               PROVE  SeatSource(k[2], lastSeen[k])'
    BY DEF SeenInv
  <2>1. CASE lastSeen'[k] = lastSeen[k]
    <3>1. SeatSource(k[2], lastSeen[k]) BY <1>0, <2>1 DEF SeenInv
    <3> QED BY <1>1, <2>1, <3>1 DEF SeatSource
  <2>2. CASE /\ lastSeen'[k] = frame.at /\ k[2] \in Roi[frame.camera]
             /\ Strong(frame.sights[k[2]])
    <3>1. frame.at \in Nat BY FrameType
    <3>2. frame.at >= frame.at BY <3>1
    <3>3. frames'[e] = frame /\ e \in saved' BY <1>1, <1>2
    <3> QED BY <2>2, <3>2, <3>3 DEF SeatSource
  <2> QED BY <1>5, <2>1, <2>2
<1> QED BY <1>1, <1>4, <1>6, <1>7, StoreStays DEF IInv

LEMMA RecordBatchStep == ASSUME IInv, NEW h \in Handlers, RecordBatch(h) PROVE IInv'
<1>0. TypeOK /\ OccupiedHasSource BY DEF IInv
<1>1. /\ pc[h] = "record"
      /\ UNCHANGED <<frames, posts, saved, states, history, assigned, lastSeen>>
      /\ batches' \in SUBSET (batches \cup {job[h].event})
      /\ (Go(h, "read") /\ UNCHANGED job) \/ Finish(h)
      /\ occupancy' = occupancy \/ occupancy' = OccupancyAfter(Frame(h), job[h].held)
  BY DEF RecordBatch
<1>2. PICK e \in saved, frame \in Frames : e = job[h].event /\ frame = frames[e] /\ frame = Frame(h)
  BY <1>1, JobFacts DEF Frame
<1>3. e \in Events /\ JobInv("record", job[h]) BY <1>1, <1>2, JobFacts
<1>4. /\ Keeps /\ SavedInv' /\ HandlersInv'
      /\ pc' \in [Handlers -> Steps] /\ job' \in [Handlers -> Jobs]
  <2>1. "read" \in Steps BY DEF Steps
  <2>2. CASE Go(h, "read") /\ UNCHANGED job BY <1>1, <2>1, <2>2, GoesOn
  <2>3. CASE Finish(h) BY <1>1, <2>3, QuietStep
  <2> QED BY <1>1, <2>2, <2>3
<1>5. CASE occupancy' = occupancy
  <2>1. TypeOK' BY <1>0, <1>1, <1>2, <1>3, <1>4, <1>5 DEF TypeOK
  <2> QED BY <1>1, <1>4, <1>5, <2>1, StoreStays DEF IInv
<1>6. CASE occupancy' = OccupancyAfter(Frame(h), job[h].held)
  <2>0. PICK held : held = job[h].held OBVIOUS
  <2>1. occupancy' = [seat \in Seats |->
          IF seat \in Roi[frame.camera] /\ (occupancy[seat].at = None \/ occupancy[seat].at <= frame.at)
          THEN [state |-> SeatState(frame, held)[seat], at |-> frame.at] ELSE occupancy[seat]]
    BY <1>2, <1>6, <2>0 DEF OccupancyAfter
  <2>2. ASSUME NEW seat \in Seats
        PROVE \/ occupancy'[seat] = occupancy[seat]
              \/ /\ seat \in Roi[frame.camera]
                 /\ occupancy'[seat].state = SeatState(frame, held)[seat]
                 /\ occupancy'[seat].at = frame.at
                 /\ occupancy'[seat] \in [state : SeatStates, at : Times \cup {None}]
    <3>1. seat \in Roi[frame.camera] => SeatState(frame, held)[seat] \in SeatStates
      BY SeatStateOf
    <3> QED BY <2>1, <3>1, FrameType
  <2>3. occupancy' \in [Seats -> [state : SeatStates, at : Times \cup {None}]]
    <3>1. \A seat \in Seats : occupancy'[seat] \in [state : SeatStates, at : Times \cup {None}]
      BY <1>0, <2>2 DEF TypeOK
    <3>2. occupancy' = [seat \in Seats |-> occupancy'[seat]] BY <2>1
    <3> QED BY <3>1, <3>2
  <2>4. TypeOK' BY <1>0, <1>1, <1>2, <1>3, <1>4, <2>3 DEF TypeOK
  <2>5. OccupiedHasSource'
    <3> SUFFICES ASSUME NEW seat \in Seats, occupancy'[seat].state = "OCCUPIED"
                 PROVE  \E x \in saved : /\ seat \in Roi[frames[x].camera]
                                         /\ Strong(frames[x].sights[seat])
                                         /\ frames[x].at >= occupancy'[seat].at - OccupancyHold
      BY <1>1 DEF OccupiedHasSource
    <3>1. CASE occupancy'[seat] = occupancy[seat] BY <1>0, <3>1 DEF OccupiedHasSource
    <3>2. CASE /\ seat \in Roi[frame.camera] /\ Strong(frame.sights[seat])
               /\ occupancy'[seat].at = frame.at
      <4>1. frame.at \in Nat /\ OccupancyHold \in Nat BY FrameType, MonitoringAssumption
      <4>2. frame.at >= frame.at - OccupancyHold BY <4>1
      <4> QED BY <1>2, <3>2, <4>2
    <3>3. CASE seat \in held /\ occupancy'[seat].at = frame.at
      <4>1. SeatSource(seat, frame.at - OccupancyHold) BY <1>2, <1>3, <2>0, <3>3 DEF JobInv
      <4> QED BY <3>3, <4>1 DEF SeatSource
    <3> QED BY <2>2, <3>1, <3>2, <3>3, SeatStateOf
  <2> QED BY <1>1, <1>4, <2>4, <2>5, StoreStays DEF IInv
<1> QED BY <1>1, <1>5, <1>6

-----------------------------------------------------------------------------
(* _evaluate_student_states.                                               *)

LEMMA ReadAssignmentsStep ==
  ASSUME IInv, NEW h \in Handlers, ReadAssignments(h) PROVE IInv'
<1>0. TypeOK BY DEF IInv
<1>1. /\ pc[h] = "read"
      /\ UNCHANGED <<frames, posts, saved, batches, occupancy, states, history, assigned, lastSeen>>
  BY DEF ReadAssignments, storeVars
<1>2. job[h] \in Jobs /\ JobInv("read", job[h]) BY <1>1, JobFacts
<1>3. /\ Keeps /\ SavedInv' /\ HandlersInv'
      /\ pc' \in [Handlers -> Steps] /\ job' \in [Handlers -> Jobs]
  <2>1. CASE Finish(h) BY <1>1, <2>1, QuietStep
  <2>2. CASE Go(h, "previous") /\ job' = [job EXCEPT ![h].seats = assigned, ![h].todo = Judged]
    <3>1. PICK seats \in [Students -> Seats \cup {None}], todo \in SUBSET Students :
            seats = assigned /\ todo = Judged
      BY <1>0 DEF TypeOK, Judged
    <3>2. PICK j \in Jobs : j = [job[h] EXCEPT !.seats = seats, !.todo = todo]
      BY <1>2 DEF Jobs
    <3>3. job' = [job EXCEPT ![h] = j] BY <1>0, <2>2, <3>1, <3>2 DEF TypeOK, Jobs
    <3>4. /\ j.event = job[h].event /\ j.before = job[h].before /\ j.held = job[h].held
          /\ j.seats = seats /\ j.todo = todo
      BY <1>2, <3>2 DEF Jobs
    <3>5. \A s \in todo : seats[s] \in Seats BY <3>1 DEF Judged
    <3>6. JobInv("previous", j) BY <1>2, <3>4, <3>5 DEF JobInv
    <3>7. "previous" \in Steps BY DEF Steps
    <3> QED BY <1>1, <2>2, <3>3, <3>6, <3>7, QuietStep DEF Go
  <2> QED BY <2>1, <2>2 DEF ReadAssignments
<1>4. TypeOK' BY <1>0, <1>1, <1>3 DEF TypeOK
<1> QED BY <1>1, <1>3, <1>4, StoreStays DEF IInv

LEMMA ReadStatesStep == ASSUME IInv, NEW h \in Handlers, ReadStates(h) PROVE IInv'
<1>0. TypeOK /\ StatesInv BY DEF IInv
<1>1. /\ pc[h] = "previous" /\ Go(h, "write") /\ job' = [job EXCEPT ![h].before = states]
      /\ UNCHANGED <<frames, posts, saved, batches, occupancy, states, history, assigned, lastSeen>>
  BY DEF ReadStates, storeVars
<1>2. job[h] \in Jobs /\ JobInv("previous", job[h]) BY <1>1, JobFacts
<1>3. PICK before \in [Students -> Records \cup {None}] : before = states BY <1>0 DEF TypeOK
<1>4. PICK j \in Jobs : j = [job[h] EXCEPT !.before = before] BY <1>2 DEF Jobs
<1>5. job' = [job EXCEPT ![h] = j] BY <1>0, <1>1, <1>3, <1>4 DEF TypeOK, Jobs
<1>6. /\ j.event = job[h].event /\ j.before = before /\ j.held = job[h].held
      /\ j.seats = job[h].seats /\ j.todo = job[h].todo
  BY <1>2, <1>4 DEF Jobs
<1>7. JobInv("write", j) BY <1>0, <1>2, <1>3, <1>6 DEF JobInv, StatesInv
<1>8. "write" \in Steps BY DEF Steps
<1>9. /\ Keeps /\ SavedInv' /\ HandlersInv'
      /\ pc' \in [Handlers -> Steps] /\ job' \in [Handlers -> Jobs]
  BY <1>1, <1>5, <1>7, <1>8, QuietStep DEF Go
<1>10. TypeOK' BY <1>0, <1>1, <1>9 DEF TypeOK
<1> QED BY <1>1, <1>9, <1>10, StoreStays DEF IInv

\* What is left to do after a student: an end, the next one or the history entry.
LEMMA NextStudent ==
  ASSUME IInv, NEW h \in Handlers, pc[h] \in {"write", "history"},
         UNCHANGED <<frames, saved>>, NEW left \in SUBSET job[h].todo,
         \/ Finish(h)
         \/ Go(h, "write") /\ job' = [job EXCEPT ![h].todo = left]
         \/ Go(h, "write") /\ job' = [job EXCEPT ![h].moved = None]
         \/ Go(h, "history") /\ \E m \in Moves :
              job' = [job EXCEPT ![h].todo = left, ![h].moved = m]
  PROVE  /\ Keeps /\ SavedInv' /\ HandlersInv'
         /\ pc' \in [Handlers -> Steps] /\ job' \in [Handlers -> Jobs]
<1>0. TypeOK BY DEF IInv
<1>1. job[h] \in Jobs /\ JobInv(pc[h], job[h]) BY JobFacts
<1>2. "write" \in Steps /\ "history" \in Steps BY DEF Steps
<1>3. CASE Finish(h) BY <1>3, QuietStep
<1>4. CASE Go(h, "write") /\ job' = [job EXCEPT ![h].todo = left]
  <2>1. PICK j \in Jobs : j = [job[h] EXCEPT !.todo = left] BY <1>1 DEF Jobs
  <2>2. job' = [job EXCEPT ![h] = j] BY <1>0, <1>4, <2>1 DEF TypeOK, Jobs
  <2>3. /\ j.event = job[h].event /\ j.before = job[h].before /\ j.held = job[h].held
        /\ j.seats = job[h].seats /\ j.todo = left
    BY <1>1, <2>1 DEF Jobs
  <2>4. JobInv("write", j) BY <1>1, <2>3 DEF JobInv
  <2> QED BY <1>2, <1>4, <2>2, <2>4, QuietStep DEF Go
<1>5. CASE Go(h, "write") /\ job' = [job EXCEPT ![h].moved = None]
  <2>1. PICK j \in Jobs : j = [job[h] EXCEPT !.moved = None] BY <1>1 DEF Jobs
  <2>2. job' = [job EXCEPT ![h] = j] BY <1>0, <1>5, <2>1 DEF TypeOK, Jobs
  <2>3. /\ j.event = job[h].event /\ j.before = job[h].before /\ j.held = job[h].held
        /\ j.seats = job[h].seats /\ j.todo = job[h].todo
    BY <1>1, <2>1 DEF Jobs
  <2>4. JobInv("write", j) BY <1>1, <2>3 DEF JobInv
  <2> QED BY <1>2, <1>5, <2>2, <2>4, QuietStep DEF Go
<1>6. ASSUME Go(h, "history"), NEW m \in Moves,
             job' = [job EXCEPT ![h].todo = left, ![h].moved = m]
      PROVE  /\ Keeps /\ SavedInv' /\ HandlersInv'
             /\ pc' \in [Handlers -> Steps] /\ job' \in [Handlers -> Jobs]
  <2>1. PICK j \in Jobs : j = [job[h] EXCEPT !.todo = left, !.moved = m] BY <1>1 DEF Jobs
  <2>2. job' = [job EXCEPT ![h] = j] BY <1>0, <1>6, <2>1 DEF TypeOK, Jobs
  <2>3. /\ j.event = job[h].event /\ j.before = job[h].before /\ j.held = job[h].held
        /\ j.seats = job[h].seats /\ j.todo = left /\ j.moved = m
    BY <1>1, <2>1 DEF Jobs
  <2>4. JobInv("history", j) BY <1>1, <2>3 DEF JobInv
  <2> QED BY <1>2, <1>6, <2>2, <2>4, QuietStep DEF Go
<1> QED BY <1>3, <1>4, <1>5, <1>6

\* A judgement that is stored is sourced, and goes with the handler to its end, the
\* next student or the history entry.
LEMMA WriteStateFacts ==
  ASSUME IInv, NEW h \in Handlers, WriteState(h)
  PROVE  /\ pc[h] = "write"
         /\ UNCHANGED <<frames, posts, saved, batches, occupancy, history, assigned, lastSeen>>
         /\ Keeps /\ SavedInv' /\ HandlersInv'
         /\ pc' \in [Handlers -> Steps] /\ job' \in [Handlers -> Jobs]
         /\ \/ states' = states
            \/ \E s \in Students, r \in Records :
                 /\ states' = [states EXCEPT ![s] = r]
                 /\ Sourced(r, s)
                 /\ job[h].before[s] # None => job[h].before[s].at <= r.at
<1>0. TypeOK /\ SavedInv BY DEF IInv
<1>1. /\ pc[h] = "write"
      /\ UNCHANGED <<frames, posts, saved, batches, occupancy, history, assigned, lastSeen>>
  BY DEF WriteState
<1>2. job[h] \in Jobs /\ JobInv("write", job[h]) BY <1>1, JobFacts
<1>3. PICK e \in saved, frame \in Frames : e = job[h].event /\ frame = frames[e] /\ frame = Frame(h)
  BY <1>1, JobFacts DEF Frame
<1> DEFINE before(s) == job[h].before[s]
           record(s) == Decide(s, job[h].seats[s], job[h].event, Frame(h), job[h].held, before(s))
           left(s) == job[h].todo \ {s}
           move(s) == [student |-> s, from |-> StateOf(before(s)), to |-> record(s).state]
<1>4. PICK s \in job[h].todo :
        \/ /\ Outdated(before(s), Frame(h)) /\ UNCHANGED states
           /\ \/ Finish(h)
              \/ Go(h, "write") /\ job' = [job EXCEPT ![h].todo = left(s)]
        \/ /\ ~Outdated(before(s), Frame(h)) /\ states' = [states EXCEPT ![s] = record(s)]
           /\ \/ Finish(h)
              \/ Go(h, "write") /\ job' = [job EXCEPT ![h].todo = left(s)]
              \/ Go(h, "history") /\ job' = [job EXCEPT ![h].todo = left(s), ![h].moved = move(s)]
  BY DEF WriteState
<1>5. /\ s \in Students /\ before(s) \in Records \cup {None} /\ job[h].seats[s] \in Seats
      /\ before(s) # None => Sourced(before(s), s)
      /\ left(s) \in SUBSET job[h].todo /\ e \in Events
  BY <1>0, <1>2 DEF Jobs, JobInv, TypeOK
<1>6. record(s) \in Records /\ record(s).at = frame.at BY <1>3, <1>5, DecideType
<1>7. move(s) \in Moves
  <2>1. StateOf(before(s)) \in StudentStates BY <1>5 DEF StateOf, Records, StudentStates
  <2>2. record(s).state \in StudentStates BY <1>6 DEF Records
  <2> QED BY <1>5, <2>1, <2>2 DEF Moves
<1>8. ~Outdated(before(s), Frame(h)) => Sourced(record(s), s)
  <2>1. saved \subseteq Events BY <1>0 DEF TypeOK
  <2> QED BY <1>0, <1>3, <1>5, <2>1, DecideSourced
<1>9. ~Outdated(before(s), Frame(h)) => (before(s) # None => before(s).at <= record(s).at)
  <2>1. Times \subseteq Int BY MonitoringAssumption
  <2>2. before(s) # None => before(s).at \in Int BY <1>5, <2>1 DEF Records
  <2>3. frame.at \in Int BY <2>1, FrameType
  <2> QED BY <1>3, <1>6, <2>2, <2>3 DEF Outdated
<1> HIDE DEF record, move, left, before
<1>10. /\ Keeps /\ SavedInv' /\ HandlersInv'
       /\ pc' \in [Handlers -> Steps] /\ job' \in [Handlers -> Jobs]
  <2>1. \/ Finish(h)
        \/ Go(h, "write") /\ job' = [job EXCEPT ![h].todo = left(s)]
        \/ Go(h, "history") /\ \E m \in Moves :
             job' = [job EXCEPT ![h].todo = left(s), ![h].moved = m]
    BY <1>4, <1>7
  <2> QED BY <1>1, <1>5, <2>1, NextStudent
<1>11. \/ states' = states
       \/ /\ states' = [states EXCEPT ![s] = record(s)] /\ Sourced(record(s), s)
          /\ before(s) # None => before(s).at <= record(s).at
  BY <1>4, <1>8, <1>9
<1> QED BY <1>1, <1>5, <1>6, <1>10, <1>11 DEF before

LEMMA WriteStateStep == ASSUME IInv, NEW h \in Handlers, WriteState(h) PROVE IInv'
<1>0. TypeOK /\ StatesInv BY DEF IInv
<1>1. /\ UNCHANGED <<frames, posts, saved, batches, occupancy, history, assigned, lastSeen>>
      /\ Keeps /\ SavedInv' /\ HandlersInv'
      /\ pc' \in [Handlers -> Steps] /\ job' \in [Handlers -> Jobs]
  BY WriteStateFacts
<1>2. CASE states' = states
  <2>1. TypeOK' BY <1>0, <1>1, <1>2 DEF TypeOK
  <2> QED BY <1>1, <1>2, <2>1, StoreStays DEF IInv
<1>3. ASSUME NEW s \in Students, NEW r \in Records, Sourced(r, s),
             states' = [states EXCEPT ![s] = r]
      PROVE  IInv'
  <2>1. states' \in [Students -> Records \cup {None}] BY <1>0, <1>3 DEF TypeOK
  <2>2. TypeOK' BY <1>0, <1>1, <2>1 DEF TypeOK
  <2>3. StatesInv'
    <3> SUFFICES ASSUME NEW x \in Students, states'[x] # None PROVE Sourced(states[x], x)'
      BY DEF StatesInv
    <3>1. PICK y \in Records : y = states'[x] BY <2>1
    <3>2. Sourced(y, x)
      <4>1. CASE x = s BY <1>0, <1>3, <3>1, <4>1 DEF TypeOK
      <4>2. CASE x # s BY <1>0, <1>3, <3>1, <4>2 DEF TypeOK, StatesInv
      <4> QED BY <4>1, <4>2
    <3>3. Sourced(y, x)' BY <1>1, <3>2, SourcesStay DEF IInv
    <3> QED BY <3>1, <3>3
  <2> QED BY <1>1, <2>2, <2>3, StoreStays DEF IInv
<1> QED BY <1>2, <1>3, WriteStateFacts

LEMMA AppendHistoryStep == ASSUME IInv, NEW h \in Handlers, AppendHistory(h) PROVE IInv'
<1>0. TypeOK BY DEF IInv
<1>1. /\ pc[h] = "history"
      /\ UNCHANGED <<frames, posts, saved, batches, occupancy, states, assigned, lastSeen>>
  BY DEF AppendHistory
<1>2. job[h] \in Jobs /\ job[h].event \in Events /\ job[h].moved \in Moves
  <2>1. JobInv("history", job[h]) BY <1>1, JobFacts
  <2> QED BY <1>1, <2>1, JobFacts DEF JobInv
<1>3. history' \in SUBSET [event : Events, student : Students,
                           from : StudentStates, to : StudentStates]
  BY <1>0, <1>2 DEF AppendHistory, TypeOK, Moves
<1>4. /\ Keeps /\ SavedInv' /\ HandlersInv'
      /\ pc' \in [Handlers -> Steps] /\ job' \in [Handlers -> Jobs]
  <2>1. Finish(h) \/ (Go(h, "write") /\ job' = [job EXCEPT ![h].moved = None])
    BY DEF AppendHistory
  <2>2. job[h].todo \in SUBSET job[h].todo OBVIOUS
  <2> QED BY <1>1, <2>1, <2>2, NextStudent
<1>5. TypeOK' BY <1>0, <1>1, <1>3, <1>4 DEF TypeOK
<1> QED BY <1>1, <1>4, <1>5, StoreStays DEF IInv

-----------------------------------------------------------------------------
(* Failures and the administrator.                                         *)

LEMMA FailStep == ASSUME IInv, NEW h \in Handlers, Fail(h) PROVE IInv'
<1>0. TypeOK BY DEF IInv
<1>1. /\ Finish(h)
      /\ UNCHANGED <<frames, posts, saved, batches, occupancy, states, history, assigned, lastSeen>>
  BY DEF Fail, storeVars
<1>2. /\ Keeps /\ SavedInv' /\ HandlersInv'
      /\ pc' \in [Handlers -> Steps] /\ job' \in [Handlers -> Jobs]
  BY <1>1, QuietStep
<1>3. TypeOK' BY <1>0, <1>1, <1>2 DEF TypeOK
<1> QED BY <1>1, <1>2, <1>3, StoreStays DEF IInv

LEMMA RestartStep == ASSUME IInv, Restart PROVE IInv'
<1>0. TypeOK BY DEF IInv
<1>1. /\ pc' = [h \in Handlers |-> "idle"] /\ job' = [h \in Handlers |-> NoJob]
      /\ lastSeen' = [k \in Cameras \X Seats |-> None]
      /\ UNCHANGED <<frames, posts, saved, batches, occupancy, states, history, assigned>>
  BY DEF Restart, storeVars
<1>2. Keeps /\ SavedInv' BY <1>1 DEF IInv, SavedInv, Keeps
<1>3. HandlersInv' BY <1>1, NoJobInv DEF HandlersInv
<1>4. SeenInv' BY <1>1 DEF SeenInv
<1>5. TypeOK' BY <1>0, <1>1, NoJobInv DEF TypeOK, Steps
<1> QED BY <1>1, <1>2, <1>3, <1>4, <1>5, StoreStays DEF IInv

\* A step that moves students between seats, or nothing.
LEMMA AssignedStep ==
  ASSUME IInv, assigned' \in [Students -> Seats \cup {None}],
         UNCHANGED <<frames, posts, storeVars, lastSeen, pc, job>>
  PROVE  IInv'
<1>0. TypeOK BY DEF IInv
<1>1. UNCHANGED <<frames, posts, saved, batches, occupancy, states, history, lastSeen, pc, job>>
  BY DEF storeVars
<1>2. Keeps /\ SavedInv' BY <1>1 DEF IInv, SavedInv, Keeps
<1>3. HandlersInv'
  <2> SUFFICES ASSUME NEW h \in Handlers PROVE JobInv(pc[h], job[h])' BY DEF HandlersInv
  <2>1. PICK p \in Steps, j \in Jobs : p = pc[h] /\ j = job[h] BY <1>0 DEF TypeOK
  <2>2. JobInv(p, j) BY <2>1 DEF IInv, HandlersInv
  <2>3. JobInv(p, j)' BY <1>2, <2>2, JobStays DEF IInv
  <2> QED BY <1>1, <2>1, <2>3
<1>4. TypeOK' BY <1>0, <1>1 DEF TypeOK
<1> QED BY <1>1, <1>2, <1>3, <1>4, StoreStays DEF IInv

LEMMA ReassignStep == ASSUME IInv, Reassign PROVE IInv'
<1>1. assigned' \in [Students -> Seats \cup {None}] BY DEF IInv, TypeOK, Reassign
<1> QED BY <1>1, AssignedStep DEF Reassign

-----------------------------------------------------------------------------
(* The theorems.                                                           *)

LEMMA InitIInv == Init => IInv
<1> SUFFICES ASSUME Init PROVE IInv OBVIOUS
<1>1. TypeOK
  <2>1. NoJob \in Jobs BY NoJobInv
  <2>2. 0 \in 0..MaxPosts BY MonitoringAssumption
  <2> QED BY <2>1, <2>2 DEF Init, TypeOK, Steps, SeatStates
<1>2. SavedInv /\ StatesInv /\ SeenInv /\ OccupiedHasSource
  BY DEF Init, SavedInv, StatesInv, SeenInv, OccupiedHasSource
<1>3. HandlersInv BY NoJobInv DEF Init, HandlersInv
<1> QED BY <1>1, <1>2, <1>3 DEF IInv

LEMMA NextIInv == IInv /\ [Next]_vars => IInv'
<1> SUFFICES ASSUME IInv, [Next]_vars PROVE IInv' OBVIOUS
<1>1. ASSUME NEW h \in Handlers, Handle(h) PROVE IInv'
  BY <1>1, ReceiveStep, SaveStep, MapSeatsStep, RememberStep, RecordBatchStep,
     ReadAssignmentsStep, ReadStatesStep, WriteStateStep, AppendHistoryStep, FailStep DEF Handle
<1>2. CASE UNCHANGED vars
  <2>1. assigned' \in [Students -> Seats \cup {None}] BY <1>2 DEF IInv, TypeOK, vars
  <2> QED BY <1>2, <2>1, AssignedStep DEF vars
<1> QED BY <1>1, <1>2, RestartStep, ReassignStep DEF Next

\* The inductive invariant of the receipt of events.
THEOREM Invariance == Spec => []IInv
BY InitIInv, NextIInv, PTL DEF Spec

\* Every variable stays within its type.
THEOREM TypeCorrect == Spec => []TypeOK
<1>1. IInv => TypeOK BY DEF IInv
<1> QED BY <1>1, Invariance, PTL

\* For any number of handlers: a student is said to sit somewhere only on the strength
\* of a stored frame that identified that student there, not too long ago.
THEOREM IdentityHasSourceTheorem == Spec => []IdentityHasSource
<1>1. IInv => IdentityHasSource BY DEF IInv, StatesInv, Sourced, IdentityHasSource
<1> QED BY <1>1, Invariance, PTL

\* Absence is judged by a frame that saw the assigned seat empty, and dates from a
\* stored frame at least AbsentGrace earlier that saw a seat empty.
THEOREM AbsentSawAnEmptySeatTheorem == Spec => []AbsentSawAnEmptySeat
<1>1. IInv => AbsentSawAnEmptySeat
  BY DEF IInv, StatesInv, Sourced, AbsentSawAnEmptySeat
<1> QED BY <1>1, Invariance, PTL

\* A seat counts as occupied only when a stored frame saw somebody there for certain,
\* not longer than OccupancyHold before the frame that says so.
THEOREM OccupiedHasSourceTheorem == Spec => []OccupiedHasSource
<1>1. IInv => OccupiedHasSource BY DEF IInv
<1> QED BY <1>1, Invariance, PTL

\* Only a handler that read a student's state before another one replaced it puts an
\* older judgement in the place of a newer one.
THEOREM OnlyStaleReadsGoBackTheorem == Spec => OnlyStaleReadsGoBack
<1> DEFINE Older(s) ==
      states[s] # None /\ states'[s].at < states[s].at =>
        \E h \in Handlers : pc[h] = "write" /\ job[h].before[s] # states[s]
<1>1. ASSUME IInv, NEW s \in Students, states' = states PROVE Older(s)
  <2>1. states[s] # None => states[s].at \in Nat
    BY <1>1, MonitoringAssumption DEF IInv, TypeOK, Records
  <2> QED BY <1>1, <2>1
<1>2. ASSUME IInv, NEW h \in Handlers, WriteState(h), NEW s \in Students PROVE Older(s)
  <2>1. ASSUME NEW x \in Students, NEW r \in Records, states' = [states EXCEPT ![x] = r],
               job[h].before[x] # None => job[h].before[x].at <= r.at
        PROVE  Older(s)
    <3> SUFFICES ASSUME states[s] # None, states'[s].at < states[s].at,
                        job[h].before[s] = states[s]
                 PROVE  FALSE
      BY <1>2, WriteStateFacts
    <3>1. states[s] \in Records /\ states \in [Students -> Records \cup {None}]
      BY <1>2 DEF IInv, TypeOK
    <3>2. states[s].at \in Nat /\ r.at \in Nat BY <3>1, MonitoringAssumption DEF Records
    <3>3. CASE s = x
      <4>1. states'[s] = r BY <2>1, <3>1, <3>3
      <4>2. states[s].at <= r.at BY <2>1, <3>3
      <4> QED BY <3>2, <4>1, <4>2
    <3>4. CASE s # x
      <4>1. states'[s] = states[s] BY <2>1, <3>1, <3>4
      <4> QED BY <3>2, <4>1
    <3> QED BY <3>3, <3>4
  <2> QED BY <1>1, <1>2, <2>1, WriteStateFacts
<1>3. IInv /\ [Next]_vars => [\A s \in Students : Older(s)]_vars
  <2> SUFFICES ASSUME IInv, Next, NEW s \in Students PROVE Older(s) OBVIOUS
  <2>1. states' = states \/ \E h \in Handlers : WriteState(h)
    BY DEF Next, Handle, Receive, Save, MapSeats, Remember, RecordBatch, ReadAssignments,
           ReadStates, AppendHistory, Fail, Restart, Reassign, storeVars
  <2> QED BY <1>1, <1>2, <2>1
<1> QED BY <1>3, Invariance, PTL DEF Spec, OnlyStaleReadsGoBack

-----------------------------------------------------------------------------
(* One request at a time, run to its end: the history is a chain.          *)

\* The server has one handler, and nothing cuts it short.
RunsToItsEnd == ~MayFail /\ \A g, h \in Handlers : g = h

\* The history of a student leads from UNKNOWN to the state.
LeadsTo(s, state) ==
  \A x \in StudentStates :
    Entries(s, x) + (IF x = "UNKNOWN" THEN 1 ELSE 0)
      = Departures(s, x) + (IF x = state THEN 1 ELSE 0)

\* No transition of the student is on record for the event.
Unwritten(e, s) == \A move \in history : move.event = e => move.student # s

\* What a handler that runs alone can rely on: its event is judged for the first time,
\* the states it read are the stored ones, and the transition it is about to append
\* goes on where the history ends.
AloneJob(p, j) ==
  /\ p = "save" /\ j.fresh => j.event \notin saved
  /\ p \in {"map", "remember", "record", "read", "previous"} =>
       \A move \in history : move.event # j.event
  /\ p \in {"write", "history"} =>
       \A s \in j.todo : j.before[s] = states[s] /\ Unwritten(j.event, s)
  /\ p = "history" =>
       /\ j.moved.student \notin j.todo /\ Unwritten(j.event, j.moved.student)
       /\ j.moved.to = StateOf(states[j.moved.student])
       /\ LeadsTo(j.moved.student, j.moved.from)

\* The history of every student leads to the stored state, save the one whose
\* transition is not appended yet.
Chains ==
  \A s \in Students :
    (\A h \in Handlers : pc[h] = "history" => job[h].moved.student # s) =>
      LeadsTo(s, StateOf(states[s]))

AloneInv ==
  /\ IsFiniteSet(history)
  /\ \A move \in history : move.event \in saved
  /\ \A h \in Handlers : AloneJob(pc[h], job[h])
  /\ Chains

\* One more transition is one more entry into its state and one more departure from the
\* state it leaves, and the history of the others is as it was.
LEMMA OneMoreMove ==
  ASSUME IsFiniteSet(history), NEW m, m \notin history, history' = history \cup {m}
  PROVE  /\ LeadsTo(m.student, m.from) => LeadsTo(m.student, m.to)'
         /\ \A s, state : s # m.student => LeadsTo(s, state)' = LeadsTo(s, state)
<1> DEFINE In(s, x) == {move \in history : move.student = s /\ move.to = x}
           Out(s, x) == {move \in history : move.student = s /\ move.from = x}
<1>1. \A s, x : IsFiniteSet(In(s, x)) /\ IsFiniteSet(Out(s, x))
  <2> SUFFICES ASSUME NEW s, NEW x PROVE IsFiniteSet(In(s, x)) /\ IsFiniteSet(Out(s, x)) OBVIOUS
  <2>1. In(s, x) \in SUBSET history /\ Out(s, x) \in SUBSET history OBVIOUS
  <2> QED BY <2>1, FS_Subset
<1>2. \A s, x : /\ In(s, x)' = IF s = m.student /\ x = m.to THEN In(s, x) \cup {m} ELSE In(s, x)
                /\ Out(s, x)' = IF s = m.student /\ x = m.from THEN Out(s, x) \cup {m}
                                ELSE Out(s, x)
  OBVIOUS
<1>3. \A s, x : m \notin In(s, x) /\ m \notin Out(s, x) OBVIOUS
<1>4. \A s, x : Entries(s, x) = Cardinality(In(s, x)) /\ Departures(s, x) = Cardinality(Out(s, x))
  BY DEF Entries, Departures
<1>5. \A s, x : /\ Entries(s, x)' = Cardinality(In(s, x)')
                /\ Departures(s, x)' = Cardinality(Out(s, x)')
  BY DEF Entries, Departures
<1> HIDE DEF In, Out
<1>6. \A s, x : /\ Entries(s, x) \in Nat /\ Departures(s, x) \in Nat
                /\ Entries(s, x)' = Entries(s, x) + IF s = m.student /\ x = m.to THEN 1 ELSE 0
                /\ Departures(s, x)' = Departures(s, x) + IF s = m.student /\ x = m.from THEN 1 ELSE 0
  <2> SUFFICES ASSUME NEW s, NEW x
               PROVE  /\ Entries(s, x) \in Nat /\ Departures(s, x) \in Nat
                      /\ Entries(s, x)' = Entries(s, x) + IF s = m.student /\ x = m.to THEN 1 ELSE 0
                      /\ Departures(s, x)' =
                           Departures(s, x) + IF s = m.student /\ x = m.from THEN 1 ELSE 0
    OBVIOUS
  <2>1. Cardinality(In(s, x)) \in Nat /\ Cardinality(Out(s, x)) \in Nat
    BY <1>1, FS_CardinalityType
  <2>2. /\ Cardinality(In(s, x) \cup {m}) = Cardinality(In(s, x)) + 1
        /\ Cardinality(Out(s, x) \cup {m}) = Cardinality(Out(s, x)) + 1
    BY <1>1, <1>3, FS_AddElement
  <2>3. Entries(s, x) \in Nat /\ Departures(s, x) \in Nat BY <1>4, <2>1
  <2>4. Entries(s, x)' = Entries(s, x) + IF s = m.student /\ x = m.to THEN 1 ELSE 0
    <3>1. CASE s = m.student /\ x = m.to BY <1>2, <1>4, <1>5, <2>2, <3>1
    <3>2. CASE ~(s = m.student /\ x = m.to)
      <4>1. Entries(s, x)' = Entries(s, x) BY <1>2, <1>4, <1>5, <3>2
      <4> QED BY <2>3, <3>2, <4>1
    <3> QED BY <3>1, <3>2
  <2>5. Departures(s, x)' = Departures(s, x) + IF s = m.student /\ x = m.from THEN 1 ELSE 0
    <3>1. CASE s = m.student /\ x = m.from BY <1>2, <1>4, <1>5, <2>2, <3>1
    <3>2. CASE ~(s = m.student /\ x = m.from)
      <4>1. Departures(s, x)' = Departures(s, x) BY <1>2, <1>4, <1>5, <3>2
      <4> QED BY <2>3, <3>2, <4>1
    <3> QED BY <3>1, <3>2
  <2> QED BY <2>3, <2>4, <2>5
<1>7. ASSUME LeadsTo(m.student, m.from), NEW x \in StudentStates
      PROVE  Entries(m.student, x)' + (IF x = "UNKNOWN" THEN 1 ELSE 0)
               = Departures(m.student, x)' + (IF x = m.to THEN 1 ELSE 0)
  BY <1>6, <1>7 DEF LeadsTo
<1>8. ASSUME NEW s, s # m.student, NEW x
      PROVE  Entries(s, x)' = Entries(s, x) /\ Departures(s, x)' = Departures(s, x)
  BY <1>6, <1>8
<1> QED BY <1>7, <1>8 DEF LeadsTo

\* A step of the only handler.
LEMMA AloneStep ==
  ASSUME IInv, RunsToItsEnd, NEW h \in Handlers, NEW p \in Steps, NEW j,
         pc' = [pc EXCEPT ![h] = p], job' = [job EXCEPT ![h] = j],
         IsFiniteSet(history'), \A move \in history' : move.event \in saved',
         AloneJob(p, j)',
         \A s \in Students :
           (p = "history" => j.moved.student # s) => LeadsTo(s, StateOf(states[s]))'
  PROVE  AloneInv'
<1>1. pc \in [Handlers -> Steps] /\ job \in [Handlers -> Jobs] BY DEF IInv, TypeOK
<1>2. \A g \in Handlers : pc'[g] = p /\ job'[g] = j BY <1>1 DEF RunsToItsEnd
<1>3. \A g \in Handlers : AloneJob(pc[g], job[g])' BY <1>2
<1>4. Chains' BY <1>2 DEF Chains
<1> QED BY <1>3, <1>4 DEF AloneInv

\* Nothing of what the handler was to do is left.
LEMMA NothingLeft == AloneJob("idle", NoJob) /\ AloneJob("idle", NoJob)'
BY DEF AloneJob

\* A step of the only handler that neither judges nor appends.
LEMMA AloneQuiet ==
  ASSUME IInv, AloneInv, RunsToItsEnd, NEW h \in Handlers, pc[h] # "history",
         UNCHANGED <<states, history>>, saved \subseteq saved',
         \/ Finish(h)
         \/ \E p \in Steps, j \in Jobs :
              /\ p # "history" /\ AloneJob(p, j)'
              /\ pc' = [pc EXCEPT ![h] = p] /\ job' = [job EXCEPT ![h] = j]
  PROVE  AloneInv'
<1>1. PICK p \in Steps, j \in Jobs :
        /\ p # "history" /\ AloneJob(p, j)'
        /\ pc' = [pc EXCEPT ![h] = p] /\ job' = [job EXCEPT ![h] = j]
  BY NothingLeft, NoJobInv DEF Finish, Go, Steps
<1>2. \A s \in Students : LeadsTo(s, StateOf(states[s])) BY DEF AloneInv, Chains, RunsToItsEnd
<1>3. \A s \in Students : LeadsTo(s, StateOf(states[s]))'
  BY <1>2 DEF LeadsTo, Entries, Departures
<1>4. IsFiniteSet(history') /\ \A move \in history' : move.event \in saved' BY DEF AloneInv
<1> QED BY <1>1, <1>3, <1>4, AloneStep

LEMMA ReceiveAlone ==
  ASSUME IInv, AloneInv, RunsToItsEnd, NEW h \in Handlers, NEW e \in Events, Receive(h, e)
  PROVE  AloneInv'
<1>1. PICK j \in Jobs : j = [NoJob EXCEPT !.event = e, !.fresh = e \notin saved]
  BY NoJobInv DEF Jobs
<1>2. /\ pc[h] # "history" /\ UNCHANGED <<states, history, saved>>
      /\ pc' = [pc EXCEPT ![h] = "save"] /\ job' = [job EXCEPT ![h] = j]
  BY <1>1 DEF Receive, Go, storeVars
<1>3. j.event = e /\ j.fresh = (e \notin saved) BY <1>1 DEF NoJob
<1>4. AloneJob("save", j)' BY <1>2, <1>3 DEF AloneJob
<1>5. "save" \in Steps BY DEF Steps
<1> QED BY <1>2, <1>4, <1>5, AloneQuiet

LEMMA SaveAlone ==
  ASSUME IInv, AloneInv, RunsToItsEnd, NEW h \in Handlers, Save(h) PROVE AloneInv'
<1>1. /\ pc[h] = "save" /\ saved' = saved \cup {job[h].event} /\ UNCHANGED <<states, history>>
      /\ \/ job[h].fresh /\ Go(h, "map") /\ UNCHANGED job
         \/ Finish(h)
  BY DEF Save
<1>2. job[h] \in Jobs /\ job = [job EXCEPT ![h] = job[h]] /\ AloneJob("save", job[h])
  BY <1>1, JobFacts DEF AloneInv
<1>3. CASE job[h].fresh /\ Go(h, "map") /\ UNCHANGED job
  <2>1. PICK j \in Jobs : j = job[h] BY <1>2
  <2>2. AloneJob("map", j)' BY <1>1, <1>2, <1>3, <2>1 DEF AloneJob, AloneInv
  <2>3. "map" \in Steps /\ pc' = [pc EXCEPT ![h] = "map"] /\ job' = [job EXCEPT ![h] = j]
    BY <1>2, <1>3, <2>1 DEF Steps, Go
  <2> QED BY <1>1, <2>2, <2>3, AloneQuiet
<1> QED BY <1>1, <1>3, AloneQuiet

\* The steps between the insert and the reading of the states: the event has no
\* transition on record yet.
LEMMA BeforeWriting ==
  ASSUME IInv, AloneInv, RunsToItsEnd, NEW h \in Handlers,
         pc[h] \in {"map", "remember", "record", "read"},
         UNCHANGED <<states, history, saved>>,
         \/ Finish(h)
         \/ \E p \in {"remember", "record", "read", "previous"}, j \in Jobs :
              /\ j.event = job[h].event
              /\ pc' = [pc EXCEPT ![h] = p] /\ job' = [job EXCEPT ![h] = j]
  PROVE  AloneInv'
<1>1. AloneJob(pc[h], job[h]) BY DEF AloneInv
<1>2. \A move \in history : move.event # job[h].event BY <1>1 DEF AloneJob
<1>3. ASSUME NEW p \in {"remember", "record", "read", "previous"}, NEW j, j.event = job[h].event
      PROVE  p \in Steps /\ AloneJob(p, j)'
  BY <1>2, <1>3 DEF AloneJob, Steps
<1> QED BY <1>3, AloneQuiet

LEMMA BetweenAlone ==
  ASSUME IInv, AloneInv, RunsToItsEnd, NEW h \in Handlers,
         MapSeats(h) \/ Remember(h) \/ RecordBatch(h) \/ ReadAssignments(h)
  PROVE  AloneInv'
<1>0. TypeOK BY DEF IInv
<1>1. /\ pc[h] \in {"map", "remember", "record", "read"} /\ UNCHANGED <<states, history, saved>>
  BY DEF MapSeats, Remember, RecordBatch, ReadAssignments, storeVars
<1>2. job[h] \in Jobs /\ job = [job EXCEPT ![h] = job[h]] BY <1>1, JobFacts
<1>3. CASE MapSeats(h)
  <2>1. Frame(h) \in Frames BY <1>1, JobFacts
  <2>2. PICK held \in SUBSET Seats : held = HeldSeats(Frame(h)) BY <2>1, HeldAreSourced
  <2>3. PICK j \in Jobs : j = [job[h] EXCEPT !.held = held] BY <1>2 DEF Jobs
  <2>4. /\ pc' = [pc EXCEPT ![h] = "remember"] /\ job' = [job EXCEPT ![h] = j]
        /\ j.event = job[h].event
    BY <1>0, <1>2, <1>3, <2>2, <2>3 DEF MapSeats, Go, TypeOK, Jobs
  <2> QED BY <1>1, <2>4, BeforeWriting
<1>4. CASE Remember(h) \/ (RecordBatch(h) /\ Go(h, "read") /\ UNCHANGED job)
  <2>1. \E p \in {"record", "read"} :
          pc' = [pc EXCEPT ![h] = p] /\ job' = [job EXCEPT ![h] = job[h]]
    BY <1>2, <1>4 DEF Remember, Go
  <2> QED BY <1>1, <1>2, <2>1, BeforeWriting
<1>5. CASE ReadAssignments(h) /\ ~Finish(h)
  <2>1. PICK seats \in [Students -> Seats \cup {None}], todo \in SUBSET Students :
          seats = assigned /\ todo = Judged
    BY <1>0 DEF TypeOK, Judged
  <2>2. PICK j \in Jobs : j = [job[h] EXCEPT !.seats = seats, !.todo = todo] BY <1>2 DEF Jobs
  <2>3. /\ pc' = [pc EXCEPT ![h] = "previous"] /\ job' = [job EXCEPT ![h] = j]
        /\ j.event = job[h].event
    BY <1>0, <1>2, <1>5, <2>1, <2>2 DEF ReadAssignments, Go, TypeOK, Jobs
  <2> QED BY <1>1, <2>3, BeforeWriting
<1>6. CASE Finish(h) BY <1>1, <1>6, BeforeWriting
<1> QED BY <1>3, <1>4, <1>5, <1>6 DEF RecordBatch

LEMMA ReadStatesAlone ==
  ASSUME IInv, AloneInv, RunsToItsEnd, NEW h \in Handlers, ReadStates(h) PROVE AloneInv'
<1>0. TypeOK BY DEF IInv
<1>1. /\ pc[h] = "previous" /\ Go(h, "write") /\ job' = [job EXCEPT ![h].before = states]
      /\ UNCHANGED <<states, history, saved>>
  BY DEF ReadStates, storeVars
<1>2. job[h] \in Jobs /\ AloneJob("previous", job[h]) BY <1>1, JobFacts DEF AloneInv
<1>3. PICK before \in [Students -> Records \cup {None}] : before = states BY <1>0 DEF TypeOK
<1>4. PICK j \in Jobs : j = [job[h] EXCEPT !.before = before] BY <1>2 DEF Jobs
<1>5. job' = [job EXCEPT ![h] = j] /\ pc' = [pc EXCEPT ![h] = "write"]
  BY <1>0, <1>1, <1>3, <1>4 DEF TypeOK, Jobs, Go
<1>6. j.event = job[h].event /\ j.before = before BY <1>2, <1>4 DEF Jobs
<1>7. AloneJob("write", j)' BY <1>1, <1>2, <1>3, <1>6 DEF AloneJob, Unwritten
<1>8. "write" \in Steps BY DEF Steps
<1> QED BY <1>1, <1>5, <1>7, <1>8, AloneQuiet

\* What was read is still stored, so the transition of a judgement starts where the
\* history ends.
LEMMA WriteStateAlone ==
  ASSUME IInv, AloneInv, RunsToItsEnd, NEW h \in Handlers, WriteState(h) PROVE AloneInv'
<1>0. TypeOK BY DEF IInv
<1>1. pc[h] = "write" /\ UNCHANGED <<history, saved>> BY DEF WriteState
<1>2. job[h] \in Jobs /\ AloneJob("write", job[h]) /\ JobInv("write", job[h])
  BY <1>1, JobFacts DEF AloneInv
<1>3. \A s \in Students : LeadsTo(s, StateOf(states[s]))
  BY <1>1 DEF AloneInv, Chains, RunsToItsEnd
<1>4. \A s, state : LeadsTo(s, state)' = LeadsTo(s, state')
  BY <1>1 DEF LeadsTo, Entries, Departures
<1>5. IsFiniteSet(history') /\ \A move \in history' : move.event \in saved'
  BY <1>1 DEF AloneInv
<1> DEFINE before(s) == job[h].before[s]
           record(s) == Decide(s, job[h].seats[s], job[h].event, Frame(h), job[h].held, before(s))
           left(s) == job[h].todo \ {s}
           move(s) == [student |-> s, from |-> StateOf(before(s)), to |-> record(s).state]
<1>6. PICK s \in job[h].todo :
        \/ /\ UNCHANGED states
           /\ \/ Finish(h)
              \/ Go(h, "write") /\ job' = [job EXCEPT ![h].todo = left(s)]
        \/ /\ states' = [states EXCEPT ![s] = record(s)]
           /\ \/ /\ StateOf(before(s)) # record(s).state /\ Go(h, "history")
                 /\ job' = [job EXCEPT ![h].todo = left(s), ![h].moved = move(s)]
              \/ /\ StateOf(before(s)) = record(s).state
                 /\ \/ Finish(h)
                    \/ Go(h, "write") /\ job' = [job EXCEPT ![h].todo = left(s)]
  BY DEF WriteState
<1>7. /\ s \in Students /\ before(s) = states[s] /\ before(s) \in Records \cup {None}
      /\ Unwritten(job[h].event, s) /\ job[h].seats[s] \in Seats
      /\ left(s) \in SUBSET Students
  BY <1>2 DEF Jobs, JobInv, AloneJob
<1>8. record(s) \in Records /\ StateOf(record(s)) = record(s).state
  <2>1. job[h].event \in Events /\ Frame(h) \in Frames BY <1>1, JobFacts
  <2>2. record(s) \in Records BY <1>7, <2>1, DecideType
  <2> QED BY <2>2, MonitoringAssumption DEF StateOf
<1>9. move(s) \in Moves
  <2>1. StateOf(before(s)) \in StudentStates BY <1>7 DEF StateOf, Records, StudentStates
  <2>2. record(s).state \in StudentStates BY <1>8 DEF Records
  <2> QED BY <1>7, <2>1, <2>2 DEF Moves
<1>10. PICK m \in Moves : m = move(s) BY <1>9
<1>11. m.student = s /\ m.from = StateOf(states[s]) /\ m.to = record(s).state
  BY <1>7, <1>10
<1>12. "write" \in Steps /\ "history" \in Steps /\ "idle" \in Steps BY DEF Steps
<1> HIDE DEF record, move
<1>13. \A x \in left(s) :
         /\ x \in Students /\ x # s /\ job[h].before[x] = states[x]
         /\ Unwritten(job[h].event, x)
  BY <1>2, <1>7 DEF AloneJob
<1>14. \A x \in Students : x # s => states'[x] = states[x] BY <1>0, <1>6 DEF TypeOK
<1>15. PICK e, before0 : e = job[h].event /\ before0 = job[h].before OBVIOUS
<1>16. \A x \in Students : x \in left(s) => before0[x] = states'[x] /\ Unwritten(e, x)'
  BY <1>1, <1>13, <1>14, <1>15 DEF Unwritten
<1>17. ASSUME Finish(h) \/ (Go(h, "write") /\ job' = [job EXCEPT ![h].todo = left(s)]),
              StateOf(states'[s]) = StateOf(states[s])
       PROVE  AloneInv'
  <2>1. \A x \in Students : LeadsTo(x, StateOf(states[x]))'
    <3> SUFFICES ASSUME NEW x \in Students PROVE LeadsTo(x, StateOf(states[x]))' OBVIOUS
    <3>1. StateOf(states'[x]) = StateOf(states[x]) BY <1>14, <1>17 DEF StateOf
    <3> QED BY <1>1, <1>3, <3>1 DEF LeadsTo, Entries, Departures
  <2>2. CASE Finish(h) BY <1>5, <1>12, <2>1, <2>2, NothingLeft, AloneStep DEF Finish, Go
  <2>3. CASE Go(h, "write") /\ job' = [job EXCEPT ![h].todo = left(s)]
    <3>1. PICK j \in Jobs : j = [job[h] EXCEPT !.todo = left(s)] BY <1>2, <1>7 DEF Jobs
    <3>2. job' = [job EXCEPT ![h] = j] /\ pc' = [pc EXCEPT ![h] = "write"]
      BY <1>0, <2>3, <3>1 DEF TypeOK, Jobs, Go
    <3>3. j.event = e /\ j.before = before0 /\ j.todo = left(s)
      BY <1>2, <1>15, <3>1 DEF Jobs
    <3>4. \A x \in j.todo : j.before[x] = states'[x] /\ Unwritten(e, x)'
      BY <1>7, <1>16, <3>3
    <3> HIDE DEF left
    <3>5. AloneJob("write", j)' BY <3>3, <3>4 DEF AloneJob
    <3> QED BY <1>5, <1>12, <2>1, <3>2, <3>5, AloneStep
  <2> QED BY <1>17, <2>2, <2>3
<1>18. CASE UNCHANGED states /\ (Finish(h) \/ (Go(h, "write") /\ job' = [job EXCEPT ![h].todo = left(s)]))
  BY <1>17, <1>18 DEF StateOf
<1>19. CASE /\ states' = [states EXCEPT ![s] = record(s)]
            /\ \/ /\ StateOf(before(s)) # record(s).state /\ Go(h, "history")
                  /\ job' = [job EXCEPT ![h].todo = left(s), ![h].moved = move(s)]
               \/ /\ StateOf(before(s)) = record(s).state
                  /\ \/ Finish(h)
                     \/ Go(h, "write") /\ job' = [job EXCEPT ![h].todo = left(s)]
  <2>1. states'[s] = record(s) BY <1>0, <1>7, <1>19 DEF TypeOK
  <2>2. CASE StateOf(states[s]) = record(s).state
    <3>1. StateOf(states'[s]) = StateOf(states[s]) BY <1>8, <2>1, <2>2
    <3> QED BY <1>7, <1>17, <1>19, <2>2, <3>1
  <2>3. CASE /\ StateOf(states[s]) # record(s).state /\ Go(h, "history")
             /\ job' = [job EXCEPT ![h].todo = left(s), ![h].moved = move(s)]
    <3>1. PICK j \in Jobs : j = [job[h] EXCEPT !.todo = left(s), !.moved = m]
      BY <1>2, <1>7 DEF Jobs
    <3>2. job' = [job EXCEPT ![h] = j] /\ pc' = [pc EXCEPT ![h] = "history"]
      BY <1>0, <1>10, <2>3, <3>1 DEF TypeOK, Jobs, Go
    <3>3. j.event = e /\ j.before = before0 /\ j.todo = left(s) /\ j.moved = m
      BY <1>2, <1>15, <3>1 DEF Jobs
    <3>4. s \notin j.todo BY <3>3
    <3>5. \A x \in j.todo : j.before[x] = states'[x] /\ Unwritten(e, x)'
      BY <1>7, <1>16, <3>3
    <3> HIDE DEF left
    <3>6. LeadsTo(m.student, m.from)'
      <4>1. LeadsTo(s, StateOf(states[s])) BY <1>3, <1>7
      <4> QED BY <1>1, <1>11, <4>1 DEF LeadsTo, Entries, Departures
    <3>7. m.to = StateOf(states'[s]) BY <1>8, <1>11, <2>1
    <3>8. Unwritten(j.event, m.student)' BY <1>1, <1>7, <1>11, <1>15, <3>3 DEF Unwritten
    <3>9. AloneJob("history", j)'
      BY <1>11, <3>3, <3>4, <3>6, <3>7, <3>8, <3>5 DEF AloneJob
    <3>10. ASSUME NEW x \in Students, j.moved.student # x PROVE LeadsTo(x, StateOf(states[x]))'
      <4>1. StateOf(states'[x]) = StateOf(states[x]) BY <1>11, <1>14, <3>3, <3>10 DEF StateOf
      <4> QED BY <1>1, <1>3, <4>1 DEF LeadsTo, Entries, Departures
    <3> QED BY <1>5, <1>12, <3>2, <3>9, <3>10, AloneStep
  <2> QED BY <1>7, <1>19, <2>2, <2>3
<1> QED BY <1>6, <1>18, <1>19

\* The transition that is appended goes on where the history ends.
LEMMA AppendHistoryAlone ==
  ASSUME IInv, AloneInv, RunsToItsEnd, NEW h \in Handlers, AppendHistory(h) PROVE AloneInv'
<1>0. TypeOK BY DEF IInv
<1>1. pc[h] = "history" /\ UNCHANGED <<states, saved>> BY DEF AppendHistory
<1>2. /\ job[h] \in Jobs /\ AloneJob("history", job[h]) /\ job[h].event \in saved
      /\ job[h].moved \in Moves
  BY <1>1, JobFacts DEF AloneInv, JobInv
<1>3. PICK e, s, from, to : /\ e = job[h].event /\ s = job[h].moved.student
                            /\ from = job[h].moved.from /\ to = job[h].moved.to
  OBVIOUS
<1> DEFINE m == [event |-> e, student |-> s, from |-> from, to |-> to]
<1>4. Unwritten(e, s) /\ LeadsTo(s, from) /\ to = StateOf(states[s]) /\ s \in Students
  BY <1>2, <1>3 DEF AloneJob, Moves
<1>5. history' = history \cup {m} BY <1>3, <1>4 DEF AppendHistory, Unwritten
<1>6. m.event = e /\ m.student = s /\ m.from = from /\ m.to = to OBVIOUS
<1> HIDE DEF m
<1>7. m \notin history BY <1>4, <1>6 DEF Unwritten
<1>8. /\ IsFiniteSet(history) /\ Chains
      /\ \A move \in history : move.event \in saved
  BY DEF AloneInv
<1>9. IsFiniteSet(history') BY <1>5, <1>8, FS_AddElement
<1>10. \A move \in history' : move.event \in saved' BY <1>1, <1>2, <1>3, <1>5, <1>6, <1>8
<1>11. /\ LeadsTo(s, to)'
       /\ \A x, state : x # s => LeadsTo(x, state)' = LeadsTo(x, state)
  BY <1>4, <1>5, <1>6, <1>7, <1>8, OneMoreMove
<1>12. \A x \in Students : LeadsTo(x, StateOf(states[x]))'
  <2> SUFFICES ASSUME NEW x \in Students PROVE LeadsTo(x, StateOf(states[x]))' OBVIOUS
  <2>1. PICK state : state = StateOf(states[x]) OBVIOUS
  <2>2. state = StateOf(states'[x]) BY <1>1, <2>1 DEF StateOf
  <2>3. CASE x = s BY <1>4, <1>11, <2>1, <2>2, <2>3
  <2>4. CASE x # s
    <3>1. LeadsTo(x, state) BY <1>3, <1>8, <2>1, <2>4 DEF Chains, RunsToItsEnd
    <3> QED BY <1>11, <2>2, <2>4, <3>1
  <2> QED BY <2>3, <2>4
<1>13. "write" \in Steps /\ "idle" \in Steps BY DEF Steps
<1>14. CASE Finish(h) BY <1>9, <1>10, <1>12, <1>13, <1>14, NothingLeft, AloneStep DEF Finish, Go
<1>15. CASE Go(h, "write") /\ job' = [job EXCEPT ![h].moved = None]
  <2>1. PICK j \in Jobs : j = [job[h] EXCEPT !.moved = None] BY <1>2 DEF Jobs
  <2>2. job' = [job EXCEPT ![h] = j] /\ pc' = [pc EXCEPT ![h] = "write"]
    BY <1>0, <1>15, <2>1 DEF TypeOK, Jobs, Go
  <2>3. j.event = e /\ j.before = job[h].before /\ j.todo = job[h].todo
    BY <1>2, <1>3, <2>1 DEF Jobs
  <2>4. \A x \in j.todo : j.before[x] = states'[x] /\ Unwritten(e, x) /\ x # s
    BY <1>1, <1>2, <1>3, <2>3 DEF AloneJob
  <2>5. \A x : x # s /\ Unwritten(e, x) => Unwritten(e, x)' BY <1>5, <1>6 DEF Unwritten
  <2>6. AloneJob("write", j)' BY <2>3, <2>4, <2>5 DEF AloneJob
  <2> QED BY <1>9, <1>10, <1>12, <1>13, <2>2, <2>6, AloneStep
<1> QED BY <1>14, <1>15 DEF AppendHistory

LEMMA InitAlone == Init => AloneInv
<1> SUFFICES ASSUME Init PROVE AloneInv OBVIOUS
<1>1. history = {} /\ IsFiniteSet(history) BY FS_EmptySet DEF Init
<1>2. \A h \in Handlers : AloneJob(pc[h], job[h]) BY NothingLeft DEF Init
<1>3. Chains
  <2> SUFFICES ASSUME NEW s \in Students PROVE LeadsTo(s, StateOf(states[s])) BY DEF Chains
  <2>1. StateOf(states[s]) = "UNKNOWN" BY DEF Init, StateOf
  <2>2. \A x : Entries(s, x) = 0 /\ Departures(s, x) = 0
    <3> SUFFICES ASSUME NEW x PROVE Entries(s, x) = 0 /\ Departures(s, x) = 0 OBVIOUS
    <3>1. /\ {move \in history : move.student = s /\ move.to = x} = {}
          /\ {move \in history : move.student = s /\ move.from = x} = {}
      BY <1>1
    <3> QED BY <3>1, FS_EmptySet DEF Entries, Departures
  <2> QED BY <2>1, <2>2 DEF LeadsTo
<1> QED BY <1>1, <1>2, <1>3 DEF AloneInv

LEMMA NextAlone == RunsToItsEnd /\ IInv /\ AloneInv /\ [Next]_vars => AloneInv'
<1> SUFFICES ASSUME RunsToItsEnd, IInv, AloneInv, [Next]_vars PROVE AloneInv' OBVIOUS
<1>1. ASSUME NEW h \in Handlers, Handle(h) PROVE AloneInv'
  <2>1. ~Fail(h) BY DEF Fail, RunsToItsEnd
  <2> QED BY <1>1, <2>1, ReceiveAlone, SaveAlone, BetweenAlone, ReadStatesAlone,
             WriteStateAlone, AppendHistoryAlone DEF Handle
<1>2. CASE UNCHANGED vars \/ Reassign
  <2>1. UNCHANGED <<saved, states, history, pc, job>> BY <1>2 DEF vars, storeVars, Reassign
  <2>2. \A s, state : LeadsTo(s, state)' = LeadsTo(s, state')
    BY <2>1 DEF LeadsTo, Entries, Departures
  <2>3. \A h \in Handlers : AloneJob(pc[h], job[h])'
    <3> SUFFICES ASSUME NEW h \in Handlers PROVE AloneJob(pc[h], job[h])' OBVIOUS
    <3>1. AloneJob(pc[h], job[h]) BY DEF AloneInv
    <3> QED BY <2>1, <3>1 DEF AloneJob, Unwritten, LeadsTo, Entries, Departures, StateOf
  <2>4. Chains' BY <2>1 DEF AloneInv, Chains, LeadsTo, Entries, Departures, StateOf
  <2> QED BY <2>1, <2>3, <2>4 DEF AloneInv
<1>3. ~Restart BY DEF Restart, RunsToItsEnd
<1> QED BY <1>1, <1>2, <1>3 DEF Next

\* When one handler at a time runs to its end, the history of every student is a chain
\* that leads from UNKNOWN to the state on record, for any number of students, seats,
\* cameras and frames in any order, while an administrator moves students.
THEOREM HistoryChainsTheorem == ASSUME RunsToItsEnd PROVE Spec => []HistoryChains
<1>1. IInv /\ AloneInv => HistoryChains
  BY DEF AloneInv, Chains, LeadsTo, HistoryChains
<1>2. IInv /\ AloneInv /\ [Next]_vars => AloneInv' BY NextAlone
<1> QED BY <1>1, <1>2, InitAlone, Invariance, PTL DEF Spec

=============================================================================
