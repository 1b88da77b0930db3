-------------------------- MODULE IdentityHandover --------------------------
(***************************************************************************)
(* The coordinator of worker/inference that hands the identity an entrance *)
(* camera recognised to a person track of the classroom camera, together   *)
(* with the life cycle of the classroom tracks it relies on.               *)
(*                                                                         *)
(* Two threads use the coordinator, one call at a time under its lock:     *)
(*   - the entry consumer, which calls observe_entry once per face batch;  *)
(*   - the tracking consumer, which for one classroom frame runs           *)
(*     ByteTrackResultHandler.__call__: the tracker update and its         *)
(*     transitions, the removal of expired tracks, the observation of all  *)
(*     tracks and the observation of those shown outside (the enrichment). *)
(* The lock is released between these calls, so entry batches and route    *)
(* refreshes interleave with the four steps of a frame.                    *)
(*                                                                         *)
(* One route (an entry camera, a classroom camera and a door zone) is      *)
(* modelled; routes share no state.  Bounding boxes are abstracted to the  *)
(* set of tracks in the door zone and to the pairs of a lost and a new     *)
(* track whose position and area are close.  Confidences, metrics and logs *)
(* are left out.  Times are captured_at values; each camera's are monotone *)
(* and the two cameras' are unrelated.                                     *)
(***************************************************************************)
EXTENDS Integers

CONSTANTS
  Students,        \* students a face can be recognised as
  Faces,           \* face track ids of the entrance camera
  NumTracks,       \* how many classroom track ids the bound allows
  Times,           \* the captured_at values the bound allows
  MaxDelay,        \* maximum_delay_seconds
  Skew,            \* clock_skew_seconds
  Stale,           \* track_stale_seconds
  Retention,       \* IDENTITY_TRACK_RECOVERY_RETENTION_SECONDS
  TrackBuffer,     \* track_buffer_frames
  RecoveryEnabled, \* identity_track_recovery_enabled
  None

ASSUME HandoverAssumption ==
  /\ NumTracks \in Nat
  /\ Times \in SUBSET Nat /\ 0 \in Times
  /\ MaxDelay \in Nat \ {0}
  /\ Skew \in Nat
  /\ Stale \in Nat /\ Stale > MaxDelay + Skew
  /\ Retention \in Nat
  /\ TrackBuffer \in Nat \ {0}
  /\ RecoveryEnabled \in BOOLEAN
  /\ None \notin Students

Tracks == 1..NumTracks
Never == -1

VARIABLES
  pending,    \* faces waiting for a track: [face, student, at]
  consumedAt, \* when a face track that is used up was last observed, or Never
  active,     \* identities carried by tracks: [track, student, at]
  unmatched,  \* tracks waiting for an identity: [track, at (entry), seen (last)]
  knownAt,    \* when a classroom track was last observed, or Never
  inZone,     \* the known tracks last seen inside the door zone
  recoveries, \* identities of lost tracks that may move: [track, student, at]
  watermark,  \* the latest captured_at the coordinator has processed
  routed,     \* whether a route for the two cameras is configured
  life,       \* ByteTrack: the life-cycle state of each track id
  missed,     \* ByteTrack: consecutive frames without the track
  frame,      \* the classroom frame being handled by the tracking consumer
  entryClock  \* captured_at of the last entry batch

matchVars == <<pending, consumedAt, active, unmatched>>
coordinatorVars == <<matchVars, knownAt, inZone, recoveries, watermark>>
trackerVars == <<life, missed>>
vars == <<coordinatorVars, routed, trackerVars, frame, entryClock>>

-----------------------------------------------------------------------------
(* Expiry and matching, shared by every observation.                       *)

NowAt(at) == IF watermark > at THEN watermark ELSE at

Fresh(records, now, window) == {r \in records : now - r.at <= window}
FreshIn(lastAt, now) == {x \in DOMAIN lastAt : lastAt[x] # Never /\ now - lastAt[x] <= Stale}

StudentsOf(records) == {r.student : r \in records}
TracksOf(records) == {r.track : r \in records}
FacesOf(records) == {r.face : r \in records}
OnTracks(records, tracks) == {r \in records : r.track \in tracks}

FreshPending(now) == Fresh(pending, now, MaxDelay)
FreshUnmatched(now) == Fresh(unmatched, now, MaxDelay + Skew)
FreshActive(now) == Fresh(active, now, Stale)
FreshRecoveries(now) == Fresh(recoveries, now, Retention)

\* Mutant of MatchInputsExpired.
TracksExpired(now) == FreshUnmatched(now) # unmatched

\* _expire reports that the set of waiting faces or waiting tracks shrank.
MatchInputsExpired(now) ==
  FreshPending(now) # pending \/ FreshUnmatched(now) # unmatched

\* A waiting face and a waiting track fit when their times are in the window.
Fits(p, u) == u.at - p.at \in (-Skew)..MaxDelay
Viable(faces, tracks) ==
  {<<q[1].student, q[2].track>> : q \in {r \in faces \X tracks : Fits(r[1], r[2])}}

\* Store the faces left waiting; those of `before` that are gone are used up.
KeepWaiting(left, before, used) ==
  /\ pending' = left
  /\ consumedAt' = [f \in Faces |->
       IF f \in FacesOf(before \ left)
       THEN (CHOOSE p \in before : p.face = f).at ELSE used[f]]

\* Mutant of TryMatch.
TryMatchOneFace(faces, used, carried, tracks) ==
  LET open == {p \in faces : p.student \notin StudentsOf(carried)}
      viable == Viable(open, tracks)
  IN \/ \E u \in tracks, q \in open :
          /\ viable = {<<q.student, u.track>>}
          /\ KeepWaiting(open \ {q}, faces, used)
          /\ active' = carried \cup {[track |-> u.track, student |-> q.student, at |-> u.seen]}
          /\ unmatched' = tracks \ {u}
     \/ /\ \A u \in tracks, s \in StudentsOf(open) : viable # {<<s, u.track>>}
        /\ KeepWaiting(open, faces, used)
        /\ active' = carried
        /\ unmatched' = tracks

\* _try_match: a face waiting for a student who is already carried is used up;
\* then a pair is matched only when it is the only viable one, and with it
\* every face that waits for the same student is used up.
TryMatch(faces, used, carried, tracks) ==
  LET open == {p \in faces : p.student \notin StudentsOf(carried)}
      viable == Viable(open, tracks)
  IN \/ \E u \in tracks, s \in StudentsOf(open) :
          /\ viable = {<<s, u.track>>}
          /\ KeepWaiting({p \in open : p.student # s}, faces, used)
          /\ active' = carried \cup {[track |-> u.track, student |-> s, at |-> u.seen]}
          /\ unmatched' = tracks \ {u}
     \/ /\ \A u \in tracks, s \in StudentsOf(open) : viable # {<<s, u.track>>}
        /\ KeepWaiting(open, faces, used)
        /\ active' = carried
        /\ unmatched' = tracks

StoreUnmatched(faces, used, carried, tracks) ==
  /\ pending' = faces
  /\ consumedAt' = used
  /\ active' = carried
  /\ unmatched' = tracks

-----------------------------------------------------------------------------
(* The entry consumer.                                                     *)

\* The faces of a batch that count: those of registered students who are not
\* carried yet.  recognised[f] = None covers faces that are absent, not REGISTERED
\* or below the minimum confidence, and batches that failed.
Arriving(recognised, carried) ==
  {f \in Faces : recognised[f] # None /\ recognised[f] \notin StudentsOf(carried)}

\* Those on a face track that is neither used up nor locked to somebody else
\* become or stay candidates.  Batches come in captured_at order, so max() with
\* an earlier time is `at`.
ObserveEntry(at, recognised) ==
  LET now == NowAt(at)
      waiting == FreshPending(now)
      carried == FreshActive(now)
      used == FreshIn(consumedAt, now)
      arriving == Arriving(recognised, carried)
      claimed == {f \in arriving \ used :
                    \A p \in waiting : p.face = f => p.student = recognised[f]}
      faces == {p \in waiting : p.face \notin claimed} \cup
               {[face |-> f, student |-> recognised[f], at |-> at] : f \in claimed}
      usedAt == [f \in Faces |-> IF f \notin used THEN Never
                                 ELSE IF f \in arriving THEN at ELSE consumedAt[f]]
  IN /\ entryClock' = at
     /\ UNCHANGED <<routed, trackerVars, frame>>
     /\ \/ /\ routed
           /\ watermark' = now
           /\ recoveries' = FreshRecoveries(now)
           /\ knownAt' = [t \in Tracks |->
                IF t \in FreshIn(knownAt, now) THEN knownAt[t] ELSE Never]
           /\ inZone' = inZone \cap FreshIn(knownAt, now)
           /\ IF claimed # {} \/ MatchInputsExpired(now)
              THEN TryMatch(faces, usedAt, carried, FreshUnmatched(now))
              ELSE StoreUnmatched(faces, usedAt, carried, FreshUnmatched(now))
        \/ /\ ~routed
           /\ UNCHANGED coordinatorVars

-----------------------------------------------------------------------------
(* The tracking consumer: one classroom frame in four steps.               *)

IdleFrame == [phase |-> "idle", at |-> frame.at, seen |-> {}, zone |-> {},
              removed |-> {}]

Alive == {t \in Tracks : life[t] \in {"tentative", "tracked", "lost"}}
Unborn == {t \in Tracks : life[t] = "unborn"}

\* Track ids come from a counter, so new tracks take the lowest unborn ids.
Newborn(seen) == seen \cap Unborn
ConsecutiveBirths(seen) ==
  \A t \in Newborn(seen) : \A u \in Unborn : u < t => u \in seen

MissedAfter(seen) == [t \in Tracks |-> IF t \in Alive \ seen THEN missed[t] + 1 ELSE 0]

Removed(seen) ==
  {t \in Alive \ seen : life[t] = "tentative" \/ missed[t] + 1 > TrackBuffer}

\* CameraByteTracker.update
LifeAfter(seen) ==
  [t \in Tracks |->
     IF t \in Removed(seen) THEN "removed"
     ELSE IF t \in Newborn(seen) THEN "tentative"
     ELSE IF t \in Alive \cap seen THEN "tracked"
     ELSE IF t \in Alive THEN "lost"
     ELSE life[t]]

Lost(seen) == {t \in Alive \ seen : life[t] = "tracked"}
Found(seen) == {t \in Alive \cap seen : life[t] = "lost"}

\* _recover_lost_identities: near is the set of pairs of a lost and a new track
\* that geometry allows; only pairs whose both ends are unambiguous are moved,
\* and only while the lost track is the only carrier of the recorded student.
Moves(near, lost, at) ==
  LET candidates == {p \in near : \E r \in lost : r.track = p[1] /\ at - r.at <= Retention}
  IN {p \in candidates :
        /\ \A q \in candidates : q[1] = p[1] \/ q[2] = p[2] => q = p
        /\ \E r \in lost, a \in active :
             /\ r.track = p[1] /\ a.track = p[1] /\ a.student = r.student
             /\ \A b \in active : b.student = r.student => b.track = p[1]
        /\ p[2] \notin TracksOf(active)}

\* Mutant of MovedCarriers.
MovedCarriersKeepSource(moves, at) ==
  active \cup {[q[1] EXCEPT !.track = q[2][2], !.at = at] :
                 q \in {r \in active \X moves : r[1].track = r[2][1]}}

\* A move takes the identity off the lost track and puts it on the new one.
MovedCarriers(moves, at) ==
  LET sources == {p[1] : p \in moves}
      Target(t) == (CHOOSE p \in moves : p[1] = t)[2]
  IN OnTracks(active, Tracks \ sources) \cup
     {[a EXCEPT !.track = Target(a.track), !.at = at] : a \in OnTracks(active, sources)}

\* handle_track_transitions
HandleTransitions(at, seen, near) ==
  LET newlyLost == OnTracks(active, Lost(seen))
      gone == Lost(seen) \cup Found(seen) \cup Removed(seen)
      lost == OnTracks(FreshRecoveries(at), Tracks \ gone) \cup
              OnTracks(newlyLost, Tracks \ Removed(seen))
      moves == Moves(near, lost, at)
  IN /\ recoveries' = OnTracks(lost, Tracks \ {p[1] : p \in moves})
     /\ active' = MovedCarriers(moves, at)

TrackFrame(at, seen, zone, near) ==
  /\ frame.phase = "idle"
  /\ ConsecutiveBirths(seen)
  /\ life' = LifeAfter(seen)
  /\ missed' = MissedAfter(seen)
  /\ frame' = [phase |-> IF Removed(seen) = {} THEN "observe" ELSE "expire",
               at |-> at, seen |-> seen, zone |-> zone, removed |-> Removed(seen)]
  /\ \/ /\ RecoveryEnabled /\ routed /\ LifeAfter(seen) # life
        /\ HandleTransitions(at, seen, near)
     \/ /\ ~(RecoveryEnabled /\ routed /\ LifeAfter(seen) # life)
        /\ near = {}
        /\ UNCHANGED <<recoveries, active>>
  /\ UNCHANGED <<pending, consumedAt, unmatched, knownAt, inZone, watermark,
                 routed, entryClock>>

\* Mutant of Forget.
ForgetAllButTheZone(kept) ==
  /\ active' = OnTracks(active, kept)
  /\ unmatched' = OnTracks(unmatched, kept)
  /\ recoveries' = OnTracks(recoveries, kept)
  /\ knownAt' = [t \in Tracks |-> IF t \in kept THEN knownAt[t] ELSE Never]
  /\ inZone' = inZone

\* expire_classroom_tracks
Forget(kept) ==
  /\ active' = OnTracks(active, kept)
  /\ unmatched' = OnTracks(unmatched, kept)
  /\ recoveries' = OnTracks(recoveries, kept)
  /\ knownAt' = [t \in Tracks |-> IF t \in kept THEN knownAt[t] ELSE Never]
  /\ inZone' = inZone \cap kept

ExpireRemoved ==
  /\ frame.phase = "expire"
  /\ frame' = [frame EXCEPT !.phase = "observe", !.removed = {}]
  /\ \/ routed /\ Forget(Tracks \ frame.removed)
     \/ ~routed /\ UNCHANGED <<active, unmatched, recoveries, knownAt, inZone>>
  /\ UNCHANGED <<pending, consumedAt, watermark, routed, trackerVars, entryClock>>

\* Mutant of Entered.
EnteredAlthoughCarried(inside, known, carried, waiting) ==
  (inside \ (inZone \cap known)) \ TracksOf(waiting)

\* A track enters when it is seen inside the zone for the first time since it
\* was known outside, and neither carries an identity nor waits for one.
Entered(inside, known, carried, waiting) ==
  (inside \ (inZone \cap known)) \ TracksOf(carried \cup waiting)

\* _observe_classroom_tracks for the people of one detection result.  Frames come
\* in captured_at order, so max() with an earlier time of this camera is `at`.
ObserveClassroomTracks(at, people) ==
  LET now == NowAt(at)
      known == FreshIn(knownAt, now)
      inside == frame.zone \cap people
      carried == FreshActive(now)
      waiting == FreshUnmatched(now)
      entered == Entered(inside, known, carried, waiting)
      carriers == {[a EXCEPT !.at = IF a.track \in people THEN at ELSE a.at] : a \in carried}
      tracks == {[u EXCEPT !.seen = IF u.track \in people THEN at ELSE u.seen] : u \in waiting}
                \cup {[track |-> t, at |-> at, seen |-> at] : t \in entered}
      usedAt == [f \in Faces |-> IF f \in FreshIn(consumedAt, now) THEN consumedAt[f]
                                 ELSE Never]
  IN /\ watermark' = now
     /\ recoveries' = FreshRecoveries(now)
     /\ knownAt' = [t \in Tracks |-> IF t \in people THEN at
                                     ELSE IF t \in known THEN knownAt[t] ELSE Never]
     /\ inZone' = ((inZone \cap known) \ people) \cup inside
     /\ IF entered # {} \/ MatchInputsExpired(now)
        THEN TryMatch(FreshPending(now), usedAt, carriers, tracks)
        ELSE StoreUnmatched(FreshPending(now), usedAt, carriers, tracks)

\* observe_classroom_tracking: every track, the tentative ones included.
ObserveTracking ==
  /\ frame.phase = "observe"
  /\ frame' = [frame EXCEPT !.phase = "enrich"]
  /\ \/ routed /\ ObserveClassroomTracks(frame.at, frame.seen)
     \/ ~routed /\ UNCHANGED coordinatorVars
  /\ UNCHANGED <<routed, trackerVars, entryClock>>

\* enrich_classroom: the result shown outside hides tentative tracks.
EnrichClassroom ==
  /\ frame.phase = "enrich"
  /\ frame' = IdleFrame
  /\ \/ /\ routed
        /\ ObserveClassroomTracks(frame.at, {t \in frame.seen : life[t] # "tentative"})
     \/ ~routed /\ UNCHANGED coordinatorVars
  /\ UNCHANGED <<routed, trackerVars, entryClock>>

-----------------------------------------------------------------------------
(* A refresh that finds different routes builds a new coordinator, whose   *)
(* state is empty; a failed or unchanged load keeps the current one.       *)

RefreshRoutes ==
  /\ routed' \in BOOLEAN
  /\ pending' = {} /\ active' = {} /\ unmatched' = {} /\ recoveries' = {}
  /\ consumedAt' = [f \in Faces |-> Never]
  /\ knownAt' = [t \in Tracks |-> Never]
  /\ inZone' = {}
  /\ watermark' = 0
  /\ UNCHANGED <<trackerVars, frame, entryClock>>

-----------------------------------------------------------------------------
Init ==
  /\ pending = {} /\ active = {} /\ unmatched = {} /\ recoveries = {}
  /\ consumedAt = [f \in Faces |-> Never]
  /\ knownAt = [t \in Tracks |-> Never]
  /\ inZone = {}
  /\ watermark = 0
  /\ routed \in BOOLEAN
  /\ life = [t \in Tracks |-> "unborn"]
  /\ missed = [t \in Tracks |-> 0]
  /\ frame = [phase |-> "idle", at |-> 0, seen |-> {}, zone |-> {}, removed |-> {}]
  /\ entryClock = 0

EntryBatch ==
  \E at \in Times, recognised \in [Faces -> Students \cup {None}] :
    at >= entryClock /\ ObserveEntry(at, recognised)

ClassroomFrame ==
  \E at \in {time \in Times : time >= frame.at} :
    \E seen \in SUBSET (Alive \cup Unborn) :
      \E zone \in SUBSET seen, near \in SUBSET ((Alive \ seen) \X Newborn(seen)) :
        TrackFrame(at, seen, zone, near)

Next ==
  \/ EntryBatch
  \/ ClassroomFrame
  \/ ExpireRemoved
  \/ ObserveTracking
  \/ EnrichClassroom
  \/ RefreshRoutes

Spec == Init /\ [][Next]_vars

-----------------------------------------------------------------------------
(* Properties.                                                             *)

Lives == {"unborn", "tentative", "tracked", "lost", "removed"}
Phases == {"idle", "expire", "observe", "enrich"}

Carriers == [track : Tracks, student : Students, at : Times]

\* Every variable stays within its type.
TypeOK ==
  /\ pending \in SUBSET [face : Faces, student : Students, at : Times]
  /\ consumedAt \in [Faces -> Times \cup {Never}]
  /\ active \in SUBSET Carriers
  /\ unmatched \in SUBSET [track : Tracks, at : Times, seen : Times]
  /\ knownAt \in [Tracks -> Times \cup {Never}]
  /\ inZone \in SUBSET Tracks
  /\ recoveries \in SUBSET Carriers
  /\ watermark \in Times
  /\ routed \in BOOLEAN
  /\ life \in [Tracks -> Lives]
  /\ missed \in [Tracks -> Nat]
  /\ frame \in [phase : Phases, at : Times, seen : SUBSET Tracks,
                zone : SUBSET Tracks, removed : SUBSET Tracks]
  /\ entryClock \in Times

\* A student's identity is on at most one classroom track and a track carries at
\* most one identity, whatever the order of entry batches, frames, recoveries
\* and refreshes.
OneTrackPerStudent ==
  \A a, b \in active : a.student = b.student \/ a.track = b.track => a = b

\* A student whose identity is carried waits at the entrance no more, and a
\* track that carries an identity is no candidate for another one.
CarriedDoesNotWait ==
  /\ StudentsOf(pending) \cap StudentsOf(active) = {}
  /\ TracksOf(unmatched) \cap TracksOf(active) = {}

\* Once ByteTrack has removed a track and the coordinator was told, nothing of
\* it is left: no identity, no zone state, no candidate, no recovery record.
RemovedTracksAreForgotten ==
  \A t \in Tracks :
    life[t] = "removed" /\ ~(frame.phase = "expire" /\ t \in frame.removed) =>
      /\ t \notin TracksOf(active \cup recoveries) \cup TracksOf(unmatched) \cup inZone
      /\ knownAt[t] = Never

\* The identity of a track is locked: a step may take it away, but puts another
\* student in its place only when the track was unseen for longer than Stale.
IdentityIsLocked ==
  [][\A a \in active : \A b \in active' :
       a.track = b.track /\ a.student # b.student => watermark' - a.at > Stale]_vars

ViablePairs == Viable(pending, unmatched)
OnePairLeft == \E p \in ViablePairs : ViablePairs = {p}

\* Only ByteTrack's removal of a track may leave exactly one viable pair
\* unmatched: new faces, new tracks and expiry by time always retry the match.
OnlyRemovalStrandsAPair ==
  [][OnePairLeft' => ViablePairs' = ViablePairs \/ frame.phase = "expire"]_vars

=============================================================================
