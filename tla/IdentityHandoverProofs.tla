----------------------- MODULE IdentityHandoverProofs -----------------------
(***************************************************************************)
(* TLAPS proofs about IdentityHandover, for any sets of students, faces    *)
(* and captured_at values and any number of classroom tracks.              *)
(***************************************************************************)
EXTENDS IdentityHandover, TLAPS

PendingFaces == [face : Faces, student : Students, at : Times]
Waiters == [track : Tracks, at : Times, seen : Times]
Used == [Faces -> Times \cup {Never}]

\* What the three sets a match works on must satisfy together.
Consistent(faces, carried, tracks) ==
  /\ \A a, b \in carried : a.student = b.student \/ a.track = b.track => a = b
  /\ StudentsOf(faces) \cap StudentsOf(carried) = {}
  /\ TracksOf(tracks) \cap TracksOf(carried) = {}
  /\ \A u, v \in tracks : u.track = v.track => u = v

\* The coordinator knows nothing of a track id the tracker has not given out.
UnbornUnknown ==
  \A t \in Tracks : life[t] = "unborn" =>
    t \notin TracksOf(active) \cup TracksOf(unmatched) \cup frame.seen

\* The inductive invariant.
IInv == TypeOK /\ Consistent(pending, active, unmatched) /\ UnbornUnknown

-----------------------------------------------------------------------------
(* Storing the result of an observation, with or without a match.          *)

\* A match or a plain store keeps the three sets well typed and consistent,
\* and only puts a track into active that waited or was carried already.
LEMMA StoreKeepsConsistent ==
  ASSUME NEW faces \in SUBSET PendingFaces, NEW used \in Used,
         NEW carried \in SUBSET Carriers, NEW tracks \in SUBSET Waiters,
         Consistent(faces, carried, tracks),
         \/ TryMatch(faces, used, carried, tracks)
         \/ StoreUnmatched(faces, used, carried, tracks)
  PROVE  /\ pending' \in SUBSET PendingFaces
         /\ consumedAt' \in Used
         /\ active' \in SUBSET Carriers
         /\ unmatched' \in SUBSET Waiters
         /\ Consistent(pending', active', unmatched')
         /\ TracksOf(active') \subseteq TracksOf(carried) \cup TracksOf(tracks)
         /\ unmatched' \subseteq tracks
<1> DEFINE open == {p \in faces : p.student \notin StudentsOf(carried)}
<1>1. CASE StoreUnmatched(faces, used, carried, tracks)
  BY <1>1 DEF StoreUnmatched, TracksOf
<1>2. ASSUME NEW left \in SUBSET faces, KeepWaiting(left, faces, used)
      PROVE  pending' = left /\ pending' \in SUBSET PendingFaces /\ consumedAt' \in Used
  <2>1. ASSUME NEW f \in Faces, f \in FacesOf(faces \ left)
        PROVE  (CHOOSE p \in faces : p.face = f).at \in Times
    <3>1. PICK p \in faces : p.face = f
      BY <2>1 DEF FacesOf
    <3>2. (CHOOSE q \in faces : q.face = f) \in faces
      BY <3>1
    <3>. QED
      BY <3>2 DEF PendingFaces
  <2>. QED
    BY <1>2, <2>1 DEF KeepWaiting, Used
<1>3. ASSUME NEW u \in tracks, NEW s \in StudentsOf(open),
             KeepWaiting({p \in open : p.student # s}, faces, used),
             active' = carried \cup {[track |-> u.track, student |-> s, at |-> u.seen]},
             unmatched' = tracks \ {u}
      PROVE  /\ pending' \in SUBSET PendingFaces
             /\ consumedAt' \in Used
             /\ active' \in SUBSET Carriers
             /\ unmatched' \in SUBSET Waiters
             /\ Consistent(pending', active', unmatched')
             /\ TracksOf(active') \subseteq TracksOf(carried) \cup TracksOf(tracks)
             /\ unmatched' \subseteq tracks
  <2> DEFINE new == [track |-> u.track, student |-> s, at |-> u.seen]
  <2>1. pending' = {p \in open : p.student # s} /\ pending' \in SUBSET PendingFaces
        /\ consumedAt' \in Used
    BY <1>2, <1>3
  <2>2. s \in Students /\ s \notin StudentsOf(carried)
    BY <1>3 DEF StudentsOf, PendingFaces
  <2>3. u.track \in Tracks /\ u.seen \in Times /\ u.track \notin TracksOf(carried)
    BY DEF Waiters, Consistent, TracksOf
  <2>4. active' \in SUBSET Carriers
    BY <1>3, <2>2, <2>3 DEF Carriers
  <2>5. \A a, b \in active' : a.student = b.student \/ a.track = b.track => a = b
    <3>1. \A a \in carried : a.student # new.student /\ a.track # new.track
      BY <2>2, <2>3 DEF StudentsOf, TracksOf
    <3>. QED
      BY <1>3, <3>1 DEF Consistent
  <2>6. StudentsOf(pending') \cap StudentsOf(active') = {}
    BY <1>3, <2>1 DEF StudentsOf
  <2>7. TracksOf(unmatched') \cap TracksOf(active') = {}
    BY <1>3 DEF TracksOf, Consistent
  <2>8. TracksOf(active') \subseteq TracksOf(carried) \cup TracksOf(tracks)
    BY <1>3 DEF TracksOf
  <2>. QED
    BY <1>3, <2>1, <2>4, <2>5, <2>6, <2>7, <2>8 DEF Consistent
<1>4. ASSUME KeepWaiting(open, faces, used), active' = carried, unmatched' = tracks
      PROVE  /\ pending' \in SUBSET PendingFaces
             /\ consumedAt' \in Used
             /\ active' \in SUBSET Carriers
             /\ unmatched' \in SUBSET Waiters
             /\ Consistent(pending', active', unmatched')
             /\ TracksOf(active') \subseteq TracksOf(carried) \cup TracksOf(tracks)
             /\ unmatched' \subseteq tracks
  <2>1. pending' = open /\ pending' \in SUBSET PendingFaces /\ consumedAt' \in Used
    BY <1>2, <1>4
  <2>. QED
    BY <1>4, <2>1 DEF Consistent, StudentsOf
<1>5. CASE TryMatch(faces, used, carried, tracks)
  BY <1>3, <1>4, <1>5 DEF TryMatch
<1>. QED
  BY <1>1, <1>5

-----------------------------------------------------------------------------
(* The steps that observe something.                                       *)

\* What expiry leaves is still typed and consistent.
LEMMA FreshIsConsistent ==
  ASSUME IInv, NEW now
  PROVE  /\ FreshPending(now) \in SUBSET PendingFaces
         /\ FreshActive(now) \in SUBSET Carriers
         /\ FreshUnmatched(now) \in SUBSET Waiters
         /\ FreshRecoveries(now) \in SUBSET Carriers
         /\ FreshActive(now) \subseteq active
         /\ FreshUnmatched(now) \subseteq unmatched
         /\ Consistent(FreshPending(now), FreshActive(now), FreshUnmatched(now))
<1>1. /\ FreshPending(now) \subseteq pending
      /\ FreshActive(now) \subseteq active
      /\ FreshUnmatched(now) \subseteq unmatched
      /\ FreshRecoveries(now) \subseteq recoveries
  BY DEF FreshPending, FreshActive, FreshUnmatched, FreshRecoveries, Fresh
<1>2. Consistent(FreshPending(now), FreshActive(now), FreshUnmatched(now))
  BY <1>1 DEF IInv, Consistent, StudentsOf, TracksOf
<1>. QED
  BY <1>1, <1>2 DEF IInv, TypeOK, PendingFaces, Waiters

\* The tracks the coordinator can carry or keep waiting after a step are born
\* when they were before, or are among the people of the frame.
LEMMA UnbornStaysUnknown ==
  ASSUME IInv, UNCHANGED life, frame'.seen \subseteq frame.seen,
         TracksOf(active') \subseteq TracksOf(active) \cup TracksOf(unmatched) \cup frame.seen,
         TracksOf(unmatched') \subseteq TracksOf(unmatched) \cup frame.seen
  PROVE  UnbornUnknown'
  BY DEF IInv, UnbornUnknown

\* Every entry batch keeps the invariant.
LEMMA ObserveEntryKeeps ==
  ASSUME IInv, NEW at \in Times, NEW recognised \in [Faces -> Students \cup {None}],
         ObserveEntry(at, recognised)
  PROVE  IInv'
<1> DEFINE now == NowAt(at)
           waiting == FreshPending(now)
           carried == FreshActive(now)
           used == FreshIn(consumedAt, now)
           arriving == Arriving(recognised, carried)
           claimed == {f \in arriving \ used :
                         \A p \in waiting : p.face = f => p.student = recognised[f]}
           faces == {p \in waiting : p.face \notin claimed} \cup
                    {[face |-> f, student |-> recognised[f], at |-> at] : f \in claimed}
           usedAt == [f \in Faces |-> IF f \notin used THEN Never
                                      ELSE IF f \in arriving THEN at ELSE consumedAt[f]]
<1>1. entryClock' = at /\ UNCHANGED <<routed, life, missed, frame>>
  BY DEF ObserveEntry, trackerVars
<1>2. CASE ~routed
  <2>1. UNCHANGED coordinatorVars
    BY <1>2 DEF ObserveEntry
  <2>. QED
    BY <1>1, <2>1 DEF IInv, TypeOK, Consistent, UnbornUnknown, coordinatorVars, matchVars,
                      StudentsOf, TracksOf
<1>3. CASE routed
  <2>1. /\ watermark' = now
        /\ recoveries' = FreshRecoveries(now)
        /\ knownAt' = [t \in Tracks |->
             IF t \in FreshIn(knownAt, now) THEN knownAt[t] ELSE Never]
        /\ inZone' = inZone \cap FreshIn(knownAt, now)
        /\ \/ TryMatch(faces, usedAt, carried, FreshUnmatched(now))
           \/ StoreUnmatched(faces, usedAt, carried, FreshUnmatched(now))
    BY <1>3 DEF ObserveEntry
  <2>2. faces \in SUBSET PendingFaces
    BY FreshIsConsistent DEF PendingFaces, Arriving
  <2>3. usedAt \in Used
    BY DEF IInv, TypeOK, Used
  <2>4. Consistent(faces, carried, FreshUnmatched(now))
    <3>0. Consistent(waiting, carried, FreshUnmatched(now))
      BY FreshIsConsistent
    <3>a. \A p \in waiting : p.student \notin StudentsOf(carried)
      <4>. HIDE DEF waiting, carried
      <4>. QED
        BY <3>0 DEF Consistent, StudentsOf
    <3>b. \A f \in claimed : recognised[f] \notin StudentsOf(carried)
      BY DEF Arriving
    <3>1. \A p \in faces : p.student \notin StudentsOf(carried)
      BY <3>a, <3>b
    <3>. HIDE DEF faces, carried
    <3>2. StudentsOf(faces) \cap StudentsOf(carried) = {}
      BY <3>1 DEF StudentsOf
    <3>. QED
      BY <3>2, FreshIsConsistent DEF Consistent, carried
  <2>. HIDE DEF faces, usedAt, carried
  <2>5. /\ pending' \in SUBSET PendingFaces
        /\ consumedAt' \in Used
        /\ active' \in SUBSET Carriers
        /\ unmatched' \in SUBSET Waiters
        /\ Consistent(pending', active', unmatched')
        /\ TracksOf(active') \subseteq TracksOf(carried) \cup TracksOf(FreshUnmatched(now))
        /\ unmatched' \subseteq FreshUnmatched(now)
    BY <2>1, <2>2, <2>3, <2>4, StoreKeepsConsistent, FreshIsConsistent DEF carried
  <2>6. now \in Times
    BY DEF NowAt, IInv, TypeOK
  <2>. HIDE DEF now
  <2>7. TypeOK'
    <3>1. recoveries' \in SUBSET Carriers
      BY <2>1, FreshIsConsistent
    <3>2. knownAt' \in [Tracks -> Times \cup {Never}] /\ inZone' \in SUBSET Tracks
      BY <2>1 DEF IInv, TypeOK
    <3>. QED
      BY <1>1, <2>1, <2>5, <2>6, <3>1, <3>2 DEF TypeOK, IInv, PendingFaces, Waiters, Used
  <2>8. UnbornUnknown'
    <3>1. TracksOf(active') \subseteq TracksOf(active) \cup TracksOf(unmatched)
      BY <2>5, FreshIsConsistent DEF TracksOf, carried
    <3>2. TracksOf(unmatched') \subseteq TracksOf(unmatched)
      BY <2>5, FreshIsConsistent DEF TracksOf
    <3>. QED
      BY <1>1, <3>1, <3>2, UnbornStaysUnknown
  <2>. QED
    BY <2>5, <2>7, <2>8 DEF IInv, Consistent, StudentsOf, TracksOf
<1>. QED
  BY <1>2, <1>3

\* Observing the people of a frame keeps the coordinator typed and consistent,
\* and makes only tracks known that it knew or that are among the people.
LEMMA ObserveClassroomTracksKeeps ==
  ASSUME IInv, NEW at \in Times, NEW people \in SUBSET Tracks,
         ObserveClassroomTracks(at, people)
  PROVE  /\ pending' \in SUBSET PendingFaces
         /\ consumedAt' \in Used
         /\ active' \in SUBSET Carriers
         /\ unmatched' \in SUBSET Waiters
         /\ Consistent(pending', active', unmatched')
         /\ TracksOf(active') \subseteq TracksOf(active) \cup TracksOf(unmatched) \cup people
         /\ TracksOf(unmatched') \subseteq TracksOf(unmatched) \cup people
         /\ recoveries' \in SUBSET Carriers
         /\ knownAt' \in [Tracks -> Times \cup {Never}]
         /\ inZone' \in SUBSET Tracks
         /\ watermark' \in Times
<1> DEFINE now == NowAt(at)
           known == FreshIn(knownAt, now)
           inside == frame.zone \cap people
           carried == FreshActive(now)
           waiting == FreshUnmatched(now)
           entered == Entered(inside, known, carried, waiting)
           Renewed(a) == [a EXCEPT !.at = IF a.track \in people THEN at ELSE a.at]
           Reseen(u) == [u EXCEPT !.seen = IF u.track \in people THEN at ELSE u.seen]
           carriers == {Renewed(a) : a \in carried}
           Entering(t) == [track |-> t, at |-> at, seen |-> at]
           tracks == {Reseen(u) : u \in waiting} \cup {Entering(t) : t \in entered}
           usedAt == [f \in Faces |-> IF f \in FreshIn(consumedAt, now) THEN consumedAt[f]
                                      ELSE Never]
<1>1. /\ watermark' = now
      /\ recoveries' = FreshRecoveries(now)
      /\ knownAt' = [t \in Tracks |-> IF t \in people THEN at
                                      ELSE IF t \in known THEN knownAt[t] ELSE Never]
      /\ inZone' = ((inZone \cap known) \ people) \cup inside
      /\ \/ TryMatch(FreshPending(now), usedAt, carriers, tracks)
         \/ StoreUnmatched(FreshPending(now), usedAt, carriers, tracks)
  BY DEF ObserveClassroomTracks
<1>2. now \in Times
  BY DEF NowAt, IInv, TypeOK
<1>3. usedAt \in Used
  BY DEF IInv, TypeOK, Used
<1>4. knownAt' \in [Tracks -> Times \cup {Never}] /\ inZone' \in SUBSET Tracks
  BY <1>1 DEF IInv, TypeOK
<1> HIDE DEF now, usedAt, known
<1>5. /\ FreshPending(now) \in SUBSET PendingFaces
      /\ carried \in SUBSET Carriers /\ carried \subseteq active
      /\ waiting \in SUBSET Waiters /\ waiting \subseteq unmatched
      /\ FreshRecoveries(now) \in SUBSET Carriers
      /\ Consistent(FreshPending(now), carried, waiting)
  BY FreshIsConsistent
<1> HIDE DEF carried, waiting
<1>6. carriers \in SUBSET Carriers
  BY <1>5 DEF Carriers
<1>7. tracks \in SUBSET Waiters
  BY <1>5 DEF Waiters, Entered
<1>a. \A a \in carried : Renewed(a).student = a.student /\ Renewed(a).track = a.track
  BY <1>5 DEF Carriers
<1>b. \A u \in waiting : Reseen(u).track = u.track
  BY <1>5 DEF Waiters
<1>c. \A t \in entered : Entering(t).track = t
  OBVIOUS
<1> HIDE DEF Renewed, Reseen, Entering
<1>8. /\ StudentsOf(carriers) = StudentsOf(carried)
      /\ TracksOf(carriers) = TracksOf(carried)
  BY <1>a DEF StudentsOf, TracksOf
<1>9. TracksOf(tracks) = TracksOf(waiting) \cup entered
  <2>1. TracksOf({Reseen(u) : u \in waiting}) = TracksOf(waiting)
    BY <1>b DEF TracksOf
  <2>. HIDE DEF entered
  <2>2. TracksOf({Entering(t) : t \in entered}) = entered
    BY <1>c DEF TracksOf
  <2>. QED
    BY <2>1, <2>2 DEF TracksOf
<1>10. \A a, b \in carriers : a.student = b.student \/ a.track = b.track => a = b
  <2>1. \A a, b \in carried : a.student = b.student \/ a.track = b.track => a = b
    BY <1>5 DEF Consistent
  <2>. QED
    BY <1>a, <2>1
<1>11. \A u, v \in tracks : u.track = v.track => u = v
  <2>1. \A u, v \in waiting : u.track = v.track => u = v
    BY <1>5 DEF Consistent
  <2>2. \A u \in waiting : u.track \notin entered
    BY DEF TracksOf, Entered
  <2>. HIDE DEF entered
  <2>3. ASSUME NEW u \in tracks, NEW v \in tracks, u.track = v.track
        PROVE  u = v
    <3>1. CASE u.track \in entered
      <4>1. u = Entering(u.track) /\ v = Entering(v.track)
        BY <2>2, <2>3, <3>1, <1>b, <1>c
      <4>. QED
        BY <2>3, <4>1
    <3>2. CASE u.track \notin entered
      <4>1. PICK x \in waiting : u = Reseen(x)
        BY <3>2, <1>c
      <4>2. PICK y \in waiting : v = Reseen(y)
        BY <2>3, <3>2, <1>c
      <4>3. x.track = u.track /\ y.track = v.track
        BY <1>b, <4>1, <4>2
      <4>. QED
        BY <2>1, <2>3, <4>1, <4>2, <4>3
    <3>. QED
      BY <3>1, <3>2
  <2>. QED
    BY <2>3
<1>12. Consistent(FreshPending(now), carriers, tracks)
  <2>1. entered \cap TracksOf(carried) = {}
    BY DEF TracksOf, Entered
  <2>. QED
    BY <1>5, <1>8, <1>9, <1>10, <1>11, <2>1 DEF Consistent
<1>13. entered \subseteq people
  BY DEF Entered
<1> HIDE DEF carriers, tracks, entered
<1>14. /\ pending' \in SUBSET PendingFaces
       /\ consumedAt' \in Used
       /\ active' \in SUBSET Carriers
       /\ unmatched' \in SUBSET Waiters
       /\ Consistent(pending', active', unmatched')
       /\ TracksOf(active') \subseteq TracksOf(carriers) \cup TracksOf(tracks)
       /\ unmatched' \subseteq tracks
  BY <1>1, <1>3, <1>5, <1>6, <1>7, <1>12, StoreKeepsConsistent
<1>15. TracksOf(carried) \subseteq TracksOf(active) /\ TracksOf(waiting) \subseteq TracksOf(unmatched)
  BY <1>5 DEF TracksOf
<1>16. TracksOf(unmatched') \subseteq TracksOf(tracks)
  BY <1>14 DEF TracksOf
<1>. QED
  BY <1>1, <1>2, <1>4, <1>5, <1>8, <1>9, <1>13, <1>14, <1>15, <1>16

-----------------------------------------------------------------------------
(* Recovery of lost identities.                                            *)

\* Moving identities from lost tracks to new ones keeps the carriers distinct
\* and gives every move a track of its own that nobody knew.
LEMMA HandleTransitionsKeeps ==
  ASSUME IInv, NEW at \in Times, NEW seen \in SUBSET Tracks,
         NEW near \in SUBSET (Tracks \X Newborn(seen)),
         HandleTransitions(at, seen, near)
  PROVE  /\ active' \in SUBSET Carriers
         /\ recoveries' \in SUBSET Carriers
         /\ Consistent(pending, active', unmatched)
         /\ TracksOf(active') \subseteq TracksOf(active) \cup Newborn(seen)
<1> DEFINE newlyLost == OnTracks(active, Lost(seen))
           gone == Lost(seen) \cup Found(seen) \cup Removed(seen)
           lost == OnTracks(FreshRecoveries(at), Tracks \ gone) \cup
                   OnTracks(newlyLost, Tracks \ Removed(seen))
           moves == Moves(near, lost, at)
           sources == {p[1] : p \in moves}
           Target(t) == (CHOOSE p \in moves : p[1] = t)[2]
           Moved(a) == [a EXCEPT !.track = Target(a.track), !.at = at]
           kept == OnTracks(active, Tracks \ sources)
<1>1. /\ recoveries' = OnTracks(lost, Tracks \ sources)
      /\ active' = kept \cup {Moved(a) : a \in OnTracks(active, sources)}
  BY DEF HandleTransitions, MovedCarriers
<1>2. lost \in SUBSET Carriers
  BY FreshIsConsistent DEF OnTracks, IInv, TypeOK
<1> HIDE DEF lost
<1>3. /\ moves \subseteq near
      /\ \A p \in moves : p[2] \notin TracksOf(active)
      /\ \A p, q \in moves : p[1] = q[1] \/ p[2] = q[2] => p = q
  BY DEF Moves
<1> HIDE DEF moves
<1>4. \A a \in OnTracks(active, sources) :
        /\ \E p \in moves : p[1] = a.track /\ p[2] = Target(a.track)
        /\ Target(a.track) \in Newborn(seen)
        /\ Target(a.track) \notin TracksOf(active)
  <2> SUFFICES ASSUME NEW a \in OnTracks(active, sources)
               PROVE  /\ \E p \in moves : p[1] = a.track /\ p[2] = Target(a.track)
                      /\ Target(a.track) \in Newborn(seen)
                      /\ Target(a.track) \notin TracksOf(active)
    OBVIOUS
  <2>1. \E p \in moves : p[1] = a.track
    BY DEF OnTracks
  <2>2. (CHOOSE p \in moves : p[1] = a.track) \in moves
        /\ (CHOOSE p \in moves : p[1] = a.track)[1] = a.track
    BY <2>1
  <2>. QED
    BY <1>3, <2>2
<1> HIDE DEF Target
<1>5. \A a \in OnTracks(active, sources) :
        /\ Moved(a).student = a.student
        /\ Moved(a).track = Target(a.track)
        /\ Moved(a) \in Carriers
  <2>1. Newborn(seen) \subseteq Tracks
    BY DEF Newborn
  <2>2. \A a \in OnTracks(active, sources) : a \in Carriers
    BY DEF OnTracks, IInv, TypeOK
  <2>. QED
    BY <1>4, <2>1, <2>2 DEF Carriers
<1> HIDE DEF Moved
<1>6. active' \in SUBSET Carriers
  BY <1>1, <1>5 DEF OnTracks, IInv, TypeOK
<1>7. recoveries' \in SUBSET Carriers
  BY <1>1, <1>2 DEF OnTracks
<1>8. \A a, b \in active' : a.student = b.student \/ a.track = b.track => a = b
  <2>1. \A a, b \in active : a.student = b.student \/ a.track = b.track => a = b
    BY DEF IInv, Consistent
  <2>2. \A a, b \in kept : a.student = b.student \/ a.track = b.track => a = b
    BY <2>1 DEF OnTracks
  <2>3. ASSUME NEW a \in kept, NEW b \in OnTracks(active, sources)
        PROVE  a.student # Moved(b).student /\ a.track # Moved(b).track
    <3>1. a \in active /\ b \in active /\ a.track \notin sources /\ b.track \in sources
      BY <2>3 DEF OnTracks
    <3>2. a.student # b.student
      BY <2>1, <3>1
    <3>3. a.track # Target(b.track)
      BY <1>4, <3>1 DEF TracksOf
    <3>. QED
      BY <1>5, <3>2, <3>3
  <2>4. ASSUME NEW a \in OnTracks(active, sources), NEW b \in OnTracks(active, sources),
               Moved(a).student = Moved(b).student \/ Moved(a).track = Moved(b).track
        PROVE  a = b
    <3>0. a \in active /\ b \in active
      BY DEF OnTracks
    <3>1. CASE Moved(a).student = Moved(b).student
      BY <1>5, <2>1, <3>0, <3>1
    <3>2. CASE Moved(a).track = Moved(b).track
      <4>1. Target(a.track) = Target(b.track)
        BY <1>5, <3>2
      <4>2. a.track = b.track
        BY <1>3, <1>4, <4>1
      <4>. QED
        BY <2>1, <3>0, <4>2
    <3>. QED
      BY <2>4, <3>1, <3>2
  <2> DEFINE moved == {Moved(a) : a \in OnTracks(active, sources)}
  <2>5. \A a \in kept, m \in moved : a.student # m.student /\ a.track # m.track
    BY <2>3
  <2>6. \A m, n \in moved : m.student = n.student \/ m.track = n.track => m = n
    BY <2>4
  <2>. HIDE DEF kept, moved
  <2>7. active' = kept \cup moved
    BY <1>1 DEF moved
  <2>. QED
    BY <2>2, <2>5, <2>6, <2>7
<1>9. StudentsOf(active') \subseteq StudentsOf(active)
  <2>1. \A a \in OnTracks(active, sources) : Moved(a).student \in StudentsOf(active)
    BY <1>5 DEF OnTracks, StudentsOf
  <2>. QED
    BY <1>1, <2>1 DEF OnTracks, StudentsOf
<1>10. TracksOf(active') \subseteq TracksOf(active) \cup Newborn(seen)
  <2>1. \A a \in OnTracks(active, sources) : Moved(a).track \in Newborn(seen)
    BY <1>4, <1>5
  <2>. QED
    BY <1>1, <2>1 DEF OnTracks, TracksOf
<1>11. Newborn(seen) \cap TracksOf(unmatched) = {}
  BY DEF Newborn, Unborn, IInv, UnbornUnknown
<1>12. Consistent(pending, active', unmatched)
  BY <1>8, <1>9, <1>10, <1>11 DEF IInv, Consistent
<1>. QED
  BY <1>6, <1>7, <1>10, <1>12

-----------------------------------------------------------------------------
(* Each step keeps the invariant.                                          *)

\* The initial state satisfies the invariant.
LEMMA InitEstablishes == Init => IInv
BY HandoverAssumption
   DEF Init, IInv, TypeOK, Consistent, UnbornUnknown, StudentsOf, TracksOf, Lives, Phases, Never

\* The tracker update of a classroom frame, with its transitions, keeps the
\* invariant.
LEMMA TrackFrameKeeps ==
  ASSUME IInv, NEW at \in Times, NEW seen \in SUBSET (Alive \cup Unborn),
         NEW zone \in SUBSET seen, NEW near \in SUBSET ((Alive \ seen) \X Newborn(seen)),
         TrackFrame(at, seen, zone, near)
  PROVE  IInv'
<1>1. seen \in SUBSET Tracks /\ zone \in SUBSET Tracks /\ Removed(seen) \in SUBSET Tracks
  BY DEF Alive, Unborn, Removed
<1>2. near \in SUBSET (Tracks \X Newborn(seen))
  BY DEF Alive
<1>3. /\ life' = LifeAfter(seen) /\ missed' = MissedAfter(seen)
      /\ frame' = [phase |-> IF Removed(seen) = {} THEN "observe" ELSE "expire",
                   at |-> at, seen |-> seen, zone |-> zone, removed |-> Removed(seen)]
      /\ UNCHANGED <<pending, consumedAt, unmatched, knownAt, inZone, watermark,
                     routed, entryClock>>
  BY DEF TrackFrame
<1>4. /\ active' \in SUBSET Carriers
      /\ recoveries' \in SUBSET Carriers
      /\ Consistent(pending, active', unmatched)
      /\ TracksOf(active') \subseteq TracksOf(active) \cup Newborn(seen)
  <2>1. CASE HandleTransitions(at, seen, near)
    BY <1>1, <1>2, <2>1, HandleTransitionsKeeps
  <2>2. CASE UNCHANGED <<recoveries, active>>
    BY <2>2 DEF IInv, TypeOK, Consistent
  <2>. QED
    BY <2>1, <2>2 DEF TrackFrame
<1>5. life' \in [Tracks -> Lives]
  BY <1>3 DEF LifeAfter, IInv, TypeOK, Lives
<1>6. missed' \in [Tracks -> Nat]
  BY <1>3 DEF MissedAfter, IInv, TypeOK
<1>7. frame' \in [phase : Phases, at : Times, seen : SUBSET Tracks,
                  zone : SUBSET Tracks, removed : SUBSET Tracks]
  BY <1>1, <1>3 DEF Phases
<1>8. TypeOK'
  BY <1>3, <1>4, <1>5, <1>6, <1>7 DEF IInv, TypeOK
<1>9. \A t \in Tracks : life'[t] = "unborn" => life[t] = "unborn" /\ t \notin seen
  BY <1>3 DEF LifeAfter, Alive, Unborn, Newborn, Removed
<1>10. UnbornUnknown'
  BY <1>3, <1>4, <1>9 DEF IInv, UnbornUnknown, Newborn
<1>. QED
  BY <1>3, <1>4, <1>8, <1>10 DEF IInv, Consistent, StudentsOf, TracksOf

\* Forgetting the removed tracks keeps the invariant.
LEMMA ExpireRemovedKeeps ==
  ASSUME IInv, ExpireRemoved
  PROVE  IInv'
<1>1. /\ UNCHANGED <<pending, consumedAt, watermark, routed, life, missed, entryClock>>
      /\ frame' = [frame EXCEPT !.phase = "observe", !.removed = {}]
  BY DEF ExpireRemoved, trackerVars
<1>2. /\ active' \subseteq active /\ unmatched' \subseteq unmatched
      /\ recoveries' \subseteq recoveries /\ inZone' \subseteq inZone
      /\ knownAt' \in [Tracks -> Times \cup {Never}]
  <2>1. CASE routed
    BY <2>1 DEF ExpireRemoved, Forget, OnTracks, IInv, TypeOK
  <2>2. CASE ~routed
    BY <2>2 DEF ExpireRemoved, IInv, TypeOK
  <2>. QED
    BY <2>1, <2>2
<1>3. frame' \in [phase : Phases, at : Times, seen : SUBSET Tracks,
                  zone : SUBSET Tracks, removed : SUBSET Tracks]
      /\ frame'.seen = frame.seen
  BY <1>1 DEF IInv, TypeOK, Phases
<1>4. TypeOK'
  BY <1>1, <1>2, <1>3 DEF IInv, TypeOK
<1>5. TracksOf(active') \subseteq TracksOf(active) /\ TracksOf(unmatched') \subseteq TracksOf(unmatched)
  BY <1>2 DEF TracksOf
<1>6. UnbornUnknown'
  BY <1>1, <1>3, <1>5, UnbornStaysUnknown
<1>7. Consistent(pending, active', unmatched')
  BY <1>2 DEF IInv, Consistent, StudentsOf, TracksOf
<1>. QED
  BY <1>1, <1>4, <1>6, <1>7 DEF IInv, Consistent, StudentsOf, TracksOf

\* Observing all or some people of the frame in hand keeps the invariant.
LEMMA ObservationKeeps ==
  ASSUME IInv, NEW people \in SUBSET frame.seen,
         \/ ObserveClassroomTracks(frame.at, people)
         \/ UNCHANGED coordinatorVars,
         UNCHANGED <<routed, trackerVars, entryClock>>,
         frame' \in [phase : Phases, at : Times, seen : SUBSET Tracks,
                     zone : SUBSET Tracks, removed : SUBSET Tracks],
         frame'.seen \subseteq frame.seen
  PROVE  IInv'
<1>1. frame.at \in Times /\ people \in SUBSET Tracks
  BY DEF IInv, TypeOK
<1>2. UNCHANGED <<routed, life, missed, entryClock>>
  BY DEF trackerVars
<1>3. CASE UNCHANGED coordinatorVars
  <2>1. TypeOK'
    BY <1>2, <1>3 DEF IInv, TypeOK, coordinatorVars, matchVars
  <2>2. UnbornUnknown'
    BY <1>2, <1>3, UnbornStaysUnknown DEF coordinatorVars, matchVars, TracksOf
  <2>3. Consistent(pending', active', unmatched')
    BY <1>3 DEF IInv, coordinatorVars, matchVars
  <2>. QED
    BY <2>1, <2>2, <2>3 DEF IInv, Consistent, StudentsOf, TracksOf
<1>4. CASE ObserveClassroomTracks(frame.at, people)
  <2>1. /\ pending' \in SUBSET PendingFaces
        /\ consumedAt' \in Used
        /\ active' \in SUBSET Carriers
        /\ unmatched' \in SUBSET Waiters
        /\ Consistent(pending', active', unmatched')
        /\ TracksOf(active') \subseteq TracksOf(active) \cup TracksOf(unmatched) \cup people
        /\ TracksOf(unmatched') \subseteq TracksOf(unmatched) \cup people
        /\ recoveries' \in SUBSET Carriers
        /\ knownAt' \in [Tracks -> Times \cup {Never}]
        /\ inZone' \in SUBSET Tracks
        /\ watermark' \in Times
    BY <1>1, <1>4, ObserveClassroomTracksKeeps
  <2>2. TypeOK'
    BY <1>2, <2>1 DEF IInv, TypeOK, PendingFaces, Waiters, Used
  <2>3. UnbornUnknown'
    BY <1>2, <2>1, UnbornStaysUnknown
  <2>. QED
    BY <2>1, <2>2, <2>3 DEF IInv, Consistent, StudentsOf, TracksOf
<1>. QED
  BY <1>3, <1>4

\* The observation of every track keeps the invariant.
LEMMA ObserveTrackingKeeps ==
  ASSUME IInv, ObserveTracking
  PROVE  IInv'
<1>1. frame' \in [phase : Phases, at : Times, seen : SUBSET Tracks,
                  zone : SUBSET Tracks, removed : SUBSET Tracks]
      /\ frame'.seen \subseteq frame.seen
  BY DEF ObserveTracking, IInv, TypeOK, Phases
<1>. QED
  BY <1>1, ObservationKeeps DEF ObserveTracking

\* The observation of the tracks shown outside keeps the invariant.
LEMMA EnrichClassroomKeeps ==
  ASSUME IInv, EnrichClassroom
  PROVE  IInv'
<1>1. frame' \in [phase : Phases, at : Times, seen : SUBSET Tracks,
                  zone : SUBSET Tracks, removed : SUBSET Tracks]
      /\ frame'.seen \subseteq frame.seen
  BY DEF EnrichClassroom, IdleFrame, IInv, TypeOK, Phases
<1>2. {t \in frame.seen : life[t] # "tentative"} \in SUBSET frame.seen
  OBVIOUS
<1>. QED
  BY <1>1, <1>2, ObservationKeeps DEF EnrichClassroom

\* A rebuilt coordinator satisfies the invariant.
LEMMA RefreshRoutesKeeps ==
  ASSUME IInv, RefreshRoutes
  PROVE  IInv'
BY HandoverAssumption
   DEF RefreshRoutes, trackerVars, IInv, TypeOK, Consistent, UnbornUnknown, StudentsOf, TracksOf, Never

\* Every step keeps the invariant.
LEMMA NextKeeps == IInv /\ [Next]_vars => IInv'
<1> SUFFICES ASSUME IInv, [Next]_vars PROVE IInv'
  OBVIOUS
<1>1. CASE EntryBatch
  BY <1>1, ObserveEntryKeeps DEF EntryBatch
<1>2. CASE ClassroomFrame
  BY <1>2, TrackFrameKeeps DEF ClassroomFrame
<1>3. CASE ExpireRemoved
  BY <1>3, ExpireRemovedKeeps
<1>4. CASE ObserveTracking
  BY <1>4, ObserveTrackingKeeps
<1>5. CASE EnrichClassroom
  BY <1>5, EnrichClassroomKeeps
<1>6. CASE RefreshRoutes
  BY <1>6, RefreshRoutesKeeps
<1>7. CASE UNCHANGED vars
  BY <1>7 DEF vars, coordinatorVars, matchVars, trackerVars, IInv, TypeOK, Consistent,
              UnbornUnknown, StudentsOf, TracksOf
<1>. QED
  BY <1>1, <1>2, <1>3, <1>4, <1>5, <1>6, <1>7 DEF Next

\* The invariant holds in every reachable state.
LEMMA InvariantHolds == Spec => []IInv
BY InitEstablishes, NextKeeps, PTL DEF Spec

-----------------------------------------------------------------------------
(* The theorems.                                                           *)

\* Every variable stays within its type, for any number of students, faces and
\* tracks.
THEOREM TypeCorrect == Spec => []TypeOK
<1>1. IInv => TypeOK
  BY DEF IInv
<1>. QED
  BY <1>1, InvariantHolds, PTL

\* The coordinator never has a student on two tracks or two students on a track.
THEOREM IdentityIsUnique == Spec => []OneTrackPerStudent
<1>1. IInv => OneTrackPerStudent
  BY DEF IInv, Consistent, OneTrackPerStudent
<1>. QED
  BY <1>1, InvariantHolds, PTL

\* A carried student has no waiting face and a carrying track waits no more.
THEOREM CarriedIsSettled == Spec => []CarriedDoesNotWait
<1>1. IInv => CarriedDoesNotWait
  BY DEF IInv, Consistent, CarriedDoesNotWait
<1>. QED
  BY <1>1, InvariantHolds, PTL

\* An observation keeps the student of every track whose identity is not stale.
LEMMA ObservationLocks ==
  ASSUME IInv, NEW now \in Times, NEW faces, NEW used, NEW carriers \in SUBSET Carriers,
         NEW tracks, watermark' = now,
         \A a \in FreshActive(now) :
           \E c \in carriers : c.student = a.student /\ c.track = a.track,
         \/ TryMatch(faces, used, carriers, tracks)
         \/ StoreUnmatched(faces, used, carriers, tracks),
         IInv',
         NEW a \in active, NEW b \in active', a.track = b.track, a.student # b.student
  PROVE  watermark' - a.at > Stale
<1>1. carriers \subseteq active'
  BY DEF TryMatch, StoreUnmatched
<1>2. a \notin FreshActive(now)
  <2> SUFFICES ASSUME a \in FreshActive(now) PROVE FALSE
    OBVIOUS
  <2>1. PICK c \in carriers : c.student = a.student /\ c.track = a.track
    OBVIOUS
  <2>2. c = b
    BY <1>1, <2>1 DEF IInv, Consistent
  <2>. QED
    BY <2>1, <2>2
<1>3. ~(now - a.at <= Stale)
  BY <1>2 DEF FreshActive, Fresh
<1>4. now \in Nat /\ a.at \in Nat /\ Stale \in Nat
  BY HandoverAssumption DEF IInv, TypeOK, Carriers
<1>. QED
  BY <1>3, <1>4

\* A recovery moves an identity only to a track that carried none.
LEMMA MovesToNewTracks ==
  ASSUME IInv, NEW at \in Times, NEW seen \in SUBSET Tracks, NEW near,
         HandleTransitions(at, seen, near), NEW b \in active'
  PROVE  b \in active \/ b.track \notin TracksOf(active)
<1> DEFINE newlyLost == OnTracks(active, Lost(seen))
           gone == Lost(seen) \cup Found(seen) \cup Removed(seen)
           lost == OnTracks(FreshRecoveries(at), Tracks \ gone) \cup
                   OnTracks(newlyLost, Tracks \ Removed(seen))
           moves == Moves(near, lost, at)
           sources == {p[1] : p \in moves}
           Target(t) == (CHOOSE p \in moves : p[1] = t)[2]
           Moved(a) == [a EXCEPT !.track = Target(a.track), !.at = at]
<1>1. active' = OnTracks(active, Tracks \ sources) \cup {Moved(a) : a \in OnTracks(active, sources)}
  BY DEF HandleTransitions, MovedCarriers
<1>2. \A p \in moves : p[2] \notin TracksOf(active)
  BY DEF Moves
<1> HIDE DEF moves
<1>3. \A t \in sources : Target(t) \notin TracksOf(active)
  <2> SUFFICES ASSUME NEW t \in sources PROVE Target(t) \notin TracksOf(active)
    OBVIOUS
  <2>1. \E p \in moves : p[1] = t
    OBVIOUS
  <2>2. (CHOOSE p \in moves : p[1] = t) \in moves
    BY <2>1
  <2>. QED
    BY <1>2, <2>2
<1> HIDE DEF Target
<1>4. \A a \in OnTracks(active, sources) : Moved(a).track \notin TracksOf(active)
  <2> SUFFICES ASSUME NEW a \in OnTracks(active, sources)
               PROVE  Moved(a).track \notin TracksOf(active)
    OBVIOUS
  <2>1. a \in Carriers /\ a.track \in sources
    BY DEF OnTracks, IInv, TypeOK
  <2>2. Moved(a).track = Target(a.track)
    BY <2>1 DEF Carriers
  <2>. QED
    BY <1>3, <2>1, <2>2
<1> HIDE DEF Moved
<1>5. CASE b \in OnTracks(active, Tracks \ sources)
  BY <1>5 DEF OnTracks
<1>6. CASE b \in {Moved(a) : a \in OnTracks(active, sources)}
  BY <1>4, <1>6
<1>. QED
  BY <1>1, <1>5, <1>6

\* No step puts another student on a track whose identity is not stale.
LEMMA NextLocks ==
  ASSUME IInv, IInv', [Next]_vars,
         NEW a \in active, NEW b \in active', a.track = b.track, a.student # b.student
  PROVE  watermark' - a.at > Stale
<1>0. ASSUME active' \subseteq active PROVE FALSE
  BY <1>0 DEF IInv, Consistent
<1>1. CASE EntryBatch
  <2>1. PICK at \in Times, recognised \in [Faces -> Students \cup {None}] :
          ObserveEntry(at, recognised)
    BY <1>1 DEF EntryBatch
  <2>2. CASE routed
    <3>1. NowAt(at) \in Times /\ FreshActive(NowAt(at)) \in SUBSET Carriers
      BY FreshIsConsistent DEF NowAt, IInv, TypeOK
    <3>2. /\ watermark' = NowAt(at)
          /\ \E faces, used :
               \/ TryMatch(faces, used, FreshActive(NowAt(at)), FreshUnmatched(NowAt(at)))
               \/ StoreUnmatched(faces, used, FreshActive(NowAt(at)), FreshUnmatched(NowAt(at)))
      BY <2>1, <2>2 DEF ObserveEntry
    <3>. QED
      BY <3>1, <3>2, ObservationLocks
  <2>3. CASE ~routed
    BY <1>0, <2>1, <2>3 DEF ObserveEntry, coordinatorVars, matchVars
  <2>. QED
    BY <2>2, <2>3
<1>2. CASE ClassroomFrame
  <2>1. PICK at \in Times, seen \in SUBSET (Alive \cup Unborn) :
          \/ \E near : HandleTransitions(at, seen, near)
          \/ UNCHANGED <<recoveries, active>>
    BY <1>2 DEF ClassroomFrame, TrackFrame
  <2>2. CASE UNCHANGED <<recoveries, active>>
    BY <1>0, <2>2
  <2>3. CASE \E near : HandleTransitions(at, seen, near)
    <3>1. b \in active \/ b.track \notin TracksOf(active)
      BY <2>3, MovesToNewTracks DEF Alive, Unborn
    <3>. QED
      BY <3>1 DEF IInv, Consistent, TracksOf
  <2>. QED
    BY <2>1, <2>2, <2>3
<1>3. CASE ExpireRemoved
  BY <1>0, <1>3 DEF ExpireRemoved, Forget, OnTracks
<1>4. ASSUME NEW people, ObserveClassroomTracks(frame.at, people)
      PROVE  watermark' - a.at > Stale
  <2> DEFINE now == NowAt(frame.at)
             Renewed(x) == [x EXCEPT !.at = IF x.track \in people THEN frame.at ELSE x.at]
             carriers == {Renewed(x) : x \in FreshActive(now)}
  <2>1. now \in Times /\ frame.at \in Times
    BY DEF NowAt, IInv, TypeOK
  <2>2. /\ watermark' = now
        /\ \E faces, used, tracks : \/ TryMatch(faces, used, carriers, tracks)
                                    \/ StoreUnmatched(faces, used, carriers, tracks)
    BY <1>4 DEF ObserveClassroomTracks
  <2>3. \A x \in FreshActive(now) :
          Renewed(x).student = x.student /\ Renewed(x).track = x.track /\ Renewed(x) \in Carriers
    BY <2>1, FreshIsConsistent DEF Carriers
  <2>. HIDE DEF now, Renewed
  <2>4. /\ carriers \in SUBSET Carriers
        /\ \A x \in FreshActive(now) :
             \E c \in carriers : c.student = x.student /\ c.track = x.track
    BY <2>3
  <2>. QED
    BY <2>1, <2>2, <2>4, ObservationLocks
<1>5. CASE ObserveTracking
  BY <1>0, <1>4, <1>5 DEF ObserveTracking, coordinatorVars, matchVars
<1>6. CASE EnrichClassroom
  BY <1>0, <1>4, <1>6 DEF EnrichClassroom, coordinatorVars, matchVars
<1>7. CASE RefreshRoutes
  BY <1>7 DEF RefreshRoutes
<1>8. CASE UNCHANGED vars
  BY <1>0, <1>8 DEF vars, coordinatorVars, matchVars
<1>. QED
  BY <1>1, <1>2, <1>3, <1>5, <1>6, <1>7, <1>8 DEF Next

\* The identity of a track is locked for as long as the track is not stale.
THEOREM IdentityStaysLocked == Spec => IdentityIsLocked
<1>1. IInv /\ IInv' /\ [Next]_vars =>
        [\A a \in active : \A b \in active' :
           a.track = b.track /\ a.student # b.student => watermark' - a.at > Stale]_vars
  BY NextLocks
<1>. QED
  BY <1>1, InvariantHolds, PTL DEF Spec, IdentityIsLocked

-----------------------------------------------------------------------------
(* Tracks that were removed.                                               *)

\* The tracks the coordinator has a record of.
Recorded ==
  TracksOf(active) \cup TracksOf(unmatched) \cup TracksOf(recoveries) \cup inZone
    \cup {t \in Tracks : knownAt[t] # Never}

Gone == {t \in Tracks : life[t] = "removed"}

\* The removed tracks the coordinator is still to be told about.
Untold == IF frame.phase = "expire" THEN frame.removed ELSE {}

\* What makes RemovedTracksAreForgotten inductive: a frame shows no removed track, and a
\* coordinator without a route has no records.
ForgetInv ==
  /\ (Gone \ Untold) \cap Recorded = {}
  /\ Gone \cap frame.seen = {}
  /\ ~routed => Recorded = {}

\* A match or a plain store lets a track carry or wait only when it did before.
LEMMA StoreTracks ==
  ASSUME NEW faces, NEW used, NEW carried, NEW tracks,
         \/ TryMatch(faces, used, carried, tracks)
         \/ StoreUnmatched(faces, used, carried, tracks)
  PROVE  /\ TracksOf(active') \subseteq TracksOf(carried) \cup TracksOf(tracks)
         /\ unmatched' \subseteq tracks
<1>1. CASE active' = carried /\ unmatched' = tracks
  BY <1>1
<1>2. CASE \E u \in tracks : \E s :
             /\ active' = carried \cup {[track |-> u.track, student |-> s, at |-> u.seen]}
             /\ unmatched' = tracks \ {u}
  <2>1. PICK u \in tracks :
           \E s :
             /\ active' = carried \cup {[track |-> u.track, student |-> s, at |-> u.seen]}
             /\ unmatched' = tracks \ {u}
    BY <1>2
  <2>0. PICK s :
             /\ active' = carried \cup {[track |-> u.track, student |-> s, at |-> u.seen]}
             /\ unmatched' = tracks \ {u}
    BY <2>1
  <2> DEFINE new == [track |-> u.track, student |-> s, at |-> u.seen]
  <2>2. new.track = u.track
    OBVIOUS
  <2>. HIDE DEF new
  <2>3. active' = carried \cup {new}
    BY <2>0 DEF new
  <2>. QED
    BY <2>0, <2>2, <2>3 DEF TracksOf
<1>. QED
  BY <1>1, <1>2 DEF TryMatch, StoreUnmatched

\* An entry batch makes no track known.
LEMMA ObserveEntryRecords ==
  ASSUME IInv, NEW at \in Times, NEW recognised \in [Faces -> Students \cup {None}],
         ObserveEntry(at, recognised)
  PROVE  Recorded' \subseteq Recorded
<1> DEFINE now == NowAt(at)
<1>1. CASE ~routed
  BY <1>1 DEF ObserveEntry, coordinatorVars, matchVars, Recorded, TracksOf
<1>2. CASE routed
  <2>1. /\ recoveries' = FreshRecoveries(now)
        /\ knownAt' = [t \in Tracks |->
             IF t \in FreshIn(knownAt, now) THEN knownAt[t] ELSE Never]
        /\ inZone' = inZone \cap FreshIn(knownAt, now)
        /\ \E faces, used :
             \/ TryMatch(faces, used, FreshActive(now), FreshUnmatched(now))
             \/ StoreUnmatched(faces, used, FreshActive(now), FreshUnmatched(now))
    BY <1>2 DEF ObserveEntry
  <2>2. \A t \in Tracks : knownAt'[t] # Never => knownAt[t] # Never
    BY <2>1
  <2>3. /\ FreshActive(now) \subseteq active /\ FreshUnmatched(now) \subseteq unmatched
        /\ recoveries' \subseteq recoveries
    BY <2>1 DEF FreshActive, FreshUnmatched, FreshRecoveries, Fresh
  <2>4. /\ TracksOf(active') \subseteq TracksOf(FreshActive(now)) \cup TracksOf(FreshUnmatched(now))
        /\ unmatched' \subseteq FreshUnmatched(now)
    BY <2>1, StoreTracks
  <2>5. /\ TracksOf(active') \subseteq TracksOf(active) \cup TracksOf(unmatched)
        /\ TracksOf(unmatched') \subseteq TracksOf(unmatched)
        /\ TracksOf(recoveries') \subseteq TracksOf(recoveries)
    BY <2>3, <2>4 DEF TracksOf
  <2>. QED
    BY <2>1, <2>2, <2>5 DEF Recorded
<1>. QED
  BY <1>1, <1>2

\* An observation makes known only the people it observes.
LEMMA ObserveClassroomTracksRecords ==
  ASSUME IInv, NEW at \in Times, NEW people \in SUBSET Tracks,
         ObserveClassroomTracks(at, people)
  PROVE  Recorded' \subseteq Recorded \cup people
<1>1. /\ TracksOf(active') \subseteq TracksOf(active) \cup TracksOf(unmatched) \cup people
      /\ TracksOf(unmatched') \subseteq TracksOf(unmatched) \cup people
  BY ObserveClassroomTracksKeeps
<1>2. /\ recoveries' \subseteq recoveries
      /\ inZone' \subseteq inZone \cup people
      /\ \A t \in Tracks : knownAt'[t] # Never => knownAt[t] # Never \/ t \in people
  BY DEF ObserveClassroomTracks, FreshRecoveries, Fresh
<1>3. TracksOf(recoveries') \subseteq TracksOf(recoveries)
  BY <1>2 DEF TracksOf
<1>. QED
  BY <1>1, <1>2, <1>3 DEF Recorded

\* The tracker update makes only new tracks known.
LEMMA TrackFrameRecords ==
  ASSUME IInv, NEW at \in Times, NEW seen \in SUBSET (Alive \cup Unborn),
         NEW zone \in SUBSET seen, NEW near \in SUBSET ((Alive \ seen) \X Newborn(seen)),
         TrackFrame(at, seen, zone, near)
  PROVE  /\ Recorded' \subseteq Recorded \cup Newborn(seen)
         /\ ~routed => Recorded' = Recorded
<1>1. UNCHANGED <<unmatched, knownAt, inZone, routed>>
  BY DEF TrackFrame
<1>2. CASE UNCHANGED <<recoveries, active>>
  BY <1>1, <1>2 DEF Recorded, TracksOf
<1>3. CASE routed /\ HandleTransitions(at, seen, near)
  <2>1. seen \in SUBSET Tracks /\ near \in SUBSET (Tracks \X Newborn(seen))
    BY DEF Alive, Unborn
  <2>2. TracksOf(active') \subseteq TracksOf(active) \cup Newborn(seen)
    BY <1>3, <2>1, HandleTransitionsKeeps
  <2>3. recoveries' \subseteq recoveries \cup active
    BY <1>3 DEF HandleTransitions, OnTracks, FreshRecoveries, Fresh
  <2>4. TracksOf(recoveries') \subseteq TracksOf(recoveries) \cup TracksOf(active)
    BY <2>3 DEF TracksOf
  <2>. QED
    BY <1>1, <1>3, <2>2, <2>4 DEF Recorded, TracksOf
<1>. QED
  BY <1>2, <1>3 DEF TrackFrame

\* Each step forgets what it has to.
LEMMA NextForgets == IInv /\ ForgetInv /\ [Next]_vars => ForgetInv'
<1> SUFFICES ASSUME IInv, ForgetInv, [Next]_vars PROVE ForgetInv'
  OBVIOUS
<1>1. CASE EntryBatch
  <2>1. Recorded' \subseteq Recorded /\ UNCHANGED <<routed, life, frame>>
    BY <1>1, ObserveEntryRecords DEF EntryBatch, ObserveEntry, trackerVars
  <2>. QED
    BY <2>1 DEF ForgetInv, Gone, Untold
<1>2. CASE ClassroomFrame
  <2>0. PICK at \in Times, seen \in SUBSET (Alive \cup Unborn) :
          \E zone \in SUBSET seen, near \in SUBSET ((Alive \ seen) \X Newborn(seen)) :
            TrackFrame(at, seen, zone, near)
    BY <1>2 DEF ClassroomFrame
  <2>1. PICK zone \in SUBSET seen, near \in SUBSET ((Alive \ seen) \X Newborn(seen)) :
          TrackFrame(at, seen, zone, near)
    BY <2>0
  <2>2. /\ frame.phase = "idle" /\ routed' = routed
        /\ life' = LifeAfter(seen)
        /\ frame' = [phase |-> IF Removed(seen) = {} THEN "observe" ELSE "expire",
                     at |-> at, seen |-> seen, zone |-> zone, removed |-> Removed(seen)]
    BY <2>1 DEF TrackFrame
  <2>3. /\ Recorded' \subseteq Recorded \cup Newborn(seen)
        /\ ~routed => Recorded' = Recorded
    BY <2>1, TrackFrameRecords
  <2>4. Untold = {} /\ Untold' = Removed(seen)
    BY <2>2 DEF Untold
  <2>5. Gone' = Gone \cup Removed(seen)
    BY <2>2 DEF Gone, LifeAfter, Alive, Removed, Newborn, Unborn
  <2>6. Gone' \cap seen = {} /\ Gone \cap Newborn(seen) = {}
    BY <2>5 DEF Gone, Removed, Alive, Unborn, Newborn
  <2>. QED
    BY <2>2, <2>3, <2>4, <2>5, <2>6 DEF ForgetInv
<1>3. CASE ExpireRemoved
  <2>1. /\ frame.phase = "expire" /\ UNCHANGED <<routed, life>>
        /\ frame' = [frame EXCEPT !.phase = "observe", !.removed = {}]
    BY <1>3 DEF ExpireRemoved, trackerVars
  <2>2. frame'.seen = frame.seen /\ Untold' = {} /\ Untold = frame.removed
    BY <2>1 DEF Untold, IInv, TypeOK
  <2>3. Recorded' \subseteq Recorded \ frame.removed
    <3>1. CASE routed
      <4> DEFINE kept == Tracks \ frame.removed
      <4>1. /\ active' = OnTracks(active, kept) /\ unmatched' = OnTracks(unmatched, kept)
            /\ recoveries' = OnTracks(recoveries, kept)
            /\ knownAt' = [t \in Tracks |-> IF t \in kept THEN knownAt[t] ELSE Never]
            /\ inZone' = inZone \cap kept
        BY <1>3, <3>1 DEF ExpireRemoved, Forget
      <4>2. /\ TracksOf(active') \subseteq TracksOf(active) \cap kept
            /\ TracksOf(unmatched') \subseteq TracksOf(unmatched) \cap kept
            /\ TracksOf(recoveries') \subseteq TracksOf(recoveries) \cap kept
        BY <4>1 DEF OnTracks, TracksOf
      <4>3. \A t \in Tracks : knownAt'[t] # Never => t \in kept /\ knownAt[t] # Never
        BY <4>1
      <4>. QED
        BY <4>1, <4>2, <4>3 DEF Recorded
    <3>2. CASE ~routed
      BY <1>3, <3>2 DEF ExpireRemoved, ForgetInv, Recorded, TracksOf
    <3>. QED
      BY <3>1, <3>2
  <2>. QED
    BY <2>1, <2>2, <2>3 DEF ForgetInv, Gone
<1>4. ASSUME UNCHANGED <<routed, life>>, frame.phase # "expire", frame'.phase # "expire",
             frame'.seen \subseteq frame.seen,
             \/ \E people \in SUBSET frame.seen : routed /\ ObserveClassroomTracks(frame.at, people)
             \/ UNCHANGED coordinatorVars
      PROVE  ForgetInv'
  <2>1. Untold = {} /\ Untold' = {} /\ Gone' = Gone
    BY <1>4 DEF Untold, Gone
  <2>2. CASE UNCHANGED coordinatorVars
    BY <1>4, <2>1, <2>2 DEF ForgetInv, Recorded, TracksOf, coordinatorVars, matchVars
  <2>3. CASE \E people \in SUBSET frame.seen : routed /\ ObserveClassroomTracks(frame.at, people)
    <3>1. frame.at \in Times /\ frame.seen \in SUBSET Tracks
      BY DEF IInv, TypeOK
    <3>2. routed /\ Recorded' \subseteq Recorded \cup frame.seen
      BY <2>3, <3>1, ObserveClassroomTracksRecords
    <3>. QED
      BY <1>4, <2>1, <3>2 DEF ForgetInv
  <2>. QED
    BY <1>4, <2>2, <2>3
<1>5. CASE ObserveTracking
  <2>1. /\ UNCHANGED <<routed, life>> /\ frame.phase # "expire"
        /\ frame'.phase # "expire" /\ frame'.seen = frame.seen
    BY <1>5 DEF ObserveTracking, trackerVars, IInv, TypeOK
  <2>. QED
    BY <1>4, <1>5, <2>1 DEF ObserveTracking
<1>6. CASE EnrichClassroom
  <2>1. /\ UNCHANGED <<routed, life>> /\ frame.phase # "expire"
        /\ frame'.phase # "expire" /\ frame'.seen = {}
    BY <1>6 DEF EnrichClassroom, IdleFrame, trackerVars
  <2>2. {t \in frame.seen : life[t] # "tentative"} \in SUBSET frame.seen
    OBVIOUS
  <2>. QED
    BY <1>4, <1>6, <2>1, <2>2 DEF EnrichClassroom
<1>7. CASE RefreshRoutes
  <2>1. Recorded' = {}
    BY <1>7 DEF RefreshRoutes, Recorded, TracksOf
  <2>2. UNCHANGED <<life, frame>>
    BY <1>7 DEF RefreshRoutes, trackerVars
  <2>. QED
    BY <2>1, <2>2 DEF ForgetInv, Gone
<1>8. CASE UNCHANGED vars
  BY <1>8 DEF vars, coordinatorVars, matchVars, trackerVars, ForgetInv, Recorded, Gone, Untold,
              TracksOf
<1>. QED
  BY <1>1, <1>2, <1>3, <1>5, <1>6, <1>7, <1>8 DEF Next

\* Nothing of a removed track is left once the coordinator was told, whatever entry
\* batches and refreshes come between.
THEOREM RemovedAreForgotten == Spec => []RemovedTracksAreForgotten
<1>1. Init => ForgetInv
  BY DEF Init, ForgetInv, Gone, Recorded, TracksOf, Untold
<1>2. ForgetInv => RemovedTracksAreForgotten
  <2> SUFFICES ASSUME ForgetInv, NEW t \in Tracks, life[t] = "removed",
                      ~(frame.phase = "expire" /\ t \in frame.removed)
               PROVE  /\ t \notin TracksOf(active \cup recoveries) \cup TracksOf(unmatched) \cup inZone
                      /\ knownAt[t] = Never
    BY DEF RemovedTracksAreForgotten
  <2>1. t \notin Recorded
    BY DEF ForgetInv, Gone, Untold
  <2>. QED
    BY <2>1 DEF Recorded, TracksOf
<1>. QED
  BY <1>1, <1>2, NextForgets, InvariantHolds, PTL DEF Spec

-----------------------------------------------------------------------------
(* Pairs that are left unmatched.                                          *)

\* What it takes to be a viable pair.
LEMMA ViablePair ==
  ASSUME NEW faces, NEW tracks, NEW p
  PROVE  p \in Viable(faces, tracks) <=>
           \E q \in faces, u \in tracks : Fits(q, u) /\ p = <<q.student, u.track>>
<1>1. ASSUME p \in Viable(faces, tracks)
      PROVE  \E q \in faces, u \in tracks : Fits(q, u) /\ p = <<q.student, u.track>>
  <2>1. PICK r \in faces \X tracks : Fits(r[1], r[2]) /\ p = <<r[1].student, r[2].track>>
    BY <1>1 DEF Viable
  <2>. QED
    BY <2>1
<1>2. ASSUME NEW q \in faces, NEW u \in tracks, Fits(q, u), p = <<q.student, u.track>>
      PROVE  p \in Viable(faces, tracks)
  <2>1. <<q, u>> \in {r \in faces \X tracks : Fits(r[1], r[2])}
    BY <1>2
  <2>2. <<q, u>>[1] = q /\ <<q, u>>[2] = u
    OBVIOUS
  <2>. QED
    BY <1>2, <2>1, <2>2 DEF Viable
<1>. QED
  BY <1>1, <1>2

\* A match that was tried leaves no single pair.
LEMMA TryMatchLeavesNoPair ==
  ASSUME NEW faces, NEW used, NEW carried, NEW tracks, TryMatch(faces, used, carried, tracks)
  PROVE  ~OnePairLeft'
<1> DEFINE open == {p \in faces : p.student \notin StudentsOf(carried)}
           viable == Viable(open, tracks)
<1>1. ViablePairs' = Viable(pending', unmatched')
  BY DEF ViablePairs, Viable, Fits
<1>2. CASE \E u \in tracks, s \in StudentsOf(open) :
             /\ viable = {<<s, u.track>>}
             /\ pending' = {p \in open : p.student # s}
             /\ unmatched' = tracks \ {u}
  <2>1. PICK u \in tracks, s \in StudentsOf(open) :
             /\ viable = {<<s, u.track>>}
             /\ pending' = {p \in open : p.student # s}
             /\ unmatched' = tracks \ {u}
    BY <1>2
  <2>2. ASSUME NEW p \in ViablePairs' PROVE FALSE
    <3>1. PICK q \in pending', v \in unmatched' : Fits(q, v) /\ p = <<q.student, v.track>>
      BY <1>1, <2>2, ViablePair
    <3>2. q \in open /\ v \in tracks /\ q.student # s
      BY <2>1, <3>1
    <3>. HIDE DEF open
    <3>3. <<q.student, v.track>> \in viable
      BY <3>1, <3>2, ViablePair
    <3>. QED
      BY <2>1, <3>2, <3>3
  <2>. QED
    BY <2>2 DEF OnePairLeft
<1>3. CASE /\ \A u \in tracks, s \in StudentsOf(open) : viable # {<<s, u.track>>}
           /\ pending' = open /\ unmatched' = tracks
  <2>1. ASSUME NEW p \in ViablePairs', ViablePairs' = {p} PROVE FALSE
    <3>1. ViablePairs' = viable
      BY <1>1, <1>3
    <3>. HIDE DEF open
    <3>2. PICK q \in open, u \in tracks : p = <<q.student, u.track>>
      BY <2>1, <3>1, ViablePair
    <3>3. q.student \in StudentsOf(open)
      BY DEF StudentsOf
    <3>. QED
      BY <1>3, <2>1, <3>1, <3>2, <3>3
  <2>. QED
    BY <2>1 DEF OnePairLeft
<1>. QED
  BY <1>2, <1>3 DEF TryMatch, KeepWaiting

\* An observation tries the match when a track enters or a wait is over, and leaves the
\* viable pairs as they were otherwise.
LEMMA ObserveClassroomTracksPairs ==
  ASSUME IInv, NEW at \in Times, NEW people \in SUBSET Tracks,
         ObserveClassroomTracks(at, people)
  PROVE  OnePairLeft' => ViablePairs' = ViablePairs
<1> DEFINE now == NowAt(at)
           waiting == FreshUnmatched(now)
           entered == Entered(frame.zone \cap people, FreshIn(knownAt, now), FreshActive(now), waiting)
           Reseen(u) == [u EXCEPT !.seen = IF u.track \in people THEN at ELSE u.seen]
           tracks == {Reseen(u) : u \in waiting} \cup {[track |-> t, at |-> at, seen |-> at] : t \in entered}
<1>1. \/ \E used, carriers : TryMatch(FreshPending(now), used, carriers, tracks)
      \/ /\ entered = {} /\ ~MatchInputsExpired(now)
         /\ pending' = FreshPending(now) /\ unmatched' = tracks
  BY DEF ObserveClassroomTracks, StoreUnmatched
<1>2. CASE \E used, carriers : TryMatch(FreshPending(now), used, carriers, tracks)
  BY <1>2, TryMatchLeavesNoPair
<1>3. CASE /\ entered = {} /\ ~MatchInputsExpired(now)
           /\ pending' = FreshPending(now) /\ unmatched' = tracks
  <2>1. pending' = pending /\ waiting = unmatched
    BY <1>3 DEF MatchInputsExpired
  <2>2. unmatched' = {Reseen(u) : u \in unmatched}
    BY <1>3, <2>1
  <2>3. \A u \in unmatched : Reseen(u).track = u.track /\ Reseen(u).at = u.at
    BY DEF IInv, TypeOK
  <2>. HIDE DEF Reseen
  <2>4. \A q, u : u \in unmatched => (Fits(q, Reseen(u)) <=> Fits(q, u))
    BY <2>3 DEF Fits
  <2>5. ViablePairs' = Viable(pending', unmatched')
    BY DEF ViablePairs, Viable, Fits
  <2>6. \A p : p \in ViablePairs' <=> p \in ViablePairs
    <3>1. \A p : p \in ViablePairs <=>
             \E q \in pending, u \in unmatched : Fits(q, u) /\ p = <<q.student, u.track>>
      BY ViablePair DEF ViablePairs
    <3>2. \A p : p \in ViablePairs' <=>
             \E q \in pending', u \in unmatched' : Fits(q, u) /\ p = <<q.student, u.track>>
      BY <2>5, ViablePair
    <3>3. \A p : p \in ViablePairs' <=>
             \E q \in pending, u \in unmatched :
               Fits(q, Reseen(u)) /\ p = <<q.student, Reseen(u).track>>
      BY <2>1, <2>2, <3>2
    <3>. QED
      BY <2>3, <2>4, <3>1, <3>3
  <2>. QED
    BY <2>6
<1>. QED
  BY <1>1, <1>2, <1>3

\* So does an entry batch when a face arrives.
LEMMA ObserveEntryPairs ==
  ASSUME IInv, NEW at \in Times, NEW recognised \in [Faces -> Students \cup {None}],
         ObserveEntry(at, recognised)
  PROVE  OnePairLeft' => ViablePairs' = ViablePairs
<1> DEFINE now == NowAt(at)
           waiting == FreshPending(now)
           claimed == {f \in Arriving(recognised, FreshActive(now)) \ FreshIn(consumedAt, now) :
                         \A p \in waiting : p.face = f => p.student = recognised[f]}
           faces == {p \in waiting : p.face \notin claimed} \cup
                    {[face |-> f, student |-> recognised[f], at |-> at] : f \in claimed}
<1>1. \/ \E used : TryMatch(faces, used, FreshActive(now), FreshUnmatched(now))
      \/ /\ claimed = {} /\ ~MatchInputsExpired(now)
         /\ pending' = faces /\ unmatched' = FreshUnmatched(now)
      \/ UNCHANGED <<pending, unmatched>>
  BY DEF ObserveEntry, StoreUnmatched, coordinatorVars, matchVars
<1>2. CASE \E used : TryMatch(faces, used, FreshActive(now), FreshUnmatched(now))
  BY <1>2, TryMatchLeavesNoPair
<1>3. CASE /\ claimed = {} /\ ~MatchInputsExpired(now)
           /\ pending' = faces /\ unmatched' = FreshUnmatched(now)
  <2>1. faces = waiting
    BY <1>3
  <2>. QED
    BY <1>3, <2>1 DEF MatchInputsExpired, ViablePairs, Viable, Fits
<1>4. CASE UNCHANGED <<pending, unmatched>>
  BY <1>4 DEF ViablePairs, Viable, Fits
<1>. QED
  BY <1>1, <1>2, <1>3, <1>4

\* Only the removal of a track leaves a single pair that no step tried to match.
THEOREM StrandedByRemovalOnly == Spec => OnlyRemovalStrandsAPair
<1> DEFINE Pairs == OnePairLeft' => ViablePairs' = ViablePairs \/ frame.phase = "expire"
<1>1. ASSUME IInv, [Next]_vars PROVE Pairs
  <2>1. CASE EntryBatch
    BY <1>1, <2>1, ObserveEntryPairs DEF EntryBatch
  <2>2. CASE ClassroomFrame
    BY <2>2 DEF ClassroomFrame, TrackFrame, ViablePairs, Viable, Fits
  <2>3. CASE ExpireRemoved
    BY <2>3 DEF ExpireRemoved
  <2>4. ASSUME NEW people \in SUBSET frame.seen, ObserveClassroomTracks(frame.at, people)
        PROVE  Pairs
    <3>1. frame.at \in Times /\ people \in SUBSET Tracks
      BY <1>1 DEF IInv, TypeOK
    <3>. QED
      BY <1>1, <2>4, <3>1, ObserveClassroomTracksPairs
  <2>5. ASSUME UNCHANGED coordinatorVars PROVE Pairs
    BY <2>5 DEF coordinatorVars, matchVars, ViablePairs, Viable, Fits
  <2>6. CASE ObserveTracking
    BY <2>4, <2>5, <2>6 DEF ObserveTracking
  <2>7. CASE EnrichClassroom
    <3>1. {t \in frame.seen : life[t] # "tentative"} \in SUBSET frame.seen
      OBVIOUS
    <3>. QED
      BY <2>4, <2>5, <2>7, <3>1 DEF EnrichClassroom
  <2>8. CASE RefreshRoutes
    <3>1. pending' = {}
      BY <2>8 DEF RefreshRoutes
    <3>2. ViablePairs' = {}
      BY <3>1 DEF ViablePairs, Viable
    <3>. QED
      BY <3>2 DEF OnePairLeft
  <2>9. CASE UNCHANGED vars
    BY <2>5, <2>9 DEF vars
  <2>. QED
    BY <1>1, <2>1, <2>2, <2>3, <2>6, <2>7, <2>8, <2>9 DEF Next
<1>2. IInv /\ [Next]_vars => [Pairs]_vars
  BY <1>1
<1>. QED
  BY <1>2, InvariantHolds, PTL DEF Spec, OnlyRemovalStrandsAPair

=============================================================================
