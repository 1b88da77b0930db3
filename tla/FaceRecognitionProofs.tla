----------------------- MODULE FaceRecognitionProofs ------------------------
(***************************************************************************)
(* That recognition stays open, that no image of a face gets out of reach  *)
(* and that the trackers follow the gallery, for any number of students,   *)
(* sessions, poses, cameras and requests at the same time.                 *)
(***************************************************************************)
EXTENDS FaceRecognition, TLAPS

-----------------------------------------------------------------------------
(* The invariant.                                                          *)

LoopSteps == {"put", "store", "validate", "finalize", "complete", "profile"}
ThreadSteps ==
  {"insert", "prepare", "save", "flag", "unflag", "lookup", "images", "unprofile"}
RegSteps == {"idle", "erase", "forget"} \cup LoopSteps \cup ThreadSteps

\* The images that are counted cover the poses that are counted.
Counted(session) == \A p \in Poses : session.progress[p] <= session.count

\* What a handler works with at each step.
Jobs ==
  [student : Students \cup {None}, enrollment : Enrollments \cup {None},
   session : Sessions \cup {NoSession}, pose : Poses \cup {None}]
JobAt(h, p, j) ==
  /\ p \in RegSteps /\ j \in Jobs
  /\ p = "idle" => j = NoJob
  /\ p \in LoopSteps => h = Loop /\ j.session \in Sessions /\ Counted(j.session)
  /\ p \in ThreadSteps => h # Loop /\ j.student \in Students
  /\ p \in LoopSteps \cup {"insert", "prepare", "erase", "forget", "save", "flag", "images", "unprofile"} =>
       j.enrollment \in Enrollments
  /\ p \in {"unflag", "lookup"} => j.enrollment = None
  /\ p = "put" => j.pose \in Poses

HandlerInv ==
  /\ pc \in [Handlers -> RegSteps] /\ job \in [Handlers -> Jobs]
  /\ \A h \in Handlers : JobAt(h, pc[h], job[h])

\* The stores.
SessionTypes ==
  /\ sessions \in [Enrollments -> Sessions \cup {None}]
  /\ \A e \in Enrollments : sessions[e] # None => Counted(sessions[e])
ImageTypes ==
  /\ owner \in [Enrollments -> Students \cup {None}]
  /\ images \in [Enrollments -> SUBSET (Poses \X Nat)]
ProfileTypes == profiles \in [Students -> Enrollments \cup {None}]
FaceTypes ==
  /\ vectors \in [Students -> Nat \cup {None}] /\ built \in Nat
  /\ flags \in [Students -> Enrollments \cup {None}]
RegTypes == SessionTypes /\ ImageTypes /\ ProfileTypes /\ FaceTypes

\* A session whose creation is not answered yet is nobody else's, and no profile refers
\* to it.
CreationInv ==
  \A h \in Handlers : pc[h] \in {"insert", "prepare"} =>
    /\ \A g \in Handlers : g # h => job[g].enrollment # job[h].enrollment
    /\ \A s \in Students : profiles[s] # job[h].enrollment
    /\ owner[job[h].enrollment] = None
    /\ pc[h] = "prepare" => sessions[job[h].enrollment] # None

\* The images of an aborted session have no owner any more.
AbortInv == \A h \in Handlers : pc[h] = "forget" => owner[job[h].enrollment] = None

\* What became a profile, or is going to, collects no more frames.
Profiled(e) ==
  \/ \E s \in Students : profiles[s] = e
  \/ \E h \in Handlers : pc[h] \in {"images", "unprofile", "profile"} /\ job[h].enrollment = e
Collecting(e) == pc[Loop] \in LoopSteps \ {"profile"} /\ job[Loop].enrollment = e
ProfileInv ==
  /\ \A e \in Enrollments : Profiled(e) => e \notin ActiveSessions /\ ~Collecting(e)
  /\ \A h \in Handlers : pc[h] = "unprofile" => images[job[h].enrollment] = {}

SessionsInv == RegTypes /\ HandlerInv /\ CreationInv /\ AbortInv /\ ProfileInv

-----------------------------------------------------------------------------
(* Handlers.                                                               *)

LEMMA NoJobAt == NoJob \in Jobs /\ NoJob.student = None /\ NoJob.enrollment = None
                 /\ \A h : JobAt(h, "idle", NoJob)
BY DEF NoJob, Jobs, JobAt, RegSteps, LoopSteps, ThreadSteps

\* A step of one handler leaves the others where they are.
LEMMA HandlerStep ==
  ASSUME HandlerInv, NEW h \in Handlers, NEW p, NEW j, JobAt(h, p, j),
         pc' = [pc EXCEPT ![h] = p], job' = [job EXCEPT ![h] = j]
  PROVE  /\ HandlerInv'
         /\ pc'[h] = p /\ job'[h] = j
         /\ \A g \in Handlers : g # h => pc'[g] = pc[g] /\ job'[g] = job[g]
<1>1. /\ pc'[h] = p /\ job'[h] = j
      /\ \A g \in Handlers : g # h => pc'[g] = pc[g] /\ job'[g] = job[g]
  BY DEF HandlerInv
<1>2. p \in RegSteps /\ j \in Jobs BY DEF JobAt
<1>3. pc' \in [Handlers -> RegSteps] /\ job' \in [Handlers -> Jobs] BY <1>2 DEF HandlerInv
<1>4. \A g \in Handlers : JobAt(g, pc'[g], job'[g]) BY <1>1 DEF HandlerInv
<1> QED BY <1>1, <1>3, <1>4 DEF HandlerInv, JobAt

\* What a handler does when it goes on, ends or begins.
LEMMA Going ==
  ASSUME HandlerInv, NEW h \in Handlers, NEW p
  PROVE  /\ Continue(h, p) =>
              pc' = [pc EXCEPT ![h] = p] /\ job' = [job EXCEPT ![h] = job[h]]
         /\ Finish(h) => pc' = [pc EXCEPT ![h] = "idle"] /\ job' = [job EXCEPT ![h] = NoJob]
         /\ \A values : Begin(h, p, values) =>
              pc[h] = "idle" /\ pc' = [pc EXCEPT ![h] = p] /\ job' = [job EXCEPT ![h] = values]
<1>1. job = [job EXCEPT ![h] = job[h]] BY DEF HandlerInv
<1> QED BY <1>1 DEF Continue, Finish, Begin, Go

\* What a step of one handler does to the sessions, the images and the profiles.
StepOk(h, p, j) ==
  \* Nobody else takes up a session that is being created.
  /\ \/ j.enrollment \in {None, job[h].enrollment}
     \/ \A g \in Handlers : pc[g] \in {"insert", "prepare"} => job[g].enrollment # j.enrollment
  /\ p = "insert" =>
       /\ \A g \in Handlers : job[g].enrollment # j.enrollment
       /\ \A s \in Students : profiles[s] # j.enrollment
       /\ owner[j.enrollment] = None
  /\ p = "prepare" =>
       pc[h] = "insert" /\ j.enrollment = job[h].enrollment /\ sessions'[j.enrollment] # None
  /\ \A e \in Enrollments :
       /\ sessions'[e] = None => sessions[e] = None \/ (pc[h] = "forget" /\ e = job[h].enrollment)
       /\ owner'[e] \in {owner[e], None} \/ (pc[h] = "prepare" /\ e = job[h].enrollment)
       /\ images'[e] \subseteq images[e] \/ Collecting(e)
       /\ e \in ActiveSessions' =>
            e \in ActiveSessions \/ Collecting(e) \/ (pc[h] = "insert" /\ e = job[h].enrollment)
  /\ \A s \in Students :
       profiles'[s] \in {profiles[s], None} \/ (pc[h] = "profile" /\ profiles'[s] = job[h].enrollment)
  /\ p = "forget" => owner'[j.enrollment] = None
  /\ p \in {"images", "unprofile"} => Profiled(j.enrollment)
  /\ p = "unprofile" => images'[j.enrollment] = {}
  /\ p = "profile" => j.enrollment \notin ActiveSessions'
  /\ p \in LoopSteps \ {"profile"} => Collecting(j.enrollment) \/ j.enrollment \in ActiveSessions

\* Such a step keeps the invariant.
LEMMA StepKeeps ==
  ASSUME SessionsInv, NEW h \in Handlers, NEW p, NEW j, JobAt(h, p, j),
         pc' = [pc EXCEPT ![h] = p], job' = [job EXCEPT ![h] = j],
         RegTypes', StepOk(h, p, j)
  PROVE  SessionsInv'
<1>0. HandlerInv /\ CreationInv /\ AbortInv /\ ProfileInv BY DEF SessionsInv
<1>1. /\ HandlerInv' /\ pc'[h] = p /\ job'[h] = j
      /\ \A g \in Handlers : g # h => pc'[g] = pc[g] /\ job'[g] = job[g]
  BY <1>0, HandlerStep, ZenonT(30)
<1>2. None \notin Enrollments BY RegistrationAssumption
<1>3. \A g \in Handlers : pc[g] \in {"insert", "prepare", "forget", "unprofile", "images", "profile"} =>
        job[g].enrollment \in Enrollments
  BY <1>0 DEF HandlerInv, JobAt, ThreadSteps, LoopSteps
<1>4. CreationInv'
  <2> SUFFICES ASSUME NEW g \in Handlers, pc'[g] \in {"insert", "prepare"},
                      NEW e, e = job'[g].enrollment
               PROVE  /\ \A k \in Handlers : k # g => job'[k].enrollment # e
                      /\ \A s \in Students : profiles'[s] # e
                      /\ owner'[e] = None
                      /\ pc'[g] = "prepare" => sessions'[e] # None
    BY DEF CreationInv
  <2>1. CASE g # h
    <3>1. pc[g] \in {"insert", "prepare"} /\ e = job[g].enrollment BY <1>1, <2>1
    <3>2. e \in Enrollments BY <1>3, <3>1
    <3>3. /\ \A k \in Handlers : k # g => job[k].enrollment # e
          /\ \A s \in Students : profiles[s] # e
          /\ owner[e] = None
          /\ pc[g] = "prepare" => sessions[e] # None
      BY <1>0, <3>1 DEF CreationInv
    <3>4. job[h].enrollment # e BY <2>1, <3>3
    <3>5. j.enrollment # e BY <1>2, <3>1, <3>2, <3>4 DEF StepOk
    <3>6. \A k \in Handlers : k # g => job'[k].enrollment # e BY <1>1, <3>3, <3>5
    <3>7. \A s \in Students : profiles'[s] # e BY <1>2, <3>2, <3>3, <3>4 DEF StepOk
    <3>8. owner'[e] = None /\ (sessions'[e] = None => sessions[e] = None)
      BY <3>2, <3>3, <3>4 DEF StepOk
    <3> QED BY <1>1, <2>1, <3>3, <3>6, <3>7, <3>8
  <2>2. CASE g = h /\ p = "insert"
    <3>1. e = j.enrollment /\ e \in Enrollments BY <1>1, <2>2 DEF JobAt
    <3>2. /\ \A k \in Handlers : job[k].enrollment # e
          /\ \A s \in Students : profiles[s] # e
          /\ owner[e] = None
      BY <2>2, <3>1 DEF StepOk
    <3>3. \A s \in Students : profiles'[s] # e BY <1>2, <3>1, <3>2 DEF StepOk
    <3>4. owner'[e] = None BY <3>1, <3>2 DEF StepOk
    <3> QED BY <1>1, <2>2, <3>2, <3>3, <3>4
  <2>3. CASE g = h /\ p = "prepare"
    <3>1. e = j.enrollment /\ e \in Enrollments BY <1>1, <2>3 DEF JobAt
    <3>2. pc[h] = "insert" /\ e = job[h].enrollment /\ sessions'[e] # None
      BY <2>3, <3>1 DEF StepOk
    <3>3. /\ \A k \in Handlers : k # h => job[k].enrollment # e
          /\ \A s \in Students : profiles[s] # e
          /\ owner[e] = None
      BY <1>0, <3>2 DEF CreationInv
    <3>4. \A s \in Students : profiles'[s] # e BY <1>2, <3>1, <3>2, <3>3 DEF StepOk
    <3>5. owner'[e] = None BY <3>1, <3>2, <3>3 DEF StepOk
    <3> QED BY <1>1, <2>3, <3>2, <3>3, <3>4, <3>5
  <2> QED BY <1>1, <2>1, <2>2, <2>3
<1>5. AbortInv'
  <2> SUFFICES ASSUME NEW g \in Handlers, pc'[g] = "forget" PROVE owner'[job'[g].enrollment] = None
    BY DEF AbortInv
  <2>1. CASE g = h BY <1>1, <2>1 DEF StepOk
  <2>2. CASE g # h
    <3>1. PICK e : e = job[g].enrollment OBVIOUS
    <3>2. pc[g] = "forget" /\ e \in Enrollments /\ owner[e] = None /\ job'[g].enrollment = e
      BY <1>0, <1>1, <1>3, <2>2, <3>1 DEF AbortInv
    <3>3. ~(pc[h] = "prepare" /\ e = job[h].enrollment) BY <1>0, <2>2, <3>1 DEF CreationInv
    <3> QED BY <3>2, <3>3 DEF StepOk
  <2> QED BY <2>1, <2>2
<1>6. ASSUME NEW e \in Enrollments, Profiled(e)'
      PROVE  Profiled(e) \/ (p = "profile" /\ j.enrollment = e)
  <2>1. CASE \E s \in Students : profiles'[s] = e BY <1>2, <2>1 DEF StepOk, Profiled
  <2>2. CASE \E g \in Handlers : pc'[g] \in {"images", "unprofile", "profile"} /\ job'[g].enrollment = e
    BY <1>1, <2>2 DEF StepOk, Profiled
  <2> QED BY <1>6, <2>1, <2>2 DEF Profiled
<1>7. ASSUME NEW e \in Enrollments, Profiled(e)' PROVE e \notin ActiveSessions' /\ ~Collecting(e)'
  <2>1. CASE p = "profile" /\ j.enrollment = e
    <3>1. h = Loop BY <2>1 DEF JobAt, LoopSteps
    <3>2. ~Collecting(e)' BY <1>1, <2>1, <3>1 DEF Collecting
    <3> QED BY <2>1, <3>2 DEF StepOk
  <2>2. CASE Profiled(e)
    <3>1. e \notin ActiveSessions /\ ~Collecting(e) BY <1>0, <2>2 DEF ProfileInv
    <3>2. ~(pc[h] = "insert" /\ e = job[h].enrollment)
      BY <1>0, <2>2 DEF CreationInv, Profiled
    <3>3. e \notin ActiveSessions' BY <3>1, <3>2 DEF StepOk
    <3>4. ~Collecting(e)'
      <4>1. CASE h = Loop
        <5>1. p \in LoopSteps \ {"profile"} => j.enrollment # e BY <3>1 DEF StepOk
        <5> QED BY <1>1, <4>1, <5>1 DEF Collecting
      <4>2. CASE h # Loop
        <5>1. pc'[Loop] = pc[Loop] /\ job'[Loop] = job[Loop] BY <1>1, <4>2 DEF Handlers
        <5> QED BY <3>1, <5>1 DEF Collecting
      <4> QED BY <4>1, <4>2
    <3> QED BY <3>3, <3>4
  <2> QED BY <1>6, <1>7, <2>1, <2>2
<1>8. ASSUME NEW g \in Handlers, pc'[g] = "unprofile" PROVE images'[job'[g].enrollment] = {}
  <2>1. CASE g = h BY <1>1, <1>8, <2>1 DEF StepOk
  <2>2. CASE g # h
    <3>1. PICK e : e = job[g].enrollment OBVIOUS
    <3>2. /\ pc[g] = "unprofile" /\ e \in Enrollments /\ images[e] = {} /\ job'[g].enrollment = e
          /\ Profiled(e)
      BY <1>0, <1>1, <1>3, <1>8, <2>2, <3>1 DEF ProfileInv, Profiled
    <3>3. ~Collecting(e) BY <1>0, <3>2 DEF ProfileInv
    <3> QED BY <3>2, <3>3 DEF StepOk
  <2> QED BY <2>1, <2>2
<1>9. ProfileInv' BY <1>7, <1>8 DEF ProfileInv
<1> QED BY <1>1, <1>4, <1>5, <1>9 DEF SessionsInv

-----------------------------------------------------------------------------
(* create and process_frame.                                               *)

\* A step that leaves the stores alone.
LEMMA StoresStay ==
  ASSUME SessionsInv, UNCHANGED storeVars
  PROVE  /\ RegTypes' /\ ActiveSessions' = ActiveSessions
         /\ UNCHANGED <<sessions, profiles, owner, images, vectors, built, flags>>
BY DEF SessionsInv, RegTypes, SessionTypes, ImageTypes, ProfileTypes, FaceTypes, storeVars,
       ActiveSessions

LEMMA CreateStep ==
  ASSUME SessionsInv, NEW h \in Handlers, Create(h) PROVE SessionsInv'
<1>0. HandlerInv BY DEF SessionsInv
<1>1. PICK s \in Students, e \in Enrollments :
        /\ sessions[e] = None /\ owner[e] = None
        /\ \A t \in Students : profiles[t] # e
        /\ \A g \in Handlers : job[g].enrollment # e
        /\ Begin(h, "insert", [NoJob EXCEPT !.student = s, !.enrollment = e])
  BY DEF Create
<1>2. PICK j \in Jobs : j = [NoJob EXCEPT !.student = s, !.enrollment = e]
  BY NoJobAt DEF Jobs
<1>3. j.student = s /\ j.enrollment = e BY <1>2 DEF NoJob
<1>4. pc[h] = "idle" /\ pc' = [pc EXCEPT ![h] = "insert"] /\ job' = [job EXCEPT ![h] = j]
  BY <1>1, <1>2 DEF Begin, Go
<1>5. RegTypes' /\ UNCHANGED <<sessions, profiles, owner, images>> /\ ActiveSessions' = ActiveSessions
  BY StoresStay DEF Create
<1>6. JobAt(h, "insert", j)
  BY <1>1, <1>3 DEF JobAt, RegSteps, LoopSteps, ThreadSteps, Create
<1>7. StepOk(h, "insert", j) BY <1>1, <1>3, <1>5 DEF StepOk, LoopSteps
<1> QED BY <1>4, <1>5, <1>6, <1>7, StepKeeps

LEMMA InsertStep ==
  ASSUME SessionsInv, NEW h \in Handlers, Insert(h) PROVE SessionsInv'
<1>0. HandlerInv /\ RegTypes BY DEF SessionsInv
<1>1. /\ pc[h] = "insert"
      /\ sessions' = [sessions EXCEPT ![job[h].enrollment] = [NoSession EXCEPT !.student = job[h].student]]
      /\ UNCHANGED <<profiles, owner, images, vectors, built, flags>>
      /\ pc' = [pc EXCEPT ![h] = "prepare"] /\ job' = [job EXCEPT ![h] = job[h]]
  BY <1>0, Going DEF Insert
<1>2. PICK j \in Jobs : j = job[h] BY <1>0 DEF HandlerInv
<1>3. JobAt(h, "insert", j) BY <1>0, <1>1, <1>2 DEF HandlerInv
<1>4. j.enrollment \in Enrollments /\ j.student \in Students
  BY <1>3 DEF JobAt, ThreadSteps, LoopSteps
<1>5. PICK x \in Sessions : /\ x = [NoSession EXCEPT !.student = j.student] /\ ~x.complete
                            /\ Counted(x)
  <2>1. 0 \in 0..MaxSamples BY RegistrationAssumption
  <2>2. [NoSession EXCEPT !.student = j.student] \in Sessions
    BY <1>4, <2>1 DEF NoSession, Sessions
  <2>3. PICK x \in Sessions : x = [NoSession EXCEPT !.student = j.student] BY <2>2
  <2>4. ~x.complete /\ x.count = 0 /\ x.progress = [p \in Poses |-> 0]
    BY <2>3 DEF NoSession
  <2>5. Counted(x) BY <2>4 DEF Counted
  <2> QED BY <2>3, <2>4, <2>5
<1>6. x # None BY <1>5, RegistrationAssumption
<1>7. sessions' = [sessions EXCEPT ![j.enrollment] = x] BY <1>1, <1>2, <1>5
<1>8. RegTypes'
  <2>1. sessions' \in [Enrollments -> Sessions \cup {None}]
    BY <1>0, <1>4, <1>7 DEF RegTypes, SessionTypes
  <2>2. \A e \in Enrollments : sessions'[e] # None => Counted(sessions'[e])
    BY <1>0, <1>4, <1>5, <1>7 DEF RegTypes, SessionTypes
  <2> QED BY <1>0, <1>1, <2>1, <2>2
      DEF RegTypes, SessionTypes, ImageTypes, ProfileTypes, FaceTypes, Counted
<1>9. JobAt(h, "prepare", j)
  BY <1>3 DEF JobAt, RegSteps, LoopSteps, ThreadSteps
<1>10. \A e \in Enrollments : e # j.enrollment => sessions'[e] = sessions[e]
  BY <1>0, <1>7 DEF RegTypes, SessionTypes
<1>11. sessions'[j.enrollment] = x BY <1>0, <1>4, <1>7 DEF RegTypes, SessionTypes
<1>12. StepOk(h, "prepare", j)
  BY <1>1, <1>2, <1>6, <1>10, <1>11 DEF StepOk, LoopSteps, ActiveSessions
<1> QED BY <1>1, <1>2, <1>8, <1>9, <1>12, StepKeeps

LEMMA PrepareStep ==
  ASSUME SessionsInv, NEW h \in Handlers, Prepare(h) PROVE SessionsInv'
<1>0. HandlerInv /\ RegTypes BY DEF SessionsInv
<1>1. /\ pc[h] = "prepare" /\ owner' = [owner EXCEPT ![job[h].enrollment] = job[h].student]
      /\ UNCHANGED <<sessions, profiles, images, vectors, built, flags>>
      /\ pc' = [pc EXCEPT ![h] = "idle"] /\ job' = [job EXCEPT ![h] = NoJob]
  BY <1>0, Going DEF Prepare
<1>2. job[h].enrollment \in Enrollments /\ job[h].student \in Students
  BY <1>0, <1>1 DEF HandlerInv, JobAt, ThreadSteps
<1>3. RegTypes'
  BY <1>0, <1>1, <1>2 DEF RegTypes, SessionTypes, ImageTypes, ProfileTypes, FaceTypes
<1>4. \A e \in Enrollments : e # job[h].enrollment => owner'[e] = owner[e]
  BY <1>0, <1>1 DEF RegTypes, ImageTypes
<1>5. StepOk(h, "idle", NoJob)
  BY <1>1, <1>4, NoJobAt DEF StepOk, LoopSteps, ActiveSessions
<1> QED BY <1>1, <1>3, <1>5, NoJobAt, StepKeeps

\* Of a session that is accepted once more, no more is counted than its images.
LEMMA AcceptedIsCounted ==
  ASSUME NEW session \in Sessions, Counted(session), session.count < MaxSamples,
         NEW p \in Poses
  PROVE  Accepted(session, p) \in Sessions /\ Counted(Accepted(session, p))
<1>1. /\ session.count \in 0..MaxSamples /\ session.progress \in [Poses -> 0..MaxSamples]
      /\ session.student \in Students /\ session.complete \in BOOLEAN
      /\ DOMAIN session = {"student", "complete", "count", "progress"}
  BY DEF Sessions
<1>2. session.count + 1 \in 0..MaxSamples BY <1>1, RegistrationAssumption
<1>3. \A q \in Poses : /\ session.progress[q] \in 0..MaxSamples
                       /\ session.progress[q] <= session.count
  BY <1>1 DEF Counted
<1>4. session.progress[p] + 1 \in 0..MaxSamples BY <1>1, <1>3, RegistrationAssumption
<1>5. PICK a : a = Accepted(session, p) OBVIOUS
<1>6. a = [session EXCEPT !.count = session.count + 1,
                          !.progress = [session.progress EXCEPT ![p] = session.progress[p] + 1]]
  BY <1>1, <1>5 DEF Accepted
<1>7. [session.progress EXCEPT ![p] = session.progress[p] + 1] \in [Poses -> 0..MaxSamples]
  BY <1>1, <1>4
<1>8. a \in Sessions BY <1>2, <1>6, <1>7 DEF Sessions
<1>9. /\ a.count = session.count + 1
      /\ a.progress = [session.progress EXCEPT ![p] = session.progress[p] + 1]
  BY <1>6 DEF Sessions
<1>10. \A q \in Poses : a.progress[q] <= a.count
  BY <1>1, <1>3, <1>9, RegistrationAssumption
<1> QED BY <1>5, <1>8, <1>10 DEF Counted

LEMMA AnalyzedStep == ASSUME SessionsInv, Analyzed PROVE SessionsInv'
<1>0. HandlerInv /\ RegTypes /\ Loop \in Handlers BY DEF SessionsInv, Handlers
<1>1. PICK e \in Addressed :
        \/ Begin(Loop, "store", [NoJob EXCEPT !.enrollment = e, !.session = sessions[e]])
        \/ \E q \in Poses :
             /\ sessions[e].count < MaxSamples
             /\ Begin(Loop, "put", [[NoJob EXCEPT !.enrollment = e, !.session = sessions[e]]
                                      EXCEPT !.session = Accepted(sessions[e], q), !.pose = q])
  BY DEF Analyzed
<1>2. /\ e \in Enrollments /\ e \in ActiveSessions
      /\ \A g \in Handlers : pc[g] \in {"insert", "prepare"} => job[g].enrollment # e
  BY <1>1 DEF Addressed, ActiveSessions
<1>3. sessions[e] \in Sessions /\ Counted(sessions[e])
  BY <1>0, <1>2 DEF RegTypes, SessionTypes, ActiveSessions
<1>4. RegTypes' /\ UNCHANGED <<sessions, profiles, owner, images>> /\ ActiveSessions' = ActiveSessions
  BY StoresStay DEF Analyzed
<1>5. ASSUME NEW p \in {"store", "put"}, NEW j \in Jobs, Begin(Loop, p, j), j.enrollment = e,
             j.session \in Sessions, Counted(j.session), p = "put" => j.pose \in Poses
      PROVE  SessionsInv'
  <2>1. pc[Loop] = "idle" /\ pc' = [pc EXCEPT ![Loop] = p] /\ job' = [job EXCEPT ![Loop] = j]
    BY <1>5 DEF Begin, Go
  <2>2. JobAt(Loop, p, j)
    BY <1>2, <1>5 DEF JobAt, RegSteps, LoopSteps, ThreadSteps
  <2>3. StepOk(Loop, p, j) BY <1>2, <1>4, <1>5 DEF StepOk
  <2> QED BY <1>0, <1>4, <2>1, <2>2, <2>3, StepKeeps
<1>6. CASE Begin(Loop, "store", [NoJob EXCEPT !.enrollment = e, !.session = sessions[e]])
  <2>1. PICK x \in Sessions : x = sessions[e] BY <1>3
  <2>2. PICK j \in Jobs : j = [NoJob EXCEPT !.enrollment = e, !.session = x]
    BY <1>2, NoJobAt DEF Jobs
  <2>3. j.enrollment = e /\ j.session = x BY <2>2 DEF NoJob
  <2> QED BY <1>3, <1>5, <1>6, <2>1, <2>2, <2>3
<1>7. ASSUME NEW q \in Poses, sessions[e].count < MaxSamples,
             Begin(Loop, "put", [[NoJob EXCEPT !.enrollment = e, !.session = sessions[e]]
                                   EXCEPT !.session = Accepted(sessions[e], q), !.pose = q])
      PROVE  SessionsInv'
  <2>1. PICK y \in Sessions : y = sessions[e] BY <1>3
  <2>2. PICK x \in Sessions : x = Accepted(y, q) /\ Counted(x)
    BY <1>3, <1>7, <2>1, AcceptedIsCounted
  <2>3. PICK i \in Jobs : i = [NoJob EXCEPT !.enrollment = e, !.session = y]
    BY <1>2, NoJobAt DEF Jobs
  <2>4. PICK j \in Jobs : j = [i EXCEPT !.session = x, !.pose = q] BY DEF Jobs
  <2>5. j.enrollment = e /\ j.session = x /\ j.pose = q BY <2>3, <2>4 DEF NoJob
  <2>6. Begin(Loop, "put", j) BY <1>7, <2>1, <2>2, <2>3, <2>4
  <2> QED BY <1>5, <2>2, <2>5, <2>6
<1> QED BY <1>1, <1>6, <1>7

\* What the event loop works with while it handles a frame.
LEMMA LoopFacts ==
  ASSUME SessionsInv, pc[Loop] \in LoopSteps
  PROVE  /\ Loop \in Handlers /\ job[Loop] \in Jobs /\ job[Loop].enrollment \in Enrollments
         /\ job[Loop].session \in Sessions /\ Counted(job[Loop].session)
         /\ JobAt(Loop, pc[Loop], job[Loop])
         /\ pc[Loop] # "profile" => Collecting(job[Loop].enrollment)
<1>1. Loop \in Handlers BY DEF Handlers
<1>2. JobAt(Loop, pc[Loop], job[Loop]) BY <1>1 DEF SessionsInv, HandlerInv
<1> QED BY <1>1, <1>2 DEF JobAt, Collecting

\* The event loop goes on with what it has.
LEMMA LoopAt ==
  ASSUME NEW j, NEW p \in LoopSteps, JobAt(Loop, p, j), NEW q \in LoopSteps \ {"put"}
  PROVE  JobAt(Loop, q, j)
BY DEF JobAt, RegSteps, LoopSteps, ThreadSteps

LEMMA PutStep == ASSUME SessionsInv, Put PROVE SessionsInv'
<1>0. HandlerInv /\ RegTypes BY DEF SessionsInv
<1>1. PICK e, j, q : e = job[Loop].enrollment /\ j = job[Loop] /\ q \in {"validate", "store"}
                     /\ Continue(Loop, q)
  BY DEF Put
<1>2. /\ pc[Loop] = "put"
      /\ images' = [images EXCEPT ![e] = images[e] \cup {<<j.pose, j.session.count>>}]
      /\ UNCHANGED <<sessions, profiles, owner, vectors, built, flags>>
  BY <1>0, <1>1 DEF Put, RegTypes, ImageTypes
<1>3. /\ Loop \in Handlers /\ e \in Enrollments /\ Collecting(e) /\ JobAt(Loop, "put", j)
      /\ j \in Jobs /\ j.session \in Sessions
  BY <1>1, <1>2, LoopFacts DEF LoopSteps
<1>4. <<j.pose, j.session.count>> \in Poses \X Nat
  <2>1. j.pose \in Poses BY <1>3 DEF JobAt
  <2>2. j.session.count \in Nat BY <1>3, RegistrationAssumption DEF Sessions
  <2> QED BY <2>1, <2>2
<1>5. images' \in [Enrollments -> SUBSET (Poses \X Nat)]
  BY <1>0, <1>2, <1>3, <1>4 DEF RegTypes, ImageTypes
<1>6. RegTypes'
  BY <1>0, <1>2, <1>5 DEF RegTypes, SessionTypes, ImageTypes, ProfileTypes, FaceTypes
<1>7. \A x \in Enrollments : x # e => images'[x] = images[x]
  BY <1>0, <1>2 DEF RegTypes, ImageTypes
<1>8. pc' = [pc EXCEPT ![Loop] = q] /\ job' = [job EXCEPT ![Loop] = j]
  BY <1>0, <1>1, <1>3, Going
<1>9. JobAt(Loop, q, j) BY <1>1, <1>3, LoopAt DEF LoopSteps
<1>10. StepOk(Loop, q, j) BY <1>1, <1>2, <1>3, <1>7 DEF StepOk, ActiveSessions
<1> QED BY <1>3, <1>6, <1>8, <1>9, <1>10, StepKeeps

\* The event loop puts its session, in some form, in the place of the stored one.
LEMMA ReplaceStep ==
  ASSUME SessionsInv, pc[Loop] \in LoopSteps \ {"put", "profile"},
         NEW x \in Sessions, Counted(x), Replace(x), NEW p,
         \/ Finish(Loop) /\ p = "idle"
         \/ Continue(Loop, p) /\ p = "finalize"
         \/ Continue(Loop, p) /\ p = "profile" /\ x.complete,
         UNCHANGED <<profiles, owner, images, vectors, built, flags>>
  PROVE  SessionsInv'
<1>0. HandlerInv /\ RegTypes BY DEF SessionsInv
<1>1. PICK e, j : e = job[Loop].enrollment /\ j = job[Loop] OBVIOUS
<1>2. sessions' = [sessions EXCEPT ![e] = x] BY <1>1 DEF Replace
<1>3. /\ Loop \in Handlers /\ e \in Enrollments /\ Collecting(e) /\ JobAt(Loop, pc[Loop], j)
  BY <1>1, LoopFacts
<1>4. x # None BY RegistrationAssumption
<1>5. sessions' \in [Enrollments -> Sessions \cup {None}] BY <1>0, <1>2 DEF RegTypes, SessionTypes
<1>6. \A y \in Enrollments : y # e => sessions'[y] = sessions[y]
  BY <1>0, <1>2 DEF RegTypes, SessionTypes
<1>7. sessions'[e] = x BY <1>0, <1>2, <1>3 DEF RegTypes, SessionTypes
<1>8. SessionTypes' BY <1>0, <1>5, <1>6, <1>7 DEF RegTypes, SessionTypes, Counted
<1>9. RegTypes' BY <1>0, <1>8 DEF RegTypes, ImageTypes, ProfileTypes, FaceTypes
<1>10. \A y \in Enrollments :
         /\ sessions'[y] = None => sessions[y] = None
         /\ y \in ActiveSessions' => y \in ActiveSessions \/ Collecting(y)
  BY <1>3, <1>4, <1>6, <1>7 DEF ActiveSessions
<1>11. CASE Finish(Loop) /\ p = "idle"
  <2>1. pc' = [pc EXCEPT ![Loop] = "idle"] /\ job' = [job EXCEPT ![Loop] = NoJob]
    BY <1>0, <1>3, <1>11, Going
  <2>2. StepOk(Loop, "idle", NoJob) BY <1>10, NoJobAt DEF StepOk, LoopSteps
  <2> QED BY <1>3, <1>9, <2>1, <2>2, NoJobAt, StepKeeps
<1>12. CASE Continue(Loop, p) /\ (p = "finalize" \/ (p = "profile" /\ x.complete))
  <2>1. pc' = [pc EXCEPT ![Loop] = p] /\ job' = [job EXCEPT ![Loop] = j]
    BY <1>0, <1>1, <1>3, <1>12, Going
  <2>2. JobAt(Loop, p, j) BY <1>3, <1>12, LoopAt DEF LoopSteps
  <2>3. x.complete => e \notin ActiveSessions' BY <1>7 DEF ActiveSessions
  <2>4. StepOk(Loop, p, j) BY <1>1, <1>3, <1>10, <1>12, <2>3 DEF StepOk
  <2> QED BY <1>3, <1>9, <2>1, <2>2, <2>4, StepKeeps
<1> QED BY <1>11, <1>12

LEMMA StoreStep == ASSUME SessionsInv, Store \/ Validate PROVE SessionsInv'
<1>1. pc[Loop] \in LoopSteps \ {"put", "profile"} BY DEF Store, Validate, LoopSteps
<1>2. PICK x \in Sessions : x = job[Loop].session /\ Counted(x) BY <1>1, LoopFacts
<1>3. Replace(x) /\ UNCHANGED <<profiles, owner, images, vectors, built, flags>>
  BY <1>2 DEF Store, Validate
<1>4. Finish(Loop) \/ Continue(Loop, "finalize") BY DEF Store, Validate
<1> QED BY <1>1, <1>2, <1>3, <1>4, ReplaceStep

LEMMA CompleteStep == ASSUME SessionsInv, Complete PROVE SessionsInv'
<1>1. pc[Loop] \in LoopSteps \ {"put", "profile"} BY DEF Complete, LoopSteps
<1>2. PICK y \in Sessions : y = job[Loop].session /\ Counted(y) BY <1>1, LoopFacts
<1>3. PICK x \in Sessions : x = [y EXCEPT !.complete = TRUE] BY DEF Sessions
<1>4. x.complete /\ x.progress = y.progress /\ x.count = y.count BY <1>3 DEF Sessions
<1>5. Counted(x) BY <1>2, <1>4 DEF Counted
<1>6. /\ Replace(x) /\ UNCHANGED <<profiles, owner, images, vectors, built, flags>>
      /\ Continue(Loop, "profile")
  BY <1>2, <1>3 DEF Complete
<1> QED BY <1>1, <1>4, <1>5, <1>6, ReplaceStep

LEMMA FinalizeStep == ASSUME SessionsInv, Finalize PROVE SessionsInv'
<1>0. HandlerInv BY DEF SessionsInv
<1>1. PICK e, j : e = job[Loop].enrollment /\ j = job[Loop] OBVIOUS
<1>2. pc[Loop] = "finalize" BY DEF Finalize
<1>3. /\ Loop \in Handlers /\ e \in Enrollments /\ Collecting(e) /\ JobAt(Loop, "finalize", j)
  BY <1>1, <1>2, LoopFacts DEF LoopSteps
<1>4. RegTypes' /\ UNCHANGED <<sessions, profiles, owner, images>> /\ ActiveSessions' = ActiveSessions
  BY StoresStay DEF Finalize
<1>5. ASSUME NEW p \in {"complete", "erase"}, Continue(Loop, p) PROVE SessionsInv'
  <2>1. pc' = [pc EXCEPT ![Loop] = p] /\ job' = [job EXCEPT ![Loop] = j]
    BY <1>0, <1>1, <1>3, <1>5, Going
  <2>2. JobAt(Loop, p, j) BY <1>1, <1>3, <1>5 DEF JobAt, RegSteps, LoopSteps, ThreadSteps
  <2>3. StepOk(Loop, p, j) BY <1>1, <1>3, <1>4, <1>5 DEF StepOk
  <2> QED BY <1>3, <1>4, <2>1, <2>2, <2>3, StepKeeps
<1>6. CASE Finish(Loop)
  <2>1. pc' = [pc EXCEPT ![Loop] = "idle"] /\ job' = [job EXCEPT ![Loop] = NoJob]
    BY <1>0, <1>3, <1>6, Going
  <2>2. StepOk(Loop, "idle", NoJob) BY <1>4, NoJobAt DEF StepOk, LoopSteps
  <2> QED BY <1>3, <1>4, <2>1, <2>2, NoJobAt, StepKeeps
<1> QED BY <1>5, <1>6 DEF Finalize

LEMMA SaveProfileStep == ASSUME SessionsInv, SaveProfile PROVE SessionsInv'
<1>0. HandlerInv /\ RegTypes BY DEF SessionsInv
<1>1. PICK e, s : e = job[Loop].enrollment /\ s = job[Loop].session.student OBVIOUS
<1>2. /\ pc[Loop] = "profile" /\ profiles' = [profiles EXCEPT ![s] = e] /\ Finish(Loop)
      /\ UNCHANGED <<sessions, owner, images, vectors, built, flags>>
  BY <1>1 DEF SaveProfile
<1>3. Loop \in Handlers /\ e \in Enrollments /\ s \in Students
  BY <1>1, <1>2, LoopFacts DEF LoopSteps, Sessions
<1>4. RegTypes'
  BY <1>0, <1>2, <1>3 DEF RegTypes, SessionTypes, ImageTypes, ProfileTypes, FaceTypes
<1>5. \A x \in Students : profiles'[x] = profiles[x] \/ profiles'[x] = e
  BY <1>0, <1>2 DEF RegTypes, ProfileTypes
<1>6. pc' = [pc EXCEPT ![Loop] = "idle"] /\ job' = [job EXCEPT ![Loop] = NoJob]
  BY <1>0, <1>2, <1>3, Going
<1>7. StepOk(Loop, "idle", NoJob)
  BY <1>1, <1>2, <1>5, NoJobAt DEF StepOk, LoopSteps, ActiveSessions
<1> QED BY <1>3, <1>4, <1>6, <1>7, NoJobAt, StepKeeps

-----------------------------------------------------------------------------
(* abort.                                                                  *)

LEMMA AbortStep == ASSUME SessionsInv, NEW h \in Handlers, Abort(h) PROVE SessionsInv'
<1>1. PICK e \in Addressed : Begin(h, "erase", [NoJob EXCEPT !.enrollment = e]) BY DEF Abort
<1>2. /\ e \in Enrollments
      /\ \A g \in Handlers : pc[g] \in {"insert", "prepare"} => job[g].enrollment # e
  BY <1>1 DEF Addressed, ActiveSessions
<1>3. PICK j \in Jobs : j = [NoJob EXCEPT !.enrollment = e] BY <1>2, NoJobAt DEF Jobs
<1>4. j.enrollment = e BY <1>3 DEF NoJob
<1>5. pc' = [pc EXCEPT ![h] = "erase"] /\ job' = [job EXCEPT ![h] = j]
  BY <1>1, <1>3 DEF Begin, Go
<1>6. RegTypes' /\ UNCHANGED <<sessions, profiles, owner, images>> /\ ActiveSessions' = ActiveSessions
  BY StoresStay DEF Abort
<1>7. JobAt(h, "erase", j) BY <1>2, <1>4 DEF JobAt, RegSteps, LoopSteps, ThreadSteps
<1>8. StepOk(h, "erase", j) BY <1>2, <1>4, <1>6 DEF StepOk, LoopSteps
<1> QED BY <1>5, <1>6, <1>7, <1>8, StepKeeps

\* The images of a session are erased, by an abort or a withdrawal.
LEMMA EraseStep ==
  ASSUME SessionsInv, NEW h \in Handlers, EraseAborted(h) \/ EraseOfProfile(h)
  PROVE  SessionsInv'
<1>0. HandlerInv /\ RegTypes BY DEF SessionsInv
<1>1. PICK e, j : e = job[h].enrollment /\ j = job[h] OBVIOUS
<1>2. PICK p : /\ \/ pc[h] = "erase" /\ p = "forget"
                  \/ pc[h] = "images" /\ p = "unprofile"
               /\ Continue(h, p)
  BY DEF EraseAborted, EraseOfProfile
<1>3. /\ owner' = [owner EXCEPT ![e] = None] /\ images' = [images EXCEPT ![e] = {}]
      /\ UNCHANGED <<sessions, profiles, vectors, built, flags>>
  BY <1>1 DEF EraseAborted, EraseOfProfile, Erase
<1>4. JobAt(h, pc[h], j) BY <1>0, <1>1 DEF HandlerInv
<1>5. e \in Enrollments BY <1>1, <1>2, <1>4 DEF JobAt
<1>6. /\ owner' \in [Enrollments -> Students \cup {None}]
      /\ images' \in [Enrollments -> SUBSET (Poses \X Nat)]
  BY <1>0, <1>3 DEF RegTypes, ImageTypes
<1>7. RegTypes'
  BY <1>0, <1>3, <1>6 DEF RegTypes, SessionTypes, ImageTypes, ProfileTypes, FaceTypes
<1>8. /\ \A x \in Enrollments : owner'[x] \in {owner[x], None} /\ images'[x] \subseteq images[x]
      /\ owner'[e] = None /\ images'[e] = {}
  BY <1>0, <1>3, <1>5 DEF RegTypes, ImageTypes
<1>9. pc' = [pc EXCEPT ![h] = p] /\ job' = [job EXCEPT ![h] = j] BY <1>0, <1>1, <1>2, Going
<1>10. JobAt(h, p, j) BY <1>2, <1>4 DEF JobAt, RegSteps, LoopSteps, ThreadSteps
<1>11. p = "unprofile" => Profiled(e) BY <1>1, <1>2 DEF Profiled
<1>12. StepOk(h, p, j)
  BY <1>1, <1>2, <1>3, <1>8, <1>11 DEF StepOk, LoopSteps, ActiveSessions
<1> QED BY <1>7, <1>9, <1>10, <1>12, StepKeeps

LEMMA ForgetStep == ASSUME SessionsInv, NEW h \in Handlers, Forget(h) PROVE SessionsInv'
<1>0. HandlerInv /\ RegTypes BY DEF SessionsInv
<1>1. /\ pc[h] = "forget" /\ sessions' = [sessions EXCEPT ![job[h].enrollment] = None]
      /\ UNCHANGED <<profiles, owner, images, vectors, built, flags>>
      /\ pc' = [pc EXCEPT ![h] = "idle"] /\ job' = [job EXCEPT ![h] = NoJob]
  BY <1>0, Going DEF Forget
<1>2. RegTypes'
  <2>1. sessions' \in [Enrollments -> Sessions \cup {None}]
    BY <1>0, <1>1 DEF RegTypes, SessionTypes
  <2>2. \A e \in Enrollments : sessions'[e] \in {sessions[e], None}
    BY <1>0, <1>1 DEF RegTypes, SessionTypes
  <2>3. SessionTypes' BY <1>0, <2>1, <2>2 DEF RegTypes, SessionTypes, Counted
  <2> QED BY <1>0, <1>1, <2>3 DEF RegTypes, ImageTypes, ProfileTypes, FaceTypes
<1>3. \A e \in Enrollments : /\ sessions'[e] \in {sessions[e], None}
                             /\ e # job[h].enrollment => sessions'[e] = sessions[e]
  BY <1>0, <1>1 DEF RegTypes, SessionTypes
<1>4. StepOk(h, "idle", NoJob)
  BY <1>1, <1>3, NoJobAt DEF StepOk, LoopSteps, ActiveSessions
<1> QED BY <1>1, <1>2, <1>4, NoJobAt, StepKeeps

-----------------------------------------------------------------------------
(* create_for_student, delete_face_profile, failures.                      *)

\* A step that touches no session, image or profile.
LEMMA FaceStep ==
  ASSUME SessionsInv, NEW h \in Handlers, NEW p, NEW j, JobAt(h, p, j),
         pc' = [pc EXCEPT ![h] = p], job' = [job EXCEPT ![h] = j],
         FaceTypes', UNCHANGED <<sessions, profiles, owner, images>>,
         p \in {"idle", "save", "flag", "unflag", "lookup"},
         \/ j.enrollment \in {None, job[h].enrollment}
         \/ \A g \in Handlers : pc[g] \in {"insert", "prepare"} => job[g].enrollment # j.enrollment
  PROVE  SessionsInv'
<1>1. RegTypes'
  BY DEF SessionsInv, RegTypes, SessionTypes, ImageTypes, ProfileTypes
<1>2. StepOk(h, p, j) BY DEF StepOk, LoopSteps, ActiveSessions
<1> QED BY <1>1, <1>2, StepKeeps

LEMMA RegisterStep == ASSUME SessionsInv, NEW h \in Handlers, Register(h) PROVE SessionsInv'
<1>1. PICK s \in Students, e \in Enrollments :
        owner[e] = s /\ Begin(h, "save", [NoJob EXCEPT !.student = s, !.enrollment = e])
  BY DEF Register
<1>2. PICK j \in Jobs : j = [NoJob EXCEPT !.student = s, !.enrollment = e] BY NoJobAt DEF Jobs
<1>3. j.student = s /\ j.enrollment = e BY <1>2 DEF NoJob
<1>4. pc' = [pc EXCEPT ![h] = "save"] /\ job' = [job EXCEPT ![h] = j]
  BY <1>1, <1>2 DEF Begin, Go
<1>5. FaceTypes' /\ UNCHANGED <<sessions, profiles, owner, images>>
  BY StoresStay DEF Register, RegTypes
<1>6. JobAt(h, "save", j)
  BY <1>3 DEF JobAt, RegSteps, LoopSteps, ThreadSteps, Register
<1>7. \A g \in Handlers : pc[g] \in {"insert", "prepare"} => job[g].enrollment # e
  BY <1>1, RegistrationAssumption DEF SessionsInv, CreationInv
<1> QED BY <1>3, <1>4, <1>5, <1>6, <1>7, FaceStep

LEMMA SaveVectorStep ==
  ASSUME SessionsInv, NEW h \in Handlers, SaveVector(h) PROVE SessionsInv'
<1>0. HandlerInv /\ RegTypes BY DEF SessionsInv
<1>1. PICK j : j = job[h] OBVIOUS
<1>2. /\ pc[h] = "save" /\ built' = built + 1
      /\ vectors' = [vectors EXCEPT ![j.student] = built']
      /\ UNCHANGED <<sessions, profiles, owner, images, flags>>
      /\ pc' = [pc EXCEPT ![h] = "flag"] /\ job' = [job EXCEPT ![h] = j]
  BY <1>0, <1>1, Going DEF SaveVector
<1>3. JobAt(h, "save", j) BY <1>0, <1>1, <1>2 DEF HandlerInv
<1>4. JobAt(h, "flag", j) BY <1>3 DEF JobAt, RegSteps, LoopSteps, ThreadSteps
<1>5. FaceTypes'
  <2>1. built' \in Nat BY <1>0, <1>2 DEF RegTypes, FaceTypes
  <2>2. vectors' \in [Students -> Nat \cup {None}] BY <1>0, <1>2, <2>1 DEF RegTypes, FaceTypes
  <2> QED BY <1>0, <1>2, <2>1, <2>2 DEF RegTypes, FaceTypes
<1> QED BY <1>1, <1>2, <1>4, <1>5, FaceStep

LEMMA RegisterFaceStep ==
  ASSUME SessionsInv, NEW h \in Handlers, RegisterFace(h) PROVE SessionsInv'
<1>0. HandlerInv /\ RegTypes BY DEF SessionsInv
<1>1. /\ pc[h] = "flag" /\ flags' = [flags EXCEPT ![job[h].student] = job[h].enrollment]
      /\ UNCHANGED <<sessions, profiles, owner, images, vectors, built>>
      /\ pc' = [pc EXCEPT ![h] = "idle"] /\ job' = [job EXCEPT ![h] = NoJob]
  BY <1>0, Going DEF RegisterFace
<1>2. job[h].enrollment \in Enrollments BY <1>0, <1>1 DEF HandlerInv, JobAt
<1>3. FaceTypes' BY <1>0, <1>1, <1>2 DEF RegTypes, FaceTypes
<1> QED BY <1>1, <1>3, NoJobAt, FaceStep

LEMMA WithdrawStep == ASSUME SessionsInv, NEW h \in Handlers, Withdraw(h) PROVE SessionsInv'
<1>0. RegTypes BY DEF SessionsInv
<1>1. PICK s \in Students : /\ Begin(h, "unflag", [NoJob EXCEPT !.student = s])
                            /\ vectors' = [vectors EXCEPT ![s] = None]
  BY DEF Withdraw
<1>2. PICK j \in Jobs : j = [NoJob EXCEPT !.student = s] BY NoJobAt DEF Jobs
<1>3. j.student = s /\ j.enrollment = None BY <1>2 DEF NoJob
<1>4. /\ pc' = [pc EXCEPT ![h] = "unflag"] /\ job' = [job EXCEPT ![h] = j]
      /\ UNCHANGED <<sessions, profiles, owner, images, built, flags>>
  BY <1>1, <1>2 DEF Begin, Go, Withdraw
<1>5. JobAt(h, "unflag", j)
  BY <1>3 DEF JobAt, RegSteps, LoopSteps, ThreadSteps, Withdraw
<1>6. FaceTypes' BY <1>0, <1>1, <1>4 DEF RegTypes, FaceTypes
<1> QED BY <1>3, <1>4, <1>5, <1>6, FaceStep

LEMMA UnregisterFaceStep ==
  ASSUME SessionsInv, NEW h \in Handlers, UnregisterFace(h) PROVE SessionsInv'
<1>0. HandlerInv /\ RegTypes BY DEF SessionsInv
<1>1. PICK j : j = job[h] OBVIOUS
<1>2. /\ pc[h] = "unflag" /\ flags' = [flags EXCEPT ![j.student] = None]
      /\ UNCHANGED <<sessions, profiles, owner, images, vectors, built>>
      /\ pc' = [pc EXCEPT ![h] = "lookup"] /\ job' = [job EXCEPT ![h] = j]
  BY <1>0, <1>1, Going DEF UnregisterFace, FlagsWithout
<1>3. JobAt(h, "unflag", j) BY <1>0, <1>1, <1>2 DEF HandlerInv
<1>4. JobAt(h, "lookup", j) BY <1>3 DEF JobAt, RegSteps, LoopSteps, ThreadSteps
<1>5. FaceTypes' BY <1>0, <1>2 DEF RegTypes, FaceTypes
<1> QED BY <1>1, <1>2, <1>4, <1>5, FaceStep

LEMMA FailStep == ASSUME SessionsInv, NEW h \in Handlers, Fail(h) PROVE SessionsInv'
<1>0. HandlerInv BY DEF SessionsInv
<1>1. pc' = [pc EXCEPT ![h] = "idle"] /\ job' = [job EXCEPT ![h] = NoJob]
  BY <1>0, Going DEF Fail
<1>2. FaceTypes' /\ UNCHANGED <<sessions, profiles, owner, images>>
  BY StoresStay DEF Fail, RegTypes
<1> QED BY <1>1, <1>2, NoJobAt, FaceStep

LEMMA FindProfileStep ==
  ASSUME SessionsInv, NEW h \in Handlers, FindProfile(h) PROVE SessionsInv'
<1>0. HandlerInv /\ RegTypes BY DEF SessionsInv
<1>1. PICK s, e, i : s = job[h].student /\ e = profiles[s] /\ i = job[h] /\ i \in Jobs
  BY <1>0 DEF HandlerInv
<1>2. /\ pc[h] = "lookup"
      /\ \/ Finish(h)
         \/ e # None /\ Go(h, "images") /\ job' = [job EXCEPT ![h].enrollment = e]
  BY <1>1 DEF FindProfile
<1>3. JobAt(h, "lookup", i) /\ s \in Students
  BY <1>0, <1>1, <1>2 DEF HandlerInv, JobAt, ThreadSteps
<1>4. /\ RegTypes' /\ FaceTypes' /\ UNCHANGED <<sessions, profiles, owner, images>>
      /\ ActiveSessions' = ActiveSessions
  BY StoresStay DEF FindProfile, RegTypes
<1>5. CASE Finish(h)
  <2>1. pc' = [pc EXCEPT ![h] = "idle"] /\ job' = [job EXCEPT ![h] = NoJob] BY <1>0, <1>5, Going
  <2> QED BY <1>4, <2>1, NoJobAt, FaceStep
<1>6. CASE e # None /\ Go(h, "images") /\ job' = [job EXCEPT ![h].enrollment = e]
  <2>1. e \in Enrollments BY <1>0, <1>1, <1>3, <1>6 DEF RegTypes, ProfileTypes
  <2>2. PICK j \in Jobs : j = [i EXCEPT !.enrollment = e] BY <1>1, <2>1 DEF Jobs
  <2>3. j.enrollment = e /\ j.student = i.student BY <2>2 DEF Jobs
  <2>4. pc' = [pc EXCEPT ![h] = "images"] /\ job' = [job EXCEPT ![h] = j]
    BY <1>0, <1>1, <1>6, <2>2 DEF Go, HandlerInv, Jobs
  <2>5. JobAt(h, "images", j)
    BY <1>3, <2>1, <2>3 DEF JobAt, RegSteps, LoopSteps, ThreadSteps
  <2>6. \A g \in Handlers : pc[g] \in {"insert", "prepare"} => job[g].enrollment # e
    BY <1>1, <1>3 DEF SessionsInv, CreationInv
  <2>7. Profiled(e) BY <1>1, <1>3 DEF Profiled
  <2>8. StepOk(h, "images", j) BY <1>4, <2>3, <2>6, <2>7 DEF StepOk, LoopSteps
  <2> QED BY <1>4, <2>4, <2>5, <2>8, StepKeeps
<1> QED BY <1>2, <1>5, <1>6

LEMMA DeleteProfileStep ==
  ASSUME SessionsInv, NEW h \in Handlers, DeleteProfile(h) PROVE SessionsInv'
<1>0. HandlerInv /\ RegTypes BY DEF SessionsInv
<1>1. /\ pc[h] = "unprofile" /\ profiles' = [profiles EXCEPT ![job[h].student] = None]
      /\ UNCHANGED <<sessions, owner, images, vectors, built, flags>>
      /\ pc' = [pc EXCEPT ![h] = "idle"] /\ job' = [job EXCEPT ![h] = NoJob]
  BY <1>0, Going DEF DeleteProfile
<1>2. RegTypes'
  BY <1>0, <1>1 DEF RegTypes, SessionTypes, ImageTypes, ProfileTypes, FaceTypes
<1>3. \A s \in Students : profiles'[s] \in {profiles[s], None}
  BY <1>0, <1>1 DEF RegTypes, ProfileTypes
<1>4. StepOk(h, "idle", NoJob) BY <1>1, <1>3, NoJobAt DEF StepOk, LoopSteps, ActiveSessions
<1> QED BY <1>1, <1>2, <1>4, NoJobAt, StepKeeps

LEMMA RestartStep == ASSUME SessionsInv, Restart PROVE SessionsInv'
<1>1. /\ pc' = [h \in Handlers |-> "idle"] /\ job' = [h \in Handlers |-> NoJob]
      /\ owner' = [e \in Enrollments |-> None] /\ images' = [e \in Enrollments |-> {}]
      /\ UNCHANGED <<sessions, profiles, vectors, built, flags>>
  BY DEF Restart
<1>2. RegTypes'
  BY <1>1 DEF SessionsInv, RegTypes, SessionTypes, ImageTypes, ProfileTypes, FaceTypes
<1>3. HandlerInv' BY <1>1, NoJobAt DEF HandlerInv, RegSteps
<1>4. CreationInv' /\ AbortInv' BY <1>1 DEF CreationInv, AbortInv
<1>5. ActiveSessions' = ActiveSessions BY <1>1 DEF ActiveSessions
<1>6. \A e \in Enrollments : ~Collecting(e)' /\ (Profiled(e)' => Profiled(e))
  BY <1>1 DEF Collecting, Profiled, LoopSteps, Handlers
<1>7. ProfileInv' BY <1>1, <1>5, <1>6 DEF SessionsInv, ProfileInv
<1> QED BY <1>2, <1>3, <1>4, <1>7 DEF SessionsInv

\* A session expires, a student is created, or nothing happens.
LEMMA ExpireStep ==
  ASSUME SessionsInv, UNCHANGED <<profiles, owner, images, vectors, built, pc, job>>, FaceTypes',
         \/ \E e \in Enrollments : Expire(e)
         \/ UNCHANGED sessions
  PROVE  SessionsInv'
<1>0. RegTypes BY DEF SessionsInv
<1>1. /\ sessions' \in [Enrollments -> Sessions \cup {None}]
      /\ \A e \in Enrollments :
           \/ sessions'[e] = sessions[e]
           \/ sessions'[e] = None /\ \A h \in Handlers : job[h].enrollment # e
  <2>1. CASE UNCHANGED sessions BY <1>0, <2>1 DEF RegTypes, SessionTypes
  <2>2. ASSUME NEW e \in Enrollments, Expire(e)
        PROVE  /\ sessions' \in [Enrollments -> Sessions \cup {None}]
               /\ \A x \in Enrollments :
                    \/ sessions'[x] = sessions[x]
                    \/ sessions'[x] = None /\ \A h \in Handlers : job[h].enrollment # x
    <3>1. sessions' = [sessions EXCEPT ![e] = None] /\ \A h \in Handlers : job[h].enrollment # e
      BY <2>2 DEF Expire
    <3> QED BY <1>0, <3>1 DEF RegTypes, SessionTypes
  <2> QED BY <2>1, <2>2
<1>2. RegTypes'
  <2>1. SessionTypes' BY <1>0, <1>1 DEF RegTypes, SessionTypes, Counted
  <2> QED BY <1>0, <2>1 DEF RegTypes, ImageTypes, ProfileTypes
<1>3. HandlerInv' /\ AbortInv' BY DEF SessionsInv, HandlerInv, AbortInv
<1>4. CreationInv'
  <2>1. \A h \in Handlers : pc[h] = "prepare" => sessions'[job[h].enrollment] # None
    BY <1>1 DEF SessionsInv, CreationInv, HandlerInv, JobAt
  <2> QED BY <2>1 DEF SessionsInv, CreationInv
<1>5. ActiveSessions' \subseteq ActiveSessions BY <1>1 DEF ActiveSessions
<1>6. ProfileInv' BY <1>5 DEF SessionsInv, ProfileInv, Profiled, Collecting
<1> QED BY <1>2, <1>3, <1>4, <1>6 DEF SessionsInv

LEMMA InitSessions == RegInit => SessionsInv
<1> SUFFICES ASSUME RegInit PROVE SessionsInv OBVIOUS
<1>1. RegTypes
  BY DEF RegInit, RegTypes, SessionTypes, ImageTypes, ProfileTypes, FaceTypes
<1>2. HandlerInv BY NoJobAt DEF RegInit, HandlerInv, RegSteps
<1>3. CreationInv /\ AbortInv BY DEF RegInit, CreationInv, AbortInv
<1>4. Loop \in Handlers BY DEF Handlers
<1>5. ProfileInv
  BY <1>4, RegistrationAssumption
     DEF RegInit, ProfileInv, ActiveSessions, Profiled, Collecting, LoopSteps
<1> QED BY <1>1, <1>2, <1>3, <1>5 DEF SessionsInv

LEMMA NextSessions == SessionsInv /\ [RegNext]_regVars => SessionsInv'
<1> SUFFICES ASSUME SessionsInv, [RegNext]_regVars PROVE SessionsInv' OBVIOUS
<1>1. ASSUME NEW h \in Handlers, Handle(h) PROVE SessionsInv'
  BY <1>1, CreateStep, InsertStep, PrepareStep, AbortStep, EraseStep, ForgetStep, RegisterStep,
     SaveVectorStep, RegisterFaceStep, WithdrawStep, UnregisterFaceStep, FindProfileStep,
     DeleteProfileStep, FailStep DEF Handle
<1>2. CASE HandleFrame
  BY <1>2, AnalyzedStep, PutStep, StoreStep, FinalizeStep, CompleteStep, SaveProfileStep
     DEF HandleFrame
<1>3. ASSUME UNCHANGED <<vectors, built, flags>> PROVE FaceTypes'
  BY <1>3 DEF SessionsInv, RegTypes, FaceTypes
<1>4. ASSUME NEW e \in Enrollments, Expire(e) PROVE SessionsInv'
  BY <1>3, <1>4, ExpireStep DEF Expire
<1>5. CASE UNCHANGED regVars BY <1>3, <1>5, ExpireStep DEF regVars, storeVars
<1>6. ASSUME NEW s \in Students, CreateStudent(s) PROVE SessionsInv'
  <2>1. FaceTypes' BY <1>6 DEF CreateStudent, SessionsInv, RegTypes, FaceTypes
  <2> QED BY <1>6, <2>1, ExpireStep DEF CreateStudent
<1> QED BY <1>1, <1>2, <1>4, <1>5, <1>6, RestartStep DEF RegNext

-----------------------------------------------------------------------------
(* Recognition stays open.                                                 *)

\* A student is contested while a registration and a withdrawal of the student meet, and
\* a registration that is going to set the mark has its vector, or the student is
\* contested.
OpenInv ==
  /\ Overlapping \subseteq contested
  /\ \A h \in Handlers : pc[h] = "flag" =>
       vectors[job[h].student] # None \/ job[h].student \in contested
  /\ RecognitionStaysOpen

Contests ==
  /\ contested' = (contested \ Settled) \cup BrokenOff \cup Overlapping'
  /\ admitted' = {s \in admitted \cup (known' \ known) : Closed(s)'}

\* Who was created with a mark stays an admitted one as long as he is closed.
LEMMA AdmittedStay == Contests => \A s \in Students : s \in admitted /\ Closed(s)' => s \in admitted'
BY DEF Contests

\* A step that neither writes a vector or a mark nor ends the part of a withdrawal
\* between the two, unless it breaks off there.
LEMMA OpenQuiet ==
  ASSUME HandlerInv, OpenInv, Contests, NEW h \in Handlers, NEW p, NEW j,
         pc' = [pc EXCEPT ![h] = p], job' = [job EXCEPT ![h] = j],
         UNCHANGED <<vectors, flags>>,
         p \notin {"flag", "lookup"}, p = "idle" \/ pc[h] # "unflag"
  PROVE  OpenInv'
<1>1. /\ pc'[h] = p /\ job'[h] = j
      /\ \A g \in Handlers : g # h => pc'[g] = pc[g] /\ job'[g] = job[g]
  BY DEF HandlerInv
<1>2. Settled = {} BY <1>1 DEF Settled, Working
<1>3. contested \subseteq contested' /\ BrokenOff \subseteq contested'
      /\ Overlapping' \subseteq contested'
  BY <1>2 DEF Contests
<1>4. \A s \in Students : Withdrawing(s) => Withdrawing(s)' \/ s \in contested'
  <2> SUFFICES ASSUME NEW s \in Students, NEW g \in Handlers, pc[g] = "unflag",
                      job[g].student = s
               PROVE  Withdrawing(s)' \/ s \in contested'
    BY DEF Withdrawing, Working
  <2>1. CASE g = h
    <3>1. s \in BrokenOff BY <1>1, <2>1 DEF BrokenOff, Working
    <3> QED BY <1>3, <3>1
  <2>2. CASE g # h BY <1>1, <2>2 DEF Withdrawing, Working
  <2> QED BY <2>1, <2>2
<1>5. RecognitionStaysOpen'
  BY <1>3, <1>4, AdmittedStay DEF OpenInv, RecognitionStaysOpen, Closed
<1>6. \A g \in Handlers : pc'[g] = "flag" =>
        vectors'[job'[g].student] # None \/ job'[g].student \in contested'
  BY <1>1, <1>3 DEF OpenInv
<1> QED BY <1>3, <1>5, <1>6 DEF OpenInv

LEMMA SessionStepsOpen ==
  ASSUME HandlerInv, OpenInv, Contests, NEW h \in Handlers,
         \/ Create(h) \/ Insert(h) \/ Prepare(h)
         \/ Abort(h) \/ EraseAborted(h) \/ Forget(h)
         \/ Register(h) \/ FindProfile(h) \/ EraseOfProfile(h) \/ DeleteProfile(h)
         \/ Fail(h)
         \/ h = Loop /\ HandleFrame
  PROVE  OpenInv'
<1>1. UNCHANGED <<vectors, flags>>
  BY DEF Create, Insert, Prepare, Abort, EraseAborted, Forget, Register, FindProfile,
         EraseOfProfile, DeleteProfile, Fail, HandleFrame, Analyzed, Put, Store, Validate,
         Finalize, Complete, SaveProfile, storeVars
<1>2. CASE Finish(h) BY <1>1, <1>2, Going, OpenQuiet
<1>3. ASSUME NEW p, NEW values, Begin(h, p, values), p \notin {"flag", "lookup"} PROVE OpenInv'
  BY <1>1, <1>3, OpenQuiet DEF Begin, Go
<1>4. ASSUME NEW p, Continue(h, p), p \notin {"flag", "lookup"}, pc[h] # "unflag" PROVE OpenInv'
  <2>1. pc' = [pc EXCEPT ![h] = p] /\ job' = [job EXCEPT ![h] = job[h]] BY <1>4, Going
  <2> QED BY <1>1, <1>4, <2>1, OpenQuiet
<1>5. CASE FindProfile(h)
  <2>1. pc[h] = "lookup" BY <1>5 DEF FindProfile
  <2>2. CASE Go(h, "images") /\ job' = [job EXCEPT ![h].enrollment = profiles[job[h].student]]
    <3>1. job' = [job EXCEPT ![h] = [job[h] EXCEPT !.enrollment = profiles[job[h].student]]]
      BY <2>2 DEF HandlerInv
    <3>2. PICK j : job' = [job EXCEPT ![h] = j] BY <3>1
    <3>3. pc' = [pc EXCEPT ![h] = "images"] BY <2>2 DEF Go
    <3> QED BY <1>1, <2>1, <3>2, <3>3, OpenQuiet
  <2> QED BY <1>2, <1>5, <2>2 DEF FindProfile
<1>6. CASE Create(h) \/ Abort(h) \/ Register(h) \/ (h = Loop /\ Analyzed)
  <2>1. \E p \in {"insert", "erase", "save", "store", "put"} : \E values : Begin(h, p, values)
    BY <1>6 DEF Create, Abort, Register, Analyzed
  <2> QED BY <1>3, <2>1
<1>7. CASE Prepare(h) \/ Forget(h) \/ DeleteProfile(h) \/ Fail(h)
  BY <1>2, <1>7 DEF Prepare, Forget, DeleteProfile, Fail
<1>8. CASE Insert(h) \/ EraseAborted(h) \/ EraseOfProfile(h)
  BY <1>4, <1>8 DEF Insert, EraseAborted, EraseOfProfile
<1>9. CASE h = Loop /\ (Put \/ Store \/ Validate \/ Finalize \/ Complete \/ SaveProfile)
  <2>1. pc[h] # "unflag"
    BY <1>9 DEF Put, Store, Validate, Finalize, Complete, SaveProfile
  <2>2. \/ Finish(h)
        \/ \E p \in {"validate", "store", "finalize", "complete", "erase", "profile"} :
             Continue(h, p)
    BY <1>9 DEF Put, Store, Validate, Finalize, Complete, SaveProfile
  <2> QED BY <1>2, <1>4, <2>1, <2>2
<1> QED BY <1>5, <1>6, <1>7, <1>8, <1>9 DEF HandleFrame

\* A vector is saved: its student is not closed, and others are as they were.
LEMMA SaveVectorOpen ==
  ASSUME HandlerInv, FaceTypes, OpenInv, Contests, NEW h \in Handlers, SaveVector(h)
  PROVE  OpenInv'
<1>1. PICK s : s = job[h].student OBVIOUS
<1>2. /\ pc[h] = "save" /\ built' = built + 1 /\ vectors' = [vectors EXCEPT ![s] = built']
      /\ flags' = flags
      /\ pc' = [pc EXCEPT ![h] = "flag"] /\ job' = [job EXCEPT ![h] = job[h]]
  BY <1>1, Going DEF SaveVector
<1>3. s \in Students BY <1>1, <1>2 DEF HandlerInv, JobAt, ThreadSteps
<1>4. /\ pc'[h] = "flag" /\ job'[h] = job[h]
      /\ \A g \in Handlers : job'[g] = job[g] /\ (g # h => pc'[g] = pc[g])
  BY <1>2 DEF HandlerInv
<1>5. vectors'[s] # None
  <2>1. built' \in Nat BY <1>2 DEF FaceTypes
  <2> QED BY <1>2, <1>3, <2>1, RegistrationAssumption DEF FaceTypes
<1>6. \A x \in Students : x # s => vectors'[x] = vectors[x] BY <1>2 DEF FaceTypes
<1>7. \A x \in Students : x # s => x \notin Settled BY <1>1, <1>4 DEF Settled, Working
<1>8. \A x \in Students : x # s /\ x \in contested => x \in contested'
  BY <1>7 DEF Contests
<1>9. Overlapping' \subseteq contested' BY DEF Contests
<1>10. \A x \in Students : Withdrawing(x) => Withdrawing(x)'
  BY <1>2, <1>4 DEF Withdrawing, Working
<1>11. RecognitionStaysOpen'
  BY <1>2, <1>5, <1>6, <1>8, <1>10, AdmittedStay DEF OpenInv, RecognitionStaysOpen, Closed
<1>12. ASSUME NEW g \in Handlers, pc'[g] = "flag"
       PROVE  vectors'[job'[g].student] # None \/ job'[g].student \in contested'
  <2>1. PICK x : x = job'[g].student OBVIOUS
  <2>2. CASE x = s BY <1>5, <2>1, <2>2
  <2>3. CASE x # s
    <3>1. pc[g] = "flag" /\ x = job[g].student BY <1>1, <1>4, <1>12, <2>1, <2>3
    <3>2. x \in Students BY <3>1 DEF HandlerInv, JobAt, ThreadSteps
    <3>3. vectors[x] # None \/ x \in contested BY <3>1 DEF OpenInv
    <3> QED BY <1>6, <1>8, <2>1, <2>3, <3>2, <3>3
  <2> QED BY <2>2, <2>3
<1> QED BY <1>9, <1>11, <1>12 DEF OpenInv

\* The mark is set: there is a vector, or the student is contested.
LEMMA RegisterFaceOpen ==
  ASSUME HandlerInv, FaceTypes, OpenInv, Contests, NEW h \in Handlers, RegisterFace(h)
  PROVE  OpenInv'
<1>1. PICK s : s = job[h].student OBVIOUS
<1>2. /\ pc[h] = "flag" /\ flags' = [flags EXCEPT ![s] = job[h].enrollment] /\ vectors' = vectors
      /\ pc' = [pc EXCEPT ![h] = "idle"] /\ job' = [job EXCEPT ![h] = NoJob]
  BY <1>1, Going DEF RegisterFace
<1>3. s \in Students BY <1>1, <1>2 DEF HandlerInv, JobAt, ThreadSteps
<1>4. /\ pc'[h] = "idle"
      /\ \A g \in Handlers : g # h => pc'[g] = pc[g] /\ job'[g] = job[g]
  BY <1>2 DEF HandlerInv
<1>5. Settled = {} BY <1>2, <1>4 DEF Settled, Working
<1>6. contested \subseteq contested' /\ Overlapping' \subseteq contested' BY <1>5 DEF Contests
<1>7. \A x \in Students : Withdrawing(x) => Withdrawing(x)'
  BY <1>2, <1>4 DEF Withdrawing, Working
<1>8. vectors[s] # None \/ s \in contested BY <1>1, <1>2 DEF OpenInv
<1>9. \A x \in Students : x # s => flags'[x] = flags[x] BY <1>2 DEF FaceTypes
<1>10. RecognitionStaysOpen'
  BY <1>2, <1>6, <1>7, <1>8, <1>9, AdmittedStay DEF OpenInv, RecognitionStaysOpen, Closed
<1>11. \A g \in Handlers : pc'[g] = "flag" =>
         vectors'[job'[g].student] # None \/ job'[g].student \in contested'
  BY <1>2, <1>4, <1>6 DEF OpenInv
<1> QED BY <1>6, <1>10, <1>11 DEF OpenInv

\* The vector is deleted: the withdrawal is under way, and whoever is about to set the mark
\* makes the student a contested one.
LEMMA WithdrawOpen ==
  ASSUME HandlerInv, FaceTypes, OpenInv, Contests, NEW h \in Handlers, Withdraw(h)
  PROVE  OpenInv'
<1>1. PICK s \in Students : /\ Begin(h, "unflag", [NoJob EXCEPT !.student = s])
                            /\ vectors' = [vectors EXCEPT ![s] = None]
  BY DEF Withdraw
<1>2. PICK j : j = [NoJob EXCEPT !.student = s] /\ j.student = s
  <2>1. [NoJob EXCEPT !.student = s].student = s BY DEF NoJob
  <2> QED BY <2>1
<1>3. /\ pc[h] = "idle" /\ flags' = flags
      /\ pc' = [pc EXCEPT ![h] = "unflag"] /\ job' = [job EXCEPT ![h] = j]
  BY <1>1, <1>2 DEF Withdraw, Begin, Go
<1>4. /\ pc'[h] = "unflag" /\ job'[h] = j
      /\ \A g \in Handlers : g # h => pc'[g] = pc[g] /\ job'[g] = job[g]
  BY <1>3 DEF HandlerInv
<1>5. Settled = {} BY <1>3, <1>4 DEF Settled, Working
<1>6. contested \subseteq contested' /\ Overlapping' \subseteq contested' BY <1>5 DEF Contests
<1>7. Withdrawing(s)' BY <1>2, <1>4 DEF Withdrawing, Working
<1>8. \A x \in Students : Withdrawing(x) => Withdrawing(x)'
  BY <1>3, <1>4 DEF Withdrawing, Working
<1>9. \A x \in Students : x # s => vectors'[x] = vectors[x] BY <1>1 DEF FaceTypes
<1>10. RecognitionStaysOpen'
  BY <1>3, <1>6, <1>7, <1>8, <1>9, AdmittedStay DEF OpenInv, RecognitionStaysOpen, Closed
<1>11. ASSUME NEW g \in Handlers, pc'[g] = "flag"
       PROVE  vectors'[job'[g].student] # None \/ job'[g].student \in contested'
  <2>1. pc[g] = "flag" /\ job'[g] = job[g] BY <1>4, <1>11
  <2>2. PICK x \in Students : x = job[g].student BY <2>1 DEF HandlerInv, JobAt, ThreadSteps
  <2>3. CASE x = s
    <3>1. Registering(s)' BY <1>11, <2>1, <2>2, <2>3 DEF Registering, Working
    <3>2. s \in Overlapping' BY <1>7, <3>1 DEF Overlapping
    <3> QED BY <1>6, <2>1, <2>2, <2>3, <3>2
  <2>4. CASE x # s BY <1>6, <1>9, <2>1, <2>2, <2>4 DEF OpenInv
  <2> QED BY <2>3, <2>4
<1> QED BY <1>6, <1>10, <1>11 DEF OpenInv

\* The mark is taken back: the student is not closed, and nobody is about to set the mark
\* unless the student stays contested.
LEMMA UnregisterFaceOpen ==
  ASSUME HandlerInv, FaceTypes, OpenInv, Contests, NEW h \in Handlers, UnregisterFace(h)
  PROVE  OpenInv'
<1>1. PICK s : s = job[h].student OBVIOUS
<1>2. /\ pc[h] = "unflag" /\ flags' = [flags EXCEPT ![s] = None] /\ vectors' = vectors
      /\ pc' = [pc EXCEPT ![h] = "lookup"] /\ job' = [job EXCEPT ![h] = job[h]]
  BY <1>1, Going DEF UnregisterFace, FlagsWithout
<1>3. s \in Students BY <1>1, <1>2 DEF HandlerInv, JobAt, ThreadSteps
<1>4. /\ pc'[h] = "lookup"
      /\ \A g \in Handlers : job'[g] = job[g] /\ (g # h => pc'[g] = pc[g])
  BY <1>2 DEF HandlerInv
<1>5. \A x \in Students : x # s => x \notin Settled BY <1>1, <1>4 DEF Settled, Working
<1>6. s \in Settled => ~Registering(s)
  <2>1. \A g \in Handlers : ~(pc[g] = "save" /\ pc'[g] = "flag") BY <1>2, <1>4
  <2> QED BY <2>1 DEF Settled, Working
<1>7. \A x \in Students : x \in contested => x \in contested' \/ (x = s /\ ~Registering(s))
  BY <1>5, <1>6 DEF Contests
<1>8. Overlapping' \subseteq contested' BY DEF Contests
<1>9. \A x \in Students : x # s /\ Withdrawing(x) => Withdrawing(x)'
  BY <1>1, <1>4 DEF Withdrawing, Working
<1>10. flags'[s] = None /\ \A x \in Students : x # s => flags'[x] = flags[x]
  BY <1>2, <1>3 DEF FaceTypes
<1>11. RecognitionStaysOpen'
  BY <1>2, <1>7, <1>9, <1>10, AdmittedStay DEF OpenInv, RecognitionStaysOpen, Closed
<1>12. ASSUME NEW g \in Handlers, pc'[g] = "flag"
       PROVE  vectors'[job'[g].student] # None \/ job'[g].student \in contested'
  <2>1. pc[g] = "flag" /\ job'[g] = job[g] BY <1>4, <1>12
  <2>2. PICK x \in Students : x = job[g].student BY <2>1 DEF HandlerInv, JobAt, ThreadSteps
  <2>3. Registering(x) BY <2>1, <2>2 DEF Registering, Working
  <2>4. vectors[x] # None \/ x \in contested BY <2>1, <2>2 DEF OpenInv
  <2> QED BY <1>2, <1>7, <2>1, <2>2, <2>3, <2>4
<1> QED BY <1>8, <1>11, <1>12 DEF OpenInv

LEMMA RestartOpen ==
  ASSUME OpenInv, Contests, Restart \/ UNCHANGED <<vectors, flags, pc, job>> PROVE OpenInv'
<1>1. UNCHANGED <<vectors, flags>> BY DEF Restart
<1>2. \/ \A h \in Handlers : pc'[h] = "idle"
      \/ UNCHANGED <<pc, job>>
  BY DEF Restart
<1>3. Settled = {} BY <1>2 DEF Settled, Working
<1>4. /\ contested \subseteq contested' /\ BrokenOff \subseteq contested'
      /\ Overlapping' \subseteq contested'
  BY <1>3 DEF Contests
<1>5. \A s \in Students : Withdrawing(s) => Withdrawing(s)' \/ s \in BrokenOff
  BY <1>2 DEF Withdrawing, BrokenOff, Working
<1>6. RecognitionStaysOpen'
  BY <1>1, <1>4, <1>5, AdmittedStay DEF OpenInv, RecognitionStaysOpen, Closed
<1>7. \A g \in Handlers : pc'[g] = "flag" =>
        vectors'[job'[g].student] # None \/ job'[g].student \in contested'
  BY <1>1, <1>2, <1>4 DEF OpenInv
<1> QED BY <1>4, <1>6, <1>7 DEF OpenInv

\* The student that is created is closed without a vector, and an admitted one then.
LEMMA CreateStudentOpen ==
  ASSUME FaceTypes, OpenInv, Contests, NEW s \in Students, CreateStudent(s) PROVE OpenInv'
<1>1. /\ s \in known' \ known /\ UNCHANGED <<vectors, pc, job>>
      /\ \A x \in Students : x # s => flags'[x] = flags[x]
  BY DEF CreateStudent, NewStudent, FaceTypes
<1>2. Settled = {} BY <1>1 DEF Settled, Working
<1>3. contested \subseteq contested' /\ Overlapping' \subseteq contested' BY <1>2 DEF Contests
<1>4. \A x \in Students : Withdrawing(x)' <=> Withdrawing(x) BY <1>1 DEF Withdrawing, Working
<1>5. Closed(s)' => s \in admitted' BY <1>1 DEF Contests
<1>6. \A x \in Students : x # s => (Closed(x)' <=> Closed(x)) BY <1>1 DEF Closed
<1>7. RecognitionStaysOpen'
  BY <1>3, <1>4, <1>5, <1>6, AdmittedStay DEF OpenInv, RecognitionStaysOpen
<1>8. \A g \in Handlers : pc'[g] = "flag" =>
        vectors'[job'[g].student] # None \/ job'[g].student \in contested'
  BY <1>1, <1>3 DEF OpenInv
<1> QED BY <1>3, <1>7, <1>8 DEF OpenInv

LEMMA NextOpen == SessionsInv /\ OpenInv /\ [RegNext]_regVars => OpenInv'
<1> SUFFICES ASSUME SessionsInv, OpenInv, [RegNext]_regVars PROVE OpenInv' OBVIOUS
<1>0. HandlerInv /\ FaceTypes BY DEF SessionsInv, RegTypes
<1>1. CASE UNCHANGED regVars
  <2>1. UNCHANGED <<vectors, flags, contested, admitted, pc, job>> BY <1>1 DEF regVars, storeVars
  <2> QED BY <2>1 DEF OpenInv, RecognitionStaysOpen, Closed, Overlapping, Registering,
                      Withdrawing, Working
<1>2. CASE RegNext
  <2>0. Contests BY <1>2 DEF RegNext, Contests
  <2>1. ASSUME NEW h \in Handlers, Handle(h) PROVE OpenInv'
    BY <1>0, <2>0, <2>1, SessionStepsOpen, SaveVectorOpen, RegisterFaceOpen, WithdrawOpen,
       UnregisterFaceOpen DEF Handle
  <2>2. CASE HandleFrame
    <3>1. Loop \in Handlers BY DEF Handlers
    <3> QED BY <1>0, <2>0, <2>2, <3>1, SessionStepsOpen
  <2>3. ASSUME NEW e \in Enrollments, Expire(e) PROVE OpenInv'
    BY <2>0, <2>3, RestartOpen DEF Expire
  <2>4. ASSUME NEW s \in Students, CreateStudent(s) PROVE OpenInv'
    BY <1>0, <2>0, <2>4, CreateStudentOpen
  <2> QED BY <1>2, <2>0, <2>1, <2>2, <2>3, <2>4, RestartOpen DEF RegNext
<1> QED BY <1>1, <1>2

LEMMA InitOpen == RegInit => OpenInv
BY DEF RegInit, OpenInv, RecognitionStaysOpen, Closed, Overlapping, Registering, Withdrawing,
       Working

-----------------------------------------------------------------------------
(* No image is forgotten.                                                  *)

\* What led to the images of a session leads to them after the step, unless the step ends
\* the request or takes the session or the profile away.
LEMMA ReferenceStays ==
  ASSUME HandlerInv, NEW e \in Enrollments, Referred(e), NEW h \in Handlers, NEW p, NEW j,
         pc' = [pc EXCEPT ![h] = p], job' = [job EXCEPT ![h] = j],
         \/ job[h].enrollment # e
         \/ pc[h] \in {"save", "flag"}
         \/ j.enrollment = e /\ p \notin {"save", "flag"},
         sessions[e] # None => sessions'[e] # None,
         \A s \in Students : profiles[s] = e => profiles'[s] = e
  PROVE  Referred(e)'
<1>1. /\ pc'[h] = p /\ job'[h] = j
      /\ \A g \in Handlers : g # h => pc'[g] = pc[g] /\ job'[g] = job[g]
  BY DEF HandlerInv
<1>2. CASE sessions[e] # None BY <1>2 DEF Referred
<1>3. CASE \E s \in Students : profiles[s] = e BY <1>3 DEF Referred
<1>4. ASSUME NEW g \in Handlers, job[g].enrollment = e, pc[g] \notin {"save", "flag"}
      PROVE  Referred(e)'
  <2>1. CASE g = h BY <1>1, <1>4, <2>1 DEF Referred
  <2>2. CASE g # h BY <1>1, <1>4, <2>2 DEF Referred
  <2> QED BY <2>1, <2>2
<1> QED BY <1>2, <1>3, <1>4 DEF Referred

\* A step that begins a request, goes on with it or takes it on by its profile.
LEMMA GoingOnRefers ==
  ASSUME SessionsInv, NEW e \in Enrollments, Referred(e), NEW h \in Handlers,
         \/ \E p, values : Begin(h, p, values)
         \/ \E p : Continue(h, p) /\ p \notin {"save", "flag"}
         \/ Continue(h, "flag") /\ pc[h] = "save",
         sessions[e] # None => sessions'[e] # None, UNCHANGED profiles
  PROVE  Referred(e)'
<1>0. HandlerInv BY DEF SessionsInv
<1>1. ASSUME NEW p, NEW values, Begin(h, p, values) PROVE Referred(e)'
  <2>1. /\ pc[h] = "idle" /\ pc' = [pc EXCEPT ![h] = p] /\ job' = [job EXCEPT ![h] = values]
    BY <1>1 DEF Begin, Go
  <2>2. job[h].enrollment = None BY <1>0, <2>1, NoJobAt DEF HandlerInv, JobAt
  <2>3. job[h].enrollment # e BY <2>2, RegistrationAssumption
  <2> QED BY <1>0, <2>1, <2>3, ReferenceStays
<1>2. ASSUME NEW p, Continue(h, p), p \notin {"save", "flag"} \/ pc[h] = "save" PROVE Referred(e)'
  <2>1. pc' = [pc EXCEPT ![h] = p] /\ job' = [job EXCEPT ![h] = job[h]] BY <1>0, <1>2, Going
  <2> QED BY <1>0, <1>2, <2>1, ReferenceStays
<1> QED BY <1>1, <1>2

\* The last request that led to the images of a session ends.
LEMMA EndingForgets ==
  ASSUME SessionsInv, NEW e \in Enrollments, Referred(e), ~Referred(e)', NEW h \in Handlers,
         Finish(h), sessions[e] # None => sessions'[e] # None,
         \A s \in Students : profiles[s] = e => profiles'[s] = e
  PROVE  job[h].enrollment = e /\ pc[h] \notin {"save", "flag"}
<1>0. HandlerInv BY DEF SessionsInv
<1>1. pc' = [pc EXCEPT ![h] = "idle"] /\ job' = [job EXCEPT ![h] = NoJob] BY <1>0, Going
<1> QED BY <1>0, <1>1, ReferenceStays

LEMMA ForgottenImages ==
  ASSUME SessionsInv, RegNext, NEW e \in Enrollments, Referred(e), images'[e] # {}, ~Referred(e)'
  PROVE  \/ Expire(e)
         \/ SaveProfile /\ profiles[job[Loop].session.student] = e
         \/ \E h \in Handlers :
              \/ Fail(h) /\ job[h].enrollment = e
              \/ Forget(h) /\ owner[e] = None
              \/ DeleteProfile(h) /\ job[h].enrollment # e
<1> DEFINE Excused ==
      \/ Expire(e)
      \/ SaveProfile /\ profiles[job[Loop].session.student] = e
      \/ \E h \in Handlers :
           \/ Fail(h) /\ job[h].enrollment = e
           \/ Forget(h) /\ owner[e] = None
           \/ DeleteProfile(h) /\ job[h].enrollment # e
<1> SUFFICES Excused OBVIOUS
<1>0. HandlerInv /\ RegTypes /\ CreationInv /\ AbortInv /\ ProfileInv BY DEF SessionsInv
<1>1. None \notin Enrollments /\ Loop \in Handlers BY RegistrationAssumption DEF Handlers
<1>2. /\ sessions'[e] = None /\ \A s \in Students : profiles'[s] # e
  BY DEF Referred
<1>3. ASSUME NEW h \in Handlers, Create(h) \/ Abort(h) \/ Register(h) \/ Withdraw(h) PROVE FALSE
  <2>1. UNCHANGED <<sessions, profiles>> /\ \E p, values : Begin(h, p, values)
    BY <1>3 DEF Create, Abort, Register, Withdraw, storeVars
  <2> QED BY <2>1, GoingOnRefers
<1>4. ASSUME NEW h \in Handlers, EraseAborted(h) \/ SaveVector(h) \/ UnregisterFace(h) \/ EraseOfProfile(h)
      PROVE  FALSE
  <2>1. /\ UNCHANGED <<sessions, profiles>>
        /\ \/ \E p \in {"forget", "lookup", "unprofile"} : Continue(h, p)
           \/ Continue(h, "flag") /\ pc[h] = "save"
    BY <1>4 DEF EraseAborted, SaveVector, UnregisterFace, EraseOfProfile
  <2> QED BY <2>1, GoingOnRefers
<1>5. ASSUME NEW h \in Handlers, Insert(h) PROVE FALSE
  <2>1. UNCHANGED profiles /\ Continue(h, "prepare")
        /\ sessions' = [sessions EXCEPT ![job[h].enrollment] = [NoSession EXCEPT !.student = job[h].student]]
    BY <1>5 DEF Insert
  <2>2. CASE job[h].enrollment = e
    <3>1. job'[h].enrollment = e /\ pc'[h] = "prepare" BY <1>0, <2>1, <2>2 DEF Continue, Go, HandlerInv
    <3> QED BY <3>1 DEF Referred
  <2>3. CASE job[h].enrollment # e
    <3>1. sessions'[e] = sessions[e] BY <1>0, <2>1, <2>3 DEF RegTypes, SessionTypes
    <3> QED BY <2>1, <3>1, GoingOnRefers
  <2> QED BY <2>2, <2>3
<1>6. ASSUME NEW h \in Handlers, Prepare(h) PROVE FALSE
  <2>1. pc[h] = "prepare" /\ UNCHANGED <<sessions, profiles>> /\ Finish(h) BY <1>6 DEF Prepare
  <2>2. job[h].enrollment = e BY <2>1, EndingForgets
  <2> QED BY <1>0, <1>2, <2>1, <2>2 DEF CreationInv
<1>7. ASSUME NEW h \in Handlers, Forget(h) PROVE Excused
  <2>1. /\ pc[h] = "forget" /\ sessions' = [sessions EXCEPT ![job[h].enrollment] = None]
        /\ UNCHANGED profiles /\ Finish(h)
    BY <1>7 DEF Forget
  <2>2. CASE job[h].enrollment = e BY <1>0, <1>7, <2>1, <2>2 DEF AbortInv
  <2>3. CASE job[h].enrollment # e
    <3>1. sessions'[e] = sessions[e] BY <1>0, <2>1, <2>3 DEF RegTypes, SessionTypes
    <3> QED BY <2>1, <2>3, <3>1, EndingForgets
  <2> QED BY <2>2, <2>3
<1>8. ASSUME NEW h \in Handlers, RegisterFace(h) PROVE FALSE
  <2>1. pc[h] = "flag" /\ UNCHANGED <<sessions, profiles>> /\ Finish(h) BY <1>8 DEF RegisterFace
  <2> QED BY <2>1, EndingForgets
<1>9. ASSUME NEW h \in Handlers, FindProfile(h) PROVE FALSE
  <2>1. pc[h] = "lookup" /\ UNCHANGED <<sessions, profiles>> BY <1>9 DEF FindProfile, storeVars
  <2>2. job[h].enrollment # e BY <1>0, <1>1, <2>1 DEF HandlerInv, JobAt
  <2>3. CASE Finish(h) BY <2>1, <2>2, <2>3, EndingForgets
  <2>4. CASE Go(h, "images") /\ job' = [job EXCEPT ![h].enrollment = profiles[job[h].student]]
    <3>1. job' = [job EXCEPT ![h] = [job[h] EXCEPT !.enrollment = profiles[job[h].student]]]
      BY <1>0, <2>4 DEF HandlerInv
    <3>2. PICK j : job' = [job EXCEPT ![h] = j] BY <3>1
    <3>3. pc' = [pc EXCEPT ![h] = "images"] BY <2>4 DEF Go
    <3> QED BY <1>0, <2>1, <2>2, <3>2, <3>3, ReferenceStays
  <2> QED BY <1>9, <2>3, <2>4 DEF FindProfile
<1>10. ASSUME NEW h \in Handlers, DeleteProfile(h) PROVE Excused
  <2>1. /\ pc[h] = "unprofile" /\ UNCHANGED images BY <1>10 DEF DeleteProfile
  <2>2. job[h].enrollment = e => images[e] = {} BY <1>0, <2>1 DEF ProfileInv
  <2> QED BY <1>10, <2>1, <2>2
<1>11. ASSUME NEW h \in Handlers, Fail(h) PROVE Excused
  <2>1. UNCHANGED <<sessions, profiles>> /\ Finish(h) BY <1>11 DEF Fail, storeVars
  <2> QED BY <1>11, <2>1, EndingForgets
<1>12. CASE Analyzed
  <2>1. UNCHANGED <<sessions, profiles>> /\ \E p, values : Begin(Loop, p, values)
    BY <1>12 DEF Analyzed, storeVars
  <2> QED BY <1>1, <2>1, GoingOnRefers
<1>13. CASE Put
  <2>1. UNCHANGED <<sessions, profiles>> /\ \E p \in {"validate", "store"} : Continue(Loop, p)
    BY <1>13 DEF Put
  <2> QED BY <1>1, <2>1, GoingOnRefers
<1>14. CASE Store \/ Validate \/ Complete
  <2>1. pc[Loop] \in LoopSteps BY <1>14 DEF Store, Validate, Complete, LoopSteps
  <2>2. PICK i \in Enrollments : i = job[Loop].enrollment BY <2>1, LoopFacts
  <2>3. [job[Loop].session EXCEPT !.complete = TRUE] \in Sessions
    BY <2>1, LoopFacts DEF Sessions
  <2>4. \E x \in Sessions : sessions' = [sessions EXCEPT ![i] = x]
    BY <1>14, <2>1, <2>2, <2>3, LoopFacts DEF Store, Validate, Complete, Replace
  <2>5. i # e /\ (sessions[e] # None => sessions'[e] # None)
    BY <1>0, <1>2, <2>2, <2>4, RegistrationAssumption DEF RegTypes, SessionTypes
  <2>6. UNCHANGED profiles BY <1>14 DEF Store, Validate, Complete
  <2>7. CASE Store
    <3>1. Finish(Loop) BY <2>7 DEF Store
    <3> QED BY <1>1, <2>2, <2>5, <2>6, <3>1, EndingForgets
  <2>8. CASE Validate \/ Complete
    <3>1. \E p \in {"finalize", "profile"} : Continue(Loop, p) BY <2>8 DEF Validate, Complete
    <3> QED BY <1>1, <2>5, <2>6, <3>1, GoingOnRefers
  <2> QED BY <1>14, <2>7, <2>8
<1>15. CASE Finalize
  <2>1. UNCHANGED <<sessions, profiles>> /\ pc[Loop] = "finalize"
    BY <1>15 DEF Finalize, storeVars
  <2>2. CASE \E p \in {"complete", "erase"} : Continue(Loop, p)
    BY <1>1, <2>1, <2>2, GoingOnRefers
  <2>3. CASE MayBreak /\ Finish(Loop)
    <3>1. job[Loop].enrollment = e BY <1>1, <2>1, <2>3, EndingForgets
    <3>2. Fail(Loop) BY <1>15, <2>1, <2>3 DEF Fail, Finalize
    <3> QED BY <1>1, <3>1, <3>2
  <2> QED BY <1>15, <2>2, <2>3 DEF Finalize
<1>16. CASE SaveProfile
  <2>1. /\ pc[Loop] = "profile" /\ UNCHANGED sessions /\ Finish(Loop)
        /\ profiles' = [profiles EXCEPT ![job[Loop].session.student] = job[Loop].enrollment]
    BY <1>16 DEF SaveProfile
  <2>2. pc[Loop] \in LoopSteps BY <2>1 DEF LoopSteps
  <2>3. PICK s \in Students : s = job[Loop].session.student BY <2>2, LoopFacts DEF Sessions
  <2>4. CASE profiles[s] = e BY <1>16, <2>3, <2>4
  <2>5. CASE profiles[s] # e
    <3>1. \A t \in Students : profiles[t] = e => profiles'[t] = e
      BY <1>0, <2>1, <2>3, <2>5 DEF RegTypes, ProfileTypes
    <3>2. job[Loop].enrollment = e BY <1>1, <2>1, <3>1, EndingForgets
    <3>3. profiles'[s] = e BY <1>0, <2>1, <2>3, <3>2 DEF RegTypes, ProfileTypes
    <3> QED BY <1>2, <3>3
  <2> QED BY <2>4, <2>5
<1>17. ASSUME NEW h \in Handlers, Handle(h) PROVE Excused
  <2> HIDE DEF Excused
  <2> QED BY <1>3, <1>4, <1>5, <1>6, <1>7, <1>8, <1>9, <1>10, <1>11, <1>17 DEF Handle
<1>18. CASE HandleFrame
  <2> HIDE DEF Excused
  <2> QED BY <1>12, <1>13, <1>14, <1>15, <1>16, <1>18 DEF HandleFrame
<1>19. ASSUME NEW f \in Enrollments, Expire(f) PROVE Excused
  <2>1. CASE f = e BY <1>19, <2>1
  <2>2. CASE f # e
    <3>1. UNCHANGED <<profiles, pc, job>> /\ sessions'[e] = sessions[e]
      BY <1>0, <1>19, <2>2 DEF Expire, RegTypes, SessionTypes
    <3> QED BY <3>1 DEF Referred
  <2> QED BY <2>1, <2>2
<1>20. CASE Restart BY <1>20 DEF Restart
<1>21. ASSUME NEW s \in Students, CreateStudent(s) PROVE Excused
  <2>1. UNCHANGED <<sessions, profiles, pc, job>> BY <1>21 DEF CreateStudent
  <2> QED BY <2>1 DEF Referred
<1> HIDE DEF Excused
<1> QED BY <1>17, <1>18, <1>19, <1>20, <1>21 DEF RegNext

-----------------------------------------------------------------------------
(* The gallery.                                                            *)

Galleries == [Students -> Nat \cup {None}]
GalleryInv ==
  /\ engine \in Galleries \cup {None}
  /\ trackers \in [Cameras -> Galleries \cup {None}]
  /\ marked \in [Readers -> SUBSET Students]
  /\ fetched \in [Readers -> Galleries \cup {None}]

LEMMA InitGallery == GalleryInit => GalleryInv
BY DEF GalleryInit, GalleryInv

\* Handing a gallery to a reader, and failing to, keep it.
LEMMA FetchKeeps ==
  ASSUME GalleryInv, NEW r \in Readers, NEW g \in Galleries, Fetch(r, g)
  PROVE  /\ marked' \in [Readers -> SUBSET Students]
         /\ fetched' \in [Readers -> Galleries \cup {None}]
BY DEF Fetch, GalleryInv

LEMMA UnavailableKeeps ==
  ASSUME GalleryInv, NEW r \in Readers, Unavailable(r)
  PROVE  GalleryInv' /\ UNCHANGED <<engine, trackers>>
BY DEF Unavailable, GalleryInv

LEMMA NextGallery == FaceTypes /\ GalleryInv /\ [GalleryNext]_galleryVars => GalleryInv'
<1> SUFFICES ASSUME FaceTypes, GalleryInv, [GalleryNext]_galleryVars PROVE GalleryInv' OBVIOUS
<1>1. ASSUME NEW r \in Readers, Refresh(r) PROVE GalleryInv'
  <2>1. UNCHANGED <<engine, trackers>> BY <1>1 DEF Refresh
  <2>2. CASE engine # None /\ Fetch(r, engine)
    BY <2>1, <2>2, FetchKeeps DEF GalleryInv
  <2>3. CASE UNCHANGED fetched /\ marked' = [marked EXCEPT ![r] = {s \in Students : flags[s] # None}]
    BY <2>1, <2>3 DEF GalleryInv
  <2> QED BY <1>1, <2>2, <2>3 DEF Refresh
<1>2. ASSUME NEW r \in Readers, Load(r) PROVE GalleryInv'
  <2> DEFINE gallery == [s \in Students |-> IF s \in marked[r] THEN vectors[s] ELSE None]
  <2>1. gallery \in Galleries BY DEF FaceTypes, Galleries
  <2>2. CASE Unavailable(r) BY <2>2, UnavailableKeeps
  <2>3. CASE engine' = gallery /\ trackers' = TrackersAfter(gallery) /\ Fetch(r, gallery)
    <3> HIDE DEF gallery
    <3> QED BY <2>1, <2>3, FetchKeeps DEF GalleryInv, TrackersAfter
  <2> QED BY <1>2, <2>2, <2>3 DEF Load
<1>3. ASSUME NEW r \in Readers, LoadFails(r) PROVE GalleryInv'
  BY <1>3, UnavailableKeeps DEF LoadFails
<1>4. CASE Match BY <1>4 DEF Match, GalleryInv, Readers
<1>5. CASE Elapse BY <1>5 DEF Elapse, GalleryInv
<1>6. CASE RestartServer BY <1>6 DEF RestartServer, GalleryInv
<1>7. CASE UNCHANGED galleryVars BY <1>7 DEF galleryVars, GalleryInv
<1> QED BY <1>1, <1>2, <1>3, <1>4, <1>5, <1>6, <1>7 DEF GalleryNext

LEMMA TrackersFollow ==
  ASSUME GalleryInv, GalleryNext, NEW c \in Cameras,
         trackers[c] \in {None, engine}, trackers'[c] \notin {None, engine'}
  PROVE  rpc[Identifier] = "match" /\ fetched[Identifier] # engine
<1>1. ASSUME NEW r \in Readers, Refresh(r) PROVE FALSE BY <1>1 DEF Refresh
<1>2. ASSUME NEW r \in Readers, Load(r) PROVE FALSE
  <2>1. CASE Unavailable(r) BY <2>1 DEF Unavailable
  <2>2. CASE \E gallery : engine' = gallery /\ trackers' = TrackersAfter(gallery)
    BY <2>2 DEF TrackersAfter
  <2> QED BY <1>2, <2>1, <2>2 DEF Load
<1>3. ASSUME NEW r \in Readers, LoadFails(r) PROVE FALSE BY <1>3 DEF LoadFails, Unavailable
<1>4. CASE Match
  <2>1. PICK d \in Cameras :
          trackers' = IF trackers[d] # None THEN trackers
                      ELSE [trackers EXCEPT ![d] = fetched[Identifier]]
    BY <1>4 DEF Match
  <2>2. UNCHANGED engine /\ rpc[Identifier] = "match" BY <1>4 DEF Match
  <2> QED BY <2>1, <2>2 DEF GalleryInv
<1>5. CASE Elapse BY <1>5 DEF Elapse
<1>6. CASE RestartServer BY <1>6 DEF RestartServer
<1> QED BY <1>1, <1>2, <1>3, <1>4, <1>5, <1>6 DEF GalleryNext

-----------------------------------------------------------------------------
(* Theorems.                                                               *)

FaceInv == SessionsInv /\ OpenInv /\ GalleryInv

\* The stores, the requests at work on them and the gallery that is read from them are
\* what the code takes them for: a session that is being created belongs to the request
\* that creates it, an aborted session's images have no owner, what became a profile
\* collects no more frames.
THEOREM FaceInvariance == Spec => []FaceInv
<1>1. Init => FaceInv BY InitSessions, InitOpen, InitGallery DEF Init, FaceInv
<1>2. FaceInv /\ [Next]_vars => FaceInv'
  <2> SUFFICES ASSUME FaceInv, [Next]_vars PROVE FaceInv' OBVIOUS
  <2>1. SessionsInv /\ OpenInv /\ GalleryInv /\ FaceTypes BY DEF FaceInv, SessionsInv, RegTypes
  <2>2. [RegNext]_regVars /\ [GalleryNext]_galleryVars BY DEF Next, vars
  <2> QED BY <2>1, <2>2, NextSessions, NextOpen, NextGallery DEF FaceInv
<1> QED BY <1>1, <1>2, PTL DEF Spec

\* A student is marked as registered without a vector, which closes the recognition of
\* everybody, only while a withdrawal is between its two writes, after one that broke off
\* there or met a registration of the same student, or when the student was created with
\* a mark and has had no vector since.
THEOREM OpenTheorem == Spec => []RecognitionStaysOpen
<1>1. FaceInv => RecognitionStaysOpen BY DEF FaceInv, OpenInv
<1> QED BY <1>1, FaceInvariance, PTL

\* However many requests collect, abort, expire, register and withdraw at the same time,
\* images of a face get out of the reach of the withdrawal only in the named cases.
THEOREM ImagesTheorem == Spec => NoImageIsForgotten
<1> DEFINE Kept ==
      \A e \in Enrollments :
        Referred(e) /\ images'[e] # {} /\ ~Referred(e)' =>
          \/ Expire(e)
          \/ SaveProfile /\ profiles[job[Loop].session.student] = e
          \/ \E h \in Handlers :
               \/ Fail(h) /\ job[h].enrollment = e
               \/ Forget(h) /\ owner[e] = None
               \/ DeleteProfile(h) /\ job[h].enrollment # e
<1>1. FaceInv /\ [Next]_vars => [Kept]_regVars
  <2> SUFFICES ASSUME FaceInv, RegNext PROVE Kept BY DEF Next, vars
  <2> QED BY ForgottenImages DEF FaceInv
<1> HIDE DEF Kept
<1>2. Spec => [][Kept]_regVars BY <1>1, FaceInvariance, PTL DEF Spec
<1> QED BY <1>2 DEF NoImageIsForgotten, Kept

\* The tracker of a camera falls behind the gallery only when an identification that
\* fetched an earlier gallery puts it in place after a swap.
THEOREM TrackersTheorem == Spec => TrackersUseTheGallery
<1> DEFINE Behind ==
      \A c \in Cameras :
        trackers[c] \in {None, engine} /\ trackers'[c] \notin {None, engine'} =>
          rpc[Identifier] = "match" /\ fetched[Identifier] # engine
<1>1. FaceInv /\ [Next]_vars => [Behind]_vars
  <2> SUFFICES ASSUME FaceInv, Next PROVE Behind OBVIOUS
  <2>1. CASE UNCHANGED galleryVars BY <2>1 DEF galleryVars
  <2>2. CASE GalleryNext BY <2>2, TrackersFollow DEF FaceInv
  <2> QED BY <2>1, <2>2 DEF Next
<1> HIDE DEF Behind
<1>2. Spec => [][Behind]_vars BY <1>1, FaceInvariance, PTL DEF Spec
<1> QED BY <1>2 DEF TrackersUseTheGallery, Behind
=============================================================================
