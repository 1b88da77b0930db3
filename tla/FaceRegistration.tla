-------------------------- MODULE FaceRegistration --------------------------
(***************************************************************************)
(* Registration of faces (face_enrollment, face_embeddings, students): a   *)
(* session collects frames of a student until the poses are covered, the   *)
(* collected images become a face vector, the student is marked as         *)
(* registered, and a withdrawal of the consent takes everything back.      *)
(*                                                                         *)
(* Sessions, profiles, vectors and students are in MongoDB, the images in  *)
(* the memory of the process (InMemoryFaceObjectStorage, the store of      *)
(* every environment but a developer's).  No two of these are written      *)
(* together: each action is one call of a repository or of the store.      *)
(* Frames and broken connections are handled on the event loop, one at a   *)
(* time; everything else runs in the thread pool beside it.                *)
(***************************************************************************)
EXTENDS Naturals, FiniteSets

CONSTANTS
  Students,
  Enrollments,  \* ids of sessions
  Poses,
  Quota,        \* pose_quotas
  Required,     \* required_sample_count
  MinValid,     \* MIN_VALID_SAMPLES
  Threads,      \* of the thread pool
  Loop,         \* the event loop
  MaxSamples,   \* bound on the images of a session
  MaxVectors,   \* bound on the vectors built
  MayBreak,     \* whether calls may fail and the process may restart
  None

Handlers == Threads \cup {Loop}
Sessions ==
  [student : Students, complete : BOOLEAN, count : 0..MaxSamples, progress : [Poses -> 0..MaxSamples]]

ASSUME RegistrationAssumption ==
  /\ Quota \in [Poses -> Nat]
  /\ Required \in Nat /\ MinValid \in Nat \ {0}
  /\ MaxSamples \in Nat /\ MaxVectors \in Nat
  /\ Loop \notin Threads /\ MayBreak \in BOOLEAN
  /\ None \notin Students \cup Enrollments \cup Sessions \cup Nat

VARIABLES
  sessions,  \* face_enrollments: a session or None
  profiles,  \* face_profiles: the session a student's profile refers to, or None
  owner,     \* _student_ids of the image store
  images,    \* _samples of the image store: the images of each session
  vectors,   \* face_embeddings of the model in use: the number of a vector, or None
  built,     \* how many vectors were built: a number for updated_at
  flags,     \* face_enrollment_id of each student: None unless face_registered
  known,     \* the students there are
  contested, \* students whose registration and withdrawal overlapped or broke off
  admitted,  \* students created with a mark, who still have one and had no vector yet
  pc,        \* where each handler is
  job        \* what it works with

storeVars == <<sessions, profiles, owner, images, vectors, built, flags>>
regVars == <<storeVars, known, contested, admitted, pc, job>>

NoSession == [student |-> None, complete |-> FALSE, count |-> 0, progress |-> [p \in Poses |-> 0]]
NoJob == [student |-> None, enrollment |-> None, session |-> NoSession, pose |-> None]

Go(h, step) == pc' = [pc EXCEPT ![h] = step]
Continue(h, step) == Go(h, step) /\ UNCHANGED job
Finish(h) == Go(h, "idle") /\ job' = [job EXCEPT ![h] = NoJob]
Begin(h, step, values) == pc[h] = "idle" /\ Go(h, step) /\ job' = [job EXCEPT ![h] = values]

Working(h, steps, s) == pc[h] \in steps /\ job[h].student = s
Registering(s) == \E h \in Handlers : Working(h, {"save", "flag"}, s)
Withdrawing(s) == \E h \in Handlers : Working(h, {"unflag"}, s)

-----------------------------------------------------------------------------
(* create, of a student                                                    *)

\* The id of a student is a new uuid, which nothing refers to.
NewStudent(s) ==
  /\ s \notin known /\ profiles[s] = None
  /\ \A e \in Enrollments : owner[e] # s /\ (sessions[e] # None => sessions[e].student # s)
  /\ \A h \in Handlers : job[h].student # s /\ job[h].session.student # s

\* The request may name an enrollment, any one.  It is not looked up, and makes the
\* student a registered one.
CreateStudent(s) ==
  /\ NewStudent(s)
  /\ known' = known \cup {s}
  /\ \E e \in Enrollments \cup {None} : flags' = [flags EXCEPT ![s] = e]
  /\ UNCHANGED <<sessions, profiles, owner, images, vectors, built, pc, job>>

-----------------------------------------------------------------------------
(* create, of a session                                                    *)

\* get_active
ActiveSessions == {e \in Enrollments : sessions[e] # None /\ ~sessions[e].complete}

\* The uuid of a session is a new one; whether one is active is read before.
Create(h) ==
  /\ h # Loop
  /\ ActiveSessions = {}
  /\ \E s \in Students, e \in Enrollments :
       /\ sessions[e] = None /\ owner[e] = None /\ images[e] = {}
       /\ \A t \in Students : profiles[t] # e /\ flags[t] # e
       /\ \A g \in Handlers : job[g].enrollment # e
       /\ Begin(h, "insert", [NoJob EXCEPT !.student = s, !.enrollment = e])
  /\ UNCHANGED storeVars

Insert(h) ==
  /\ pc[h] = "insert"
  /\ sessions' = [sessions EXCEPT ![job[h].enrollment] = [NoSession EXCEPT !.student = job[h].student]]
  /\ Continue(h, "prepare")
  /\ UNCHANGED <<profiles, owner, images, vectors, built, flags>>

Prepare(h) ==
  /\ pc[h] = "prepare"
  /\ owner' = [owner EXCEPT ![job[h].enrollment] = job[h].student]
  /\ Finish(h)
  /\ UNCHANGED <<sessions, profiles, images, vectors, built, flags>>

-----------------------------------------------------------------------------
(* process_frame                                                           *)

QuotasComplete(progress) == \A p \in Poses : progress[p] >= Quota[p]
Ready(session) == session.count >= Required /\ QuotasComplete(session.progress)

\* pose_quota_complete: an angle of which there is enough while others are missing.
Filled(progress, p) == progress[p] >= Quota[p] /\ ~QuotasComplete(progress)

Accepted(session, p) == [session EXCEPT !.count = @ + 1, !.progress[p] = @ + 1]

\* The id of a session, a uuid, is known to nobody until its creation is answered.
Addressed ==
  {e \in ActiveSessions :
     \A h \in Handlers : pc[h] \in {"insert", "prepare"} => job[h].enrollment # e}

\* The session is read and the analyzer asked.  An image that is refused, or of an angle
\* there is enough of, changes the guidance only; of another one the counts go up.
Analyzed ==
  \E e \in Addressed :
    LET session == sessions[e]
        start == [NoJob EXCEPT !.enrollment = e, !.session = session]
    IN /\ \/ Begin(Loop, "store", start)
          \/ \E p \in Poses :
               /\ ~Filled(session.progress, p) /\ session.count < MaxSamples
               /\ Begin(Loop, "put",
                        [start EXCEPT !.session = Accepted(session, p), !.pose = p])
       /\ UNCHANGED storeVars

\* put_sample, whose setdefault takes images of a session that is not prepared as well.
Put ==
  LET j == job[Loop] IN
  /\ pc[Loop] = "put"
  /\ images' = [images EXCEPT ![j.enrollment] = @ \cup {<<j.pose, j.session.count>>}]
  /\ Continue(Loop, IF Ready(j.session) THEN "validate" ELSE "store")
  /\ UNCHANGED <<sessions, profiles, owner, vectors, built, flags>>

\* replace: the session as it was read, with the changes, inserted if it is gone.
Replace(session) == sessions' = [sessions EXCEPT ![job[Loop].enrollment] = session]

Store ==
  /\ pc[Loop] = "store"
  /\ Replace(job[Loop].session)
  /\ Finish(Loop)
  /\ UNCHANGED <<profiles, owner, images, vectors, built, flags>>

Validate ==
  /\ pc[Loop] = "validate"
  /\ Replace(job[Loop].session)
  /\ Continue(Loop, "finalize")
  /\ UNCHANGED <<profiles, owner, images, vectors, built, flags>>

\* The analyzer drops its state of the session; when it cannot, the session is aborted.
Finalize ==
  /\ pc[Loop] = "finalize"
  /\ \/ Continue(Loop, "complete")
     \/ /\ MayBreak
        /\ IF job[Loop].enrollment \in ActiveSessions THEN Continue(Loop, "erase") ELSE Finish(Loop)
  /\ UNCHANGED storeVars

Complete ==
  /\ pc[Loop] = "complete"
  /\ Replace([job[Loop].session EXCEPT !.complete = TRUE])
  /\ Continue(Loop, "profile")
  /\ UNCHANGED <<profiles, owner, images, vectors, built, flags>>

\* save_profile, in the place of an earlier one of the student.
SaveProfile ==
  /\ pc[Loop] = "profile"
  /\ profiles' = [profiles EXCEPT ![job[Loop].session.student] = job[Loop].enrollment]
  /\ Finish(Loop)
  /\ UNCHANGED <<sessions, owner, images, vectors, built, flags>>

-----------------------------------------------------------------------------
(* abort, by a request, when the connection breaks or the analyzer fails   *)

\* A session that is gone or complete is not aborted.
Abort(h) ==
  /\ h = Loop => MayBreak
  /\ \E e \in Addressed : Begin(h, "erase", [NoJob EXCEPT !.enrollment = e])
  /\ UNCHANGED storeVars

\* Mutant of Erase: the images are left to the store.
EraseNothing(e) == UNCHANGED <<owner, images>>

\* delete_enrollment
Erase(e) ==
  /\ owner' = [owner EXCEPT ![e] = None]
  /\ images' = [images EXCEPT ![e] = {}]

EraseAborted(h) ==
  /\ pc[h] = "erase"
  /\ Erase(job[h].enrollment)
  /\ Continue(h, "forget")
  /\ UNCHANGED <<sessions, profiles, vectors, built, flags>>

\* The session is deleted whether the analyzer answers or not.
Forget(h) ==
  /\ pc[h] = "forget"
  /\ sessions' = [sessions EXCEPT ![job[h].enrollment] = None]
  /\ Finish(h)
  /\ UNCHANGED <<profiles, owner, images, vectors, built, flags>>

\* The TTL index removes a session nothing has changed for an hour, a complete one too;
\* no request takes that long.
Expire(e) ==
  /\ sessions[e] # None /\ \A h \in Handlers : job[h].enrollment # e
  /\ sessions' = [sessions EXCEPT ![e] = None]
  /\ UNCHANGED <<profiles, owner, images, vectors, built, flags, pc, job>>

-----------------------------------------------------------------------------
(* create_for_student                                                      *)

\* The student and the images are read, the vector is computed; images of another
\* student's session, and too few that are usable, end the request.
Register(h) ==
  /\ h # Loop
  /\ built < MaxVectors
  /\ \E s \in Students, e \in Enrollments :
       /\ s \in known
       /\ owner[e] = s /\ Cardinality(images[e]) >= MinValid
       /\ Begin(h, "save", [NoJob EXCEPT !.student = s, !.enrollment = e])
  /\ UNCHANGED storeVars

\* save, in the place of an earlier vector of the model in use.
SaveVector(h) ==
  /\ pc[h] = "save" /\ built < MaxVectors
  /\ built' = built + 1
  /\ vectors' = [vectors EXCEPT ![job[h].student] = built']
  /\ Continue(h, "flag")
  /\ UNCHANGED <<sessions, profiles, owner, images, flags>>

RegisterFace(h) ==
  /\ pc[h] = "flag"
  /\ flags' = [flags EXCEPT ![job[h].student] = job[h].enrollment]
  /\ Finish(h)
  /\ UNCHANGED <<sessions, profiles, owner, images, vectors, built>>

-----------------------------------------------------------------------------
(* delete_face_profile: delete_for_student, then delete_profile            *)

\* delete_by_student: the other model's collection and the legacy one are not read.
Withdraw(h) ==
  /\ h # Loop
  /\ \E s \in Students :
       /\ Begin(h, "unflag", [NoJob EXCEPT !.student = s])
       /\ vectors' = [vectors EXCEPT ![s] = None]
  /\ UNCHANGED <<sessions, profiles, owner, images, built, flags>>

\* Mutant of FlagsWithout: the mark is left on the student.
FlagsAsBefore(s) == flags

FlagsWithout(s) == [flags EXCEPT ![s] = None]

UnregisterFace(h) ==
  /\ pc[h] = "unflag"
  /\ flags' = FlagsWithout(job[h].student)
  /\ Continue(h, "lookup")
  /\ UNCHANGED <<sessions, profiles, owner, images, vectors, built>>

FindProfile(h) ==
  LET e == profiles[job[h].student] IN
  /\ pc[h] = "lookup"
  /\ IF e = None THEN Finish(h)
     ELSE Go(h, "images") /\ job' = [job EXCEPT ![h].enrollment = e]
  /\ UNCHANGED storeVars

EraseOfProfile(h) ==
  /\ pc[h] = "images"
  /\ Erase(job[h].enrollment)
  /\ Continue(h, "unprofile")
  /\ UNCHANGED <<sessions, profiles, vectors, built, flags>>

\* delete_profile: whatever profile the student has by then.
DeleteProfile(h) ==
  /\ pc[h] = "unprofile"
  /\ profiles' = [profiles EXCEPT ![job[h].student] = None]
  /\ Finish(h)
  /\ UNCHANGED <<sessions, owner, images, vectors, built, flags>>

-----------------------------------------------------------------------------
(* Failures.                                                               *)

\* A call fails, and the request with it.
Fail(h) ==
  /\ MayBreak /\ pc[h] # "idle"
  /\ Finish(h)
  /\ UNCHANGED storeVars

\* The process restarts: requests and images are gone.
Restart ==
  /\ MayBreak
  /\ pc' = [h \in Handlers |-> "idle"] /\ job' = [h \in Handlers |-> NoJob]
  /\ owner' = [e \in Enrollments |-> None] /\ images' = [e \in Enrollments |-> {}]
  /\ UNCHANGED <<sessions, profiles, vectors, built, flags>>

-----------------------------------------------------------------------------
RegInit ==
  /\ sessions = [e \in Enrollments |-> None]
  /\ profiles = [s \in Students |-> None]
  /\ owner = [e \in Enrollments |-> None] /\ images = [e \in Enrollments |-> {}]
  /\ vectors = [s \in Students |-> None] /\ built = 0
  /\ flags = [s \in Students |-> None]
  /\ known = {} /\ contested = {} /\ admitted = {}
  /\ pc = [h \in Handlers |-> "idle"] /\ job = [h \in Handlers |-> NoJob]

Handle(h) ==
  \/ Create(h) \/ Insert(h) \/ Prepare(h)
  \/ Abort(h) \/ EraseAborted(h) \/ Forget(h)
  \/ Register(h) \/ SaveVector(h) \/ RegisterFace(h)
  \/ Withdraw(h) \/ UnregisterFace(h)
  \/ FindProfile(h) \/ EraseOfProfile(h) \/ DeleteProfile(h)
  \/ Fail(h)

HandleFrame ==
  Analyzed \/ Put \/ Store \/ Validate \/ Finalize \/ Complete \/ SaveProfile

Overlapping == {s \in Students : Registering(s) /\ Withdrawing(s)}
\* Withdrawals that end between the vector and the mark.
BrokenOff ==
  {s \in Students : \E h \in Handlers : Working(h, {"unflag"}, s) /\ pc'[h] = "idle"}
\* The mark is taken back while nobody sets it, or a vector is saved while nobody deletes it.
Settled ==
  {s \in Students : \E h \in Handlers :
     \/ Working(h, {"unflag"}, s) /\ pc'[h] = "lookup" /\ ~Registering(s)
     \/ Working(h, {"save"}, s) /\ pc'[h] = "flag" /\ ~Withdrawing(s)}

\* What closes the recognition of everybody: a student marked as registered without a
\* vector of the model in use.
Closed(s) == flags[s] # None /\ vectors[s] = None

RegNext ==
  /\ \/ /\ (\E h \in Handlers : Handle(h)) \/ HandleFrame \/ Restart
           \/ \E e \in Enrollments : Expire(e)
        /\ UNCHANGED known
     \/ \E s \in Students : CreateStudent(s)
  /\ contested' = (contested \ Settled) \cup BrokenOff \cup Overlapping'
  /\ admitted' = {s \in admitted \cup (known' \ known) : Closed(s)'}

-----------------------------------------------------------------------------
(* Properties.                                                             *)

\* Recognition is closed only while a withdrawal is between its two writes, after one
\* that broke off there or met a registration of the same student, or by a student who
\* was created with a mark and has had no vector since.
RecognitionStaysOpen ==
  \A s \in Students :
    Closed(s) => s \in contested \/ Withdrawing(s) \/ s \in admitted

\* What leads to the images of a session: the session, a profile, or a request that is
\* going to write or to delete them.
Referred(e) ==
  \/ sessions[e] # None
  \/ \E s \in Students : profiles[s] = e
  \/ \E h \in Handlers : job[h].enrollment = e /\ pc[h] \notin {"save", "flag"}

\* Images of a face, which the consent allows to be kept until it is withdrawn, are out
\* of its reach only after an expiry, after a registration that takes the place of the
\* profile, after a request that broke off, or when two requests met: a frame put an
\* image while its session was aborted, or a profile was saved while the one before it
\* was deleted.
NoImageIsForgotten ==
  [][\A e \in Enrollments :
       Referred(e) /\ images'[e] # {} /\ ~Referred(e)' =>
         \/ Expire(e)
         \/ SaveProfile /\ profiles[job[Loop].session.student] = e
         \/ \E h \in Handlers :
              \/ Fail(h) /\ job[h].enrollment = e
              \/ Forget(h) /\ owner[e] = None
              \/ DeleteProfile(h) /\ job[h].enrollment # e]_regVars
=============================================================================
