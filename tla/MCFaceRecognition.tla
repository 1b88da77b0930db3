------------------------- MODULE MCFaceRecognition -------------------------
(***************************************************************************)
(* FaceRecognition for TLC, from two kinds of states: a system in which    *)
(* nobody is registered, where the sessions of one student are explored,   *)
(* and one in which each student has completed a session, where vectors,   *)
(* marks and the gallery are.                                              *)
(***************************************************************************)
EXTENDS FaceRecognition, Functions, TLC

VARIABLE focus  \* the student whose sessions are explored, or None

Quotas == [p \in Poses |-> 1]

\* Each student has a profile and the images of a complete session; some were created
\* with a mark.  Which id a mark names makes no difference where no session is explored.
Enrolled ==
  \E of \in Injection(Students, Enrollments) :
    LET student(e) == CHOOSE s \in Students : of[s] = e IN
    /\ sessions = [e \in Enrollments |->
         [student |-> student(e), complete |-> TRUE, count |-> Required, progress |-> Quotas]]
    /\ profiles = of
    /\ owner = [e \in Enrollments |-> student(e)]
    /\ images = [e \in Enrollments |-> Poses \X {MinValid}]
    /\ vectors = [s \in Students |-> None] /\ built = 0
    /\ known = Students /\ contested = {}
    /\ \E created \in SUBSET Students :
         /\ flags = [s \in Students |-> IF s \in created THEN of[s] ELSE None]
         /\ admitted = created
    /\ pc = [h \in Handlers |-> "idle"] /\ job = [h \in Handlers |-> NoJob]

MCInit ==
  /\ GalleryInit
  /\ \/ focus \in Students /\ RegInit
     \/ focus = None /\ Enrolled

Busy == {h \in Threads : pc[h] # "idle"}

\* No vector is saved, and one request runs beside the event loop.
SessionsOnly ==
  /\ RegNext /\ UNCHANGED galleryVars
  /\ Cardinality(Busy') <= 1
  /\ known' \subseteq {focus}
  /\ \A h \in Handlers : pc'[h] # "save" /\ job'[h].student \in {focus, None}

\* No sessions, and a withdrawal ends with the mark.
GalleryOnly ==
  /\ Next /\ UNCHANGED <<sessions, profiles, owner, images>>
  /\ pc'[Loop] = "idle"
  /\ \A h \in Threads : pc'[h] \in {"idle", "save", "flag", "unflag", "lookup"}

MCNext ==
  /\ UNCHANGED focus
  /\ IF focus = None THEN GalleryOnly ELSE SessionsOnly

MCSpec == MCInit /\ [][MCNext]_<<vars, focus>>

Symmetry ==
  Permutations(Students) \cup Permutations(Enrollments)
    \cup Permutations(Poses) \cup Permutations(Threads)
=============================================================================
