-------------------------- MODULE FaceRecognition --------------------------
(***************************************************************************)
(* Recognition of registered faces (deeplearning/face_identification.py)   *)
(* beside their registration.  The analysis server keeps a gallery of the  *)
(* registered students and, for each camera, a tracker that gathers        *)
(* evidence over frames.  It reads the marks and the vectors that          *)
(* FaceRegistration writes, one collection after the other and at most     *)
(* every gallery_refresh_seconds.                                          *)
(*                                                                         *)
(* Two threads ask for the gallery: the event loop, which identifies the   *)
(* faces of a frame, and the thread of a readiness probe.  The lock of the *)
(* gallery covers its refreshing, not the look-up of the tracker that      *)
(* follows.                                                                *)
(***************************************************************************)
EXTENDS FaceRegistration

CONSTANTS
  Cameras,
  Identifier,  \* the event loop, in identify
  Probe        \* a thread of the pool, in ensure_ready

Readers == {Identifier, Probe}

ASSUME RecognitionAssumption == Identifier # Probe

VARIABLES
  engine,    \* _engine: the vector of each student in the gallery, or None
  fresh,     \* the gallery was loaded less than gallery_refresh_seconds ago
  trackers,  \* _trackers: the engine of each camera's tracker, or None
  rpc,       \* where each reader is
  marked,    \* the students a reader found marked as registered
  fetched    \* the engine that _refresh_gallery gave to a reader

galleryVars == <<engine, fresh, trackers, rpc, marked, fetched>>
vars == <<regVars, galleryVars>>

-----------------------------------------------------------------------------
\* The reader has the gallery; a probe is done with that.
Fetch(r, gallery) ==
  /\ rpc' = [rpc EXCEPT ![r] = IF r = Identifier THEN "match" ELSE "idle"]
  /\ fetched' = [fetched EXCEPT ![r] = IF r = Identifier THEN gallery ELSE None]
  /\ marked' = [marked EXCEPT ![r] = {}]

\* FaceGalleryUnavailable: the request fails, and nothing has changed.
Unavailable(r) ==
  /\ rpc' = [rpc EXCEPT ![r] = "idle"]
  /\ marked' = [marked EXCEPT ![r] = {}]
  /\ UNCHANGED <<engine, fresh, trackers, fetched>>

\* _refresh_gallery: under the lock, the gallery as it is while it is fresh, or the first
\* query of load.
Refresh(r) ==
  /\ rpc[r] = "idle" /\ \A q \in Readers : rpc[q] # "load"
  /\ IF engine # None /\ fresh THEN Fetch(r, engine)
     ELSE /\ rpc' = [rpc EXCEPT ![r] = "load"]
          /\ marked' = [marked EXCEPT ![r] = {s \in Students : flags[s] # None}]
          /\ UNCHANGED fetched
  /\ UNCHANGED <<engine, fresh, trackers>>

\* Mutant of TrackersAfter: the evidence of the earlier gallery is kept.
TrackersKept(gallery) == trackers

TrackersAfter(gallery) == IF gallery = engine THEN trackers ELSE [c \in Cameras |-> None]

\* The second query: vectors of students who are not marked are excluded; without any
\* student, or with one who has no vector, there is no gallery.
Load(r) ==
  LET gallery == [s \in Students |-> IF s \in marked[r] THEN vectors[s] ELSE None]
  IN /\ rpc[r] = "load"
     /\ IF marked[r] = {} \/ \E s \in marked[r] : vectors[s] = None THEN Unavailable(r)
        ELSE /\ engine' = gallery /\ fresh' = TRUE
             /\ trackers' = TrackersAfter(gallery)
             /\ Fetch(r, gallery)

\* The repository does not answer.
LoadFails(r) == MayBreak /\ rpc[r] = "load" /\ Unavailable(r)

\* identify after _refresh_gallery: the tracker of the camera is made with the engine
\* that was fetched, unless there is one.
Match ==
  /\ rpc[Identifier] = "match"
  /\ \E c \in Cameras :
       trackers' = IF trackers[c] # None THEN trackers
                   ELSE [trackers EXCEPT ![c] = fetched[Identifier]]
  /\ rpc' = [rpc EXCEPT ![Identifier] = "idle"]
  /\ fetched' = [fetched EXCEPT ![Identifier] = None]
  /\ UNCHANGED <<engine, fresh, marked>>

\* gallery_refresh_seconds go by.
Elapse ==
  /\ fresh
  /\ fresh' = FALSE
  /\ UNCHANGED <<engine, trackers, rpc, marked, fetched>>

GalleryInit ==
  /\ engine = None /\ fresh = FALSE
  /\ trackers = [c \in Cameras |-> None]
  /\ rpc = [r \in Readers |-> "idle"]
  /\ marked = [r \in Readers |-> {}]
  /\ fetched = [r \in Readers |-> None]

\* The analysis server restarts.
RestartServer ==
  /\ MayBreak
  /\ engine' = None /\ fresh' = FALSE
  /\ trackers' = [c \in Cameras |-> None]
  /\ rpc' = [r \in Readers |-> "idle"]
  /\ marked' = [r \in Readers |-> {}]
  /\ fetched' = [r \in Readers |-> None]

GalleryNext ==
  \/ \E r \in Readers : Refresh(r) \/ Load(r) \/ LoadFails(r)
  \/ Match \/ Elapse \/ RestartServer

Init == RegInit /\ GalleryInit
Next == (RegNext /\ UNCHANGED galleryVars) \/ (GalleryNext /\ UNCHANGED regVars)
Spec == Init /\ [][Next]_vars

-----------------------------------------------------------------------------
(* Properties.                                                             *)

\* "After students were added, changed or deleted, the evidence gathered with the earlier
\* gallery is not used again": a camera's tracker falls behind the gallery only when an
\* identification that fetched an earlier gallery puts it in place after a swap.
TrackersUseTheGallery ==
  [][\A c \in Cameras :
       trackers[c] \in {None, engine} /\ trackers'[c] \notin {None, engine'} =>
         rpc[Identifier] = "match" /\ fetched[Identifier] # engine]_vars
=============================================================================
