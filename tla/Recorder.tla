------------------------------ MODULE Recorder ------------------------------
(***************************************************************************)
(* The segment recorder of one camera (worker/recorder): FFmpeg cuts the   *)
(* stream into files named by the local time, a thread uploads those that  *)
(* are complete and removes them, and the main thread removes objects past *)
(* the retention period from the storage.  The process may be killed, and  *)
(* FFmpeg dies with it; the local clock may be set back.                   *)
(*                                                                         *)
(* The object key is the file's name read as a local time, so that files   *)
(* of one name have one key.  Cameras have directories and keys of their   *)
(* own.                                                                    *)
(***************************************************************************)
EXTENDS Naturals, FiniteSets, FiniteSetsExt

CONSTANTS
  MaxTime,     \* bound on the seconds of the local clock that name a file
  MaxSegments, \* bound on the segments FFmpeg cuts
  MaxCrashes,  \* bound on kills of the process
  MaxSetbacks, \* bound on the times the clock is set back
  None

Times == 1..MaxTime
Segments == 1..MaxSegments
Entry == [segment : Segments, whole : BOOLEAN]
Object == [segment : Segments, whole : BOOLEAN, old : BOOLEAN]

ASSUME RecorderAssumption ==
  /\ MaxTime \in Nat \ {0} /\ MaxSegments \in Nat \ {0}
  /\ MaxCrashes \in Nat /\ MaxSetbacks \in Nat
  /\ None \notin Nat \cup Entry \cup Object

VARIABLES
  ffmpeg,   \* whether FFmpeg runs
  writing,  \* the file it writes
  named,    \* the name each segment was given
  finished, \* the segments FFmpeg has completed with a moov atom
  disk,     \* the segment directory: name to [segment, whole]
  fresh,    \* the files that changed within stale_after_seconds
  store,    \* the objects: key to [segment, whole, old], old when past the retention period
  aged,     \* the segments that were old in the storage once
  pc,       \* the step of the camera's thread
  job,      \* what it works with: [files, final, failed]
  expired,  \* the objects the main thread is about to remove
  shutdown,
  crashes,
  setbacks

ffmpegVars == <<ffmpeg, writing, named, finished>>
faultVars == <<fresh, aged, shutdown, crashes, setbacks>>
vars == <<ffmpegVars, faultVars, disk, store, pc, job, expired>>

Cut == {s \in Segments : named[s] # None}
NoJob == [files |-> {}, final |-> FALSE, failed |-> {}]
Files == {n \in Times : disk[n] # None}

-----------------------------------------------------------------------------
(* FFmpeg and the clock.                                                   *)

LastName == IF Cut = {} THEN 0 ELSE named[Cardinality(Cut)]

\* A new file, named by the local clock: a segment is longer than the second a name
\* resolves, so that only a clock set back gives an earlier name, or one that was given.
\* A file of the same name is overwritten.
Open(s, n) ==
  /\ ffmpeg = "up" /\ writing = None
  /\ s = Cardinality(Cut) + 1
  /\ \/ n > LastName /\ UNCHANGED setbacks
     \/ n <= LastName /\ setbacks < MaxSetbacks /\ setbacks' = setbacks + 1
  /\ writing' = n
  /\ named' = [named EXCEPT ![s] = n]
  /\ disk' = [disk EXCEPT ![n] = [segment |-> s, whole |-> FALSE]]
  /\ fresh' = fresh \cup {n}
  /\ UNCHANGED <<ffmpeg, finished, aged, shutdown, crashes, store, pc, job, expired>>

\* The file is completed, unless its name is gone.
Completed(d) ==
  LET s == Cardinality(Cut) IN
  IF writing # None /\ d[writing] # None
  THEN [d EXCEPT ![writing] = IF @.segment = s THEN [segment |-> s, whole |-> TRUE] ELSE @]
  ELSE d

Finish ==
  /\ ffmpeg = "up" /\ writing # None
  /\ disk' = Completed(disk)
  /\ finished' = finished \cup {Cardinality(Cut)}
  /\ fresh' = fresh \cup {writing}
  /\ writing' = None
  /\ UNCHANGED <<ffmpeg, named, aged, shutdown, crashes, setbacks, store, pc, job, expired>>

\* FFmpeg dies, and leaves the file without its moov atom.
Die ==
  /\ ffmpeg = "up"
  /\ ffmpeg' = "down" /\ writing' = None
  /\ UNCHANGED <<named, finished, faultVars, disk, store, pc, job, expired>>

\* A file has not changed for stale_after_seconds: nobody writes it, or FFmpeg hangs.
Settle(n) ==
  /\ n \in fresh
  /\ fresh' = fresh \ {n}
  /\ UNCHANGED <<ffmpegVars, aged, shutdown, crashes, setbacks, disk, store, pc, job, expired>>

\* An object passes the retention period.
Age(n) ==
  /\ store[n] # None /\ ~store[n].old
  /\ store' = [store EXCEPT ![n].old = TRUE]
  /\ aged' = aged \cup {store[n].segment}
  /\ UNCHANGED <<ffmpegVars, fresh, shutdown, crashes, setbacks, disk, pc, job, expired>>

-----------------------------------------------------------------------------
(* The camera's thread.                                                    *)

Go(step) == pc' = step

\* Segmenter.start and restart, which may fail; the thread goes on either way.
Record ==
  /\ pc \in {"begin", "wait"} /\ ~(pc = "wait" /\ shutdown)
  /\ IF ffmpeg = "down" THEN ffmpeg' \in {"up", "down"} ELSE UNCHANGED ffmpeg
  /\ Go(IF pc = "begin" THEN "wait" ELSE "scan")
  /\ UNCHANGED <<writing, named, finished, faultVars, disk, store, job, expired>>

\* Segmenter.stop at the end: FFmpeg completes its file, or is killed.
Quit ==
  /\ pc = "wait" /\ shutdown
  /\ ffmpeg' = "down" /\ writing' = None
  /\ \/ /\ ffmpeg = "up" /\ writing # None
        /\ disk' = Completed(disk) /\ finished' = finished \cup {Cardinality(Cut)}
     \/ UNCHANGED <<disk, finished>>
  /\ job' = [NoJob EXCEPT !.final = TRUE]
  /\ Go("scan")
  /\ UNCHANGED <<named, faultVars, store, expired>>

\* Mutant of Uploadable: the newest file is never taken while the thread runs.
NeverStale(final) ==
  IF final \/ Files = {} THEN Files ELSE Files \ {Max(Files)}

\* Mutant of Uploadable: the newest file stays out at the end, too.
NewestStays(final) ==
  IF Files # {} /\ Max(Files) \in fresh THEN Files \ {Max(Files)} ELSE Files

\* find_completed_segments: the newest file is taken when it is stale, or at the end.
Uploadable(final) ==
  IF ~final /\ Files # {} /\ Max(Files) \in fresh THEN Files \ {Max(Files)} ELSE Files

Scan ==
  /\ pc = "scan"
  /\ job' = [job EXCEPT !.files = Uploadable(job.final), !.failed = {}]
  /\ Go("upload")
  /\ UNCHANGED <<ffmpegVars, faultVars, disk, store, expired>>

\* The files are taken in the order of their names.
File == Min(job.files)

\* The rest of the files; with none the thread waits, or ends.
NextFile(failed) ==
  /\ job' = [job EXCEPT !.files = @ \ {File}, !.failed = @ \cup failed]
  /\ Go("upload")

\* Mutant of Playable: whatever is there is uploaded.
AnyFile(n) == disk[n] # None

\* is_playable_mp4
Playable(n) == disk[n] # None /\ disk[n].whole

Check ==
  /\ pc = "upload"
  /\ IF job.files = {}
     THEN Go(IF job.final THEN "ended" ELSE "wait") /\ UNCHANGED job
     ELSE IF Playable(File) THEN Go("put") /\ UNCHANGED job ELSE NextFile({})
  /\ UNCHANGED <<ffmpegVars, faultVars, disk, store, expired>>

\* put_object stores what the file holds now, in the place of what has its key.
Put(n) ==
  /\ pc = "put" /\ n = File
  /\ store' = [store EXCEPT ![n] =
       [segment |-> disk[n].segment, whole |-> disk[n].whole, old |-> FALSE]]
  /\ Go("remove") /\ UNCHANGED job
  /\ UNCHANGED <<ffmpegVars, faultVars, disk, expired>>

\* Mutant of KeptOnFailure: a file that could not be stored is removed.
GoneOnFailure(n) == [disk EXCEPT ![n] = None]

\* A file that could not be stored stays.
KeptOnFailure(n) == disk

PutFails ==
  /\ pc = "put"
  /\ disk' = KeptOnFailure(File)
  /\ NextFile({File})
  /\ UNCHANGED <<ffmpegVars, faultVars, store, expired>>

\* _remove_local, which may fail.
RemoveLocal ==
  /\ pc = "remove"
  /\ \/ disk' = [disk EXCEPT ![File] = None] /\ NextFile({})
     \/ UNCHANGED disk /\ NextFile({File})
  /\ UNCHANGED <<ffmpegVars, faultVars, store, expired>>

-----------------------------------------------------------------------------
(* The main thread.                                                        *)

Running == pc \notin {"killed", "ended"}

Expired == {n \in Times : store[n] # None /\ store[n].old}

\* RetentionPolicy.purge lists the objects, and removes the old ones one by one.
List ==
  /\ Running /\ ~shutdown /\ expired = {}
  /\ expired' = Expired
  /\ UNCHANGED <<ffmpegVars, faultVars, disk, store, pc, job>>

\* An object that cannot be removed is left to the next purge.
RemoveObject(n) ==
  /\ Running /\ n \in expired
  /\ expired' = expired \ {n}
  /\ \/ store' = [store EXCEPT ![n] = None]
     \/ UNCHANGED store
  /\ UNCHANGED <<ffmpegVars, faultVars, disk, pc, job>>

Shutdown ==
  /\ Running /\ ~shutdown
  /\ shutdown' = TRUE
  /\ UNCHANGED <<ffmpegVars, fresh, aged, crashes, setbacks, disk, store, pc, job, expired>>

\* The process is killed, and FFmpeg with it.
Crash ==
  /\ Running /\ crashes < MaxCrashes
  /\ crashes' = crashes + 1
  /\ ffmpeg' = "down" /\ writing' = None
  /\ job' = NoJob /\ expired' = {} /\ Go("killed")
  /\ UNCHANGED <<named, finished, fresh, aged, shutdown, setbacks, disk, store>>

Restart ==
  /\ pc = "killed"
  /\ shutdown' = FALSE
  /\ Go("begin")
  /\ UNCHANGED <<ffmpegVars, fresh, aged, crashes, setbacks, disk, store, job, expired>>

-----------------------------------------------------------------------------
Init ==
  /\ ffmpeg = "down" /\ writing = None
  /\ named = [s \in Segments |-> None] /\ finished = {}
  /\ disk = [n \in Times |-> None] /\ fresh = {}
  /\ store = [n \in Times |-> None] /\ aged = {}
  /\ pc = "begin" /\ job = NoJob /\ expired = {}
  /\ shutdown = FALSE /\ crashes = 0 /\ setbacks = 0

Upload == Record \/ Quit \/ Scan \/ Check \/ PutFails \/ RemoveLocal \/ \E n \in Times : Put(n)

Next ==
  \/ \E s \in Segments, n \in Times : Open(s, n)
  \/ Finish \/ Die
  \/ \E n \in Times : Settle(n) \/ Age(n)
  \/ Upload
  \/ List
  \/ \E n \in Times : RemoveObject(n)
  \/ Shutdown \/ Crash \/ Restart

Spec == Init /\ [][Next]_vars

\* The thread goes on, a killed process is started again, files nobody writes get old,
\* and the storage works again and again.
FairSpec ==
  /\ Spec
  /\ WF_vars(Upload) /\ WF_vars(Restart)
  /\ WF_vars(\E n \in Times : writing # n /\ Settle(n))
  /\ \A n \in Times : SF_vars(Put(n))

-----------------------------------------------------------------------------
(* Properties.                                                             *)

\* Every variable stays within its type.
TypeOK ==
  /\ ffmpeg \in {"up", "down"} /\ writing \in Times \cup {None}
  /\ named \in [Segments -> Times \cup {None}] /\ finished \subseteq Cut
  /\ disk \in [Times -> Entry \cup {None}]
  /\ fresh \subseteq Times
  /\ store \in [Times -> Object \cup {None}]
  /\ aged \subseteq Segments
  /\ pc \in {"begin", "wait", "scan", "upload", "put", "remove", "ended", "killed"}
  /\ job \in [files : SUBSET Times, final : BOOLEAN, failed : SUBSET Times]
  /\ expired \subseteq Times

\* Two segments were given one name, because the clock was set back.
Repeated(n) == \E s, t \in Cut : s # t /\ named[s] = n /\ named[t] = n

OnDisk(s) == \E n \in Times : disk[n] # None /\ disk[n].segment = s /\ disk[n].whole
Stored(s) == \E n \in Times : store[n] # None /\ store[n].segment = s /\ store[n].whole

\* A segment that was completed is on disk or in the storage until it is old, whatever
\* fails or is killed; a segment is overwritten only by one of the same name.
NoSegmentIsLost ==
  \A s \in finished : OnDisk(s) \/ Stored(s) \/ s \in aged \/ Repeated(named[s])

\* No object is stored that cannot be played, unless the file was overwritten between
\* the look at it and its upload.
StoredIsPlayable == \A n \in Times : store[n] # None => store[n].whole \/ Repeated(n)

\* A recorder that ends in order leaves only the files it could not upload or remove.
NothingIsLeft ==
  pc = "ended" => \A n \in Files : disk[n].whole => n \in job.failed

\* Every completed segment gets into the storage while the recorder is up, the last
\* one of an FFmpeg that died or hangs as well.
EveryFinishedIsStored ==
  \A s \in Segments : s \in finished ~> Stored(s) \/ s \in aged \/ Repeated(named[s]) \/ pc = "ended"
=============================================================================
