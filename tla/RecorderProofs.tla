---------------------------- MODULE RecorderProofs ----------------------------
(***************************************************************************)
(* That the recorder loses no completed segment, stores nothing that       *)
(* cannot be played and leaves nothing behind, for any number of segments, *)
(* kills and clocks set back.                                              *)
(***************************************************************************)
EXTENDS Recorder, FiniteSetTheorems, TLAPS

-----------------------------------------------------------------------------
(* The invariant.                                                          *)

Last == Cardinality(Cut)

\* Segments are numbered as they are cut, and files and objects have the name of theirs.
NameInv ==
  /\ Last \in Nat /\ Cut = 1..Last
  /\ \A n \in Times : disk[n] # None =>
       named[disk[n].segment] = n /\ (disk[n].whole => disk[n].segment \in finished)
  /\ \A n \in Times : store[n] # None => named[store[n].segment] = n

\* The file FFmpeg writes is the last segment, unless another one had its name.
WriteInv ==
  writing # None =>
    /\ ffmpeg = "up"
    /\ Last \in Cut /\ named[Last] = writing /\ Last \notin finished
    /\ (disk[writing] # None /\ disk[writing].segment = Last) \/ Repeated(writing)

\* A file is removed when its segment is stored.
UploadInv ==
  pc \in {"put", "remove"} =>
    /\ job.files # {}
    /\ disk[File] # None
    /\ disk[File].whole \/ Repeated(File)
    /\ pc = "remove" =>
         Stored(disk[File].segment) \/ disk[File].segment \in aged \/ Repeated(File)

\* What is about to be removed from the storage is old.
StoreInv ==
  /\ \A n \in Times : store[n] # None =>
       (store[n].old => store[n].segment \in aged)
       /\ (n \in expired => store[n].segment \in aged \/ Repeated(n))
  /\ \A n \in expired : store[n] # None

\* At the end every file is yet to be uploaded or could not be.
FinalInv ==
  /\ job.final => ffmpeg = "down" /\ pc \in {"scan", "upload", "put", "remove", "ended"}
  /\ job.final /\ pc # "scan" =>
       \A n \in Files : disk[n].whole => n \in job.failed \cup job.files
  /\ pc = "ended" => job.final /\ job.files = {}

IInv == /\ TypeOK /\ NameInv /\ WriteInv /\ UploadInv /\ StoreInv /\ FinalInv
        /\ NoSegmentIsLost /\ StoredIsPlayable

-----------------------------------------------------------------------------
(* Names.                                                                  *)

\* A finite set of numbers that is not empty has a least element.
LEMMA LeastExists ==
  ASSUME NEW S \in SUBSET Nat, IsFiniteSet(S), S # {}
  PROVE  \E x \in S : \A y \in S : x <= y
<1> DEFINE Below(x) == {y \in S : y < x}
           F == {Below(x) : x \in S}
           R == StrictSubsetOrdering(S)
<1>1. F \subseteq FiniteSubsetsOf(S) /\ F # {}
  <2>1. \A x \in S : Below(x) \in SUBSET S OBVIOUS
  <2>2. \A x \in S : IsFiniteSet(Below(x)) BY <2>1, FS_Subset
  <2> QED BY <2>1, <2>2 DEF FiniteSubsetsOf
<1>2. PICK T \in F : \A U \in F : <<U, T>> \notin R
  <2> HIDE DEF F, R
  <2> QED BY <1>1, FS_StrictSubsetOrderingWellFounded, WFMin DEF R
<1>3. PICK x \in S : T = Below(x) OBVIOUS
<1>4. ASSUME NEW y \in S, y < x PROVE FALSE
  <2>1. Below(y) \subseteq Below(x) /\ y \in Below(x) /\ y \notin Below(y)
    <3>1. x \in Nat /\ y \in Nat /\ \A z \in S : z \in Nat OBVIOUS
    <3>2. \A z \in S : z < y => z < x BY <1>4, <3>1
    <3>3. ~(y < y) BY <3>1
    <3>4. Below(y) \subseteq Below(x) BY <3>2, Zenon
    <3>5. y \in Below(x) BY <1>4
    <3>6. y \notin Below(y) BY <3>3, Zenon
    <3> QED BY <3>4, <3>5, <3>6
  <2>2. <<Below(y), Below(x)>> \in R BY <2>1 DEF StrictSubsetOrdering
  <2> QED BY <1>2, <1>3, <2>2
<1> QED BY <1>4

\* The file that is next is one of the files.
LEMMA FileIn == ASSUME TypeOK, job.files # {} PROVE File \in job.files /\ File \in Times
<1>1. job.files \in SUBSET Times /\ Times \in SUBSET Nat
  BY RecorderAssumption DEF TypeOK, Times
<1>2. IsFiniteSet(Times) BY RecorderAssumption, FS_Interval DEF Times
<1>3. IsFiniteSet(job.files) BY <1>1, <1>2, FS_Subset
<1>4. \E x \in job.files : \A y \in job.files : x <= y BY <1>1, <1>3, LeastExists
<1> QED BY <1>1, <1>4 DEF File, Min

\* Two segments of one name repeat it.
LEMMA SameName ==
  ASSUME NEW s \in Cut, NEW t \in Cut, s # t, named[s] = named[t]
  PROVE  Repeated(named[s])
BY DEF Repeated

\* What is on disk or in the storage was cut, for its name is no other value.
LEMMA Shapes ==
  ASSUME TypeOK, NameInv
  PROVE  /\ \A n \in Times : disk[n] # None => disk[n] \in Entry /\ disk[n].segment \in Cut
         /\ \A n \in Times : store[n] # None => store[n] \in Object /\ store[n].segment \in Cut
         /\ None \notin Times
<1>1. None \notin Times BY RecorderAssumption DEF Times
<1>2. \A n \in Times : disk[n] # None => disk[n] \in Entry BY DEF TypeOK
<1>3. \A n \in Times : store[n] # None => store[n] \in Object BY DEF TypeOK
<1>4. \A n \in Times : disk[n] # None => disk[n].segment \in Cut
  BY <1>1, <1>2 DEF NameInv, Cut, Entry
<1>5. \A n \in Times : store[n] # None => store[n].segment \in Cut
  BY <1>1, <1>3 DEF NameInv, Cut, Object
<1> QED BY <1>1, <1>2, <1>3, <1>4, <1>5

-----------------------------------------------------------------------------
(* FFmpeg.                                                                 *)

\* A new file takes the name; what had it before shares it.
LEMMA OpenStep ==
  ASSUME IInv, NEW s \in Segments, NEW n \in Times, Open(s, n)
  PROVE  IInv'
<1> DEFINE file == [segment |-> s, whole |-> FALSE]
<1>0. TypeOK /\ NameInv BY DEF IInv
<1>1. /\ ffmpeg = "up" /\ ffmpeg' = ffmpeg /\ writing = None /\ s = Last + 1
      /\ writing' = n /\ named' = [named EXCEPT ![s] = n] /\ disk' = [disk EXCEPT ![n] = file]
      /\ fresh' = fresh \cup {n}
      /\ UNCHANGED <<finished, aged, store, pc, job, expired>>
  BY DEF Open, Last
<1>3. None \notin Times BY RecorderAssumption DEF Times
<1>4. Last \in Nat /\ Cut = 1..Last BY <1>0 DEF NameInv
<1>5. s \notin Cut /\ Cut' = Cut \cup {s} /\ Cut' = 1..Last + 1
  <2>1. \A t \in Segments : t # s => named'[t] = named[t] BY <1>0, <1>1 DEF TypeOK
  <2>2. named'[s] = n BY <1>0, <1>1 DEF TypeOK
  <2>3. Cut' = Cut \cup {s} BY <1>3, <2>1, <2>2 DEF Cut
  <2>4. s \notin 1..Last /\ (1..Last) \cup {s} = 1..Last + 1 BY <1>1, <1>4
  <2> QED BY <1>4, <2>3, <2>4
<1>6. Last' = s /\ Last' = Last + 1
  <2>1. Cardinality(1..Last + 1) = Last + 1 BY <1>4, FS_Interval
  <2> QED BY <1>1, <1>5, <2>1 DEF Last
<1>7. named'[s] = n /\ \A t \in Cut : named'[t] = named[t]
  BY <1>0, <1>1, <1>5 DEF TypeOK
<1>8. \A m \in Times : Repeated(m) => Repeated(m)' BY <1>5, <1>7 DEF Repeated
<1>9. \A t \in Cut : named[t] = n => Repeated(n)'
  BY <1>5, <1>7 DEF Repeated
<1>10. disk'[n] = file /\ \A m \in Times : m # n => disk'[m] = disk[m] BY <1>0, <1>1 DEF TypeOK
<1>11. file.segment = s /\ ~file.whole /\ file # None
  <2>1. file \in Entry BY DEF Entry
  <2> QED BY <2>1, RecorderAssumption
<1> HIDE DEF file
<1>12. /\ \A m \in Times : disk[m] # None => disk[m] \in Entry /\ disk[m].segment \in Cut
       /\ \A m \in Times : store[m] # None => store[m] \in Object /\ store[m].segment \in Cut
  BY <1>0, Shapes
<1>13. TypeOK'
  <2>1. file \in Entry BY DEF Entry, file
  <2>2. disk' \in [Times -> Entry \cup {None}] BY <1>0, <1>1, <2>1 DEF TypeOK
  <2>3. finished' \subseteq Cut' BY <1>0, <1>1, <1>5 DEF TypeOK
  <2>4. named' \in [Segments -> Times \cup {None}] BY <1>0, <1>1 DEF TypeOK
  <2> QED BY <1>0, <1>1, <2>2, <2>3, <2>4 DEF TypeOK
<1>14. NameInv'
  <2>1. ASSUME NEW m \in Times, disk'[m] # None
        PROVE  named'[disk'[m].segment] = m /\ (disk'[m].whole => disk'[m].segment \in finished')
    <3>1. CASE m = n BY <1>7, <1>10, <1>11, <3>1
    <3>2. CASE m # n BY <1>0, <1>1, <1>7, <1>10, <1>12, <2>1, <3>2 DEF NameInv
    <3> QED BY <3>1, <3>2
  <2>2. \A m \in Times : store'[m] # None => named'[store'[m].segment] = m
    BY <1>0, <1>1, <1>7, <1>12 DEF NameInv
  <2> QED BY <1>4, <1>5, <1>6, <2>1, <2>2 DEF NameInv
<1>15. WriteInv'
  <2>1. s \notin finished' BY <1>0, <1>1, <1>5 DEF TypeOK
  <2> QED BY <1>1, <1>5, <1>6, <1>7, <1>10, <1>11, <2>1 DEF WriteInv
<1>16. UploadInv'
  <2> SUFFICES ASSUME pc \in {"put", "remove"} PROVE UploadInv'
    BY <1>1 DEF UploadInv
  <2>1. /\ job.files # {} /\ disk[File] # None
        /\ disk[File].whole \/ Repeated(File)
        /\ pc = "remove" =>
             Stored(disk[File].segment) \/ disk[File].segment \in aged \/ Repeated(File)
    BY DEF IInv, UploadInv
  <2>2. File' = File /\ File \in Times
    <3>1. File \in Times BY <1>0, <2>1, FileIn
    <3> QED BY <1>1, <3>1 DEF File
  <2>3. CASE File = n
    <3>1. disk[n].segment \in Cut /\ named[disk[n].segment] = n
      BY <1>0, <1>12, <2>1, <2>3 DEF NameInv
    <3>2. Repeated(n)' BY <1>9, <3>1
    <3> QED BY <1>1, <1>10, <1>11, <2>1, <2>2, <2>3, <3>2 DEF UploadInv
  <2>4. CASE File # n
    <3>1. disk'[File] = disk[File] BY <1>10, <2>2, <2>4
    <3>3. PICK m \in Times : m = File BY <2>2
    <3>4. Repeated(m) => Repeated(m)' BY <1>8
    <3>5. Stored(disk[m].segment) => Stored(disk[m].segment)' BY <1>1, <3>1, <3>3 DEF Stored
    <3> QED BY <1>1, <2>1, <2>2, <3>1, <3>3, <3>4, <3>5 DEF UploadInv
  <2> QED BY <2>3, <2>4
<1>17. StoreInv'
  <2>1. expired \subseteq Times BY <1>0 DEF TypeOK
  <2> QED BY <1>1, <1>8, <2>1 DEF IInv, StoreInv
<1>18. FinalInv' BY <1>1 DEF IInv, FinalInv
<1>19. NoSegmentIsLost'
  <2> SUFFICES ASSUME NEW t \in finished, t \notin aged, NEW k \in Times, k = named[t],
                      ~Repeated(k)'
               PROVE  OnDisk(t)' \/ Stored(t)'
    <3>1. \A t \in finished : named'[t] = named[t] /\ named[t] \in Times
      BY <1>0, <1>7 DEF TypeOK, Cut
    <3> QED BY <1>1, <3>1 DEF NoSegmentIsLost, Repeated
  <2>1. t \in Cut BY <1>0 DEF TypeOK
  <2>2. ~Repeated(named[t]) BY <1>8
  <2>3. OnDisk(t) \/ Stored(t) BY <2>2 DEF IInv, NoSegmentIsLost
  <2>4. Stored(t) => Stored(t)' BY <1>1 DEF Stored
  <2>5. ASSUME OnDisk(t) PROVE OnDisk(t)'
    <3>1. PICK m \in Times : disk[m] # None /\ disk[m].segment = t /\ disk[m].whole
      BY <2>5 DEF OnDisk
    <3>2. k = m BY <1>0, <3>1 DEF NameInv
    <3>3. m # n
      <4>1. CASE m = n BY <1>9, <2>1, <3>2, <4>1
      <4> QED BY <4>1
    <3>4. disk'[m] = disk[m] BY <1>10, <3>3
    <3> QED BY <3>1, <3>4 DEF OnDisk
  <2> QED BY <2>3, <2>4, <2>5
<1>20. StoredIsPlayable' BY <1>1, <1>8 DEF IInv, StoredIsPlayable
<1> QED BY <1>13, <1>14, <1>15, <1>16, <1>17, <1>18, <1>19, <1>20 DEF IInv

\* The last segment is completed, or its name was taken.
LEMMA CompletedFile ==
  ASSUME IInv, writing # None
  PROVE  LET done == Completed(disk) IN
         /\ done \in [Times -> Entry \cup {None}]
         /\ \A n \in Times : n # writing => done[n] = disk[n]
         /\ \A n \in Times : done[n] = None <=> disk[n] = None
         /\ \A n \in Times : done[n] # None =>
              /\ done[n].segment = disk[n].segment
              /\ disk[n].whole => done[n].whole
              /\ done[n].whole => disk[n].whole \/ done[n].segment = Last
         /\ Repeated(writing) \/ (done[writing] # None /\ done[writing].whole
                                  /\ done[writing].segment = Last)
<1> DEFINE done == Completed(disk)
           new == IF disk[writing].segment = Last THEN [segment |-> Last, whole |-> TRUE]
                  ELSE disk[writing]
<1>0. TypeOK /\ NameInv /\ WriteInv BY DEF IInv
<1>1. writing \in Times BY <1>0 DEF TypeOK
<1>2. Last \in Segments /\ ((disk[writing] # None /\ disk[writing].segment = Last) \/ Repeated(writing))
  BY <1>0 DEF WriteInv, Cut
<1>3. disk \in [Times -> Entry \cup {None}] BY <1>0 DEF TypeOK
<1>4. CASE disk[writing] = None
  <2>1. done = disk BY <1>4 DEF Completed
  <2> QED BY <1>2, <1>3, <1>4, <2>1
<1>5. CASE disk[writing] # None
  <2>1. done = [disk EXCEPT ![writing] = new] BY <1>5 DEF Completed, Last
  <2>2. disk[writing] \in Entry BY <1>1, <1>3, <1>5
  <2>3. [segment |-> Last, whole |-> TRUE] \in Entry BY <1>2 DEF Entry
  <2>4. new \in Entry BY <2>2, <2>3
  <2>5. new.segment = disk[writing].segment BY <2>2
  <2>6. new # None
    <3>1. CASE disk[writing].segment = Last
      <4>1. new = [segment |-> Last, whole |-> TRUE] BY <3>1
      <4> QED BY <2>3, <4>1, RecorderAssumption
    <3>2. CASE disk[writing].segment # Last BY <1>5, <3>2
    <3> QED BY <3>1, <3>2
  <2>7. new.whole <=> disk[writing].whole \/ new.segment = Last
    <3>1. CASE disk[writing].segment = Last BY <2>2, <3>1 DEF Entry
    <3>2. CASE disk[writing].segment # Last BY <2>2, <3>2 DEF Entry
    <3> QED BY <3>1, <3>2
  <2> HIDE DEF new
  <2>8. done[writing] = new /\ \A n \in Times : n # writing => done[n] = disk[n]
    BY <1>1, <1>3, <2>1
  <2>9. done \in [Times -> Entry \cup {None}] BY <1>3, <2>1, <2>4
  <2> HIDE DEF done
  <2>10. \A n \in Times : done[n] # None =>
              /\ done[n].segment = disk[n].segment
              /\ disk[n].whole => done[n].whole
              /\ done[n].whole => disk[n].whole \/ done[n].segment = Last
    BY <2>5, <2>7, <2>8
  <2> QED BY <1>1, <1>2, <1>5, <2>5, <2>6, <2>7, <2>8, <2>9, <2>10 DEF done
<1> QED BY <1>4, <1>5

\* Completing the last file makes it a finished segment.
LEMMA CompleteStep ==
  ASSUME IInv, ffmpeg = "up", writing # None,
         disk' = Completed(disk), finished' = finished \cup {Last}, writing' = None,
         UNCHANGED <<named, aged, store>>
  PROVE  /\ disk' \in [Times -> Entry \cup {None}] /\ finished' \subseteq Cut'
         /\ NameInv' /\ WriteInv' /\ NoSegmentIsLost' /\ StoredIsPlayable'
         /\ \A n \in Times : Repeated(n)' <=> Repeated(n)
<1>0. TypeOK /\ NameInv /\ WriteInv BY DEF IInv
<1>1. /\ disk' \in [Times -> Entry \cup {None}]
      /\ \A n \in Times : n # writing => disk'[n] = disk[n]
      /\ \A n \in Times : disk'[n] = None <=> disk[n] = None
      /\ \A n \in Times : disk'[n] # None =>
           /\ disk'[n].segment = disk[n].segment
           /\ disk[n].whole => disk'[n].whole
           /\ disk'[n].whole => disk[n].whole \/ disk'[n].segment = Last
      /\ \/ Repeated(writing)
         \/ disk'[writing] # None /\ disk'[writing].whole /\ disk'[writing].segment = Last
  BY CompletedFile
<1>2. writing \in Times /\ Last \in Cut /\ named[Last] = writing BY <1>0 DEF TypeOK, WriteInv
<1>3. Cut' = Cut /\ Last' = Last BY DEF Cut, Last
<1>4. \A n \in Times : Repeated(n)' <=> Repeated(n) BY <1>3 DEF Repeated
<1>5. finished' \subseteq Cut' BY <1>0, <1>2, <1>3 DEF TypeOK
<1>6. NameInv' BY <1>0, <1>1, <1>3 DEF NameInv
<1>7. WriteInv' BY DEF WriteInv
<1>8. NoSegmentIsLost'
  <2> SUFFICES ASSUME NEW s \in finished', s \notin aged, ~Repeated(named[s])
               PROVE  OnDisk(s)' \/ Stored(s)'
    BY <1>3 DEF NoSegmentIsLost, Repeated
  <2>1. CASE s = Last
    <3>1. disk'[writing] # None /\ disk'[writing].whole /\ disk'[writing].segment = Last
      BY <1>1, <1>2, <2>1
    <3> QED BY <1>2, <2>1, <3>1 DEF OnDisk
  <2>2. CASE s \in finished
    <3>1. OnDisk(s) \/ Stored(s) BY <2>2 DEF IInv, NoSegmentIsLost
    <3>2. Stored(s) => Stored(s)' BY DEF Stored
    <3>3. OnDisk(s) => OnDisk(s)' BY <1>1 DEF OnDisk
    <3> QED BY <3>1, <3>2, <3>3
  <2> QED BY <2>1, <2>2
<1>9. StoredIsPlayable' BY <1>4 DEF IInv, StoredIsPlayable
<1> QED BY <1>1, <1>4, <1>5, <1>6, <1>7, <1>8, <1>9

\* The file at work stays playable when the last one is completed.
LEMMA FinishStep == ASSUME IInv, Finish PROVE IInv'
<1>0. TypeOK /\ NameInv /\ WriteInv BY DEF IInv
<1>1. /\ ffmpeg = "up" /\ ffmpeg' = ffmpeg /\ writing # None /\ writing' = None
      /\ disk' = Completed(disk) /\ finished' = finished \cup {Last} /\ fresh' = fresh \cup {writing}
      /\ UNCHANGED <<named, aged, store, pc, job, expired>>
  BY DEF Finish, Last
<1>2. /\ disk' \in [Times -> Entry \cup {None}] /\ finished' \subseteq Cut'
      /\ NameInv' /\ WriteInv' /\ NoSegmentIsLost' /\ StoredIsPlayable'
      /\ \A n \in Times : Repeated(n)' <=> Repeated(n)
  BY <1>1, CompleteStep
<1>3. /\ \A n \in Times : disk'[n] = None <=> disk[n] = None
      /\ \A n \in Times : disk'[n] # None =>
           /\ disk'[n].segment = disk[n].segment
           /\ disk[n].whole => disk'[n].whole
  BY <1>1, CompletedFile
<1>4. TypeOK' BY <1>0, <1>1, <1>2 DEF TypeOK
<1>5. UploadInv'
  <2> SUFFICES ASSUME pc \in {"put", "remove"} PROVE UploadInv'
    BY <1>1 DEF UploadInv
  <2>1. /\ job.files # {} /\ disk[File] # None
        /\ disk[File].whole \/ Repeated(File)
        /\ pc = "remove" =>
             Stored(disk[File].segment) \/ disk[File].segment \in aged \/ Repeated(File)
    BY DEF IInv, UploadInv
  <2>2. File \in Times BY <1>0, <2>1, FileIn
  <2>3. File' = File BY <1>1 DEF File
  <2>4. PICK m \in Times : m = File BY <2>2
  <2>5. Stored(disk[m].segment) => Stored(disk[m].segment)'
    <3>1. disk'[m].segment = disk[m].segment BY <1>3, <2>1, <2>4
    <3> QED BY <1>1, <3>1 DEF Stored
  <2> QED BY <1>1, <1>2, <1>3, <2>1, <2>3, <2>4, <2>5 DEF UploadInv
<1>6. StoreInv'
  <2>1. expired \subseteq Times BY <1>0 DEF TypeOK
  <2> QED BY <1>1, <1>2, <2>1 DEF IInv, StoreInv
<1>7. FinalInv' BY <1>1 DEF IInv, FinalInv
<1> QED BY <1>2, <1>4, <1>5, <1>6, <1>7 DEF IInv

-----------------------------------------------------------------------------
(* The camera's thread.                                                    *)

\* What FFmpeg leaves behind stays as it is.
LEMMA FilesStay ==
  ASSUME IInv, UNCHANGED <<named, finished, disk, store, aged>>,
         writing' = None \/ UNCHANGED <<writing, ffmpeg>>
  PROVE  /\ NameInv' /\ WriteInv' /\ NoSegmentIsLost' /\ StoredIsPlayable' /\ Cut' = Cut
         /\ \A n \in Times : Repeated(n)' <=> Repeated(n)
<1>1. Cut' = Cut /\ Last' = Last BY DEF Cut, Last
<1>2. \A n : Repeated(n)' <=> Repeated(n) BY <1>1 DEF Repeated
<1>3. NameInv' BY <1>1 DEF IInv, NameInv
<1>4. WriteInv' BY <1>1 DEF IInv, WriteInv, Repeated
<1>5. NoSegmentIsLost' BY <1>1 DEF IInv, NoSegmentIsLost, OnDisk, Stored, Repeated
<1>6. StoredIsPlayable' BY <1>2 DEF IInv, StoredIsPlayable
<1> QED BY <1>1, <1>2, <1>3, <1>4, <1>5, <1>6

\* The upload at work is not disturbed.
LEMMA UploadStays ==
  ASSUME IInv, UNCHANGED <<named, disk, store, aged, pc, job>>
  PROVE  UploadInv'
<1>1. Cut' = Cut BY DEF Cut
<1> QED BY <1>1 DEF IInv, UploadInv, File, Stored, Repeated

\* Nor is the purge.
LEMMA PurgeStays ==
  ASSUME IInv, UNCHANGED <<named, store, aged>>, expired' \in {expired, {}}
  PROVE  StoreInv'
<1>1. Cut' = Cut BY DEF Cut
<1> QED BY <1>1 DEF IInv, StoreInv, Repeated

LEMMA DieStep == ASSUME IInv, Die PROVE IInv'
<1>1. /\ ffmpeg' = "down" /\ writing' = None
      /\ UNCHANGED <<named, finished, fresh, aged, disk, store, pc, job, expired>>
  BY DEF Die, faultVars
<1>2. /\ NameInv' /\ WriteInv' /\ NoSegmentIsLost' /\ StoredIsPlayable' /\ Cut' = Cut
  BY <1>1, FilesStay
<1>3. TypeOK' BY <1>1, <1>2 DEF IInv, TypeOK
<1>4. UploadInv' BY <1>1, UploadStays
<1>5. StoreInv' BY <1>1, PurgeStays
<1>6. FinalInv' BY <1>1 DEF IInv, FinalInv, Files
<1> QED BY <1>2, <1>3, <1>4, <1>5, <1>6 DEF IInv

LEMMA QuietStep ==
  ASSUME IInv, UNCHANGED <<ffmpegVars, aged, disk, store, pc, job, expired>>, fresh' \subseteq fresh
  PROVE  IInv'
<1>1. UNCHANGED <<ffmpeg, writing, named, finished>> BY DEF ffmpegVars
<1>2. /\ NameInv' /\ WriteInv' /\ NoSegmentIsLost' /\ StoredIsPlayable' /\ Cut' = Cut
  BY <1>1, FilesStay
<1>3. TypeOK' BY <1>1, <1>2 DEF IInv, TypeOK
<1>4. UploadInv' BY <1>1, UploadStays
<1>5. StoreInv' BY <1>1, PurgeStays
<1>6. FinalInv' BY <1>1 DEF IInv, FinalInv, Files
<1> QED BY <1>2, <1>3, <1>4, <1>5, <1>6 DEF IInv

LEMMA AgeStep == ASSUME IInv, NEW n \in Times, Age(n) PROVE IInv'
<1>0. TypeOK /\ NameInv BY DEF IInv
<1>1. /\ store[n] # None /\ store' = [store EXCEPT ![n].old = TRUE]
      /\ aged' = aged \cup {store[n].segment}
      /\ UNCHANGED <<ffmpeg, writing, named, finished, fresh, disk, pc, job, expired>>
  BY DEF Age, ffmpegVars
<1>2. store \in [Times -> Object \cup {None}] /\ store[n] \in Object BY <1>0, <1>1 DEF TypeOK
<1>3. /\ store'[n] = [store[n] EXCEPT !.old = TRUE] /\ store'[n] \in Object
      /\ store'[n].segment = store[n].segment /\ store'[n].whole = store[n].whole
  BY <1>1, <1>2 DEF Object
<1>4. \A m \in Times : m # n => store'[m] = store[m] BY <1>1, <1>2
<1>5. store'[n] # None BY <1>3, RecorderAssumption
<1>6. store' \in [Times -> Object \cup {None}]
  <2>1. store' = [store EXCEPT ![n] = [store[n] EXCEPT !.old = TRUE]] BY <1>1, <1>2
  <2> QED BY <1>2, <1>3, <2>1
<1>7. Cut' = Cut /\ Last' = Last BY <1>1 DEF Cut, Last
<1>8. \A m : Repeated(m)' <=> Repeated(m) BY <1>1, <1>7 DEF Repeated
<1>9. \A s \in Segments : Stored(s) => Stored(s)'
  <2> SUFFICES ASSUME NEW s \in Segments, Stored(s) PROVE Stored(s)'
    OBVIOUS
  <2>1. PICK m \in Times : store[m] # None /\ store[m].segment = s /\ store[m].whole BY DEF Stored
  <2>2. store'[m] # None /\ store'[m].segment = s /\ store'[m].whole
    BY <1>3, <1>4, <1>5, <2>1
  <2> QED BY <2>2 DEF Stored
<1>10. TypeOK'
  <2>1. store[n].segment \in Segments BY <1>2 DEF Object
  <2> QED BY <1>0, <1>1, <1>6, <1>7, <2>1 DEF TypeOK
<1>11. NameInv' BY <1>0, <1>1, <1>3, <1>4, <1>7 DEF NameInv
<1>12. WriteInv' BY <1>1, <1>7, <1>8 DEF IInv, WriteInv
<1>13. UploadInv'
  <2> SUFFICES ASSUME pc \in {"put", "remove"} PROVE UploadInv'
    BY <1>1 DEF UploadInv
  <2>1. /\ job.files # {} /\ disk[File] # None
        /\ disk[File].whole \/ Repeated(File)
        /\ pc = "remove" =>
             Stored(disk[File].segment) \/ disk[File].segment \in aged \/ Repeated(File)
    BY DEF IInv, UploadInv
  <2>2. File \in Times BY <1>0, <2>1, FileIn
  <2>3. File' = File BY <1>1 DEF File
  <2>4. PICK m \in Times, s \in Segments : m = File /\ s = disk[m].segment
    BY <1>0, <2>1, <2>2, Shapes DEF Entry
  <2>5. disk'[File'].segment = s BY <1>1, <2>3, <2>4
  <2>6. Stored(s) => Stored(s)' BY <1>9
  <2>7. Repeated(m) => Repeated(m)' BY <1>8
  <2> QED BY <1>1, <2>1, <2>3, <2>4, <2>5, <2>6, <2>7 DEF UploadInv, Stored
<1>14. StoreInv'
  <2> SUFFICES ASSUME NEW m \in Times, store'[m] # None
               PROVE  /\ store'[m].old => store'[m].segment \in aged'
                      /\ m \in expired => store'[m].segment \in aged' \/ Repeated(m)'
    BY <1>0, <1>1, <1>4, <1>5 DEF IInv, StoreInv, TypeOK
  <2>1. CASE m = n BY <1>1, <1>3, <2>1
  <2>2. CASE m # n BY <1>1, <1>4, <1>8, <2>2 DEF IInv, StoreInv
  <2> QED BY <2>1, <2>2
<1>15. FinalInv' BY <1>1 DEF IInv, FinalInv, Files
<1>16. NoSegmentIsLost'
  <2> SUFFICES ASSUME NEW s \in finished, s \notin aged, ~Repeated(named[s])
               PROVE  OnDisk(s)' \/ Stored(s)'
    BY <1>1, <1>7 DEF NoSegmentIsLost, Repeated
  <2>1. OnDisk(s) \/ Stored(s) BY DEF IInv, NoSegmentIsLost
  <2>2. s \in Segments BY <1>0 DEF TypeOK, Cut
  <2>3. OnDisk(s) => OnDisk(s)' BY <1>1 DEF OnDisk
  <2> QED BY <1>9, <2>1, <2>2, <2>3
<1>17. StoredIsPlayable'
  <2> SUFFICES ASSUME NEW m \in Times, store'[m] # None PROVE store'[m].whole \/ Repeated(m)'
    BY DEF StoredIsPlayable
  <2>1. CASE m = n BY <1>1, <1>3, <1>8, <2>1 DEF IInv, StoredIsPlayable
  <2>2. CASE m # n BY <1>4, <1>8, <2>2 DEF IInv, StoredIsPlayable
  <2> QED BY <2>1, <2>2
<1> QED BY <1>10, <1>11, <1>12, <1>13, <1>14, <1>15, <1>16, <1>17 DEF IInv

LEMMA RecordStep == ASSUME IInv, Record PROVE IInv'
<1>1. /\ pc \in {"begin", "wait"} /\ pc' \in {"wait", "scan"} /\ ffmpeg' \in {"up", "down"}
      /\ ffmpeg = "up" => ffmpeg' = "up"
      /\ UNCHANGED <<writing, named, finished, fresh, aged, disk, store, job, expired>>
  BY DEF Record, Go, faultVars, IInv, TypeOK
<1>2. writing' = None \/ UNCHANGED <<writing, ffmpeg>> BY <1>1 DEF IInv, WriteInv
<1>3. /\ NameInv' /\ WriteInv' /\ NoSegmentIsLost' /\ StoredIsPlayable' /\ Cut' = Cut
  BY <1>1, <1>2, FilesStay
<1>4. TypeOK' BY <1>1, <1>3 DEF IInv, TypeOK
<1>5. UploadInv' BY <1>1 DEF UploadInv
<1>6. StoreInv' BY <1>1, PurgeStays
<1>7. FinalInv' BY <1>1 DEF IInv, FinalInv
<1> QED BY <1>3, <1>4, <1>5, <1>6, <1>7 DEF IInv

LEMMA QuitStep == ASSUME IInv, Quit PROVE IInv'
<1>1. /\ pc' = "scan" /\ ffmpeg' = "down" /\ writing' = None
      /\ job' = [files |-> {}, final |-> TRUE, failed |-> {}]
      /\ UNCHANGED <<named, fresh, aged, store, expired>>
  BY DEF Quit, Go, NoJob, faultVars
<1>2. /\ disk' \in [Times -> Entry \cup {None}] /\ finished' \subseteq Cut'
      /\ NameInv' /\ WriteInv' /\ NoSegmentIsLost' /\ StoredIsPlayable'
  <2>1. CASE /\ ffmpeg = "up" /\ writing # None
             /\ disk' = Completed(disk) /\ finished' = finished \cup {Cardinality(Cut)}
    BY <1>1, <2>1, CompleteStep DEF Last
  <2>2. CASE UNCHANGED <<disk, finished>>
    <3>1. NameInv' /\ WriteInv' /\ NoSegmentIsLost' /\ StoredIsPlayable' /\ Cut' = Cut
      BY <1>1, <2>2, FilesStay
    <3> QED BY <2>2, <3>1 DEF IInv, TypeOK
  <2> QED BY <2>1, <2>2 DEF Quit
<1>3. TypeOK' BY <1>1, <1>2 DEF IInv, TypeOK
<1>4. UploadInv' BY <1>1 DEF UploadInv
<1>5. StoreInv' BY <1>1, PurgeStays
<1>6. FinalInv' BY <1>1 DEF FinalInv
<1> QED BY <1>2, <1>3, <1>4, <1>5, <1>6 DEF IInv

\* A step of the thread that touches neither files nor objects.
LEMMA ThreadStep ==
  ASSUME IInv, UNCHANGED <<ffmpegVars, fresh, aged, disk, store, expired>>,
         pc' \in {"begin", "upload", "wait", "ended"},
         job' \in [files : SUBSET Times, final : BOOLEAN, failed : SUBSET Times],
         FinalInv'
  PROVE  IInv'
<1>1. UNCHANGED <<ffmpeg, writing, named, finished>> BY DEF ffmpegVars
<1>2. /\ NameInv' /\ WriteInv' /\ NoSegmentIsLost' /\ StoredIsPlayable' /\ Cut' = Cut
  BY <1>1, FilesStay
<1>3. TypeOK' BY <1>1, <1>2 DEF IInv, TypeOK
<1>4. UploadInv' BY DEF UploadInv
<1>5. StoreInv' BY <1>1, PurgeStays
<1> QED BY <1>2, <1>3, <1>4, <1>5 DEF IInv

LEMMA ScanStep == ASSUME IInv, Scan PROVE IInv'
<1>1. /\ pc = "scan" /\ pc' = "upload" /\ UNCHANGED <<ffmpegVars, fresh, aged, disk, store, expired>>
      /\ job' = [job EXCEPT !.files = Uploadable(job.final), !.failed = {}]
  BY DEF Scan, Go, faultVars
<1>2. Uploadable(job.final) \subseteq Times /\ (job.final => Uploadable(job.final) = Files)
  BY DEF Uploadable, Files
<1>3. job \in [files : SUBSET Times, final : BOOLEAN, failed : SUBSET Times]
  BY DEF IInv, TypeOK
<1>4. /\ job' \in [files : SUBSET Times, final : BOOLEAN, failed : SUBSET Times]
      /\ job'.final = job.final /\ job'.files = Uploadable(job.final)
  BY <1>1, <1>2, <1>3
<1>5. FinalInv'
  <2>1. Files' = Files /\ ffmpeg' = ffmpeg BY <1>1 DEF Files, ffmpegVars
  <2> QED BY <1>1, <1>2, <1>4, <2>1 DEF IInv, FinalInv
<1> QED BY <1>1, <1>4, <1>5, ThreadStep

\* What NextFile does to the thread's job.
LEMMA NextFileJob ==
  ASSUME TypeOK, job.files # {}, NEW failed \in SUBSET {File}, NextFile(failed)
  PROVE  /\ pc' = "upload"
         /\ job' \in [files : SUBSET Times, final : BOOLEAN, failed : SUBSET Times]
         /\ job'.files = job.files \ {File} /\ job'.final = job.final
         /\ job'.failed = job.failed \cup failed
<1>1. File \in Times BY FileIn
<1>2. job' = [job EXCEPT !.files = @ \ {File}, !.failed = @ \cup failed] /\ pc' = "upload"
  BY DEF NextFile, Go
<1>3. job \in [files : SUBSET Times, final : BOOLEAN, failed : SUBSET Times] BY DEF TypeOK
<1> QED BY <1>1, <1>2, <1>3

LEMMA CheckStep == ASSUME IInv, Check PROVE IInv'
<1>0. TypeOK BY DEF IInv
<1>1. pc = "upload" /\ UNCHANGED <<ffmpegVars, fresh, aged, disk, store, expired>>
  BY DEF Check, faultVars
<1>2. Files' = Files /\ ffmpeg' = ffmpeg BY <1>1 DEF Files, ffmpegVars
<1>3. job \in [files : SUBSET Times, final : BOOLEAN, failed : SUBSET Times]
  BY <1>0 DEF TypeOK
<1>4. CASE job.files = {}
  <2>1. pc' = (IF job.final THEN "ended" ELSE "wait") /\ job' = job BY <1>4 DEF Check, Go
  <2>2. FinalInv' BY <1>1, <1>2, <1>4, <2>1 DEF IInv, FinalInv
  <2> QED BY <1>1, <1>3, <2>1, <2>2, ThreadStep
<1>5. CASE job.files # {} /\ Playable(File)
  <2>1. pc' = "put" /\ job' = job BY <1>5 DEF Check, Go
  <2>2. UNCHANGED <<ffmpeg, writing, named, finished>> BY <1>1 DEF ffmpegVars
  <2>3. NameInv' /\ WriteInv' /\ NoSegmentIsLost' /\ StoredIsPlayable' /\ Cut' = Cut
    BY <1>1, <2>2, FilesStay
  <2>4. TypeOK' BY <1>0, <1>1, <2>1, <2>2, <2>3 DEF TypeOK
  <2>5. UploadInv' BY <1>1, <1>5, <2>1 DEF UploadInv, Playable, File
  <2>6. StoreInv' BY <1>1, <2>2, PurgeStays
  <2>7. FinalInv' BY <1>1, <1>2, <2>1 DEF IInv, FinalInv
  <2> QED BY <2>3, <2>4, <2>5, <2>6, <2>7 DEF IInv
<1>6. CASE job.files # {} /\ ~Playable(File)
  <2>1. NextFile({}) BY <1>6 DEF Check
  <2>2. /\ pc' = "upload"
        /\ job' \in [files : SUBSET Times, final : BOOLEAN, failed : SUBSET Times]
        /\ job'.files = job.files \ {File} /\ job'.final = job.final
        /\ job'.failed = job.failed \cup {}
    BY <1>0, <1>6, <2>1, NextFileJob, {} \in SUBSET {File}
  <2>3. \A n \in Files : disk[n].whole => n # File BY <1>6 DEF Playable, Files
  <2>4. FinalInv' BY <1>1, <1>2, <2>2, <2>3 DEF IInv, FinalInv
  <2> QED BY <1>1, <2>2, <2>4, ThreadStep
<1> QED BY <1>4, <1>5, <1>6

LEMMA PutFailsStep == ASSUME IInv, PutFails PROVE IInv'
<1>0. TypeOK BY DEF IInv
<1>1. /\ pc = "put" /\ NextFile({File}) /\ UNCHANGED <<ffmpegVars, fresh, aged, disk, store, expired>>
  BY DEF PutFails, KeptOnFailure, faultVars
<1>2. job.files # {} BY <1>1 DEF IInv, UploadInv
<1>3. /\ pc' = "upload"
      /\ job' \in [files : SUBSET Times, final : BOOLEAN, failed : SUBSET Times]
      /\ job'.files = job.files \ {File} /\ job'.final = job.final
      /\ job'.failed = job.failed \cup {File}
  BY <1>0, <1>1, <1>2, NextFileJob
<1>4. FinalInv'
  <2>1. Files' = Files /\ ffmpeg' = ffmpeg BY <1>1 DEF Files, ffmpegVars
  <2> QED BY <1>1, <1>3, <2>1 DEF IInv, FinalInv
<1> QED BY <1>1, <1>3, <1>4, ThreadStep

\* The object that is replaced is of the same segment, or shares its name.
LEMMA PutStep == ASSUME IInv, NEW n \in Times, Put(n) PROVE IInv'
<1> DEFINE new == [segment |-> disk[n].segment, whole |-> disk[n].whole, old |-> FALSE]
<1>0. TypeOK /\ NameInv BY DEF IInv
<1>1. /\ pc = "put" /\ n = File /\ store' = [store EXCEPT ![n] = new] /\ pc' = "remove" /\ job' = job
      /\ UNCHANGED <<ffmpeg, writing, named, finished, fresh, aged, disk, expired>>
  BY DEF Put, Go, ffmpegVars, faultVars
<1>2. /\ job.files # {} /\ disk[n] # None
      /\ disk[n].whole \/ Repeated(n)
  BY <1>1 DEF IInv, UploadInv
<1>3. disk[n] \in Entry /\ disk[n].segment \in Cut /\ named[disk[n].segment] = n
  BY <1>0, <1>2, Shapes DEF NameInv
<1>4. /\ new \in Object /\ new # None /\ new.segment = disk[n].segment /\ new.whole = disk[n].whole
      /\ ~new.old
  <2>1. new \in Object BY <1>3 DEF Entry, Object
  <2> QED BY <2>1, RecorderAssumption
<1> HIDE DEF new
<1>5. store'[n] = new /\ \A m \in Times : m # n => store'[m] = store[m] BY <1>0, <1>1 DEF TypeOK
<1>6. Cut' = Cut /\ Last' = Last BY <1>1 DEF Cut, Last
<1>7. \A m : Repeated(m)' <=> Repeated(m) BY <1>1, <1>6 DEF Repeated
<1>8. store[n] # None => store[n].segment = disk[n].segment \/ Repeated(n)
  <2> SUFFICES ASSUME store[n] # None, store[n].segment # disk[n].segment PROVE Repeated(n)
    OBVIOUS
  <2>1. store[n].segment \in Cut /\ named[store[n].segment] = n BY <1>0, Shapes DEF NameInv
  <2> QED BY <1>3, <2>1 DEF Repeated
<1>9. TypeOK'
  <2>1. store' \in [Times -> Object \cup {None}] BY <1>0, <1>1, <1>4 DEF TypeOK
  <2> QED BY <1>0, <1>1, <1>6, <2>1 DEF TypeOK
<1>10. NameInv' BY <1>0, <1>1, <1>3, <1>4, <1>5, <1>6 DEF NameInv
<1>11. WriteInv' BY <1>1, <1>6, <1>7 DEF IInv, WriteInv
<1>12. disk[n].whole => Stored(disk[n].segment)'
  <2>1. disk[n].whole => store'[n] # None /\ store'[n].whole /\ store'[n].segment = disk[n].segment
    BY <1>4, <1>5
  <2> QED BY <1>1, <2>1 DEF Stored
<1>13. UploadInv'
  <2>1. File' = n BY <1>1 DEF File
  <2>2. disk'[File'] = disk[n] /\ (Repeated(n) => Repeated(n)') BY <1>1, <1>7, <2>1
  <2> QED BY <1>1, <1>2, <1>12, <2>1, <2>2 DEF UploadInv, Stored
<1>14. StoreInv'
  <2>1. ASSUME NEW m \in Times, store'[m] # None
        PROVE  /\ store'[m].old => store'[m].segment \in aged
               /\ m \in expired => store'[m].segment \in aged \/ Repeated(m)
    <3>1. CASE m = n
      <4>1. n \in expired => store[n] # None /\ (store[n].segment \in aged \/ Repeated(n))
        BY DEF IInv, StoreInv
      <4> QED BY <1>4, <1>5, <1>8, <3>1, <4>1
    <3>2. CASE m # n BY <1>5, <2>1, <3>2 DEF IInv, StoreInv
    <3> QED BY <3>1, <3>2
  <2>2. \A m \in expired : m \in Times /\ store'[m] # None
    BY <1>0, <1>4, <1>5 DEF IInv, StoreInv, TypeOK
  <2> QED BY <1>1, <1>7, <2>1, <2>2 DEF StoreInv
<1>15. FinalInv' BY <1>1 DEF IInv, FinalInv, Files
<1>16. NoSegmentIsLost'
  <2> SUFFICES ASSUME NEW s \in finished, s \notin aged, ~Repeated(named[s])
               PROVE  OnDisk(s)' \/ Stored(s)'
    BY <1>1, <1>6 DEF NoSegmentIsLost, Repeated
  <2>1. OnDisk(s) \/ Stored(s) BY DEF IInv, NoSegmentIsLost
  <2>2. OnDisk(s) => OnDisk(s)' BY <1>1 DEF OnDisk
  <2>3. ASSUME Stored(s) PROVE Stored(s)'
    <3>1. PICK m \in Times : store[m] # None /\ store[m].segment = s /\ store[m].whole
      BY <2>3 DEF Stored
    <3>2. CASE m # n
      <4>1. store'[m] = store[m] BY <1>5, <3>2
      <4> QED BY <3>1, <4>1 DEF Stored
    <3>3. CASE m = n
      <4>1. named[s] = n BY <1>0, <3>1, <3>3 DEF NameInv
      <4>2. disk[n].segment = s /\ disk[n].whole BY <1>2, <1>8, <3>1, <3>3, <4>1
      <4>3. store'[n] # None /\ store'[n].segment = s /\ store'[n].whole
        BY <1>4, <1>5, <4>2
      <4> QED BY <4>3 DEF Stored
    <3> QED BY <3>2, <3>3
  <2> QED BY <2>1, <2>2, <2>3
<1>17. StoredIsPlayable'
  <2> SUFFICES ASSUME NEW m \in Times, store'[m] # None PROVE store'[m].whole \/ Repeated(m)'
    BY DEF StoredIsPlayable
  <2>1. CASE m = n BY <1>2, <1>4, <1>5, <1>7, <2>1
  <2>2. CASE m # n BY <1>5, <1>7, <2>2 DEF IInv, StoredIsPlayable
  <2> QED BY <2>1, <2>2
<1> QED BY <1>9, <1>10, <1>11, <1>13, <1>14, <1>15, <1>16, <1>17 DEF IInv

\* A file that is removed is stored, or its segment is past retention, or shares its name.
LEMMA RemoveLocalStep == ASSUME IInv, RemoveLocal PROVE IInv'
<1>0. TypeOK /\ NameInv BY DEF IInv
<1>1. pc = "remove" /\ UNCHANGED <<ffmpeg, writing, named, finished, fresh, aged, store, expired>>
  BY DEF RemoveLocal, ffmpegVars, faultVars
<1>2. /\ job.files # {} /\ disk[File] # None
      /\ disk[File].whole \/ Repeated(File)
      /\ Stored(disk[File].segment) \/ disk[File].segment \in aged \/ Repeated(File)
  BY <1>1 DEF IInv, UploadInv
<1>3. PICK n \in Times : n = File BY <1>0, <1>2, FileIn
<1>4. CASE UNCHANGED disk /\ NextFile({File})
  <2>1. /\ pc' = "upload"
        /\ job' \in [files : SUBSET Times, final : BOOLEAN, failed : SUBSET Times]
        /\ job'.files = job.files \ {File} /\ job'.final = job.final
        /\ job'.failed = job.failed \cup {File}
    BY <1>0, <1>2, <1>4, NextFileJob
  <2>2. FinalInv'
    <3>1. Files' = Files BY <1>4 DEF Files
    <3> QED BY <1>1, <1>4, <2>1, <3>1 DEF IInv, FinalInv
  <2> QED BY <1>1, <1>4, <2>1, <2>2, ThreadStep DEF ffmpegVars
<1>5. CASE disk' = [disk EXCEPT ![File] = None] /\ NextFile({})
  <2>1. /\ pc' = "upload"
        /\ job' \in [files : SUBSET Times, final : BOOLEAN, failed : SUBSET Times]
        /\ job'.files = job.files \ {File} /\ job'.final = job.final
        /\ job'.failed = job.failed \cup {}
    BY <1>0, <1>2, <1>5, NextFileJob, {} \in SUBSET {File}
  <2>2. disk'[n] = None /\ \A m \in Times : m # n => disk'[m] = disk[m]
    BY <1>0, <1>3, <1>5 DEF TypeOK
  <2>3. disk' \in [Times -> Entry \cup {None}] BY <1>0, <1>5 DEF TypeOK
  <2>4. Cut' = Cut /\ Last' = Last BY <1>1 DEF Cut, Last
  <2>5. \A m : Repeated(m)' <=> Repeated(m) BY <1>1, <2>4 DEF Repeated
  <2>6. disk[n].segment \in Cut /\ named[disk[n].segment] = n
    BY <1>0, <1>2, <1>3, Shapes DEF NameInv
  <2>7. TypeOK' BY <1>0, <1>1, <2>1, <2>3, <2>4 DEF TypeOK
  <2>8. NameInv' BY <1>0, <1>1, <2>2, <2>4 DEF NameInv
  <2>9. WriteInv'
    <3> SUFFICES ASSUME writing # None PROVE WriteInv'
      BY <1>1 DEF WriteInv
    <3>1. /\ ffmpeg = "up" /\ Last \in Cut /\ named[Last] = writing /\ Last \notin finished
          /\ (disk[writing] # None /\ disk[writing].segment = Last) \/ Repeated(writing)
      BY DEF IInv, WriteInv
    <3>2. CASE writing = n
      <4>1. disk[n].whole => disk[n].segment \in finished BY <1>0, <1>2, <1>3 DEF NameInv
      <4>2. disk[n].segment # Last \/ Repeated(n) BY <1>2, <1>3, <3>1, <4>1
      <4>3. Repeated(writing) BY <3>1, <3>2, <4>2
      <4> QED BY <1>1, <2>4, <2>5, <3>1, <4>3 DEF WriteInv
    <3>3. CASE writing # n
      <4>1. writing \in Times BY <1>0 DEF TypeOK
      <4>2. disk'[writing] = disk[writing] BY <2>2, <3>3, <4>1
      <4> QED BY <1>1, <2>4, <2>5, <3>1, <4>2 DEF WriteInv
    <3> QED BY <3>2, <3>3
  <2>10. UploadInv' BY <2>1 DEF UploadInv
  <2>11. StoreInv' BY <1>1, PurgeStays
  <2>12. FinalInv'
    <3>1. \A m \in Files' : m \in Files /\ m # n /\ disk'[m] = disk[m] BY <2>2 DEF Files
    <3> QED BY <1>1, <1>3, <2>1, <3>1 DEF IInv, FinalInv
  <2>13. NoSegmentIsLost'
    <3> SUFFICES ASSUME NEW s \in finished, s \notin aged, ~Repeated(named[s])
                 PROVE  OnDisk(s)' \/ Stored(s)'
      BY <1>1, <2>4 DEF NoSegmentIsLost, Repeated
    <3>1. OnDisk(s) \/ Stored(s) BY DEF IInv, NoSegmentIsLost
    <3>2. Stored(s) => Stored(s)' BY <1>1 DEF Stored
    <3>3. ASSUME OnDisk(s) PROVE OnDisk(s)' \/ Stored(s)
      <4>1. PICK m \in Times : disk[m] # None /\ disk[m].segment = s /\ disk[m].whole
        BY <3>3 DEF OnDisk
      <4>2. CASE m = n BY <1>2, <1>3, <2>6, <4>1, <4>2
      <4>3. CASE m # n
        <5>1. disk'[m] = disk[m] BY <2>2, <4>3
        <5> QED BY <4>1, <5>1 DEF OnDisk
      <4> QED BY <4>2, <4>3
    <3> QED BY <3>1, <3>2, <3>3
  <2>14. StoredIsPlayable' BY <1>1, <2>5 DEF IInv, StoredIsPlayable
  <2> QED BY <2>7, <2>8, <2>9, <2>10, <2>11, <2>12, <2>13, <2>14 DEF IInv
<1> QED BY <1>4, <1>5 DEF RemoveLocal

-----------------------------------------------------------------------------
(* The main thread.                                                        *)

LEMMA ListStep == ASSUME IInv, List PROVE IInv'
<1>1. /\ expired' = Expired
      /\ UNCHANGED <<ffmpeg, writing, named, finished, fresh, aged, disk, store, pc, job>>
  BY DEF List, ffmpegVars, faultVars
<1>2. NameInv' /\ WriteInv' /\ NoSegmentIsLost' /\ StoredIsPlayable' /\ Cut' = Cut
  BY <1>1, FilesStay
<1>3. TypeOK' BY <1>1, <1>2 DEF IInv, TypeOK, Expired
<1>4. UploadInv' BY <1>1, UploadStays
<1>5. StoreInv' BY <1>1 DEF IInv, StoreInv, Expired
<1>6. FinalInv' BY <1>1 DEF IInv, FinalInv, Files
<1> QED BY <1>2, <1>3, <1>4, <1>5, <1>6 DEF IInv

\* An object that is removed is past retention, or shares its name.
LEMMA RemoveObjectStep == ASSUME IInv, NEW n \in Times, RemoveObject(n) PROVE IInv'
<1>0. TypeOK /\ NameInv BY DEF IInv
<1>1. /\ n \in expired /\ expired' = expired \ {n}
      /\ store' \in {store, [store EXCEPT ![n] = None]}
      /\ UNCHANGED <<ffmpeg, writing, named, finished, fresh, aged, disk, pc, job>>
  BY DEF RemoveObject, ffmpegVars, faultVars
<1>2. store'[n] \in {store[n], None} /\ \A m \in Times : m # n => store'[m] = store[m]
  BY <1>0, <1>1 DEF TypeOK
<1>3. store' \in [Times -> Object \cup {None}] BY <1>0, <1>1 DEF TypeOK
<1>4. Cut' = Cut /\ Last' = Last BY <1>1 DEF Cut, Last
<1>5. \A m : Repeated(m)' <=> Repeated(m) BY <1>1, <1>4 DEF Repeated
<1>6. store[n] # None /\ (store[n].segment \in aged \/ Repeated(n))
  BY <1>1 DEF IInv, StoreInv
<1>7. ASSUME NEW s \in Segments, Stored(s) PROVE Stored(s)' \/ s \in aged \/ Repeated(named[s])
  <2>1. PICK m \in Times : store[m] # None /\ store[m].segment = s /\ store[m].whole
    BY <1>7 DEF Stored
  <2>2. CASE m = n
    <3>1. named[s] = n BY <1>0, <2>1, <2>2 DEF NameInv
    <3> QED BY <1>6, <2>1, <2>2, <3>1
  <2>3. CASE m # n
    <3>1. store'[m] = store[m] BY <1>2, <2>3
    <3> QED BY <2>1, <3>1 DEF Stored
  <2> QED BY <2>2, <2>3
<1>8. TypeOK' BY <1>0, <1>1, <1>3, <1>4 DEF TypeOK
<1>9. NameInv' BY <1>0, <1>1, <1>2, <1>4 DEF NameInv
<1>10. WriteInv' BY <1>1, <1>4, <1>5 DEF IInv, WriteInv
<1>11. UploadInv'
  <2> SUFFICES ASSUME pc \in {"put", "remove"} PROVE UploadInv'
    BY <1>1 DEF UploadInv
  <2>1. /\ job.files # {} /\ disk[File] # None
        /\ disk[File].whole \/ Repeated(File)
        /\ pc = "remove" =>
             Stored(disk[File].segment) \/ disk[File].segment \in aged \/ Repeated(File)
    BY DEF IInv, UploadInv
  <2>2. File \in Times BY <1>0, <2>1, FileIn
  <2>3. File' = File BY <1>1 DEF File
  <2>4. PICK m \in Times, s \in Segments : m = File /\ s = disk[m].segment /\ named[s] = m
    BY <1>0, <2>1, <2>2, Shapes DEF Entry, NameInv
  <2>5. disk'[File'] = disk[m] BY <1>1, <2>3, <2>4
  <2>6. Stored(s) => Stored(s)' \/ s \in aged \/ Repeated(m) BY <1>7, <2>4
  <2>7. Repeated(m) => Repeated(m)' BY <1>5
  <2> QED BY <1>1, <2>1, <2>3, <2>4, <2>5, <2>6, <2>7 DEF UploadInv, Stored
<1>12. StoreInv'
  <2>1. expired \subseteq Times BY <1>0 DEF TypeOK
  <2>2. \A m \in Times : store'[m] # None => store'[m] = store[m] BY <1>2
  <2>3. \A m \in expired' : store'[m] = store[m] BY <1>1, <1>2, <2>1
  <2> QED BY <1>1, <1>5, <2>1, <2>2, <2>3 DEF IInv, StoreInv
<1>13. FinalInv' BY <1>1 DEF IInv, FinalInv, Files
<1>14. NoSegmentIsLost'
  <2> SUFFICES ASSUME NEW s \in finished, s \notin aged, ~Repeated(named[s])
               PROVE  OnDisk(s)' \/ Stored(s)'
    BY <1>1, <1>4 DEF NoSegmentIsLost, Repeated
  <2>1. OnDisk(s) \/ Stored(s) BY DEF IInv, NoSegmentIsLost
  <2>2. s \in Segments BY <1>0 DEF TypeOK, Cut
  <2>3. OnDisk(s) => OnDisk(s)' BY <1>1 DEF OnDisk
  <2> QED BY <1>7, <2>1, <2>2, <2>3
<1>15. StoredIsPlayable' BY <1>2, <1>5 DEF IInv, StoredIsPlayable
<1> QED BY <1>8, <1>9, <1>10, <1>11, <1>12, <1>13, <1>14, <1>15 DEF IInv

LEMMA CrashStep == ASSUME IInv, Crash PROVE IInv'
<1>1. /\ ffmpeg' = "down" /\ writing' = None /\ pc' = "killed" /\ expired' = {}
      /\ job' = [files |-> {}, final |-> FALSE, failed |-> {}]
      /\ UNCHANGED <<named, finished, fresh, aged, disk, store>>
  BY DEF Crash, Go, NoJob
<1>2. NameInv' /\ WriteInv' /\ NoSegmentIsLost' /\ StoredIsPlayable' /\ Cut' = Cut
  BY <1>1, FilesStay
<1>3. TypeOK' BY <1>1, <1>2 DEF IInv, TypeOK
<1>4. UploadInv' BY <1>1 DEF UploadInv
<1>5. StoreInv' BY <1>1, PurgeStays
<1>6. FinalInv' BY <1>1 DEF FinalInv
<1> QED BY <1>2, <1>3, <1>4, <1>5, <1>6 DEF IInv

LEMMA RestartStep == ASSUME IInv, Restart PROVE IInv'
<1>1. /\ pc = "killed" /\ pc' = "begin" /\ job' = job
      /\ UNCHANGED <<ffmpegVars, fresh, aged, disk, store, expired>>
  BY DEF Restart, Go
<1>2. job \in [files : SUBSET Times, final : BOOLEAN, failed : SUBSET Times]
  BY DEF IInv, TypeOK
<1>3. FinalInv' BY <1>1 DEF IInv, FinalInv
<1> QED BY <1>1, <1>2, <1>3, ThreadStep

-----------------------------------------------------------------------------
(* The theorems.                                                           *)

LEMMA InitIInv == ASSUME Init PROVE IInv
<1>1. Cut = {} /\ Last = 0 BY FS_EmptySet DEF Init, Cut, Last
<1>2. TypeOK BY <1>1 DEF Init, TypeOK, NoJob
<1>3. NameInv
  <2>1. 1..0 = {} OBVIOUS
  <2> QED BY <1>1, <2>1 DEF Init, NameInv
<1>4. WriteInv /\ UploadInv /\ StoreInv BY DEF Init, WriteInv, UploadInv, StoreInv
<1>5. FinalInv BY DEF Init, FinalInv, NoJob
<1>6. NoSegmentIsLost /\ StoredIsPlayable BY DEF Init, NoSegmentIsLost, StoredIsPlayable
<1> QED BY <1>2, <1>3, <1>4, <1>5, <1>6 DEF IInv

LEMMA NextIInv == ASSUME IInv, [Next]_vars PROVE IInv'
<1>1. CASE \E s \in Segments, n \in Times : Open(s, n) BY <1>1, OpenStep
<1>2. CASE Finish BY <1>2, FinishStep
<1>3. CASE Die BY <1>3, DieStep
<1>4. ASSUME NEW n \in Times, Settle(n) PROVE IInv' BY <1>4, QuietStep DEF Settle
<1>5. ASSUME NEW n \in Times, Age(n) PROVE IInv' BY <1>5, AgeStep
<1>6. CASE Upload
  BY <1>6, RecordStep, QuitStep, ScanStep, CheckStep, PutFailsStep, RemoveLocalStep, PutStep
  DEF Upload
<1>7. CASE List BY <1>7, ListStep
<1>8. CASE \E n \in Times : RemoveObject(n) BY <1>8, RemoveObjectStep
<1>9. CASE Shutdown BY <1>9, QuietStep DEF Shutdown
<1>10. CASE Crash BY <1>10, CrashStep
<1>11. CASE Restart BY <1>11, RestartStep
<1>12. CASE UNCHANGED vars BY <1>12, QuietStep DEF vars, faultVars
<1> QED
  BY <1>1, <1>2, <1>3, <1>4, <1>5, <1>6, <1>7, <1>8, <1>9, <1>10, <1>11, <1>12 DEF Next

THEOREM Invariance == Spec => []IInv
BY InitIInv, NextIInv, PTL DEF Spec

\* Every variable stays within its type.
THEOREM TypeCorrect == Spec => []TypeOK
<1>1. IInv => TypeOK BY DEF IInv
<1> QED BY <1>1, Invariance, PTL

\* No completed segment is lost, whatever is killed, fails or runs between the steps of the
\* upload.
THEOREM NoSegmentIsLostTheorem == Spec => []NoSegmentIsLost
<1>1. IInv => NoSegmentIsLost BY DEF IInv
<1> QED BY <1>1, Invariance, PTL

\* Nothing is stored that cannot be played.
THEOREM StoredIsPlayableTheorem == Spec => []StoredIsPlayable
<1>1. IInv => StoredIsPlayable BY DEF IInv
<1> QED BY <1>1, Invariance, PTL

\* A recorder that ends in order leaves only what it could not upload or remove.
THEOREM NothingIsLeftTheorem == Spec => []NothingIsLeft
<1>1. IInv => NothingIsLeft BY DEF IInv, FinalInv, NothingIsLeft
<1> QED BY <1>1, Invariance, PTL
=============================================================================
