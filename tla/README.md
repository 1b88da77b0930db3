# Verification of classroom_monitoring

TLA+ models of the parts of classroom_monitoring in which several threads,
requests, cameras or runs of a command work on shared state, the TLC runs that
check them on small instances, and TLAPS proofs of their main safety properties
for every instance.

The system recognises a student's face at the entrance, hands that identity over
to the track of a person the classroom camera follows, maps the detections of
each frame to seats, and judges from that whether each student is `PRESENT`, at
the `WRONG_SEAT`, `IN_CLASSROOM`, `ABSENT` or `UNKNOWN`. Beside it a recorder keeps
the video of the cameras, and a labelling pipeline turns such video into training
data.

## 1. Inventory

### Worker process (`src/worker`)

| part | state | operations | what makes it correct |
|---|---|---|---|
| stream worker, `stream/worker.py` | one thread per camera, the shutdown event | read, sample, put into the lane's buffer; join all threads | a camera that is lost or fails does not stop the others; ending never waits for a consumer |
| camera reader, `stream/camera_reader.py` | IDLE, CONNECTED, RECONNECTING, FAILED, STOPPED; backoff | open, read, reconnect, close | a failed camera comes back, a stopped one stays stopped |
| frame buffer, `shared/frame_buffer.py` | latest frame per camera, line of waiting cameras, counters | `put`, `get_latest`, `close` | the dictionary and the line agree; a camera keeps its place; every frame is counted |
| consumer, `inference/consumer.py` | consecutive failures | take, infer, hand the result on | one failing frame does not end the lane |
| tracker, `inference/tracking.py` | tracks with a life cycle and a count of missed frames | `update`, transitions | the coordinator is told about every removed track |
| handover coordinator, `inference/identity_handover.py` | waiting faces and tracks, carried identities, door zone, recoveries, watermark | `observe_entry`, the four calls of a classroom frame, route refresh | one student, one track; an identity stays where it is; no match out of an ambiguous set; nothing survives its track |
| dispatcher, `inference/dispatch.py` | latest result per camera, line, interval per camera, counters | `__call__`, `_take`, send, `close` with a drain | order per camera, no starvation, nothing lost at the end, nothing uncounted |
| runner, `pipeline/runner.py`, `pipeline/main.py` | shutdown event, threads | start, then close and join in order with time limits | the process ends, even with a hung inference, and does not drop results it need not drop |
| result posting, `inference/handler.py`, `inference/face_identity.py` | attempt | post with a bounded number of retries | a failed post does not stop the lane; what the server acknowledged was done |

### Recorder process (`src/worker/recorder`)

| part | state | operations | what makes it correct |
|---|---|---|---|
| segmenter | an FFmpeg process, files named by the local time | start, restart, stop | an FFmpeg that died is started again, a stopped one completes its file |
| uploader | segment directory, objects in the store | scan, look, put, remove | no unfinished segment is stored, none is lost, the last one is not left |
| retention | objects | list, remove what is old | only what is old is removed |

### Server (`src/webapps/fastapi/app`)

| part | state | operations | what makes it correct |
|---|---|---|---|
| student monitoring, `student_monitoring/service.py` | stored events, student states, their history, `_last_seen` of held seats | `receive_inference_event`, listings, overlays, SSE | a judgement rests on frames; a newer frame wins; a duplicate event changes nothing; the history has no gaps |
| state rules, `student_monitoring/state_rules.py`, `occupancy_mapping.py` | none (pure) | map detections to seats, carry an identity, judge | an identity is carried for a bounded time; `ABSENT` needs an observed vacancy |
| seat batches, `classrooms/service.py` | seats with versions, batches, histories | `record_observation_batch` with claim, repair, retry; `update_seat`, `delete_seat` | a batch counts once and as a whole; a seat shows the newest observation on record; no lost update |
| seat assignments, `classrooms/service.py` | one student per seat, one seat per student | assign, unassign, delete in transactions | no student has two seats; none is left on a seat that is gone |
| seat migration, `classrooms/migration.py` | places of seats, snapshots, repair requests, audit trail | run, gate, restore, rollback, approved repair | a run that was cut short while it appended can be run again; a refused run leaves no trace; every place has an author |
| entry identity events | stored events, last detection of a stream | idempotent save, update of the stream, publish | a repeated post is harmless and repairs what failed |
| broadcaster, `shared/broadcaster.py` | a bounded queue per SSE subscriber | subscribe, publish, unsubscribe | no subscriber blocks or breaks another |
| face registration, `face_enrollment`, `face_embeddings` | sessions, profiles, images in memory, vectors, marks of students | create, process a frame, abort, register, withdraw | what a withdrawal is to delete can be found; one student's withdrawal does not close the recognition of all |
| ROI connections, handover routes, snapshots, students, video, question answering | records | one call per form or query | consistency of single records |

### Labelling pipeline (`src/deeplearning/training/auto_labeling`)

| part | state | operations | what makes it correct |
|---|---|---|---|
| `pipeline-local`, `review-prepare`, `review-complete` | one directory per stage with a receipt, the state file | go as far as possible, take over what is there after comparing it | nothing leaves the machine unchecked; what was reviewed is what is published; a stopped run can be resumed |

### Analysis server (`src/deeplearning/face_identification.py`)

| part | state | operations | what makes it correct |
|---|---|---|---|
| face recognition | gallery of the registered students, a tracker with evidence per camera | refresh, identify, readiness | evidence of one gallery is not used with another |

Outside: training, notebooks and experiments (`src/deeplearning`), a report script
(`src/RPAs`), static pages and deployment files.

### How they interact

    camera threads -> frame buffer -> consumer -> tracker + coordinator -> dispatcher -> HTTP
                                      (one lane for classroom cameras, one for entrances)
    HTTP -> request threads of the server -> student monitoring -> classrooms, stores
                                          -> entry events, streams     -> broadcaster -> SSE
    camera -> FFmpeg -> segment files -> uploader -> storage <- retention
    browser -> enrolment session -> images -> vectors, marks -> gallery of the analysis server

Both consumers call the one coordinator, call by call under its lock. A request
is a sequence of repository calls in a thread pool; only a seat batch and an
assignment are written in a transaction, and only `_last_seen` has a lock. An
event is posted again when its answer is late, so posts of the same event overlap.
The broadcaster's list is changed by the event loop while request threads walk it.

### Hard behaviours

* Locks are held per call, not per frame: an entry batch or a new set of routes
  comes between the tracker's update and the coordinator's removal of tracks.
* The two clocks of a handover are unrelated, and the watermark of one expires
  the records of the other.
* Queues replace, evict and close while others wait in them.
* Threads die: by an exception of the handler, by a join that timed out.
* The server reads states, judges, and writes them in separate calls, while
  other requests with newer or older frames do the same; any call may fail.
* Time-outs that depend on one another: a held seat feeds the identity that is
  held, which feeds the vacancy that makes a student absent.
* A seat batch is claimed, compared, written and completed in separate steps, and
  the version it compares can be put back by an edit.
* A transaction works on a snapshot: what it only reads may have changed.
* A migration writes seats, audit records and manifests one by one, and so does the
  restore that is to undo it; each may stop half way.
* Files and receipts are written one after the other, and the process may be
  killed between them; names are made of a clock that can be set back.
* What a client posts has microseconds, what the database gives back has
  milliseconds.

* A registration is spread over five stores that are written one after the other;
  the analysis server reads two of them in two queries.
* The lock of the gallery is released before the tracker is looked up.

Each is listed with its line under `hazards` in `PROJECT.json`.

## 2. Modules

| module | what it is |
|---|---|
| `IdentityHandover` | coordinator and life cycle of the classroom tracks |
| `CameraQueue` | the queue with one slot per camera that buffer and dispatcher share in form |
| `Pipeline` | all threads of the worker process around their two queues |
| `StateRules` | occupancy, held identities and judgement as operators |
| `StudentMonitoring` | concurrent requests that use these rules |
| `SeatLedger` | abstract: what the seats promise of observations |
| `SeatOccupancy` | the requests that record seat batches, edits and deletions; implements `SeatLedger` |
| `SeatAssignment` | assignments and deletions in overlapping transactions |
| `SeatMigration` | the offline migration that gives seats their places, its rollbacks and repairs |
| `Broadcaster` | the bus of the server's events |
| `EventDelivery` | posts with retries, the requests they become, and the bus (`INSTANCE Broadcaster`) |
| `Recorder` | FFmpeg, segment files, upload and retention of one camera |
| `LabelingPipeline` | the stages of the labelling workspace |
| `FaceRegistration` | enrolment sessions, their images, the face vectors and marks, withdrawal |
| `FaceRecognition` | the gallery and the trackers of the analysis server; extends `FaceRegistration` |
| `MC...` | values of the constants and symmetry for TLC |
| `FaceRecognitionProofs`, `IdentityHandoverProofs`, `PipelineProofs`, `RecorderProofs`, `SeatOccupancyProofs`, `StudentMonitoringProofs` | theorems about the module of that name and those it extends |
| `RequestProofs` | theorems about `EventDelivery`, with `Broadcaster`, and `SeatAssignment` |
| `OfflineProofs` | theorems about `SeatMigration` and `LabelingPipeline` |

### IdentityHandover

One route: an entrance camera, a classroom camera, a door zone. `pending`,
`consumedAt`, `active`, `unmatched`, `knownAt`, `inZone`, `recoveries` and
`watermark` are the fields of `_RouteState` and the maps beside it; `life` and
`missed` belong to the tracks of `tracking.py`. Actions: an entry batch
(`observe_entry`), then for a classroom frame its four steps in the order of
`ByteTrackResultHandler.__call__` (update with transitions, removal,
observation, observation of the shown tracks), and the route refresh, which
replaces the coordinator while the tracker goes on. A step of the model is a
section under the lock; `frame` says which step of a frame comes next. Where the
code looks at geometry the model lets any track be in the zone and any pair of a
lost and a new track be close.

### CameraQueue and Pipeline

`FrameBuffer` (per camera) and `AsyncResultDispatcher` keep the same two structures: a
dictionary of the latest item per camera and a line of the cameras that wait. A
put replaces the item of a camera that waits and leaves its place; a full queue
evicts the head. `Pipeline` has a program counter for each camera thread,
consumer, sender and for the main thread, and one action per step between two
locks. Closed queues, joins that time out (`late`), exceptions of the
processor, of the handler and of the sending handler, and cameras that die are
actions. A frame is its sequence number.

### StateRules and StudentMonitoring

`StateRules` has the two operations of `state_rules.py` as operators over one
classroom: which identity a seat or a student keeps, and the next record of a
student. `StudentMonitoring` runs them in handlers: `Receive` (with the
duplicate test), the save, the mapping under the lock of `_last_seen`, the seat
batch, the read of assignments and of the states, and one save and one history
entry per student. `Fail` and `Restart` may come at every step (`MayFail`), an
administrator moves students (`MayReassign`). Ghost state there is none: a
property looks for its evidence among the frames that were posted.

### SeatLedger and SeatOccupancy

`SeatLedger` is the promise: the batch of an event counts once (`Record`), for all
its seats together, and each seat takes it unless it shows something newer; of
two observations of one moment the earlier may be shown again (`Repeat`); an
edit may lose track of a seat (`Lose`).

`SeatOccupancy` is `record_observation_batch` as the code runs it: look the batch
up, read the seats, claim the batch, read the histories on record, repair the
seats that have one, commit the rest in one transaction that compares versions,
read again and retry on a difference, complete the batch. `pc` and `job` are the
local state of each request. `editing` is an administrator's `update_seat` or
`delete_seat`: a read and, later, a write of the whole document without a
comparison. `lost`, the one ghost variable, has the seats where such a write put
back an older document; the refinement maps them to `Lost`.

A transaction is one step. Transactions that write the same seat conflict, so
the only ones that could be told apart are those that read a seat without
writing it: an older observation that is not applied. Such a one can be placed
at its snapshot, where it is not applied either. An edit that sets
`is_active=False` leaves a seat no operation accepts any more, an edit included:
it can be neither reactivated nor deleted.

### SeatAssignment

Here the transactions are not one step: `Open` takes the snapshot, `Commit` fails
when a document it writes was written since (`written`), and what it only read
is not compared. Documents are seats, assignments and the unique index over
classroom and student. `Abort` is `_commit_with_retry`. An unassignment without
a check of the seat, edits and deletions are requests like assignments.

### SeatMigration

One classroom. A place is a row, in column 1, where the migration puts every seat;
`None` is a seat without place, `Partial` one with half of it. `job` is the
operation at work: a run appends the unplaced seats in the order of their codes,
one write and one audit record at a time, after it took a snapshot (`StartRun`,
`SavePayload`, `AppendPlace`, `SaveRecord`); `Gate` compares the seats with the
snapshot's simulation; a refusal and a rollback restore seats and assignments one
by one. `RepairSeat` gives a place that was asked for and approved. Administrators
edit, delete and assign seats between operations. `AppendFails` and `RecordFails`
lead to the restore, `Cut` ends an operation where it is. `base`, `halved` and
`manual` are ghosts: the seats when something other than a run (an administrator, a
repair, a seat written by a rollback) last changed them, whether since then a run was
stopped while it put its own seats back, and the places that neither a run nor a
repair gave. Runs never change `base`, whatever becomes of them. The creation of
seats, the checksum of a payload that nobody touches and the cutover gate are not
modelled: the gate is open.

`ResumedIsTheSame` has one exception, `halved`: with S1, S2 and S10 unplaced, the
append of S10 fails, the restore unplaces S1 and is killed or fails before it comes
to S2; the next run finds S2 in row 2 and puts S1 behind it, where a single run
gives it row 1.

The model also shows what no property calls wrong: the first approved request of
a seat hides every later one; a restore may meet the unique index when a seat
outside the snapshot has the place it restores; a manifest whose payload could not
be written is the one the default rollback picks, and fails on; and a student
assigned to a deleted seat makes every run fail at the gate.

### Broadcaster and EventDelivery

`Broadcaster` has `_subscribers` as a sequence and, for each publishing request,
its place in it: `publish` walks the list in a request thread, while `subscribe`
and `unsubscribe` change it in the event loop, so that an unsubscription moves
the rest under the walk and a subscriber can be skipped. A full queue drops the
event. `owed` is what `EveryoneIsTold` speaks of.

`EventDelivery` composes it with both ends of a post. The worker's lane posts one
event after the other, up to `MaxRetries` times more, and gives up an attempt
when its answer is late (`TimeOut`), while the request goes on in the server; so
attempts of one event overlap. A detection is published, looked up, stored,
entered in its stream and judged; an entry event is stored, entered and, when
it was new, published. `judges` says whether the camera judges seats: without a
classroom, or with another role, the judging is skipped. Whatever goes wrong in it
(a classroom or ROI that is missing, a failing batch or read) is logged, the request
goes on to its answer, and no retry makes up for it: `logged` has these detections.
A call that fails elsewhere ends the request. An odd time has a fraction of a millisecond, which
MongoDB does not keep (`Kept`). Overlay posts are one attempt without a retry
and are not modelled.

### Recorder

FFmpeg opens, completes and leaves files; their names are times of the local
clock, which may be set back. The camera's thread starts FFmpeg again, scans,
looks at each file, puts and removes it (`pc`, `job`); the main thread lists the
old objects and removes them. `Crash` and `Restart` may come between any two
steps; `Settle` is the passing of `stale_after_seconds`, which also happens to a
file that a hung FFmpeg still holds open. The model shows two things that no
property calls wrong: a file whose removal fails is uploaded again in every
cycle, which makes its object young again, and a file that cannot be played is
never removed. An FFmpeg that outlives a killed recorder is not modelled. An object is put
whole or not at all, as in S3; `LocalObjectStorage.put_object`, for development
only, copies the file in place and could leave a part of it, which is not modelled.

### LabelingPipeline

A variable per stage of the workspace: the partition, the extracted frames, the
candidates, the review batches with their receipts, the fixed test, the dataset,
the export, the archive and the state file. An action is one write of a file or
one move of a directory, in the order of `advance_local_pipeline`; `work` is what
a run keeps in memory, its configuration included. A stage that is there is
compared with what the run would make. People fill in and change assignments,
configuration and labels at any time (`People`), `review-prepare` and
`review-complete` are commands of their own, and `Stop` ends a command between
any two writes. `raced` marks a label edited between its check and its copy.

A configuration has four parts. `excluded` and `model` are compared wherever a
stage is taken over; `model` stands for the weights, the image size and the
pixelation, which is also that of the export: `_validate_local_config` insists
that both are the same, so that an export, whose receipt names its source only,
is covered as configured because the candidates are. `target` is the size of the
test, and `Missing` the default: such a run samples, labels and freezes no test
and compares nothing before it makes the archive. `loose` stands for what is not
always compared: the interval of the test's frames, the operator and the policy
of the export, and the numbers of training frames, which are compared when they
are configured but not after they were taken out. `loosened` marks that one was
changed: `ReadyFitsItsRun` says of these settings only that they are those of the run
while nobody has changed one; afterwards a run may take over a test or an export made
with other ones. `force_full_review` is on. The commands `scan`, `publish` and
`export-colab`, used outside such a workspace, are not in the model. A
file's content is a hash in the code and a model value here. The video scan,
which compares names only, is not in the model, nor is the content of a
replaced video, which no stage compares.

### FaceRegistration and FaceRecognition

A variable per store: `sessions`, `profiles`, `owner` and `images` (the image
store in memory, which every environment but a developer's uses), `vectors` (the
collection of the model in use) and `flags` (the mark on a student, with the
session it came from). An action is one call of a store. `process_frame` and a
broken connection run on the event loop (`Loop`), one at a time; creations,
aborts, registrations and withdrawals in `Threads`. `Store` and `Validate` write
the session as it was read, and insert it when it is gone; `Finalize` falls back
to the abortion. `Expire` is the TTL index; no request takes the hour it needs.
`Fail` ends a request at any call, `Restart` loses requests and images.
`known` has the students there are. `CreateStudent` makes one, under a new uuid that
nothing refers to (`NewStudent`), and with the mark when the request names a session,
which the code does not look up. Sessions, profiles and withdrawals need no student
of that id; a registration does. `contested`, a ghost, has the students whose
registration met their withdrawal and is cleared by the next one of either that is
undisturbed; `admitted`, another, those created with a mark who still have one and
have had no vector.

`FaceRecognition` adds the gallery: `Refresh` and `Load` are the two queries
under the lock, with the fallback to "unavailable" when a marked student has no
vector, `Match` the look-up of the tracker outside it. The readiness probe runs
the same refresh in another thread.

The model also shows, without a property about it, that two creations which
both find no active session make two. What the analyzer makes of an image is a
choice; the local disk store of a developer's environment, and vectors of a model
that is not in use, are not modelled.

## 3. Runs

| run | what it asks | result |
|---|---|---|
| `identity_handover` | `OneTrackPerStudent`, `CarriedDoesNotWait`, `RemovedTracksAreForgotten`, `IdentityIsLocked`; `OnlyRemovalStrandsAPair`: a lone viable pair stays unmatched only after the removal of a track | holds |
| `student_monitoring` | with races, failures and restarts: `IdentityHasSource`, `AbsentSawAnEmptySeat`, `OccupiedHasSource`, `OnlyStaleReadsGoBack` | holds |
| `student_sequential` | one request at a time: `HistoryChains` | holds |
| `pipeline` | with two cameras in a full lane: `FramesInOrder`, `NothingUncounted`, `FirstComeFirstServed`; `WaitingIsServed` | holds |
| `pipeline_fair` | `NoResultLostAtTheEnd`, `ShutdownFinishes` with two lanes | holds |
| `seat_occupancy` | `BatchIsWhole`, `CurrentIsOnRecord`, `NewestIsShown`, and the refinement `ImplementsLedger` | holds |
| `seat_assignment` | `OneSeatPerStudent`; `OrphansOnlyFromOverlap`: a student is left on a deleted seat only when assignment and deletion overlap | holds |
| `seat_migration` | `ResumedIsTheSame`, `RestoredIsAsBefore`, `AuditMissesOnlyFaults` | holds |
| `event_delivery` | `AckedIsEntered`, `AckedIsJudged`: what the worker was told is done, or in the log; `EveryoneIsTold` | holds |
| `recorder` | `NoSegmentIsLost`, `StoredIsPlayable`, `NothingIsLeft`; `EveryFinishedIsStored` | holds |
| `labeling` | `ArchiveIsChecked`, `PublishedAsReviewed`, `ReadyFitsItsRun`, `ReviewedTestStays`; `GetsReady` | holds |
| `face_recognition` | `RecognitionStaysOpen`, `NoImageIsForgotten`, `TrackersUseTheGallery` | holds |

`QueuesConsistent` (dictionary and line of each queue agree), `OnlyOrphansBlock` (the
gate refuses a run for nothing the run did) and `NothingIsReplaced` (what a stage has
finished is never made again) are in no run: they are proved for every instance.

### Bounds

* `identity_handover`: two students, faces and tracks are what it takes for an
  ambiguous set and for an identity that could go to the wrong track; two track
  ids also allow the move from a lost track to a new one, and a removal with
  another track waiting. Times 0, 2 and 4 lie within, at and beyond
  `MaxDelay = 2`, `Stale = 3` and `Retention = 2`. `TrackBuffer = 1` makes a
  track miss, be found and be removed within the frames these times allow.
* `student_monitoring`, `student_sequential`: two events at a time are a race, a
  third lets a race meet an older state; three posts of two events contain a
  retry. Holds and grace are 1, times 0 to 2, so every window is met, at its end
  and exceeded. Two cameras with a seat each give wrong seats and the judgement
  by a camera that does not watch the seat.
* `pipeline`: two cameras are a line that can be out of order. `BufferSize = 1` makes
  a second camera evict the first, `QueueSize = 2` a line in which a result waits
  behind one whose camera rests, and `MaxFrames = 2` lets a camera replace what waits,
  a later frame overtake it in the dispatcher, and a camera be sent a second time, so
  that its interval has to be waited out. Frames without end would add that a fast
  camera pushes a slow one back for ever: that it cannot push it back at all is
  `FirstComeFirstServed`, which is proved. `MaxFailures = 2` lets one failed inference
  pass and has the second in a row end the process.
* `pipeline_fair`: `MaxFrames = 1` and `MaxFailures = 1`, with two lanes: the end of
  the process is about threads that hang, time out and come back late, in each
  lane, and not about many frames.
* `seat_occupancy`: two seats make a batch that could be half written, two events
  of equal or different times an older and a newer batch, three requests a
  post, its retry and a rival, `RetryLimit = 2` a retry that succeeds and one that
  is refused; one edit meets any step of them.
* `seat_assignment`: two seats and two students let moves cross; three requests
  are two overlapping transactions and an edit. `RetryLimit = 2`.
* `seat_migration`: three seats are one that keeps its place, one that lost it and
  one whose code sorts differently as text (S10 before S2); the second may also be
  gone or half placed at the start and has the student. Two runs make a run that
  resumes another; two faults are an append that fails and a restore that is broken
  off, which is the exception of `ResumedIsTheSame`; one change and one approval,
  each at any step, are what a violation of the other properties takes.
* `event_delivery`: one event of each kind, or two of one; one retry makes two
  attempts that overlap; one failure outside the judging, and the judging may always
  go wrong. The camera judges seats or not; where it does not there are no screens,
  which the judging does not touch (`MCEventDelivery`). Times 2 and 5 are one that the database
  keeps and one it does not. Two subscribers with room for one event: one is
  full while the other is told, and one leaves before the other in the list.
* `recorder`: two segments are a file that is written and one that waits; two
  names and one setback make a name that comes again; one kill.
* `labeling`: two plans of which one leaks, two values of each setting, no test
  or one of two sizes, two labels of which the sample accepts one; the first
  configuration, with a test or without, has one value of each other setting,
  since the values are alike. One edit and one stop, each at any
  step. A second edit or stop adds nothing the first run did not leave behind:
  each stage compares with the present configuration only.
* `face_recognition`: two students are one whose withdrawal closes the other's
  recognition and two galleries that differ; two sessions a profile and the one
  that replaces it; two poses with a quota of one and two required images a
  session that is not complete, one that is, and a pose that is full. Two vectors
  are a registration and a second one. It starts either without sessions, with
  one request beside the event loop, or with each student enrolled, some of them
  created with a mark, with two requests, the probe and the identification of one
  camera: the properties of
  the first part are about sessions and images, of the second about vectors,
  marks and galleries, which do not write each other's stores but for a
  withdrawal, which is in both.
* The bounds are guards (`Times`, `NumTracks`, `MaxPosts`, `MaxFrames`,
  `MaxEdits`, ...), never state constraints. Behaviours end where a bound is used
  up, so the runs do not ask for deadlocks; that threads do not wait on one
  another for ever is asked by the liveness properties.
* Symmetry is used in safety runs only; the cameras are swapped together with
  their seats.

### Fairness

* `Pipeline`, `EndingFairness`: the main thread and the camera threads get on.
  These neither wait for a lock that is held for long nor for one another
  without a time limit, except the join of camera threads, which themselves only
  wait for their camera (whose reads have a time-out). Consumers and senders
  have no fairness here: an inference or a post may hang, and `ShutdownFinishes`
  must hold nevertheless, because their joins have limits. `WorkFairness` adds
  that inference and sending return and that intervals pass; `WorkingSpec` has
  both, for `WaitingIsServed`; it reaches the same states as `Spec`, in which the
  invariants of that run are checked.
* `Recorder`, `FairSpec`: the camera's thread gets on, a killed recorder is
  started again (its container restarts it), files nobody writes get older, and
  the storage, which may refuse any number of puts, accepts each again at last:
  strong fairness of `Put(n)`. FFmpeg has no fairness: it may hang for ever.
* `LabelingPipeline`, `Fairness`: a command that runs gets on; the operator calls
  `pipeline-local --complete-review` again and again, although other commands
  come between (strong fairness of `Start(TRUE)`), and fills in assignments that
  are missing.

## 4. Proofs

Proved by TLAPS, for any numbers of cameras, lanes, students, faces, tracks,
seats, events, requests and times, from the named assumptions on the constants
alone:

* `IdentityHandoverProofs`: `TypeCorrect`, `IdentityIsUnique`,
  `CarriedIsSettled`, `IdentityStaysLocked`, `RemovedAreForgotten`,
  `StrandedByRemovalOnly`. The inductive invariant is
  `TypeOK /\ Consistent(pending, active, unmatched) /\ UnbornUnknown`.
  `OneTrackPerStudent` is not inductive: a match adds an identity to a track,
  and that neither has one already follows only from what is waiting being
  disjoint from what is carried (`CarriedDoesNotWait`) and from a student
  and a track waiting once. `Consistent` joins the three; `UnbornUnknown` says
  that the coordinator knows nothing of a track id the tracker has not used,
  so that a new track finds no old record. Each helper (expiry, match, moved
  carriers) has a lemma that it preserves `Consistent`, and each action cites
  the lemmas of the calls it makes. `ForgetInv` adds the steps of a frame: what the
  coordinator has on record (`Recorded`) and the tracks that are gone meet only in
  those the coordinator is about to be told of, a frame shows none that is gone, and
  without routes there is no record. `StrandedByRemovalOnly` follows action by
  action: whatever adds a face or a track, or lets some expire, tries the match
  afterwards, and a match that finds exactly one pair takes it.
* `PipelineProofs`: `TypeCorrect`, `QueuesStayConsistent`, `LineIsFair`,
  `NothingIsLostAtTheEnd`, `FramesStayInOrder`, `EverythingIsCounted`. Lemmas about
  `CameraQueue` come first: each operation on the queue keeps dictionary and line
  in agreement, the size within the bound, and does not swap two cameras.
  `IInv` joins the types, split by thread so that an action disturbs
  few of them, with the consistency of both queues and with the fact that a lane
  only handles frames of its own cameras, which the order of frames needs:
  `delivered` is kept per camera and two lanes do not exclude one another.
  `FramesInOrder` follows from a chain: what was delivered, what is being
  sent, what waits for it, what is inferred on, what waits in the buffer and
  what was captured are in increasing order (`Stages`, `Advances`).
  `NoResultLostAtTheEnd` needs `EndInv`, which relates the phase of the main
  thread to which buffers and dispatchers are closed and which
  threads are gone. The counters need sums (`FramesAddUp`, `ResultsAddUp`).
* `SeatOccupancyProofs`: `TypeCorrect`, `BatchIsAlwaysWhole`,
  `CurrentIsAlwaysOnRecord`, `NewestIsAlwaysShown`, and the refinement
  `LedgerIsImplemented` (`Spec => Ledger!Spec`).
  The three invariants together are not inductive, since a request acts on what
  it read earlier. `IInv` adds what a request's memory is worth: `Good` relates the
  documents it read to the present ones and `Claimed` its step to the batch
  record; `Copied` does the same for an edit. The argument is that of
  optimistic locking: on a seat no edit has put back, a version stands for one
  occupancy (`Fresh`), so a document that is equal in version is equal in what
  it shows, and the history built from it judges rightly. On the others
  (`lost`) nothing is claimed but that what they show is on record. For the
  refinement each step maps to a `Record`, a `Repeat`, a `Lose` or a stutter.
* `RequestProofs`, the assignments: `AssignmentTypes`, `OneSeatAlways`,
  `OrphansOnlyFromOverlapAlways`. `AssignmentInv` adds for each open transaction what its
  snapshot is still worth: `Sees` says that an assignment not in `written` is as in
  the snapshot, and that a student whose index entry was not written has got no
  other seat; `Finds` that the seat of an assignment is still there unless it
  was written. A commit without conflict then acts on what it thinks it acts on,
  as far as it writes it.
* `RequestProofs`, the posts: `DeliveryInvariance`, `EveryoneIsToldAlways`,
  `AckedIsEnteredAlways`, `AckedIsJudgedAlways`. An acknowledgement is one attempt's,
  and what it vouches for may have been done by another; so `DeliveryInv` speaks of
  every attempt: a request that is past a write finds it written (`Entered`,
  `Detected`), a time that is stored is tried to be judged (`Tried`: judged, logged, or no
  business of the camera) or some request that found it new has yet to judge it or
  failed (`Followed`), and no request runs for an attempt the lane
  has not made (`Made`), which keeps a late one from being taken for a new one.
  `BusInv`: whom a walk still owes the event sits at or behind the place it has come to.
* `OfflineProofs`, the migration: `ResumedIsTheSameTheorem`, `RestoredIsAsBeforeTheorem`,
  `OnlyOrphansBlockTheorem`, `AuditMissesOnlyFaultsTheorem`. The heart is the lemma
  `Continuation`: to place the first unplaced seat and simulate the rest gives what
  simulating all of them gives, so `Simulate(seats)` does not change while a run
  appends (`SimInv`), and a run that starts in the middle has the same end. A run
  that is stopped on its way back is at its snapshot's end or at its beginning
  (`BrokenOff`), or it is `halved`, which is all that the theorem exempts. The
  invariant places a run between its snapshot and that end, and a restore between
  the present seats and the snapshot; that the run's own places pass the gate
  follows from the ordinals being distinct and above every row that is taken. The
  audit theorem counts: a fault enlarges the set of places without a record by at
  most the seat at work.
* `OfflineProofs`, the labelling: `LabelingInvariance`, `ArchiveIsCheckedAlways`,
  `PublishedAsReviewedAlways`, `ReadyFitsItsRunAlways`, `ReviewedTestStaysAlways`,
  `NothingIsReplacedAlways`.
  `PipelineInv` says for each step of a run what it relies on (`RunAt`, `ReviewAt`):
  from a stage on the partition is there, the test, if the run has one, has its
  candidates or is frozen, the frames and the candidates are those of the run's own
  configuration, the export is of the dataset and of these candidates' model, the plan
  does not leak. The stages form a chain, so each step has to
  add one fact and keep the others, and people may change everything but these
  between any two steps. `TestInv`, `OutInv` and `StateInv` say the same of the
  artefacts when nobody is at work, which is what a run finds that takes over after a
  stop. `ReadyFitsItsRun` needs the comparisons that the code makes with the stages it
  takes over: without `FramesFit` or `ModelFits` the invariant fails at the stage.
  `LooseInv` carries the settings that are not always compared from the run to what it
  writes.
  `NothingIsReplaced` rests on the facts that a step which writes keeps from the step
  that looked: at `test_receipt` the test still has no receipt, at `copy` there is no
  dataset yet. Nothing locks the workspace; they last because what people edit is never
  a receipt, and one command runs at a time.
* `FaceRecognitionProofs`: `FaceInvariance`, `OpenTheorem`, `ImagesTheorem`,
  `TrackersTheorem`. `SessionsInv` says what a request may rely on between its calls:
  a session that is being created belongs to the request that creates it and to
  nobody else, the images of an aborted one have no owner, and what became a profile
  collects no more frames, although `Store` and `Validate` write back a session they
  read before. `OpenInv` relates marks and vectors through the requests that are
  between the two, `contested` and `admitted`; `GalleryInv` what the trackers know to what was
  fetched. `ImagesTheorem` goes through the steps that drop the last reference.
  The proof showed that the model let a frame or an abort reach a session whose
  creation was not answered yet, which nobody can address by its uuid; `Addressed`
  is the guard.
* `RecorderProofs`: `TypeCorrect`, `NoSegmentIsLostTheorem`,
  `StoredIsPlayableTheorem`, `NothingIsLeftTheorem`. The invariant says of each file
  name what it may hold (`Repeated` is the escape for a name the clock gave twice),
  what the thread that looked at a file still knows of it, that a file is removed
  only after it was stored, that retention lists old objects only, and what the last
  upload has still to do when FFmpeg was stopped.
* `StudentMonitoringProofs`: `TypeCorrect`, `IdentityHasSourceTheorem`,
  `AbsentSawAnEmptySeatTheorem`, `OccupiedHasSourceTheorem`,
  `OnlyStaleReadsGoBackTheorem`, `HistoryChainsTheorem`. `Sourced` says of a record what its evidence among
  the stored frames is, `SeatSource` the same of a seat that is held. Both stay true
  because frames never change and events stay stored (`SourcesStay`), hence also of
  what a handler read long ago (`JobInv`). `DecideSourced`, the main lemma, goes
  through the cases of a judgement: each rests on the frame at hand or passes on the
  evidence of the record before it. Nothing depends on the number of handlers.
  `HistoryChainsTheorem` alone assumes that the one handler runs to its end
  (`RunsToItsEnd`), as the property is false otherwise; `AloneInv` counts entries and
  departures of each state, and one more transition (`OneMoreMove`) changes both ends.

Every safety property and every action property of the runs is proved. Checked by
TLC only are the liveness properties, `ShutdownFinishes`, `WaitingIsServed`,
`EveryFinishedIsStored` and `GetsReady`: fairness and `ENABLED` are out of the
prover's reach.

## 5. Findings

`PROJECT.json` quotes the lines of the code and of the comments and documents
they contradict. Where the run is one that passes, its property carries an
exception, and the finding is why it is there.

* After the removal of one of several waiting tracks a single viable pair
  stays unmatched until something else happens (`OnlyRemovalStrandsAPair`).
* A handler that read the states before a newer frame was judged writes its
  older judgement over the newer one (`OnlyStaleReadsGoBack`).
* The start of a vacancy survives a change of the assigned seat, so a student
  is absent at the first frame that sees the new seat empty
  (`AbsentSawAnEmptySeat`).
* A seat seen for certain while it was held is not remembered
  (`OccupiedHasSource`).
* An exception of the result handler ends the consumer and nothing else
  (`WaitingIsServed`).
* An edit of a seat puts back an older document with its version, after which
  an older observation replaces a newer one (`NewestIsShown`).
* A student stays assigned to a deleted seat when assignment and deletion
  overlap (`OrphansOnlyFromOverlap`).
* A rollback leaves seats that its snapshot does not have, and reports success
  (`RestoredIsAsBefore`).
* An archive made by a run without a test stays when a later run with one finds
  that it resembles the training frames (`ArchiveIsChecked`).
* A labelling run stopped between a file and its receipt leaves a workspace
  that no later run accepts (`GetsReady`).
* A label saved between the check of the review and the copy is published under
  a receipt that does not vouch for it (`PublishedAsReviewed`).
* A segment recorded after the clock was set back takes the name of an earlier
  one and overwrites it (`NoSegmentIsLost`).
* The retry of a detection whose time has a fraction of a millisecond is refused
  as a conflict (`AckedIsJudged`).
* So is the retry of an entry event, which is then never entered in its stream
  when the first attempt failed there (`AckedIsEntered`).

* A withdrawal that breaks off between the vector and the mark, or that meets a
  registration of the same student, leaves a mark without a vector, which closes
  the recognition of every student (`RecognitionStaysOpen`).
* A student created with the id of a session is marked as registered without a
  vector, with the same effect, until a registration or a withdrawal
  (`RecognitionStaysOpen`).
* An identification that fetched a gallery before a swap makes its camera's
  tracker with it afterwards, and the tracker stays (`TrackersUseTheGallery`).
* Images stay after an abort that meets a frame, and after a second registration
  replaced the profile (`NoImageIsForgotten`).

## 6. Plan

1. An abstract handover, a set of pairs that grow and expire but never change,
   implemented by `IdentityHandover`.
2. `CameraReader` and its thread with reconnection, composed with the shutdown
   of `Pipeline`; the shared-queue mode of the buffer.

### Not modelled

Most of the repository's lines have no state that several steps share, and a
model of them would restate them: geometry and numerical work (Kalman filter,
homography, polygons, embeddings, calibration), drawing, model calls, training,
evaluation, experiments and notebooks; forms, listings, request and response
schemas and the wiring of dependencies; the language model's queries, which
change nothing; the report script; the pages of the user interface; deployment.
The modelled parts take from them what they are given: which tracks are close,
which seat a polygon covers, which labels agree.
