-------------------------- MODULE LabelingPipeline --------------------------
(***************************************************************************)
(* The labelling pipeline of auto_labeling: advance_local_pipeline goes as *)
(* far as it can through stages that leave directories and receipts in one *)
(* workspace, and is called again after people have filled in the session  *)
(* assignments and reviewed the labels.  A stage whose artefact is there   *)
(* is not repeated: the artefact is compared with what the run would make. *)
(*                                                                         *)
(* A run may stop between any two writes: an exception, a kill.  A write   *)
(* of one file, or of a directory moved to its place, is one step.  People *)
(* edit files while a run is going on.  One command runs at a time.        *)
(***************************************************************************)
EXTENDS Naturals, FiniteSets

CONSTANTS
  Plans,        \* completed assignments of the sessions to training, test or neither
  Leaking,      \* the plans whose test frames are near duplicates of training frames
  Exclusions,   \* lists of excluded frames
  Models,       \* prelabel models, with the image size and the pixelation
  Targets,      \* sizes of the fixed test; the default is to have none
  Loose,        \* the settings that no check compares or only sometimes does
  HumanLabels,  \* what a reviewer makes of the labels of a batch
  Accepted,     \* the labels that agree with the candidates on the sampled frames
  Candidates,   \* the labels the model proposes
  MaxEdits,     \* bound on what people change
  MaxStops,     \* bound on runs that stop
  Missing

Batches == {"main", "sampled", "fallback"}
Labels == HumanLabels \cup {Candidates}

\* The pixelation of the export is that of the candidates (_validate_local_config).
Configs == [excluded : Exclusions, model : Models, target : Targets \cup {Missing}, loose : Loose]

\* What the files hold.
Receipts == [labels : Labels, passed : BOOLEAN, order : 0..2]
Reviews == [labels : Labels, receipt : Receipts \cup {Missing}]
FrameSets == [excluded : Exclusions, loose : Loose]
Tests ==
  [labels : Labels \cup {Missing}, status : {"awaiting", "frozen"}, made : Models \cup {Missing},
   frozen : Labels \cup {Missing}, target : Targets, loose : Loose]
Datasets == [batch : Batches, receipt : Receipts, labels : Labels]
Exports == [of : Datasets, cover : Models, loose : Loose]
Zips == [of : Exports, receipt : BOOLEAN, tested : BOOLEAN]
States == [status : {"assignments", "review", "ready"}, config : Configs]

ASSUME LabelingAssumption ==
  /\ Leaking \subseteq Plans
  /\ Candidates \notin HumanLabels
  /\ Missing \notin Plans \cup Exclusions \cup Models \cup Targets \cup Labels
  /\ Missing \notin Receipts \cup Reviews \cup FrameSets \cup Tests \cup Datasets \cup Exports
  /\ Missing \notin Zips \cup States \cup Configs
  /\ MaxEdits \in Nat /\ MaxStops \in Nat

VARIABLES
  assignments, \* session_assignments.csv: a plan, Missing while a session lacks its role
  config,      \* the configuration the next run loads
  partition,   \* 02-partition: the plan it was made from
  frames,      \* 04-quality-runs: what it was made with, [excluded, loose]
  prelabel,    \* the candidates of the run: [at, model]
  review,      \* review/<batch>: [labels, receipt]
  test,        \* 05-fixed-test: [labels, status, made, frozen, target, loose]
  dataset,     \* 05-datasets: [batch, receipt, labels]
  export,      \* 06-colab-export: [of, cover, loose], the dataset and the settings
               \* it was made with
  zip,         \* 06-colab-export.zip: [of, receipt], and whether the run that made it
               \* had a test
  state,       \* pipeline-state.json: [status, config]
  stage,       \* the step of the command that runs
  work,        \* what it works with: [batch, cli, finish, config, labels]
  edits,
  stops,
  raced,       \* labels were edited between their check and their publication
  loosened     \* a setting that is not always compared was changed

humanVars == <<assignments, config, edits, loosened>>
labelVars == <<partition, frames, prelabel, review>>
testVars == <<test>>
outVars == <<dataset, export, zip, state>>
pipelineVars == <<humanVars, labelVars, testVars, outVars, stage, work, stops, raced>>

Works ==
  [batch : Batches, cli : BOOLEAN, finish : BOOLEAN, config : Configs \cup {Missing},
   labels : Labels \cup {Missing}]
NoWork == [batch |-> "main", cli |-> FALSE, finish |-> FALSE, config |-> Missing, labels |-> Missing]

Receipt(b) == review[b].receipt
Completed == {b \in Batches : review[b] # Missing /\ Receipt(b) # Missing}
\* verify_review_receipt
Holds(b) == Receipt(b) # Missing /\ review[b].labels = Receipt(b).labels

\* The command goes on, or ends without having written anything more.
Go(step) == stage' = step
Leave == stage' = "idle" /\ work' = NoWork
Stays == UNCHANGED <<humanVars, stops, raced>>

-----------------------------------------------------------------------------
(* The stages of advance_local_pipeline, in their order.                   *)

\* pipeline-local is called with or without --complete-review.
Start(finish) ==
  /\ stage = "idle"
  /\ work' = [NoWork EXCEPT !.finish = finish, !.config = config]
  /\ Go("inputs")
  /\ UNCHANGED <<humanVars, labelVars, testVars, outVars, stops, raced>>

\* _incomplete_assignment_sessions: the run waits for people.
CheckInputs ==
  /\ stage = "inputs"
  /\ IF assignments = Missing
     THEN Leave /\ state' = [status |-> "assignments", config |-> work.config]
     ELSE Go("partition") /\ UNCHANGED <<work, state>>
  /\ Stays /\ UNCHANGED <<labelVars, testVars, dataset, export, zip>>

\* partition_sessions
Partition ==
  /\ stage = "partition"
  /\ IF partition # Missing
     THEN UNCHANGED partition /\ Go("sessions") /\ UNCHANGED work
     ELSE IF assignments = Missing
     THEN UNCHANGED partition /\ Leave
     ELSE partition' = assignments /\ Go("sessions") /\ UNCHANGED work
  /\ Stays /\ UNCHANGED <<frames, prelabel, review, testVars, outVars>>

\* _verify_partition_contract
SessionsFit == partition = assignments

CheckPartition ==
  /\ stage = "sessions"
  /\ IF SessionsFit THEN Go("test") /\ UNCHANGED work ELSE Leave
  /\ Stays /\ UNCHANGED <<labelVars, testVars, outVars>>

\* The configuration of the run asks for a test.
Testing == work.config.target # Missing

\* sample_evaluation_frames: the labels of the test frames are empty at first.
Sampled ==
  [labels |-> Missing, status |-> "awaiting", made |-> Missing, frozen |-> Missing,
   target |-> work.config.target, loose |-> work.config.loose]

\* A run without a test goes on.  _verify_fixed_evaluation_set compares the size of a test
\* that is there, not the interval of its frames.
SampleTest ==
  /\ stage = "test"
  /\ \/ /\ ~Testing
        /\ Go("frames") /\ UNCHANGED <<test, work>>
     \/ /\ Testing /\ test = Missing
        /\ test' = Sampled /\ Go("test_labels") /\ UNCHANGED work
     \/ /\ Testing /\ test # Missing /\ UNCHANGED test
        /\ IF test.target = work.config.target THEN Go("test_labels") /\ UNCHANGED work ELSE Leave
  /\ Stays /\ UNCHANGED <<labelVars, outVars>>

\* Mutant of TestIsFrozen: the candidates of the test are looked after on every run.
NeverFrozen == FALSE

TestIsFrozen == test.frozen # Missing

\* Mutant of TestIsPrelabelled: the receipt of the candidates is not looked for.
NeverPrelabelled == FALSE

TestIsPrelabelled == test.made # Missing

\* prelabel_evaluation_set, unless the test is frozen.  All labels are predicted first
\* and then moved to their places.
LabelTest ==
  /\ stage = "test_labels"
  /\ IF TestIsFrozen
     THEN Go("frames") /\ UNCHANGED <<test, work>>
     ELSE IF test.status # "awaiting"
     THEN Leave /\ UNCHANGED test
     ELSE IF TestIsPrelabelled
     THEN /\ IF test.made = work.config.model THEN Go("frames") /\ UNCHANGED work ELSE Leave
          /\ UNCHANGED test
     ELSE Go("test_receipt") /\ test' = [test EXCEPT !.labels = Candidates] /\ UNCHANGED work
  /\ Stays /\ UNCHANGED <<labelVars, outVars>>

ReceiveTestLabels ==
  /\ stage = "test_receipt"
  /\ test' = [test EXCEPT !.made = work.config.model]
  /\ Go("frames")
  /\ Stays /\ UNCHANGED <<labelVars, outVars, work>>

\* Mutant of FramesFit: a run is taken over with other exclusions.
AnyFrames == TRUE

\* _verify_quality_run
FramesFit == frames.excluded = work.config.excluded

\* prepare_clean_source_run: the extracted frames depend on the partition alone.  The
\* numbers of frames are compared when they are configured, not when they no longer are.
CleanFrames ==
  /\ stage = "frames"
  /\ \/ /\ frames = Missing
        /\ frames' = [excluded |-> work.config.excluded, loose |-> work.config.loose]
        /\ Go("prelabel") /\ UNCHANGED work
     \/ /\ frames # Missing /\ FramesFit
        /\ Go("prelabel") /\ UNCHANGED <<frames, work>>
     \/ /\ frames # Missing /\ (~FramesFit \/ frames.loose # work.config.loose)
        /\ Leave /\ UNCHANGED frames
  /\ Stays /\ UNCHANGED <<partition, prelabel, review, testVars, outVars>>

\* _verify_existing_prelabel
ModelFits == prelabel.model = work.config.model

\* generate_candidate_labels: the labels, the predictions and their receipt come to
\* their places one after the other; labels or predictions without the receipt are an
\* error.
Prelabel ==
  /\ \/ /\ stage = "prelabel" /\ prelabel.at = "none"
        /\ prelabel' = [prelabel EXCEPT !.at = "labels"]
        /\ Go("predictions") /\ UNCHANGED work
     \/ /\ stage = "prelabel" /\ prelabel.at \in {"labels", "predictions"}
        /\ Leave /\ UNCHANGED prelabel
     \/ /\ stage = "prelabel" /\ prelabel.at = "receipt"
        /\ IF ModelFits THEN Go("review") /\ UNCHANGED work ELSE Leave
        /\ UNCHANGED prelabel
     \/ /\ stage = "predictions"
        /\ prelabel' = [prelabel EXCEPT !.at = "predictions"]
        /\ Go("prelabel_receipt") /\ UNCHANGED work
     \/ /\ stage = "prelabel_receipt"
        /\ prelabel' = [at |-> "receipt", model |-> work.config.model]
        /\ Go("review") /\ UNCHANGED work
  /\ Stays /\ UNCHANGED <<partition, frames, review, testVars, outVars>>

\* prepare_review
Prepared(b) ==
  IF review[b] # Missing THEN review
  ELSE [review EXCEPT ![b] = [labels |-> Candidates, receipt |-> Missing]]

\* Without a receipt the run waits for people, or goes on to complete the review.
PrepareReview ==
  /\ stage = "review"
  /\ review' = Prepared("main")
  /\ \/ /\ review'["main"].receipt # Missing
        /\ Go("verify") /\ UNCHANGED <<work, state>>
     \/ /\ review'["main"].receipt = Missing /\ work.finish
        /\ Go("hash") /\ UNCHANGED <<work, state>>
     \/ /\ review'["main"].receipt = Missing /\ ~work.finish
        /\ Leave /\ state' = [status |-> "review", config |-> work.config]
  /\ Stays /\ UNCHANGED <<partition, frames, prelabel, testVars, dataset, export, zip>>

-----------------------------------------------------------------------------
(* complete_review, by a run or by review-complete.                        *)

\* Where a run goes on once its review is complete; the command of its own ends.
Completes == IF work.cli THEN Leave ELSE Go("verify") /\ UNCHANGED work

\* _evaluate_sample_quality: only a batch that leaves frames to the model has a sample.
Passes(b) == b = "sampled" => review[b].labels \in Accepted

\* The labels are hashed, and a batch whose sample does not agree with the model gets a
\* batch of all frames beside it.
HashLabels ==
  LET b == work.batch IN
  /\ stage = "hash"
  /\ review' = IF Passes(b) THEN review ELSE Prepared("fallback")
  /\ work' = [work EXCEPT !.labels = review[b].labels]
  /\ Go("review_receipt")
  /\ Stays /\ UNCHANGED <<partition, frames, prelabel, testVars, outVars>>

\* A receipt that is there is compared, not replaced.  The gate was judged when the
\* labels were hashed.
ReceiveReview ==
  LET b == work.batch IN
  /\ stage = "review_receipt"
  /\ IF Receipt(b) # Missing
     THEN /\ IF Holds(b) THEN Completes ELSE Leave
          /\ UNCHANGED review
     ELSE /\ review' = [review EXCEPT ![b].receipt =
               [labels |-> work.labels, passed |-> b = "sampled" => work.labels \in Accepted,
                order |-> Cardinality(Completed)]]
          /\ Completes
  /\ Stays /\ UNCHANGED <<partition, frames, prelabel, testVars, outVars>>

-----------------------------------------------------------------------------
(* publish_dataset, export_deidentified_dataset                            *)

VerifyReview ==
  /\ stage = "verify"
  /\ IF Holds("main") THEN Go("select") /\ UNCHANGED work ELSE Leave
  /\ Stays /\ UNCHANGED <<labelVars, testVars, outVars>>

Publishable == {b \in Completed : Receipt(b).passed}

\* Mutant of ReceiptsHold: the receipts are not compared with the labels again.
ReceiptsTrusted == TRUE

ReceiptsHold == \A b \in Completed : Holds(b)

\* _select_publishable_review and _find_existing_publication: the batch completed last,
\* and no second publication of the same run.
Select ==
  /\ stage = "select"
  /\ IF ReceiptsHold /\ Publishable # {}
     THEN \E b \in Publishable :
            /\ \A c \in Publishable : Receipt(c).order <= Receipt(b).order
            /\ \/ /\ dataset = Missing
                  /\ Go("copy") /\ work' = [work EXCEPT !.batch = b]
               \/ /\ dataset # Missing /\ dataset.receipt = Receipt(b) /\ dataset.batch = b
                  /\ Go("export") /\ UNCHANGED work
               \/ /\ dataset # Missing /\ ~(dataset.receipt = Receipt(b) /\ dataset.batch = b)
                  /\ Leave
     ELSE Leave
  /\ raced' = (raced /\ dataset # Missing)
  /\ UNCHANGED <<humanVars, stops, labelVars, testVars, outVars>>

\* The labels of the batch are copied as they are now.
Publish ==
  LET b == work.batch IN
  /\ stage = "copy"
  /\ dataset' = [batch |-> b, receipt |-> Receipt(b), labels |-> review[b].labels]
  /\ Go("export")
  /\ Stays /\ UNCHANGED <<labelVars, testVars, export, zip, state, work>>

\* _verify_export_source: the dataset, not the settings.
ExportFits == export.of = dataset

Export ==
  /\ stage = "export"
  /\ export' = IF export # Missing THEN export
               ELSE [of |-> dataset, cover |-> work.config.model, loose |-> work.config.loose]
  /\ IF export = Missing \/ ExportFits THEN Go("freeze") /\ UNCHANGED work ELSE Leave
  /\ Stays /\ UNCHANGED <<labelVars, testVars, dataset, zip, state>>

-----------------------------------------------------------------------------
(* freeze_evaluation_set and create_dataset_archive                        *)

\* Mutant of Isolated: the test is frozen whatever the comparison says.
AlwaysIsolated == TRUE

\* verify_evaluation_isolation
Isolated == partition \notin Leaking

\* The labels are hashed and the images compared before anything is written; a run
\* without a test compares nothing.
FreezeTest ==
  /\ stage = "freeze"
  /\ \/ /\ ~Testing
        /\ Go("zip") /\ UNCHANGED work
     \/ /\ Testing /\ test.frozen # Missing
        /\ Go("frozen") /\ UNCHANGED work
     \/ /\ Testing /\ test.frozen = Missing /\ Isolated
        /\ Go("freeze_receipt") /\ work' = [work EXCEPT !.labels = test.labels]
     \/ /\ Testing /\ test.frozen = Missing /\ ~Isolated
        /\ Leave
  /\ Stays /\ UNCHANGED <<labelVars, testVars, outVars>>

\* The receipt comes before the status of the set.
MarkFrozen ==
  /\ \/ /\ stage = "freeze_receipt"
        /\ test' = [test EXCEPT !.frozen = work.labels]
        /\ Go("freeze_status")
     \/ /\ stage = "freeze_status"
        /\ test' = [test EXCEPT !.status = "frozen"]
        /\ Go("frozen")
  /\ Stays /\ UNCHANGED <<labelVars, outVars, work>>

\* verify_frozen_evaluation_set; the size was compared when the run began.
TestHolds == test.labels = test.frozen

CheckFrozen ==
  /\ stage = "frozen"
  /\ IF TestHolds THEN Go("zip") /\ UNCHANGED work ELSE Leave
  /\ Stays /\ UNCHANGED <<labelVars, testVars, outVars>>

\* The archive comes to its place before its receipt; one without the other is an error.
Archive ==
  /\ \/ /\ stage = "zip" /\ zip = Missing
        /\ zip' = [of |-> export, receipt |-> FALSE, tested |-> Testing]
        /\ Go("zip_receipt") /\ UNCHANGED work
     \/ /\ stage = "zip" /\ zip # Missing
        /\ IF zip.receipt /\ zip.of = export THEN Go("ready") /\ UNCHANGED work ELSE Leave
        /\ UNCHANGED zip
     \/ /\ stage = "zip_receipt"
        /\ zip' = [zip EXCEPT !.receipt = TRUE]
        /\ Go("ready") /\ UNCHANGED work
  /\ Stays /\ UNCHANGED <<labelVars, testVars, dataset, export, state>>

Ready ==
  /\ stage = "ready"
  /\ state' = [status |-> "ready", config |-> work.config]
  /\ Leave
  /\ Stays /\ UNCHANGED <<labelVars, testVars, dataset, export, zip>>

Advance ==
  \/ CheckInputs \/ Partition \/ CheckPartition
  \/ SampleTest \/ LabelTest \/ ReceiveTestLabels
  \/ CleanFrames \/ Prelabel \/ PrepareReview
  \/ HashLabels \/ ReceiveReview \/ VerifyReview
  \/ Select \/ Publish \/ Export
  \/ FreezeTest \/ MarkFrozen \/ CheckFrozen
  \/ Archive \/ Ready

\* The command stops between two steps; temporary directories are gone or ignored.
Stop ==
  /\ stage # "idle" /\ stops < MaxStops
  /\ stops' = stops + 1
  /\ Leave
  /\ UNCHANGED <<humanVars, labelVars, testVars, outVars, raced>>

-----------------------------------------------------------------------------
(* The commands beside the pipeline, and what people change.               *)

\* review-prepare with calibrations: a batch that leaves frames to the model.
PrepareSampled ==
  /\ stage = "idle" /\ prelabel.at = "receipt"
  /\ review' = Prepared("sampled")
  /\ UNCHANGED <<humanVars, partition, frames, prelabel, testVars, outVars, stage, work, stops, raced>>

\* review-complete, which verifies the batch first.
StartComplete(b) ==
  /\ stage = "idle" /\ review[b] # Missing
  /\ work' = [NoWork EXCEPT !.batch = b, !.cli = TRUE]
  /\ Go("hash")
  /\ UNCHANGED <<humanVars, labelVars, testVars, outVars, stops, raced>>

Edit == edits < MaxEdits /\ edits' = edits + 1

Assign(plan) ==
  /\ assignments # plan
  /\ IF assignments = Missing THEN UNCHANGED edits ELSE Edit
  /\ assignments' = plan
  /\ UNCHANGED <<config, loosened, labelVars, testVars, outVars, stage, work, stops, raced>>

\* One setting; several changes are several edits.
Configure ==
  /\ Edit
  /\ \/ /\ \/ \E x \in Exclusions \ {config.excluded} : config' = [config EXCEPT !.excluded = x]
           \/ \E m \in Models \ {config.model} : config' = [config EXCEPT !.model = m]
           \/ \E t \in (Targets \cup {Missing}) \ {config.target} :
                config' = [config EXCEPT !.target = t]
        /\ UNCHANGED loosened
     \/ /\ \E l \in Loose \ {config.loose} : config' = [config EXCEPT !.loose = l]
        /\ loosened' = TRUE
  /\ UNCHANGED <<assignments, labelVars, testVars, outVars, stage, work, stops, raced>>

EditLabels(b, labels) ==
  /\ review[b] # Missing /\ review[b].labels # labels /\ Edit
  /\ review' = [review EXCEPT ![b].labels = labels]
  /\ raced' = (raced \/ stage = "copy")
  /\ UNCHANGED <<assignments, config, loosened, partition, frames, prelabel, testVars, outVars, stage, work, stops>>

EditTest(labels) ==
  /\ test # Missing /\ test.labels # labels /\ Edit
  /\ test' = [test EXCEPT !.labels = labels]
  /\ UNCHANGED <<assignments, config, loosened, labelVars, outVars, stage, work, stops, raced>>

People ==
  \/ \E plan \in Plans \cup {Missing} : Assign(plan)
  \/ Configure
  \/ \E b \in Batches, labels \in HumanLabels : EditLabels(b, labels)
  \/ \E labels \in HumanLabels : EditTest(labels)

Commands ==
  \/ \E finish \in BOOLEAN : Start(finish)
  \/ PrepareSampled
  \/ \E b \in Batches : StartComplete(b)

LabelingInit ==
  /\ assignments = Missing
  /\ config \in Configs
  /\ partition = Missing /\ frames = Missing
  /\ prelabel = [at |-> "none", model |-> Missing]
  /\ review = [b \in Batches |-> Missing]
  /\ test = Missing
  /\ dataset = Missing /\ export = Missing /\ zip = Missing
  /\ state = Missing
  /\ stage = "idle" /\ work = NoWork
  /\ edits = 0 /\ stops = 0 /\ raced = FALSE /\ loosened = FALSE

LabelingNext == Advance \/ Stop \/ Commands \/ People

LabelingSpec == LabelingInit /\ [][LabelingNext]_pipelineVars

\* The operator starts the pipeline again, and tells it at last that the review is
\* complete, whatever other commands come between; the assignments are filled in; a
\* command that runs goes on unless it stops.
Fairness ==
  /\ WF_pipelineVars(Advance)
  /\ SF_pipelineVars(Start(TRUE))
  /\ WF_pipelineVars(assignments = Missing /\ \E plan \in Plans : Assign(plan))

FairSpec == LabelingSpec /\ Fairness

-----------------------------------------------------------------------------
(* Properties.                                                             *)

\* Every variable stays within its type.
TypeOK ==
  /\ assignments \in Plans \cup {Missing} /\ config \in Configs
  /\ partition \in Plans \cup {Missing} /\ frames \in FrameSets \cup {Missing}
  /\ prelabel \in [at : {"none", "labels", "predictions", "receipt"}, model : Models \cup {Missing}]
  /\ review \in [Batches -> Reviews \cup {Missing}] /\ test \in Tests \cup {Missing}
  /\ dataset \in Datasets \cup {Missing} /\ export \in Exports \cup {Missing}
  /\ zip \in Zips \cup {Missing} /\ state \in States \cup {Missing}
  /\ work \in Works
  /\ edits \in 0..MaxEdits /\ stops \in 0..MaxStops /\ raced \in BOOLEAN /\ loosened \in BOOLEAN

\* Nothing that may leave the machine exists before the checks: an archive, whole or not,
\* holds a dataset published from a review whose gate was passed, and if the run that made
\* it had a test, that test is frozen and apart from the training frames.  Without one, the
\* default, nothing is compared, and an archive made then stays when a later run with a
\* test finds that the two resemble each other.
ArchiveIsChecked ==
  zip # Missing =>
    /\ zip.of = export /\ export.of = dataset /\ dataset.receipt.passed
    /\ zip.tested => test.frozen # Missing /\ partition \notin Leaking

\* A dataset holds the labels its review receipt vouches for, unless they were edited
\* while they were copied.
PublishedAsReviewed ==
  dataset # Missing => raced \/ dataset.labels = dataset.receipt.labels

\* A workspace is reported ready by a run that would have made the same: frames,
\* candidates, export and test of another configuration are not taken over, whichever run
\* left them.  The settings that are not always compared, the interval of the test frames,
\* the numbers of frames, the operator and the policy of the export, are those of the run
\* only if nobody has ever changed them.
ReadyFitsItsRun ==
  state # Missing /\ state.status = "ready" =>
    LET c == state.config IN
    /\ frames.excluded = c.excluded /\ prelabel = [at |-> "receipt", model |-> c.model]
    /\ zip.of = export /\ export.of = dataset /\ export.cover = c.model
    /\ c.target # Missing =>
         test.target = c.target /\ test.frozen # Missing /\ partition \notin Leaking
    /\ ~loosened =>
         /\ frames.loose = c.loose /\ export.loose = c.loose
         /\ c.target # Missing => test.loose = c.loose

\* Once people have been asked to review, and a test is among what they were asked for, no
\* command changes the labels of the test.
ReviewedTestStays ==
  [][state # Missing /\ state.status \in {"review", "ready"} /\ state.config.target # Missing
       /\ test'.labels # test.labels => stage' = stage]_pipelineVars

\* What a stage has left with its receipt is never replaced, although every run looks for
\* it in one step and writes it in a later one: neither a partition, frames, candidates
\* and review receipts, nor what the test was made and frozen with, a dataset and what was
\* exported of it.
NothingIsReplaced ==
  [][/\ partition # Missing => partition' = partition
     /\ frames # Missing => frames' = frames
     /\ prelabel.at = "receipt" => prelabel' = prelabel
     /\ \A b \in Completed : b \in Completed' /\ review'[b].receipt = Receipt(b)
     /\ test # Missing => /\ test.made \in {Missing, test'.made}
                         /\ test.frozen \in {Missing, test'.frozen}
     /\ dataset # Missing => dataset' = dataset
     /\ export # Missing => export' = export
     /\ zip # Missing => zip'.of = zip.of]_pipelineVars

\* One stage without the other, which no run repairs: candidates without their receipt,
\* an archive without its own.
Half ==
  /\ stops > 0
  /\ prelabel.at \in {"labels", "predictions"} \/ (zip # Missing /\ ~zip.receipt)

\* The test that the configuration asks for is another one, or was changed, or resembles
\* the training frames.
TestChanged ==
  \/ test # Missing /\ test.target # config.target
  \/ test # Missing /\ test.frozen = Missing /\ test.made \notin {Missing, config.model}
  \/ test # Missing /\ test.frozen \notin {Missing, test.labels}
  \/ partition \in Leaking

\* What a run refuses because people changed it after it was used.
Changed ==
  \/ partition \notin {Missing, assignments}
  \/ frames \notin {Missing, [excluded |-> config.excluded, loose |-> config.loose]}
  \/ prelabel.model \notin {Missing, config.model}
  \/ config.target # Missing /\ TestChanged
  \/ ~ReceiptsHold
  \/ dataset # Missing /\ \E b \in Publishable : Receipt(b).order > dataset.receipt.order

\* However often it is stopped and started again, the pipeline gets its workspace
\* ready; the only ones it never gets ready are those that were changed under it or
\* left half done.
GetsReady == <>(state # Missing /\ state.status = "ready") \/ <>[](Half \/ Changed)
=============================================================================
