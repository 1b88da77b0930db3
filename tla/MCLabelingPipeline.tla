------------------------- MODULE MCLabelingPipeline -------------------------
(* The pipeline from a first configuration with and without a test: the    *)
(* exclusions, the model and the loose settings are any of theirs, which   *)
(* are alike.                                                              *)
EXTENDS LabelingPipeline

CONSTANTS x, m, t, one

MCInit ==
  /\ LabelingInit
  /\ config \in [excluded : {x}, model : {m}, target : {t, Missing}, loose : {one}]

MCFairSpec == MCInit /\ [][LabelingNext]_pipelineVars /\ Fairness
=============================================================================
