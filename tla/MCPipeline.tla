----------------------------- MODULE MCPipeline -----------------------------
(* TLC instances of Pipeline: which camera belongs to which lane. *)
EXTENDS Pipeline, TLC

CONSTANTS c1, c2, tracking, entry

\* Two classroom cameras in one lane.
OneLane == (c1 :> tracking) @@ (c2 :> tracking)
=============================================================================
