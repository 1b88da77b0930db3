------------------------ MODULE MCStudentMonitoring -------------------------
(* TLC instances of StudentMonitoring: who watches which seat, and which      *)
(* identifiers are interchangeable.                                           *)
EXTENDS StudentMonitoring, TLC

CONSTANTS c1, c2, A, B

\* Two cameras, one seat each.
SplitRoi == (c1 :> {A}) @@ (c2 :> {B})

\* With SplitRoi the cameras are interchangeable together with their seats.
Swap == (c1 :> c2) @@ (c2 :> c1) @@ (A :> B) @@ (B :> A)
Symmetry == Permutations(Events) \cup Permutations(Handlers)
SplitSymmetry == Symmetry \cup {Swap}
=============================================================================
