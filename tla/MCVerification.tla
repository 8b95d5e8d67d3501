--------------------------- MODULE MCVerification ---------------------------
EXTENDS Verification, TLC

CONSTANTS A, B, unit, two, three

(* The checklist of commit A asks for two checks; B has none.              *)
Strict == [id |-> unit, configurations |-> {Configuration}, minimum |-> 2]

MCChecklistIn == [t \in Trees |-> IF t = two THEN Strict ELSE Nothing]

MCCommitted == A :> two @@ B :> three

(* Of A: a pass, one over local changes, one of too few checks, and a      *)
(* partial one that was cut off.                                           *)
Pass == [status |-> "passed", passed |-> 2, failed |-> 0, unknown |-> 0,
         truncated |-> FALSE, commit |-> A, dirty |-> FALSE]

MCReports ==
  {Pass, [Pass EXCEPT !.dirty = TRUE],
   [Pass EXCEPT !.status = "partial", !.truncated = TRUE],
   [Pass EXCEPT !.passed = 1]}

Symmetry == Permutations(Calls)
=============================================================================
