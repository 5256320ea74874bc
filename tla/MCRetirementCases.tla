--------------------------- MODULE MCRetirementCases ---------------------------
(* RetirementCases with two jobs and two cases. *)
EXTENDS RetirementCases, TLC

Symmetry == Permutations(Employments) \cup Permutations(Cases)
=============================================================================
