---------------------------- MODULE MCEnrollments ---------------------------
(* Small instances of Enrollments for TLC. *)
EXTENDS Enrollments, TLC

Symmetry == Permutations(Reqs) \cup Permutations(Students) \cup Permutations(Cohorts)
=============================================================================
