---------------------------- MODULE MCAttendance ----------------------------
(* Small instances of Attendance for TLC. *)
EXTENDS Attendance, TLC

Symmetry == Permutations(Reqs) \cup Permutations(Students)
=============================================================================
