----------------------------- MODULE MCTimetable ----------------------------
(* Small instances of TimetableSlots for TLC. *)
EXTENDS TimetableSlots, TLC

Symmetry == Permutations(Reqs) \cup Permutations(Teachers) \cup Permutations(Names)
=============================================================================
