------------------------------- MODULE MCAuth -------------------------------
(* Small instances of AuthSessions for TLC. *)
EXTENDS AuthSessions, TLC

Symmetry == Permutations(Reqs)
=============================================================================
