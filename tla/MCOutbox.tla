------------------------------ MODULE MCOutbox ------------------------------
(* Small instances of OutboxDispatcher for TLC. *)
EXTENDS OutboxDispatcher, TLC

AllUsers == [e \in Events |-> Users]
=============================================================================
