------------------------------ MODULE MCAccess ------------------------------
(* A small instance of AccessCatalog for TLC: one role of an organization  *)
(* that is edited with a permission every script knows, one that only      *)
(* sync_roles knows and one that only the application knows.               *)
EXTENDS AccessCatalog, TLC

ThreePicks == {<<"people", "person", "read">>, <<"academic", "cohort", "list">>,
               <<"platform", "outbox", "list">>}

Symmetry == Permutations(Jobs)
=============================================================================
