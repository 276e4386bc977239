----------------------------- MODULE MCTenancy ------------------------------
(* A small instance of Tenancy for TLC: platform staff u0 and an account   *)
(* u1 that is a member of organization o1 as a whole and of school s1.     *)
EXTENDS Tenancy, TLC

CONSTANTS u0, u1, u2, o1, o2, s1, s2, s3, ra, rb, rc, m1, m2

TwoOrgs == s1 :> o1 @@ s2 :> o1 @@ s3 :> o2
OneOfEach == ra :> o1 @@ rb :> None @@ rc :> None
AllNeed == [op \in Ops |-> IF op \in {"tenant", "user"} THEN "admin" ELSE "staff"]
TwoSeeds == m1 :> [user |-> u1, org |-> o1, school |-> None, role |-> rb]
         @@ m2 :> [user |-> u1, org |-> o1, school |-> s1, role |-> ra]
AllPerms == ra :> {"staff"} @@ rb :> {"admin"} @@ rc :> {"admin", "staff"}

Symmetry == Permutations(Reqs)
=============================================================================
