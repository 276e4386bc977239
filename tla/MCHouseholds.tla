---------------------------- MODULE MCHouseholds ----------------------------
(* A small instance of Households for TLC: a student with an address, a    *)
(* contact and three guardians of whom one is primary; a parent that is    *)
(* linked to the student, and a deleted one that is, too.                  *)
EXTENDS Households, TLC

CONSTANTS p1, p2, p3, p4, a1, c1, s1, s2, g1, g2, g3, q1, q2, l1, l2

AnyRecord == Seeds \cup Reqs \cup {None}
Gone(x) == [x EXCEPT !.deleted = TRUE, !.version = 2]

HouseholdRows ==
     p1 :> NewRow("person", {a1}, None, FALSE, None)
  @@ p2 :> NewRow("person", {}, None, FALSE, None)
  @@ p3 :> NewRow("person", {}, None, FALSE, None)
  @@ p4 :> NewRow("person", {}, None, FALSE, None)
  @@ a1 :> NewRow("address", {p1}, None, FALSE, None)
  @@ c1 :> NewRow("contact", {p1}, "phone", FALSE, None)
  @@ s1 :> NewRow("student", {p1}, "n1", FALSE, None)
  @@ s2 :> Gone(NewRow("student", {p4}, "n2", FALSE, None))
  @@ g1 :> NewRow("guardian", {s1, p2}, None, TRUE, None)
  @@ g2 :> NewRow("guardian", {s1, p3}, None, FALSE, None)
  @@ g3 :> NewRow("guardian", {s1, p4}, None, FALSE, None)
  @@ q1 :> NewRow("parent", {p2}, None, FALSE, None)
  @@ q2 :> Gone(NewRow("parent", {p3}, None, FALSE, None))
  @@ l1 :> NewRow("link", {s1, q1}, None, FALSE, None)
  @@ l2 :> NewRow("link", {s1, q2}, None, FALSE, None)

Symmetry == Permutations(Reqs)
=============================================================================
