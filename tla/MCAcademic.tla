----------------------------- MODULE MCAcademic -----------------------------
(* A small instance of Academic for TLC: a current year with a term and a  *)
(* cohort, a deleted class, two teachers of whom one has left, a class     *)
(* teacher, and an ended assignment to the same post.                      *)
EXTENDS Academic, TLC

CONSTANTS y1, t1, c1, c2, s1, k1, p1, p2, p3, h1, h2, a1, a2

UpperAndLower == "a" :> "a" @@ "A" :> "a" @@ "b" :> "b"
Full == [from |-> 1, to |-> 2]
DatesOrNone == Dates \cup {None}
Gone(x) == [x EXCEPT !.deleted = TRUE, !.version = 2]
Ended(x) == [x EXCEPT !.on = FALSE, !.version = 2]

SchoolRows ==
     y1 :> NewRow("year", {}, "a", TRUE, Full)
  @@ t1 :> NewRow("term", {y1}, "a", FALSE, Full)
  @@ c1 :> NewRow("class", {}, "a", FALSE, None)
  @@ c2 :> Gone(NewRow("class", {}, "A", FALSE, None))
  @@ s1 :> NewRow("subject", {}, "a", FALSE, None)
  @@ k1 :> NewRow("cohort", {y1, c1}, "a", FALSE, None)
  @@ p1 :> NewRow("person", {}, None, FALSE, None)
  @@ p2 :> NewRow("person", {}, None, FALSE, None)
  @@ p3 :> NewRow("person", {}, None, FALSE, None)
  @@ h1 :> NewRow("teacher", {p1}, "n1", FALSE, None)
  @@ h2 :> Gone(NewRow("teacher", {p2}, "n2", FALSE, None))
  @@ a1 :> NewRow("assignment", {h1, k1, y1}, "CLASS_TEACHER", TRUE, None)
  @@ a2 :> Ended(NewRow("assignment", {h2, k1, y1}, "CLASS_TEACHER", FALSE, None))

(* Bound: two of the three requests are any; the third one is made when    *)
(* all of them are for years, and none gives a year other dates.           *)
ForYear(x) == x.kind \in {"none", "year"} /\ x.val \in {None, Full}
OnlyYears == /\ \A i \in Ids : (i \in Seeds /\ row[i] = SeedRow[i]) \/ ForYear(row[i])
             /\ \A r \in Reqs : ForYear(loc[r].new)
IsThird(r) == pc[r] = "idle" /\ \A q \in Reqs \ {r} : pc[q] # "idle"

MCStep(r) == IF IsThird(r) THEN OnlyYears /\ Step(r) /\ OnlyYears' ELSE Step(r)
MCNext == \E r \in Reqs : MCStep(r)
MCSpec == Init /\ [][MCNext]_vars

Symmetry == Permutations(Reqs)
=============================================================================
