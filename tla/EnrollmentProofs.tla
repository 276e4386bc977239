-------------------------- MODULE EnrollmentProofs --------------------------
(***************************************************************************)
(* Proofs about Enrollments for any number of requests, students, cohorts  *)
(* and roll numbers.                                                       *)
(*                                                                         *)
(* A commit decides by the row its request loaded earlier.  HeldAt says    *)
(* what the version column makes of that: a version that still matches is  *)
(* the very row that was loaded, and a request that has written no longer  *)
(* matches.  MadeInv says that a row exists only once the request that     *)
(* makes it has ended, so that versions of a held row only grow.           *)
(***************************************************************************)
EXTENDS Enrollments, TLAPS

Holding == {"update", "transfer", "delete"}
LoadedLocal(e, new) == [id |-> e, row |-> enr[e], new |-> new]
Creating == {"create_roll", "create_commit"}

HeldAt(q) ==
  loc[q].id # None =>
    /\ loc[q].id \in Reqs => pc[loc[q].id] = "done"
    /\ loc[q].row.status \in Status
    /\ Exists(loc[q].id) => loc[q].row.version <= enr[loc[q].id].version
    /\ Fresh(q) => enr[loc[q].id] = loc[q].row
    /\ out[q] = "written" => ~Fresh(q)
PointAt(q) ==
  /\ pc[q] \in Holding => loc[q].id # None
  /\ pc[q] \in Creating \cup {"idle"} => loc[q].id = None
  /\ pc[q] \in Creating \cup {"transfer"} =>
       loc[q].new.status = "ACTIVE" /\ loc[q].new.version = 1
  /\ pc[q] = "update" => /\ loc[q].new.version = loc[q].row.version + 1
                         /\ loc[q].new.status \in Status
  /\ pc[q] # "done" => out[q] = "none"
HeldInv == \A q \in Reqs : HeldAt(q)
PointInv == \A q \in Reqs : PointAt(q)
MadeInv == \A q \in Reqs : pc[q] # "done" => enr[q] = NoRow

IInv == /\ TypeOK /\ HeldInv /\ PointInv /\ MadeInv
        /\ OneActiveEnrollment /\ RollNumbersUnique /\ ActedUponOnce

-----------------------------------------------------------------------------
(* Shapes                                                                  *)

(* The rows that the operations build are rows. *)
LEMMA RowTypes ==
  /\ NoRow \in Row /\ NoRow.status = Absent /\ NoRow.version = 0
  /\ Absent \notin Status /\ "ACTIVE" \in Status
  /\ \A s \in Students, c \in Cohorts, roll \in Rolls \cup {None} :
       /\ Enrolment(s, c, roll) \in Row
       /\ Enrolment(s, c, roll).status = "ACTIVE" /\ Enrolment(s, c, roll).student = s
       /\ Enrolment(s, c, roll).cohort = c /\ Enrolment(s, c, roll).roll = roll
       /\ Enrolment(s, c, roll).version = 1
  /\ NoLocal \in Local /\ NoLocal.id = None
  BY DEF NoRow, Row, Absent, Status, Enrolment, NoLocal, Local

(* Ending an enrollment keeps all but status and version. *)
LEMMA EndedRow ==
  ASSUME NEW x \in Row
  PROVE  /\ Ended(x) \in Row /\ Ended(x).status = "TRANSFERRED"
         /\ Ended(x).version = x.version + 1
  BY DEF Ended, Row, Status

(* What a typed local holds. *)
LEMMA LocalTypes ==
  ASSUME TypeOK, NEW q \in Reqs
  PROVE  /\ loc[q].id \in Enrolments \cup {None}
         /\ loc[q].row \in Row /\ loc[q].new \in Row
         /\ loc[q].row.version \in Nat /\ loc[q].new.version \in Nat
  BY DEF TypeOK, Local, Row

(* What a typed row holds. *)
LEMMA EnrTypes ==
  ASSUME TypeOK, NEW e \in Enrolments
  PROVE  enr[e] \in Row /\ enr[e].version \in Nat /\ enr[e].status \in Status \cup {Absent}
  BY DEF TypeOK, Row

-----------------------------------------------------------------------------
(* Frames                                                                  *)

(* A step of r leaves what the others hold true when the rows they hold    *)
(* stay, go or gain a version; nobody holds the row r is to make.          *)
LEMMA OthersHeld ==
  ASSUME IInv, NEW r \in Reqs, pc[r] # "done",
         \A q \in Reqs : q # r => pc'[q] = pc[q] /\ loc'[q] = loc[q] /\ out'[q] = out[q],
         \A e \in Enrolments : e # r =>
           \/ enr'[e] = enr[e]
           \/ enr'[e].status = Absent
           \/ /\ Exists(e) /\ enr[e].version < enr'[e].version
              /\ enr'[e].version \in Nat,
         NEW q \in Reqs, q # r
  PROVE  HeldAt(q)' /\ PointAt(q)'
  <1>1. PointAt(q)'
    BY DEF IInv, PointInv, PointAt
  <1>2. SUFFICES ASSUME loc[q].id # None
                 PROVE  HeldAt(q)'
    BY <1>1 DEF HeldAt
  <1>3. HeldAt(q) /\ loc[q].id \in Enrolments /\ loc[q].row.version \in Nat
    BY <1>2, LocalTypes DEF IInv, HeldInv
  <1>4. loc[q].id # r /\ (loc[q].id \in Reqs => pc'[loc[q].id] = "done")
    BY <1>2, <1>3 DEF HeldAt
  <1>5. enr[loc[q].id].version \in Nat
    BY <1>3, EnrTypes DEF IInv
  <1>6. CASE enr'[loc[q].id] = enr[loc[q].id]
    BY <1>2, <1>3, <1>4, <1>6 DEF HeldAt, Exists, Fresh
  <1>7. CASE enr'[loc[q].id].status = Absent
    BY <1>2, <1>3, <1>4, <1>7 DEF HeldAt, Exists, Fresh
  <1>8. CASE /\ Exists(loc[q].id) /\ enr[loc[q].id].version < enr'[loc[q].id].version
             /\ enr'[loc[q].id].version \in Nat
    BY <1>2, <1>3, <1>4, <1>5, <1>8 DEF HeldAt, Exists, Fresh
  <1> QED
    BY <1>3, <1>4, <1>6, <1>7, <1>8

(* Where the rows stay, so do the invariants of the rows. *)
LEMMA RowsKept ==
  ASSUME IInv, UNCHANGED enr
  PROVE  OneActiveEnrollment' /\ RollNumbersUnique'
  BY DEF IInv, OneActiveEnrollment, RollNumbersUnique, Active

(* A request that ends without writing. *)
LEMMA Ending ==
  ASSUME IInv, NEW r \in Reqs, pc[r] # "done", NEW o \in Outcome \ {"written"}, Finish(r, o),
         UNCHANGED <<enr, marked, deleted, loc>>
  PROVE  IInv'
  <1>0. pc \in [Reqs -> Point] /\ out \in [Reqs -> Outcome]
    BY DEF IInv, TypeOK
  <1>1. TypeOK'
    BY <1>0 DEF IInv, TypeOK, Finish, Point, Exists
  <1>2. HeldAt(r)' /\ PointAt(r)'
    BY <1>0 DEF IInv, HeldInv, HeldAt, PointAt, Finish, Holding, Creating, Fresh, Exists
  <1>3. HeldInv' /\ PointInv'
    BY <1>0, <1>2, OthersHeld DEF HeldInv, PointInv, Finish
  <1>4. MadeInv'
    BY <1>0 DEF IInv, MadeInv, Finish
  <1>5. ActedUponOnce'
    BY <1>0 DEF IInv, ActedUponOnce, Finish
  <1> QED
    BY <1>1, <1>3, <1>4, <1>5, RowsKept DEF IInv

(* A request that reads: it moves on, with what it loaded. *)
LEMMA Reading ==
  ASSUME IInv, NEW r \in Reqs, NEW p \in Point \ {"done"}, pc[r] # "done", Goto(r, p),
         NEW l \in Local, loc' = [loc EXCEPT ![r] = l], HeldAt(r)', PointAt(r)',
         UNCHANGED <<enr, marked, deleted>>
  PROVE  IInv'
  <1>0. pc \in [Reqs -> Point] /\ loc \in [Reqs -> Local]
    BY DEF IInv, TypeOK
  <1>1. TypeOK'
    BY <1>0 DEF IInv, TypeOK, Goto, Exists
  <1>3. HeldInv' /\ PointInv'
    BY <1>0, OthersHeld DEF HeldInv, PointInv, Goto
  <1>4. MadeInv'
    BY <1>0 DEF IInv, MadeInv, Goto
  <1>5. out[r] = "none"
    BY DEF IInv, PointInv, PointAt
  <1>6. ActedUponOnce'
    BY <1>0, <1>5 DEF IInv, ActedUponOnce, Goto
  <1> QED
    BY <1>1, <1>3, <1>4, <1>6, RowsKept DEF IInv

(* What a request holds after loading an enrollment. *)
LEMMA Loading ==
  ASSUME IInv, NEW r \in Reqs, pc[r] = "idle", NEW e \in Enrolments, Exists(e),
         NEW new \in Row, NEW p \in Holding, Load(r, e, new), Goto(r, p), UNCHANGED enr
  PROVE  /\ HeldAt(r)'
         /\ loc' = [loc EXCEPT ![r] = [id |-> e, row |-> enr[e], new |-> new]]
         /\ [id |-> e, row |-> enr[e], new |-> new] \in Local
         /\ loc'[r].id = e /\ loc'[r].row = enr[e] /\ loc'[r].new = new /\ e # None
  <1>1. e # None
    BY EnrollmentNames DEF Enrolments
  <1>2. loc' = [loc EXCEPT ![r] = [id |-> e, row |-> enr[e], new |-> new]]
    BY <1>1 DEF Load
  <1>3. loc'[r].id = e /\ loc'[r].row = enr[e] /\ loc'[r].new = new
    BY <1>2 DEF IInv, TypeOK
  <1>4. [id |-> e, row |-> enr[e], new |-> new] \in Local
    BY EnrTypes DEF IInv, Local
  <1>5. e \in Reqs => pc[e] = "done"
    BY RowTypes DEF IInv, MadeInv, Exists
  <1>6. e \in Reqs => pc'[e] = "done"
    BY <1>5 DEF Goto, IInv, TypeOK
  <1>7. out'[r] = "none"
    BY DEF Goto, IInv, PointInv, PointAt
  <1>8. enr[e].status \in Status /\ enr[e].version \in Nat
    BY EnrTypes DEF IInv, Exists
  <1> QED
    BY <1>1, <1>2, <1>3, <1>4, <1>6, <1>7, <1>8 DEF HeldAt, Fresh, Exists

(* A row that the indexes admit beside all others but some keeps them. *)
LEMMA IndexesKept ==
  ASSUME IInv, NEW e \in Enrolments, NEW but, enr'[e].status = "ACTIVE" => Admitted(enr'[e], but),
         but \subseteq Enrolments,
         \A d \in Enrolments \ {e} : enr'[d] = enr[d] \/ enr'[d].status # "ACTIVE",
         \A d \in but \ {e} : enr'[d].status # "ACTIVE"
  PROVE  OneActiveEnrollment' /\ RollNumbersUnique'
  <1>1. OneActiveEnrollment'
    BY DEF IInv, OneActiveEnrollment, Active, Admitted, YearFree
  <1>2. RollNumbersUnique'
    BY DEF IInv, RollNumbersUnique, Active, Admitted, RollFree
  <1> QED
    BY <1>1, <1>2

(* A request whose version still matches writes: nobody else who loaded    *)
(* the same row has written.                                               *)
LEMMA WrittenOnce ==
  ASSUME IInv, NEW r \in Reqs, Finish(r, "written"), UNCHANGED loc, loc[r].id # None => Fresh(r)
  PROVE  ActedUponOnce'
  <1>0. out \in [Reqs -> Outcome]
    BY DEF IInv, TypeOK
  <1>1. ASSUME NEW q \in Reqs, q # r, loc[q].id = loc[r].id, loc[q].row = loc[r].row,
               loc[r].id # None, out[q] = "written"
        PROVE  FALSE
    BY <1>1 DEF IInv, HeldInv, HeldAt, Fresh
  <1> QED
    BY <1>0, <1>1 DEF IInv, ActedUponOnce, Finish

-----------------------------------------------------------------------------
(* One lemma per commit                                                    *)

LEMMA CreateStep ==
  ASSUME IInv, NEW r \in Reqs, CreateCommit(r), Admitted(loc[r].new, {})
  PROVE  IInv'
  <1>0. /\ pc \in [Reqs -> Point] /\ out \in [Reqs -> Outcome] /\ enr \in [Enrolments -> Row]
        /\ pc[r] = "create_commit" /\ r \in Enrolments
        /\ loc[r].new \in Row /\ loc[r].new.status = "ACTIVE" /\ loc[r].id = None
    BY LocalTypes DEF IInv, TypeOK, CreateCommit, Enrolments, PointInv, PointAt, Creating
  <1>1. /\ enr' = [enr EXCEPT ![r] = loc[r].new] /\ Finish(r, "written")
        /\ UNCHANGED <<marked, deleted, loc>>
    BY DEF CreateCommit
  <1>2. TypeOK'
    BY <1>0, <1>1, RowTypes DEF IInv, TypeOK, Finish, Point, Outcome, Exists
  <1>3. HeldAt(r)' /\ PointAt(r)'
    BY <1>0, <1>1 DEF HeldAt, PointAt, Finish, Holding, Creating
  <1>4. HeldInv' /\ PointInv'
    BY <1>0, <1>1, <1>3, OthersHeld DEF HeldInv, PointInv, Finish
  <1>5. MadeInv'
    BY <1>0, <1>1 DEF IInv, MadeInv, Finish, Enrolments
  <1>6. ActedUponOnce'
    BY <1>0, <1>1, WrittenOnce
  <1>7. OneActiveEnrollment' /\ RollNumbersUnique'
    BY <1>0, <1>1, IndexesKept
  <1> QED
    BY <1>2, <1>4, <1>5, <1>6, <1>7 DEF IInv

(* The facts a versioned commit starts from. *)
LEMMA CommitFacts ==
  ASSUME IInv, NEW r \in Reqs, pc[r] \in Holding, Fresh(r)
  PROVE  /\ loc[r].id \in Enrolments /\ loc[r].id # r /\ loc[r].id # None
         /\ enr[loc[r].id] = loc[r].row /\ Exists(loc[r].id)
         /\ enr[loc[r].id].version \in Nat
         /\ loc[r].id \in Reqs => pc[loc[r].id] = "done"
         /\ loc[r].row.status \in Status /\ loc[r].row \in Row /\ loc[r].new \in Row
  <1>1. loc[r].id # None
    BY DEF IInv, PointInv, PointAt
  <1>2. loc[r].id \in Enrolments /\ loc[r].row \in Row /\ loc[r].new \in Row
    BY <1>1, LocalTypes DEF IInv
  <1>3. HeldAt(r) /\ pc[r] # "done"
    BY DEF IInv, HeldInv, Holding
  <1> QED
    BY <1>1, <1>2, <1>3, EnrTypes DEF IInv, HeldAt, Fresh

LEMMA UpdateStep ==
  ASSUME IInv, NEW r \in Reqs, pc[r] = "update", Fresh(r), Admitted(loc[r].new, {loc[r].id}),
         enr' = [enr EXCEPT ![loc[r].id] = loc[r].new], Finish(r, "written"),
         UNCHANGED <<marked, deleted, loc>>
  PROVE  IInv'
  <1>0. /\ pc \in [Reqs -> Point] /\ out \in [Reqs -> Outcome] /\ enr \in [Enrolments -> Row]
        /\ pc[r] \in Holding /\ loc[r].new.version = loc[r].row.version + 1
        /\ loc[r].new.status \in Status
    BY DEF IInv, TypeOK, Holding, PointInv, PointAt
  <1>1. PICK e \in Enrolments :
          /\ e = loc[r].id /\ e # r /\ e # None /\ enr[e] = loc[r].row /\ Exists(e)
          /\ enr[e].version \in Nat /\ loc[r].new \in Row
          /\ e \in Reqs => pc[e] = "done"
          /\ loc[r].row.status \in Status
    BY <1>0, CommitFacts
  <1>2. enr' = [enr EXCEPT ![e] = loc[r].new] /\ enr'[e] = loc[r].new
    BY <1>0, <1>1
  <1>3. TypeOK'
    BY <1>0, <1>1, <1>2, RowTypes DEF IInv, TypeOK, Finish, Point, Outcome, Exists
  <1>4. HeldAt(r)' /\ PointAt(r)'
    BY <1>0, <1>1, <1>2 DEF HeldAt, PointAt, Finish, Holding, Creating, Fresh, Exists
  <1>5. HeldInv' /\ PointInv'
    BY <1>0, <1>1, <1>2, <1>4, OthersHeld DEF HeldInv, PointInv, Finish
  <1>6. MadeInv'
    BY <1>0, <1>1, <1>2 DEF IInv, MadeInv, Finish, Enrolments
  <1>7. ActedUponOnce'
    BY WrittenOnce
  <1>8. OneActiveEnrollment' /\ RollNumbersUnique'
    <2>1. Admitted(enr'[e], {e})
      BY <1>1, <1>2
    <2>2. \A d \in Enrolments \ {e} : enr'[d] = enr[d]
      BY <1>0, <1>2
    <2> QED
      BY <2>1, <2>2, IndexesKept
  <1> QED
    BY <1>3, <1>5, <1>6, <1>7, <1>8 DEF IInv

LEMMA TransferStep ==
  ASSUME IInv, NEW r \in Reqs, pc[r] = "transfer", Fresh(r), Admitted(loc[r].new, {loc[r].id}),
         enr' = [enr EXCEPT ![r] = loc[r].new, ![loc[r].id] = Ended(loc[r].row)],
         Finish(r, "written"), UNCHANGED <<marked, deleted, loc>>
  PROVE  IInv'
  <1>0. /\ pc \in [Reqs -> Point] /\ out \in [Reqs -> Outcome] /\ enr \in [Enrolments -> Row]
        /\ pc[r] \in Holding /\ r \in Enrolments /\ loc[r].new.status = "ACTIVE"
    BY DEF IInv, TypeOK, Holding, PointInv, PointAt, Enrolments
  <1>1. PICK e \in Enrolments :
          /\ e = loc[r].id /\ e # r /\ e # None /\ enr[e] = loc[r].row /\ Exists(e)
          /\ enr[e].version \in Nat /\ loc[r].new \in Row /\ loc[r].row \in Row
          /\ e \in Reqs => pc[e] = "done"
          /\ loc[r].row.status \in Status
    BY <1>0, CommitFacts
  <1>2. /\ enr' \in [Enrolments -> Row]
        /\ enr'[r] = loc[r].new /\ enr'[e] = Ended(enr[e])
        /\ \A d \in Enrolments : d # r /\ d # e => enr'[d] = enr[d]
    BY <1>0, <1>1, EndedRow
  <1>2a. enr'[e].status = "TRANSFERRED" /\ enr'[e].version = enr[e].version + 1
    BY <1>1, <1>2, EndedRow
  <1>3. TypeOK'
    <2>1. \A d \in Enrolments : Exists(d) => Exists(d)'
      BY <1>0, <1>2, <1>2a DEF Exists, Absent
    <2> QED
      BY <1>0, <1>2, <2>1 DEF IInv, TypeOK, Finish, Point, Outcome
  <1>4. HeldAt(r)' /\ PointAt(r)'
    BY <1>0, <1>1, <1>2, <1>2a DEF HeldAt, PointAt, Finish, Holding, Creating, Fresh, Exists
  <1>5. HeldInv' /\ PointInv'
    BY <1>0, <1>1, <1>2, <1>2a, <1>4, OthersHeld DEF HeldInv, PointInv, Finish
  <1>6. MadeInv'
    BY <1>0, <1>1, <1>2 DEF IInv, MadeInv, Finish, Enrolments
  <1>7. ActedUponOnce'
    BY WrittenOnce
  <1>8. OneActiveEnrollment' /\ RollNumbersUnique'
    <2>1. Admitted(enr'[r], {e})
      BY <1>1, <1>2
    <2>2. \A d \in Enrolments \ {r} : enr'[d] = enr[d] \/ enr'[d].status # "ACTIVE"
      BY <1>2, <1>2a
    <2>3. \A d \in {e} \ {r} : enr'[d].status # "ACTIVE"
      BY <1>2a
    <2>4. r \in Enrolments /\ {e} \subseteq Enrolments
      BY <1>0
    <2> QED
      BY <2>1, <2>2, <2>3, <2>4, IndexesKept
  <1> QED
    BY <1>3, <1>5, <1>6, <1>7, <1>8 DEF IInv

LEMMA DeleteStep ==
  ASSUME IInv, NEW r \in Reqs, pc[r] = "delete", Fresh(r), Unreferenced(loc[r].id),
         enr' = [enr EXCEPT ![loc[r].id] = NoRow], Finish(r, "written"),
         UNCHANGED <<marked, deleted, loc>>
  PROVE  IInv'
  <1>0. /\ pc \in [Reqs -> Point] /\ out \in [Reqs -> Outcome] /\ enr \in [Enrolments -> Row]
        /\ pc[r] \in Holding
    BY DEF IInv, TypeOK, Holding
  <1>1. PICK e \in Enrolments :
          /\ e = loc[r].id /\ e # r /\ e # None /\ e \notin marked
          /\ e \in Reqs => pc[e] = "done"
          /\ loc[r].row.status \in Status
    BY <1>0, CommitFacts DEF Unreferenced
  <1>2. enr' = [enr EXCEPT ![e] = NoRow] /\ enr'[e] = NoRow
    BY <1>0, <1>1
  <1>3. TypeOK'
    BY <1>0, <1>1, <1>2, RowTypes DEF IInv, TypeOK, Finish, Point, Outcome, Exists
  <1>4. HeldAt(r)' /\ PointAt(r)'
    BY <1>0, <1>1, <1>2, RowTypes DEF HeldAt, PointAt, Finish, Holding, Creating, Fresh, Exists
  <1>5. HeldInv' /\ PointInv'
    BY <1>0, <1>1, <1>2, <1>4, RowTypes, OthersHeld DEF HeldInv, PointInv, Finish
  <1>6. MadeInv'
    BY <1>0, <1>1, <1>2 DEF IInv, MadeInv, Finish, Enrolments
  <1>7. ActedUponOnce'
    BY WrittenOnce
  <1>8. OneActiveEnrollment' /\ RollNumbersUnique'
    <2>1. enr'[e].status = "ACTIVE" => Admitted(enr'[e], {e})
      BY <1>2 DEF NoRow, Absent
    <2>2. \A d \in Enrolments \ {e} : enr'[d] = enr[d]
      BY <1>0, <1>2
    <2> QED
      BY <2>1, <2>2, IndexesKept
  <1> QED
    BY <1>3, <1>5, <1>6, <1>7, <1>8 DEF IInv

-----------------------------------------------------------------------------
(* The theorems                                                            *)

(* Every step of a request preserves the invariant. *)
LEMMA StepPreserves ==
  ASSUME IInv, NEW r \in Reqs, Step(r)
  PROVE  IInv'
  <1>0. /\ pc \in [Reqs -> Point] /\ loc \in [Reqs -> Local] /\ out \in [Reqs -> Outcome]
        /\ enr \in [Enrolments -> Row]
    BY DEF IInv, TypeOK
  <1>1. CASE Refused(r)
    BY <1>1, Ending DEF Refused, Outcome
  <1>2. CASE Abort(r)
    BY <1>2, Ending DEF Abort, Outcome
  <1>3. ASSUME NEW s \in Students, NEW c \in Cohorts, NEW roll \in Rolls \cup {None},
               CreateRead(r, s, c, roll)
        PROVE  IInv'
    <2>1. PICK l \in Local : /\ loc' = [loc EXCEPT ![r] = l] /\ l.id = None
                             /\ l.new.status = "ACTIVE" /\ l.new.version = 1
      <3>1. [id |-> None, row |-> NoRow, new |-> Enrolment(s, c, roll)] \in Local
        BY RowTypes DEF Local
      <3>2. loc' = [loc EXCEPT ![r] = [id |-> None, row |-> NoRow, new |-> Enrolment(s, c, roll)]]
        BY <1>3 DEF CreateRead, Load
      <3>3. Enrolment(s, c, roll).status = "ACTIVE" /\ Enrolment(s, c, roll).version = 1
        BY RowTypes
      <3> QED
        BY <3>1, <3>2, <3>3
    <2>2. pc[r] = "idle" /\ Goto(r, "create_roll") /\ UNCHANGED <<enr, marked, deleted>>
      BY <1>3 DEF CreateRead
    <2>3. HeldAt(r)' /\ PointAt(r)'
      BY <1>0, <2>1, <2>2 DEF IInv, PointInv, HeldAt, PointAt, Goto, Holding, Creating
    <2> QED
      BY <2>1, <2>2, <2>3, Reading DEF Point
  <1>4. CASE CreateRoll(r)
    <2>1. pc[r] = "create_roll" /\ Goto(r, "create_commit") /\ UNCHANGED <<enr, marked, deleted>>
      BY <1>4 DEF CreateRoll
    <2>2. loc[r] \in Local /\ loc' = [loc EXCEPT ![r] = loc[r]]
      BY <1>0, <1>4 DEF CreateRoll
    <2>3. HeldAt(r)' /\ PointAt(r)'
      BY <1>0, <1>4, <2>1 DEF CreateRoll, IInv, PointInv, HeldAt, PointAt, Goto, Holding, Creating
    <2> QED
      BY <2>1, <2>2, <2>3, Reading DEF Point
  <1>5. CASE CreateCommit(r)
    <2>1. CASE Admitted(loc[r].new, {})
      BY <1>5, <2>1, CreateStep
    <2>2. CASE ~Admitted(loc[r].new, {})
      BY <1>5, <2>2, Ending DEF CreateCommit, Outcome
    <2> QED
      BY <2>1, <2>2
  <1>6. ASSUME NEW e \in Enrolments, NEW roll \in Rolls \cup {None}, NEW status \in Status,
               UpdateRead(r, e, roll, status)
        PROVE  IInv'
    <2> DEFINE new == [student |-> enr[e].student, cohort |-> enr[e].cohort, roll |-> roll,
                       status |-> status, version |-> enr[e].version + 1]
    <2>1. new \in Row /\ new.version = enr[e].version + 1 /\ new.status \in Status
      BY EnrTypes DEF IInv, Row
    <2>2. /\ pc[r] = "idle" /\ Exists(e) /\ Load(r, e, new) /\ Goto(r, "update")
          /\ UNCHANGED <<enr, marked, deleted>>
      BY <1>6 DEF UpdateRead
    <2> HIDE DEF new
    <2>3. /\ HeldAt(r)' /\ LoadedLocal(e, new) \in Local
          /\ loc' = [loc EXCEPT ![r] = LoadedLocal(e, new)]
          /\ loc'[r].id = e /\ loc'[r].row = enr[e] /\ loc'[r].new = new /\ e # None
      BY <2>1, <2>2, Loading DEF Holding, LoadedLocal
    <2>4. PointAt(r)'
      BY <1>0, <2>1, <2>2, <2>3 DEF IInv, PointInv, PointAt, Goto, Holding, Creating
    <2> QED
      BY <2>2, <2>3, <2>4, Reading DEF Point
  <1>7. ASSUME NEW e \in Enrolments, NEW c \in Cohorts, TransferRead(r, e, c)
        PROVE  IInv'
    <2> DEFINE new == [student |-> enr[e].student, cohort |-> c, roll |-> None,
                       status |-> "ACTIVE", version |-> 1]
    <2>1. new \in Row /\ new.status = "ACTIVE" /\ new.version = 1
      BY EnrTypes DEF IInv, Row, Status
    <2>2. /\ pc[r] = "idle" /\ Exists(e) /\ Load(r, e, new) /\ Goto(r, "transfer")
          /\ UNCHANGED <<enr, marked, deleted>>
      BY <1>7 DEF TransferRead, Active, Exists, Absent, Enrolment
    <2> HIDE DEF new
    <2>3. /\ HeldAt(r)' /\ LoadedLocal(e, new) \in Local
          /\ loc' = [loc EXCEPT ![r] = LoadedLocal(e, new)]
          /\ loc'[r].id = e /\ loc'[r].row = enr[e] /\ loc'[r].new = new /\ e # None
      BY <2>1, <2>2, Loading DEF Holding, LoadedLocal
    <2>4. PointAt(r)'
      BY <1>0, <2>1, <2>2, <2>3 DEF IInv, PointInv, PointAt, Goto, Holding, Creating
    <2> QED
      BY <2>2, <2>3, <2>4, Reading DEF Point
  <1>8. ASSUME NEW e \in Enrolments, DeleteRead(r, e)
        PROVE  IInv'
    <2>2. /\ pc[r] = "idle" /\ Exists(e) /\ Load(r, e, NoRow) /\ Goto(r, "delete")
          /\ UNCHANGED <<enr, marked, deleted>>
      BY <1>8 DEF DeleteRead, Active, Exists, Absent
    <2>3. /\ HeldAt(r)' /\ LoadedLocal(e, NoRow) \in Local
          /\ loc' = [loc EXCEPT ![r] = LoadedLocal(e, NoRow)]
          /\ loc'[r].id = e /\ e # None
      BY <2>2, Loading, RowTypes DEF Holding, LoadedLocal
    <2>4. PointAt(r)'
      BY <1>0, <2>2, <2>3 DEF IInv, PointInv, PointAt, Goto, Holding, Creating
    <2> QED
      BY <2>2, <2>3, <2>4, Reading DEF Point
  <1>9. CASE UpdateCommit(r)
    BY <1>9, UpdateStep, Ending DEF UpdateCommit, Outcome
  <1>10. CASE TransferCommit(r)
    BY <1>10, TransferStep, Ending DEF TransferCommit, Outcome
  <1>11. CASE DeleteCommit(r)
    BY <1>11, DeleteStep, Ending DEF DeleteCommit, Outcome
  <1> QED
    BY <1>1, <1>2, <1>3, <1>4, <1>5, <1>6, <1>7, <1>8, <1>9, <1>10, <1>11 DEF Step

(* The steps of attendance and of student deletion touch no enrollment. *)
LEMMA OutsidePreserves ==
  ASSUME IInv, UNCHANGED <<enr, pc, loc, out>>, marked' \in SUBSET Enrolments,
         \A e \in marked' : Exists(e), deleted' \in SUBSET Students
  PROVE  IInv'
  <1>1. TypeOK'
    BY DEF IInv, TypeOK, Exists
  <1>2. HeldInv' /\ PointInv' /\ MadeInv'
    BY DEF IInv, HeldInv, HeldAt, PointInv, PointAt, MadeInv, Fresh, Exists
  <1>3. ActedUponOnce'
    BY DEF IInv, ActedUponOnce
  <1> QED
    BY <1>1, <1>2, <1>3, RowsKept DEF IInv

(* The invariant holds in every reachable state. *)
THEOREM InductiveInvariant == Spec => []IInv
  <1>1. Init => IInv
    <2> SUFFICES ASSUME Init PROVE IInv
      OBVIOUS
    <2>1. PICK s \in Students, c \in Cohorts, roll \in Rolls \cup {None} :
            enr = [e \in Enrolments |-> IF e = E0 THEN Enrolment(s, c, roll) ELSE NoRow]
      BY DEF Init
    <2>2. \A e \in Enrolments : e # E0 => enr[e] = NoRow /\ ~Active(e)
      BY <2>1 DEF Active, NoRow, Absent
    <2>3. TypeOK
      BY <2>1, RowTypes DEF Init, TypeOK, Point, Outcome
    <2>4. HeldInv /\ PointInv
      BY RowTypes DEF Init, HeldInv, HeldAt, PointInv, PointAt, Holding, Creating
    <2>5. MadeInv
      BY <2>2, EnrollmentNames DEF MadeInv, Enrolments
    <2>6. OneActiveEnrollment /\ RollNumbersUnique
      BY <2>2 DEF OneActiveEnrollment, RollNumbersUnique
    <2>7. ActedUponOnce
      BY DEF Init, ActedUponOnce
    <2> QED
      BY <2>3, <2>4, <2>5, <2>6, <2>7 DEF IInv
  <1>2. IInv /\ [Next]_vars => IInv'
    <2> SUFFICES ASSUME IInv, [Next]_vars PROVE IInv'
      OBVIOUS
    <2>1. CASE UNCHANGED vars
      BY <2>1, OutsidePreserves DEF vars, IInv, TypeOK
    <2>2. ASSUME NEW e \in Enrolments, AttendanceMarked(e) \/ AttendanceDropped(e) PROVE IInv'
      BY <2>2, OutsidePreserves DEF AttendanceMarked, AttendanceDropped, IInv, TypeOK
    <2>3. ASSUME NEW s \in Students, StudentDeleted(s) PROVE IInv'
      BY <2>3, OutsidePreserves DEF StudentDeleted, IInv, TypeOK
    <2> QED
      BY <2>1, <2>2, <2>3, StepPreserves DEF Next
  <1> QED
    BY <1>1, <1>2, PTL DEF Spec

(* The tables stay well formed, and the hard delete of an enrollment never *)
(* leaves an attendance record behind that refers to it.                   *)
THEOREM TypeInvariant == Spec => []TypeOK
  <1>1. IInv => TypeOK
    BY DEF IInv
  <1> QED
    BY <1>1, InductiveInvariant, PTL

(* However many creates, updates and transfers race, a student has one     *)
(* active enrollment in the year.                                          *)
THEOREM OneActive == Spec => []OneActiveEnrollment
  <1>1. IInv => OneActiveEnrollment
    BY DEF IInv
  <1> QED
    BY <1>1, InductiveInvariant, PTL

(* Roll numbers stay unique among the active enrollments of a cohort. *)
THEOREM RollsUnique == Spec => []RollNumbersUnique
  <1>1. IInv => RollNumbersUnique
    BY DEF IInv
  <1> QED
    BY <1>1, InductiveInvariant, PTL

(* Of the requests that loaded an enrollment in one version at most one    *)
(* changes it.                                                             *)
THEOREM OncePerVersion == Spec => []ActedUponOnce
  <1>1. IInv => ActedUponOnce
    BY DEF IInv
  <1> QED
    BY <1>1, InductiveInvariant, PTL

-----------------------------------------------------------------------------
(* Refinement of VersionedRows                                             *)

(* A step that leaves the enrollments alone drops what its request works   *)
(* on, keeps it or loads a row.                                            *)
LEMMA Keeping ==
  ASSUME NEW r \in Reqs, UNCHANGED enr,
         \A q \in Reqs : q # r => pc'[q] = pc[q] /\ loc'[q] = loc[q],
         \/ Copy(r)' = {} \/ Copy(r)' = Copy(r)
         \/ \E e \in Enrolments : Exists(e) /\ Copy(r)' = {[id |-> e, row |-> enr[e]]}
  PROVE  [Locking!VNext]_(Locking!vvars)
  <1>1. \A q \in Reqs : q # r => Copy(q)' = Copy(q)
    BY DEF Copy
  <1>2. CASE Copy(r)' = {}
    BY <1>1, <1>2 DEF Locking!VForget, Locking!VNext
  <1>3. CASE Copy(r)' = Copy(r)
    BY <1>1, <1>3 DEF Locking!vvars
  <1>4. ASSUME NEW e \in Enrolments, Exists(e), Copy(r)' = {[id |-> e, row |-> enr[e]]}
        PROVE  Locking!VNext
    <2>1. enr[e] # NoRow
      BY <1>4, RowTypes DEF Exists
    <2>2. Locking!VLoad(r, e)
      BY <1>1, <1>4, <2>1 DEF Locking!VLoad
    <2> QED
      BY <2>2 DEF Locking!VNext
  <1> QED
    BY <1>2, <1>3, <1>4

(* A step that writes makes a new row, makes the next version of the row   *)
(* its request works on, or removes that row; a transfer does both of the  *)
(* first.                                                                  *)
LEMMA Committing ==
  ASSUME IInv, IInv', NEW r \in Reqs, enr' # enr,
         CreateCommit(r) \/ UpdateCommit(r) \/ TransferCommit(r) \/ DeleteCommit(r)
  PROVE  Locking!VCommit(r)
  <1>0. /\ pc \in [Reqs -> Point] /\ enr \in [Enrolments -> Row] /\ enr' \in [Enrolments -> Row]
        /\ PointAt(r) /\ r \in Enrolments
    BY DEF IInv, TypeOK, PointInv, Enrolments
  <1>1. /\ pc[r] # "done" /\ pc'[r] = "done" /\ UNCHANGED loc
        /\ \A q \in Reqs : q # r => pc'[q] = pc[q]
    BY <1>0 DEF CreateCommit, UpdateCommit, TransferCommit, DeleteCommit, Finish
  <1>2. Copy(r)' = {} /\ \A q \in Reqs : q # r => Copy(q)' = Copy(q)
    BY <1>1 DEF Copy
  <1>3. enr[r] = NoRow
    BY <1>1 DEF IInv, MadeInv
  <1>4. \A e \in Enrolments : enr'[e] # enr[e] => Locking!Allowed(r, e, enr'[e])
    <2>1. CASE CreateCommit(r)
      <3>1. pc[r] = "create_commit" /\ enr' = [enr EXCEPT ![r] = loc[r].new]
        BY <2>1 DEF CreateCommit
      <3>2. loc[r].new.version = 1
        BY <1>0, <3>1 DEF PointAt, Creating
      <3> QED
        BY <1>0, <1>3, <3>1, <3>2 DEF Locking!Allowed
    <2>2. CASE UpdateCommit(r) \/ TransferCommit(r) \/ DeleteCommit(r)
      <3>1. /\ pc[r] \in Holding /\ Fresh(r)
            /\ \/ pc[r] = "update" /\ enr' = [enr EXCEPT ![loc[r].id] = loc[r].new]
               \/ /\ pc[r] = "transfer"
                  /\ enr' = [enr EXCEPT ![r] = loc[r].new, ![loc[r].id] = Ended(loc[r].row)]
               \/ enr' = [enr EXCEPT ![loc[r].id] = NoRow]
        BY <2>2 DEF UpdateCommit, TransferCommit, DeleteCommit, Holding
      <3>2. /\ loc[r].id \in Enrolments /\ loc[r].id # r /\ enr[loc[r].id] = loc[r].row
            /\ Exists(loc[r].id) /\ loc[r].row \in Row
        BY <3>1, CommitFacts
      <3>3. enr[loc[r].id] # NoRow
        BY <3>2, RowTypes DEF Exists
      <3>4. Copy(r) = {[id |-> loc[r].id, row |-> enr[loc[r].id]]}
        BY <3>1, <3>2 DEF Copy, Holding
      <3>5. /\ enr'[loc[r].id] = NoRow \/ enr'[loc[r].id].version = enr[loc[r].id].version + 1
            /\ enr'[r] = NoRow \/ enr'[r].version = 1
            /\ \A e \in Enrolments : e # r /\ e # loc[r].id => enr'[e] = enr[e]
        <4>1. CASE pc[r] = "update" /\ enr' = [enr EXCEPT ![loc[r].id] = loc[r].new]
          BY <1>0, <1>3, <3>2, <4>1 DEF PointAt
        <4>2. CASE /\ pc[r] = "transfer"
                   /\ enr' = [enr EXCEPT ![r] = loc[r].new, ![loc[r].id] = Ended(loc[r].row)]
          <5>1. loc[r].new.version = 1 /\ Ended(loc[r].row).version = loc[r].row.version + 1
            BY <1>0, <3>2, <4>2, EndedRow DEF PointAt
          <5> QED
            BY <1>0, <3>2, <4>2, <5>1
        <4>3. CASE enr' = [enr EXCEPT ![loc[r].id] = NoRow]
          BY <1>0, <1>3, <3>2, <4>3
        <4> QED
          BY <3>1, <4>1, <4>2, <4>3
      <3> QED
        BY <1>3, <3>2, <3>3, <3>4, <3>5 DEF Locking!Allowed
    <2> QED
      BY <2>1, <2>2
  <1> QED
    BY <1>0, <1>2, <1>4 DEF Locking!VCommit

(* Requests on enrollments keep the promise of VersionMixin: no step       *)
(* overwrites or deletes a row other than the one its request has loaded.  *)
THEOREM Refinement == Spec => ImplementsVersionedRows
  <1>1. Init => Locking!VInit
    <2> SUFFICES ASSUME Init PROVE Locking!VInit
      OBVIOUS
    <2>1. enr \in [Enrolments -> Row]
      BY RowTypes DEF Init
    <2> QED
      BY <2>1 DEF Init, Copy, Locking!VInit
  <1>2. IInv /\ IInv' /\ [Next]_vars => [Locking!VNext]_(Locking!vvars)
    <2> SUFFICES ASSUME IInv, IInv', [Next]_vars PROVE [Locking!VNext]_(Locking!vvars)
      OBVIOUS
    <2>0. pc \in [Reqs -> Point] /\ loc \in [Reqs -> Local]
      BY DEF IInv, TypeOK
    <2>1. CASE UNCHANGED <<enr, pc, loc>>
      BY <2>1 DEF Copy, Locking!vvars
    <2>2. ASSUME NEW r \in Reqs, Refused(r) \/ Abort(r) \/ CreateRoll(r)
          PROVE  [Locking!VNext]_(Locking!vvars)
      <3>1. /\ UNCHANGED enr /\ pc'[r] \in {"create_commit", "done"}
            /\ \A q \in Reqs : q # r => pc'[q] = pc[q] /\ loc'[q] = loc[q]
        BY <2>0, <2>2 DEF Refused, Abort, CreateRoll, Goto, Finish
      <3> QED
        BY <3>1, Keeping DEF Copy
    <2>3. ASSUME NEW r \in Reqs, NEW s \in Students, NEW c \in Cohorts,
                 NEW roll \in Rolls \cup {None}, CreateRead(r, s, c, roll)
          PROVE  [Locking!VNext]_(Locking!vvars)
      <3>1. /\ UNCHANGED enr /\ pc'[r] = "create_roll"
            /\ \A q \in Reqs : q # r => pc'[q] = pc[q] /\ loc'[q] = loc[q]
        BY <2>0, <2>3 DEF CreateRead, Load, Goto
      <3> QED
        BY <3>1, Keeping DEF Copy
    <2>4. ASSUME NEW r \in Reqs, NEW e \in Enrolments, NEW new, NEW p \in Holding,
                 Load(r, e, new), Goto(r, p), Exists(e), UNCHANGED enr
          PROVE  [Locking!VNext]_(Locking!vvars)
      <3>1. e # None
        BY EnrollmentNames DEF Enrolments
      <3>2. /\ pc'[r] \in Holding /\ loc'[r].id = e /\ loc'[r].row = enr[e]
            /\ \A q \in Reqs : q # r => pc'[q] = pc[q] /\ loc'[q] = loc[q]
        BY <2>0, <2>4, <3>1 DEF Load, Goto
      <3> QED
        BY <2>4, <3>2, Keeping DEF Copy, Holding
    <2>5. ASSUME NEW r \in Reqs,
                 CreateCommit(r) \/ UpdateCommit(r) \/ TransferCommit(r) \/ DeleteCommit(r)
          PROVE  [Locking!VNext]_(Locking!vvars)
      <3>1. CASE enr' # enr
        BY <2>5, <3>1, Committing DEF Locking!VNext
      <3>2. CASE UNCHANGED enr
        <4>1. pc'[r] = "done" /\ \A q \in Reqs : q # r => pc'[q] = pc[q] /\ loc'[q] = loc[q]
          BY <2>0, <2>5 DEF CreateCommit, UpdateCommit, TransferCommit, DeleteCommit, Finish
        <4> QED
          BY <3>2, <4>1, Keeping DEF Copy
      <3> QED
        BY <3>1, <3>2
    <2>6. ASSUME NEW r \in Reqs, Step(r) PROVE [Locking!VNext]_(Locking!vvars)
      <3>1. ASSUME NEW e \in Enrolments, NEW roll \in Rolls \cup {None}, NEW status \in Status,
                   UpdateRead(r, e, roll, status)
            PROVE  [Locking!VNext]_(Locking!vvars)
        BY <2>4, <3>1 DEF UpdateRead, Holding
      <3>2. ASSUME NEW e \in Enrolments, NEW c \in Cohorts, TransferRead(r, e, c)
            PROVE  [Locking!VNext]_(Locking!vvars)
        BY <2>4, <3>2 DEF TransferRead, Holding, Active, Exists, Absent
      <3>3. ASSUME NEW e \in Enrolments, DeleteRead(r, e)
            PROVE  [Locking!VNext]_(Locking!vvars)
        BY <2>4, <3>3 DEF DeleteRead, Holding, Active, Exists, Absent
      <3> QED
        BY <2>2, <2>3, <2>5, <2>6, <3>1, <3>2, <3>3 DEF Step
    <2> QED
      BY <2>1, <2>6 DEF Next, vars, AttendanceMarked, AttendanceDropped, StudentDeleted
  <1> QED
    BY <1>1, <1>2, InductiveInvariant, PTL DEF Spec, ImplementsVersionedRows, Locking!VSpec
=============================================================================
