----------------------------- MODULE Enrollments ----------------------------
(***************************************************************************)
(* The enrollments of one academic year under concurrent requests:         *)
(* app/modules/students/enrollments/service.py.                            *)
(*                                                                         *)
(* As in Attendance a request is one READ COMMITTED transaction whose      *)
(* writes are one step.  StudentEnrollment is versioned; the partial       *)
(* unique indexes of migration 0011 and the foreign key of                 *)
(* attendance_records are checked when the rows are written.               *)
(***************************************************************************)
EXTENDS Naturals

CONSTANTS Reqs,      \* requests; an enrollment is named by the request that made it
          Students, Cohorts, Rolls,
          E0,        \* an enrollment made before
          None

ASSUME EnrollmentNames == E0 \notin Reqs /\ None \notin Reqs \cup {E0}
ASSUME NoneIsNoValue == None \notin Students \cup Cohorts \cup Rolls
ASSUME SomeStudent == Students # {} /\ Cohorts # {}

Enrolments == Reqs \cup {E0}
Status == {"ACTIVE", "TRANSFERRED", "WITHDRAWN"}  \* WITHDRAWN: or COMPLETED
Absent == "NONE"                                  \* no such row

VARIABLES
  enr,       \* student_enrollments rows of the year
  marked,    \* enrollments that attendance_records rows refer to
  deleted,   \* students with deleted_at set
  pc, loc,   \* where each request is and what it has read
  out        \* how it ended

vars == <<enr, marked, deleted, pc, loc, out>>

-----------------------------------------------------------------------------
Row == [student: Students \cup {None}, cohort: Cohorts \cup {None},
        roll: Rolls \cup {None}, status: Status \cup {Absent}, version: Nat]
Point == {"idle", "create_roll", "create_commit", "update", "transfer", "delete", "done"}
(* "written": committed a change; "same": an update that changed no column; *)
(* "refused": a 4xx, the caught index violation of create included;        *)
(* "error": StaleDataError or IntegrityError of a flush, not caught.       *)
Outcome == {"none", "written", "same", "refused", "error", "aborted"}
(* The row a request loaded, if any, and the row it is to become. *)
Local == [id: Enrolments \cup {None}, row: Row, new: Row]

NoRow == [student |-> None, cohort |-> None, roll |-> None, status |-> Absent, version |-> 0]
Enrolment(s, c, roll) ==
  [student |-> s, cohort |-> c, roll |-> roll, status |-> "ACTIVE", version |-> 1]
Ended(row) ==
  [student |-> row.student, cohort |-> row.cohort, roll |-> row.roll,
   status |-> "TRANSFERRED", version |-> row.version + 1]
NoLocal == [id |-> None, row |-> NoRow, new |-> NoRow]

Init ==
  /\ \E s \in Students, c \in Cohorts, roll \in Rolls \cup {None} :
       enr = [e \in Enrolments |-> IF e = E0 THEN Enrolment(s, c, roll) ELSE NoRow]
  /\ marked = {}
  /\ deleted = {}
  /\ pc = [r \in Reqs |-> "idle"]
  /\ loc = [r \in Reqs |-> NoLocal]
  /\ out = [r \in Reqs |-> "none"]

-----------------------------------------------------------------------------
Exists(e) == enr[e].status # Absent
Active(e) == enr[e].status = "ACTIVE"
Goto(r, p) == pc' = [pc EXCEPT ![r] = p] /\ UNCHANGED out
Finish(r, o) == pc' = [pc EXCEPT ![r] = "done"] /\ out' = [out EXCEPT ![r] = o]
Load(r, id, new) ==
  loc' = [loc EXCEPT ![r] = [id |-> id, row |-> IF id = None THEN NoRow ELSE enr[id], new |-> new]]

(* Faulty variant: student_enrollments without the version column *)
FreshUnchecked(r) == Exists(loc[r].id)

(* UPDATE or DELETE ... WHERE id = and version = the loaded ones finds a row *)
Fresh(r) == Exists(loc[r].id) /\ enr[loc[r].id].version = loc[r].row.version

(* Faulty variant: the index covers no more than the student's own cohort. *)
YearFreePerCohort(row, but) ==
  \A e \in Enrolments \ but : Active(e) => enr[e].student # row.student \/ enr[e].cohort # row.cohort

(* uq_enrollment_student_year_active admits row beside all others but some *)
YearFree(row, but) ==
  \A e \in Enrolments \ but : Active(e) => enr[e].student # row.student

(* Faulty variant: no unique index on roll numbers *)
RollFreeUnchecked(row, but) == TRUE

(* uq_enrollment_cohort_roll admits row beside all others but some *)
RollFree(row, but) ==
  row.roll = None \/ \A e \in Enrolments \ but :
                       Active(e) => enr[e].cohort # row.cohort \/ enr[e].roll # row.roll

(* Both indexes cover ACTIVE rows only. *)
Admitted(row, but) == row.status = "ACTIVE" => YearFree(row, but) /\ RollFree(row, but)

(* A check of the handler fails: unknown student, cohort, year or          *)
(* enrollment, a status the operation does not take, another version than  *)
(* the client's, a duplicate that was seen.  Nothing is written.           *)
Refused(r) ==
  /\ pc[r] \in {"idle", "create_roll"}
  /\ Finish(r, "refused")
  /\ UNCHANGED <<enr, marked, deleted, loc>>

(* create: the student exists and has no active enrollment in the year. *)
CreateRead(r, s, c, roll) ==
  /\ pc[r] = "idle"
  /\ s \notin deleted
  /\ \A e \in Enrolments : Active(e) => enr[e].student # s
  /\ Load(r, None, Enrolment(s, c, roll))
  /\ Goto(r, "create_roll")
  /\ UNCHANGED <<enr, marked, deleted>>

(* create: the roll number, if given, is free in the cohort. *)
CreateRoll(r) ==
  /\ pc[r] = "create_roll"
  /\ loc[r].new.roll # None =>
       \A e \in Enrolments : Active(e) => \/ enr[e].cohort # loc[r].new.cohort
                                          \/ enr[e].roll # loc[r].new.roll
  /\ Goto(r, "create_commit")
  /\ UNCHANGED <<enr, marked, deleted, loc>>

(* An index violation is answered as a conflict. *)
CreateCommit(r) ==
  /\ pc[r] = "create_commit"
  /\ IF Admitted(loc[r].new, {})
       THEN enr' = [enr EXCEPT ![r] = loc[r].new] /\ Finish(r, "written")
       ELSE UNCHANGED enr /\ Finish(r, "refused")
  /\ UNCHANGED <<marked, deleted, loc>>

(* update: roll number and status as the payload says; the status may be   *)
(* any, ACTIVE again included.                                             *)
UpdateRead(r, e, roll, status) ==
  /\ pc[r] = "idle"
  /\ Exists(e)
  /\ Load(r, e, [student |-> enr[e].student, cohort |-> enr[e].cohort, roll |-> roll,
                 status |-> status, version |-> enr[e].version + 1])
  /\ Goto(r, "update")
  /\ UNCHANGED <<enr, marked, deleted>>

(* SQLAlchemy writes, and bumps the version, when a column changes; the    *)
(* columns that are not modelled (end_date, updated_by_id) may or may not. *)
UpdateCommit(r) ==
  /\ pc[r] = "update"
  /\ \/ /\ loc[r].new.roll = loc[r].row.roll /\ loc[r].new.status = loc[r].row.status
        /\ UNCHANGED enr /\ Finish(r, "same")
     \/ IF Fresh(r) /\ Admitted(loc[r].new, {loc[r].id})
          THEN enr' = [enr EXCEPT ![loc[r].id] = loc[r].new] /\ Finish(r, "written")
          ELSE UNCHANGED enr /\ Finish(r, "error")
  /\ UNCHANGED <<marked, deleted, loc>>

(* transfer: the client sends no version; the enrollment must be ACTIVE. *)
TransferRead(r, e, c) ==
  /\ pc[r] = "idle"
  /\ Active(e)
  /\ Load(r, e, Enrolment(enr[e].student, c, None))
  /\ Goto(r, "transfer")
  /\ UNCHANGED <<enr, marked, deleted>>

(* transfer ends the old enrollment and makes the new one in one transaction. *)
TransferCommit(r) ==
  /\ pc[r] = "transfer"
  /\ IF Fresh(r) /\ Admitted(loc[r].new, {loc[r].id})
       THEN /\ enr' = [enr EXCEPT ![r] = loc[r].new, ![loc[r].id] = Ended(loc[r].row)]
            /\ Finish(r, "written")
       ELSE UNCHANGED enr /\ Finish(r, "error")
  /\ UNCHANGED <<marked, deleted, loc>>

(* delete: a hard delete of an ACTIVE enrollment. *)
DeleteRead(r, e) ==
  /\ pc[r] = "idle"
  /\ Active(e)
  /\ Load(r, e, NoRow)
  /\ Goto(r, "delete")
  /\ UNCHANGED <<enr, marked, deleted>>

(* Faulty variant: no foreign key from attendance_records *)
UnreferencedUnchecked(e) == TRUE

(* ON DELETE RESTRICT of attendance_records.enrollment_id *)
Unreferenced(e) == e \notin marked

DeleteCommit(r) ==
  /\ pc[r] = "delete"
  /\ IF Fresh(r) /\ Unreferenced(loc[r].id)
       THEN enr' = [enr EXCEPT ![loc[r].id] = NoRow] /\ Finish(r, "written")
       ELSE UNCHANGED enr /\ Finish(r, "error")
  /\ UNCHANGED <<marked, deleted, loc>>

(* A lost connection, a lock deadlock or a column constraint: the          *)
(* transaction is rolled back.                                             *)
Abort(r) ==
  /\ pc[r] \notin {"idle", "done"}
  /\ Finish(r, "aborted")
  /\ UNCHANGED <<enr, marked, deleted, loc>>

(* Attendance writes the first record of an enrollment. *)
AttendanceMarked(e) ==
  /\ Exists(e) /\ e \notin marked
  /\ marked' = marked \cup {e}
  /\ UNCHANGED <<enr, deleted, pc, loc, out>>

(* Deleting a draft session takes its records along. *)
AttendanceDropped(e) ==
  /\ e \in marked
  /\ marked' = marked \ {e}
  /\ UNCHANGED <<enr, deleted, pc, loc, out>>

(* A student is soft-deleted; enrollments are not looked at. *)
StudentDeleted(s) ==
  /\ s \notin deleted
  /\ deleted' = deleted \cup {s}
  /\ UNCHANGED <<enr, marked, pc, loc, out>>

Step(r) ==
  \/ Refused(r) \/ Abort(r)
  \/ \E s \in Students, c \in Cohorts, roll \in Rolls \cup {None} : CreateRead(r, s, c, roll)
  \/ CreateRoll(r) \/ CreateCommit(r)
  \/ \E e \in Enrolments :
       \/ \E roll \in Rolls \cup {None}, status \in Status : UpdateRead(r, e, roll, status)
       \/ \E c \in Cohorts : TransferRead(r, e, c)
       \/ DeleteRead(r, e)
  \/ UpdateCommit(r) \/ TransferCommit(r) \/ DeleteCommit(r)

Next ==
  \/ \E r \in Reqs : Step(r)
  \/ \E e \in Enrolments : AttendanceMarked(e) \/ AttendanceDropped(e)
  \/ \E s \in Students : StudentDeleted(s)

Spec == Init /\ [][Next]_vars

-----------------------------------------------------------------------------
(* The rows, the requests and what they hold are well formed, and an       *)
(* enrollment that attendance refers to is never removed, although delete  *)
(* does not look for records.                                              *)
TypeOK ==
  /\ enr \in [Enrolments -> Row]
  /\ marked \in SUBSET Enrolments /\ \A e \in marked : Exists(e)
  /\ deleted \in SUBSET Students
  /\ pc \in [Reqs -> Point]
  /\ loc \in [Reqs -> Local]
  /\ out \in [Reqs -> Outcome]

(* Whatever creates, reactivations and transfers race, a student has at    *)
(* most one ACTIVE enrollment in the year.                                 *)
OneActiveEnrollment ==
  \A d, e \in Enrolments : Active(d) /\ Active(e) /\ enr[d].student = enr[e].student => d = e

(* A roll number names at most one active student of a cohort. *)
RollNumbersUnique ==
  \A d, e \in Enrolments :
    /\ Active(d) /\ Active(e)
    /\ enr[d].cohort = enr[e].cohort /\ enr[d].roll = enr[e].roll /\ enr[d].roll # None
    => d = e

(* What a request works on: the enrollment row it has loaded, until it ends *)
Copy(r) == IF pc[r] \in {"update", "transfer", "delete"}
             THEN {[id |-> loc[r].id, row |-> loc[r].row]} ELSE {}

(* "a stale write raises, never overwrites" (db/mixins.py): whatever steps *)
(* updates, transfers and deletions take, who changes or removes an        *)
(* enrollment has loaded exactly the row it changes, and makes the next    *)
(* version of it.                                                          *)
Locking == INSTANCE VersionedRows
  WITH Clients <- Reqs, Ids <- Enrolments, Rows <- Row, NoRow <- NoRow,
       table <- enr, copy <- [r \in Reqs |-> Copy(r)]

ImplementsVersionedRows == Locking!VSpec

(* A loaded state of an enrollment is acted upon once: of the updates,     *)
(* transfers and deletions that loaded it in the same version at most one  *)
(* takes effect, although transfer asks the client for no version.         *)
ActedUponOnce ==
  \A q, r \in Reqs : /\ loc[q].id = loc[r].id /\ loc[q].row = loc[r].row /\ loc[r].id # None
                     /\ out[q] = "written" /\ out[r] = "written"
                     => q = r
=============================================================================
