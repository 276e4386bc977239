--------------------------- MODULE TimetableSlots ---------------------------
(***************************************************************************)
(* Period definitions and timetable slots under concurrent requests:       *)
(* app/modules/timetables/service.py and repository.py.                    *)
(*                                                                         *)
(* The periods of one school year and the slots of one day of the week, as *)
(* slots of different days never meet.  A request is one READ COMMITTED    *)
(* transaction: its checks are queries of their own, its writes one step.  *)
(* Slots are versioned, periods are not.  The timetable headers are left   *)
(* out: ck_audit_logs_action refuses each of their transactions.           *)
(***************************************************************************)
EXTENDS Naturals

CONSTANTS Reqs,      \* requests; a period or slot is named by the request that made it
          Teachers, Cohorts, Names,
          LastDate,  \* bound: dates are 1 .. LastDate
          Today,     \* the date of a cancellation
          P0, S0,    \* a period and a slot made before
          None       \* SQL NULL, no row

ASSUME NamesAssumption ==
  /\ P0 \notin Reqs /\ S0 \notin Reqs
  /\ None \notin Reqs \cup {P0, S0} /\ None \notin Names /\ None \notin Nat
ASSUME DatesAssumption == LastDate \in Nat /\ Today \in 1 .. LastDate

Periods == Reqs \cup {P0}
Slots == Reqs \cup {S0}
Dates == 1 .. LastDate
Status == {"ACTIVE", "CANCELLED"}  \* CANCELLED: or SUBSTITUTED
Absent == "NONE"                   \* no such row

VARIABLES
  per,      \* period_definitions: the name of each, None: no such row
  slot,     \* timetable_slots rows
  pc, loc,  \* where each request is and what it has read
  out,      \* how it ended
  writer,   \* history: the request that wrote a slot last, None: before
  past      \* history: the requests that had written when this one looked for cohort conflicts

vars == <<per, slot, pc, loc, out, writer, past>>

-----------------------------------------------------------------------------
Slot == [cohort: Cohorts \cup {None}, period: Periods \cup {None}, teacher: Teachers \cup {None},
         from: Dates \cup {None}, to: Dates \cup {None}, status: Status \cup {Absent}, version: Nat]
Point == {"idle", "period_insert", "period_update", "period_delete", "slot_cohort", "slot_insert",
          "slot_recheck", "slot_update", "slot_cancel", "done"}
(* "written": a change was committed; "nothing": an update that changed no *)
(* column, a 4xx, or an exception of the flush that nothing catches.       *)
Outcome == {"none", "written", "nothing"}
(* The period or slot a request loaded, a period's name as loaded and as   *)
(* it is to be, a slot's row as loaded and as it is to be.                 *)
Local == [id: Reqs \cup {P0, S0, None}, was: Names \cup {None}, name: Names \cup {None},
          row: Slot, new: Slot]

NoSlot == [cohort |-> None, period |-> None, teacher |-> None, from |-> None, to |-> None,
           status |-> Absent, version |-> 0]
NewSlot(c, p, t, from, to) ==
  [cohort |-> c, period |-> p, teacher |-> t, from |-> from, to |-> to,
   status |-> "ACTIVE", version |-> 1]
Changed(row, t, to, status) ==
  [cohort |-> row.cohort, period |-> row.period, teacher |-> t, from |-> row.from, to |-> to,
   status |-> status, version |-> row.version + 1]
PeriodLocal(p, was, name) == [id |-> p, was |-> was, name |-> name, row |-> NoSlot, new |-> NoSlot]
SlotLocal(s, row, new) == [id |-> s, was |-> None, name |-> None, row |-> row, new |-> new]

Init ==
  /\ \E n \in Names : per = [p \in Periods |-> IF p = P0 THEN n ELSE None]
  /\ \/ slot = [s \in Slots |-> NoSlot]
     \/ \E c \in Cohorts, t \in Teachers, from \in Dates, to \in Dates \cup {None} :
          slot = [s \in Slots |-> IF s = S0 THEN NewSlot(c, P0, t, from, to) ELSE NoSlot]
  /\ pc = [r \in Reqs |-> "idle"]
  /\ loc = [r \in Reqs |-> SlotLocal(None, NoSlot, NoSlot)]
  /\ out = [r \in Reqs |-> "none"]
  /\ writer = [s \in Slots |-> None]
  /\ past = [r \in Reqs |-> {}]

-----------------------------------------------------------------------------
Exists(s) == slot[s].status # Absent
Active(s) == slot[s].status = "ACTIVE"
Hold(r, l) == loc' = [loc EXCEPT ![r] = l]
Goto(r, p) == pc' = [pc EXCEPT ![r] = p] /\ UNCHANGED out
Finish(r, o) == /\ pc' = [pc EXCEPT ![r] = "done"]
                /\ out' = [out EXCEPT ![r] = o]
                /\ Hold(r, SlotLocal(None, NoSlot, NoSlot))
History == <<writer, past>>

(* The date conditions of both conflict queries; b is the stored slot. *)
Overlap(a, b) ==
  /\ a.to = None \/ b.from <= a.to
  /\ b.to = None \/ b.to >= a.from

(* check_teacher_conflict and check_cohort_conflict, excluding slots of but *)
TeacherConflict(row, but) ==
  \E s \in Slots \ but : /\ Active(s)
                         /\ slot[s].teacher = row.teacher /\ slot[s].period = row.period
                         /\ Overlap(row, slot[s])

(* Faulty variant: a comparison with the NULL of an open-ended slot finds  *)
(* no other slot.                                                          *)
CohortConflictDated(row, but) ==
  row.to # None /\ \E s \in Slots \ but : /\ Active(s)
                                        /\ slot[s].cohort = row.cohort /\ slot[s].period = row.period
                                        /\ Overlap(row, slot[s])

CohortConflict(row, but) ==
  \E s \in Slots \ but : /\ Active(s)
                         /\ slot[s].cohort = row.cohort /\ slot[s].period = row.period
                         /\ Overlap(row, slot[s])

(* Faulty variant: timetable_slots without the version column *)
FreshUnchecked(r) == Exists(loc[r].id)

(* UPDATE ... WHERE id = and version = the loaded ones finds a row *)
Fresh(r) == Exists(loc[r].id) /\ slot[loc[r].id].version = loc[r].row.version

(* uq_period_def_school_year_name *)
NameFree(n, but) == \A p \in Periods \ but : per[p] # n

(* uq_slot_cohort_period_day_date, whatever the status *)
StartFree(row) ==
  \A s \in Slots : Exists(s) =>
    \/ slot[s].cohort # row.cohort \/ slot[s].period # row.period \/ slot[s].from # row.from

(* Faulty variant: no foreign key from timetable_slots *)
UnreferencedUnchecked(p) == TRUE

(* ON DELETE RESTRICT of timetable_slots.period_definition_id *)
Unreferenced(p) == \A s \in Slots : Exists(s) => slot[s].period # p

(* A check fails: no such row, another version than the client's, a name   *)
(* taken, a referenced period, a conflict.  Nothing is written.            *)
Refused(r) ==
  /\ pc[r] \in {"idle", "slot_cohort", "slot_recheck"}
  /\ Finish(r, "nothing")
  /\ UNCHANGED <<per, slot, History>>

(* A lost connection or a lock deadlock: the transaction is rolled back. *)
Abort(r) ==
  /\ pc[r] \notin {"idle", "done"}
  /\ Finish(r, "nothing")
  /\ UNCHANGED <<per, slot, History>>

-----------------------------------------------------------------------------
(* Period definitions                                                      *)

CreatePeriodRead(r, n) ==
  /\ pc[r] = "idle"
  /\ \A p \in Periods : per[p] # n
  /\ Hold(r, PeriodLocal(None, None, n))
  /\ Goto(r, "period_insert")
  /\ UNCHANGED <<per, slot, History>>

CreatePeriodCommit(r) ==
  /\ pc[r] = "period_insert"
  /\ IF NameFree(loc[r].name, {})
       THEN per' = [per EXCEPT ![r] = loc[r].name] /\ Finish(r, "written")
       ELSE UNCHANGED per /\ Finish(r, "nothing")
  /\ UNCHANGED <<slot, History>>

UpdatePeriodRead(r, p, n) ==
  /\ pc[r] = "idle"
  /\ per[p] # None
  /\ Hold(r, PeriodLocal(p, per[p], n))
  /\ Goto(r, "period_update")
  /\ UNCHANGED <<per, slot, History>>

(* The name is written when it differs from the loaded one, unchecked and  *)
(* over whatever name it has by then; a deleted row is an error.           *)
UpdatePeriodCommit(r) ==
  /\ pc[r] = "period_update"
  /\ \/ loc[r].name = loc[r].was /\ UNCHANGED per /\ Finish(r, "nothing")
     \/ /\ loc[r].name # loc[r].was
        /\ IF per[loc[r].id] # None /\ NameFree(loc[r].name, {loc[r].id})
             THEN per' = [per EXCEPT ![loc[r].id] = loc[r].name] /\ Finish(r, "written")
             ELSE UNCHANGED per /\ Finish(r, "nothing")
  /\ UNCHANGED <<slot, History>>

DeletePeriodRead(r, p) ==
  /\ pc[r] = "idle"
  /\ per[p] # None
  /\ \A s \in Slots : slot[s].period # p
  /\ Hold(r, PeriodLocal(p, per[p], None))
  /\ Goto(r, "period_delete")
  /\ UNCHANGED <<per, slot, History>>

(* Deleting a row that is gone is no error for an unversioned table. *)
DeletePeriodCommit(r) ==
  /\ pc[r] = "period_delete"
  /\ IF Unreferenced(loc[r].id)
       THEN per' = [per EXCEPT ![loc[r].id] = None] /\ Finish(r, "written")
       ELSE UNCHANGED per /\ Finish(r, "nothing")
  /\ UNCHANGED <<slot, History>>

-----------------------------------------------------------------------------
(* Slots                                                                   *)

CreateSlotTeacher(r, c, p, t, from, to) ==
  /\ pc[r] = "idle"
  /\ ~TeacherConflict(NewSlot(c, p, t, from, to), {})
  /\ Hold(r, SlotLocal(None, NoSlot, NewSlot(c, p, t, from, to)))
  /\ Goto(r, "slot_cohort")
  /\ UNCHANGED <<per, slot, History>>

Looked(r) == past' = [past EXCEPT ![r] = {q \in Reqs : out[q] = "written"}]

CreateSlotCohort(r) ==
  /\ pc[r] = "slot_cohort"
  /\ ~CohortConflict(loc[r].new, {})
  /\ per[loc[r].new.period] # None
  /\ Looked(r)
  /\ Goto(r, "slot_insert")
  /\ UNCHANGED <<per, slot, loc, writer>>

CreateSlotCommit(r) ==
  /\ pc[r] = "slot_insert"
  /\ IF StartFree(loc[r].new) /\ per[loc[r].new.period] # None
       THEN /\ slot' = [slot EXCEPT ![r] = loc[r].new]
            /\ writer' = [writer EXCEPT ![r] = r]
            /\ Finish(r, "written")
       ELSE UNCHANGED <<slot, writer>> /\ Finish(r, "nothing")
  /\ UNCHANGED <<per, past>>

(* update_slot: the payload may change teacher, end and status; only a     *)
(* payload with a teacher is checked for teacher conflicts.                *)
UpdateSlotRead(r, s, t, to, status) ==
  /\ pc[r] = "idle"
  /\ Exists(s)
  /\ LET row == slot[s]
         new == Changed(row, IF t = None THEN row.teacher ELSE t,
                             IF to = None THEN row.to ELSE to, status)
     IN  /\ t # None => ~TeacherConflict(new, {s})
         /\ Hold(r, SlotLocal(s, row, new))
  /\ Goto(r, "slot_recheck")
  /\ UNCHANGED <<per, slot, History>>

UpdateSlotCohort(r) ==
  /\ pc[r] = "slot_recheck"
  /\ ~CohortConflict(loc[r].new, {loc[r].id})
  /\ Looked(r)
  /\ Goto(r, "slot_update")
  /\ UNCHANGED <<per, slot, loc, writer>>

(* delete_slot: a soft cancellation, without a version of the client *)
CancelSlotRead(r, s) ==
  /\ pc[r] = "idle"
  /\ Exists(s)
  /\ Hold(r, SlotLocal(s, slot[s], Changed(slot[s], slot[s].teacher, Today, "CANCELLED")))
  /\ Goto(r, "slot_cancel")
  /\ UNCHANGED <<per, slot, History>>

(* SQLAlchemy writes, and bumps the version, when a column changes; the    *)
(* columns that are not modelled (notes, subject, updated_by_id) may.      *)
WriteSlotCommit(r) ==
  /\ pc[r] \in {"slot_update", "slot_cancel"}
  /\ LET row == loc[r].row
         new == loc[r].new
     IN  \/ /\ new.teacher = row.teacher /\ new.to = row.to /\ new.status = row.status
            /\ UNCHANGED <<slot, writer>> /\ Finish(r, "nothing")
         \/ IF Fresh(r)
              THEN /\ slot' = [slot EXCEPT ![loc[r].id] = new]
                   /\ writer' = [writer EXCEPT ![loc[r].id] = r]
                   /\ Finish(r, "written")
              ELSE UNCHANGED <<slot, writer>> /\ Finish(r, "nothing")
  /\ UNCHANGED <<per, past>>

PeriodStep(r) ==
  \/ \E n \in Names : CreatePeriodRead(r, n)
  \/ \E p \in Periods, n \in Names : UpdatePeriodRead(r, p, n)
  \/ \E p \in Periods : DeletePeriodRead(r, p)
  \/ CreatePeriodCommit(r) \/ UpdatePeriodCommit(r) \/ DeletePeriodCommit(r)

SlotStep(r) ==
  \/ \E c \in Cohorts, p \in Periods, t \in Teachers, from \in Dates, to \in Dates \cup {None} :
       CreateSlotTeacher(r, c, p, t, from, to)
  \/ \E s \in Slots, t \in Teachers \cup {None}, to \in Dates \cup {None}, status \in Status :
       UpdateSlotRead(r, s, t, to, status)
  \/ \E s \in Slots : CancelSlotRead(r, s)
  \/ CreateSlotCohort(r) \/ CreateSlotCommit(r) \/ UpdateSlotCohort(r) \/ WriteSlotCommit(r)

Next == \E r \in Reqs : PeriodStep(r) \/ SlotStep(r) \/ Refused(r) \/ Abort(r)

Spec == Init /\ [][Next]_vars

-----------------------------------------------------------------------------
(* The tables and what requests hold are well formed, and every slot has   *)
(* its period: delete_period checks before its commit, not at it.          *)
TypeOK ==
  /\ per \in [Periods -> Names \cup {None}]
  /\ slot \in [Slots -> Slot]
  /\ \A s \in Slots : Exists(s) => slot[s].period \in Periods /\ per[slot[s].period] # None
  /\ pc \in [Reqs -> Point]
  /\ loc \in [Reqs -> Local]
  /\ out \in [Reqs -> Outcome]
  /\ writer \in [Slots -> Reqs \cup {None}]
  /\ past \in [Reqs -> SUBSET Reqs]

(* create_period checks the name before its commit and update_period not   *)
(* at all: names stay unique in the year.                                  *)
PeriodNamesUnique == \A p, q \in Periods : per[p] = per[q] /\ per[p] # None => p = q

(* Two active slots of a cohort in the same period on overlapping dates.   *)
CohortClash(d, e) ==
  /\ d # e /\ Active(d) /\ Active(e)
  /\ slot[d].cohort = slot[e].cohort /\ slot[d].period = slot[e].period
  /\ Overlap(slot[d], slot[e])

(* "This cohort already has an active slot at this period and day."        *)
(* (create_slot, update_slot): no sequence of requests books a cohort      *)
(* twice; a clash comes only from two requests that ran side by side, each *)
(* looking for conflicts before the other had written.                     *)
CohortClashOnlyRaced ==
  \A d, e \in Slots : CohortClash(d, e) =>
    /\ writer[d] \in Reqs /\ writer[e] \in Reqs
    /\ writer[d] \notin past[writer[e]] /\ writer[e] \notin past[writer[d]]

(* What a request works on: the slot row it has loaded, until it ends *)
Copy(r) == IF pc[r] \in {"slot_recheck", "slot_update", "slot_cancel"}
             THEN {[id |-> loc[r].id, row |-> loc[r].row]} ELSE {}

(* "a stale write raises, never overwrites" (db/mixins.py): whatever steps *)
(* updates, cancellations and creations take, who changes a slot has       *)
(* loaded exactly the row it changes, and makes the next version of it.    *)
Locking == INSTANCE VersionedRows
  WITH Clients <- Reqs, Ids <- Slots, Rows <- Slot, NoRow <- NoSlot,
       table <- slot, copy <- [r \in Reqs |-> Copy(r)]

ImplementsVersionedRows == Locking!VSpec
=============================================================================
