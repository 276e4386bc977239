----------------------------- MODULE Attendance -----------------------------
(***************************************************************************)
(* Roll calls of one cohort on one date under concurrent requests:         *)
(* app/modules/attendance/service.py.                                      *)
(*                                                                         *)
(* A request is one READ COMMITTED transaction (app/db/session.py): its    *)
(* reads are steps of their own and its writes happen at its commit, since *)
(* the rows and index entries a flush writes stay locked until then.       *)
(* AttendanceSession is versioned, AttendanceRecord is not.  The event a   *)
(* submit enqueues is a row of the same transaction; OutboxDispatcher      *)
(* models what becomes of it.                                              *)
(***************************************************************************)
EXTENDS Naturals

CONSTANTS Reqs,      \* requests; a session is named by the request that made it
          Students,  \* enrollments of the school
          S0,        \* a session made before
          None

ASSUME SessionNames == S0 \notin Reqs /\ None \notin Reqs \cup {S0}

Sessions == Reqs \cup {S0}
Status == {"DRAFT", "SUBMITTED", "AMENDED"}
Marks == {"PRESENT", "ABSENT"}  \* ABSENT: any status but PRESENT
Absent == "NONE"                \* status of a session that has no row
NoMark == "NONE"                \* no record, or a record a request leaves alone

VARIABLES
  sess,      \* attendance_sessions rows of this cohort and date
  rec,       \* attendance_records rows: session -> student -> mark
  enrolled,  \* students with an ACTIVE enrollment in the cohort on the date
  events,    \* ATTENDANCE_SUBMITTED rows of outbox_events, per session
  pc, loc,   \* where each request is and what it has read
  out        \* how it ended

vars == <<sess, rec, enrolled, events, pc, loc, out>>

-----------------------------------------------------------------------------
Session == [status: Status \cup {Absent}, version: Nat, submitted_at: BOOLEAN]
Records == [Students -> Marks \cup {NoMark}]
Point == {"idle", "create_roster", "create_commit", "update", "delete", "submit",
          "amend", "record_session", "record_commit", "bulk", "done"}
(* "refused": a 4xx of the handler; "stale", "integrity": an exception of  *)
(* the flush, which no handler catches; "aborted": the database gave up.   *)
Outcome == {"none", "ok", "refused", "stale", "integrity", "aborted"}
Local == [sid: Sessions \cup {None}, version: Nat, status: Status \cup {Absent},
          to: Status \cup {Absent}, seen: Records, marks: Records]

NoRow == [status |-> Absent, version |-> 0, submitted_at |-> FALSE]
NewRow == [status |-> "DRAFT", version |-> 1, submitted_at |-> FALSE]
NoRecords == [e \in Students |-> NoMark]
AllPresent(S) == [e \in Students |-> IF e \in S THEN "PRESENT" ELSE NoMark]
NoLocal == [sid |-> None, version |-> 0, status |-> Absent, to |-> Absent,
            seen |-> NoRecords, marks |-> NoRecords]

Init ==
  /\ enrolled \in SUBSET Students
  /\ \E row \in {NoRow, NewRow} :
       /\ sess = [s \in Sessions |-> IF s = S0 THEN row ELSE NoRow]
       /\ rec = [s \in Sessions |-> IF s = S0 /\ row = NewRow THEN AllPresent(enrolled)
                                                              ELSE NoRecords]
  /\ events = [s \in Sessions |-> 0]
  /\ pc = [r \in Reqs |-> "idle"]
  /\ loc = [r \in Reqs |-> NoLocal]
  /\ out = [r \in Reqs |-> "none"]

-----------------------------------------------------------------------------
Exists(s) == sess[s].status # Absent
Goto(r, p) == pc' = [pc EXCEPT ![r] = p] /\ UNCHANGED out
Finish(r, o) == pc' = [pc EXCEPT ![r] = "done"] /\ out' = [out EXCEPT ![r] = o]
Load(r, l) == loc' = [loc EXCEPT ![r] = l]
Write(s, row) == sess' = [sess EXCEPT ![s] = row]
(* The row after an UPDATE, which raises the version *)
Updated(s, status, submitted_at) ==
  [status |-> status, version |-> sess[s].version + 1, submitted_at |-> submitted_at]

(* What _get_owned_session loads: the row, and its records by selectinload *)
Loaded(s) == [sid |-> s, version |-> sess[s].version, status |-> sess[s].status,
              to |-> Absent, seen |-> rec[s], marks |-> NoRecords]

(* Faulty variant: attendance_sessions without the version column *)
FreshUnchecked(r) == Exists(loc[r].sid)

(* UPDATE or DELETE ... WHERE id = and version = the loaded ones finds a row *)
Fresh(r) == Exists(loc[r].sid) /\ sess[loc[r].sid].version = loc[r].version

(* Faulty variant: no unique constraint *)
SlotFreeUnchecked == TRUE

(* uq_attendance_session_cohort_date admits another row *)
SlotFree == \A s \in Sessions : ~Exists(s)

(* Faulty variant: attendance_records without the foreign key *)
SessionThereUnchecked(r) == TRUE

(* The foreign key attendance_records.session_id admits a row *)
SessionThere(r) == Exists(loc[r].sid)

(* A check of the handler fails: unknown session or record, a status the   *)
(* operation does not take, another version than the client's.  Nothing is *)
(* written, and a client can always cause it.                              *)
Refused(r) ==
  /\ pc[r] \in {"idle", "record_session"}
  /\ Finish(r, "refused")
  /\ UNCHANGED <<sess, rec, enrolled, events, loc>>

(* create_session finds no session for the cohort and date. *)
CreateRead(r) ==
  /\ pc[r] = "idle"
  /\ \A s \in Sessions : ~Exists(s)
  /\ Goto(r, "create_roster")
  /\ UNCHANGED <<sess, rec, enrolled, events, loc>>

(* create_session reads the active enrollments, after the INSERT. *)
CreateRoster(r) ==
  /\ pc[r] = "create_roster"
  /\ Load(r, [NoLocal EXCEPT !.marks = AllPresent(enrolled)])
  /\ Goto(r, "create_commit")
  /\ UNCHANGED <<sess, rec, enrolled, events>>

CreateCommit(r) ==
  /\ pc[r] = "create_commit"
  /\ IF SlotFree
       THEN /\ Write(r, NewRow)
            /\ rec' = [rec EXCEPT ![r] = loc[r].marks]
            /\ Finish(r, "ok")
       ELSE Finish(r, "integrity") /\ UNCHANGED <<sess, rec>>
  /\ UNCHANGED <<enrolled, events, loc>>

(* update_session, delete_session, submit_session and amend_session load   *)
(* the session and check its status and version against the client's.      *)
UpdateRead(r, s, to) ==
  /\ pc[r] = "idle"
  /\ sess[s].status = "DRAFT"
  /\ Load(r, [Loaded(s) EXCEPT !.to = to])
  /\ Goto(r, "update")
  /\ UNCHANGED <<sess, rec, enrolled, events>>

(* The payload's status, if any, is assigned like its notes.  (An update   *)
(* or amendment without any net change writes no row: it is left out.)     *)
UpdateCommit(r) ==
  /\ pc[r] = "update"
  /\ IF Fresh(r)
       THEN LET s == loc[r].sid
            IN  /\ Write(s, Updated(s, loc[r].to, sess[s].submitted_at))
                /\ Finish(r, "ok")
       ELSE Finish(r, "stale") /\ UNCHANGED sess
  /\ UNCHANGED <<rec, enrolled, events, loc>>

DeleteRead(r, s) ==
  /\ pc[r] = "idle"
  /\ sess[s].status = "DRAFT"
  /\ Load(r, Loaded(s))
  /\ Goto(r, "delete")
  /\ UNCHANGED <<sess, rec, enrolled, events>>

(* The relationship has no delete cascade: the flush first sets session_id *)
(* of the loaded records to NULL, which the column refuses.  Records that  *)
(* came after the load go with the row (ON DELETE CASCADE).                *)
DeleteCommit(r) ==
  /\ pc[r] = "delete"
  /\ \/ /\ loc[r].seen # NoRecords
        /\ Finish(r, "integrity")
        /\ UNCHANGED <<sess, rec>>
     \/ /\ loc[r].seen = NoRecords
        /\ IF Fresh(r)
             THEN LET s == loc[r].sid
                  IN  /\ Write(s, [sess[s] EXCEPT !.status = Absent])
                      /\ rec' = [rec EXCEPT ![s] = NoRecords]
                      /\ Finish(r, "ok")
             ELSE Finish(r, "stale") /\ UNCHANGED <<sess, rec>>
  /\ UNCHANGED <<enrolled, events, loc>>

SubmitRead(r, s) ==
  /\ pc[r] = "idle"
  /\ sess[s].status = "DRAFT"
  /\ Load(r, Loaded(s))
  /\ Goto(r, "submit")
  /\ UNCHANGED <<sess, rec, enrolled, events>>

(* The event is enqueued in the transaction of the submit. *)
SubmitCommit(r) ==
  /\ pc[r] = "submit"
  /\ IF Fresh(r)
       THEN LET s == loc[r].sid
            IN  /\ Write(s, Updated(s, "SUBMITTED", TRUE))
                /\ events' = [events EXCEPT ![s] = @ + 1]
                /\ Finish(r, "ok")
       ELSE Finish(r, "stale") /\ UNCHANGED <<sess, events>>
  /\ UNCHANGED <<rec, enrolled, loc>>

AmendRead(r, s) ==
  /\ pc[r] = "idle"
  /\ sess[s].status \in {"SUBMITTED", "AMENDED"}
  /\ Load(r, Loaded(s))
  /\ Goto(r, "amend")
  /\ UNCHANGED <<sess, rec, enrolled, events>>

AmendCommit(r) ==
  /\ pc[r] = "amend"
  /\ IF Fresh(r)
       THEN LET s == loc[r].sid
            IN  /\ Write(s, Updated(s, "AMENDED", sess[s].submitted_at))
                /\ Finish(r, "ok")
       ELSE Finish(r, "stale") /\ UNCHANGED sess
  /\ UNCHANGED <<rec, enrolled, events, loc>>

(* update_record loads the record (its session and version are not used) ... *)
RecordRead(r, s, e, m) ==
  /\ pc[r] = "idle"
  /\ rec[s][e] # NoMark
  /\ Load(r, [Loaded(s) EXCEPT !.marks = [NoRecords EXCEPT ![e] = m]])
  /\ Goto(r, "record_session")
  /\ UNCHANGED <<sess, rec, enrolled, events>>

(* ... and then its session, which must not be SUBMITTED. *)
RecordSession(r) ==
  /\ pc[r] = "record_session"
  /\ sess[loc[r].sid].status \in {"DRAFT", "AMENDED"}
  /\ Goto(r, "record_commit")
  /\ UNCHANGED <<sess, rec, enrolled, events, loc>>

(* The records that request r asks for, over those the table holds *)
Marked(r, asked) ==
  [e \in Students |-> IF e \in asked THEN loc[r].marks[e] ELSE rec[loc[r].sid][e]]
Asked(r) == {e \in Students : loc[r].marks[e] # NoMark}
Changed(r) == {e \in Asked(r) : loc[r].marks[e] # loc[r].seen[e]}

(* Only changed columns are written, to a row that must still be there. *)
RecordCommit(r) ==
  /\ pc[r] = "record_commit"
  /\ IF \A e \in Changed(r) : rec[loc[r].sid][e] # NoMark
       THEN /\ rec' = [rec EXCEPT ![loc[r].sid] = Marked(r, Changed(r))]
            /\ Finish(r, "ok")
       ELSE Finish(r, "stale") /\ UNCHANGED rec
  /\ UNCHANGED <<sess, enrolled, events, loc>>

(* bulk_update_records takes enrollments of the school, in the cohort or not. *)
BulkRead(r, s, marks) ==
  /\ pc[r] = "idle"
  /\ sess[s].status \in {"DRAFT", "AMENDED"}
  /\ Load(r, [Loaded(s) EXCEPT !.marks = marks])
  /\ Goto(r, "bulk")
  /\ UNCHANGED <<sess, rec, enrolled, events>>

(* INSERT ... ON CONFLICT DO UPDATE per record; the foreign key needs the session. *)
BulkCommit(r) ==
  /\ pc[r] = "bulk"
  /\ IF SessionThere(r)
       THEN /\ rec' = [rec EXCEPT ![loc[r].sid] = Marked(r, Asked(r))]
            /\ Finish(r, "ok")
       ELSE Finish(r, "integrity") /\ UNCHANGED rec
  /\ UNCHANGED <<sess, enrolled, events, loc>>

(* A lost connection or a lock deadlock: the transaction is rolled back. *)
Abort(r) ==
  /\ pc[r] \notin {"idle", "done"}
  /\ Finish(r, "aborted")
  /\ UNCHANGED <<sess, rec, enrolled, events, loc>>

(* Enrollments come and go (app/modules/students/enrollments). *)
EnrollmentChange ==
  /\ \E e \in Students :
       enrolled' = IF e \in enrolled THEN enrolled \ {e} ELSE enrolled \cup {e}
  /\ UNCHANGED <<sess, rec, events, pc, loc, out>>

Step(r) ==
  \/ Refused(r) \/ Abort(r)
  \/ CreateRead(r) \/ CreateRoster(r) \/ CreateCommit(r)
  \/ \E s \in Sessions :
       \/ \E to \in Status : UpdateRead(r, s, to)
       \/ DeleteRead(r, s) \/ SubmitRead(r, s) \/ AmendRead(r, s)
       \/ \E e \in Students, m \in Marks : RecordRead(r, s, e, m)
       \/ \E marks \in Records : BulkRead(r, s, marks)
  \/ UpdateCommit(r) \/ DeleteCommit(r) \/ SubmitCommit(r) \/ AmendCommit(r)
  \/ RecordSession(r) \/ RecordCommit(r) \/ BulkCommit(r)

Next == (\E r \in Reqs : Step(r)) \/ EnrollmentChange

Spec == Init /\ [][Next]_vars

-----------------------------------------------------------------------------
(* The rows, the requests and what they hold are well formed, and no       *)
(* record is without its session, however bulk updates and deletions race. *)
TypeOK ==
  /\ sess \in [Sessions -> Session]
  /\ rec \in [Sessions -> Records]
  /\ enrolled \in SUBSET Students
  /\ events \in [Sessions -> Nat]
  /\ pc \in [Reqs -> Point]
  /\ loc \in [Reqs -> Local]
  /\ out \in [Reqs -> Outcome]
  /\ \A s \in Sessions : Exists(s) \/ rec[s] = NoRecords

(* Two create_session requests that both found the date free do not both   *)
(* make a session: a cohort has one roll call per date.                    *)
OneSessionPerDate == \A s, t \in Sessions : Exists(s) /\ Exists(t) => s = t

(* However submits, updates, amendments and deletions of a session race,   *)
(* at most one ATTENDANCE_SUBMITTED event is enqueued for it, and exactly  *)
(* when submitted_at is set: parents are not notified twice.               *)
AnnouncedOnce == \A s \in Sessions : events[s] = (IF sess[s].submitted_at THEN 1 ELSE 0)

(* A session whose event is enqueued is neither deleted nor a draft, by    *)
(* any request that loaded it while it was a draft.                        *)
AnnouncedStays == \A s \in Sessions : events[s] > 0 => sess[s].status \in {"SUBMITTED", "AMENDED"}

(* A session leaves DRAFT for good: no request brings it back or removes it. *)
NoReopen ==
  [][\A s \in Sessions : sess[s].status \in {"SUBMITTED", "AMENDED"}
                           => sess'[s].status \in {"SUBMITTED", "AMENDED"}]_vars

(* The columns of a session that a request compares or decides by; a       *)
(* deleted row has none.                                                   *)
Kept(s) == [status |-> sess[s].status, version |-> IF Exists(s) THEN sess[s].version ELSE 0]

(* What a request works on: those of the session it has loaded *)
Copy(r) == IF pc[r] \in {"update", "delete", "submit", "amend"}
             THEN {[id |-> loc[r].sid, row |-> [status |-> loc[r].status, version |-> loc[r].version]]}
             ELSE {}

(* "a stale write raises, never overwrites" (db/mixins.py): whatever steps *)
(* updates, deletions, submits and amendments take, who changes or removes *)
(* a session has loaded the status it has, and makes the next version.     *)
Locking == INSTANCE VersionedRows
  WITH Clients <- Reqs, Ids <- Sessions, Rows <- [status: Status, version: Nat],
       NoRow <- [status |-> Absent, version |-> 0],
       table <- [s \in Sessions |-> Kept(s)], copy <- [r \in Reqs |-> Copy(r)]

ImplementsVersionedRows == Locking!VSpec
=============================================================================
