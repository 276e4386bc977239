-------------------------- MODULE AttendanceProofs --------------------------
(***************************************************************************)
(* Proofs about Attendance for any number of requests and students.        *)
(*                                                                         *)
(* The invariants are not inductive alone: whether a commit may write is   *)
(* decided by what the request read before.  SeenInv says what the version *)
(* column guarantees: a request whose version still matches has seen the   *)
(* status the row still has.  HeldInv and MadeInv say that a session is    *)
(* made once, before anybody can hold it, so its versions only grow.       *)
(***************************************************************************)
EXTENDS Attendance, TLAPS

Versioned == {"update", "delete", "submit", "amend"}
Holding == Versioned \cup {"record_session", "record_commit", "bulk"}
Submitted == {"SUBMITTED", "AMENDED"}

HeldInv == \A q \in Reqs : pc[q] \in Holding =>
             /\ loc[q].sid \in Sessions
             /\ loc[q].sid \in Reqs => pc[loc[q].sid] = "done"
MadeInv == \A s \in Reqs : pc[s] # "done" => sess[s] = NoRow
SeenInv == \A q \in Reqs : pc[q] \in Versioned =>
             /\ loc[q].version <= sess[loc[q].sid].version
             /\ Fresh(q) => sess[loc[q].sid].status = loc[q].status
             /\ pc[q] = "amend" => loc[q].status \in Submitted
             /\ pc[q] # "amend" => loc[q].status = "DRAFT"
             /\ pc[q] = "update" => loc[q].to \in Status
SubmitInv == \A s \in Sessions : sess[s].submitted_at => sess[s].status \in Submitted

IInv == TypeOK /\ HeldInv /\ MadeInv /\ SeenInv /\ SubmitInv /\ AnnouncedOnce /\ OneSessionPerDate

-----------------------------------------------------------------------------
(* Shapes                                                                  *)

(* What a DELETE and an UPDATE leave of a session row. *)
LEMMA StatusWritten ==
  \A x \in Session, st \in Status \cup {Absent} :
    /\ [x EXCEPT !.status = st] \in Session
    /\ [x EXCEPT !.status = st].status = st
    /\ [x EXCEPT !.status = st].version = x.version
    /\ [x EXCEPT !.status = st].submitted_at = x.submitted_at
  BY DEF Session

LEMMA UpdatedRow ==
  ASSUME NEW s, sess[s].version \in Nat, NEW st \in Status, NEW b \in BOOLEAN
  PROVE  /\ Updated(s, st, b) \in Session
         /\ Updated(s, st, b).status = st
         /\ Updated(s, st, b).version = sess[s].version + 1
         /\ Updated(s, st, b).submitted_at = b
  BY DEF Updated, Session

(* The constant rows and records are well formed. *)
LEMMA ConstantTypes ==
  /\ NoRow \in Session /\ NewRow \in Session
  /\ NoRow.status = Absent /\ NoRow.version = 0 /\ NoRow.submitted_at = FALSE
  /\ NewRow.status = "DRAFT" /\ NewRow.version = 1 /\ NewRow.submitted_at = FALSE
  /\ NoRecords \in Records
  /\ NoLocal \in Local
  /\ \A S : AllPresent(S) \in Records
  /\ Absent \notin Status
  BY DEF NoRow, NewRow, Session, NoRecords, Records, NoLocal, Local, AllPresent, Marks,
         NoMark, Absent, Status

(* The fields of what a request holds. *)
LEMMA LocalFacts ==
  ASSUME NEW l \in Local
  PROVE  /\ \A to \in Status : /\ [l EXCEPT !.to = to] \in Local
                               /\ [l EXCEPT !.to = to].sid = l.sid
                               /\ [l EXCEPT !.to = to].version = l.version
                               /\ [l EXCEPT !.to = to].status = l.status
                               /\ [l EXCEPT !.to = to].to = to
         /\ \A m \in Records : /\ [l EXCEPT !.marks = m] \in Local
                               /\ [l EXCEPT !.marks = m].sid = l.sid
                               /\ [l EXCEPT !.marks = m].version = l.version
                               /\ [l EXCEPT !.marks = m].status = l.status
  BY DEF Local

(* Loading a session gives the request its row and its records. *)
LEMMA LoadedFacts ==
  ASSUME TypeOK, NEW s \in Sessions
  PROVE  /\ Loaded(s) \in Local
         /\ Loaded(s).sid = s
         /\ Loaded(s).version = sess[s].version
         /\ Loaded(s).status = sess[s].status
  <1>1. sess[s] \in Session /\ rec[s] \in Records
    BY DEF TypeOK
  <1>2. sess[s].version \in Nat /\ sess[s].status \in Status \cup {Absent}
    BY <1>1 DEF Session
  <1> QED
    BY <1>1, <1>2, ConstantTypes DEF Loaded, Local

-----------------------------------------------------------------------------
(* Frames                                                                  *)

(* A request that moves to a point where it holds nothing, while the rows  *)
(* of the sessions only gain versions or go, disturbs nobody.              *)
LEMMA Frame ==
  ASSUME IInv, NEW r \in Reqs, NEW p, p \notin Holding, pc[r] # "done",
         pc' = [pc EXCEPT ![r] = p], \A q \in Reqs : q # r => loc'[q] = loc[q],
         \A s \in Sessions : \/ sess'[s] = sess[s]
                             \/ /\ sess[s].version < sess'[s].version
                                /\ sess'[s].version \in Nat
                             \/ sess'[s].version = sess[s].version /\ sess'[s].status = Absent,
         \A s \in Reqs : s # r /\ pc[s] # "done" => sess'[s] = sess[s],
         p # "done" => sess'[r] = sess[r]
  PROVE  HeldInv' /\ MadeInv' /\ SeenInv'
  <1>0. pc \in [Reqs -> Point] /\ sess \in [Sessions -> Session] /\ loc \in [Reqs -> Local]
    BY DEF IInv, TypeOK
  <1>1. HeldInv'
    BY <1>0 DEF IInv, HeldInv
  <1>2. MadeInv'
    BY <1>0 DEF IInv, MadeInv
  <1>3. ASSUME NEW q \in Reqs, pc'[q] \in Versioned
        PROVE  /\ loc'[q].version <= sess'[loc'[q].sid].version
               /\ Fresh(q)' => sess'[loc'[q].sid].status = loc'[q].status
               /\ pc'[q] = "amend" => loc'[q].status \in Submitted
               /\ pc'[q] # "amend" => loc'[q].status = "DRAFT"
               /\ pc'[q] = "update" => loc'[q].to \in Status
    <2>1. q # r /\ pc'[q] = pc[q] /\ loc'[q] = loc[q]
      BY <1>0, <1>3 DEF Holding
    <2>2. loc[q].sid \in Sessions /\ loc[q].version \in Nat
      BY <1>0, <1>3, <2>1 DEF IInv, HeldInv, Holding, Local
    <2>3. sess[loc[q].sid].version \in Nat
      BY <1>0, <2>2 DEF Session
    <2>4. /\ loc[q].version <= sess[loc[q].sid].version
          /\ Fresh(q) => sess[loc[q].sid].status = loc[q].status
          /\ pc[q] = "amend" => loc[q].status \in Submitted
          /\ pc[q] # "amend" => loc[q].status = "DRAFT"
          /\ pc[q] = "update" => loc[q].to \in Status
      BY <1>3, <2>1 DEF IInv, SeenInv
    <2>5. loc[q].version <= sess'[loc[q].sid].version
      BY <2>2, <2>3, <2>4
    <2>6. Fresh(q)' => sess'[loc[q].sid].status = loc[q].status
      BY <2>1, <2>2, <2>3, <2>4 DEF Fresh, Exists
    <2> QED
      BY <2>1, <2>4, <2>5, <2>6
  <1>4. SeenInv'
    BY <1>3 DEF SeenInv
  <1> QED
    BY <1>1, <1>2, <1>4

(* Nothing that the invariant of the rows speaks of changes. *)
LEMMA RowsKept ==
  ASSUME IInv, UNCHANGED <<sess, events>>
  PROVE  SubmitInv' /\ AnnouncedOnce' /\ OneSessionPerDate'
  BY DEF IInv, SubmitInv, AnnouncedOnce, OneSessionPerDate, Exists

(* A request that loads a session holds one that is made. *)
LEMMA Loading ==
  ASSUME IInv, NEW r \in Reqs, NEW s \in Sessions, NEW p \in Holding, NEW l \in Local,
         pc[r] = "idle", pc' = [pc EXCEPT ![r] = p], loc' = [loc EXCEPT ![r] = l],
         UNCHANGED sess, Exists(s), l.sid = s,
         p \in Versioned =>
           /\ l.version = sess[s].version /\ l.status = sess[s].status
           /\ p = "amend" => l.status \in Submitted
           /\ p # "amend" => l.status = "DRAFT"
           /\ p = "update" => l.to \in Status
  PROVE  HeldInv' /\ MadeInv' /\ SeenInv'
  <1>0. pc \in [Reqs -> Point] /\ sess \in [Sessions -> Session] /\ loc \in [Reqs -> Local]
    BY DEF IInv, TypeOK
  <1>1. s \in Reqs => pc[s] = "done"
    BY ConstantTypes DEF IInv, MadeInv, Exists
  <1>2. HeldInv'
    BY <1>0, <1>1 DEF IInv, HeldInv
  <1>3. MadeInv'
    BY <1>0 DEF IInv, MadeInv
  <1>4. SeenInv'
    <2>1. sess[s].version \in Nat
      BY <1>0 DEF Session
    <2> QED
      BY <1>0, <2>1 DEF IInv, SeenInv, Fresh, Exists
  <1> QED
    BY <1>2, <1>3, <1>4

-----------------------------------------------------------------------------
(* One lemma per action                                                    *)

(* Steps that only end a request. *)
LEMMA EndStep ==
  ASSUME IInv, NEW r \in Reqs, Refused(r) \/ Abort(r)
  PROVE  IInv'
  <1>0. PICK o \in {"refused", "aborted"} : Finish(r, o)
    BY DEF Refused, Abort
  <1>1. pc[r] # "done" /\ UNCHANGED <<sess, rec, enrolled, events, loc>>
    BY DEF Refused, Abort
  <1>2. TypeOK'
    BY <1>0, <1>1 DEF IInv, TypeOK, Finish, Point, Outcome, Exists
  <1>3. HeldInv' /\ MadeInv' /\ SeenInv'
    BY <1>0, <1>1, Frame DEF Finish, Holding, Versioned
  <1> QED
    BY <1>1, <1>2, <1>3, RowsKept DEF IInv

(* create_session *)
LEMMA CreateStep ==
  ASSUME IInv, NEW r \in Reqs, CreateRead(r) \/ CreateRoster(r) \/ CreateCommit(r)
  PROVE  IInv'
  <1>1. CASE CreateRead(r)
    <2>1. TypeOK'
      BY <1>1 DEF IInv, TypeOK, CreateRead, Goto, Point, Exists
    <2>2. HeldInv' /\ MadeInv' /\ SeenInv'
      BY <1>1, Frame DEF CreateRead, Goto, Holding, Versioned
    <2> QED
      BY <1>1, <2>1, <2>2, RowsKept DEF IInv, CreateRead
  <1>2. CASE CreateRoster(r)
    <2>1. [NoLocal EXCEPT !.marks = AllPresent(enrolled)] \in Local
      BY ConstantTypes, LocalFacts
    <2>2. TypeOK'
      BY <1>2, <2>1 DEF IInv, TypeOK, CreateRoster, Goto, Load, Point, Exists
    <2>3. \A q \in Reqs : q # r => loc'[q] = loc[q]
      BY <1>2 DEF IInv, TypeOK, CreateRoster, Load
    <2>4. HeldInv' /\ MadeInv' /\ SeenInv'
      BY <1>2, <2>3, Frame DEF CreateRoster, Goto, Holding, Versioned
    <2> QED
      BY <1>2, <2>2, <2>4, RowsKept DEF IInv, CreateRoster
  <1>3. CASE CreateCommit(r) /\ SlotFree
    <2>0. /\ sess' = [sess EXCEPT ![r] = NewRow] /\ rec' = [rec EXCEPT ![r] = loc[r].marks]
          /\ Finish(r, "ok") /\ pc[r] = "create_commit" /\ UNCHANGED <<enrolled, events, loc>>
      BY <1>3 DEF CreateCommit, Write
    <2>1. sess[r] = NoRow /\ r \in Sessions
      BY <2>0 DEF IInv, MadeInv, Sessions
    <2>2. TypeOK'
      <3>1. loc[r].marks \in Records
        BY DEF IInv, TypeOK, Local
      <3>2. \A s \in Sessions : sess'[s].status # Absent \/ rec'[s] = NoRecords
        BY <2>0, <2>1, ConstantTypes DEF IInv, TypeOK, Exists, Status
      <3> QED
        BY <2>0, <3>1, <3>2, ConstantTypes DEF IInv, TypeOK, Finish, Point, Outcome, Exists
    <2>3. \A s \in Sessions : \/ sess'[s] = sess[s]
                              \/ sess[s].version < sess'[s].version /\ sess'[s].version \in Nat
      <3>1. sess'[r] = NewRow /\ \A s \in Sessions : s # r => sess'[s] = sess[s]
        BY <2>0, <2>1 DEF IInv, TypeOK
      <3>2. sess[r].version = 0 /\ sess'[r].version = 1
        BY <2>1, <3>1, ConstantTypes
      <3>3. sess[r].version < sess'[r].version /\ sess'[r].version \in Nat
        BY <3>2
      <3>4. ASSUME NEW t \in Sessions
            PROVE  \/ sess'[t] = sess[t]
                   \/ sess[t].version < sess'[t].version /\ sess'[t].version \in Nat
        <4>1. CASE t = r
          BY <3>3, <4>1
        <4>2. CASE t # r
          BY <3>1, <4>2
        <4> QED
          BY <4>1, <4>2
      <3> QED
        BY <3>4
    <2>4. \A s \in Reqs : s # r => sess'[s] = sess[s]
      BY <2>0 DEF IInv, TypeOK, Sessions
    <2>5. HeldInv' /\ MadeInv' /\ SeenInv'
      BY <2>0, <2>3, <2>4, Frame DEF Finish, Holding, Versioned
    <2>6. SubmitInv'
      BY <2>0, ConstantTypes DEF IInv, TypeOK, SubmitInv
    <2>7. AnnouncedOnce'
      BY <2>0, <2>1, ConstantTypes DEF IInv, TypeOK, AnnouncedOnce
    <2>8. OneSessionPerDate'
      BY <1>3, <2>0, <2>1 DEF IInv, TypeOK, OneSessionPerDate, SlotFree, Exists
    <2> QED
      BY <2>2, <2>5, <2>6, <2>7, <2>8 DEF IInv
  <1>4. CASE CreateCommit(r) /\ ~SlotFree
    <2>1. TypeOK'
      BY <1>4 DEF IInv, TypeOK, CreateCommit, Finish, Point, Outcome, Exists
    <2>2. HeldInv' /\ MadeInv' /\ SeenInv'
      BY <1>4, Frame DEF CreateCommit, Finish, Holding, Versioned
    <2> QED
      BY <1>4, <2>1, <2>2, RowsKept DEF IInv, CreateCommit
  <1> QED
    BY <1>1, <1>2, <1>3, <1>4

(* The reads that load a session. *)
LEMMA ReadStep ==
  ASSUME IInv, NEW r \in Reqs, NEW s \in Sessions,
         \/ \E to \in Status : UpdateRead(r, s, to)
         \/ DeleteRead(r, s) \/ SubmitRead(r, s) \/ AmendRead(r, s)
         \/ \E e \in Students, m \in Marks : RecordRead(r, s, e, m)
         \/ \E marks \in Records : BulkRead(r, s, marks)
  PROVE  IInv'
  <1>0. TypeOK
    BY DEF IInv
  <1>a. Loaded(s) \in Local /\ Loaded(s).sid = s /\ Loaded(s).version = sess[s].version
        /\ Loaded(s).status = sess[s].status
    BY <1>0, LoadedFacts
  <1> SUFFICES ASSUME NEW p \in Holding, NEW l \in Local,
                      pc[r] = "idle", Goto(r, p), Load(r, l),
                      UNCHANGED <<sess, rec, enrolled, events>>, Exists(s), l.sid = s,
                      p \in Versioned =>
                        /\ l.version = sess[s].version /\ l.status = sess[s].status
                        /\ p = "amend" => l.status \in Submitted
                        /\ p # "amend" => l.status = "DRAFT"
                        /\ p = "update" => l.to \in Status
               PROVE  IInv'
    <2>1. ASSUME NEW to \in Status, UpdateRead(r, s, to) PROVE IInv'
      <3>1. /\ [Loaded(s) EXCEPT !.to = to] \in Local
            /\ [Loaded(s) EXCEPT !.to = to].sid = s
            /\ [Loaded(s) EXCEPT !.to = to].version = sess[s].version
            /\ [Loaded(s) EXCEPT !.to = to].status = sess[s].status
            /\ [Loaded(s) EXCEPT !.to = to].to = to
        BY <1>a, LocalFacts
      <3> QED
        BY <2>1, <3>1 DEF UpdateRead, Holding, Versioned, Exists, Absent
    <2>2. ASSUME DeleteRead(r, s) PROVE IInv'
      BY <1>a, <2>2 DEF DeleteRead, Holding, Versioned, Exists, Absent
    <2>3. ASSUME SubmitRead(r, s) PROVE IInv'
      BY <1>a, <2>3 DEF SubmitRead, Holding, Versioned, Exists, Absent
    <2>4. ASSUME AmendRead(r, s) PROVE IInv'
      BY <1>a, <2>4 DEF AmendRead, Holding, Versioned, Exists, Absent, Submitted
    <2>5. ASSUME NEW e \in Students, NEW m \in Marks, RecordRead(r, s, e, m) PROVE IInv'
      <3>1. Exists(s)
        BY <1>0, <2>5 DEF TypeOK, RecordRead, NoRecords
      <3>2. [NoRecords EXCEPT ![e] = m] \in Records
        BY ConstantTypes DEF Records
      <3>3. /\ [Loaded(s) EXCEPT !.marks = [NoRecords EXCEPT ![e] = m]] \in Local
            /\ [Loaded(s) EXCEPT !.marks = [NoRecords EXCEPT ![e] = m]].sid = s
        BY <1>a, <3>2, LocalFacts, Zenon
      <3> QED
        BY <2>5, <3>1, <3>3 DEF RecordRead, Holding, Versioned
    <2>6. ASSUME NEW marks \in Records, BulkRead(r, s, marks) PROVE IInv'
      <3>1. /\ [Loaded(s) EXCEPT !.marks = marks] \in Local
            /\ [Loaded(s) EXCEPT !.marks = marks].sid = s
        BY <1>a, LocalFacts
      <3> QED
        BY <2>6, <3>1 DEF BulkRead, Holding, Versioned, Exists, Absent
    <2> QED
      BY <2>1, <2>2, <2>3, <2>4, <2>5, <2>6
  <1>1. TypeOK'
    BY <1>0 DEF TypeOK, Goto, Load, Holding, Versioned, Point, Exists
  <1>2. HeldInv' /\ MadeInv' /\ SeenInv'
    BY Loading DEF Goto, Load
  <1> QED
    BY <1>1, <1>2, RowsKept DEF IInv

(* The commits that write a session row. *)
LEMMA WriteStep ==
  ASSUME IInv, NEW r \in Reqs, NEW s \in Sessions, NEW row \in Session,
         pc[r] \in Versioned, s = loc[r].sid, Fresh(r), Write(s, row), Finish(r, "ok"),
         UNCHANGED <<enrolled, loc>>,
         row.status # Absent => row.version = sess[s].version + 1,
         row.status = Absent => row.version = sess[s].version,
         row.submitted_at => row.status \in Submitted,
         events'[s] = (IF row.submitted_at THEN 1 ELSE 0),
         \A t \in Sessions : t # s => events'[t] = events[t],
         events' \in [Sessions -> Nat],
         rec' = IF row.status = Absent THEN [rec EXCEPT ![s] = NoRecords] ELSE rec
  PROVE  IInv'
  <1>0. sess \in [Sessions -> Session] /\ pc \in [Reqs -> Point] /\ TypeOK
    BY DEF IInv, TypeOK
  <1>1. sess'[s] = row /\ \A t \in Sessions : t # s => sess'[t] = sess[t]
    BY <1>0 DEF Write
  <1>2. TypeOK'
    <2>1. sess' \in [Sessions -> Session] /\ rec' \in [Sessions -> Records]
      BY <1>0, ConstantTypes DEF TypeOK, Write
    <2>2. \A t \in Sessions : sess'[t].status # Absent \/ rec'[t] = NoRecords
      BY <1>0, <1>1 DEF TypeOK, Exists, Fresh
    <2> QED
      BY <1>0, <2>1, <2>2 DEF TypeOK, Finish, Point, Outcome, Exists
  <1>3. pc[r] # "done" /\ (s \in Reqs => pc[s] = "done")
    BY DEF Versioned, Holding, IInv, HeldInv
  <1>4. sess[s].version \in Nat
    BY <1>0 DEF Session
  <1>5. HeldInv' /\ MadeInv' /\ SeenInv'
    <2>1. \A t \in Sessions : \/ sess'[t] = sess[t]
                              \/ sess[t].version < sess'[t].version /\ sess'[t].version \in Nat
                              \/ sess'[t].version = sess[t].version /\ sess'[t].status = Absent
      <3>1. ASSUME NEW t \in Sessions
            PROVE  \/ sess'[t] = sess[t]
                   \/ sess[t].version < sess'[t].version /\ sess'[t].version \in Nat
                   \/ sess'[t].version = sess[t].version /\ sess'[t].status = Absent
        <4>1. CASE t # s
          BY <1>1, <4>1
        <4>2. CASE t = s /\ row.status = Absent
          BY <1>1, <4>2
        <4>3. CASE t = s /\ row.status # Absent
          <5>1. row.version = sess[s].version + 1
            BY <4>3
          <5> QED
            BY <1>1, <1>4, <4>3, <5>1
        <4> QED
          BY <4>1, <4>2, <4>3
      <3> QED
        BY <3>1
    <2>2. \A t \in Reqs : t # r /\ pc[t] # "done" => sess'[t] = sess[t]
      BY <1>1, <1>3 DEF Sessions
    <2> QED
      BY <1>3, <2>1, <2>2, Frame DEF Finish, Holding, Versioned
  <1>6. SubmitInv'
    BY <1>1 DEF IInv, SubmitInv
  <1>7. AnnouncedOnce'
    BY <1>1 DEF IInv, AnnouncedOnce
  <1>8. OneSessionPerDate'
    BY <1>1 DEF IInv, OneSessionPerDate, Exists, Fresh
  <1> QED
    BY <1>2, <1>5, <1>6, <1>7, <1>8 DEF IInv

(* Commits that find their row changed, or that the database refuses. *)
LEMMA FailedStep ==
  ASSUME IInv, NEW r \in Reqs, NEW o \in {"stale", "integrity"}, pc[r] # "done",
         Finish(r, o), UNCHANGED <<sess, rec, enrolled, events, loc>>
  PROVE  IInv'
  <1>1. TypeOK'
    BY DEF IInv, TypeOK, Finish, Point, Outcome, Exists
  <1>2. HeldInv' /\ MadeInv' /\ SeenInv'
    BY Frame DEF Finish, Holding, Versioned
  <1> QED
    BY <1>1, <1>2, RowsKept DEF IInv

(* update_session, delete_session, submit_session and amend_session commit. *)
LEMMA CommitStep ==
  ASSUME IInv, NEW r \in Reqs,
         UpdateCommit(r) \/ DeleteCommit(r) \/ SubmitCommit(r) \/ AmendCommit(r)
  PROVE  IInv'
  <1> DEFINE s == loc[r].sid
  <1>0. TypeOK /\ pc[r] \in Versioned
    BY DEF IInv, UpdateCommit, DeleteCommit, SubmitCommit, AmendCommit, Versioned
  <1>1. s \in Sessions
    BY <1>0 DEF IInv, HeldInv, Holding
  <1>2. sess[s] \in Session /\ sess[s].version \in Nat /\ sess[s].version + 1 \in Nat
        /\ sess[s].submitted_at \in BOOLEAN
    BY <1>0, <1>1 DEF TypeOK, Session
  <1>3. /\ events \in [Sessions -> Nat]
        /\ events[s] = (IF sess[s].submitted_at THEN 1 ELSE 0)
        /\ sess[s].submitted_at => sess[s].status \in Submitted
    BY <1>0, <1>1 DEF TypeOK, IInv, AnnouncedOnce, SubmitInv
  <1>4. Fresh(r) => /\ sess[s].status = loc[r].status
                    /\ pc[r] = "amend" => loc[r].status \in Submitted
                    /\ pc[r] # "amend" => loc[r].status = "DRAFT"
                    /\ pc[r] = "update" => loc[r].to \in Status
    BY <1>0 DEF IInv, SeenInv
  <1>5. Fresh(r) /\ pc[r] # "amend" => sess[s].submitted_at = FALSE
    BY <1>2, <1>3, <1>4 DEF Submitted
  <1>6. pc[r] # "done"
    BY <1>0 DEF Versioned
  <1>8. CASE ~Fresh(r) \/ (pc[r] = "delete" /\ loc[r].seen # NoRecords)
    <2>1. /\ UNCHANGED <<sess, rec, enrolled, events, loc>>
          /\ Finish(r, "stale") \/ Finish(r, "integrity")
      BY <1>8 DEF UpdateCommit, DeleteCommit, SubmitCommit, AmendCommit
    <2> QED
      BY <1>6, <2>1, FailedStep
  <1>9. CASE Fresh(r) /\ UpdateCommit(r)
    <2> DEFINE row == Updated(s, loc[r].to, sess[s].submitted_at)
    <2>1. /\ Write(s, row) /\ Finish(r, "ok") /\ UNCHANGED <<rec, enrolled, events, loc>>
          /\ pc[r] = "update"
      BY <1>9 DEF UpdateCommit
    <2>2. loc[r].to \in Status /\ loc[r].to # Absent
      BY <1>4, <1>9, <2>1, ConstantTypes
    <2>a. /\ row \in Session /\ row.status = loc[r].to /\ row.version = sess[s].version + 1
          /\ row.submitted_at = sess[s].submitted_at
      BY <1>2, <2>2, UpdatedRow
    <2> HIDE DEF row
    <2>3. row.status # Absent /\ row.submitted_at = FALSE
      BY <1>5, <1>9, <2>1, <2>2, <2>a
    <2>4. events[s] = 0 /\ events' = events
      BY <1>3, <1>5, <1>9, <2>1
    <2> HIDE DEF row
    <2> QED
      BY <1>0, <1>1, <1>3, <1>9, <2>1, <2>a, <2>3, <2>4, WriteStep
  <1>10. CASE Fresh(r) /\ DeleteCommit(r) /\ loc[r].seen = NoRecords
    <2> DEFINE row == [sess[s] EXCEPT !.status = Absent]
    <2>1. /\ Write(s, row) /\ Finish(r, "ok") /\ UNCHANGED <<enrolled, events, loc>>
          /\ pc[r] = "delete" /\ rec' = [rec EXCEPT ![s] = NoRecords]
      BY <1>10 DEF DeleteCommit
    <2>2. /\ row \in Session /\ row.status = Absent /\ row.version = sess[s].version
          /\ row.submitted_at = FALSE
      BY <1>2, <1>5, <1>10, <2>1, StatusWritten, Zenon
    <2>3. events[s] = 0 /\ events' = events
      BY <1>3, <1>5, <1>10, <2>1
    <2> HIDE DEF row
    <2> QED
      BY <1>0, <1>1, <1>3, <1>10, <2>1, <2>2, <2>3, WriteStep
  <1>11. CASE Fresh(r) /\ SubmitCommit(r)
    <2> DEFINE row == Updated(s, "SUBMITTED", TRUE)
    <2>1. /\ Write(s, row) /\ Finish(r, "ok") /\ UNCHANGED <<rec, enrolled, loc>>
          /\ pc[r] = "submit" /\ events' = [events EXCEPT ![s] = @ + 1]
      BY <1>11 DEF SubmitCommit
    <2>2. "SUBMITTED" \in Status /\ "SUBMITTED" # Absent /\ "SUBMITTED" \in Submitted
          /\ TRUE \in BOOLEAN
      BY DEF Status, Absent, Submitted
    <2>3. /\ row \in Session /\ row.status = "SUBMITTED" /\ row.version = sess[s].version + 1
          /\ row.submitted_at = TRUE
      BY <1>2, <2>2, UpdatedRow
    <2>4. events[s] = 0
      BY <1>3, <1>5, <1>11, <2>1
    <2>5. /\ events'[s] = 1 /\ events' \in [Sessions -> Nat]
          /\ \A t \in Sessions : t # s => events'[t] = events[t]
      BY <1>1, <1>3, <2>1, <2>4
    <2> HIDE DEF row
    <2> QED
      BY <1>0, <1>1, <1>11, <2>1, <2>2, <2>3, <2>5, WriteStep
  <1>12. CASE Fresh(r) /\ AmendCommit(r)
    <2> DEFINE row == Updated(s, "AMENDED", sess[s].submitted_at)
    <2>1. /\ Write(s, row) /\ Finish(r, "ok") /\ UNCHANGED <<rec, enrolled, events, loc>>
      BY <1>12 DEF AmendCommit
    <2>2. "AMENDED" \in Status /\ "AMENDED" # Absent /\ "AMENDED" \in Submitted
      BY DEF Status, Absent, Submitted
    <2>3. /\ row \in Session /\ row.status = "AMENDED" /\ row.version = sess[s].version + 1
          /\ row.submitted_at = sess[s].submitted_at
      BY <1>2, <2>2, UpdatedRow
    <2> HIDE DEF row
    <2> QED
      BY <1>0, <1>1, <1>3, <1>12, <2>1, <2>2, <2>3, WriteStep
  <1> QED
    <2>1. DeleteCommit(r) => pc[r] = "delete"
      BY DEF DeleteCommit
    <2> QED
      BY <1>8, <1>9, <1>10, <1>11, <1>12, <2>1, Zenon

(* update_record and bulk_update_records. *)
LEMMA RecordStep ==
  ASSUME IInv, NEW r \in Reqs, RecordSession(r) \/ RecordCommit(r) \/ BulkCommit(r)
  PROVE  IInv'
  <1>0. TypeOK /\ loc[r].sid \in Sessions /\ loc[r].marks \in Records
    BY DEF IInv, HeldInv, Holding, TypeOK, Local, RecordSession, RecordCommit, BulkCommit
  <1>1. CASE RecordSession(r)
    <2>1. TypeOK'
      BY <1>0, <1>1 DEF TypeOK, RecordSession, Goto, Point, Exists
    <2>2. HeldInv' /\ MadeInv' /\ SeenInv'
      BY <1>0, <1>1 DEF IInv, TypeOK, HeldInv, MadeInv, SeenInv, RecordSession, Goto, Holding,
                        Versioned, Fresh, Exists
    <2> QED
      BY <1>1, <2>1, <2>2, RowsKept DEF IInv, RecordSession
  <1>2. CASE rec' = rec /\ ~RecordSession(r)
    <2>1. PICK o \in Outcome : Finish(r, o)
      BY <1>2 DEF RecordCommit, BulkCommit, Outcome
    <2>2. UNCHANGED <<sess, enrolled, events, loc>> /\ pc[r] # "done"
      BY <1>2 DEF RecordCommit, BulkCommit
    <2>3. TypeOK'
      BY <1>0, <1>2, <2>1, <2>2 DEF TypeOK, Finish, Point, Exists
    <2>4. HeldInv' /\ MadeInv' /\ SeenInv'
      BY <2>1, <2>2, Frame DEF Finish, Holding, Versioned
    <2> QED
      BY <2>2, <2>3, <2>4, RowsKept DEF IInv
  <1>3. CASE rec' # rec /\ ~RecordSession(r)
    <2>1. PICK A \in SUBSET Asked(r) :
             /\ rec' = [rec EXCEPT ![loc[r].sid] = Marked(r, A)]
             /\ A # {} => Exists(loc[r].sid)
      <3>1. CASE RecordCommit(r)
        <4>1. Changed(r) \in SUBSET Asked(r) /\ Changed(r) \in SUBSET Students
          BY DEF Changed, Asked
        <4>2. rec' = [rec EXCEPT ![loc[r].sid] = Marked(r, Changed(r))]
          BY <1>3, <3>1 DEF RecordCommit
        <4>3. \A e \in Changed(r) : rec[loc[r].sid][e] # NoMark
          BY <1>3, <3>1 DEF RecordCommit
        <4>4. Changed(r) # {} => Exists(loc[r].sid)
          BY <1>0, <4>1, <4>3 DEF TypeOK, NoRecords
        <4> QED
          BY <4>1, <4>2, <4>4
      <3>2. CASE BulkCommit(r)
        BY <1>3, <3>2 DEF BulkCommit, SessionThere
      <3> QED
        BY <1>3, <3>1, <3>2
    <2>2. /\ Finish(r, "ok") /\ UNCHANGED <<sess, enrolled, events, loc>> /\ pc[r] # "done"
      BY <1>3 DEF RecordCommit, BulkCommit
    <2>3. Marked(r, A) \in Records
      BY <1>0, <2>1 DEF Marked, Asked, TypeOK, Records
    <2>4. A = {} => Marked(r, A) = rec[loc[r].sid]
      BY <1>0 DEF Marked, TypeOK, Records
    <2>5. TypeOK'
      <3>1. rec' \in [Sessions -> Records]
        BY <1>0, <2>1, <2>3 DEF TypeOK
      <3>2. \A s \in Sessions : Exists(s) \/ rec'[s] = NoRecords
        BY <1>0, <2>1, <2>4 DEF TypeOK
      <3> QED
        BY <1>0, <2>2, <3>1, <3>2 DEF TypeOK, Finish, Point, Outcome, Exists
    <2>6. HeldInv' /\ MadeInv' /\ SeenInv'
      BY <2>2, Frame DEF Finish, Holding, Versioned
    <2> QED
      BY <2>2, <2>5, <2>6, RowsKept DEF IInv
  <1> QED
    BY <1>1, <1>2, <1>3

-----------------------------------------------------------------------------
(* The invariant holds when the service starts, with or without a session. *)
LEMMA InitInv == Init => IInv
  <1> SUFFICES ASSUME Init PROVE IInv
    OBVIOUS
  <1>1. PICK row \in {NoRow, NewRow} :
           /\ sess = [s \in Sessions |-> IF s = S0 THEN row ELSE NoRow]
           /\ rec = [s \in Sessions |-> IF s = S0 /\ row = NewRow THEN AllPresent(enrolled)
                                                                  ELSE NoRecords]
    BY DEF Init
  <1>2. /\ enrolled \in SUBSET Students /\ events = [s \in Sessions |-> 0]
        /\ pc = [r \in Reqs |-> "idle"] /\ loc = [r \in Reqs |-> NoLocal]
        /\ out = [r \in Reqs |-> "none"]
    BY DEF Init
  <1>3. row \in Session /\ row.submitted_at = FALSE /\ (row = NewRow => row.status = "DRAFT")
    BY <1>1, ConstantTypes
  <1>4. TypeOK
    <2>1. sess \in [Sessions -> Session] /\ rec \in [Sessions -> Records]
      BY <1>1, <1>3, ConstantTypes
    <2>2. \A s \in Sessions : sess[s].status # Absent \/ rec[s] = NoRecords
      BY <1>1, <1>3 DEF Absent
    <2> QED
      BY <1>2, <2>1, <2>2, ConstantTypes DEF TypeOK, Exists, Point, Outcome
  <1>5. HeldInv /\ SeenInv
    BY <1>2 DEF HeldInv, SeenInv, Holding, Versioned
  <1>6. MadeInv
    BY <1>1, SessionNames DEF MadeInv, Sessions
  <1>7. SubmitInv /\ AnnouncedOnce
    BY <1>1, <1>2, <1>3, ConstantTypes DEF SubmitInv, AnnouncedOnce
  <1>8. OneSessionPerDate
    BY <1>1, ConstantTypes DEF OneSessionPerDate, Exists
  <1> QED
    BY <1>4, <1>5, <1>6, <1>7, <1>8 DEF IInv

(* Every step preserves it. *)
LEMMA NextInv == IInv /\ [Next]_vars => IInv'
  <1> SUFFICES ASSUME IInv, [Next]_vars PROVE IInv'
    OBVIOUS
  <1>1. ASSUME NEW r \in Reqs, Step(r) PROVE IInv'
    <2>1. CASE Refused(r) \/ Abort(r)
      BY <2>1, EndStep
    <2>2. CASE CreateRead(r) \/ CreateRoster(r) \/ CreateCommit(r)
      BY <2>2, CreateStep
    <2>3. CASE \E s \in Sessions :
                 \/ \E to \in Status : UpdateRead(r, s, to)
                 \/ DeleteRead(r, s) \/ SubmitRead(r, s) \/ AmendRead(r, s)
                 \/ \E e \in Students, m \in Marks : RecordRead(r, s, e, m)
                 \/ \E marks \in Records : BulkRead(r, s, marks)
      BY <2>3, ReadStep
    <2>4. CASE UpdateCommit(r) \/ DeleteCommit(r) \/ SubmitCommit(r) \/ AmendCommit(r)
      BY <2>4, CommitStep
    <2>5. CASE RecordSession(r) \/ RecordCommit(r) \/ BulkCommit(r)
      BY <2>5, RecordStep
    <2> QED
      BY <1>1, <2>1, <2>2, <2>3, <2>4, <2>5 DEF Step
  <1>2. CASE EnrollmentChange \/ UNCHANGED vars
    <2>1. UNCHANGED <<sess, rec, events, pc, loc, out>>
      BY <1>2 DEF EnrollmentChange, vars
    <2>2. enrolled' \in SUBSET Students
      <3>1. enrolled \in SUBSET Students
        BY DEF IInv, TypeOK
      <3> QED
        BY <1>2, <3>1 DEF EnrollmentChange, vars
    <2>3. TypeOK'
      BY <2>1, <2>2 DEF IInv, TypeOK, Exists
    <2>4. HeldInv' /\ MadeInv' /\ SeenInv'
      BY <2>1 DEF IInv, HeldInv, MadeInv, SeenInv, Fresh, Exists
    <2> QED
      BY <2>1, <2>3, <2>4, RowsKept DEF IInv
  <1> QED
    BY <1>1, <1>2 DEF Next

(* What requests have read is current exactly as far as versions tell. *)
THEOREM InductiveInvariant == Spec => []IInv
  BY InitInv, NextInv, PTL DEF Spec

-----------------------------------------------------------------------------
(* The attendance tables stay well formed and every record has a session,  *)
(* for any number of concurrent requests.                                  *)
THEOREM TypeInvariant == Spec => []TypeOK
  <1>1. IInv => TypeOK
    BY DEF IInv
  <1> QED
    BY <1>1, InductiveInvariant, PTL

(* create_session never leaves two sessions for a cohort and date. *)
THEOREM OneSession == Spec => []OneSessionPerDate
  <1>1. IInv => OneSessionPerDate
    BY DEF IInv
  <1> QED
    BY <1>1, InductiveInvariant, PTL

(* submit_session enqueues at most one event per session. *)
THEOREM SubmittedOnce == Spec => []AnnouncedOnce
  <1>1. IInv => AnnouncedOnce
    BY DEF IInv
  <1> QED
    BY <1>1, InductiveInvariant, PTL

(* A session with an event in the outbox is neither deleted nor a draft. *)
THEOREM AnnouncedKept == Spec => []AnnouncedStays
  <1>1. IInv => AnnouncedStays
    BY DEF IInv, AnnouncedOnce, SubmitInv, AnnouncedStays, Submitted
  <1> QED
    BY <1>1, InductiveInvariant, PTL

(* A step that changes a submitted session leaves it submitted or amended. *)
LEMMA SubmittedKept ==
  ASSUME IInv, Next, NEW s \in Sessions, sess[s].status \in Submitted
  PROVE  sess'[s].status \in Submitted
  <1>0. sess \in [Sessions -> Session]
    BY DEF IInv, TypeOK
  <1>1. CASE UNCHANGED sess
    BY <1>1
  <1>2. ASSUME NEW r \in Reqs, CreateCommit(r), ~UNCHANGED sess PROVE sess'[s].status \in Submitted
    <2>1. s # r
      <3>1. sess[r] = NoRow
        BY <1>2 DEF IInv, MadeInv, CreateCommit
      <3> QED
        BY <3>1, ConstantTypes DEF Submitted, Status, Absent
    <2> QED
      BY <1>0, <1>2, <2>1 DEF CreateCommit, Write
  <1>3. ASSUME NEW r \in Reqs, ~UNCHANGED sess,
               UpdateCommit(r) \/ DeleteCommit(r) \/ SubmitCommit(r) \/ AmendCommit(r)
        PROVE  sess'[s].status \in Submitted
    <2>1. pc[r] \in Versioned
      BY <1>3 DEF UpdateCommit, DeleteCommit, SubmitCommit, AmendCommit, Versioned
    <2>2. Fresh(r)
      BY <1>3 DEF UpdateCommit, DeleteCommit, SubmitCommit, AmendCommit
    <2>3. pc[r] # "amend" => sess[loc[r].sid].status = "DRAFT"
      BY <2>1, <2>2 DEF IInv, SeenInv
    <2>4. CASE s # loc[r].sid
      <3>1. \E row : sess' = [sess EXCEPT ![loc[r].sid] = row]
        BY <1>3 DEF UpdateCommit, DeleteCommit, SubmitCommit, AmendCommit, Write
      <3> QED
        BY <1>0, <2>4, <3>1
    <2>5. CASE s = loc[r].sid
      <3>1. pc[r] = "amend"
        BY <2>3, <2>5 DEF Submitted
      <3>2. sess' = [sess EXCEPT ![s] = Updated(s, "AMENDED", sess[s].submitted_at)]
        BY <1>3, <2>5, <3>1 DEF UpdateCommit, DeleteCommit, SubmitCommit, AmendCommit, Write
      <3>3. sess'[s] = Updated(s, "AMENDED", sess[s].submitted_at)
        BY <1>0, <3>2
      <3> QED
        BY <3>3 DEF Updated, Submitted
    <2> QED
      BY <2>4, <2>5
  <1>4. ~UNCHANGED sess =>
          \E r \in Reqs : \/ CreateCommit(r)
                         \/ UpdateCommit(r) \/ DeleteCommit(r) \/ SubmitCommit(r) \/ AmendCommit(r)
    BY DEF Next, Step, EnrollmentChange, Refused, Abort, CreateRead, CreateRoster, UpdateRead,
           DeleteRead, SubmitRead, AmendRead, RecordRead, BulkRead, RecordSession, RecordCommit,
           BulkCommit
  <1> QED
    BY <1>1, <1>2, <1>3, <1>4

(* update_session, delete_session and the others never reopen or remove a  *)
(* submitted session.                                                      *)
THEOREM NeverReopened == Spec => NoReopen
  <1>1. IInv /\ [Next]_vars =>
          [\A s \in Sessions : sess[s].status \in {"SUBMITTED", "AMENDED"}
                                => sess'[s].status \in {"SUBMITTED", "AMENDED"}]_vars
    BY SubmittedKept DEF Submitted
  <1> QED
    BY <1>1, InductiveInvariant, PTL DEF Spec, NoReopen

-----------------------------------------------------------------------------
(* Refinement of VersionedRows                                             *)

NoKept == [status |-> Absent, version |-> 0]

(* What is kept of a session. *)
LEMMA KeptIs ==
  ASSUME TypeOK, NEW s \in Sessions
  PROVE  /\ Kept(s) \in [status: Status, version: Nat] \cup {NoKept}
         /\ Kept(s) = NoKept <=> ~Exists(s)
  <1>1. sess[s] \in Session
    BY DEF TypeOK
  <1>2. CASE Exists(s)
    BY <1>1, <1>2 DEF Kept, NoKept, Exists, Session
  <1>3. CASE ~Exists(s)
    BY <1>3 DEF Kept, NoKept, Exists
  <1> QED
    BY <1>2, <1>3

(* A step that leaves the sessions alone drops what its request works on,  *)
(* keeps it or loads a session.                                            *)
LEMMA Keeping ==
  ASSUME TypeOK, NEW r \in Reqs, UNCHANGED sess,
         \A q \in Reqs : q # r => pc'[q] = pc[q] /\ loc'[q] = loc[q],
         \/ Copy(r)' = {} \/ Copy(r)' = Copy(r)
         \/ \E s \in Sessions : Exists(s) /\ Copy(r)' = {[id |-> s, row |-> Kept(s)]}
  PROVE  [Locking!VNext]_(Locking!vvars)
  <1>1. /\ \A q \in Reqs : q # r => Copy(q)' = Copy(q)
        /\ \A s \in Sessions : Kept(s)' = Kept(s)
    BY DEF Copy, Kept, Exists
  <1>2. CASE Copy(r)' = {}
    BY <1>1, <1>2 DEF Locking!VForget, Locking!VNext
  <1>3. CASE Copy(r)' = Copy(r)
    BY <1>1, <1>3 DEF Locking!vvars
  <1>4. ASSUME NEW s \in Sessions, Exists(s), Copy(r)' = {[id |-> s, row |-> Kept(s)]}
        PROVE  Locking!VNext
    <2>1. Kept(s) # [status |-> Absent, version |-> 0]
      BY <1>4, KeptIs DEF NoKept
    <2>2. Locking!VLoad(r, s)
      BY <1>1, <1>4, <2>1 DEF Locking!VLoad
    <2> QED
      BY <2>2 DEF Locking!VNext
  <1> QED
    BY <1>2, <1>3, <1>4

(* What a step makes of the sessions: a request makes a new one, makes the *)
(* next version of the one it works on, or removes it.                     *)
LEMMA SessionWritten ==
  ASSUME IInv, NEW r \in Reqs, sess' # sess,
         CreateCommit(r) \/ UpdateCommit(r) \/ DeleteCommit(r) \/ SubmitCommit(r) \/ AmendCommit(r)
  PROVE  \E s \in Sessions :
           /\ \A t \in Sessions : t # s => Kept(t)' = Kept(t)
           /\ \/ Kept(s) = NoKept /\ Kept(s)'.version = 1
              \/ /\ Kept(s) # NoKept /\ Copy(r) = {[id |-> s, row |-> Kept(s)]}
                 /\ Kept(s)' = NoKept \/ Kept(s)'.version = Kept(s).version + 1
  <1>0. sess \in [Sessions -> Session] /\ TypeOK
    BY DEF IInv, TypeOK
  <1>1. CASE CreateCommit(r)
    <2>1. pc[r] = "create_commit" /\ sess' = [sess EXCEPT ![r] = NewRow] /\ r \in Sessions
      BY <1>1 DEF CreateCommit, Write, Sessions
    <2>2. ~Exists(r)
      BY <2>1, ConstantTypes DEF IInv, MadeInv, Exists, NoRow
    <2>3. Kept(r) = NoKept
      BY <1>0, <2>1, <2>2, KeptIs
    <2>4. sess'[r] = NewRow /\ \A t \in Sessions : t # r => sess'[t] = sess[t]
      BY <1>0, <2>1
    <2>5. Kept(r)'.version = 1
      BY <2>4 DEF Kept, Exists, NewRow, Absent
    <2>6. \A t \in Sessions : t # r => Kept(t)' = Kept(t)
      BY <2>4 DEF Kept, Exists
    <2> QED
      BY <2>1, <2>3, <2>5, <2>6
  <1>2. ASSUME UpdateCommit(r) \/ DeleteCommit(r) \/ SubmitCommit(r) \/ AmendCommit(r)
        PROVE  \E s \in Sessions :
                 /\ \A t \in Sessions : t # s => Kept(t)' = Kept(t)
                 /\ Kept(s) # NoKept /\ Copy(r) = {[id |-> s, row |-> Kept(s)]}
                 /\ Kept(s)' = NoKept \/ Kept(s)'.version = Kept(s).version + 1
    <2>1. pc[r] \in Versioned /\ Fresh(r)
      BY <1>2 DEF UpdateCommit, DeleteCommit, SubmitCommit, AmendCommit, Versioned
    <2>0. PICK s \in Sessions : s = loc[r].sid
      BY <2>1 DEF IInv, HeldInv, Holding
    <2>2. s \in Sessions /\ Exists(s) /\ sess[s].status = loc[r].status
          /\ sess[s].version = loc[r].version
      BY <2>0, <2>1 DEF IInv, HeldInv, SeenInv, Fresh, Holding
    <2>3. PICK x : /\ sess' = [sess EXCEPT ![s] = x]
                   /\ x.status = Absent \/ x.version = sess[s].version + 1
      <3>1. CASE UpdateCommit(r) \/ SubmitCommit(r) \/ AmendCommit(r)
        BY <2>0, <2>1, <3>1 DEF UpdateCommit, SubmitCommit, AmendCommit, Write, Updated
      <3>2. CASE DeleteCommit(r)
        <4>1. sess' = [sess EXCEPT ![s] = [sess[s] EXCEPT !.status = Absent]]
          BY <2>0, <3>2 DEF DeleteCommit, Write
        <4>2. [sess[s] EXCEPT !.status = Absent].status = Absent
          BY <1>0, <2>2 DEF Session
        <4> QED
          BY <4>1, <4>2
      <3> QED
        BY <1>2, <3>1, <3>2
    <2>4. sess'[s] = x /\ \A t \in Sessions : t # s => sess'[t] = sess[t]
      BY <1>0, <2>2, <2>3
    <2>5. \A t \in Sessions : t # s => Kept(t)' = Kept(t)
      BY <2>4 DEF Kept, Exists
    <2>6. Kept(s) # NoKept /\ Kept(s) = [status |-> loc[r].status, version |-> loc[r].version]
      BY <1>0, <2>2, KeptIs DEF Kept
    <2>7. Copy(r) = {[id |-> s, row |-> Kept(s)]}
      BY <2>0, <2>1, <2>6 DEF Copy, Versioned
    <2>8. Kept(s)' = NoKept \/ Kept(s)'.version = Kept(s).version + 1
      <3>1. CASE x.status = Absent
        BY <2>4, <3>1 DEF Kept, NoKept, Exists
      <3>2. CASE x.status # Absent
        BY <2>2, <2>3, <2>4, <3>2 DEF Kept, Exists
      <3> QED
        BY <3>1, <3>2
    <2> QED
      BY <2>2, <2>5, <2>6, <2>7, <2>8
  <1> QED
    BY <1>1, <1>2

LEMMA Committing ==
  ASSUME IInv, IInv', NEW r \in Reqs, sess' # sess,
         CreateCommit(r) \/ UpdateCommit(r) \/ DeleteCommit(r) \/ SubmitCommit(r) \/ AmendCommit(r)
  PROVE  Locking!VCommit(r)
  <1>1. TypeOK /\ TypeOK'
    BY DEF IInv
  <1>2. \A s \in Sessions : Kept(s)' \in [status: Status, version: Nat] \cup {NoKept}
    <2>1. \A s \in Sessions : sess'[s] \in Session
      BY <1>1 DEF TypeOK
    <2>2. ASSUME NEW s \in Sessions
          PROVE  Kept(s)' \in [status: Status, version: Nat] \cup {NoKept}
      BY <2>1 DEF Kept, Exists, NoKept, Session
    <2> QED
      BY <2>2
  <1>3. Copy(r)' = {} /\ \A q \in Reqs : q # r => Copy(q)' = Copy(q)
    BY <1>1 DEF TypeOK, Copy, CreateCommit, UpdateCommit, DeleteCommit, SubmitCommit, AmendCommit,
                Finish
  <1>4. \A s \in Sessions : Kept(s)' # Kept(s) => Locking!Allowed(r, s, Kept(s)')
    BY SessionWritten DEF Locking!Allowed, NoKept
  <1> QED
    BY <1>2, <1>3, <1>4 DEF Locking!VCommit, NoKept

(* Requests on sessions keep the promise of VersionMixin: no step changes  *)
(* or deletes a session that is not as its request has loaded it.          *)
THEOREM Refinement == Spec => ImplementsVersionedRows
  <1>1. Init => Locking!VInit
    <2> SUFFICES ASSUME Init PROVE Locking!VInit
      OBVIOUS
    <2>1. \A s \in Sessions : Kept(s) \in [status: Status, version: Nat] \cup {NoKept}
      BY InitInv, KeptIs DEF IInv
    <2> QED
      BY <2>1 DEF Init, Copy, NoKept, Locking!VInit
  <1>2. IInv /\ IInv' /\ [Next]_vars => [Locking!VNext]_(Locking!vvars)
    <2> SUFFICES ASSUME IInv, IInv', [Next]_vars PROVE [Locking!VNext]_(Locking!vvars)
      OBVIOUS
    <2>0. pc \in [Reqs -> Point] /\ loc \in [Reqs -> Local] /\ TypeOK
      BY DEF IInv, TypeOK
    <2>1. CASE UNCHANGED <<sess, pc, loc>>
      BY <2>1 DEF Copy, Kept, Exists, Locking!vvars
    <2>2. ASSUME NEW r \in Reqs,
                 \/ CreateCommit(r)
                 \/ UpdateCommit(r) \/ DeleteCommit(r) \/ SubmitCommit(r) \/ AmendCommit(r)
          PROVE  [Locking!VNext]_(Locking!vvars)
      <3>1. CASE sess' # sess
        BY <2>2, <3>1, Committing DEF Locking!VNext
      <3>2. CASE UNCHANGED sess
        <4>1. pc'[r] = "done" /\ \A q \in Reqs : q # r => pc'[q] = pc[q] /\ loc'[q] = loc[q]
          BY <2>0, <2>2 DEF CreateCommit, UpdateCommit, DeleteCommit, SubmitCommit, AmendCommit, Finish
        <4> QED
          BY <2>0, <3>2, <4>1, Keeping DEF Copy
      <3> QED
        BY <3>1, <3>2
    <2>3. ASSUME NEW r \in Reqs, NEW s \in Sessions, NEW to \in Status,
                 UpdateRead(r, s, to) \/ DeleteRead(r, s) \/ SubmitRead(r, s) \/ AmendRead(r, s)
          PROVE  [Locking!VNext]_(Locking!vvars)
      <3>1. /\ UNCHANGED sess /\ Exists(s) /\ pc'[r] \in Versioned
            /\ \A q \in Reqs : q # r => pc'[q] = pc[q] /\ loc'[q] = loc[q]
        BY <2>0, <2>3 DEF UpdateRead, DeleteRead, SubmitRead, AmendRead, Goto, Load, Exists, Absent,
           Versioned
      <3>2. /\ loc'[r].sid = s /\ loc'[r].status = sess[s].status
            /\ loc'[r].version = sess[s].version
        BY <2>0, <2>3 DEF UpdateRead, DeleteRead, SubmitRead, AmendRead, Load, Loaded
      <3>3. Copy(r)' = {[id |-> s, row |-> Kept(s)]}
        BY <3>1, <3>2 DEF Copy, Kept, Versioned
      <3> QED
        BY <2>0, <3>1, <3>3, Keeping
    <2>4. ASSUME NEW r \in Reqs, UNCHANGED sess,
                 pc'[r] \in {"create_roster", "create_commit", "record_session", "record_commit",
                            "bulk", "done"},
                 \A q \in Reqs : q # r => pc'[q] = pc[q] /\ loc'[q] = loc[q]
          PROVE  [Locking!VNext]_(Locking!vvars)
      BY <2>0, <2>4, Keeping DEF Copy
    <2>5. ASSUME NEW r \in Reqs,
                 \/ Refused(r) \/ Abort(r) \/ CreateRead(r) \/ CreateRoster(r)
                 \/ RecordSession(r) \/ RecordCommit(r) \/ BulkCommit(r)
          PROVE  [Locking!VNext]_(Locking!vvars)
      BY <2>0, <2>4, <2>5 DEF Refused, Abort, CreateRead, CreateRoster, RecordSession, RecordCommit,
         BulkCommit, Goto, Finish, Load
    <2>6. ASSUME NEW r \in Reqs, NEW s \in Sessions, NEW e \in Students, NEW m \in Marks,
                 RecordRead(r, s, e, m)
          PROVE  [Locking!VNext]_(Locking!vvars)
      BY <2>0, <2>4, <2>6 DEF RecordRead, Goto, Load
    <2>7. ASSUME NEW r \in Reqs, NEW s \in Sessions, NEW marks \in Records, BulkRead(r, s, marks)
          PROVE  [Locking!VNext]_(Locking!vvars)
      BY <2>0, <2>4, <2>7 DEF BulkRead, Goto, Load
    <2>8. ASSUME NEW r \in Reqs, Step(r) PROVE [Locking!VNext]_(Locking!vvars)
      <3>1. "DRAFT" \in Status
        BY DEF Status
      <3>2. ASSUME NEW s \in Sessions, DeleteRead(r, s) \/ SubmitRead(r, s) \/ AmendRead(r, s)
            PROVE  [Locking!VNext]_(Locking!vvars)
        BY <2>3, <3>1, <3>2
      <3> QED
        BY <2>2, <2>3, <2>5, <2>6, <2>7, <2>8, <3>2 DEF Step
    <2> QED
      BY <2>1, <2>8 DEF Next, vars, EnrollmentChange
  <1> QED
    BY <1>1, <1>2, InductiveInvariant, PTL DEF Spec, ImplementsVersionedRows, Locking!VSpec
=============================================================================
