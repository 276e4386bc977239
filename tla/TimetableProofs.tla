--------------------------- MODULE TimetableProofs --------------------------
(***************************************************************************)
(* Proofs about TimetableSlots for any number of requests, teachers,       *)
(* cohorts, periods and dates.                                             *)
(*                                                                         *)
(* CheckedAt is the heart of the argument: between its look for cohort     *)
(* conflicts and its commit, whatever clashes with the slot a request is   *)
(* about to write was written after that look.  LocAt carries what the     *)
(* version column guarantees, as in the other modules.                     *)
(***************************************************************************)
EXTENDS TimetableSlots, TLAPS

Versioned == {"slot_recheck", "slot_update", "slot_cancel"}
Adding == {"slot_cohort", "slot_insert"}

LocAt(q) ==
  /\ pc[q] \in Versioned =>
       /\ loc[q].id \in Slots /\ Exists(loc[q].id)
       /\ loc[q].row.version <= slot[loc[q].id].version
       /\ Fresh(q) => slot[loc[q].id] = loc[q].row
       /\ loc[q].row.from \in Dates /\ loc[q].row.period \in Periods
       /\ loc[q].new.cohort = loc[q].row.cohort /\ loc[q].new.period = loc[q].row.period
       /\ loc[q].new.from = loc[q].row.from /\ loc[q].new.status \in Status
       /\ loc[q].new.version = loc[q].row.version + 1
  /\ pc[q] = "slot_cancel" => loc[q].new.status = "CANCELLED"
  /\ pc[q] \in Adding => /\ loc[q].id = None /\ loc[q].new.status = "ACTIVE"
                         /\ loc[q].new.version = 1
                         /\ loc[q].new.period \in Periods /\ loc[q].new.from \in Dates
  /\ pc[q] \in {"period_update", "period_delete"} => loc[q].id \in Periods
  /\ pc[q] \in {"period_insert", "period_update"} => loc[q].name \in Names
PastAt(q) ==
  /\ pc[q] # "done" => out[q] = "none"
  /\ \A p \in past[q] : out[p] = "written"
(* Slot d clashes with the one q is about to write. *)
InTheWay(d, q) ==
  /\ Active(d) /\ d # loc[q].id
  /\ slot[d].cohort = loc[q].new.cohort /\ slot[d].period = loc[q].new.period
  /\ Overlap(loc[q].new, slot[d])
CheckedAt(q) ==
  pc[q] \in {"slot_insert", "slot_update"} =>
    \A d \in Slots : InTheWay(d, q) => writer[d] \in Reqs /\ writer[d] \notin past[q]
RowAt(s) ==
  /\ Exists(s) => slot[s].from \in Dates
  /\ writer[s] \in Reqs => out[writer[s]] = "written"

LocInv == \A q \in Reqs : LocAt(q)
PastInv == \A q \in Reqs : PastAt(q)
CheckedInv == \A q \in Reqs : CheckedAt(q)
RowInv == \A s \in Slots : RowAt(s)
MadeInv == \A q \in Reqs : pc[q] # "done" => slot[q] = NoSlot

IInv == /\ TypeOK /\ LocInv /\ PastInv /\ CheckedInv /\ RowInv /\ MadeInv
        /\ PeriodNamesUnique /\ CohortClashOnlyRaced

-----------------------------------------------------------------------------
(* Shapes                                                                  *)

(* The rows and locals that the operations build. *)
LEMMA Shapes ==
  /\ NoSlot \in Slot /\ NoSlot.status = Absent
  /\ Absent \notin Status /\ "ACTIVE" \in Status /\ "CANCELLED" \in Status
  /\ SlotLocal(None, NoSlot, NoSlot) \in Local
  /\ \A c \in Cohorts, p \in Periods, t \in Teachers, from \in Dates, to \in Dates \cup {None} :
       /\ NewSlot(c, p, t, from, to) \in Slot
       /\ NewSlot(c, p, t, from, to).status = "ACTIVE" /\ NewSlot(c, p, t, from, to).version = 1
       /\ NewSlot(c, p, t, from, to).period = p /\ NewSlot(c, p, t, from, to).from = from
  BY DEF NoSlot, Slot, Absent, Status, SlotLocal, Local, NewSlot

LEMMA ChangedRow ==
  ASSUME NEW x \in Slot, NEW t \in Teachers \cup {None}, NEW to \in Dates \cup {None},
         NEW status \in Status
  PROVE  /\ Changed(x, t, to, status) \in Slot
         /\ Changed(x, t, to, status).cohort = x.cohort
         /\ Changed(x, t, to, status).period = x.period
         /\ Changed(x, t, to, status).from = x.from
         /\ Changed(x, t, to, status).status = status
         /\ Changed(x, t, to, status).version = x.version + 1
  BY DEF Changed, Slot

LEMMA SlotLocals ==
  ASSUME NEW s \in Slots \cup {None}, NEW x \in Slot, NEW y \in Slot
  PROVE  /\ SlotLocal(s, x, y) \in Local
         /\ SlotLocal(s, x, y).id = s /\ SlotLocal(s, x, y).row = x /\ SlotLocal(s, x, y).new = y
  BY DEF SlotLocal, Local, Slots

LEMMA PeriodLocals ==
  ASSUME NEW p \in Periods \cup {None}, NEW was \in Names \cup {None}, NEW n \in Names \cup {None}
  PROVE  /\ PeriodLocal(p, was, n) \in Local
         /\ PeriodLocal(p, was, n).id = p /\ PeriodLocal(p, was, n).name = n
  BY Shapes DEF PeriodLocal, Local, Periods

LEMMA SlotTypes ==
  ASSUME TypeOK, NEW s \in Slots
  PROVE  slot[s] \in Slot /\ slot[s].version \in Nat /\ slot[s].status \in Status \cup {Absent}
         /\ slot[s].to \in Dates \cup {None} /\ slot[s].teacher \in Teachers \cup {None}
  BY DEF TypeOK, Slot

LEMMA LocTypes ==
  ASSUME TypeOK, NEW q \in Reqs
  PROVE  /\ loc[q] \in Local /\ loc[q].row \in Slot /\ loc[q].new \in Slot
         /\ loc[q].row.version \in Nat /\ loc[q].new.version \in Nat
         /\ loc[q].new.to \in Dates \cup {None}
  BY DEF TypeOK, Local, Slot

(* Overlapping is symmetric. *)
LEMMA OverlapSymmetric ==
  ASSUME NEW a, NEW b, a.from \in Dates, b.from \in Dates,
         a.to \in Dates \cup {None}, b.to \in Dates \cup {None}, Overlap(a, b)
  PROVE  Overlap(b, a)
  BY DatesAssumption DEF Overlap, Dates

-----------------------------------------------------------------------------
(* Frames                                                                  *)

(* A step of r leaves the others alone when it keeps the slots, or writes  *)
(* one of them, new or in a later version, as its writer.                  *)
LEMMA Others ==
  ASSUME IInv, NEW r \in Reqs, pc[r] # "done",
         \A q \in Reqs : q # r => /\ pc'[q] = pc[q] /\ loc'[q] = loc[q]
                                  /\ out'[q] = out[q] /\ past'[q] = past[q],
         \A s \in Slots : \/ slot'[s] = slot[s] /\ writer'[s] = writer[s]
                          \/ /\ writer'[s] = r /\ slot'[s].status \in Status
                             /\ slot'[s].version \in Nat
                             /\ Exists(s) => slot[s].version < slot'[s].version,
         NEW q \in Reqs, q # r
  PROVE  LocAt(q)' /\ PastAt(q)' /\ CheckedAt(q)'
  <1>0. LocAt(q) /\ PastAt(q) /\ CheckedAt(q) /\ out[r] = "none"
    BY DEF IInv, LocInv, PastInv, PastAt, CheckedInv
  <1>1. LocAt(q)'
    <2>1. SUFFICES ASSUME pc[q] \in Versioned
                   PROVE  /\ Exists(loc[q].id)' /\ loc[q].row.version <= slot'[loc[q].id].version
                          /\ Fresh(q)' => slot'[loc[q].id] = loc[q].row
      BY <1>0 DEF LocAt
    <2>2. /\ loc[q].id \in Slots /\ Exists(loc[q].id)
          /\ loc[q].row.version <= slot[loc[q].id].version
          /\ Fresh(q) => slot[loc[q].id] = loc[q].row
      BY <1>0, <2>1 DEF LocAt
    <2>3. loc[q].row.version \in Nat /\ slot[loc[q].id].version \in Nat
      BY <2>2, SlotTypes, LocTypes DEF IInv
    <2>4. CASE slot'[loc[q].id] = slot[loc[q].id]
      BY <2>2, <2>4 DEF Exists, Fresh
    <2>5. CASE /\ slot'[loc[q].id].status \in Status /\ slot'[loc[q].id].version \in Nat
               /\ slot[loc[q].id].version < slot'[loc[q].id].version
      BY <2>2, <2>3, <2>5, Shapes DEF Exists, Fresh
    <2> QED
      BY <2>2, <2>4, <2>5
  <1>2. PastAt(q)'
    <2>1. \A p \in past[q] : p # r
      BY <1>0 DEF PastAt
    <2>2. past[q] \subseteq Reqs
      BY DEF IInv, TypeOK
    <2> QED
      BY <1>0, <2>1, <2>2 DEF PastAt
  <1>3. CheckedAt(q)'
    <2>1. SUFFICES ASSUME pc[q] \in {"slot_insert", "slot_update"}, NEW d \in Slots, InTheWay(d, q)'
                   PROVE  writer'[d] \in Reqs /\ writer'[d] \notin past[q]
      BY DEF CheckedAt
    <2>2. CASE slot'[d] = slot[d] /\ writer'[d] = writer[d]
      BY <1>0, <2>1, <2>2 DEF CheckedAt, InTheWay, Active
    <2>3. CASE writer'[d] = r
      BY <1>0, <2>3 DEF PastAt
    <2> QED
      BY <2>2, <2>3
  <1> QED
    BY <1>1, <1>2, <1>3

(* A request that ends without touching the slots. *)
LEMMA Ending ==
  ASSUME IInv, NEW r \in Reqs, pc[r] # "done", NEW o \in {"written", "nothing"}, Finish(r, o),
         UNCHANGED <<slot, writer, past>>, per' \in [Periods -> Names \cup {None}],
         \A s \in Slots : Exists(s) => per'[slot[s].period] # None, PeriodNamesUnique'
  PROVE  IInv'
  <1>0. /\ pc \in [Reqs -> Point] /\ loc \in [Reqs -> Local] /\ out \in [Reqs -> Outcome]
        /\ writer \in [Slots -> Reqs \cup {None}]
        /\ past \in [Reqs -> SUBSET Reqs]
    BY DEF IInv, TypeOK
  <1>1. TypeOK'
    BY <1>0, Shapes DEF IInv, TypeOK, Finish, Hold, Point, Outcome, Exists
  <1>2. LocAt(r)' /\ CheckedAt(r)'
    BY <1>0 DEF Finish, LocAt, CheckedAt, Versioned, Adding
  <1>3. out[r] = "none"
    BY DEF IInv, PastInv, PastAt
  <1>4. PastAt(r)'
    <2>1. \A p \in past[r] : p # r /\ p \in Reqs /\ out[p] = "written"
      BY <1>0, <1>3 DEF IInv, PastInv, PastAt
    <2> QED
      BY <1>0, <2>1 DEF Finish, PastAt
  <1>5. LocInv' /\ PastInv' /\ CheckedInv'
    BY <1>0, <1>2, <1>4, Others DEF LocInv, PastInv, CheckedInv, Finish, Hold
  <1>6. RowInv'
    BY <1>0, <1>3 DEF IInv, RowInv, RowAt, Exists, Finish
  <1>7. MadeInv'
    BY <1>0 DEF IInv, MadeInv, Finish
  <1>8. CohortClashOnlyRaced'
    BY DEF IInv, CohortClashOnlyRaced, CohortClash, Active
  <1> QED
    BY <1>1, <1>5, <1>6, <1>7, <1>8 DEF IInv

(* A request that reads. *)
LEMMA Reading ==
  ASSUME IInv, NEW r \in Reqs, NEW p \in Point \ {"done"}, pc[r] # "done", Goto(r, p),
         NEW l \in Local, loc' = [loc EXCEPT ![r] = l],
         NEW S \in SUBSET Reqs, past' = [past EXCEPT ![r] = S],
         \A q \in S : out[q] = "written", LocAt(r)', CheckedAt(r)',
         UNCHANGED <<per, slot, writer>>
  PROVE  IInv'
  <1>0. /\ pc \in [Reqs -> Point] /\ loc \in [Reqs -> Local]
        /\ past \in [Reqs -> SUBSET Reqs]
    BY DEF IInv, TypeOK
  <1>1. TypeOK'
    BY <1>0 DEF IInv, TypeOK, Goto, Exists
  <1>2. out[r] = "none"
    BY DEF IInv, PastInv, PastAt
  <1>3. PastAt(r)'
    BY <1>0, <1>2 DEF Goto, PastAt
  <1>4. LocInv' /\ PastInv' /\ CheckedInv'
    BY <1>0, <1>3, Others DEF LocInv, PastInv, CheckedInv, Goto
  <1>5. RowInv'
    BY DEF IInv, RowInv, RowAt, Exists, Goto
  <1>6. MadeInv'
    BY <1>0 DEF IInv, MadeInv, Goto
  <1>7. PeriodNamesUnique'
    BY DEF IInv, PeriodNamesUnique
  <1>8. CohortClashOnlyRaced'
    <2> SUFFICES ASSUME NEW d \in Slots, NEW e \in Slots, CohortClash(d, e)
                 PROVE  /\ writer[d] \in Reqs /\ writer[e] \in Reqs
                        /\ writer[d] \notin past'[writer[e]] /\ writer[e] \notin past'[writer[d]]
      BY DEF CohortClashOnlyRaced, CohortClash, Active
    <2>1. /\ writer[d] \in Reqs /\ writer[e] \in Reqs
          /\ writer[d] \notin past[writer[e]] /\ writer[e] \notin past[writer[d]]
      BY DEF IInv, CohortClashOnlyRaced
    <2>2. writer[d] # r /\ writer[e] # r
      BY <1>2, <2>1 DEF IInv, RowInv, RowAt
    <2> QED
      BY <1>0, <2>1, <2>2
  <1> QED
    BY <1>1, <1>4, <1>5, <1>6, <1>7, <1>8 DEF IInv

(* A request that writes slot e as it was checked, or cancels it. *)
LEMMA Writing ==
  ASSUME IInv, NEW r \in Reqs, pc[r] # "done", NEW e \in Slots, NEW x \in Slot,
         x.status \in Status, x.from \in Dates, x.period \in Periods, per[x.period] # None,
         slot' = [slot EXCEPT ![e] = x], writer' = [writer EXCEPT ![e] = r],
         Exists(e) => slot[e].version < x.version,
         e \in Reqs => e = r \/ pc[e] = "done",
         Finish(r, "written"), UNCHANGED <<per, past>>,
         x.status = "ACTIVE" =>
           \A d \in Slots : /\ Active(d) /\ d # e
                            /\ slot[d].cohort = x.cohort /\ slot[d].period = x.period
                            /\ Overlap(x, slot[d])
                            => writer[d] \in Reqs /\ writer[d] \notin past[r]
  PROVE  IInv'
  <1>0. /\ pc \in [Reqs -> Point] /\ loc \in [Reqs -> Local] /\ out \in [Reqs -> Outcome]
        /\ writer \in [Slots -> Reqs \cup {None}] /\ slot \in [Slots -> Slot]
        /\ past \in [Reqs -> SUBSET Reqs] /\ x.version \in Nat
    BY DEF IInv, TypeOK, Slot
  <1>0a. /\ slot'[e] = x /\ writer'[e] = r /\ out'[r] = "written"
         /\ \A s \in Slots : s # e => slot'[s] = slot[s] /\ writer'[s] = writer[s]
         /\ \A q \in Reqs : q # r => out'[q] = out[q]
    BY <1>0 DEF Finish
  <1>1. TypeOK'
    <2>1. slot' \in [Slots -> Slot] /\ writer' \in [Slots -> Reqs \cup {None}]
      BY <1>0
    <2>2. \A s \in Slots : Exists(s)' => slot'[s].period \in Periods /\ per'[slot'[s].period] # None
      BY <1>0a DEF IInv, TypeOK, Exists
    <2> QED
      BY <1>0, <2>1, <2>2, Shapes DEF IInv, TypeOK, Finish, Hold, Point, Outcome
  <1>2. LocAt(r)' /\ CheckedAt(r)'
    BY <1>0 DEF Finish, LocAt, CheckedAt, Versioned, Adding
  <1>3. out[r] = "none"
    BY DEF IInv, PastInv, PastAt
  <1>4. PastAt(r)'
    <2>1. \A p \in past[r] : p # r /\ p \in Reqs /\ out[p] = "written"
      BY <1>0, <1>3 DEF IInv, PastInv, PastAt
    <2> QED
      BY <1>0, <2>1 DEF Finish, PastAt
  <1>5. LocInv' /\ PastInv' /\ CheckedInv'
    <2>1. \A s \in Slots : \/ slot'[s] = slot[s] /\ writer'[s] = writer[s]
                           \/ /\ writer'[s] = r /\ slot'[s].status \in Status
                              /\ slot'[s].version \in Nat
                              /\ Exists(s) => slot[s].version < slot'[s].version
      BY <1>0, <1>0a
    <2>2. \A q \in Reqs : q # r => /\ pc'[q] = pc[q] /\ loc'[q] = loc[q]
                                   /\ out'[q] = out[q] /\ past'[q] = past[q]
      BY <1>0 DEF Finish, Hold
    <2>3. \A q \in Reqs : q # r => LocAt(q)' /\ PastAt(q)' /\ CheckedAt(q)'
      BY <2>1, <2>2, Others
    <2> QED
      BY <1>2, <1>4, <2>3 DEF LocInv, PastInv, CheckedInv
  <1>6. RowInv'
    <2>1. ASSUME NEW s \in Slots, s # e PROVE RowAt(s)'
      BY <1>0a, <1>3, <2>1 DEF IInv, RowInv, RowAt, Exists
    <2>2. RowAt(e)'
      BY <1>0a DEF RowAt
    <2> QED
      BY <2>1, <2>2 DEF RowInv
  <1>7. MadeInv'
    BY <1>0, <1>0a DEF IInv, MadeInv, Finish, Slots
  <1>8. PeriodNamesUnique'
    BY DEF IInv, PeriodNamesUnique
  <1>9. CohortClashOnlyRaced'
    <2>1. ASSUME NEW d \in Slots, d # e, CohortClash(d, e)' \/ CohortClash(e, d)'
          PROVE  /\ writer'[d] \in Reqs /\ writer'[d] \notin past[r] /\ r \notin past[writer'[d]]
      <3>1. /\ Active(d) /\ x.status = "ACTIVE"
            /\ slot[d].cohort = x.cohort /\ slot[d].period = x.period
            /\ Overlap(x, slot[d]) \/ Overlap(slot[d], x)
        BY <1>0a, <2>1 DEF CohortClash, Active
      <3>2. slot[d].from \in Dates /\ slot[d].to \in Dates \cup {None} /\ x.to \in Dates \cup {None}
        BY <3>1, SlotTypes DEF IInv, RowInv, RowAt, Active, Exists, Absent, Slot
      <3>3. Overlap(x, slot[d])
        BY <3>1, <3>2, OverlapSymmetric
      <3>4. writer[d] \in Reqs /\ writer[d] \notin past[r]
        BY <2>1, <3>1, <3>3
      <3>5. r \notin past[writer[d]]
        BY <1>3, <3>4 DEF IInv, PastInv, PastAt
      <3> QED
        BY <1>0a, <2>1, <3>4, <3>5
    <2>2. ASSUME NEW d \in Slots, NEW f \in Slots, d # e, f # e, CohortClash(d, f)'
          PROVE  /\ writer'[d] \in Reqs /\ writer'[f] \in Reqs
                 /\ writer'[d] \notin past[writer'[f]] /\ writer'[f] \notin past[writer'[d]]
      BY <1>0a, <2>2 DEF IInv, CohortClashOnlyRaced, CohortClash, Active
    <2>3. \A d, f \in Slots : CohortClash(d, f)' => d # f
      BY DEF CohortClash
    <2> QED
      BY <1>0a, <2>1, <2>2, <2>3 DEF CohortClashOnlyRaced
  <1> QED
    BY <1>1, <1>5, <1>6, <1>7, <1>8, <1>9 DEF IInv

-----------------------------------------------------------------------------
(* The steps                                                               *)

LEMMA PeriodSteps ==
  ASSUME IInv, NEW r \in Reqs, PeriodStep(r)
  PROVE  IInv'
  <1>0. /\ pc \in [Reqs -> Point] /\ loc \in [Reqs -> Local] /\ past \in [Reqs -> SUBSET Reqs]
        /\ per \in [Periods -> Names \cup {None}] /\ PeriodNamesUnique
        /\ \A s \in Slots : Exists(s) => slot[s].period \in Periods /\ per[slot[s].period] # None
        /\ LocAt(r) /\ PastAt(r)
    BY DEF IInv, TypeOK, LocInv, PastInv
  <1>1. ASSUME NEW p \in Periods \cup {None}, NEW was \in Names \cup {None},
               NEW n \in Names \cup {None}, NEW to \in {"period_insert", "period_update", "period_delete"},
               to \in {"period_insert", "period_update"} => n \in Names,
               to \in {"period_update", "period_delete"} => p \in Periods,
               pc[r] = "idle", Hold(r, PeriodLocal(p, was, n)), Goto(r, to),
               UNCHANGED <<per, slot, History>>
        PROVE  IInv'
    <2>1. /\ PeriodLocal(p, was, n) \in Local /\ PeriodLocal(p, was, n).id = p
          /\ PeriodLocal(p, was, n).name = n
      BY PeriodLocals
    <2>2. pc'[r] = to /\ loc'[r] = PeriodLocal(p, was, n)
      BY <1>0, <1>1 DEF Goto, Hold
    <2>3. LocAt(r)' /\ CheckedAt(r)'
      BY <1>1, <2>1, <2>2 DEF LocAt, CheckedAt, Versioned, Adding
    <2>4. past' = [past EXCEPT ![r] = past[r]] /\ past[r] \in SUBSET Reqs
      BY <1>0, <1>1 DEF History
    <2>5. to \in Point \ {"done"} /\ pc[r] # "done" /\ UNCHANGED <<per, slot, writer>>
      BY <1>1 DEF Point, History
    <2> QED
      BY <1>0, <1>1, <2>1, <2>3, <2>4, <2>5, Reading DEF PastAt, Hold
  <1>2. ASSUME NEW n \in Names, CreatePeriodRead(r, n) PROVE IInv'
    BY <1>1, <1>2 DEF CreatePeriodRead
  <1>3. ASSUME NEW p \in Periods, NEW n \in Names, UpdatePeriodRead(r, p, n) PROVE IInv'
    BY <1>0, <1>1, <1>3 DEF UpdatePeriodRead
  <1>4. ASSUME NEW p \in Periods, DeletePeriodRead(r, p) PROVE IInv'
    BY <1>0, <1>1, <1>4 DEF DeletePeriodRead
  <1>5. ASSUME UNCHANGED <<per, slot, History>>, Finish(r, "nothing"), pc[r] # "done" PROVE IInv'
    <2>1. PeriodNamesUnique'
      BY <1>0, <1>5 DEF PeriodNamesUnique
    <2> QED
      BY <1>0, <1>5, <2>1, Ending DEF History
  <1>6. ASSUME NEW p \in Periods, NEW n \in Names \cup {None}, pc[r] # "done",
               per' = [per EXCEPT ![p] = n], n # None => NameFree(n, {p}),
               n = None => Unreferenced(p), Finish(r, "written"), UNCHANGED <<slot, History>>
        PROVE  IInv'
    <2>1. PeriodNamesUnique'
      BY <1>0, <1>6 DEF PeriodNamesUnique, NameFree
    <2>2. \A s \in Slots : Exists(s) => per'[slot[s].period] # None
      BY <1>0, <1>6 DEF Unreferenced
    <2> QED
      BY <1>0, <1>6, <2>1, <2>2, Ending DEF History
  <1>7. CASE CreatePeriodCommit(r)
    <2>1. r \in Periods /\ loc[r].name \in Names /\ pc[r] # "done"
      BY <1>0, <1>7 DEF CreatePeriodCommit, LocAt, Periods
    <2> QED
      BY <1>5, <1>6, <1>7, <2>1, NamesAssumption DEF CreatePeriodCommit, NameFree, History
  <1>8. CASE UpdatePeriodCommit(r)
    <2>1. loc[r].id \in Periods /\ loc[r].name \in Names /\ pc[r] # "done"
      BY <1>0, <1>8 DEF UpdatePeriodCommit, LocAt
    <2> QED
      BY <1>5, <1>6, <1>8, <2>1, NamesAssumption DEF UpdatePeriodCommit, History
  <1>9. CASE DeletePeriodCommit(r)
    <2>1. loc[r].id \in Periods /\ pc[r] # "done"
      BY <1>0, <1>9 DEF DeletePeriodCommit, LocAt
    <2> QED
      BY <1>5, <1>6, <1>9, <2>1 DEF DeletePeriodCommit, History
  <1> QED
    BY <1>2, <1>3, <1>4, <1>7, <1>8, <1>9 DEF PeriodStep

(* A request that loads a slot and plans a change of it. *)
LEMMA Planning ==
  ASSUME IInv, NEW r \in Reqs, pc[r] = "idle", NEW s \in Slots, Exists(s),
         NEW t \in Teachers \cup {None}, NEW to \in Dates \cup {None}, NEW status \in Status,
         NEW p \in {"slot_recheck", "slot_cancel"}, p = "slot_cancel" => status = "CANCELLED",
         Hold(r, SlotLocal(s, slot[s], Changed(slot[s], t, to, status))), Goto(r, p),
         UNCHANGED <<per, slot, History>>
  PROVE  IInv'
  <1>0. /\ pc \in [Reqs -> Point] /\ loc \in [Reqs -> Local] /\ past \in [Reqs -> SUBSET Reqs]
        /\ slot[s] \in Slot /\ slot[s].version \in Nat /\ PastAt(r)
        /\ slot[s].from \in Dates /\ slot[s].period \in Periods
    BY SlotTypes DEF IInv, TypeOK, PastInv, RowInv, RowAt
  <1> DEFINE new == Changed(slot[s], t, to, status)
  <1>1. /\ new \in Slot /\ new.cohort = slot[s].cohort /\ new.period = slot[s].period
        /\ new.from = slot[s].from /\ new.status = status /\ new.version = slot[s].version + 1
    <2>1. slot[s] \in Slot
      BY <1>0
    <2> QED
      BY ONLY <2>1, ChangedRow, status \in Status, t \in Teachers \cup {None},
              to \in Dates \cup {None}
  <1> HIDE DEF new
  <1>2. /\ SlotLocal(s, slot[s], new) \in Local /\ SlotLocal(s, slot[s], new).id = s
        /\ SlotLocal(s, slot[s], new).row = slot[s] /\ SlotLocal(s, slot[s], new).new = new
    BY <1>0, <1>1, SlotLocals
  <1>3. pc'[r] = p /\ loc'[r] = SlotLocal(s, slot[s], new) /\ slot' = slot
    BY <1>0 DEF Goto, Hold, new
  <1>4. LocAt(r)' /\ CheckedAt(r)'
    BY <1>0, <1>1, <1>2, <1>3 DEF LocAt, CheckedAt, Versioned, Adding, Exists, Fresh
  <1>5. past' = [past EXCEPT ![r] = past[r]] /\ past[r] \in SUBSET Reqs
    BY <1>0 DEF History
  <1>6. p \in Point \ {"done"} /\ pc[r] # "done" /\ UNCHANGED <<per, slot, writer>>
    BY DEF Point, History
  <1>7. loc' = [loc EXCEPT ![r] = SlotLocal(s, slot[s], new)]
    BY DEF Hold, new
  <1> QED
    BY <1>0, <1>2, <1>4, <1>5, <1>6, <1>7, Reading DEF PastAt

(* The look for cohort conflicts finds none. *)
LEMMA Looking ==
  ASSUME IInv, NEW r \in Reqs, pc[r] \in {"slot_cohort", "slot_recheck"},
         NEW p \in {"slot_insert", "slot_update"},
         pc[r] = "slot_cohort" <=> p = "slot_insert",
         ~CohortConflict(loc[r].new, {loc[r].id} \cap Slots), Looked(r), Goto(r, p),
         UNCHANGED <<per, slot, loc, writer>>
  PROVE  IInv'
  <1>0. /\ pc \in [Reqs -> Point] /\ loc \in [Reqs -> Local] /\ past \in [Reqs -> SUBSET Reqs]
        /\ LocAt(r)
    BY DEF IInv, TypeOK, LocInv
  <1>1. pc'[r] = p /\ loc' = [loc EXCEPT ![r] = loc[r]] /\ loc[r] \in Local
    BY <1>0 DEF Goto
  <1>2. LocAt(r)'
    BY <1>0, <1>1 DEF LocAt, Versioned, Adding, Exists, Fresh
  <1>3. CheckedAt(r)'
    BY <1>0, <1>1 DEF CheckedAt, InTheWay, CohortConflict, Active
  <1>4. /\ past' = [past EXCEPT ![r] = {q \in Reqs : out[q] = "written"}]
        /\ p \in Point \ {"done"} /\ pc[r] # "done"
    BY DEF Looked, Point
  <1> DEFINE seen == {q \in Reqs : out[q] = "written"}
  <1>5. /\ seen \in SUBSET Reqs /\ \A q \in seen : out[q] = "written"
        /\ past' = [past EXCEPT ![r] = seen] /\ UNCHANGED <<per, slot, writer>>
    BY <1>4
  <1> HIDE DEF seen
  <1> QED
    BY <1>1, <1>2, <1>3, <1>4, <1>5, Reading

LEMMA SlotSteps ==
  ASSUME IInv, NEW r \in Reqs, SlotStep(r)
  PROVE  IInv'
  <1>0. /\ pc \in [Reqs -> Point] /\ loc \in [Reqs -> Local] /\ past \in [Reqs -> SUBSET Reqs]
        /\ per \in [Periods -> Names \cup {None}] /\ PeriodNamesUnique
        /\ \A s \in Slots : Exists(s) => slot[s].period \in Periods /\ per[slot[s].period] # None
        /\ LocAt(r) /\ PastAt(r) /\ CheckedAt(r) /\ loc[r].new \in Slot /\ loc[r].row \in Slot
        /\ loc[r].row.version \in Nat
    BY LocTypes DEF IInv, TypeOK, LocInv, PastInv, CheckedInv
  <1>1. ASSUME NEW c \in Cohorts, NEW p \in Periods, NEW t \in Teachers, NEW from \in Dates,
               NEW to \in Dates \cup {None}, CreateSlotTeacher(r, c, p, t, from, to)
        PROVE  IInv'
    <2> DEFINE new == NewSlot(c, p, t, from, to)
    <2>1. /\ new \in Slot /\ new.status = "ACTIVE" /\ new.period = p /\ new.from = from
          /\ new.version = 1
      BY Shapes
    <2>2. /\ pc[r] = "idle" /\ Hold(r, SlotLocal(None, NoSlot, new)) /\ Goto(r, "slot_cohort")
          /\ UNCHANGED <<per, slot, writer, past>>
      BY <1>1 DEF CreateSlotTeacher, History
    <2> HIDE DEF new
    <2>3. /\ SlotLocal(None, NoSlot, new) \in Local /\ SlotLocal(None, NoSlot, new).id = None
          /\ SlotLocal(None, NoSlot, new).new = new
      <3>1. NoSlot \in Slot
        BY Shapes
      <3> QED
        BY <2>1, <3>1 DEF SlotLocal, Local
    <2>4. LocAt(r)' /\ CheckedAt(r)'
      BY <1>0, <2>1, <2>2, <2>3 DEF LocAt, CheckedAt, Versioned, Adding, Goto, Hold
    <2>5. past' = [past EXCEPT ![r] = past[r]] /\ past[r] \in SUBSET Reqs
      BY <1>0, <2>2
    <2> QED
      BY <1>0, <2>2, <2>3, <2>4, <2>5, Reading DEF PastAt, Hold, Point
  <1>2. ASSUME NEW s \in Slots, NEW t \in Teachers \cup {None}, NEW to \in Dates \cup {None},
               NEW status \in Status, UpdateSlotRead(r, s, t, to, status)
        PROVE  IInv'
    <2>1. PICK t2 \in Teachers \cup {None}, to2 \in Dates \cup {None} :
            Hold(r, SlotLocal(s, slot[s], Changed(slot[s], t2, to2, status)))
      BY <1>2, SlotTypes DEF UpdateSlotRead, IInv
    <2>2. /\ pc[r] = "idle" /\ Exists(s) /\ Goto(r, "slot_recheck")
          /\ UNCHANGED <<per, slot, History>>
      BY <1>2 DEF UpdateSlotRead
    <2> QED
      BY <2>1, <2>2, Planning
  <1>3. ASSUME NEW s \in Slots, CancelSlotRead(r, s) PROVE IInv'
    <2>1. Today \in Dates /\ slot[s].teacher \in Teachers \cup {None} /\ "CANCELLED" \in Status
      BY DatesAssumption, SlotTypes, Shapes DEF Dates, IInv
    <2> QED
      BY <1>3, <2>1, Planning DEF CancelSlotRead
  <1>4. CASE CreateSlotCohort(r)
    <2>1. {loc[r].id} \cap Slots = {}
      BY <1>0, <1>4, NamesAssumption DEF CreateSlotCohort, LocAt, Adding, Slots
    <2> QED
      BY <1>4, <2>1, Looking DEF CreateSlotCohort
  <1>5. CASE UpdateSlotCohort(r)
    <2>1. {loc[r].id} \cap Slots = {loc[r].id}
      BY <1>0, <1>5 DEF UpdateSlotCohort, LocAt, Versioned
    <2> QED
      BY <1>5, <2>1, Looking DEF UpdateSlotCohort
  <1>6. ASSUME UNCHANGED <<per, slot, writer, past>>, Finish(r, "nothing"), pc[r] # "done"
        PROVE  IInv'
    <2>1. PeriodNamesUnique'
      BY <1>0, <1>6 DEF PeriodNamesUnique
    <2> QED
      BY <1>0, <1>6, <2>1, Ending
  <1>7. CASE CreateSlotCommit(r)
    <2>1. pc[r] = "slot_insert" /\ pc[r] # "done"
      BY <1>7 DEF CreateSlotCommit
    <2>2. CASE StartFree(loc[r].new) /\ per[loc[r].new.period] # None
      <3>1. /\ slot' = [slot EXCEPT ![r] = loc[r].new] /\ writer' = [writer EXCEPT ![r] = r]
            /\ Finish(r, "written") /\ UNCHANGED <<per, past>>
        BY <1>7, <2>2 DEF CreateSlotCommit
      <3>2. /\ loc[r].id = None /\ loc[r].new.status = "ACTIVE"
            /\ loc[r].new.period \in Periods /\ loc[r].new.from \in Dates
        BY <1>0, <2>1 DEF LocAt, Adding
      <3>3. r \in Slots /\ ~Exists(r)
        BY <2>1, Shapes DEF IInv, MadeInv, Slots, Exists
      <3>4. \A d \in Slots : /\ Active(d) /\ d # r
                             /\ slot[d].cohort = loc[r].new.cohort
                             /\ slot[d].period = loc[r].new.period
                             /\ Overlap(loc[r].new, slot[d])
                             => writer[d] \in Reqs /\ writer[d] \notin past[r]
        BY <1>0, <2>1, <3>2, NamesAssumption DEF CheckedAt, InTheWay, Slots
      <3>5. loc[r].new.status \in Status
        BY <3>2, Shapes
      <3> QED
        BY <1>0, <2>1, <2>2, <3>1, <3>2, <3>3, <3>4, <3>5, Writing
    <2>3. CASE ~(StartFree(loc[r].new) /\ per[loc[r].new.period] # None)
      BY <1>6, <1>7, <2>1, <2>3 DEF CreateSlotCommit
    <2> QED
      BY <2>2, <2>3
  <1>8. CASE WriteSlotCommit(r)
    <2>1. pc[r] \in {"slot_update", "slot_cancel"} /\ pc[r] # "done"
      BY <1>8 DEF WriteSlotCommit
    <2>2. \/ UNCHANGED <<per, slot, writer, past>> /\ Finish(r, "nothing")
          \/ /\ Fresh(r)
             /\ slot' = [slot EXCEPT ![loc[r].id] = loc[r].new]
             /\ writer' = [writer EXCEPT ![loc[r].id] = r]
             /\ Finish(r, "written") /\ UNCHANGED <<per, past>>
      BY <1>8 DEF WriteSlotCommit
    <2>3. CASE UNCHANGED <<per, slot, writer, past>> /\ Finish(r, "nothing")
      BY <1>6, <2>1, <2>3
    <2>4. CASE /\ Fresh(r)
               /\ slot' = [slot EXCEPT ![loc[r].id] = loc[r].new]
               /\ writer' = [writer EXCEPT ![loc[r].id] = r]
               /\ Finish(r, "written") /\ UNCHANGED <<per, past>>
      <3>1. /\ loc[r].id \in Slots /\ Exists(loc[r].id) /\ slot[loc[r].id] = loc[r].row
            /\ loc[r].new.status \in Status /\ loc[r].new.from \in Dates
            /\ loc[r].new.period = loc[r].row.period /\ loc[r].new.period \in Periods
            /\ loc[r].new.version = loc[r].row.version + 1
            /\ pc[r] = "slot_cancel" => loc[r].new.status = "CANCELLED"
        BY <1>0, <2>1, <2>4 DEF LocAt, Versioned
      <3>2. per[loc[r].new.period] # None
        BY <1>0, <3>1
      <3>3. slot[loc[r].id].version < loc[r].new.version
        BY <1>0, <3>1
      <3>4. loc[r].id \in Reqs => loc[r].id = r \/ pc[loc[r].id] = "done"
        BY <3>1, Shapes DEF IInv, MadeInv, Exists
      <3>5. loc[r].new.status = "ACTIVE" =>
              \A d \in Slots : /\ Active(d) /\ d # loc[r].id
                               /\ slot[d].cohort = loc[r].new.cohort
                               /\ slot[d].period = loc[r].new.period
                               /\ Overlap(loc[r].new, slot[d])
                               => writer[d] \in Reqs /\ writer[d] \notin past[r]
        BY <1>0, <2>1, <3>1 DEF CheckedAt, InTheWay
      <3> QED
        BY <1>0, <2>1, <2>4, <3>1, <3>2, <3>3, <3>4, <3>5, Writing
    <2> QED
      BY <2>2, <2>3, <2>4
  <1> QED
    BY <1>1, <1>2, <1>3, <1>4, <1>5, <1>7, <1>8 DEF SlotStep

-----------------------------------------------------------------------------
(* The theorems                                                            *)

(* The invariant holds at the start. *)
LEMMA InitInv == Init => IInv
  <1> SUFFICES ASSUME Init PROVE IInv
    OBVIOUS
  <1>1. slot = [s \in Slots |-> IF s = S0 THEN slot[S0] ELSE NoSlot] /\
        (slot[S0] = NoSlot \/
         \E c \in Cohorts, t \in Teachers, from \in Dates, to \in Dates \cup {None} :
           slot[S0] = NewSlot(c, P0, t, from, to))
    BY DEF Init, Slots
  <1>2. PICK n \in Names : per = [p \in Periods |-> IF p = P0 THEN n ELSE None]
    BY DEF Init
  <1>3. /\ \A s \in Slots : s # S0 => slot[s] = NoSlot /\ ~Exists(s) /\ ~Active(s)
        /\ S0 \in Slots /\ P0 \in Periods
    <2>1. S0 \in Slots /\ P0 \in Periods
      BY DEF Slots, Periods
    <2>2. \A s \in Slots : s # S0 => slot[s] = NoSlot
      BY <1>1
    <2> QED
      BY <2>1, <2>2, Shapes DEF Exists, Active, Absent
  <1>4. /\ slot[S0] \in Slot
        /\ Exists(S0) => slot[S0].period = P0 /\ slot[S0].from \in Dates
        /\ per \in [Periods -> Names \cup {None}] /\ per[P0] # None
    <2>1. CASE slot[S0] = NoSlot
      BY <1>2, <1>3, <2>1, Shapes, NamesAssumption DEF Exists
    <2>2. CASE slot[S0] # NoSlot
      BY <1>1, <1>2, <1>3, <2>2, Shapes, NamesAssumption
    <2> QED
      BY <2>1, <2>2
  <1>5. TypeOK
    <2>1. slot \in [Slots -> Slot]
      BY <1>1, <1>3, <1>4, Shapes
    <2>2. \A s \in Slots : Exists(s) => slot[s].period \in Periods /\ per[slot[s].period] # None
      BY <1>3, <1>4
    <2> QED
      BY <1>4, <2>1, <2>2, Shapes DEF Init, TypeOK, Point, Outcome
  <1>6. LocInv /\ PastInv /\ CheckedInv
    BY DEF Init, LocInv, LocAt, PastInv, PastAt, CheckedInv, CheckedAt, Versioned, Adding
  <1>7. RowInv
    BY <1>3, <1>4, NamesAssumption DEF Init, RowInv, RowAt
  <1>8. MadeInv
    BY <1>3, NamesAssumption DEF MadeInv, Slots
  <1>9. PeriodNamesUnique
    BY <1>2 DEF PeriodNamesUnique
  <1>10. CohortClashOnlyRaced
    BY <1>3 DEF CohortClashOnlyRaced, CohortClash
  <1> QED
    BY <1>5, <1>6, <1>7, <1>8, <1>9, <1>10 DEF IInv

(* The invariant holds in every reachable state. *)
THEOREM InductiveInvariant == Spec => []IInv
  <1>1. IInv /\ [Next]_vars => IInv'
    <2> SUFFICES ASSUME IInv, [Next]_vars PROVE IInv'
      OBVIOUS
    <2>1. CASE UNCHANGED vars
      BY <2>1 DEF vars, IInv, TypeOK, LocInv, LocAt, PastInv, PastAt, CheckedInv, CheckedAt,
                  InTheWay, RowInv, RowAt, MadeInv, PeriodNamesUnique, CohortClashOnlyRaced,
                  CohortClash, Active, Exists, Fresh
    <2>2. ASSUME NEW r \in Reqs, Refused(r) \/ Abort(r) PROVE IInv'
      <3>1. /\ pc[r] # "done" /\ Finish(r, "nothing") /\ UNCHANGED <<per, slot, writer, past>>
        BY <2>2 DEF Refused, Abort, History
      <3>2. PeriodNamesUnique'
        BY <3>1 DEF IInv, PeriodNamesUnique
      <3> QED
        BY <3>1, <3>2, Ending DEF IInv, TypeOK
    <2> QED
      BY <2>1, <2>2, PeriodSteps, SlotSteps DEF Next
  <1> QED
    BY <1>1, InitInv, PTL DEF Spec

(* The tables stay well formed and every slot keeps its period, although   *)
(* delete_period looks for slots before its commit only.                   *)
THEOREM TypeInvariant == Spec => []TypeOK
  <1>1. IInv => TypeOK
    BY DEF IInv
  <1> QED
    BY <1>1, InductiveInvariant, PTL

(* Names of periods stay unique, although update_period never looks. *)
THEOREM NamesUnique == Spec => []PeriodNamesUnique
  <1>1. IInv => PeriodNamesUnique
    BY DEF IInv
  <1> QED
    BY <1>1, InductiveInvariant, PTL

(* create_slot and update_slot book a cohort twice only when two requests  *)
(* run side by side.                                                       *)
THEOREM ClashesAreRaces == Spec => []CohortClashOnlyRaced
  <1>1. IInv => CohortClashOnlyRaced
    BY DEF IInv
  <1> QED
    BY <1>1, InductiveInvariant, PTL

-----------------------------------------------------------------------------
(* Refinement of VersionedRows                                             *)

(* A step that leaves the slots alone drops what its request works on,     *)
(* keeps it or loads a row.                                                *)
LEMMA Keeping ==
  ASSUME NEW r \in Reqs, UNCHANGED slot,
         \A q \in Reqs : q # r => pc'[q] = pc[q] /\ loc'[q] = loc[q],
         \/ Copy(r)' = {} \/ Copy(r)' = Copy(r)
         \/ \E s \in Slots : Exists(s) /\ Copy(r)' = {[id |-> s, row |-> slot[s]]}
  PROVE  [Locking!VNext]_(Locking!vvars)
  <1>1. \A q \in Reqs : q # r => Copy(q)' = Copy(q)
    BY DEF Copy
  <1>2. CASE Copy(r)' = {}
    BY <1>1, <1>2 DEF Locking!VForget, Locking!VNext
  <1>3. CASE Copy(r)' = Copy(r)
    BY <1>1, <1>3 DEF Locking!vvars
  <1>4. ASSUME NEW s \in Slots, Exists(s), Copy(r)' = {[id |-> s, row |-> slot[s]]}
        PROVE  Locking!VNext
    <2>1. slot[s] # NoSlot
      BY <1>4, Shapes DEF Exists
    <2>2. Locking!VLoad(r, s)
      BY <1>1, <1>4, <2>1 DEF Locking!VLoad
    <2> QED
      BY <2>2 DEF Locking!VNext
  <1> QED
    BY <1>2, <1>3, <1>4

(* A step that writes makes a new row, or the next version of the row its  *)
(* request works on.                                                       *)
LEMMA Committing ==
  ASSUME IInv, IInv', NEW r \in Reqs, CreateSlotCommit(r) \/ WriteSlotCommit(r), slot' # slot
  PROVE  Locking!VCommit(r)
  <1>0. /\ pc \in [Reqs -> Point] /\ loc \in [Reqs -> Local] /\ slot \in [Slots -> Slot]
        /\ slot' \in [Slots -> Slot] /\ LocAt(r) /\ r \in Slots
    BY DEF IInv, TypeOK, LocInv, Slots
  <1>1. /\ pc'[r] = "done" /\ \A q \in Reqs : q # r => pc'[q] = pc[q] /\ loc'[q] = loc[q]
    BY <1>0 DEF CreateSlotCommit, WriteSlotCommit, Finish, Hold
  <1>2. Copy(r)' = {} /\ \A q \in Reqs : q # r => Copy(q)' = Copy(q)
    BY <1>1 DEF Copy
  <1>3. \A s \in Slots : slot'[s] # slot[s] => Locking!Allowed(r, s, slot'[s])
    <2>1. CASE CreateSlotCommit(r)
      <3>1. pc[r] = "slot_insert" /\ slot' = [slot EXCEPT ![r] = loc[r].new]
        BY <2>1 DEF CreateSlotCommit
      <3>2. slot[r] = NoSlot /\ loc[r].new.version = 1
        BY <1>0, <3>1 DEF IInv, MadeInv, LocAt, Adding
      <3> QED
        BY <1>0, <3>1, <3>2 DEF Locking!Allowed
    <2>2. CASE WriteSlotCommit(r)
      <3>1. /\ pc[r] \in {"slot_update", "slot_cancel"} /\ Fresh(r)
            /\ slot' = [slot EXCEPT ![loc[r].id] = loc[r].new]
        BY <2>2 DEF WriteSlotCommit
      <3>2. /\ loc[r].id \in Slots /\ Exists(loc[r].id) /\ slot[loc[r].id] = loc[r].row
            /\ loc[r].new.version = loc[r].row.version + 1
        BY <1>0, <3>1 DEF LocAt, Versioned
      <3>3. slot[loc[r].id] # NoSlot
        BY <3>2, Shapes DEF Exists
      <3>4. Copy(r) = {[id |-> loc[r].id, row |-> slot[loc[r].id]]}
        BY <3>1, <3>2 DEF Copy
      <3>5. \A s \in Slots : slot'[s] # slot[s] => s = loc[r].id /\ slot'[s] = loc[r].new
        BY <1>0, <3>1, <3>2
      <3> QED
        BY <3>2, <3>3, <3>4, <3>5 DEF Locking!Allowed
    <2> QED
      BY <2>1, <2>2
  <1> QED
    BY <1>0, <1>2, <1>3 DEF Locking!VCommit

(* Requests on slots keep the promise of VersionMixin: no step overwrites  *)
(* a slot other than the row its request has loaded.                       *)
THEOREM Refinement == Spec => ImplementsVersionedRows
  <1>1. Init => Locking!VInit
    <2> SUFFICES ASSUME Init PROVE Locking!VInit
      OBVIOUS
    <2>1. slot \in [Slots -> Slot]
      BY InitInv DEF IInv, TypeOK
    <2> QED
      BY <2>1 DEF Init, Copy, Locking!VInit
  <1>2. IInv /\ IInv' /\ [Next]_vars => [Locking!VNext]_(Locking!vvars)
    <2> SUFFICES ASSUME IInv, IInv', [Next]_vars PROVE [Locking!VNext]_(Locking!vvars)
      OBVIOUS
    <2>0. pc \in [Reqs -> Point] /\ loc \in [Reqs -> Local]
      BY DEF IInv, TypeOK
    <2>1. CASE UNCHANGED vars
      BY <2>1 DEF vars, Copy, Locking!vvars
    <2>2. ASSUME NEW r \in Reqs, PeriodStep(r) \/ Refused(r) \/ Abort(r)
          PROVE  [Locking!VNext]_(Locking!vvars)
      <3>1. /\ UNCHANGED slot
            /\ pc'[r] \in {"period_insert", "period_update", "period_delete", "done"}
            /\ \A q \in Reqs : q # r => pc'[q] = pc[q] /\ loc'[q] = loc[q]
        BY <2>0, <2>2 DEF PeriodStep, CreatePeriodRead, UpdatePeriodRead, DeletePeriodRead,
           CreatePeriodCommit, UpdatePeriodCommit, DeletePeriodCommit, Refused, Abort,
           Goto, Hold, Finish
      <3> QED
        BY <3>1, Keeping DEF Copy
    <2>3. ASSUME NEW r \in Reqs, SlotStep(r), slot' # slot
          PROVE  [Locking!VNext]_(Locking!vvars)
      <3>1. CreateSlotCommit(r) \/ WriteSlotCommit(r)
        BY <2>3 DEF SlotStep, CreateSlotTeacher, UpdateSlotRead, CancelSlotRead,
           CreateSlotCohort, UpdateSlotCohort
      <3> QED
        BY <2>3, <3>1, Committing DEF Locking!VNext
    <2>4. ASSUME NEW r \in Reqs, SlotStep(r), UNCHANGED slot
          PROVE  [Locking!VNext]_(Locking!vvars)
      <3>1. \A q \in Reqs : q # r => pc'[q] = pc[q] /\ loc'[q] = loc[q]
        BY <2>0, <2>4 DEF SlotStep, CreateSlotTeacher, UpdateSlotRead, CancelSlotRead,
           CreateSlotCohort, UpdateSlotCohort, CreateSlotCommit, WriteSlotCommit,
           Goto, Hold, Finish
      <3>2. \/ pc'[r] \in {"slot_cohort", "slot_insert", "done"}
            \/ pc[r] = "slot_recheck" /\ pc'[r] = "slot_update" /\ loc'[r] = loc[r]
            \/ \E s \in Slots : /\ Exists(s) /\ pc'[r] \in {"slot_recheck", "slot_cancel"}
                                /\ loc'[r].id = s /\ loc'[r].row = slot[s]
        <4>1. ASSUME NEW s \in Slots, NEW t \in Teachers \cup {None},
                     NEW to \in Dates \cup {None}, NEW status \in Status,
                     UpdateSlotRead(r, s, t, to, status)
              PROVE  /\ Exists(s) /\ pc'[r] \in {"slot_recheck", "slot_cancel"}
                     /\ loc'[r].id = s /\ loc'[r].row = slot[s]
          BY <2>0, <4>1 DEF UpdateSlotRead, Goto, Hold, SlotLocal
        <4>2. ASSUME NEW s \in Slots, CancelSlotRead(r, s)
              PROVE  /\ Exists(s) /\ pc'[r] \in {"slot_recheck", "slot_cancel"}
                     /\ loc'[r].id = s /\ loc'[r].row = slot[s]
          BY <2>0, <4>2 DEF CancelSlotRead, Goto, Hold, SlotLocal
        <4>3. ASSUME CreateSlotCohort(r) \/ CreateSlotCommit(r) \/ WriteSlotCommit(r)
              PROVE  pc'[r] \in {"slot_insert", "done"}
          BY <2>0, <4>3 DEF CreateSlotCohort, CreateSlotCommit, WriteSlotCommit, Goto, Finish
        <4>4. ASSUME NEW c \in Cohorts, NEW p \in Periods, NEW t \in Teachers, NEW from \in Dates,
                     NEW to \in Dates \cup {None}, CreateSlotTeacher(r, c, p, t, from, to)
              PROVE  pc'[r] = "slot_cohort"
          BY <2>0, <4>4 DEF CreateSlotTeacher, Goto
        <4>5. ASSUME UpdateSlotCohort(r)
              PROVE  pc[r] = "slot_recheck" /\ pc'[r] = "slot_update" /\ loc'[r] = loc[r]
          BY <2>0, <4>5 DEF UpdateSlotCohort, Goto
        <4> QED
          BY <2>4, <4>1, <4>2, <4>3, <4>4, <4>5 DEF SlotStep
      <3> QED
        BY <2>4, <3>1, <3>2, Keeping DEF Copy
    <2> QED
      BY <2>1, <2>2, <2>3, <2>4 DEF Next
  <1> QED
    BY <1>1, <1>2, InductiveInvariant, PTL DEF Spec, ImplementsVersionedRows, Locking!VSpec
=============================================================================
