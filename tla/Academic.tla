------------------------------ MODULE Academic ------------------------------
(***************************************************************************)
(* One school's academic calendar and catalogue (app/modules/academic):    *)
(* years, terms, classes, subjects, class subjects and cohorts; and its    *)
(* teachers and their assignments (app/modules/teachers).                  *)
(*                                                                         *)
(* kind            of                            tag      on        val    *)
(* year                                          code     current   dates  *)
(* term            its year                      code               dates  *)
(* class, subject                                code                      *)
(* cohort          its year and class            code                      *)
(* class_subject   class, subject, first year                              *)
(* teacher         its person                    number                    *)
(* assignment      teacher, cohort, year,        role     ACTIVE           *)
(*                 perhaps a subject                                       *)
(* An edit of any other column counts as one that keeps these.             *)
(***************************************************************************)
EXTENDS Records

CONSTANTS Codes, Lower,     \* codes, and the code in lower case
          Numbers,          \* employee numbers
          Days              \* dates

Dates == [from: Days, to: Days]

ASSUME LowerIsCode == Lower \in [Codes -> Codes]
ASSUME DaysAreNumbers == Days \subseteq Nat
ASSUME DatesAreValues == Dates \cup {None} \subseteq Values /\ None \notin Dates

Coded == {"year", "term", "class", "subject", "cohort"}
Kinds == Coded \cup {"class_subject", "person", "teacher", "assignment"}
Roles == {"SUBJECT_TEACHER", "CLASS_TEACHER", "OTHER"}
Tags == Codes \cup Numbers \cup Roles \cup {None}

(* The school at the start is one that its services may have left. *)
ASSUME SeedsFit ==
  /\ SeedRow \in [Seeds -> Row(Kinds, Tags)]
  /\ \A i \in Seeds :
       /\ SeedRow[i].of \subseteq Seeds
       /\ SeedRow[i].kind \in Coded => SeedRow[i].tag \in Codes
       /\ SeedRow[i].kind \in {"year", "term"} <=> SeedRow[i].val # None
       /\ SeedRow[i].kind = "term" =>
            \E y \in Seeds : SeedRow[i].of = {y} /\ SeedRow[y].kind = "year"
       /\ SeedRow[i].kind = "assignment" =>
            /\ SeedRow[i].tag \in Roles
            /\ \A p \in SeedRow[i].of : SeedRow[p].kind \in {"teacher", "cohort", "year", "subject"}

SeedsOf(i, kinds) == {p \in SeedRow[i].of : SeedRow[p].kind \in kinds}

ASSUME SeedsDistinct ==
  \A i, j \in Seeds :
    /\ SeedRow[i].kind = SeedRow[j].kind
    /\ SeedRow[i].kind # "assignment" => ~SeedRow[i].deleted /\ ~SeedRow[j].deleted
    /\ \/ SeedRow[i].kind = "year" /\ SeedRow[i].on /\ SeedRow[j].on
       \/ /\ SeedRow[i].kind = "teacher"
          /\ \/ SeedRow[i].of = SeedRow[j].of
             \/ SeedRow[i].tag = SeedRow[j].tag /\ SeedRow[i].tag # None
       \/ /\ SeedRow[i].kind = "assignment" /\ SeedRow[i].on /\ SeedRow[j].on
          /\ SeedRow[i].tag = SeedRow[j].tag
          /\ SeedsOf(i, {"cohort", "year"}) = SeedsOf(j, {"cohort", "year"})
          /\ \/ SeedRow[i].tag = "CLASS_TEACHER"
             \/ /\ SeedRow[i].tag = "SUBJECT_TEACHER" /\ SeedsOf(i, {"subject"}) # {}
                /\ SeedsOf(i, {"subject"}) = SeedsOf(j, {"subject"})
    => i = j

-----------------------------------------------------------------------------
(* _validate_term_dates: a term lies within its year and does not end      *)
(* before it starts.                                                       *)
Within(term, year) == /\ term.from >= year.from /\ term.to <= year.to
                      /\ term.to >= term.from

(* get_by_code of the repositories: codes are compared in lower case, and  *)
(* only with records that are not deleted.                                 *)
CodeTaken(x) ==
  \E i \in LiveOf(x.kind) : row[i].of = x.of /\ Lower[row[i].tag] = Lower[x.tag]

(* The years that unset_current is for: it follows the flush of one that   *)
(* the request makes, or declares, the current one.                        *)
OtherYears(i, current) == IF current THEN Ids \ {i} ELSE {}

(* Faulty variant: the dates are optional. *)
CreateYearUndated(r, code, dates, current) ==
  LET x == NewRow("year", {}, code, current, None)
  IN ~CodeTaken(x) /\ AskAt(r, "write", "create", r, NoRow, x, OtherYears(r, current))

CreateYear(r, code, dates, current) ==
  LET x == NewRow("year", {}, code, current, dates)
  IN ~CodeTaken(x) /\ AskAt(r, "write", "create", r, NoRow, x, OtherYears(r, current))

(* is_current is set, cleared or left out.  The dates of a year are        *)
(* compared neither with each other nor with those of its terms.           *)
EditYear(r, i, dates, flag) ==
  LET x == [row[i] EXCEPT !.on = flag = "set" \/ (flag = "absent" /\ @), !.val = dates]
  IN i \in LiveOf("year") /\ AskUpdate(r, "write", i, Raised(i, x), OtherYears(i, flag = "set"))

(* Faulty variant: only the first day is compared. *)
CreateTermLate(r, y, code, dates) ==
  LET x == NewRow("term", {y}, code, FALSE, dates)
  IN /\ y \in LiveOf("year") /\ dates.from >= row[y].val.from
     /\ ~CodeTaken(x) /\ AskCreate(r, x)

CreateTerm(r, y, code, dates) ==
  LET x == NewRow("term", {y}, code, FALSE, dates)
  IN /\ y \in LiveOf("year") /\ Within(dates, row[y].val)
     /\ ~CodeTaken(x) /\ AskCreate(r, x)

EditTerm(r, i, dates) ==
  /\ i \in LiveOf("term")
  /\ Live(Parent(i, "year")) /\ Within(dates, row[Parent(i, "year")].val)
  /\ AskEdit(r, i, [row[i] EXCEPT !.val = dates])

CreatePlain(r, kind, code) ==
  LET x == NewRow(kind, {}, code, FALSE, None)
  IN ~CodeTaken(x) /\ AskCreate(r, x)

CreateClass(r, code) == CreatePlain(r, "class", code)
CreateSubject(r, code) == CreatePlain(r, "subject", code)

CreateCohort(r, y, c, code) ==
  LET x == NewRow("cohort", {y, c}, code, FALSE, None)
  IN /\ y \in LiveOf("year") /\ c \in LiveOf("class")
     /\ ~CodeTaken(x) /\ AskCreate(r, x)

(* The optional last year is not looked up and is left out. *)
CreateClassSubject(r, c, s, y) ==
  /\ c \in LiveOf("class") /\ s \in LiveOf("subject") /\ y \in LiveOf("year")
  /\ ~\E i \in LiveOf("class_subject") : {c, s} \subseteq row[i].of
  /\ AskCreate(r, NewRow("class_subject", {c, s, y}, None, FALSE, None))

(* No column of the model changes but the version. *)
EditOf(r, kind, i) == i \in LiveOf(kind) /\ AskEdit(r, i, row[i])

EditClass(r, i) == EditOf(r, "class", i)
EditSubject(r, i) == EditOf(r, "subject", i)
EditCohort(r, i) == EditOf(r, "cohort", i)

(* None of the deletions looks for records that refer to this one. *)
DeleteOf(r, kind, i) == i \in LiveOf(kind) /\ AskDelete(r, i)

DeleteYear(r, i) == DeleteOf(r, "year", i)
DeleteTerm(r, i) == DeleteOf(r, "term", i)
DeleteClass(r, i) == DeleteOf(r, "class", i)
DeleteSubject(r, i) == DeleteOf(r, "subject", i)
DeleteCohort(r, i) == DeleteOf(r, "cohort", i)
RemoveClassSubject(r, i) == i \in LiveOf("class_subject") /\ AskRemove(r, i)

-----------------------------------------------------------------------------
DeletePerson(r, i) == DeleteOf(r, "person", i)

NumberTaken(i, n) == \E t \in LiveOf("teacher") \ {i} : row[t].tag = n

CreateTeacher(r, p, n) ==
  /\ p \in LiveOf("person")
  /\ ~\E t \in LiveOf("teacher") : row[t].of = {p}
  /\ n # None => ~NumberTaken(r, n)
  /\ AskCreate(r, NewRow("teacher", {p}, n, FALSE, None))

(* A number can be changed and set, not taken away. *)
EditTeacher(r, i, n) ==
  /\ i \in LiveOf("teacher")
  /\ n # row[i].tag => n # None /\ ~NumberTaken(i, n)
  /\ AskEdit(r, i, [row[i] EXCEPT !.tag = n])

DeleteTeacher(r, i) == DeleteOf(r, "teacher", i)

(* What an assignment is for, the teacher apart; a class teacher is for    *)
(* the whole cohort.                                                       *)
Slot(x) ==
  {p \in x.of : row[p].kind \in {"cohort", "year"} \cup
                                (IF x.tag = "SUBJECT_TEACHER" THEN {"subject"} ELSE {})}
Clash(x, y) == x.on /\ y.on /\ x.tag = y.tag /\ x.tag # "OTHER" /\ Slot(x) = Slot(y)

(* create_assignment looks up the teacher, the cohort and the year, each   *)
(* on its own, and not the subject; check_assignment_conflict compares     *)
(* without a subject too, and only for the two main roles.                 *)
Assign(r, t, c, y, subject, role) ==
  LET x == NewRow("assignment", {t, c, y} \cup subject, role, TRUE, None)
  IN /\ t \in LiveOf("teacher") /\ c \in LiveOf("cohort") /\ y \in LiveOf("year")
     /\ ~\E a \in LiveOf("assignment") : Clash(row[a], x)
     /\ AskCreate(r, x)

(* update_assignment may make an ended assignment ACTIVE again, and does   *)
(* not look for others.                                                    *)
EditAssignment(r, i, active) ==
  i \in LiveOf("assignment") /\ AskEdit(r, i, [row[i] EXCEPT !.on = active])

EndAssignment(r, i) ==
  i \in LiveOf("assignment") /\ AskEdit(r, i, [row[i] EXCEPT !.on = FALSE])

-----------------------------------------------------------------------------
(* The unique indexes, deleted records included where nothing else is said *)

(* The school and code; with the parents for terms and cohorts, and the    *)
(* class and subject alone for class subjects.                             *)
Key(x) ==
  [kind |-> x.kind, tag |-> x.tag,
   of |-> IF x.kind = "class_subject" THEN {p \in x.of : row[p].kind # "year"} ELSE x.of]
KeyFree(i, x) ==
  x.kind \in Coded \cup {"class_subject"} => \A j \in Ids \ {i} : Key(row[j]) # Key(x)

(* Faulty variant: the condition on deleted_at the wrong way round *)
CurrentDeleted(x) == x.kind = "year" /\ x.on /\ x.deleted

(* WHERE is_current AND deleted_at IS NULL *)
Current(x) == x.kind = "year" /\ x.on /\ ~x.deleted

(* Faulty variant: no such index *)
CurrentFreeAlways(i, x) == TRUE

(* uq_academic_years_one_current_per_school, which is checked when a new   *)
(* current year is flushed                                                 *)
CurrentFree(i, x) == Current(x) => \A j \in Ids \ {i} : ~Current(row[j])

(* One teacher per person; the number is unique among those not deleted.   *)
TeacherFree(i, x) ==
  x.kind = "teacher" =>
    \A j \in Ids \ {i} : row[j].kind = "teacher" =>
      /\ row[j].of # x.of
      /\ x.tag # None /\ ~x.deleted /\ ~row[j].deleted => row[j].tag # x.tag

(* Faulty variant: as before migration 0026 *)
SlotFreeAlways(i, x) == TRUE

(* uq_assignment_class_teacher_active and uq_assignment_subject_teacher_active; *)
(* a NULL subject equals no other one.                                     *)
SlotFree(i, x) ==
  x.kind = "assignment" =>
    \A j \in Ids \ {i} : Exists(j) /\ Clash(row[j], x) =>
      x.tag = "SUBJECT_TEACHER" /\ ~\E p \in x.of : row[p].kind = "subject"

(* unset_current, a bulk UPDATE that neither compares nor moves a version  *)
UnsetCurrent(rows, years) ==
  [j \in Ids |-> IF j \in years /\ Current(rows[j]) THEN [rows[j] EXCEPT !.on = FALSE]
                                                   ELSE rows[j]]

(* The flush, unset_current after it, and the commit *)
Write(r) ==
  LET i == loc[r].id
      x == Written(r)
  IN /\ pc[r] = "write"
     /\ Store(r, \/ loc[r].op \in {"keep", "remove"}
                 \/ /\ loc[r].op = "edit" => Fresh(r)
                    /\ KeyFree(i, x) /\ CurrentFree(i, x) /\ TeacherFree(i, x) /\ SlotFree(i, x),
              UnsetCurrent([row EXCEPT ![i] = x], loc[r].hit))

Step(r) ==
  \/ \E code \in Codes :
       \/ \E d \in Dates, current \in BOOLEAN : CreateYear(r, code, d, current)
       \/ \E y \in Of("year"), d \in Dates : CreateTerm(r, y, code, d)
       \/ CreateClass(r, code) \/ CreateSubject(r, code)
       \/ \E y \in Of("year"), c \in Of("class") : CreateCohort(r, y, c, code)
  \/ \E c \in Of("class"), s \in Of("subject"), y \in Of("year") : CreateClassSubject(r, c, s, y)
  \/ \E i \in Ids :
       \/ \E d \in Dates, flag \in {"set", "clear", "absent"} : EditYear(r, i, d, flag)
       \/ \E d \in Dates : EditTerm(r, i, d)
       \/ EditClass(r, i) \/ EditSubject(r, i) \/ EditCohort(r, i)
       \/ DeleteYear(r, i) \/ DeleteTerm(r, i) \/ DeleteClass(r, i) \/ DeleteSubject(r, i)
       \/ DeleteCohort(r, i) \/ RemoveClassSubject(r, i)
       \/ DeletePerson(r, i) \/ DeleteTeacher(r, i) \/ EndAssignment(r, i)
       \/ \E n \in Numbers \cup {None} : CreateTeacher(r, i, n) \/ EditTeacher(r, i, n)
       \/ \E active \in BOOLEAN : EditAssignment(r, i, active)
  \/ \E t \in Of("teacher"), c \in Of("cohort"), y \in Of("year"),
        s \in {{}} \cup {{i} : i \in Of("subject")}, role \in Roles : Assign(r, t, c, y, s, role)
  \/ Write(r) \/ Refuse(r) \/ Abort(r)

Next == \E r \in Reqs : Step(r)

Spec == Init /\ [][Next]_vars

-----------------------------------------------------------------------------
(* The records and the requests are well formed; codes, numbers and roles  *)
(* are on the records that have them.                                      *)
TypeOK ==
  /\ row \in [Ids -> Row(Kinds, Tags) \cup {NoRow}]
  /\ \A i \in Ids : /\ row[i].kind \in Coded => row[i].tag \in Codes
                    /\ row[i].kind \in {"year", "term"} <=> row[i].val # None
                    /\ row[i].kind = "term" => row[Parent(i, "year")].kind = "year"
  /\ pc \in [Reqs -> {"idle", "write", "done"}]
  /\ loc \in [Reqs -> [op: {"none", "create", "edit", "keep", "remove"}, id: Ids \cup {None},
                       row: Row(Kinds, Tags) \cup {NoRow}, new: Row(Kinds, Tags) \cup {NoRow},
                       hit: SUBSET Ids]]
  /\ raced \in [Reqs -> BOOLEAN]
  /\ out \in [Reqs -> {"none", "refused", "aborted", "error", "written"}]

(* A school has one current year, although creations and edits of years    *)
(* race to set the flag and unset the others.                              *)
OneCurrentYear ==
  \A i, j \in Ids : /\ row[i].kind = "year" /\ row[i].on /\ ~row[i].deleted
                    /\ row[j].kind = "year" /\ row[j].on /\ ~row[j].deleted
                    => i = j

(* Nobody shares the post of class teacher of a cohort in a year, or that  *)
(* of its teacher of a subject: neither by two assignments at once nor by  *)
(* making an ended one ACTIVE again.                                       *)
OneHolder ==
  \A i, j \in Ids :
    /\ row[i].kind = "assignment" /\ row[j].kind = "assignment"
    /\ Clash(row[i], row[j])
    /\ row[i].tag = "SUBJECT_TEACHER" => \E p \in row[i].of : row[p].kind = "subject"
    => i = j

(* A person is one teacher at most and an employee number stands for one   *)
(* of them, through hiring, renumbering and leaving.                       *)
TeachersDistinct ==
  \A i, j \in LiveOf("teacher") :
    (row[i].of = row[j].of \/ (row[i].tag = row[j].tag /\ row[i].tag # None)) => i = j

(* Everything that a live record builds on is there, a term lies within    *)
(* its year, and no code differs from another one in case only.            *)
Sound(i) ==
  Live(i) =>
    /\ \A p \in row[i].of : \/ Live(p)
                            \/ row[i].kind = "assignment" /\ row[p].kind = "subject"
    /\ row[i].kind = "term" => Within(row[i].val, row[Parent(i, "year")].val)
    /\ row[i].kind \in Coded =>
         ~\E j \in LiveOf(row[i].kind) \ {i} : /\ row[j].of = row[i].of
                                               /\ Lower[row[j].tag] = Lower[row[i].tag]

(* A record becomes unsound in two ways only: one that it builds on is     *)
(* edited or deleted, or somebody committed between the lookups and the    *)
(* write of the request.                                                   *)
UnsoundOnlyByRace ==
  [][\A i \in Ids : Sound(i) /\ ~Sound(i)' =>
       \E r \in Reqs : pc[r] = "write" /\ pc'[r] = "done" /\ (raced[r] \/ loc[r].id \in row[i].of)]_vars

(* The current year of a school stops being that in two ways only: by an   *)
(* edit or deletion that has loaded it as it is, or when a request that    *)
(* had loaded its own year as the current one declares it current once     *)
(* more, after others have taken the flag from it and given it to this     *)
(* year.  No UPDATE or index stops that one (its flush writes no flag), so *)
(* that it may leave the school without any current year.                  *)
FlagTakenOnlyByRace ==
  [][\A j \in Ids : Current(row[j]) /\ ~Current(row'[j]) =>
       \E r \in Reqs :
         /\ pc[r] = "write" /\ out'[r] = "written"
         /\ \/ loc[r].id = j /\ loc[r].row = row[j]
            \/ raced[r] /\ loc[r].row.on /\ ~Current(row[loc[r].id])]_vars

(* The columns that the version protects: class subjects have none, and    *)
(* the flag of a year is also written by unset_current.                    *)
Guarded(x) == CASE x.kind = "class_subject" -> NoRow
                [] x.kind = "year"          -> [x EXCEPT !.on = FALSE]
                [] OTHER                    -> x

(* What a request works on: the record it has loaded to edit or delete it *)
Copy(r) == IF pc[r] = "write" /\ loc[r].op = "edit"
             THEN {[id |-> loc[r].id, row |-> Guarded(loc[r].row)]} ELSE {}

(* "a stale write raises, never overwrites" (db/mixins.py): a record with  *)
(* a version is only written by a request that has loaded this very row,   *)
(* the flags of years apart (FlagTakenOnlyByRace).                         *)
Locking == INSTANCE VersionedRows
  WITH Clients <- Reqs, Ids <- Ids, Rows <- Row(Kinds, Tags), NoRow <- NoRow,
       table <- [i \in Ids |-> Guarded(row[i])], copy <- [r \in Reqs |-> Copy(r)]

ImplementsVersionedRows == Locking!VSpec

(* What tests/integration/test_academic.py:170-190 expects: a new year can *)
(* be made the current one while another is; the other one ceases to be.   *)
CurrentYearMoves ==
  [][\A r \in Reqs :
       /\ pc[r] = "write" /\ out'[r] = "error"
       /\ loc[r].op = "create" /\ loc[r].new.kind = "year" /\ ~raced[r]
       => \E i \in Ids : row[i].kind = "year" /\ row[i].tag = loc[r].new.tag]_vars
=============================================================================
