--------------------------- MODULE AcademicProofs ---------------------------
(***************************************************************************)
(* Proofs about Academic for any number of requests, records, codes,       *)
(* numbers and dates.                                                      *)
(*                                                                         *)
(* Two facts carry what a request looked up to its write.  The kind of a   *)
(* record never changes, apart from class subjects, which are removed      *)
(* (KindsStay), and its version grows with every write but those of        *)
(* unset_current, so that a row of the loaded version is the loaded row,   *)
(* unless it is a year that has lost its flag (LocAt).  What else was      *)
(* looked up holds as long as nobody has committed (Checked).              *)
(***************************************************************************)
EXTENDS Academic, TLAPS

Posts == {"teacher", "cohort", "year", "subject"}
Fixed(k) == k \notin {"none", "class_subject"}

(* The same columns, the flag of a year apart *)
Alike(x, y) ==
  /\ x.kind = y.kind /\ x.of = y.of /\ x.tag = y.tag /\ x.val = y.val
  /\ x.deleted = y.deleted /\ x.version = y.version
  /\ x.kind # "year" => x.on = y.on

(* Well-formed rows, by themselves and in what they refer to *)
Shape(x) ==
  /\ x.kind \in Coded => x.tag \in Codes
  /\ x.kind \in {"year", "term"} <=> x.val # None
Refs(x) ==
  /\ x.kind = "term" => \E y \in Ids : x.of = {y} /\ row[y].kind = "year"
  /\ x.kind = "assignment" => \A p \in x.of : row[p].kind \in Posts
RowsOK ==
  /\ row \in [Ids -> Row(Kinds, Tags) \cup {NoRow}]
  /\ \A i \in Ids : Shape(row[i]) /\ Refs(row[i])

(* What a request has looked up while nobody else commits *)
Checked(q) ==
  LET i == loc[q].id
      x == loc[q].new
  IN /\ loc[q].op = "create" =>
          /\ \A p \in x.of : Live(p) \/ (x.kind = "assignment" /\ row[p].kind = "subject")
          /\ x.kind = "term" => \A y \in Ids : x.of = {y} => Within(x.val, row[y].val)
          /\ x.kind \in Coded => ~CodeTaken(x)
     /\ loc[q].op \in {"edit", "keep"} =>
          /\ loc[q].row = row[i] /\ Live(i) /\ x.of = row[i].of /\ (x.kind \in Coded => x.tag = row[i].tag)
          /\ x.kind = "term" /\ ~x.deleted =>
               \A y \in Ids : x.of = {y} => Within(x.val, row[y].val)

(* What it is about to write *)
LocAt(q) ==
  pc[q] = "write" =>
    /\ loc[q].op \in {"create", "edit", "keep", "remove"} /\ loc[q].id \in Ids
    /\ loc[q].op = "create" <=> loc[q].id = q
    /\ loc[q].op = "create" => loc[q].new.version = 1
    /\ loc[q].id \in Reqs \ {q} => pc[loc[q].id] = "done"
    /\ loc[q].op = "remove" => loc[q].new = NoRow /\ ~Fixed(row[loc[q].id].kind)
    /\ loc[q].op # "remove" =>
         /\ loc[q].new \in Row(Kinds, Tags) /\ Shape(loc[q].new) /\ Refs(loc[q].new)
    /\ loc[q].op \in {"edit", "keep"} =>
         /\ loc[q].row \in Row(Kinds, Tags) /\ loc[q].row.kind = row[loc[q].id].kind
         /\ Fixed(row[loc[q].id].kind) /\ loc[q].new.kind = row[loc[q].id].kind
         /\ loc[q].row.version <= row[loc[q].id].version
         /\ loc[q].row.version = row[loc[q].id].version =>
              Alike(row[loc[q].id], loc[q].row) /\ (row[loc[q].id].on => loc[q].row.on)
    /\ loc[q].op = "edit" => loc[q].new.version = loc[q].row.version + 1
    /\ loc[q].op = "keep" => loc[q].new = loc[q].row
    /\ loc[q].hit # {} =>
         /\ loc[q].op # "remove" /\ loc[q].id \notin loc[q].hit
         /\ loc[q].new.kind = "year" /\ loc[q].new.on /\ ~loc[q].new.deleted
    /\ ~raced[q] => Checked(q)

MadeAt(q) == pc[q] # "done" => row[q] = NoRow
At(q) == LocAt(q) /\ MadeAt(q)

LocType == [op: {"none", "create", "edit", "keep", "remove"}, id: Ids \cup {None},
            row: Row(Kinds, Tags) \cup {NoRow}, new: Row(Kinds, Tags) \cup {NoRow}, hit: SUBSET Ids]
CtlOK == /\ pc \in [Reqs -> {"idle", "write", "done"}]
         /\ loc \in [Reqs -> LocType]
         /\ raced \in [Reqs -> BOOLEAN]
         /\ out \in [Reqs -> {"none", "refused", "aborted", "error", "written"}]

IInv == /\ CtlOK /\ RowsOK
        /\ OneCurrentYear /\ OneHolder /\ TeachersDistinct
        /\ \A q \in Reqs : At(q)

-----------------------------------------------------------------------------
(* Shapes                                                                  *)

LEMMA NoRowShape ==
  /\ NoRow.kind = "none" /\ NoRow.tag = None /\ ~NoRow.on /\ NoRow.val = None
  /\ NoRow.of = {} /\ ~NoRow.deleted /\ Shape(NoRow)
  /\ "none" \notin Kinds /\ ~Fixed("none")
  BY DEF NoRow, Shape, Coded, Kinds, Fixed

LEMMA NoLocalType ==
  NoLocal \in LocType
  BY DEF NoLocal, LocType

LEMMA RowFields ==
  ASSUME NEW x \in Row(Kinds, Tags)
  PROVE  /\ x.kind \in Kinds /\ x.of \in SUBSET Ids /\ x.tag \in Tags /\ x.on \in BOOLEAN
         /\ x.val \in Values /\ x.deleted \in BOOLEAN /\ x.version \in Nat /\ x.kind # "none"
         /\ x # NoRow
  BY NoRowShape DEF Row

LEMMA EditedIs ==
  ASSUME NEW x \in Row(Kinds, Tags), NEW v \in Nat
  PROVE  LET y == [x EXCEPT !.version = v]
         IN /\ y \in Row(Kinds, Tags) /\ y.kind = x.kind /\ y.of = x.of /\ y.tag = x.tag
            /\ y.on = x.on /\ y.val = x.val /\ y.deleted = x.deleted /\ y.version = v
  BY DEF Row

LEMMA ParentIs ==
  ASSUME NEW i \in Ids, NEW y \in Ids, row[i].of = {y}, row[y].kind = "year"
  PROVE  Parent(i, "year") = y
  BY DEF Parent

LEMMA Joined ==
  RowsOK /\ CtlOK => TypeOK
  <1> SUFFICES ASSUME RowsOK, CtlOK PROVE TypeOK
    OBVIOUS
  <1>1. \A i \in Ids : row[i].kind = "term" => row[Parent(i, "year")].kind = "year"
    BY ParentIs DEF RowsOK, Refs
  <1>2. \A i \in Ids : /\ row[i].kind \in Coded => row[i].tag \in Codes
                       /\ row[i].kind \in {"year", "term"} <=> row[i].val # None
    BY DEF RowsOK, Shape
  <1> QED
    BY <1>1, <1>2 DEF RowsOK, CtlOK, TypeOK, LocType

LEMMA RowIs ==
  ASSUME RowsOK, NEW i \in Ids, row[i].kind # "none"
  PROVE  row[i] \in Row(Kinds, Tags)
  BY NoRowShape DEF RowsOK

LEMMA Named ==
  /\ \A q \in Reqs : q \in Ids /\ q # None /\ q \notin Seeds
  /\ None \in Tags /\ None \in Values /\ Codes \subseteq Tags /\ Numbers \subseteq Tags
  /\ Roles \subseteq Tags
  BY SeedsAreNoRequests, DatesAreValues DEF Ids, Tags

-----------------------------------------------------------------------------
(* Lookups                                                                 *)

(* A request has looked up what it needs. *)
LEMMA Asking ==
  ASSUME IInv, NEW r \in Reqs, NEW op \in {"create", "edit", "keep", "remove"}, NEW id \in Ids,
         NEW old \in Row(Kinds, Tags) \cup {NoRow}, NEW new \in Row(Kinds, Tags) \cup {NoRow},
         NEW hit \in SUBSET Ids, AskAt(r, "write", op, id, old, new, hit), LocAt(r)'
  PROVE  IInv'
  <1>1. /\ CtlOK /\ RowsOK /\ pc[r] = "idle" /\ MadeAt(r)
        /\ row' = row /\ raced' = raced /\ out' = out /\ pc' = [pc EXCEPT ![r] = "write"]
        /\ loc' = [loc EXCEPT ![r] = [op |-> op, id |-> id, row |-> old, new |-> new, hit |-> hit]]
    BY DEF IInv, At, AskAt
  <1>2. [op |-> op, id |-> id, row |-> old, new |-> new, hit |-> hit] \in LocType
    BY DEF LocType
  <1>3. CtlOK'
    BY <1>1, <1>2 DEF CtlOK
  <1>4. RowsOK'
    BY <1>1 DEF RowsOK, Shape, Refs
  <1>5. pc'[r] = "write" /\ \A q \in Reqs : q # r => pc'[q] = pc[q] /\ loc'[q] = loc[q]
    BY <1>1 DEF CtlOK
  <1>6. MadeAt(r)'
    BY <1>1, <1>5 DEF MadeAt
  <1>7. ASSUME NEW q \in Reqs, q # r
        PROVE  At(q)'
    <2>1. LocAt(q) /\ MadeAt(q)
      BY DEF IInv, At
    <2>2. Checked(q) => Checked(q)'
      BY <1>1, <1>5, <1>7 DEF Checked, Live, Exists, CodeTaken, LiveOf
    <2>3. loc[q].id \in Reqs \ {q} /\ pc[loc[q].id] = "done" => pc'[loc[q].id] = "done"
      BY <1>1, <1>5
    <2>4. Refs(loc[q].new) => Refs(loc[q].new)'
      BY <1>1, <1>5, <1>7 DEF Refs
    <2>5. LocAt(q)'
      BY <1>1, <1>5, <1>7, <2>1, <2>2, <2>3, <2>4 DEF LocAt, Shape, Alike
    <2> QED
      BY <1>1, <1>5, <1>7, <2>1, <2>5 DEF At, MadeAt
  <1>8. OneCurrentYear' /\ OneHolder' /\ TeachersDistinct'
    BY <1>1 DEF IInv, OneCurrentYear, OneHolder, Clash, Slot, TeachersDistinct, LiveOf, Live, Exists
  <1> QED
    BY <1>3, <1>4, <1>6, <1>7, <1>8 DEF IInv, At

(* A new record, and the years that unset_current is for *)
LEMMA AskingNew ==
  ASSUME IInv, NEW r \in Reqs, NEW x \in Row(Kinds, Tags), NEW hit \in SUBSET Ids,
         AskAt(r, "write", "create", r, NoRow, x, hit), Shape(x), Refs(x), x.version = 1,
         \A p \in x.of : Live(p) \/ (x.kind = "assignment" /\ row[p].kind = "subject"),
         x.kind = "term" => \A y \in Ids : x.of = {y} => Within(x.val, row[y].val),
         x.kind \in Coded => ~CodeTaken(x),
         hit # {} => x.kind = "year" /\ x.on /\ ~x.deleted /\ r \notin hit
  PROVE  IInv'
  <1>1. r \in Ids
    BY Named
  <1>2. CtlOK /\ row' = row /\ pc' = [pc EXCEPT ![r] = "write"]
        /\ loc' = [loc EXCEPT ![r] = [op |-> "create", id |-> r, row |-> NoRow, new |-> x, hit |-> hit]]
    BY DEF IInv, AskAt
  <1>3. loc'[r] = [op |-> "create", id |-> r, row |-> NoRow, new |-> x, hit |-> hit]
    BY <1>2 DEF CtlOK
  <1>4. loc'[r].op = "create" /\ loc'[r].id = r /\ loc'[r].new = x /\ loc'[r].hit = hit
    BY <1>3
  <1>5. Checked(r)'
    BY <1>2, <1>4 DEF Checked, Live, Exists, CodeTaken, LiveOf
  <1>6. Refs(x)'
    BY <1>2 DEF Refs
  <1>7. LocAt(r)'
    BY <1>1, <1>4, <1>5, <1>6 DEF LocAt, Shape
  <1> QED
    BY <1>1, <1>7, Asking

LEMMA AskingCreate ==
  ASSUME IInv, NEW r \in Reqs, NEW x \in Row(Kinds, Tags), AskCreate(r, x), Shape(x), Refs(x),
         x.version = 1,
         \A p \in x.of : Live(p) \/ (x.kind = "assignment" /\ row[p].kind = "subject"),
         x.kind = "term" => \A y \in Ids : x.of = {y} => Within(x.val, row[y].val),
         x.kind \in Coded => ~CodeTaken(x)
  PROVE  IInv'
  <1>1. AskAt(r, "write", "create", r, NoRow, x, {})
    BY DEF AskCreate, Ask
  <1> QED
    BY <1>1, AskingNew

(* What AskUpdate loads and is going to write: the edited row, its version *)
(* raised or, where nothing changes, as it is                              *)
LEMMA Updating ==
  ASSUME NEW r \in Reqs, NEW i \in Ids, row[i] \in Row(Kinds, Tags), NEW x \in Row(Kinds, Tags),
         NEW hit, AskUpdate(r, "write", i, Raised(i, x), hit)
  PROVE  \E op \in {"edit", "keep"} : \E new \in Row(Kinds, Tags) :
           /\ AskAt(r, "write", op, i, row[i], new, hit)
           /\ new.kind = x.kind /\ new.of = x.of /\ new.tag = x.tag /\ new.on = x.on
           /\ new.val = x.val /\ new.deleted = x.deleted
           /\ op = "edit" => new.version = row[i].version + 1
           /\ op = "keep" => new = row[i]
  <1>1. PICK y : y = Raised(i, x)
    OBVIOUS
  <1>2. /\ y \in Row(Kinds, Tags) /\ y.kind = x.kind /\ y.of = x.of /\ y.tag = x.tag
        /\ y.on = x.on /\ y.val = x.val /\ y.deleted = x.deleted
        /\ y.version = row[i].version + 1
    <2>1. row[i].version + 1 \in Nat
      BY RowFields
    <2> QED
      BY <1>1, <2>1, EditedIs DEF Raised
  <1>3. CASE AskAt(r, "write", "edit", i, row[i], y, hit)
    BY <1>2, <1>3
  <1>4. CASE /\ [y EXCEPT !.version = row[i].version] = row[i]
             /\ AskAt(r, "write", "keep", i, row[i], row[i], hit)
    <2>1. row[i].version \in Nat
      BY RowFields
    <2>2. PICK z : z = [y EXCEPT !.version = row[i].version]
      OBVIOUS
    <2>3. /\ z.kind = x.kind /\ z.of = x.of /\ z.tag = x.tag /\ z.on = x.on
          /\ z.val = x.val /\ z.deleted = x.deleted
      BY <1>2, <2>1, <2>2, EditedIs
    <2> QED
      BY <1>4, <2>2, <2>3
  <1> QED
    BY <1>1, <1>3, <1>4 DEF AskUpdate

(* The edited row but for its version *)
LEMMA AskingUpdate ==
  ASSUME IInv, NEW r \in Reqs, NEW i \in Ids, NEW x \in Row(Kinds, Tags), NEW hit \in SUBSET Ids,
         AskUpdate(r, "write", i, Raised(i, x), hit),
         Live(i), Fixed(row[i].kind), x.kind = row[i].kind, x.of = row[i].of, Shape(x),
         x.kind \in Coded => x.tag = row[i].tag,
         x.kind = "term" /\ ~x.deleted => \A y \in Ids : x.of = {y} => Within(x.val, row[y].val),
         hit # {} => x.kind = "year" /\ x.on /\ ~x.deleted /\ i \notin hit
  PROVE  IInv'
  <1>1. /\ CtlOK /\ RowsOK /\ row[i] \in Row(Kinds, Tags) /\ row[i].version \in Nat /\ Refs(row[i])
    BY RowIs, RowFields DEF IInv, Live, Exists, RowsOK
  <1>2. PICK op \in {"edit", "keep"} : \E new \in Row(Kinds, Tags) :
           /\ AskAt(r, "write", op, i, row[i], new, hit)
           /\ new.kind = x.kind /\ new.of = x.of /\ new.tag = x.tag /\ new.on = x.on
           /\ new.val = x.val /\ new.deleted = x.deleted
           /\ op = "edit" => new.version = row[i].version + 1
           /\ op = "keep" => new = row[i]
    BY <1>1, Updating
  <1>3. PICK new \in Row(Kinds, Tags) :
           /\ AskAt(r, "write", op, i, row[i], new, hit)
           /\ new.kind = x.kind /\ new.of = x.of /\ new.tag = x.tag /\ new.on = x.on
           /\ new.val = x.val /\ new.deleted = x.deleted
           /\ op = "edit" => new.version = row[i].version + 1
           /\ op = "keep" => new = row[i]
    BY <1>2
  <1>4. /\ pc[r] = "idle" /\ row' = row /\ pc' = [pc EXCEPT ![r] = "write"]
        /\ loc' = [loc EXCEPT ![r] = [op |-> op, id |-> i, row |-> row[i], new |-> new, hit |-> hit]]
        /\ row[r] = NoRow
    BY <1>3 DEF AskAt, IInv, At, MadeAt
  <1>5. loc'[r] = [op |-> op, id |-> i, row |-> row[i], new |-> new, hit |-> hit]
    BY <1>1, <1>4 DEF CtlOK
  <1>6. /\ loc'[r].op = op /\ loc'[r].id = i /\ loc'[r].new = new /\ loc'[r].row = row[i]
        /\ loc'[r].hit = hit
    BY <1>5
  <1>7. i # r
    BY <1>4, NoRowShape DEF Live, Exists
  <1>8. i \in Reqs => pc'[i] = "done"
    <2>1. i \in Reqs => pc[i] = "done"
      BY NoRowShape DEF IInv, At, MadeAt, Live, Exists
    <2> QED
      BY <1>1, <1>4, <1>7, <2>1 DEF CtlOK
  <1>9. Checked(r)'
    BY <1>3, <1>4, <1>6 DEF Checked, Live, Exists
  <1>10. Refs(new)' /\ Shape(new)
    BY <1>1, <1>3, <1>4 DEF Refs, Shape
  <1>11. Alike(row[i], row[i])
    BY DEF Alike
  <1>12. LocAt(r)'
    BY <1>1, <1>3, <1>4, <1>6, <1>7, <1>8, <1>9, <1>10, <1>11 DEF LocAt, Shape, Alike
  <1> QED
    BY <1>1, <1>3, <1>12, Asking

LEMMA AskingEdit ==
  ASSUME IInv, NEW r \in Reqs, NEW i \in Ids, NEW x \in Row(Kinds, Tags), AskEdit(r, i, x),
         Live(i), Fixed(row[i].kind), x.kind = row[i].kind, x.of = row[i].of, Shape(x),
         x.kind \in Coded => x.tag = row[i].tag,
         x.kind = "term" /\ ~x.deleted => \A y \in Ids : x.of = {y} => Within(x.val, row[y].val)
  PROVE  IInv'
  BY AskingUpdate DEF AskEdit

(* Deletion keeps everything else. *)
LEMMA AskingDelete ==
  ASSUME IInv, NEW r \in Reqs, NEW i \in Ids, NEW kind, i \in LiveOf(kind), Fixed(kind),
         AskDelete(r, i)
  PROVE  IInv'
  <1>1. /\ Live(i) /\ row[i].kind = kind /\ row[i] \in Row(Kinds, Tags) /\ Shape(row[i])
    BY RowIs DEF LiveOf, Live, Exists, IInv, RowsOK
  <1>2. PICK x : x = [row[i] EXCEPT !.deleted = TRUE]
    OBVIOUS
  <1>3. /\ x \in Row(Kinds, Tags) /\ x.kind = row[i].kind /\ x.of = row[i].of
        /\ x.tag = row[i].tag /\ x.val = row[i].val /\ x.deleted
    BY <1>1, <1>2 DEF Row
  <1>4. AskEdit(r, i, x)
    BY <1>2 DEF AskDelete
  <1>5. Shape(x)
    BY <1>1, <1>3 DEF Shape
  <1> QED
    BY <1>1, <1>3, <1>4, <1>5, AskingEdit

LEMMA AskingSame ==
  ASSUME IInv, NEW r \in Reqs, NEW i \in Ids, NEW kind, EditOf(r, kind, i), Fixed(kind),
         kind # "term"
  PROVE  IInv'
  <1>1. /\ Live(i) /\ row[i].kind = kind /\ row[i] \in Row(Kinds, Tags) /\ Shape(row[i])
        /\ AskEdit(r, i, row[i])
    BY RowIs DEF EditOf, LiveOf, Live, Exists, IInv, RowsOK
  <1> QED
    BY <1>1, AskingEdit

LEMMA AskingRemove ==
  ASSUME IInv, NEW r \in Reqs, NEW i \in Ids, RemoveClassSubject(r, i)
  PROVE  IInv'
  <1>1. /\ CtlOK /\ RowsOK /\ pc[r] = "idle" /\ row[r] = NoRow /\ row[i].kind = "class_subject"
        /\ AskAt(r, "write", "remove", i, row[i], NoRow, {})
    BY DEF IInv, At, MadeAt, RemoveClassSubject, AskRemove, Ask, AskAt, LiveOf
  <1>2. i # r /\ (i \in Reqs => pc[i] = "done")
    BY <1>1, NoRowShape DEF IInv, At, MadeAt
  <1>3. /\ row' = row /\ pc' = [pc EXCEPT ![r] = "write"]
        /\ loc' = [loc EXCEPT ![r] = [op |-> "remove", id |-> i, row |-> row[i], new |-> NoRow, hit |-> {}]]
    BY <1>1 DEF AskAt
  <1>4. loc'[r] = [op |-> "remove", id |-> i, row |-> row[i], new |-> NoRow, hit |-> {}]
    BY <1>1, <1>3 DEF CtlOK
  <1>5. loc'[r].op = "remove" /\ loc'[r].id = i /\ loc'[r].new = NoRow /\ loc'[r].hit = {}
    BY <1>4
  <1>6. i \in Reqs => pc'[i] = "done"
    BY <1>1, <1>2, <1>3 DEF CtlOK
  <1>7. LocAt(r)'
    BY <1>1, <1>2, <1>3, <1>5, <1>6 DEF LocAt, Checked, Fixed
  <1>8. row[i] \in Row(Kinds, Tags) \cup {NoRow} /\ {} \in SUBSET Ids /\ i \in Ids
    BY <1>1 DEF RowsOK
  <1> QED
    BY <1>1, <1>7, <1>8, Asking

-----------------------------------------------------------------------------
(* The lookups, one by one                                                 *)

LEMMA CreateYearStep ==
  ASSUME IInv, NEW r \in Reqs, NEW code \in Codes, NEW d \in Dates, NEW current \in BOOLEAN,
         CreateYear(r, code, d, current)
  PROVE  IInv'
  <1>1. PICK x : x = NewRow("year", {}, code, current, d)
    OBVIOUS
  <1>2. d \in Values /\ d # None /\ code \in Tags /\ "year" \in Kinds
    BY Named, DatesAreValues DEF Kinds, Coded
  <1>3. /\ x \in Row(Kinds, Tags) /\ x.kind = "year" /\ x.of = {} /\ x.tag = code /\ x.val = d
        /\ x.version = 1 /\ x.on = current /\ ~x.deleted
    BY <1>1, <1>2 DEF NewRow, Row
  <1>4. PICK hit \in SUBSET Ids : hit = OtherYears(r, current)
    BY DEF OtherYears
  <1>5. AskAt(r, "write", "create", r, NoRow, x, hit) /\ ~CodeTaken(x)
    BY <1>1, <1>4 DEF CreateYear
  <1>6. Shape(x) /\ Refs(x)
    BY <1>2, <1>3 DEF Shape, Refs
  <1>7. hit # {} => current /\ r \notin hit
    BY <1>4 DEF OtherYears
  <1> QED
    BY <1>3, <1>5, <1>6, <1>7, AskingNew

LEMMA CreateTermStep ==
  ASSUME IInv, NEW r \in Reqs, NEW y \in Of("year"), NEW code \in Codes, NEW d \in Dates,
         CreateTerm(r, y, code, d)
  PROVE  IInv'
  <1>1. PICK x : x = NewRow("term", {y}, code, FALSE, d)
    OBVIOUS
  <1>2. /\ d \in Values /\ d # None /\ code \in Tags /\ "term" \in Kinds
        /\ y \in Ids /\ row[y].kind = "year"
    BY Named, DatesAreValues DEF Kinds, Coded, Of
  <1>3. /\ x \in Row(Kinds, Tags) /\ x.kind = "term" /\ x.of = {y} /\ x.tag = code /\ x.val = d
        /\ x.version = 1
    BY <1>1, <1>2 DEF NewRow, Row
  <1>4. AskCreate(r, x) /\ ~CodeTaken(x) /\ Live(y) /\ Within(d, row[y].val)
    BY <1>1 DEF CreateTerm, LiveOf
  <1>5. Shape(x) /\ Refs(x)
    BY <1>2, <1>3 DEF Shape, Refs
  <1>6. \A z \in Ids : x.of = {z} => Within(x.val, row[z].val)
    BY <1>3, <1>4
  <1> QED
    BY <1>3, <1>4, <1>5, <1>6, AskingCreate

LEMMA CreatePlainStep ==
  ASSUME IInv, NEW r \in Reqs, NEW kind \in {"class", "subject"}, NEW code \in Codes,
         CreatePlain(r, kind, code)
  PROVE  IInv'
  <1>1. PICK x : x = NewRow(kind, {}, code, FALSE, None)
    OBVIOUS
  <1>2. None \in Values /\ code \in Tags /\ kind \in Kinds /\ kind \notin {"year", "term", "assignment"}
    BY Named DEF Kinds, Coded
  <1>3. /\ x \in Row(Kinds, Tags) /\ x.kind = kind /\ x.of = {} /\ x.tag = code /\ x.val = None
        /\ x.version = 1
    BY <1>1, <1>2 DEF NewRow, Row
  <1>4. AskCreate(r, x) /\ ~CodeTaken(x)
    BY <1>1 DEF CreatePlain
  <1>5. Shape(x) /\ Refs(x)
    BY <1>2, <1>3 DEF Shape, Refs
  <1> QED
    BY <1>2, <1>3, <1>4, <1>5, AskingCreate

LEMMA CreateCohortStep ==
  ASSUME IInv, NEW r \in Reqs, NEW y \in Of("year"), NEW c \in Of("class"), NEW code \in Codes,
         CreateCohort(r, y, c, code)
  PROVE  IInv'
  <1>1. PICK x : x = NewRow("cohort", {y, c}, code, FALSE, None)
    OBVIOUS
  <1>2. None \in Values /\ code \in Tags /\ "cohort" \in Kinds /\ {y, c} \in SUBSET Ids
    BY Named DEF Kinds, Coded, Of
  <1>3. /\ x \in Row(Kinds, Tags) /\ x.kind = "cohort" /\ x.of = {y, c} /\ x.tag = code /\ x.val = None
        /\ x.version = 1
    BY <1>1, <1>2 DEF NewRow, Row
  <1>4. AskCreate(r, x) /\ ~CodeTaken(x) /\ Live(y) /\ Live(c)
    BY <1>1 DEF CreateCohort, LiveOf
  <1>5. Shape(x) /\ Refs(x)
    BY <1>2, <1>3 DEF Shape, Refs
  <1> QED
    BY <1>3, <1>4, <1>5, AskingCreate

LEMMA CreateClassSubjectStep ==
  ASSUME IInv, NEW r \in Reqs, NEW c \in Of("class"), NEW s \in Of("subject"), NEW y \in Of("year"),
         CreateClassSubject(r, c, s, y)
  PROVE  IInv'
  <1>1. PICK x : x = NewRow("class_subject", {c, s, y}, None, FALSE, None)
    OBVIOUS
  <1>2. /\ None \in Values /\ None \in Tags /\ "class_subject" \in Kinds /\ "class_subject" \notin Coded
        /\ {c, s, y} \in SUBSET Ids
    BY Named DEF Kinds, Coded, Of
  <1>3. /\ x \in Row(Kinds, Tags) /\ x.kind = "class_subject" /\ x.of = {c, s, y} /\ x.val = None
        /\ x.version = 1
    BY <1>1, <1>2 DEF NewRow, Row
  <1>4. AskCreate(r, x) /\ Live(c) /\ Live(s) /\ Live(y)
    BY <1>1 DEF CreateClassSubject, LiveOf
  <1>5. Shape(x) /\ Refs(x)
    BY <1>2, <1>3 DEF Shape, Refs
  <1> QED
    BY <1>2, <1>3, <1>4, <1>5, AskingCreate

LEMMA CreateTeacherStep ==
  ASSUME IInv, NEW r \in Reqs, NEW p \in Ids, NEW n \in Numbers \cup {None}, CreateTeacher(r, p, n)
  PROVE  IInv'
  <1>1. PICK x : x = NewRow("teacher", {p}, n, FALSE, None)
    OBVIOUS
  <1>2. None \in Values /\ n \in Tags /\ "teacher" \in Kinds /\ "teacher" \notin Coded
    BY Named DEF Kinds, Coded
  <1>3. /\ x \in Row(Kinds, Tags) /\ x.kind = "teacher" /\ x.of = {p} /\ x.val = None
        /\ x.version = 1
    BY <1>1, <1>2 DEF NewRow, Row
  <1>4. AskCreate(r, x) /\ Live(p)
    BY <1>1 DEF CreateTeacher, LiveOf
  <1>5. Shape(x) /\ Refs(x)
    BY <1>2, <1>3 DEF Shape, Refs
  <1> QED
    BY <1>2, <1>3, <1>4, <1>5, AskingCreate

LEMMA AssignStep ==
  ASSUME IInv, NEW r \in Reqs, NEW t \in Of("teacher"), NEW c \in Of("cohort"), NEW y \in Of("year"),
         NEW s \in {{}} \cup {{i} : i \in Of("subject")}, NEW ro \in Roles, Assign(r, t, c, y, s, ro)
  PROVE  IInv'
  <1>1. PICK x : x = NewRow("assignment", {t, c, y} \cup s, ro, TRUE, None)
    OBVIOUS
  <1>2. /\ None \in Values /\ ro \in Tags /\ "assignment" \in Kinds /\ "assignment" \notin Coded
        /\ {t, c, y} \cup s \in SUBSET Ids /\ \A p \in s : row[p].kind = "subject"
        /\ row[t].kind = "teacher" /\ row[c].kind = "cohort" /\ row[y].kind = "year"
    BY Named DEF Kinds, Coded, Of
  <1>3. /\ x \in Row(Kinds, Tags) /\ x.kind = "assignment" /\ x.of = {t, c, y} \cup s /\ x.val = None
        /\ x.version = 1
    BY <1>1, <1>2 DEF NewRow, Row
  <1>4. AskCreate(r, x) /\ Live(t) /\ Live(c) /\ Live(y)
    BY <1>1 DEF Assign, LiveOf
  <1>5. Shape(x) /\ Refs(x)
    BY <1>2, <1>3 DEF Shape, Refs, Posts
  <1>6. \A p \in x.of : Live(p) \/ row[p].kind = "subject"
    BY <1>2, <1>3, <1>4
  <1> QED
    BY <1>2, <1>3, <1>4, <1>5, <1>6, AskingCreate

LEMMA EditYearStep ==
  ASSUME IInv, NEW r \in Reqs, NEW i \in Ids, NEW d \in Dates,
         NEW flag \in {"set", "clear", "absent"}, EditYear(r, i, d, flag)
  PROVE  IInv'
  <1>1. PICK x : x = [row[i] EXCEPT !.on = flag = "set" \/ (flag = "absent" /\ @), !.val = d]
    OBVIOUS
  <1>2. PICK hit \in SUBSET Ids : hit = OtherYears(i, flag = "set")
    BY DEF OtherYears
  <1>3. /\ d \in Values /\ d # None /\ Live(i) /\ row[i].kind = "year" /\ row[i] \in Row(Kinds, Tags)
        /\ Shape(row[i]) /\ AskUpdate(r, "write", i, Raised(i, x), hit)
    BY <1>1, <1>2, Named, DatesAreValues, RowIs DEF EditYear, LiveOf, Live, Exists, IInv, RowsOK
  <1>4. /\ x \in Row(Kinds, Tags) /\ x.kind = "year" /\ x.of = row[i].of /\ x.tag = row[i].tag /\ x.val = d
        /\ x.deleted = row[i].deleted
    BY <1>1, <1>3 DEF Row
  <1>5. flag = "set" => x.on
    BY <1>1, <1>3 DEF Row
  <1>6. Shape(x) /\ Fixed(row[i].kind)
    BY <1>3, <1>4 DEF Shape, Fixed
  <1>7. hit # {} => flag = "set" /\ i \notin hit
    BY <1>2 DEF OtherYears
  <1> QED
    BY <1>3, <1>4, <1>5, <1>6, <1>7, AskingUpdate DEF Live

LEMMA EditTermStep ==
  ASSUME IInv, NEW r \in Reqs, NEW i \in Ids, NEW d \in Dates, EditTerm(r, i, d)
  PROVE  IInv'
  <1>1. PICK x : x = [row[i] EXCEPT !.val = d]
    OBVIOUS
  <1>2. /\ d \in Values /\ d # None /\ Live(i) /\ row[i].kind = "term" /\ row[i] \in Row(Kinds, Tags)
        /\ Shape(row[i]) /\ Refs(row[i]) /\ AskEdit(r, i, x) /\ Within(d, row[Parent(i, "year")].val)
    BY <1>1, Named, DatesAreValues, RowIs DEF EditTerm, LiveOf, Live, Exists, IInv, RowsOK
  <1>3. x \in Row(Kinds, Tags) /\ x.kind = "term" /\ x.of = row[i].of /\ x.tag = row[i].tag /\ x.val = d
    BY <1>1, <1>2 DEF Row
  <1>4. PICK y \in Ids : row[i].of = {y} /\ row[y].kind = "year"
    BY <1>2 DEF Refs
  <1>5. \A z \in Ids : x.of = {z} => Within(x.val, row[z].val)
    BY <1>2, <1>3, <1>4, ParentIs
  <1>6. Shape(x) /\ Fixed(row[i].kind)
    BY <1>2, <1>3 DEF Shape, Fixed
  <1> QED
    BY <1>2, <1>3, <1>5, <1>6, AskingEdit

LEMMA EditTeacherStep ==
  ASSUME IInv, NEW r \in Reqs, NEW i \in Ids, NEW n \in Numbers \cup {None}, EditTeacher(r, i, n)
  PROVE  IInv'
  <1>1. PICK x : x = [row[i] EXCEPT !.tag = n]
    OBVIOUS
  <1>2. /\ n \in Tags /\ Live(i) /\ row[i].kind = "teacher" /\ row[i] \in Row(Kinds, Tags)
        /\ Shape(row[i]) /\ AskEdit(r, i, x)
    BY <1>1, Named, RowIs DEF EditTeacher, LiveOf, Live, Exists, IInv, RowsOK
  <1>3. x \in Row(Kinds, Tags) /\ x.kind = "teacher" /\ x.of = row[i].of /\ x.val = row[i].val
    BY <1>1, <1>2 DEF Row
  <1>4. Shape(x) /\ Fixed(row[i].kind) /\ x.kind \notin Coded
    BY <1>2, <1>3 DEF Shape, Fixed, Coded
  <1> QED
    BY <1>2, <1>3, <1>4, AskingEdit

LEMMA EditAssignmentStep ==
  ASSUME IInv, NEW r \in Reqs, NEW i \in Ids, NEW active \in BOOLEAN, EditAssignment(r, i, active)
  PROVE  IInv'
  <1>1. PICK x : x = [row[i] EXCEPT !.on = active]
    OBVIOUS
  <1>2. /\ Live(i) /\ row[i].kind = "assignment" /\ row[i] \in Row(Kinds, Tags)
        /\ Shape(row[i]) /\ AskEdit(r, i, x)
    BY <1>1, RowIs DEF EditAssignment, LiveOf, Live, Exists, IInv, RowsOK
  <1>3. x \in Row(Kinds, Tags) /\ x.kind = "assignment" /\ x.of = row[i].of /\ x.val = row[i].val
    BY <1>1, <1>2 DEF Row
  <1>4. Shape(x) /\ Fixed(row[i].kind) /\ x.kind \notin Coded
    BY <1>2, <1>3 DEF Shape, Fixed, Coded
  <1> QED
    BY <1>2, <1>3, <1>4, AskingEdit

-----------------------------------------------------------------------------
(* The write                                                               *)

(* A request ends and leaves the records as they are. *)
LEMMA Ending ==
  ASSUME IInv, NEW r \in Reqs, NEW o \in {"refused", "aborted", "error"}, Finish(r, o),
         row' = row, raced' = raced \/ raced' = [raced EXCEPT ![r] = FALSE]
  PROVE  IInv'
  <1>1. CtlOK /\ RowsOK
    BY DEF IInv
  <1>2. /\ pc' = [pc EXCEPT ![r] = "done"] /\ out' = [out EXCEPT ![r] = o]
        /\ loc' = [loc EXCEPT ![r] = NoLocal]
    BY DEF Finish
  <1>3. CtlOK'
    BY <1>1, <1>2, NoLocalType DEF CtlOK
  <1>4. RowsOK'
    BY <1>1 DEF RowsOK, Shape, Refs
  <1>5. /\ pc'[r] = "done" /\ \A q \in Reqs : q # r =>
             pc'[q] = pc[q] /\ loc'[q] = loc[q] /\ raced'[q] = raced[q]
    BY <1>1, <1>2 DEF CtlOK
  <1>6. At(r)'
    BY <1>5 DEF At, LocAt, MadeAt
  <1>7. ASSUME NEW q \in Reqs, q # r
        PROVE  At(q)'
    <2>1. LocAt(q) /\ MadeAt(q)
      BY DEF IInv, At
    <2>2. Checked(q) => Checked(q)'
      BY <1>5, <1>7 DEF Checked, Live, Exists, CodeTaken, LiveOf
    <2>3. loc[q].id \in Reqs \ {q} /\ pc[loc[q].id] = "done" => pc'[loc[q].id] = "done"
      BY <1>5
    <2>4. Refs(loc[q].new) => Refs(loc[q].new)'
      BY <1>5, <1>7 DEF Refs
    <2>5. LocAt(q)'
      BY <1>5, <1>7, <2>1, <2>2, <2>3, <2>4 DEF LocAt, Shape, Alike
    <2> QED
      BY <1>5, <1>7, <2>1, <2>5 DEF At, MadeAt
  <1>8. OneCurrentYear' /\ OneHolder' /\ TeachersDistinct'
    BY DEF IInv, OneCurrentYear, OneHolder, Clash, Slot, TeachersDistinct, LiveOf, Live, Exists
  <1> QED
    BY <1>3, <1>4, <1>6, <1>7, <1>8 DEF IInv

(* The request writes its own record, and takes the flag from the years    *)
(* that unset_current finds.                                               *)
Accepted(r) ==
  LET i == loc[r].id
      x == Written(r)
  IN /\ pc[r] = "write"
     /\ row' = UnsetCurrent([row EXCEPT ![i] = x], loc[r].hit) /\ Finish(r, "written")
     /\ raced' = [q \in Reqs |-> q # r /\ (raced[q] \/ pc[q] \notin {"idle", "done"})]
     /\ loc[r].op = "edit" => Fresh(r)
     /\ loc[r].op \in {"create", "edit"} =>
          CurrentFree(i, x) /\ TeacherFree(i, x) /\ SlotFree(i, x)

LEMMA WriteIs ==
  ASSUME IInv, NEW r \in Reqs, Write(r)
  PROVE  \/ Accepted(r)
         \/ Finish(r, "error") /\ row' = row /\ raced' = [raced EXCEPT ![r] = FALSE]
  BY DEF Write, Store, Accepted

(* What an accepted request leaves of its own record: what it asked for,   *)
(* but for a flag that it did not change.                                  *)
LEMMA WrittenIs ==
  ASSUME IInv, NEW r \in Reqs, pc[r] = "write", loc[r].op = "edit" => Fresh(r)
  PROVE  LET i == loc[r].id
             x == loc[r].new
             y == Written(r)
         IN /\ y \in Row(Kinds, Tags) \cup {NoRow}
            /\ loc[r].op \in {"create", "remove"} => y = x
            /\ loc[r].op = "keep" => y = row[i]
            /\ loc[r].op = "edit" =>
                 /\ y \in Row(Kinds, Tags) /\ Alike(y, x)
                 /\ y.on = IF x.on = loc[r].row.on THEN row[i].on ELSE x.on
            /\ ~raced[r] => y = x
  <1>1. PICK x, w, n, i : x = loc[r].new /\ w = loc[r].row /\ i = loc[r].id /\ n = row[i]
    OBVIOUS
  <1>2. /\ LocAt(r) /\ CtlOK /\ RowsOK /\ i \in Ids /\ n \in Row(Kinds, Tags) \cup {NoRow}
        /\ x \in Row(Kinds, Tags) \cup {NoRow}
        /\ loc[r].op \in {"create", "edit", "keep", "remove"}
    BY <1>1 DEF IInv, At, LocAt, RowsOK, CtlOK, LocType
  <1>3. CASE loc[r].op \in {"create", "remove"}
    BY <1>1, <1>2, <1>3 DEF Written
  <1>4. CASE loc[r].op = "keep"
    BY <1>1, <1>2, <1>4 DEF Written, LocAt, Checked
  <1>5. CASE loc[r].op = "edit"
    <2>1. /\ w \in Row(Kinds, Tags) /\ x \in Row(Kinds, Tags) /\ n.version = w.version
          /\ x.kind = n.kind /\ Alike(n, w) /\ n.kind # "none"
          /\ ~raced[r] => w = n
      BY <1>1, <1>2, <1>5, NoRowShape DEF LocAt, Fresh, Checked
    <2>2. n \in Row(Kinds, Tags)
      BY <1>2, <2>1, NoRowShape
    <2>3. PICK y : y = [n EXCEPT !.of      = IF x.of = w.of THEN @ ELSE x.of,
                                 !.tag     = IF x.tag = w.tag THEN @ ELSE x.tag,
                                 !.on      = IF x.on = w.on THEN @ ELSE x.on,
                                 !.val     = IF x.val = w.val THEN @ ELSE x.val,
                                 !.deleted = x.deleted,
                                 !.version = x.version]
      OBVIOUS
    <2>4. Written(r) = y
      BY <1>1, <1>5, <2>3 DEF Written, ChangedColumns
    <2>5. /\ y \in Row(Kinds, Tags) /\ y.kind = x.kind /\ y.of = x.of /\ y.tag = x.tag
          /\ y.val = x.val /\ y.deleted = x.deleted /\ y.version = x.version
          /\ y.on = IF x.on = w.on THEN n.on ELSE x.on
      BY <2>1, <2>2, <2>3 DEF Row, Alike
    <2>6. y.kind # "year" => y.on = x.on
      BY <2>1, <2>5 DEF Alike
    <2>7. ~raced[r] => y = x
      <3>1. SUFFICES ASSUME ~raced[r] PROVE y = x
        OBVIOUS
      <3>2. y.on = x.on
        BY <2>1, <2>5, <3>1
      <3> QED
        BY <2>1, <2>5, <3>2 DEF Row
    <2> QED
      BY <1>1, <1>5, <2>4, <2>5, <2>6, <2>7 DEF Alike
  <1> QED
    BY <1>2, <1>3, <1>4, <1>5

LEMMA AcceptedIs ==
  ASSUME IInv, NEW r \in Reqs, Accepted(r)
  PROVE  LET i == loc[r].id
             x == loc[r].new
         IN /\ CtlOK /\ RowsOK /\ LocAt(r) /\ pc[r] = "write" /\ row[r] = NoRow /\ i \in Ids
            /\ row'[i] = Written(r)
            /\ \A j \in Ids : j # i => Alike(row'[j], row[j]) /\ (row'[j].on => row[j].on)
            /\ \A j \in Ids : j # i => row'[j] = row[j] \/ j \in loc[r].hit
            /\ row' \in [Ids -> Row(Kinds, Tags) \cup {NoRow}]
            /\ i \in Reqs => i = r \/ pc[i] = "done"
            /\ loc[r].op = "create" => i = r
            /\ loc[r].op \in {"create", "edit", "keep", "remove"}
            /\ x \in Row(Kinds, Tags) \cup {NoRow}
  <1>1. PICK y, i, hit : y = Written(r) /\ i = loc[r].id /\ hit = loc[r].hit
    OBVIOUS
  <1>2. /\ CtlOK /\ RowsOK /\ LocAt(r) /\ pc[r] = "write" /\ row[r] = NoRow /\ i \in Ids
        /\ i \in Reqs => i = r \/ pc[i] = "done"
        /\ loc[r].op = "create" => i = r
        /\ loc[r].op \in {"create", "edit", "keep", "remove"}
        /\ hit \subseteq Ids /\ i \notin hit
        /\ loc[r].new \in Row(Kinds, Tags) \cup {NoRow}
    BY <1>1 DEF IInv, At, LocAt, MadeAt, Accepted, CtlOK, LocType
  <1>3. y \in Row(Kinds, Tags) \cup {NoRow}
    BY <1>1, WrittenIs DEF Accepted
  <1>4. PICK t : t = [row EXCEPT ![i] = y]
    OBVIOUS
  <1>5. /\ t \in [Ids -> Row(Kinds, Tags) \cup {NoRow}] /\ t[i] = y
        /\ \A j \in Ids : j # i => t[j] = row[j]
    BY <1>2, <1>3, <1>4 DEF RowsOK
  <1>6. row' = [j \in Ids |-> IF j \in hit /\ Current(t[j]) THEN [t[j] EXCEPT !.on = FALSE] ELSE t[j]]
    BY <1>1, <1>4 DEF Accepted, UnsetCurrent
  <1>7. ASSUME NEW z \in Row(Kinds, Tags) \cup {NoRow}, Current(z)
        PROVE  /\ [z EXCEPT !.on = FALSE] \in Row(Kinds, Tags)
               /\ Alike([z EXCEPT !.on = FALSE], z) /\ ~[z EXCEPT !.on = FALSE].on
    <2>1. z \in Row(Kinds, Tags)
      BY <1>7, NoRowShape DEF Current
    <2> QED
      BY <1>7, <2>1 DEF Row, Alike, Current
  <1>8. \A z : Alike(z, z)
    BY DEF Alike
  <1>9. row'[i] = y
    BY <1>2, <1>5, <1>6
  <1>10. ASSUME NEW j \in Ids
         PROVE  /\ row'[j] \in Row(Kinds, Tags) \cup {NoRow}
                /\ Alike(row'[j], t[j]) /\ (row'[j].on => t[j].on)
                /\ row'[j] = t[j] \/ j \in hit
    BY <1>5, <1>6, <1>7, <1>8
  <1>11. row' \in [Ids -> Row(Kinds, Tags) \cup {NoRow}]
    BY <1>6, <1>10
  <1> QED
    BY <1>1, <1>2, <1>5, <1>9, <1>10, <1>11

(* Records keep their kind, unless they are class subjects; their version  *)
(* grows when they change, but for the flag of a year.                     *)
LEMMA KindsStay ==
  ASSUME IInv, NEW r \in Reqs, Accepted(r)
  PROVE  /\ \A p \in Ids : Fixed(row[p].kind) =>
              /\ row'[p].kind = row[p].kind
              /\ row[p].version \in Nat /\ row'[p].version \in Nat
              /\ \/ Alike(row'[p], row[p]) /\ (row'[p].on => row[p].on)
                 \/ row[p].version < row'[p].version
         /\ \A p \in Ids : ~Fixed(row[p].kind) /\ (p \in Reqs => pc[p] = "done") =>
              ~Fixed(row'[p].kind)
  <1>1. PICK y, i, x : y = Written(r) /\ i = loc[r].id /\ x = loc[r].new
    OBVIOUS
  <1>2. /\ CtlOK /\ RowsOK /\ LocAt(r) /\ pc[r] = "write" /\ row[r] = NoRow /\ i \in Ids
        /\ row'[i] = y
        /\ \A j \in Ids : j # i => Alike(row'[j], row[j]) /\ (row'[j].on => row[j].on)
        /\ loc[r].op = "create" => i = r
        /\ loc[r].op \in {"create", "edit", "keep", "remove"}
    BY <1>1, AcceptedIs
  <1>3. ASSUME NEW p \in Ids, Fixed(row[p].kind)
        PROVE  row[p] \in Row(Kinds, Tags) /\ row[p].version \in Nat
    <2>1. row[p].kind # "none"
      BY <1>3 DEF Fixed
    <2> QED
      BY <1>2, <2>1, RowIs, RowFields
  <1>4. loc[r].op = "keep" => y = row[i]
    BY <1>1, <1>2, WrittenIs DEF Accepted
  <1>5. Alike(row[i], row[i])
    BY DEF Alike
  <1>6. ASSUME Fixed(row[i].kind), y # row[i]
        PROVE  /\ y.kind = row[i].kind /\ y.version \in Nat /\ row[i].version < y.version
    <2>1. loc[r].op = "edit"
      BY <1>1, <1>2, <1>4, <1>6, NoRowShape DEF LocAt
    <2>2. /\ y.kind = x.kind /\ y.version = x.version
      BY <1>1, <1>2, <2>1, WrittenIs DEF Accepted, Alike
    <2>3. /\ loc[r].row \in Row(Kinds, Tags) /\ x.version = loc[r].row.version + 1
          /\ x.kind = row[i].kind /\ row[i].version = loc[r].row.version
      BY <1>1, <1>2, <2>1 DEF LocAt, Accepted, Fresh
    <2>4. loc[r].row.version \in Nat
      BY <2>3, RowFields
    <2> QED
      BY <2>2, <2>3, <2>4
  <1>7. ASSUME ~Fixed(row[i].kind), i \in Reqs => pc[i] = "done"
        PROVE  ~Fixed(y.kind)
    <2>1. loc[r].op = "remove"
      BY <1>1, <1>2, <1>7, NoRowShape DEF LocAt
    <2>2. y = NoRow
      BY <1>1, <1>2, <2>1, WrittenIs DEF Accepted, LocAt
    <2> QED
      BY <2>2, NoRowShape
  <1>8. ASSUME NEW p \in Ids, Fixed(row[p].kind)
        PROVE  /\ row'[p].kind = row[p].kind
               /\ row[p].version \in Nat /\ row'[p].version \in Nat
               /\ \/ Alike(row'[p], row[p]) /\ (row'[p].on => row[p].on)
                  \/ row[p].version < row'[p].version
    <2>1. CASE p # i
      BY <1>2, <1>3, <1>8, <2>1 DEF Alike
    <2>2. CASE p = i /\ y = row[i]
      BY <1>2, <1>3, <1>5, <1>8, <2>2
    <2>3. CASE p = i /\ y # row[i]
      BY <1>2, <1>3, <1>6, <1>8, <2>3
    <2> QED
      BY <2>1, <2>2, <2>3
  <1>9. ASSUME NEW p \in Ids, ~Fixed(row[p].kind), p \in Reqs => pc[p] = "done"
        PROVE  ~Fixed(row'[p].kind)
    BY <1>2, <1>7, <1>9 DEF Alike
  <1> QED
    BY <1>8, <1>9

LEMMA RowsAfter ==
  ASSUME IInv, NEW r \in Reqs, Accepted(r)
  PROVE  /\ RowsOK' /\ \A x : Refs(x) /\ x.of \in SUBSET Ids => Refs(x)'
         /\ \A q \in Reqs : q # r => At(q)'
  <1>1. ASSUME NEW x, Refs(x), x.of \in SUBSET Ids
        PROVE  Refs(x)'
    <2>1. \A p \in Ids : row[p].kind \in Posts => row'[p].kind = row[p].kind
      BY KindsStay DEF Posts, Fixed
    <2>2. "year" \in Posts
      BY DEF Posts
    <2> QED
      BY <1>1, <2>1, <2>2 DEF Refs
  <1>2. RowsOK'
    <2>1. PICK z, i, x : z = Written(r) /\ i = loc[r].id /\ x = loc[r].new
      OBVIOUS
    <2>2. /\ RowsOK /\ LocAt(r) /\ row'[i] = z /\ pc[r] = "write" /\ i \in Ids
          /\ \A j \in Ids : j # i => Alike(row'[j], row[j])
          /\ row' \in [Ids -> Row(Kinds, Tags) \cup {NoRow}]
          /\ x \in Row(Kinds, Tags) \cup {NoRow}
          /\ loc[r].op \in {"create", "edit", "keep", "remove"}
      BY <2>1, AcceptedIs
    <2>3. x # NoRow => Shape(x) /\ Refs(x)
      BY <2>1, <2>2 DEF LocAt
    <2>4. \A j \in Ids : row[j].of \in SUBSET Ids /\ Shape(row[j]) /\ Refs(row[j])
      BY <2>2, RowFields, NoRowShape DEF RowsOK
    <2>5. Shape(NoRow) /\ Refs(NoRow) /\ NoRow.of \in SUBSET Ids
      BY NoRowShape DEF Refs
    <2>6. x.of \in SUBSET Ids /\ Shape(x) /\ Refs(x)
      BY <2>2, <2>3, <2>5, RowFields
    <2>7. Shape(z) /\ Refs(z) /\ z.of \in SUBSET Ids
      <3>1. CASE loc[r].op = "edit"
        <4>1. Alike(z, x)
          BY <2>1, <2>2, <3>1, WrittenIs DEF Accepted
        <4> QED
          BY <2>6, <4>1 DEF Alike, Shape, Refs
      <3>2. CASE loc[r].op = "keep"
        <4>1. z = row[i]
          BY <2>1, <2>2, <3>2, WrittenIs DEF Accepted
        <4> QED
          BY <2>2, <2>4, <4>1
      <3>3. CASE loc[r].op \in {"create", "remove"}
        <4>1. z = x
          BY <2>1, <2>2, <3>3, WrittenIs DEF Accepted
        <4> QED
          BY <2>6, <4>1
      <3> QED
        BY <2>2, <3>1, <3>2, <3>3
    <2>8. ASSUME NEW j \in Ids
          PROVE  (Shape(row[j]) /\ Refs(row[j]))'
      <3>1. PICK y : y = row'[j]
        OBVIOUS
      <3>2. Shape(y) /\ Refs(y) /\ y.of \in SUBSET Ids
        <4>1. CASE j = i
          BY <2>2, <2>7, <3>1, <4>1
        <4>2. CASE j # i
          <5>1. Alike(y, row[j])
            BY <2>2, <3>1, <4>2
          <5> QED
            BY <2>4, <5>1 DEF Alike, Shape, Refs
        <4> QED
          BY <4>1, <4>2
      <3>3. Refs(y)'
        BY <1>1, <3>2
      <3> QED
        BY <3>1, <3>2, <3>3 DEF Shape, Refs
    <2> QED
      BY <2>2, <2>8 DEF RowsOK
  <1>3. ASSUME NEW q \in Reqs, q # r
        PROVE  At(q)'
    <2>1. /\ LocAt(q) /\ MadeAt(q) /\ CtlOK
      BY DEF IInv, At
    <2>2. /\ pc' = [pc EXCEPT ![r] = "done"] /\ loc' = [loc EXCEPT ![r] = NoLocal]
          /\ raced' = [p \in Reqs |-> p # r /\ (raced[p] \/ pc[p] \notin {"idle", "done"})]
      BY DEF Accepted, Finish
    <2>3. /\ pc'[q] = pc[q] /\ loc'[q] = loc[q] /\ (pc[q] = "write" => raced'[q])
      BY <1>3, <2>1, <2>2 DEF CtlOK
    <2>4. /\ loc[r].id \in Reqs => loc[r].id = r \/ pc[loc[r].id] = "done"
          /\ \A j \in Ids : j # loc[r].id => Alike(row'[j], row[j])
          /\ row' \in [Ids -> Row(Kinds, Tags) \cup {NoRow}]
          /\ q \in Ids
      BY AcceptedIs, Named
    <2>5. MadeAt(q)'
      <3>1. SUFFICES ASSUME pc[q] # "done" PROVE row'[q] = NoRow
        BY <2>3 DEF MadeAt
      <3>2. Alike(row'[q], NoRow)
        BY <1>3, <2>1, <2>4, <3>1 DEF MadeAt
      <3> QED
        BY <2>4, <3>2, RowFields, NoRowShape DEF Alike
    <2>6. LocAt(q)'
      <3>1. SUFFICES ASSUME pc[q] = "write" PROVE LocAt(q)'
        BY <2>3 DEF LocAt
      <3>2. loc[q].id \in Reqs \ {q} => pc'[loc[q].id] = "done"
        BY <2>1, <2>2, <3>1 DEF LocAt, CtlOK
      <3>3. loc[q].op = "remove" => loc[q].new = NoRow /\ ~Fixed(row'[loc[q].id].kind)
        BY <2>1, <3>1, KindsStay DEF LocAt
      <3>4. loc[q].op # "remove" =>
              /\ loc[q].new \in Row(Kinds, Tags) /\ Shape(loc[q].new) /\ Refs(loc[q].new)'
        <4>1. SUFFICES ASSUME loc[q].op # "remove"
                       PROVE  /\ loc[q].new \in Row(Kinds, Tags) /\ Shape(loc[q].new)
                              /\ Refs(loc[q].new)'
          OBVIOUS
        <4>2. PICK x : x = loc[q].new
          OBVIOUS
        <4>3. x \in Row(Kinds, Tags) /\ Shape(x) /\ Refs(x)
          BY <2>1, <3>1, <4>1, <4>2 DEF LocAt
        <4>4. Refs(x)'
          BY <1>1, <4>3, RowFields
        <4> QED
          BY <2>3, <4>2, <4>3, <4>4 DEF Refs
      <3>5. ASSUME loc[q].op \in {"edit", "keep"}
            PROVE  /\ loc[q].row \in Row(Kinds, Tags) /\ loc[q].row.kind = row'[loc[q].id].kind
                   /\ Fixed(row'[loc[q].id].kind) /\ loc[q].new.kind = row'[loc[q].id].kind
                   /\ loc[q].row.version <= row'[loc[q].id].version
                   /\ loc[q].row.version = row'[loc[q].id].version =>
                        /\ Alike(row'[loc[q].id], loc[q].row)
                        /\ row'[loc[q].id].on => loc[q].row.on
        <4>1. PICK i, w, x : i = loc[q].id /\ w = loc[q].row /\ x = loc[q].new
          OBVIOUS
        <4>2. /\ i \in Ids /\ Fixed(row[i].kind) /\ w \in Row(Kinds, Tags)
              /\ w.kind = row[i].kind /\ x.kind = row[i].kind
              /\ w.version <= row[i].version
              /\ w.version = row[i].version => Alike(row[i], w) /\ (row[i].on => w.on)
          BY <2>1, <3>1, <3>5, <4>1 DEF LocAt
        <4>3. w.version \in Nat
          BY <4>2, RowFields
        <4>4. /\ row'[i].kind = row[i].kind
              /\ row[i].version \in Nat /\ row'[i].version \in Nat
              /\ \/ Alike(row'[i], row[i]) /\ (row'[i].on => row[i].on)
                 \/ row[i].version < row'[i].version
          BY <4>2, KindsStay
        <4>5. w.version <= row'[i].version
          BY <4>2, <4>3, <4>4 DEF Alike
        <4>6. ASSUME w.version = row'[i].version
              PROVE  Alike(row'[i], w) /\ (row'[i].on => w.on)
          <5>1. Alike(row'[i], row[i]) /\ (row'[i].on => row[i].on)
            BY <4>2, <4>3, <4>4, <4>6
          <5>2. Alike(row[i], w) /\ (row[i].on => w.on)
            BY <4>2, <4>6, <5>1 DEF Alike
          <5> QED
            BY <5>1, <5>2 DEF Alike
        <4> QED
          BY <4>1, <4>2, <4>4, <4>5, <4>6
      <3> QED
        BY <2>1, <2>3, <3>1, <3>2, <3>3, <3>4, <3>5 DEF LocAt, Shape, Alike
    <2> QED
      BY <2>5, <2>6 DEF At
  <1> QED
    BY <1>1, <1>2, <1>3

(* A post is compared by the kinds of what it refers to, which stay. *)
LEMMA SlotStays ==
  ASSUME IInv, NEW r \in Reqs, Accepted(r), NEW x, x.kind = "assignment", Refs(x),
         x.of \in SUBSET Ids
  PROVE  Slot(x)' = Slot(x) /\ \A p \in x.of : row'[p].kind = "subject" <=> row[p].kind = "subject"
  <1>1. \A p \in x.of : row'[p].kind = row[p].kind
    BY KindsStay DEF Refs, Posts, Fixed
  <1> QED
    BY <1>1 DEF Slot

LEMMA WriteStep ==
  ASSUME IInv, NEW r \in Reqs, Accepted(r)
  PROVE  IInv'
  <1>1. PICK x, i : x = Written(r) /\ i = loc[r].id
    OBVIOUS
  <1>2. /\ CtlOK /\ RowsOK /\ LocAt(r) /\ pc[r] = "write" /\ i \in Ids
        /\ row'[i] = x
        /\ \A j \in Ids : j # i => Alike(row'[j], row[j]) /\ (row'[j].on => row[j].on)
        /\ loc[r].op \in {"create", "edit", "keep", "remove"}
        /\ OneCurrentYear /\ OneHolder /\ TeachersDistinct
    BY <1>1, AcceptedIs DEF IInv
  <1>3. /\ loc[r].op = "remove" => x = NoRow
        /\ loc[r].op = "keep" => x = row[i]
        /\ loc[r].op \in {"create", "edit"} => CurrentFree(i, x) /\ TeacherFree(i, x) /\ SlotFree(i, x)
    BY <1>1, <1>2, WrittenIs DEF Accepted, LocAt
  <1>4. /\ pc' = [pc EXCEPT ![r] = "done"] /\ loc' = [loc EXCEPT ![r] = NoLocal]
        /\ out' = [out EXCEPT ![r] = "written"]
        /\ raced' = [p \in Reqs |-> p # r /\ (raced[p] \/ pc[p] \notin {"idle", "done"})]
    BY DEF Accepted, Finish
  <1>5. CtlOK'
    BY <1>2, <1>4, NoLocalType DEF CtlOK
  <1>6. At(r)'
    <2>1. pc'[r] = "done"
      BY <1>2, <1>4 DEF CtlOK
    <2> QED
      BY <2>1 DEF At, LocAt, MadeAt
  <1>7. RowsOK'
    BY RowsAfter
  <1>8. ASSUME NEW j \in Ids
        PROVE  row[j].of \in SUBSET Ids /\ Refs(row[j]) /\ row'[j].of \in SUBSET Ids /\ Refs(row'[j])
    <2>1. row[j].of \in SUBSET Ids /\ row'[j].of \in SUBSET Ids /\ Refs(row[j])
      BY <1>2, <1>7, RowFields, NoRowShape DEF RowsOK
    <2>2. Refs(row'[j])
      <3>1. CASE j # i
        BY <1>2, <2>1, <3>1 DEF Alike, Refs
      <3>2. CASE j = i /\ loc[r].op \in {"keep", "remove"}
        BY <1>2, <1>3, <2>1, <3>2, NoRowShape DEF Refs
      <3>3. CASE j = i /\ loc[r].op = "create"
        <4>1. x = loc[r].new /\ Refs(loc[r].new)
          BY <1>1, <1>2, <3>3, WrittenIs DEF Accepted, LocAt
        <4> QED
          BY <1>2, <3>3, <4>1
      <3>4. CASE j = i /\ loc[r].op = "edit"
        <4>1. Alike(x, loc[r].new) /\ Refs(loc[r].new)
          BY <1>1, <1>2, <3>4, WrittenIs DEF Accepted, LocAt
        <4> QED
          BY <1>2, <3>4, <4>1 DEF Alike, Refs
      <3> QED
        BY <1>2, <3>1, <3>2, <3>3, <3>4
    <2> QED
      BY <2>1, <2>2
  <1>9. loc[r].op \in {"create", "edit"} \/ x = row[i] \/ x = NoRow
    BY <1>2, <1>3
  <1>10. OneCurrentYear'
    BY <1>2, <1>3, <1>9, NoRowShape DEF OneCurrentYear, CurrentFree, Current, Alike
  <1>11. TeachersDistinct'
    BY <1>2, <1>3, <1>9, NoRowShape DEF TeachersDistinct, TeacherFree, LiveOf, Live, Exists, Alike
  <1>12. OneHolder'
    <2>1. ASSUME NEW j \in Ids, NEW y, y = row'[j], y.kind = "assignment"
          PROVE  /\ Slot(y)' = Slot(y)
                 /\ \A p \in y.of : row'[p].kind = "subject" <=> row[p].kind = "subject"
                 /\ \/ j = i /\ loc[r].op \in {"create", "edit"} /\ y = x
                    \/ Alike(y, row[j])
      <3>1. Refs(y) /\ y.of \in SUBSET Ids
        BY <1>8, <2>1
      <3>2. Alike(row[j], row[j])
        BY DEF Alike
      <3>3. j = i => y = x /\ (loc[r].op \in {"create", "edit"} \/ Alike(y, row[j]))
        BY <1>2, <1>9, <2>1, <3>2, NoRowShape
      <3>4. j # i => Alike(y, row[j])
        BY <1>2, <2>1
      <3> QED
        BY <2>1, <3>1, <3>3, <3>4, SlotStays
    <2>2. SUFFICES ASSUME NEW j \in Ids, NEW k \in Ids, j # k,
                          (/\ row[j].kind = "assignment" /\ row[k].kind = "assignment"
                           /\ Clash(row[j], row[k])
                           /\ row[j].tag = "SUBJECT_TEACHER" => \E p \in row[j].of : row[p].kind = "subject")'
                   PROVE  FALSE
      BY DEF OneHolder
    <2>3. PICK y, z : y = row'[j] /\ z = row'[k]
      OBVIOUS
    <2>4. /\ y.kind = "assignment" /\ z.kind = "assignment"
          /\ y.on /\ z.on /\ y.tag = z.tag /\ y.tag # "OTHER" /\ Slot(y)' = Slot(z)'
          /\ y.tag = "SUBJECT_TEACHER" => \E p \in y.of : row'[p].kind = "subject"
      BY <2>2, <2>3 DEF Clash, Slot
    <2>5. /\ \/ j = i /\ loc[r].op \in {"create", "edit"} /\ y = x
             \/ Alike(y, row[j])
          /\ \/ k = i /\ loc[r].op \in {"create", "edit"} /\ z = x
             \/ Alike(z, row[k])
          /\ Slot(y) = Slot(z)
          /\ y.tag = "SUBJECT_TEACHER" => \E p \in y.of : row[p].kind = "subject"
      BY <2>1, <2>3, <2>4
    <2>6. z.tag = "SUBJECT_TEACHER" => \E p \in z.of : row[p].kind = "subject"
      BY <2>4, <2>5 DEF Slot
    <2>7. ASSUME NEW u, NEW v, Alike(u, v), u.kind = "assignment", u.on
          PROVE  /\ v.kind = "assignment" /\ v.on /\ v.tag = u.tag /\ v.of = u.of
                 /\ Slot(v) = Slot(u)
      BY <2>7 DEF Alike, Slot
    <2>8. CASE Alike(y, row[j]) /\ Alike(z, row[k])
      <3>1. /\ row[j].kind = "assignment" /\ row[j].on /\ row[j].tag = y.tag /\ row[j].of = y.of
            /\ Slot(row[j]) = Slot(y)
        BY <2>4, <2>7, <2>8
      <3>2. /\ row[k].kind = "assignment" /\ row[k].on /\ row[k].tag = z.tag /\ row[k].of = z.of
            /\ Slot(row[k]) = Slot(z)
        BY <2>4, <2>7, <2>8
      <3>3. Clash(row[j], row[k])
        BY <2>4, <2>5, <3>1, <3>2 DEF Clash
      <3> QED
        BY <1>2, <2>2, <2>5, <3>1, <3>2, <3>3 DEF OneHolder
    <2>9. CASE j = i /\ loc[r].op \in {"create", "edit"} /\ y = x /\ Alike(z, row[k])
      <3>1. /\ row[k].kind = "assignment" /\ row[k].on /\ row[k].tag = z.tag
            /\ Slot(row[k]) = Slot(z)
        BY <2>4, <2>7, <2>9
      <3>2. SlotFree(i, x) /\ k \in Ids \ {i} /\ Exists(k) /\ Clash(row[k], x)
        BY <1>3, <2>2, <2>4, <2>5, <2>9, <3>1 DEF Exists, Clash
      <3> QED
        BY <2>4, <2>5, <2>9, <3>2 DEF SlotFree
    <2>10. CASE k = i /\ loc[r].op \in {"create", "edit"} /\ z = x /\ Alike(y, row[j])
      <3>1. /\ row[j].kind = "assignment" /\ row[j].on /\ row[j].tag = y.tag
            /\ Slot(row[j]) = Slot(y)
        BY <2>4, <2>7, <2>10
      <3>2. SlotFree(i, x) /\ j \in Ids \ {i} /\ Exists(j) /\ Clash(row[j], x)
        BY <1>3, <2>2, <2>4, <2>5, <2>10, <3>1 DEF Exists, Clash
      <3> QED
        BY <2>4, <2>6, <2>10, <3>2 DEF SlotFree
    <2> QED
      BY <2>2, <2>5, <2>8, <2>9, <2>10
  <1> QED
    BY <1>5, <1>6, <1>10, <1>11, <1>12, RowsAfter DEF IInv

-----------------------------------------------------------------------------
(* The invariant                                                           *)

LEMMA InitInv ==
  Init => IInv
  <1> SUFFICES ASSUME Init PROVE IInv
    OBVIOUS
  <1>1. /\ \A i \in Seeds : row[i] = SeedRow[i] /\ i \in Ids
        /\ \A i \in Ids \ Seeds : row[i] = NoRow
        /\ \A q \in Reqs : row[q] = NoRow
    BY Named DEF Init, Ids
  <1>2. CtlOK
    BY NoLocalType DEF Init, CtlOK
  <1>3. RowsOK
    <2>1. row \in [Ids -> Row(Kinds, Tags) \cup {NoRow}]
      BY <1>1, SeedsFit DEF Init
    <2>2. ASSUME NEW i \in Ids
          PROVE  Shape(row[i]) /\ Refs(row[i])
      <3>1. CASE i \in Seeds
        BY <1>1, <3>1, SeedsFit DEF Shape, Refs, Posts
      <3>2. CASE i \notin Seeds
        BY <1>1, <3>2, NoRowShape DEF Refs
      <3> QED
        BY <3>1, <3>2
    <2> QED
      BY <2>1, <2>2 DEF RowsOK
  <1>4. \A q \in Reqs : At(q)
    BY <1>1 DEF Init, At, LocAt, MadeAt
  <1>5. \A i \in Ids : row[i].kind # "none" => i \in Seeds
    BY <1>1, NoRowShape
  <1>6. OneCurrentYear
    BY <1>1, <1>5, SeedsDistinct DEF OneCurrentYear
  <1>7. TeachersDistinct
    BY <1>1, <1>5, SeedsDistinct DEF TeachersDistinct, LiveOf, Live, Exists
  <1>8. OneHolder
    <2>1. SUFFICES ASSUME NEW i \in Ids, NEW j \in Ids,
                          row[i].kind = "assignment", row[j].kind = "assignment",
                          Clash(row[i], row[j]),
                          row[i].tag = "SUBJECT_TEACHER" => \E p \in row[i].of : row[p].kind = "subject"
                   PROVE  i = j
      BY DEF OneHolder
    <2>2. /\ i \in Seeds /\ j \in Seeds /\ row[i] = SeedRow[i] /\ row[j] = SeedRow[j]
          /\ SeedRow[i].of \subseteq Seeds /\ SeedRow[j].of \subseteq Seeds
          /\ SeedRow[i].kind = "assignment" /\ SeedRow[j].kind = "assignment"
      BY <1>1, <1>5, <2>1, SeedsFit
    <2>3. \A p \in Seeds : row[p].kind = SeedRow[p].kind
      BY <1>1
    <2>5. SeedRow[i].tag \in Roles /\ SeedRow[i].on /\ SeedRow[j].on /\ SeedRow[i].tag = SeedRow[j].tag
          /\ SeedRow[i].tag # "OTHER" /\ Slot(row[i]) = Slot(row[j])
      BY <2>1, <2>2, SeedsFit DEF Clash
    <2>6. SeedsOf(i, {"cohort", "year"}) = SeedsOf(j, {"cohort", "year"})
      BY <2>2, <2>3, <2>5 DEF SeedsOf, Slot
    <2>7. SeedRow[i].tag = "SUBJECT_TEACHER" =>
            /\ SeedsOf(i, {"subject"}) = SeedsOf(j, {"subject"})
            /\ SeedsOf(i, {"subject"}) # {}
      BY <2>1, <2>2, <2>3, <2>5 DEF SeedsOf, Slot
    <2> QED
      <3>1. SeedRow[i].tag = "CLASS_TEACHER" \/ SeedRow[i].tag = "SUBJECT_TEACHER"
        BY <2>5 DEF Roles
      <3>2. ~(SeedRow[i].kind # "assignment")
        BY <2>2
      <3> QED
        BY <2>2, <2>5, <2>6, <2>7, <3>1, <3>2, SeedsDistinct
  <1> QED
    BY <1>2, <1>3, <1>4, <1>6, <1>7, <1>8 DEF IInv

LEMMA StepInv ==
  ASSUME IInv, NEW r \in Reqs, Step(r)
  PROVE  IInv'
  <1>1. CASE \E code \in Codes, d \in Dates, current \in BOOLEAN : CreateYear(r, code, d, current)
    BY <1>1, CreateYearStep
  <1>2. CASE \E code \in Codes, y \in Of("year"), d \in Dates : CreateTerm(r, y, code, d)
    BY <1>2, CreateTermStep
  <1>3. CASE \E code \in Codes : CreateClass(r, code) \/ CreateSubject(r, code)
    BY <1>3, CreatePlainStep DEF CreateClass, CreateSubject
  <1>4. CASE \E code \in Codes, y \in Of("year"), c \in Of("class") : CreateCohort(r, y, c, code)
    BY <1>4, CreateCohortStep
  <1>5. CASE \E c \in Of("class"), s \in Of("subject"), y \in Of("year") : CreateClassSubject(r, c, s, y)
    BY <1>5, CreateClassSubjectStep
  <1>6. CASE \E i \in Ids, d \in Dates, flag \in {"set", "clear", "absent"} : EditYear(r, i, d, flag)
    BY <1>6, EditYearStep
  <1>7. CASE \E i \in Ids, d \in Dates : EditTerm(r, i, d)
    BY <1>7, EditTermStep
  <1>8. CASE \E i \in Ids : EditClass(r, i) \/ EditSubject(r, i) \/ EditCohort(r, i)
    <2>1. PICK i \in Ids, kind \in {"class", "subject", "cohort"} : EditOf(r, kind, i)
      BY <1>8 DEF EditClass, EditSubject, EditCohort
    <2>2. Fixed(kind) /\ kind # "term"
      BY DEF Fixed
    <2> QED
      BY <2>1, <2>2, AskingSame
  <1>9. CASE \E i \in Ids : \/ DeleteYear(r, i) \/ DeleteTerm(r, i) \/ DeleteClass(r, i)
                          \/ DeleteSubject(r, i) \/ DeleteCohort(r, i) \/ DeletePerson(r, i)
                          \/ DeleteTeacher(r, i)
    <2>1. PICK i \in Ids, kind \in Coded \cup {"person", "teacher"} : DeleteOf(r, kind, i)
      BY <1>9 DEF DeleteYear, DeleteTerm, DeleteClass, DeleteSubject, DeleteCohort, DeletePerson,
                  DeleteTeacher, Coded
    <2>2. Fixed(kind) /\ i \in LiveOf(kind) /\ AskDelete(r, i)
      BY <2>1 DEF Fixed, Coded, DeleteOf
    <2> QED
      BY <2>2, AskingDelete
  <1>10. CASE \E i \in Ids : RemoveClassSubject(r, i)
    BY <1>10, AskingRemove
  <1>11. CASE \E i \in Ids, n \in Numbers \cup {None} : CreateTeacher(r, i, n) \/ EditTeacher(r, i, n)
    BY <1>11, CreateTeacherStep, EditTeacherStep
  <1>12. CASE \E i \in Ids : EndAssignment(r, i) \/ \E active \in BOOLEAN : EditAssignment(r, i, active)
    <2>1. PICK i \in Ids, active \in BOOLEAN : EditAssignment(r, i, active)
      BY <1>12 DEF EndAssignment, EditAssignment
    <2> QED
      BY <2>1, EditAssignmentStep
  <1>13. CASE \E t \in Of("teacher"), c \in Of("cohort"), y \in Of("year"),
                s \in {{}} \cup {{i} : i \in Of("subject")}, ro \in Roles : Assign(r, t, c, y, s, ro)
    BY <1>13, AssignStep
  <1>14. CASE Write(r)
    BY <1>14, WriteIs, Ending, WriteStep
  <1>15. CASE Refuse(r) \/ Abort(r)
    BY <1>15, Ending DEF Refuse, Abort
  <1> QED
    BY <1>1, <1>2, <1>3, <1>4, <1>5, <1>6, <1>7, <1>8, <1>9, <1>10, <1>11, <1>12, <1>13, <1>14, <1>15
       DEF Step

LEMMA NextInv ==
  IInv /\ [Next]_vars => IInv'
  <1>1. ASSUME IInv, UNCHANGED vars
        PROVE  IInv'
    <2>1. /\ row' = row /\ pc' = pc /\ loc' = loc /\ raced' = raced /\ out' = out
      BY <1>1 DEF vars
    <2>2. \A q \in Reqs : At(q)'
      BY <1>1, <2>1 DEF IInv, At, LocAt, MadeAt, Checked, Shape, Refs, Live, Exists, CodeTaken, LiveOf,
                        Alike
    <2>3. CtlOK' /\ RowsOK'
      BY <1>1, <2>1 DEF IInv, CtlOK, RowsOK, Shape, Refs
    <2>4. OneCurrentYear' /\ OneHolder' /\ TeachersDistinct'
      BY <1>1, <2>1 DEF IInv, OneCurrentYear, OneHolder, Clash, Slot, TeachersDistinct, LiveOf, Live, Exists
    <2> QED
      BY <2>2, <2>3, <2>4 DEF IInv
  <1> QED
    BY <1>1, StepInv DEF Next

(* The records and the requests are well formed; what a request is about   *)
(* to write is what it looked up, as long as nobody else has committed.    *)
THEOREM InductiveInvariant == Spec => []IInv
  BY InitInv, NextInv, PTL DEF Spec

(* Codes, numbers and roles are on the records that have them, and a term  *)
(* refers to a year (TypeOK).                                              *)
THEOREM TypeInvariant == Spec => []TypeOK
  <1>1. IInv => TypeOK
    BY Joined DEF IInv
  <1> QED
    BY <1>1, InductiveInvariant, PTL

(* A school has one current year (OneCurrentYear), by the partial unique   *)
(* index and not by unset_current.                                         *)
THEOREM OneCurrentYearTheorem == Spec => []OneCurrentYear
  <1>1. IInv => OneCurrentYear
    BY DEF IInv
  <1> QED
    BY <1>1, InductiveInvariant, PTL

(* Nobody shares the post of class teacher of a cohort in a year, or that  *)
(* of its teacher of a subject (OneHolder).                                *)
THEOREM OneHolderTheorem == Spec => []OneHolder
  <1>1. IInv => OneHolder
    BY DEF IInv
  <1> QED
    BY <1>1, InductiveInvariant, PTL

(* A person is one teacher at most, and an employee number stands for one  *)
(* of those not deleted (TeachersDistinct).                                *)
THEOREM TeachersDistinctTheorem == Spec => []TeachersDistinct
  <1>1. IInv => TeachersDistinct
    BY DEF IInv
  <1> QED
    BY <1>1, InductiveInvariant, PTL

-----------------------------------------------------------------------------
(* Steps                                                                   *)

(* Only a write changes the records. *)
LEMMA OnlyWrites ==
  ASSUME IInv, [Next]_vars
  PROVE  row' = row \/ \E r \in Reqs : Accepted(r)
  <1>1. CASE UNCHANGED vars
    BY <1>1 DEF vars
  <1>2. ASSUME NEW r \in Reqs, Step(r)
        PROVE  row' = row \/ Accepted(r)
    <2>1. \A at, op, i, old, new, hit : AskAt(r, at, op, i, old, new, hit) => row' = row
      BY DEF AskAt
    <2>2. \A i, x, hit : AskUpdate(r, "write", i, x, hit) => row' = row
      BY <2>1 DEF AskUpdate
    <2>3. \A i, x : AskEdit(r, i, x) => row' = row
      BY <2>2 DEF AskEdit
    <2>4. /\ \A x : AskCreate(r, x) => row' = row
          /\ \A i : (AskDelete(r, i) => row' = row) /\ (AskRemove(r, i) => row' = row)
      BY <2>1, <2>3 DEF AskCreate, AskDelete, AskRemove, Ask
    <2>5. Write(r) \/ row' = row
      BY <1>2, <2>1, <2>2, <2>3, <2>4
         DEF Step, CreateYear, CreateTerm, CreateClass, CreateSubject, CreatePlain, CreateCohort,
         CreateClassSubject, EditYear, EditTerm, EditClass, EditSubject, EditCohort, EditOf, DeleteYear,
         DeleteTerm, DeleteClass, DeleteSubject, DeleteCohort, DeleteOf, RemoveClassSubject, DeletePerson,
         DeleteTeacher, EndAssignment, CreateTeacher, EditTeacher, EditAssignment, Assign, Refuse, Abort
    <2> QED
      BY <1>2, <2>5, WriteIs
  <1> QED
    BY <1>1, <1>2 DEF Next

(* What Sound says in the next state, of a record that becomes x *)
LEMMA SoundAfter ==
  ASSUME NEW i \in Ids, NEW x, x = row'[i],
         ~x.deleted => \A p \in x.of :
           (row'[p].kind # "none" /\ ~row'[p].deleted) \/ (x.kind = "assignment" /\ row'[p].kind = "subject"),
         ~x.deleted /\ x.kind = "term" =>
           \E y \in Ids : x.of = {y} /\ row'[y].kind = "year" /\ Within(x.val, row'[y].val),
         ~x.deleted /\ x.kind \in Coded => \A j \in Ids \ {i} :
           row'[j].kind = x.kind /\ ~row'[j].deleted /\ row'[j].of = x.of =>
             Lower[row'[j].tag] # Lower[x.tag]
  PROVE  Sound(i)'
  <1>1. SUFFICES ASSUME ~x.deleted PROVE Sound(i)'
    BY DEF Sound, Live
  <1>2. x.kind = "term" => Within(x.val, row'[Parent(i, "year")'].val)
    <2>1. SUFFICES ASSUME x.kind = "term" PROVE Within(x.val, row'[Parent(i, "year")'].val)
      OBVIOUS
    <2>2. PICK y \in Ids : x.of = {y} /\ row'[y].kind = "year" /\ Within(x.val, row'[y].val)
      BY <1>1, <2>1
    <2>3. Parent(i, "year")' = y
      BY <2>2 DEF Parent
    <2> QED
      BY <2>2, <2>3
  <1> QED
    BY <1>1, <1>2 DEF Sound, Live, Exists, LiveOf, Within

(* Soundness of the record a request writes *)
LEMMA OwnSound ==
  ASSUME IInv, NEW r \in Reqs, Accepted(r), ~raced[r],
         NEW i, i = loc[r].id, NEW x, x = loc[r].new, Sound(i), i \notin row[i].of
  PROVE  Sound(i)'
  <1>1. /\ RowsOK /\ LocAt(r) /\ pc[r] = "write" /\ row[r] = NoRow /\ i \in Ids
        /\ row'[i] = x /\ \A j \in Ids : j # i => Alike(row'[j], row[j])
        /\ loc[r].op = "create" => i = r
        /\ loc[r].op \in {"create", "edit", "keep", "remove"} /\ Checked(r)
    <2>1. /\ RowsOK /\ LocAt(r) /\ pc[r] = "write" /\ row[r] = NoRow /\ i \in Ids
          /\ row'[i] = Written(r) /\ \A j \in Ids : j # i => Alike(row'[j], row[j])
          /\ loc[r].op = "create" => i = r
          /\ loc[r].op \in {"create", "edit", "keep", "remove"}
      BY AcceptedIs
    <2>2. Written(r) = x
      BY <2>1, WrittenIs DEF Accepted
    <2>3. Checked(r)
      BY <2>1 DEF LocAt
    <2> QED
      BY <2>1, <2>2, <2>3
  <1>2. CASE loc[r].op = "remove"
    BY <1>1, <1>2, NoRowShape DEF Sound, Live, Exists, LocAt
  <1>3. ASSUME loc[r].op # "remove"
        PROVE  x \in Row(Kinds, Tags) /\ Refs(x) /\ x.of \in SUBSET Ids
    BY <1>1, <1>3, RowFields DEF LocAt
  <1>4. loc[r].op # "remove" /\ x.kind = "term" =>
          \E y \in Ids : x.of = {y} /\ y # i /\ row[y].kind = "year"
    <2>1. loc[r].op = "create" => row[i].kind # "year"
      BY <1>1, NoRowShape
    <2>2. loc[r].op \in {"edit", "keep"} => row[i].kind = x.kind
      BY <1>1 DEF LocAt
    <2> QED
      BY <1>1, <1>3, <2>1, <2>2 DEF Refs
  <1>5. CASE loc[r].op = "create"
    <2>1. row[i] = NoRow /\ ~Live(i)
      BY <1>1, <1>5, NoRowShape DEF Live, Exists
    <2>2. /\ \A p \in x.of : Live(p) \/ (x.kind = "assignment" /\ row[p].kind = "subject")
          /\ x.kind = "term" => \A y \in Ids : x.of = {y} => Within(x.val, row[y].val)
          /\ x.kind \in Coded => ~CodeTaken(x)
      BY <1>1, <1>5 DEF Checked
    <2>3. \A p \in x.of : Alike(row'[p], row[p])
      BY <1>1, <1>3, <1>5, <2>1, <2>2, NoRowShape
    <2>4. \A p \in x.of : (row'[p].kind # "none" /\ ~row'[p].deleted)
                          \/ (x.kind = "assignment" /\ row'[p].kind = "subject")
      BY <2>2, <2>3 DEF Live, Exists, Alike
    <2>5. x.kind = "term" =>
            \E y \in Ids : x.of = {y} /\ row'[y].kind = "year" /\ Within(x.val, row'[y].val)
      BY <1>1, <1>4, <1>5, <2>2 DEF Alike
    <2>6. x.kind \in Coded => \A j \in Ids \ {i} :
            row'[j].kind = x.kind /\ ~row'[j].deleted /\ row'[j].of = x.of =>
              Lower[row'[j].tag] # Lower[x.tag]
      <3>1. "none" \notin Coded
        BY DEF Coded
      <3> QED
        BY <1>1, <2>2, <3>1 DEF CodeTaken, LiveOf, Live, Exists, Alike
    <2> QED
      BY <1>1, <2>4, <2>5, <2>6, SoundAfter
  <1>6. CASE loc[r].op \in {"edit", "keep"}
    <2>1. /\ Live(i) /\ x.of = row[i].of /\ (x.kind \in Coded => x.tag = row[i].tag)
          /\ x.kind = "term" /\ ~x.deleted =>
               \A y \in Ids : x.of = {y} => Within(x.val, row[y].val)
          /\ x.kind = row[i].kind
      BY <1>1, <1>6 DEF Checked, LocAt
    <2>2. /\ \A p \in x.of : Live(p) \/ (x.kind = "assignment" /\ row[p].kind = "subject")
          /\ x.kind \in Coded =>
               ~\E j \in LiveOf(x.kind) \ {i} : row[j].of = x.of /\ Lower[row[j].tag] = Lower[x.tag]
      BY <2>1 DEF Sound
    <2>3. \A p \in x.of : Alike(row'[p], row[p])
      BY <1>1, <1>3, <1>6, <2>1
    <2>4. \A p \in x.of : (row'[p].kind # "none" /\ ~row'[p].deleted)
                          \/ (x.kind = "assignment" /\ row'[p].kind = "subject")
      BY <2>2, <2>3 DEF Live, Exists, Alike
    <2>5. ~x.deleted /\ x.kind = "term" =>
            \E y \in Ids : x.of = {y} /\ row'[y].kind = "year" /\ Within(x.val, row'[y].val)
      BY <1>1, <1>4, <1>6, <2>1 DEF Alike
    <2>6. x.kind \in Coded => \A j \in Ids \ {i} :
            row'[j].kind = x.kind /\ ~row'[j].deleted /\ row'[j].of = x.of =>
              Lower[row'[j].tag] # Lower[x.tag]
      <3>1. "none" \notin Coded
        BY DEF Coded
      <3> QED
        BY <1>1, <2>2, <3>1 DEF LiveOf, Live, Exists, Alike
    <2> QED
      BY <1>1, <2>4, <2>5, <2>6, SoundAfter
  <1> QED
    BY <1>1, <1>2, <1>5, <1>6

(* Soundness of a record which does not refer to the written one *)
LEMMA OtherSound ==
  ASSUME IInv, NEW r \in Reqs, Accepted(r), ~raced[r], NEW i \in Ids, i # loc[r].id, Sound(i),
         loc[r].id \notin row[i].of
  PROVE  Sound(i)'
  <1>1. PICK w, x, y : w = loc[r].id /\ x = loc[r].new /\ y = row'[i]
    OBVIOUS
  <1>2. /\ RowsOK /\ LocAt(r) /\ pc[r] = "write" /\ w \in Ids
        /\ row'[w] = x /\ Alike(y, row[i]) /\ \A j \in Ids : j # w => Alike(row'[j], row[j])
        /\ loc[r].op \in {"create", "edit", "keep", "remove"} /\ Checked(r)
    <2>1. /\ RowsOK /\ LocAt(r) /\ pc[r] = "write" /\ w \in Ids
          /\ row'[w] = Written(r) /\ \A j \in Ids : j # w => Alike(row'[j], row[j])
          /\ loc[r].op \in {"create", "edit", "keep", "remove"}
      BY <1>1, AcceptedIs
    <2>2. Written(r) = x
      BY <1>1, <2>1, WrittenIs DEF Accepted
    <2>3. Checked(r)
      BY <2>1 DEF LocAt
    <2> QED
      BY <1>1, <2>1, <2>2, <2>3
  <1>3. CASE ~Live(i)
    BY <1>1, <1>2, <1>3 DEF Sound, Live, Exists, Alike
  <1>4. CASE Live(i)
    <2>1. /\ row[i] \in Row(Kinds, Tags) /\ Refs(row[i]) /\ row[i].of \in SUBSET Ids
      BY <1>2, <1>4, RowIs, RowFields DEF Live, Exists, RowsOK
    <2>2. /\ y.kind = row[i].kind /\ y.of = row[i].of /\ y.tag = row[i].tag /\ y.val = row[i].val
          /\ ~y.deleted
      BY <1>2, <1>4 DEF Alike, Live
    <2>3. \A p \in row[i].of : Alike(row'[p], row[p])
      BY <1>1, <1>2, <2>1
    <2>4. \A p \in y.of : (row'[p].kind # "none" /\ ~row'[p].deleted)
                          \/ (y.kind = "assignment" /\ row'[p].kind = "subject")
      BY <1>4, <2>2, <2>3 DEF Sound, Live, Exists, Alike
    <2>5. y.kind = "term" =>
            \E z \in Ids : y.of = {z} /\ row'[z].kind = "year" /\ Within(y.val, row'[z].val)
      <3>1. SUFFICES ASSUME row[i].kind = "term"
                     PROVE  \E z \in Ids : /\ row[i].of = {z} /\ row'[z].kind = "year"
                                           /\ Within(row[i].val, row'[z].val)
        BY <2>2
      <3>2. PICK z \in Ids : row[i].of = {z} /\ row[z].kind = "year"
        BY <2>1, <3>1 DEF Refs
      <3>3. Within(row[i].val, row[z].val)
        BY <1>4, <3>1, <3>2, ParentIs DEF Sound
      <3> QED
        BY <2>3, <3>2, <3>3 DEF Alike
    <2>6. row[i].kind \in Coded =>
            ~\E j \in LiveOf(row[i].kind) \ {i} : /\ row[j].of = row[i].of
                                                  /\ Lower[row[j].tag] = Lower[row[i].tag]
      BY <1>4 DEF Sound
    <2>7. y.kind \in Coded => \A j \in Ids \ {i} :
            row'[j].kind = y.kind /\ ~row'[j].deleted /\ row'[j].of = y.of =>
              Lower[row'[j].tag] # Lower[y.tag]
      <3>1. SUFFICES ASSUME row[i].kind \in Coded, NEW j \in Ids \ {i},
                            row'[j].kind = row[i].kind, ~row'[j].deleted, row'[j].of = row[i].of,
                            Lower[row'[j].tag] = Lower[row[i].tag]
                     PROVE  FALSE
        BY <2>2
      <3>2. row[i].kind # "none"
        BY <1>4 DEF Live, Exists
      <3>3. CASE j # w
        BY <1>2, <2>6, <3>1, <3>2, <3>3 DEF LiveOf, Live, Exists, Alike
      <3>4. CASE j = w /\ loc[r].op = "create"
        <4>1. ~CodeTaken(x) /\ row'[j] = x
          BY <1>1, <1>2, <3>1, <3>4 DEF Checked
        <4> QED
          BY <1>4, <3>1, <4>1 DEF CodeTaken, LiveOf
      <3>5. CASE j = w /\ loc[r].op \in {"edit", "keep"}
        <4>1. /\ Live(j) /\ row'[j].of = row[j].of /\ row'[j].tag = row[j].tag
              /\ row'[j].kind = row[j].kind
          BY <1>1, <1>2, <3>1, <3>5 DEF Checked, LocAt
        <4> QED
          BY <2>6, <3>1, <4>1 DEF LiveOf
      <3>6. CASE j = w /\ loc[r].op = "remove"
        BY <1>1, <1>2, <3>1, <3>2, <3>6, NoRowShape DEF LocAt
      <3> QED
        BY <1>2, <3>3, <3>4, <3>5, <3>6
    <2> QED
      BY <1>1, <2>4, <2>5, <2>7, SoundAfter
  <1> QED
    BY <1>3, <1>4

(* A record becomes unsound only when one that it builds on is written, or *)
(* by a request that somebody has overtaken (UnsoundOnlyByRace).           *)
THEOREM UnsoundOnlyByRaceTheorem == Spec => UnsoundOnlyByRace
  <1>1. ASSUME IInv, [Next]_vars, NEW i \in Ids, Sound(i), ~Sound(i)'
        PROVE  \E r \in Reqs : /\ pc[r] = "write" /\ pc'[r] = "done"
                               /\ raced[r] \/ loc[r].id \in row[i].of
    <2>1. row' # row
      BY <1>1 DEF Sound, Live, Exists, LiveOf, Parent, Within
    <2>2. PICK r \in Reqs : Accepted(r)
      BY <1>1, <2>1, OnlyWrites
    <2>3. pc[r] = "write" /\ pc'[r] = "done"
      BY <1>1, <2>2, AcceptedIs DEF Accepted, Finish, CtlOK
    <2>4. raced[r] \/ loc[r].id \in row[i].of
      BY <1>1, <2>2, OwnSound, OtherSound
    <2> QED
      BY <2>3, <2>4
  <1>2. IInv /\ [Next]_vars =>
          [\A i \in Ids : Sound(i) /\ ~Sound(i)' =>
             \E r \in Reqs : pc[r] = "write" /\ pc'[r] = "done" /\ (raced[r] \/ loc[r].id \in row[i].of)]_vars
    BY <1>1
  <1> QED
    BY <1>2, InductiveInvariant, PTL DEF Spec, UnsoundOnlyByRace

-----------------------------------------------------------------------------
(* The current year of a school stops being it only by an edit or deletion *)
(* of the row as it is, or by a request that repeats the flag of a year    *)
(* which has lost it (FlagTakenOnlyByRace).                                *)
THEOREM FlagTakenOnlyByRaceTheorem == Spec => FlagTakenOnlyByRace
  <1>1. ASSUME IInv, [Next]_vars, NEW j \in Ids, Current(row[j]), ~Current(row'[j])
        PROVE  \E r \in Reqs :
                 /\ pc[r] = "write" /\ out'[r] = "written"
                 /\ \/ loc[r].id = j /\ loc[r].row = row[j]
                    \/ raced[r] /\ loc[r].row.on /\ ~Current(row[loc[r].id])
    <2>1. PICK r \in Reqs : Accepted(r)
      BY <1>1, OnlyWrites
    <2>2. PICK i, x, w, y, hit : /\ i = loc[r].id /\ x = loc[r].new /\ w = loc[r].row
                                /\ y = Written(r) /\ hit = loc[r].hit
      OBVIOUS
    <2>3. /\ CtlOK /\ RowsOK /\ LocAt(r) /\ pc[r] = "write" /\ row[r] = NoRow /\ i \in Ids
          /\ row'[i] = y
          /\ \A k \in Ids : k # i => row'[k] = row[k] \/ k \in hit
          /\ loc[r].op = "create" => i = r
          /\ loc[r].op \in {"create", "edit", "keep", "remove"}
      BY <1>1, <2>1, <2>2, AcceptedIs
    <2>4. out'[r] = "written"
      BY <2>1, <2>3 DEF Accepted, Finish, CtlOK
    <2>5. row[j] \in Row(Kinds, Tags) /\ row[j].kind = "year" /\ row[j].on /\ ~row[j].deleted
      BY <1>1, <2>3, RowIs DEF Current
    <2>6. ASSUME j = i
          PROVE  w = row[j]
      <3>1. loc[r].op = "edit"
        <4>1. loc[r].op # "create"
          BY <2>3, <2>5, <2>6, NoRowShape
        <4>2. loc[r].op # "remove"
          BY <2>2, <2>3, <2>5, <2>6 DEF LocAt, Fixed
        <4>3. loc[r].op # "keep"
          BY <1>1, <2>1, <2>2, <2>3, <2>6, WrittenIs DEF Accepted
        <4> QED
          BY <2>3, <4>1, <4>2, <4>3
      <3>2. w \in Row(Kinds, Tags) /\ Alike(row[j], w) /\ (row[j].on => w.on)
        BY <2>1, <2>2, <2>3, <2>6, <3>1 DEF LocAt, Accepted, Fresh
      <3>3. w.on = row[j].on
        BY <2>5, <3>2, RowFields
      <3>4. /\ w.kind = row[j].kind /\ w.of = row[j].of /\ w.tag = row[j].tag
            /\ w.val = row[j].val /\ w.deleted = row[j].deleted /\ w.version = row[j].version
        BY <3>2 DEF Alike
      <3>5. PICK z \in Row(Kinds, Tags) : z = row[j]
        BY <2>5
      <3>6. w = z
        BY <3>2, <3>3, <3>4, <3>5 DEF Row
      <3> QED
        BY <3>5, <3>6
    <2>7. ASSUME j # i
          PROVE  raced[r] /\ w.on /\ ~Current(row[i])
      <3>1. j \in hit
        BY <1>1, <2>3, <2>7
      <3>2. /\ loc[r].op \in {"create", "edit", "keep"}
            /\ x.kind = "year" /\ x.on /\ ~x.deleted
        BY <2>2, <2>3, <3>1 DEF LocAt
      <3>3. loc[r].op \in {"create", "edit"} => ~Current(y)
        BY <1>1, <2>1, <2>2, <2>7 DEF Accepted, CurrentFree
      <3>4. ~Current(row[i])
        BY <1>1, <2>3, <2>7 DEF IInv, OneCurrentYear, Current
      <3>5. loc[r].op # "create"
        BY <1>1, <2>1, <2>2, <2>3, <3>2, <3>3, WrittenIs DEF Accepted, Current
      <3>6. w.on
        <4>1. CASE loc[r].op = "keep"
          BY <2>2, <2>3, <3>2, <4>1 DEF LocAt
        <4>2. CASE loc[r].op = "edit"
          <5>1. /\ Alike(y, x) /\ y.on = IF x.on = w.on THEN row[i].on ELSE x.on
            BY <1>1, <2>1, <2>2, <2>3, <4>2, WrittenIs DEF Accepted
          <5>2. ~y.on
            BY <3>2, <3>3, <4>2, <5>1 DEF Current, Alike
          <5> QED
            BY <3>2, <5>1, <5>2
        <4> QED
          BY <3>2, <3>5, <4>1, <4>2
      <3>7. raced[r]
        <4>1. SUFFICES ASSUME ~raced[r] PROVE FALSE
          OBVIOUS
        <4>2. w = row[i] /\ y = x
          BY <1>1, <2>1, <2>2, <2>3, <3>2, <3>5, <4>1, WrittenIs DEF LocAt, Checked, Accepted
        <4>3. CASE loc[r].op = "keep"
          BY <2>2, <2>3, <3>2, <3>4, <4>2, <4>3 DEF LocAt, Current
        <4>4. CASE loc[r].op = "edit"
          BY <3>2, <3>3, <4>2, <4>4 DEF Current
        <4> QED
          BY <3>2, <3>5, <4>3, <4>4
      <3> QED
        BY <3>4, <3>6, <3>7
    <2> QED
      BY <2>2, <2>3, <2>4, <2>6, <2>7
  <1>2. IInv /\ [Next]_vars =>
          [\A j \in Ids : Current(row[j]) /\ ~Current(row'[j]) =>
             \E r \in Reqs :
               /\ pc[r] = "write" /\ out'[r] = "written"
               /\ \/ loc[r].id = j /\ loc[r].row = row[j]
                  \/ raced[r] /\ loc[r].row.on /\ ~Current(row[loc[r].id])]_vars
    BY <1>1
  <1> QED
    BY <1>2, InductiveInvariant, PTL DEF Spec, FlagTakenOnlyByRace

-----------------------------------------------------------------------------
(* Refinement of VersionedRows                                             *)

LEMMA GuardedIs ==
  ASSUME NEW x \in Row(Kinds, Tags) \cup {NoRow}
  PROVE  /\ Guarded(x) \in Row(Kinds, Tags) \cup {NoRow}
         /\ Fixed(x.kind) => Guarded(x) # NoRow /\ Guarded(x).version = x.version
         /\ ~Fixed(x.kind) => Guarded(x) = NoRow
  <1>1. x.kind = "none" => x = NoRow
    BY RowFields
  <1>2. CASE x.kind = "class_subject"
    BY <1>2 DEF Guarded, Fixed
  <1>3. CASE x.kind = "year"
    <2>1. x \in Row(Kinds, Tags)
      BY <1>3, NoRowShape
    <2>2. PICK y : y = [x EXCEPT !.on = FALSE]
      OBVIOUS
    <2>3. y \in Row(Kinds, Tags) /\ y.version = x.version
      BY <2>1, <2>2 DEF Row
    <2>4. y # NoRow
      BY <2>3, RowFields
    <2>5. Guarded(x) = y
      BY <1>3, <2>2 DEF Guarded
    <2> QED
      BY <1>3, <2>3, <2>4, <2>5 DEF Fixed
  <1>4. CASE x.kind \notin {"class_subject", "year"}
    BY <1>1, <1>4, NoRowShape DEF Guarded, Fixed
  <1> QED
    BY <1>2, <1>3, <1>4

(* Rows that are alike differ in nothing that the version protects. *)
LEMMA AlikeIs ==
  ASSUME NEW x \in Row(Kinds, Tags) \cup {NoRow}, NEW y \in Row(Kinds, Tags) \cup {NoRow}, Alike(x, y)
  PROVE  Guarded(x) = Guarded(y)
  <1>1. CASE x.kind = "none"
    BY <1>1, RowFields DEF Alike
  <1>2. CASE x.kind = "class_subject"
    BY <1>2 DEF Alike, Guarded
  <1>3. CASE x.kind \notin {"none", "class_subject"}
    <2>1. x \in Row(Kinds, Tags) /\ y \in Row(Kinds, Tags)
      BY <1>3, NoRowShape DEF Alike
    <2>2. PICK u, v : u = [x EXCEPT !.on = FALSE] /\ v = [y EXCEPT !.on = FALSE]
      OBVIOUS
    <2>3. u = v
      BY <2>1, <2>2 DEF Row, Alike
    <2>4. x.kind # "year" => x = y
      BY <2>1 DEF Row, Alike
    <2> QED
      BY <1>3, <2>2, <2>3, <2>4 DEF Guarded, Alike
  <1> QED
    BY <1>1, <1>2, <1>3

(* A request refuses, aborts, writes or has looked up a record. *)
LEMMA Steps ==
  ASSUME NEW r \in Reqs, Step(r)
  PROVE  \/ Write(r) \/ Refuse(r) \/ Abort(r)
         \/ \E op \in {"create", "edit", "keep", "remove"} :
              \E i, old, new, hit : /\ AskAt(r, "write", op, i, old, new, hit)
                                    /\ op = "edit" => i \in Ids /\ old = row[i]
  <1>1. ASSUME NEW i \in Ids, NEW x, NEW hit, AskUpdate(r, "write", i, x, hit)
        PROVE  \E op \in {"create", "edit", "keep", "remove"} :
                 \E j, old, new, h : /\ AskAt(r, "write", op, j, old, new, h)
                                     /\ op = "edit" => j \in Ids /\ old = row[j]
    BY <1>1 DEF AskUpdate
  <1>2. \/ Write(r) \/ Refuse(r) \/ Abort(r)
        \/ \E x, hit : AskAt(r, "write", "create", r, NoRow, x, hit)
        \/ \E i \in Ids : AskAt(r, "write", "remove", i, row[i], NoRow, {})
        \/ \E i \in Ids : \E x, hit : AskUpdate(r, "write", i, x, hit)
    <2>1. \A x : AskCreate(r, x) => \E hit : AskAt(r, "write", "create", r, NoRow, x, hit)
      BY DEF AskCreate, Ask
    <2>2. \A i : AskRemove(r, i) => AskAt(r, "write", "remove", i, row[i], NoRow, {})
      BY DEF AskRemove, Ask
    <2>3. \A i, x : AskEdit(r, i, x) => \E y, hit : AskUpdate(r, "write", i, y, hit)
      BY DEF AskEdit
    <2>4. \A i : AskDelete(r, i) => \E y, hit : AskUpdate(r, "write", i, y, hit)
      BY <2>3 DEF AskDelete
    <2>5. ASSUME NEW i \in Ids, NEW d \in Dates, NEW flag, EditYear(r, i, d, flag)
          PROVE  \E y, hit : AskUpdate(r, "write", i, y, hit)
      BY <2>5 DEF EditYear
    <2>6. ASSUME NEW code \in Codes, NEW d \in Dates, NEW current, CreateYear(r, code, d, current)
          PROVE  \E x, hit : AskAt(r, "write", "create", r, NoRow, x, hit)
      BY <2>6 DEF CreateYear
    <2> QED
      BY <2>1, <2>2, <2>3, <2>4, <2>5, <2>6
         DEF Step, CreateTerm, CreateClass, CreateSubject, CreatePlain, CreateCohort,
       CreateClassSubject, EditTerm, EditClass, EditSubject, EditCohort, EditOf, DeleteYear,
       DeleteTerm, DeleteClass, DeleteSubject, DeleteCohort, DeleteOf, RemoveClassSubject, DeletePerson,
       DeleteTeacher, EndAssignment, CreateTeacher, EditTeacher, EditAssignment, Assign
  <1> QED
    BY <1>1, <1>2

(* A step that leaves the records alone drops what its request works on or *)
(* loads a record.                                                         *)
LEMMA Keeping ==
  ASSUME IInv, IInv', NEW r \in Reqs, row' = row, Step(r)
  PROVE  [Locking!VNext]_(Locking!vvars)
  <1>0. RowsOK /\ CtlOK
    BY DEF IInv
  <1>1. \A i \in Ids : Guarded(row[i])' = Guarded(row[i])
    BY DEF Guarded
  <1>2. ASSUME Copy(r)' = {}, \A q \in Reqs : q # r => Copy(q)' = Copy(q)
        PROVE  Locking!VNext
    BY <1>1, <1>2 DEF Locking!VForget, Locking!VNext
  <1>3. ASSUME NEW o, Finish(r, o)
        PROVE  Locking!VNext
    <2>1. /\ pc'[r] = "done" /\ \A q \in Reqs : q # r => pc'[q] = pc[q] /\ loc'[q] = loc[q]
      BY <1>0, <1>3 DEF Finish, CtlOK
    <2> QED
      BY <1>2, <2>1 DEF Copy, Guarded
  <1>4. Write(r) \/ Refuse(r) \/ Abort(r) => Locking!VNext
    BY <1>3, WriteIs DEF Refuse, Abort, Accepted
  <1>5. ASSUME NEW op \in {"create", "edit", "keep", "remove"}, NEW i, NEW old, NEW new, NEW hit,
               AskAt(r, "write", op, i, old, new, hit), op = "edit" => i \in Ids /\ old = row[i]
        PROVE  Locking!VNext
    <2>1. /\ pc'[r] = "write"
          /\ loc'[r] = [op |-> op, id |-> i, row |-> old, new |-> new, hit |-> hit]
          /\ \A q \in Reqs : q # r => pc'[q] = pc[q] /\ loc'[q] = loc[q]
      BY <1>0, <1>5 DEF AskAt, CtlOK
    <2>2. \A q \in Reqs : q # r => Copy(q)' = Copy(q)
      BY <2>1 DEF Copy, Guarded
    <2>3. loc'[r].op = op /\ loc'[r].id = i /\ loc'[r].row = old
      BY <2>1
    <2>4. CASE op # "edit"
      BY <1>2, <2>1, <2>2, <2>3, <2>4 DEF Copy
    <2>5. CASE op = "edit"
      <3>1. i \in Ids /\ Fixed(row[i].kind)
        <4>1. LocAt(r)'
          BY DEF IInv, At
        <4> QED
          BY <1>5, <2>1, <2>3, <2>5, <4>1 DEF LocAt
      <3>2. Guarded(row[i]) # NoRow
        BY <1>0, <3>1, GuardedIs DEF RowsOK
      <3>3. Copy(r)' = {[id |-> i, row |-> Guarded(row[i])]}
        BY <1>5, <2>1, <2>3, <2>5 DEF Copy, Guarded
      <3>4. Locking!VLoad(r, i)
        BY <1>1, <2>2, <3>1, <3>2, <3>3 DEF Locking!VLoad
      <3> QED
        BY <3>1, <3>4 DEF Locking!VNext
    <2> QED
      BY <2>4, <2>5
  <1> QED
    BY <1>4, <1>5, Steps

(* A step that writes makes a new record, or the next version of the one   *)
(* its request works on.                                                   *)
LEMMA Committing ==
  ASSUME IInv, IInv', NEW r \in Reqs, Accepted(r)
  PROVE  Locking!VCommit(r)
  <1>1. RowsOK /\ CtlOK /\ RowsOK'
    BY DEF IInv
  <1>2. PICK new, i, w, y : new = loc[r].new /\ i = loc[r].id /\ w = loc[r].row /\ y = Written(r)
    OBVIOUS
  <1>3. /\ i \in Ids /\ row'[i] = y
        /\ \A j \in Ids : j # i => Alike(row'[j], row[j])
        /\ LocAt(r) /\ pc[r] = "write" /\ row[r] = NoRow
        /\ loc[r].op = "create" => i = r
        /\ loc[r].op \in {"create", "edit", "keep", "remove"}
    BY <1>2, AcceptedIs
  <1>4. \A j \in Ids : /\ row[j] \in Row(Kinds, Tags) \cup {NoRow}
                       /\ row'[j] \in Row(Kinds, Tags) \cup {NoRow}
    BY <1>1 DEF RowsOK
  <1>5. \A j \in Ids : Guarded(row[j])' = Guarded(row'[j])
    BY DEF Guarded
  <1>6. \A j \in Ids : Guarded(row[j])' \in Row(Kinds, Tags) \cup {NoRow}
    BY <1>4, <1>5, GuardedIs
  <1>7. Copy(r)' = {} /\ \A q \in Reqs : q # r => Copy(q)' = Copy(q)
    BY <1>1 DEF Accepted, Finish, CtlOK, Copy, Guarded
  <1>8. \A j \in Ids : j # i => Guarded(row[j])' = Guarded(row[j])
    BY <1>3, <1>4, <1>5, AlikeIs
  <1>9. Guarded(row[i])' # Guarded(row[i]) => Locking!Allowed(r, i, Guarded(row[i])')
    <2>1. Guarded(row[i])' = Guarded(y)
      BY <1>3, <1>5
    <2>2. CASE loc[r].op = "create"
      <3>1. row[i] = NoRow /\ y = new /\ new.version = 1
        BY <1>2, <1>3, <2>2, WrittenIs DEF LocAt, Accepted
      <3>2. Guarded(row[i]) = NoRow
        BY <3>1, NoRowShape, GuardedIs
      <3>3. Guarded(y) # NoRow => Guarded(y).version = 1
        BY <1>3, <1>4, <3>1, GuardedIs
      <3> QED
        BY <1>3, <2>1, <3>2, <3>3 DEF Locking!Allowed
    <2>3. CASE loc[r].op = "edit"
      <3>1. /\ Fixed(row[i].kind) /\ y.kind = row[i].kind /\ Alike(row[i], w)
            /\ w \in Row(Kinds, Tags) /\ y.version = row[i].version + 1
        <4>1. Alike(y, new)
          BY <1>2, <1>3, <2>3, WrittenIs DEF Accepted
        <4> QED
          BY <1>2, <1>3, <2>3, <4>1 DEF Accepted, Fresh, LocAt, Alike
      <3>2. Guarded(row[i]) # NoRow /\ Guarded(row[i]).version = row[i].version
        BY <1>3, <1>4, <3>1, GuardedIs
      <3>3. Guarded(y).version = y.version
        BY <1>3, <1>4, <3>1, GuardedIs
      <3>4. Guarded(w) = Guarded(row[i])
        BY <1>3, <1>4, <3>1, AlikeIs
      <3>5. Copy(r) = {[id |-> i, row |-> Guarded(row[i])]}
        BY <1>2, <1>3, <2>3, <3>4 DEF Copy
      <3> QED
        BY <1>3, <2>1, <3>1, <3>2, <3>3, <3>5 DEF Locking!Allowed
    <2>4. CASE loc[r].op = "keep"
      <3>1. y = row[i]
        BY <1>2, <1>3, <2>4, WrittenIs DEF Accepted
      <3> QED
        BY <2>1, <3>1
    <2>5. CASE loc[r].op = "remove"
      <3>1. y = NoRow /\ ~Fixed(row[i].kind)
        BY <1>2, <1>3, <2>5, WrittenIs DEF Accepted, LocAt
      <3>2. Guarded(row[i]) = NoRow /\ Guarded(y) = NoRow
        BY <1>3, <1>4, <3>1, NoRowShape, GuardedIs
      <3> QED
        BY <2>1, <3>2
    <2> QED
      BY <1>3, <2>2, <2>3, <2>4, <2>5
  <1>10. \A j \in Ids : Guarded(row[j])' # Guarded(row[j]) => Locking!Allowed(r, j, Guarded(row[j])')
    BY <1>8, <1>9
  <1> QED
    BY <1>6, <1>7, <1>10 DEF Locking!VCommit

(* Requests on the calendar, the catalogue and teachers keep the promise   *)
(* of VersionMixin for what the versions protect: no step overwrites a     *)
(* record other than the row its request has loaded, class subjects and    *)
(* the flags of years apart.                                               *)
THEOREM Refinement == Spec => ImplementsVersionedRows
  <1>1. Init => Locking!VInit
    <2> SUFFICES ASSUME Init PROVE Locking!VInit
      OBVIOUS
    <2>1. \A i \in Ids : Guarded(row[i]) \in Row(Kinds, Tags) \cup {NoRow}
      BY InitInv, GuardedIs DEF IInv, RowsOK
    <2> QED
      BY <2>1 DEF Init, Copy, Locking!VInit
  <1>2. IInv /\ IInv' /\ [Next]_vars => [Locking!VNext]_(Locking!vvars)
    <2> SUFFICES ASSUME IInv, IInv', [Next]_vars PROVE [Locking!VNext]_(Locking!vvars)
      OBVIOUS
    <2>1. CASE UNCHANGED vars
      BY <2>1 DEF vars, Guarded, Copy, Locking!vvars
    <2>2. CASE row' = row
      BY <2>1, <2>2, Keeping DEF Next
    <2>3. CASE \E r \in Reqs : Accepted(r)
      BY <2>3, Committing DEF Locking!VNext
    <2> QED
      BY <2>2, <2>3, OnlyWrites
  <1> QED
    BY <1>1, <1>2, InductiveInvariant, PTL DEF Spec, ImplementsVersionedRows, Locking!VSpec
=============================================================================
