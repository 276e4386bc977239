-------------------------- MODULE HouseholdsProofs --------------------------
(***************************************************************************)
(* Proofs about Households for any number of requests, records, contacts   *)
(* and admission numbers.                                                  *)
(*                                                                         *)
(* Persons, students and parents are never really deleted, and what other  *)
(* records refer to is of these kinds; only a person may lose its address  *)
(* (Evolution).  A request that makes a guardian primary carries the rows  *)
(* that it is going to take the flag from: all that were there before      *)
(* (Known), and all that are there as long as nobody commits (Unraced).    *)
(***************************************************************************)
EXTENDS Households, TLAPS

Kept == {"person", "student", "parent"}
Settled(p) == p \in Reqs => pc[p] = "done"

(* What a record refers to, and what one that is not written yet does *)
Refs(x) ==
  /\ \A p \in x.of : row[p].kind \in RefKinds(x.kind)
  /\ x.kind = "guardian" => \E s, p \in Ids : /\ x.of = {s, p}
                                              /\ row[s].kind = "student" /\ row[p].kind = "person"
Wanted(x) ==
  IF x.kind = "person" THEN \A p \in x.of : row[p].kind \in {"address", "none"} /\ Settled(p)
  ELSE Refs(x)

RowsOK ==
  /\ row \in [Ids -> Row(Kinds, Tags) \cup {NoRow}]
  /\ \A i \in Ids : Refs(row[i]) /\ (row[i].kind # "none" => row[i].version > 0)

(* The row that was loaded, but for addresses that are gone *)
StillThere(x) == [x EXCEPT !.of = {a \in @ : Exists(a)}]

LocAt(q) ==
  pc[q] \in {"unset", "write"} =>
    /\ loc[q].op \in {"create", "edit", "keep", "remove"} /\ loc[q].id \in Ids
    /\ loc[q].op = "create" <=> loc[q].id = q
    /\ loc[q].id # q => Settled(loc[q].id)
    /\ \A j \in loc[q].hit : row[j].kind \in {"guardian", "none"} /\ Settled(j)
    /\ loc[q].op = "remove" => loc[q].new = NoRow /\ row[loc[q].id].kind \notin Kept
    /\ loc[q].op # "remove" =>
         loc[q].new \in Row(Kinds, Tags) /\ loc[q].new.version > 0 /\ Wanted(loc[q].new)
    /\ loc[q].op = "keep" => loc[q].new = loc[q].row

(* An edit has loaded a row, which is still the same while its version is. *)
EditAt(q) ==
  pc[q] \in {"unset", "write"} /\ loc[q].op = "edit" =>
    LET old == loc[q].row
        new == loc[q].new
        now == row[loc[q].id]
    IN /\ old \in Row(Kinds, Tags) /\ old.version > 0 /\ Wanted(old)
       /\ new.kind = old.kind /\ now.kind \in {new.kind, "none"}
       /\ new.kind # "person" => new.of = old.of /\ (now.kind # "none" => now.of = old.of)
       /\ new.kind \in Kept => /\ new.version = old.version + 1
                               /\ now.kind = new.kind /\ old.version <= now.version
                               /\ old.version = now.version => now = StillThere(old)

(* Who is about to make a guardian primary *)
Takes(q) ==
  pc[q] = "write" /\ loc[q].new.kind = "guardian" /\ loc[q].new.on /\ ~loc[q].row.on
Known(q) == Takes(q) => Others(loc[q].new, loc[q].id) \cap Seeds \subseteq loc[q].hit
Unraced(q) == Takes(q) /\ ~raced[q] => Others(loc[q].new, loc[q].id) \subseteq loc[q].hit

MadeAt(q) == pc[q] # "done" => row[q] = NoRow
At(q) == LocAt(q) /\ EditAt(q) /\ Known(q) /\ Unraced(q) /\ MadeAt(q)

LocType == [op: {"none", "create", "edit", "keep", "remove"}, id: Ids \cup {None},
            row: Row(Kinds, Tags) \cup {NoRow}, new: Row(Kinds, Tags) \cup {NoRow},
            hit: SUBSET Ids]
CtlOK == /\ pc \in [Reqs -> {"idle", "unset", "write", "done"}]
         /\ loc \in [Reqs -> LocType]
         /\ raced \in [Reqs -> BOOLEAN]
         /\ out \in [Reqs -> {"none", "refused", "aborted", "error", "written"}]
         /\ \A q \in Reqs : pc[q] # "done" => out[q] = "none"

IInv == /\ CtlOK /\ RowsOK
        /\ HouseholdsDistinct /\ OnePrimaryAmongKnown
        /\ \A q \in Reqs : At(q)

-----------------------------------------------------------------------------
(* Shapes                                                                  *)

LEMMA RefKindsAre ==
  /\ RefKinds("person") = {"address"} /\ RefKinds("guardian") = {"student", "person"}
  /\ RefKinds("link") = {"student", "parent"}
  /\ \A k : k \notin {"person", "guardian", "link"} => RefKinds(k) = {"person"}
  /\ \A k : k # "person" => RefKinds(k) \subseteq Kept
  BY DEF RefKinds, Kept

LEMMA NoRowIs ==
  /\ NoRow.kind = "none" /\ NoRow.tag = None /\ ~NoRow.on /\ NoRow.val = None
  /\ NoRow.of = {} /\ ~NoRow.deleted /\ NoRow.version = 0 /\ Refs(NoRow)
  /\ "none" \notin Kinds /\ "none" \notin Kept /\ Kept \subseteq Kinds
  BY DEF NoRow, Refs, Kinds, Kept

LEMMA NoLocalType ==
  NoLocal \in LocType
  BY DEF NoLocal, LocType

LEMMA RowFields ==
  ASSUME NEW x \in Row(Kinds, Tags)
  PROVE  /\ x.kind \in Kinds /\ x.of \in SUBSET Ids /\ x.tag \in Tags /\ x.on \in BOOLEAN
         /\ x.val \in Values /\ x.deleted \in BOOLEAN /\ x.version \in Nat /\ x.kind # "none"
         /\ x # NoRow
  BY NoRowIs DEF Row

LEMMA RowIs ==
  ASSUME RowsOK, NEW i \in Ids
  PROVE  /\ row[i].kind # "none" => row[i] \in Row(Kinds, Tags)
         /\ row[i].kind = "none" => row[i] = NoRow
         /\ row[i].of \in SUBSET Ids
  BY NoRowIs, RowFields DEF RowsOK

LEMMA Named ==
  /\ \A q \in Reqs : q \in Ids /\ q # None /\ q \notin Seeds
  /\ Seeds \subseteq Ids /\ None \in Tags /\ None \in Values /\ Ids \subseteq Values
  /\ Contacts \subseteq Tags /\ Numbers \subseteq Tags
  BY SeedsAreNoRequests, PersonsAreValues DEF Ids, Tags

LEMMA Joined ==
  RowsOK /\ CtlOK => TypeOK
  BY DEF RowsOK, Refs, CtlOK, LocType, TypeOK

(* Existing records are those of requests that have ended. *)
LEMMA ThereSettled ==
  ASSUME IInv, NEW i \in Ids, row[i].kind # "none"
  PROVE  Settled(i)
  BY NoRowIs DEF IInv, At, MadeAt, Settled

LEMMA WantedRefs ==
  ASSUME IInv, NEW x, Refs(x), x.of \in SUBSET Ids
  PROVE  Wanted(x)
  <1>1. CASE x.kind = "person"
    <2>1. \A p \in x.of : row[p].kind = "address" /\ Settled(p)
      BY <1>1, ThereSettled, RefKindsAre DEF Refs
    <2> QED
      BY <1>1, <2>1 DEF Wanted
  <1>2. CASE x.kind # "person"
    BY <1>2 DEF Wanted
  <1> QED
    BY <1>1, <1>2

-----------------------------------------------------------------------------
(* Lookups                                                                 *)

(* What is true of a request that takes no step while no record changes *)
LEMMA OtherStays ==
  ASSUME NEW q \in Reqs, At(q), row' = row,
         pc'[q] = pc[q], loc'[q] = loc[q], raced'[q] = raced[q],
         \A p \in Reqs : pc[p] = "done" => pc'[p] = "done"
  PROVE  At(q)'
  <1>1. \A p : Settled(p) => Settled(p)'
    BY DEF Settled
  <1>2. \A x : Refs(x)' <=> Refs(x)
    BY DEF Refs
  <1>3. \A x : Wanted(x) => Wanted(x)'
    BY <1>1, <1>2 DEF Wanted
  <1>4. LocAt(q)'
    BY <1>1, <1>3 DEF At, LocAt
  <1>5. EditAt(q)'
    BY <1>3 DEF At, EditAt, StillThere, Exists
  <1>6. Known(q)' /\ Unraced(q)'
    BY DEF At, Known, Unraced, Takes, Others, Of
  <1> QED
    BY <1>4, <1>5, <1>6 DEF At, MadeAt

LEMMA RecordsStay ==
  ASSUME IInv, row' = row
  PROVE  RowsOK' /\ HouseholdsDistinct' /\ OnePrimaryAmongKnown'
  BY DEF IInv, RowsOK, Refs, HouseholdsDistinct, Exists, OnePrimaryAmongKnown, SameStudent, Others, Of

(* A request has looked up what it needs. *)
LEMMA Asking ==
  ASSUME IInv, NEW r \in Reqs, NEW at \in {"unset", "write"},
         NEW op \in {"create", "edit", "keep", "remove"}, NEW id \in Ids,
         NEW old \in Row(Kinds, Tags) \cup {NoRow}, NEW new \in Row(Kinds, Tags) \cup {NoRow},
         AskAt(r, at, op, id, old, new, {}), LocAt(r)', EditAt(r)',
         at = "write" => ~(new.kind = "guardian" /\ new.on /\ ~old.on)
  PROVE  IInv'
  <1>1. /\ CtlOK /\ pc[r] = "idle" /\ MadeAt(r)
        /\ row' = row /\ raced' = raced /\ out' = out /\ pc' = [pc EXCEPT ![r] = at]
        /\ loc' = [loc EXCEPT ![r] = [op |-> op, id |-> id, row |-> old, new |-> new, hit |-> {}]]
    BY DEF IInv, At, AskAt
  <1>2. [op |-> op, id |-> id, row |-> old, new |-> new, hit |-> {}] \in LocType
    BY DEF LocType
  <1>3. CtlOK'
    BY <1>1, <1>2 DEF CtlOK
  <1>4. /\ pc'[r] = at /\ loc'[r] = [op |-> op, id |-> id, row |-> old, new |-> new, hit |-> {}]
        /\ \A q \in Reqs : q # r => pc'[q] = pc[q] /\ loc'[q] = loc[q]
        /\ \A p \in Reqs : pc[p] = "done" => pc'[p] = "done"
    BY <1>1 DEF CtlOK
  <1>5. pc'[r] = at /\ loc'[r].new = new /\ loc'[r].row = old
    BY <1>4
  <1>6. MadeAt(r)' /\ Known(r)' /\ Unraced(r)'
    BY <1>1, <1>5 DEF MadeAt, Known, Unraced, Takes
  <1>7. ASSUME NEW q \in Reqs, q # r
        PROVE  At(q)'
    <2>1. At(q) /\ pc'[q] = pc[q] /\ loc'[q] = loc[q] /\ raced'[q] = raced[q]
      BY <1>1, <1>4, <1>7 DEF IInv
    <2> QED
      BY <1>1, <1>4, <2>1, OtherStays
  <1>8. At(r)'
    BY <1>6 DEF At
  <1> QED
    BY <1>1, <1>3, <1>7, <1>8, RecordsStay DEF IInv

(* Nobody's references change when no record does and only r goes on. *)
LEMMA AskStays ==
  ASSUME IInv, NEW r \in Reqs, NEW at, NEW op, NEW id, NEW old, NEW new,
         AskAt(r, at, op, id, old, new, {})
  PROVE  /\ row' = row /\ pc[r] = "idle" /\ row[r] = NoRow
         /\ pc'[r] = at
         /\ loc'[r].op = op /\ loc'[r].id = id /\ loc'[r].row = old /\ loc'[r].new = new
         /\ loc'[r].hit = {}
         /\ \A p : p # r /\ Settled(p) => Settled(p)'
         /\ \A x : Refs(x)' <=> Refs(x)
         /\ \A x : r \notin x.of /\ Wanted(x) => Wanted(x)'
  <1>1. /\ row' = row /\ pc[r] = "idle" /\ row[r] = NoRow /\ pc' = [pc EXCEPT ![r] = at]
        /\ loc' = [loc EXCEPT ![r] = [op |-> op, id |-> id, row |-> old, new |-> new, hit |-> {}]]
        /\ pc \in [Reqs -> {"idle", "unset", "write", "done"}] /\ loc \in [Reqs -> LocType]
    BY DEF IInv, At, MadeAt, AskAt, CtlOK
  <1>2. loc'[r] = [op |-> op, id |-> id, row |-> old, new |-> new, hit |-> {}] /\ pc'[r] = at
    BY <1>1
  <1>3. \A p : p # r /\ Settled(p) => Settled(p)'
    BY <1>1 DEF Settled
  <1>4. \A x : Refs(x)' <=> Refs(x)
    BY <1>1 DEF Refs
  <1>5. ASSUME NEW x, r \notin x.of, Wanted(x)
        PROVE  Wanted(x)'
    BY <1>1, <1>3, <1>4, <1>5 DEF Wanted
  <1> QED
    BY <1>1, <1>2, <1>3, <1>4, <1>5

LEMMA AskingCreate ==
  ASSUME IInv, NEW r \in Reqs, NEW at \in {"unset", "write"}, NEW x \in Row(Kinds, Tags),
         AskAt(r, at, "create", r, NoRow, x, {}), Refs(x), x.version > 0,
         at = "write" => ~(x.kind = "guardian" /\ x.on)
  PROVE  IInv'
  <1>1. /\ row' = row /\ row[r] = NoRow /\ pc'[r] = at
        /\ loc'[r].op = "create" /\ loc'[r].id = r /\ loc'[r].row = NoRow /\ loc'[r].new = x
        /\ loc'[r].hit = {}
    BY AskStays
  <1>2. Wanted(x) /\ x.of \in SUBSET Ids
    BY RowFields, WantedRefs
  <1>3. r \notin x.of
    <2>1. row[r].kind = "none"
      BY <1>1, NoRowIs
    <2> QED
      BY <2>1, RefKindsAre, NoRowIs DEF Refs
  <1>4. Wanted(x)'
    BY <1>2, <1>3, AskStays
  <1>5. LocAt(r)' /\ EditAt(r)'
    BY <1>1, <1>4, Named DEF LocAt, EditAt
  <1> QED
    BY <1>5, Named, Asking

LEMMA AskingEdit ==
  ASSUME IInv, NEW r \in Reqs, NEW at \in {"unset", "write"}, NEW i \in Ids,
         NEW x \in Row(Kinds, Tags), AskAt(r, at, "edit", i, row[i], x, {}),
         row[i].kind # "none", x.kind = row[i].kind, x.version > 0,
         x.kind # "person" => x.of = row[i].of,
         x.kind = "person" => \A p \in x.of : row[p].kind = "address",
         x.kind \in Kept => x.version = row[i].version + 1,
         at = "write" => ~(x.kind = "guardian" /\ x.on /\ ~row[i].on)
  PROVE  IInv'
  <1>1. /\ row' = row /\ row[r] = NoRow /\ pc'[r] = at
        /\ loc'[r].op = "edit" /\ loc'[r].id = i /\ loc'[r].row = row[i] /\ loc'[r].new = x
        /\ loc'[r].hit = {}
    BY AskStays
  <1>2. row[r].kind = "none" /\ i # r
    BY <1>1, NoRowIs
  <1>3. /\ row[i] \in Row(Kinds, Tags) /\ Refs(row[i]) /\ row[i].of \in SUBSET Ids
        /\ row[i].version > 0 /\ row[i].version \in Nat
    BY RowIs, RowFields DEF IInv, RowsOK
  <1>4. Refs(x)
    BY <1>3, RefKindsAre DEF Refs
  <1>5. Wanted(x) /\ Wanted(row[i]) /\ x.of \in SUBSET Ids
    BY <1>3, <1>4, RowFields, WantedRefs
  <1>6. r \notin x.of /\ r \notin row[i].of
    BY <1>2, <1>3, <1>4, RefKindsAre, NoRowIs DEF Refs
  <1>7. Wanted(x)' /\ Wanted(row[i])'
    <2>1. PICK y : y = row[i]
      OBVIOUS
    <2>2. Wanted(x)' /\ Wanted(y)'
      BY <1>5, <1>6, <2>1, AskStays
    <2> QED
      BY <1>1, <2>1, <2>2 DEF Wanted, Refs
  <1>8. Settled(i)'
    BY <1>2, ThereSettled, AskStays
  <1>9. row[i] = StillThere(row[i])'
    <2>1. \A p \in row[i].of : row[p].kind # "none"
      BY <1>3, RefKindsAre, NoRowIs DEF Refs
    <2>2. {a \in row[i].of : Exists(a)'} = row[i].of
      BY <1>1, <2>1 DEF Exists
    <2>3. [row[i] EXCEPT !.of = row[i].of] = row[i]
      BY <1>3 DEF Row
    <2> QED
      BY <1>1, <2>2, <2>3 DEF StillThere
  <1>10. LocAt(r)'
    BY <1>1, <1>2, <1>7, <1>8 DEF LocAt
  <1>11. EditAt(r)'
    BY <1>1, <1>3, <1>7, <1>9 DEF EditAt
  <1> QED
    BY <1>3, <1>10, <1>11, Asking

(* Nothing changes, and nothing is going to be written. *)
LEMMA AskingKeep ==
  ASSUME IInv, NEW r \in Reqs, NEW at \in {"unset", "write"}, NEW i \in Ids,
         row[i].kind # "none", AskAt(r, at, "keep", i, row[i], row[i], {})
  PROVE  IInv'
  <1>1. /\ row' = row /\ row[r] = NoRow /\ pc'[r] = at
        /\ loc'[r].op = "keep" /\ loc'[r].id = i /\ loc'[r].row = row[i] /\ loc'[r].new = row[i]
        /\ loc'[r].hit = {}
    BY AskStays
  <1>2. row[r].kind = "none" /\ i # r
    BY <1>1, NoRowIs
  <1>3. /\ row[i] \in Row(Kinds, Tags) /\ Refs(row[i]) /\ row[i].of \in SUBSET Ids
        /\ row[i].version > 0
    BY RowIs DEF IInv, RowsOK
  <1>4. PICK y : y = row[i]
    OBVIOUS
  <1>5. Wanted(y) /\ r \notin y.of
    BY <1>2, <1>3, <1>4, WantedRefs, RefKindsAre, NoRowIs DEF Refs
  <1>6. Wanted(y)'
    BY <1>5, AskStays
  <1>7. Settled(i)'
    BY <1>2, ThereSettled, AskStays
  <1>8. LocAt(r)'
    BY <1>1, <1>2, <1>3, <1>4, <1>6, <1>7 DEF LocAt, Wanted, Refs
  <1>9. EditAt(r)'
    BY <1>1 DEF EditAt
  <1> QED
    BY <1>3, <1>8, <1>9, Asking

LEMMA AskingUpdate ==
  ASSUME IInv, NEW r \in Reqs, NEW at \in {"unset", "write"}, NEW i \in Ids,
         NEW x \in Row(Kinds, Tags), AskUpdate(r, at, i, x, {}),
         row[i].kind # "none", x.kind = row[i].kind, x.version > 0,
         x.kind # "person" => x.of = row[i].of,
         x.kind = "person" => \A p \in x.of : row[p].kind = "address",
         x.kind \in Kept => x.version = row[i].version + 1,
         at = "write" => ~(x.kind = "guardian" /\ x.on /\ ~row[i].on)
  PROVE  IInv'
  <1>1. \/ AskAt(r, at, "edit", i, row[i], x, {})
        \/ AskAt(r, at, "keep", i, row[i], row[i], {})
    BY DEF AskUpdate
  <1> QED
    BY <1>1, AskingEdit, AskingKeep

LEMMA AskingRemove ==
  ASSUME IInv, NEW r \in Reqs, NEW i \in Ids, row[i].kind \notin Kept, row[i].kind # "none",
         AskRemove(r, i)
  PROVE  IInv'
  <1>1. AskAt(r, "write", "remove", i, row[i], NoRow, {})
    BY DEF AskRemove, Ask
  <1>2. /\ row' = row /\ row[r] = NoRow /\ pc'[r] = "write"
        /\ loc'[r].op = "remove" /\ loc'[r].id = i /\ loc'[r].new = NoRow /\ loc'[r].hit = {}
    BY <1>1, AskStays
  <1>3. i # r
    BY <1>2, NoRowIs
  <1>4. Settled(i)'
    BY <1>1, <1>3, ThereSettled, AskStays
  <1>5. LocAt(r)' /\ EditAt(r)'
    BY <1>2, <1>3, <1>4 DEF LocAt, EditAt
  <1>6. row[i] \in Row(Kinds, Tags)
    BY RowIs DEF IInv
  <1> QED
    BY <1>1, <1>5, <1>6, NoRowIs, Asking

-----------------------------------------------------------------------------
(* The lookups, one by one                                                 *)

LEMMA CreatePersonStep ==
  ASSUME IInv, NEW r \in Reqs, NEW address, CreatePerson(r, address)
  PROVE  IInv'
  <1>1. PICK x : x = NewRow("person", address, None, FALSE, None)
    OBVIOUS
  <1>2. /\ address \in SUBSET Ids /\ \A p \in address : row[p].kind = "address"
        /\ AskAt(r, "write", "create", r, NoRow, x, {})
    BY <1>1 DEF CreatePerson, Addresses, Of, AskCreate, Ask
  <1>3. x \in Row(Kinds, Tags) /\ x.kind = "person" /\ x.of = address /\ x.version = 1
    BY <1>1, <1>2, Named DEF NewRow, Row, Kinds
  <1>4. Refs(x)
    BY <1>2, <1>3, RefKindsAre DEF Refs
  <1> QED
    BY <1>2, <1>3, <1>4, AskingCreate

LEMMA EditPersonStep ==
  ASSUME IInv, NEW r \in Reqs, NEW i \in Ids, NEW address, EditPerson(r, i, address)
  PROVE  IInv'
  <1>1. /\ row[i].kind = "person" /\ row[i] \in Row(Kinds, Tags) /\ Refs(row[i])
        /\ address \in SUBSET Ids /\ row[i].version \in Nat
    BY RowIs, RowFields DEF EditPerson, LiveOf, Live, Exists, IInv, RowsOK, Addresses, Of
  <1>2. PICK y, x : /\ y = [row[i] EXCEPT !.of = address]
                    /\ x = [y EXCEPT !.version = row[i].version + 1]
    OBVIOUS
  <1>3. x \in Row(Kinds, Tags) /\ x.kind = "person" /\ x.of = address /\ x.version = row[i].version + 1
    <2>1. y \in Row(Kinds, Tags) /\ y.kind = "person" /\ y.of = address
      BY <1>1, <1>2 DEF Row
    <2>2. row[i].version + 1 \in Nat /\ x = [y EXCEPT !.version = row[i].version + 1]
      BY <1>1, <1>2
    <2> QED
      BY <2>1, <2>2 DEF Row
  <1>4. AskUpdate(r, "write", i, x, {})
    BY <1>2 DEF EditPerson, AskEdit, Raised
  <1>5. \A p \in address : row[p].kind = "address"
    BY <1>1, RefKindsAre DEF EditPerson, Addresses, Of, Refs
  <1>6. x.version > 0
    BY <1>1, <1>3
  <1> QED
    BY <1>1, <1>3, <1>4, <1>5, <1>6, AskingUpdate

(* An edit that keeps the references of the record *)
LEMMA PlainEditStep ==
  ASSUME IInv, NEW r \in Reqs, NEW i \in Ids, NEW y \in Row(Kinds, Tags), AskEdit(r, i, y),
         row[i].kind \notin {"none", "guardian"}, y.kind = row[i].kind, y.of = row[i].of
  PROVE  IInv'
  <1>1. PICK x : x = [y EXCEPT !.version = row[i].version + 1]
    OBVIOUS
  <1>2. /\ row[i] \in Row(Kinds, Tags) /\ Refs(row[i]) /\ row[i].version \in Nat
    BY RowIs, RowFields DEF IInv, RowsOK
  <1>3. x \in Row(Kinds, Tags) /\ x.kind = y.kind /\ x.of = y.of /\ x.version = row[i].version + 1
    BY <1>1, <1>2 DEF Row
  <1>4. AskUpdate(r, "write", i, x, {})
    BY <1>1 DEF AskEdit, Raised
  <1>5. x.kind = "person" => \A p \in x.of : row[p].kind = "address"
    BY <1>2, <1>3, RefKindsAre DEF Refs
  <1>6. x.version > 0
    BY <1>2, <1>3
  <1> QED
    BY <1>3, <1>4, <1>5, <1>6, AskingUpdate

LEMMA MergePersonStep ==
  ASSUME IInv, NEW r \in Reqs, NEW i \in Ids, NEW target \in Ids, MergePerson(r, i, target)
  PROVE  IInv'
  <1>1. PICK y : y = [row[i] EXCEPT !.val = target]
    OBVIOUS
  <1>2. row[i].kind = "person" /\ row[i] \in Row(Kinds, Tags) /\ AskEdit(r, i, y)
    BY <1>1, RowIs DEF MergePerson, LiveOf, Live, Exists, IInv
  <1>3. y \in Row(Kinds, Tags) /\ y.kind = row[i].kind /\ y.of = row[i].of
    BY <1>1, <1>2, Named DEF Row
  <1> QED
    BY <1>2, <1>3, PlainEditStep

LEMMA EditStudentStep ==
  ASSUME IInv, NEW r \in Reqs, NEW i \in Ids, NEW n \in Numbers, EditStudent(r, i, n)
  PROVE  IInv'
  <1>1. PICK y : y = [row[i] EXCEPT !.tag = n]
    OBVIOUS
  <1>2. row[i].kind = "student" /\ row[i] \in Row(Kinds, Tags) /\ AskEdit(r, i, y)
    BY <1>1, RowIs DEF EditStudent, LiveOf, Live, Exists, IInv
  <1>3. y \in Row(Kinds, Tags) /\ y.kind = row[i].kind /\ y.of = row[i].of
    BY <1>1, <1>2, Named DEF Row
  <1> QED
    BY <1>2, <1>3, PlainEditStep

LEMMA SameStep ==
  ASSUME IInv, NEW r \in Reqs, NEW i \in Ids, EditAddress(r, i) \/ EditParent(r, i)
  PROVE  IInv'
  <1>1. row[i].kind \in {"address", "parent"} /\ row[i] \in Row(Kinds, Tags) /\ AskEdit(r, i, row[i])
    BY RowIs DEF EditAddress, EditParent, LiveOf, Live, Exists, IInv, Of
  <1> QED
    BY <1>1, PlainEditStep

LEMMA DeleteStep ==
  ASSUME IInv, NEW r \in Reqs, NEW i \in Ids,
         DeletePerson(r, i) \/ DeleteStudent(r, i) \/ DeleteParent(r, i)
  PROVE  IInv'
  <1>1. PICK y : y = [row[i] EXCEPT !.deleted = TRUE]
    OBVIOUS
  <1>2. row[i].kind \in {"person", "student", "parent"} /\ row[i] \in Row(Kinds, Tags) /\ AskEdit(r, i, y)
    BY <1>1, RowIs DEF DeletePerson, DeleteStudent, DeleteParent, DeleteOf, AskDelete,
                       LiveOf, Live, Exists, IInv
  <1>3. y \in Row(Kinds, Tags) /\ y.kind = row[i].kind /\ y.of = row[i].of
    BY <1>1, <1>2 DEF Row
  <1> QED
    BY <1>2, <1>3, PlainEditStep

LEMMA RemoveStep ==
  ASSUME IInv, NEW r \in Reqs, NEW i \in Ids,
         RemoveAddress(r, i) \/ RemoveContact(r, i) \/ RemoveGuardian(r, i) \/ UnlinkParent(r, i)
  PROVE  IInv'
  <1>1. row[i].kind \in {"address", "contact", "guardian", "link"} /\ AskRemove(r, i)
    BY DEF RemoveAddress, RemoveContact, RemoveGuardian, UnlinkParent, Of
  <1>2. row[i].kind \notin Kept
    BY <1>1 DEF Kept
  <1> QED
    BY <1>1, <1>2, AskingRemove

(* Addresses and contacts of an owner *)
LEMMA CreateOwnedStep ==
  ASSUME IInv, NEW r \in Reqs, NEW owner \in Owners,
         CreateAddress(r, owner) \/ \E tag \in Contacts : CreateContact(r, owner, tag)
  PROVE  IInv'
  <1>1. PICK kind \in {"address", "contact"}, tag \in Tags :
          AskCreate(r, NewRow(kind, owner, tag, FALSE, None))
    BY Named DEF CreateAddress, CreateContact
  <1>2. PICK x : x = NewRow(kind, owner, tag, FALSE, None)
    OBVIOUS
  <1>3. owner \in SUBSET Ids /\ \A p \in owner : row[p].kind = "person"
    BY DEF Owners, LiveOf
  <1>4. kind \in Kinds /\ FALSE \in BOOLEAN
    BY DEF Kinds
  <1>5. x \in Row(Kinds, Tags) /\ x.kind = kind /\ x.of = owner /\ x.version = 1
    BY <1>2, <1>3, <1>4, Named DEF NewRow, Row
  <1>6. AskAt(r, "write", "create", r, NoRow, x, {}) /\ Refs(x)
    BY <1>1, <1>2, <1>3, <1>5, RefKindsAre DEF AskCreate, Ask, Refs
  <1> QED
    BY <1>5, <1>6, AskingCreate

LEMMA EditContactStep ==
  ASSUME IInv, NEW r \in Reqs, NEW i \in Ids, NEW tag \in Contacts, EditContact(r, i, tag)
  PROVE  IInv'
  <1>1. PICK x : x = [row[i] EXCEPT !.tag = tag]
    OBVIOUS
  <1>2. /\ row[i].kind = "contact" /\ row[i] \in Row(Kinds, Tags) /\ row[i].version > 0
        /\ AskUpdate(r, "write", i, x, {})
    BY <1>1, RowIs DEF EditContact, Of, IInv, RowsOK
  <1>3. /\ x \in Row(Kinds, Tags) /\ x.kind = row[i].kind /\ x.of = row[i].of
        /\ x.version = row[i].version
    BY <1>1, <1>2, Named DEF Row
  <1>4. x.kind \notin Kept
    BY <1>2, <1>3 DEF Kept
  <1> QED
    BY <1>2, <1>3, <1>4, AskingUpdate

(* Students and parents of a person *)
LEMMA CreateRoleStep ==
  ASSUME IInv, NEW r \in Reqs, NEW p \in Ids,
         CreateParent(r, p) \/ \E n \in Numbers : CreateStudent(r, p, n)
  PROVE  IInv'
  <1>1. PICK kind \in {"parent", "student"}, tag \in Tags :
          AskCreate(r, NewRow(kind, {p}, tag, FALSE, None))
    BY Named DEF CreateParent, CreateStudent
  <1>2. PICK x : x = NewRow(kind, {p}, tag, FALSE, None)
    OBVIOUS
  <1>3. row[p].kind = "person" /\ {p} \in SUBSET Ids
    BY DEF CreateParent, CreateStudent, LiveOf
  <1>4. kind \in Kinds /\ FALSE \in BOOLEAN
    BY DEF Kinds
  <1>5. x \in Row(Kinds, Tags) /\ x.kind = kind /\ x.of = {p} /\ x.version = 1
    BY <1>2, <1>3, <1>4, Named DEF NewRow, Row
  <1>6. AskAt(r, "write", "create", r, NoRow, x, {}) /\ Refs(x)
    BY <1>1, <1>2, <1>3, <1>5, RefKindsAre DEF AskCreate, Ask, Refs
  <1> QED
    BY <1>5, <1>6, AskingCreate

LEMMA LinkStep ==
  ASSUME IInv, NEW r \in Reqs, NEW s \in Ids, NEW q \in Ids, LinkParent(r, s, q)
  PROVE  IInv'
  <1>1. PICK x : x = NewRow("link", {s, q}, None, FALSE, None)
    OBVIOUS
  <1>2. /\ row[s].kind = "student" /\ row[q].kind = "parent"
        /\ AskAt(r, "write", "create", r, NoRow, x, {})
    BY <1>1 DEF LinkParent, LiveOf, AskCreate, Ask
  <1>3. "link" \in Kinds /\ {s, q} \in SUBSET Ids /\ FALSE \in BOOLEAN
    BY DEF Kinds
  <1>4. x \in Row(Kinds, Tags) /\ x.kind = "link" /\ x.of = {s, q} /\ x.version = 1
    BY <1>1, <1>3, Named DEF NewRow, Row
  <1>5. Refs(x)
    BY <1>2, <1>4, RefKindsAre DEF Refs
  <1> QED
    BY <1>2, <1>4, <1>5, AskingCreate

LEMMA AddGuardianStep ==
  ASSUME IInv, NEW r \in Reqs, NEW s \in Ids, NEW p \in Ids, NEW primary \in BOOLEAN,
         AddGuardian(r, s, p, primary)
  PROVE  IInv'
  <1>1. PICK x : x = NewRow("guardian", {s, p}, None, primary, None)
    OBVIOUS
  <1>2. PICK at \in {"unset", "write"} : at = IF primary THEN "unset" ELSE "write"
    OBVIOUS
  <1>3. /\ row[s].kind = "student" /\ row[p].kind = "person"
        /\ AskAt(r, at, "create", r, NoRow, x, {})
    BY <1>1, <1>2 DEF AddGuardian, LiveOf
  <1>4. "guardian" \in Kinds /\ {s, p} \in SUBSET Ids
    BY DEF Kinds
  <1>5. /\ x \in Row(Kinds, Tags) /\ x.kind = "guardian" /\ x.of = {s, p} /\ x.version = 1
        /\ x.on = primary
    BY <1>1, <1>4, Named DEF NewRow, Row
  <1>6. Refs(x)
    BY <1>3, <1>4, <1>5, RefKindsAre DEF Refs
  <1>7. at = "write" => ~x.on
    BY <1>2, <1>5
  <1>8. x.version > 0
    BY <1>5
  <1> QED
    BY <1>3, <1>5, <1>6, <1>7, <1>8, AskingCreate

LEMMA EditGuardianStep ==
  ASSUME IInv, NEW r \in Reqs, NEW i \in Ids, NEW primary \in BOOLEAN, EditGuardian(r, i, primary)
  PROVE  IInv'
  <1>1. PICK x : x = [row[i] EXCEPT !.on = primary]
    OBVIOUS
  <1>2. PICK at \in {"unset", "write"} : at = IF primary THEN "unset" ELSE "write"
    OBVIOUS
  <1>3. /\ row[i].kind = "guardian" /\ row[i] \in Row(Kinds, Tags) /\ row[i].version > 0
        /\ AskUpdate(r, at, i, x, {})
    BY <1>1, <1>2, RowIs DEF EditGuardian, Of, IInv, RowsOK
  <1>4. /\ x \in Row(Kinds, Tags) /\ x.kind = row[i].kind /\ x.of = row[i].of
        /\ x.version = row[i].version /\ x.on = primary
    BY <1>1, <1>3 DEF Row
  <1>5. x.kind \notin Kept /\ (at = "write" => ~x.on)
    BY <1>2, <1>3, <1>4 DEF Kept
  <1> QED
    BY <1>3, <1>4, <1>5, AskingUpdate

LEMMA TouchGuardianStep ==
  ASSUME IInv, NEW r \in Reqs, NEW i \in Ids, TouchGuardian(r, i)
  PROVE  IInv'
  <1>1. /\ row[i].kind = "guardian" /\ row[i] \in Row(Kinds, Tags) /\ row[i].version > 0
        /\ AskUpdate(r, "write", i, row[i], {})
    BY RowIs DEF TouchGuardian, Of, IInv, RowsOK
  <1>2. row[i].kind \notin Kept
    BY <1>1 DEF Kept
  <1> QED
    BY <1>1, <1>2, AskingUpdate

-----------------------------------------------------------------------------
(* The bulk UPDATE and the end                                             *)

LEMMA UnsetPrimaryStep ==
  ASSUME IInv, NEW r \in Reqs, UnsetPrimary(r)
  PROVE  IInv'
  <1>1. /\ CtlOK /\ At(r) /\ pc[r] = "unset" /\ row' = row /\ raced' = raced /\ out' = out
        /\ pc' = [pc EXCEPT ![r] = "write"]
        /\ loc' = [loc EXCEPT ![r].hit = Others(loc[r].new, loc[r].id)]
    BY DEF IInv, UnsetPrimary
  <1>2. PICK x : x = [loc[r] EXCEPT !.hit = Others(loc[r].new, loc[r].id)]
    OBVIOUS
  <1>3. /\ x \in LocType /\ x.op = loc[r].op /\ x.id = loc[r].id /\ x.row = loc[r].row
        /\ x.new = loc[r].new /\ x.hit = Others(loc[r].new, loc[r].id)
    <2>1. loc[r] \in LocType /\ Others(loc[r].new, loc[r].id) \in SUBSET Ids
      BY <1>1 DEF CtlOK, Others, Of
    <2> QED
      BY <1>2, <2>1 DEF LocType
  <1>4. /\ pc'[r] = "write" /\ loc'[r] = x
        /\ \A q \in Reqs : q # r => pc'[q] = pc[q] /\ loc'[q] = loc[q]
        /\ \A p \in Reqs : pc[p] = "done" => pc'[p] = "done"
    BY <1>1, <1>2 DEF CtlOK
  <1>5. CtlOK'
    BY <1>1, <1>2, <1>3 DEF CtlOK
  <1>6. /\ \A p : Settled(p) => Settled(p)'
        /\ \A y : Refs(y)' <=> Refs(y)
        /\ \A y, j : Others(y, j)' = Others(y, j)
    BY <1>1, <1>4 DEF Settled, Refs, Others, Of
  <1>7. \A y : Wanted(y) => Wanted(y)'
    BY <1>1, <1>6 DEF Wanted
  <1>8. \A j \in x.hit : row[j].kind = "guardian" /\ Settled(j)
    BY <1>3, ThereSettled DEF Others, Of
  <1>9. LocAt(r)'
    BY <1>1, <1>3, <1>4, <1>6, <1>7, <1>8 DEF At, LocAt
  <1>10. EditAt(r)'
    BY <1>1, <1>3, <1>4, <1>6, <1>7 DEF At, EditAt, StillThere, Exists
  <1>11. Known(r)' /\ Unraced(r)'
    <2>1. PICK y, j : y = x.new /\ j = x.id
      OBVIOUS
    <2>2. Others(y, j)' = x.hit
      BY <1>3, <1>6, <2>1
    <2>3. Others(loc[r].new, loc[r].id)' = x.hit
      BY <1>4, <2>1, <2>2 DEF Others
    <2> QED
      BY <1>4, <2>3 DEF Known, Unraced
  <1>12. MadeAt(r)'
    BY <1>1 DEF At, MadeAt
  <1>13. ASSUME NEW q \in Reqs, q # r
         PROVE  At(q)'
    <2>1. At(q) /\ pc'[q] = pc[q] /\ loc'[q] = loc[q] /\ raced'[q] = raced[q]
      BY <1>1, <1>4, <1>13 DEF IInv
    <2> QED
      BY <1>1, <1>4, <2>1, OtherStays
  <1>14. At(r)'
    BY <1>9, <1>10, <1>11, <1>12 DEF At
  <1> QED
    BY <1>1, <1>5, <1>13, <1>14, RecordsStay DEF IInv

(* A request ends and leaves the records as they are. *)
LEMMA Ending ==
  ASSUME IInv, NEW r \in Reqs, NEW o \in {"refused", "aborted", "error"}, Finish(r, o),
         row' = row, raced' = raced \/ raced' = [raced EXCEPT ![r] = FALSE]
  PROVE  IInv'
  <1>1. /\ CtlOK /\ pc' = [pc EXCEPT ![r] = "done"] /\ out' = [out EXCEPT ![r] = o]
        /\ loc' = [loc EXCEPT ![r] = NoLocal]
    BY DEF IInv, Finish
  <1>2. CtlOK'
    BY <1>1, NoLocalType DEF CtlOK
  <1>3. /\ pc'[r] = "done" /\ \A p \in Reqs : pc[p] = "done" => pc'[p] = "done"
        /\ \A q \in Reqs : q # r => pc'[q] = pc[q] /\ loc'[q] = loc[q] /\ raced'[q] = raced[q]
    BY <1>1 DEF CtlOK
  <1>4. At(r)'
    BY <1>3 DEF At, LocAt, EditAt, Known, Unraced, Takes, MadeAt
  <1>5. ASSUME NEW q \in Reqs, q # r
        PROVE  At(q)'
    BY <1>3, <1>5, OtherStays DEF IInv
  <1> QED
    BY <1>2, <1>4, <1>5, RecordsStay DEF IInv

-----------------------------------------------------------------------------
(* The write                                                               *)

Accepted(r) ==
  /\ pc[r] = "write" /\ row' = Effects(r, Written(r)) /\ Finish(r, "written")
  /\ raced' = [q \in Reqs |-> q # r /\ (raced[q] \/ pc[q] \notin {"idle", "done"})]
  /\ loc[r].op \notin {"keep", "remove"} =>
       /\ loc[r].op = "edit" => Found(r)
       /\ KeyFree(loc[r].id, Written(r)) /\ Refers(Written(r))

LEMMA WriteIs ==
  ASSUME NEW r \in Reqs, Write(r)
  PROVE  \/ Accepted(r)
         \/ Finish(r, "error") /\ row' = row /\ raced' = [raced EXCEPT ![r] = FALSE]
  <1> DEFINE ok == \/ loc[r].op \in {"keep", "remove"}
                   \/ /\ loc[r].op = "edit" => Found(r)
                      /\ KeyFree(loc[r].id, Written(r)) /\ Refers(Written(r))
  <1>1. pc[r] = "write" /\ Store(r, ok, Effects(r, Written(r)))
    BY DEF Write
  <1> QED
    BY <1>1 DEF Store, Accepted

(* An UPDATE of the columns that differ *)
LEMMA ChangedIs ==
  ASSUME NEW r \in Reqs, NEW now \in Row(Kinds, Tags), NEW was \in Row(Kinds, Tags),
         NEW new \in Row(Kinds, Tags), NEW x,
         now = row[loc[r].id], was = loc[r].row, new = loc[r].new, x = ChangedColumns(r)
  PROVE  /\ x \in Row(Kinds, Tags) /\ x.kind = now.kind /\ x.version = new.version
         /\ x.of = (IF new.of = was.of THEN now.of ELSE new.of)
         /\ x.on = (IF new.on = was.on THEN now.on ELSE new.on)
  <1>1. x = [now EXCEPT !.of      = IF new.of = was.of THEN now.of ELSE new.of,
                        !.tag     = IF new.tag = was.tag THEN now.tag ELSE new.tag,
                        !.on      = IF new.on = was.on THEN now.on ELSE new.on,
                        !.val     = IF new.val = was.val THEN now.val ELSE new.val,
                        !.deleted = new.deleted,
                        !.version = new.version]
    BY DEF ChangedColumns
  <1>2. PICK of \in SUBSET Ids, tag \in Tags, on \in BOOLEAN, val \in Values :
          /\ of = (IF new.of = was.of THEN now.of ELSE new.of)
          /\ tag = (IF new.tag = was.tag THEN now.tag ELSE new.tag)
          /\ on = (IF new.on = was.on THEN now.on ELSE new.on)
          /\ val = (IF new.val = was.val THEN now.val ELSE new.val)
    BY RowFields
  <1>3. x = [now EXCEPT !.of = of, !.tag = tag, !.on = on, !.val = val,
                        !.deleted = new.deleted, !.version = new.version]
    BY <1>1, <1>2
  <1>4. new.deleted \in BOOLEAN /\ new.version \in Nat
    BY RowFields
  <1>5. x \in Row(Kinds, Tags) /\ x.kind = now.kind /\ x.of = of /\ x.on = on /\ x.version = new.version
    BY <1>3, <1>4 DEF Row
  <1> QED
    BY <1>2, <1>5

(* The written row *)
LEMMA OwnAfter ==
  ASSUME IInv, NEW r \in Reqs, Accepted(r), NEW i, i = loc[r].id, NEW x, x = Written(r)
  PROVE  /\ i \in Ids /\ row[r] = NoRow /\ row[r].kind = "none" /\ row'[i] = x
         /\ loc[r].op \in {"create", "edit", "keep", "remove"}
         /\ loc[r].op = "keep" => x = row[i] /\ i # r
         /\ loc[r].op = "remove" => x = NoRow /\ row[i].kind \notin Kept
         /\ loc[r].op \in {"create", "edit"} => x \in Row(Kinds, Tags) /\ x.version > 0 /\ Refs(x)
         /\ loc[r].op = "create" => i = r /\ x = loc[r].new
         /\ loc[r].op = "edit" =>
              /\ row[i].kind # "none" /\ x.kind = row[i].kind
              /\ x.kind # "person" => x.of = row[i].of
              /\ x.on = (IF loc[r].new.on = loc[r].row.on THEN row[i].on ELSE loc[r].new.on)
              /\ x.kind \in Kept => /\ x.version = row[i].version + 1
                                    /\ row[i] = StillThere(loc[r].row)
  <1>1. /\ RowsOK /\ LocAt(r) /\ EditAt(r) /\ pc[r] = "write" /\ row[r] = NoRow /\ i \in Ids
        /\ loc[r].op \in {"create", "edit", "keep", "remove"} /\ row[r].kind = "none" /\ row'[i] = x
    BY NoRowIs DEF IInv, At, LocAt, MadeAt, Accepted, Effects
  <1>2. CASE loc[r].op = "remove"
    BY <1>1, <1>2 DEF LocAt, Written
  <1>3. ASSUME loc[r].op \in {"create", "edit"}
        PROVE  /\ loc[r].new \in Row(Kinds, Tags) /\ loc[r].new.version > 0 /\ Wanted(loc[r].new)
               /\ \A p \in x.of : row[p].kind # "none"
    BY <1>1, <1>3 DEF LocAt, Accepted, Refers, Exists
  <1>4. CASE loc[r].op = "create"
    <2>1. x = loc[r].new /\ i = r
      BY <1>1, <1>4 DEF Written, LocAt
    <2>2. Refs(x)
      BY <1>3, <1>4, <2>1, RefKindsAre DEF Wanted, Refs
    <2> QED
      BY <1>1, <1>3, <1>4, <2>1, <2>2
  <1>5. CASE loc[r].op = "edit"
    <2>1. PICK old, new, now : old = loc[r].row /\ new = loc[r].new /\ now = row[i]
      OBVIOUS
    <2>2. /\ old \in Row(Kinds, Tags) /\ old.version > 0 /\ new.kind = old.kind
          /\ now.kind \in {new.kind, "none"}
          /\ new.kind # "person" => new.of = old.of /\ (now.kind # "none" => now.of = old.of)
          /\ new.kind \in Kept => /\ new.version = old.version + 1
                                  /\ now.kind = new.kind /\ old.version <= now.version
                                  /\ old.version = now.version => now = StillThere(old)
      BY <1>1, <1>5, <2>1 DEF EditAt
    <2>3. new \in Row(Kinds, Tags) /\ new.version > 0 /\ Wanted(new)
      BY <1>3, <1>5, <2>1
    <2>4. IF new.kind \in Versioned THEN now.version = old.version ELSE now.kind # "none"
      BY <1>5, <2>1 DEF Accepted, Found, Fresh, Exists
    <2>5. now.kind # "none"
      BY <1>1, <2>1, <2>2, <2>4, RowIs, NoRowIs
    <2>6. now \in Row(Kinds, Tags) /\ Refs(now) /\ now.kind = new.kind
      BY <1>1, <2>1, <2>2, <2>5, RowIs DEF RowsOK
    <2>7. x = ChangedColumns(r)
      BY <1>5 DEF Written
    <2>8. /\ x \in Row(Kinds, Tags) /\ x.kind = now.kind /\ x.version = new.version
          /\ x.of = (IF new.of = old.of THEN now.of ELSE new.of)
          /\ x.on = (IF new.on = old.on THEN now.on ELSE new.on)
      BY <2>1, <2>2, <2>3, <2>6, <2>7, ChangedIs
    <2>9. x.kind # "person" => x.of = now.of
      BY <2>2, <2>6, <2>8
    <2>10. Refs(x)
      <3>1. CASE x.kind # "person"
        BY <2>6, <2>8, <2>9, <3>1 DEF Refs
      <3>2. CASE x.kind = "person" /\ x.of = now.of
        BY <2>6, <2>8, <3>2 DEF Refs
      <3>3. CASE x.kind = "person" /\ x.of = new.of
        <4>1. \A p \in x.of : row[p].kind = "address"
          BY <1>3, <1>5, <2>3, <2>6, <2>8, <3>3 DEF Wanted
        <4> QED
          BY <3>3, <4>1, RefKindsAre DEF Refs
      <3> QED
        BY <2>8, <3>1, <3>2, <3>3
    <2>11. x.kind \in Kept => x.version = now.version + 1 /\ now = StillThere(old)
      BY <2>2, <2>4, <2>6, <2>8 DEF Kept, Versioned
    <2> QED
      BY <1>1, <1>5, <2>1, <2>3, <2>5, <2>8, <2>9, <2>10, <2>11
  <1>6. CASE loc[r].op = "keep"
    BY <1>1, <1>6 DEF LocAt, Written
  <1> QED
    BY <1>1, <1>2, <1>4, <1>5, <1>6

(* The other rows *)
LEMMA OtherRow ==
  ASSUME IInv, NEW r \in Reqs, Accepted(r), NEW j \in Ids, j # loc[r].id
  PROVE  /\ loc[r].op = "remove" /\ row[j].kind = "person" =>
              row'[j] = [row[j] EXCEPT !.of = row[j].of \ {loc[r].id}] /\ j \notin loc[r].hit
         /\ ~(loc[r].op = "remove" /\ row[j].kind = "person") =>
              \/ /\ j \in loc[r].hit /\ row[j].kind = "guardian"
                 /\ row'[j] = [row[j] EXCEPT !.on = FALSE]
              \/ row'[j] = row[j] /\ (j \in loc[r].hit => row[j].kind = "none")
  <1>1. \A k \in loc[r].hit : row[k].kind \in {"guardian", "none"}
    BY DEF IInv, At, LocAt, Accepted
  <1>2. row'[j] = IF loc[r].op = "remove" /\ row[j].kind = "person"
                    THEN [row[j] EXCEPT !.of = row[j].of \ {loc[r].id}]
                  ELSE IF j \in loc[r].hit /\ row[j].kind # "none" THEN [row[j] EXCEPT !.on = FALSE]
                  ELSE row[j]
    BY DEF Accepted, Effects, Exists
  <1> QED
    BY <1>1, <1>2

LEMMA RestAfter ==
  ASSUME IInv, NEW r \in Reqs, Accepted(r), NEW j \in Ids, j # loc[r].id
  PROVE  /\ row'[j] \in Row(Kinds, Tags) \cup {NoRow}
         /\ row'[j].kind = row[j].kind /\ row'[j].tag = row[j].tag
         /\ row'[j].version = row[j].version
         /\ row'[j].on => row[j].on /\ (j \in loc[r].hit => row[j].kind = "none")
         /\ loc[r].op # "remove" \/ row[j].kind # "person" => row'[j].of = row[j].of
         /\ loc[r].op = "remove" /\ row[j].kind = "person" => row'[j].of = row[j].of \ {loc[r].id}
  <1>1. RowsOK
    BY DEF IInv
  <1>2. CASE loc[r].op = "remove" /\ row[j].kind = "person"
    <2>1. row'[j] = [row[j] EXCEPT !.of = row[j].of \ {loc[r].id}] /\ j \notin loc[r].hit
      BY <1>2, OtherRow
    <2>2. row[j] \in Row(Kinds, Tags) /\ row[j].of \ {loc[r].id} \in SUBSET Ids
      BY <1>1, <1>2, RowIs
    <2> QED
      BY <1>2, <2>1, <2>2 DEF Row
  <1>3. CASE /\ ~(loc[r].op = "remove" /\ row[j].kind = "person")
             /\ row[j].kind = "guardian" /\ row'[j] = [row[j] EXCEPT !.on = FALSE]
    <2>1. row[j] \in Row(Kinds, Tags)
      BY <1>1, <1>3, RowIs
    <2> QED
      BY <1>3, <2>1 DEF Row
  <1>4. CASE /\ ~(loc[r].op = "remove" /\ row[j].kind = "person")
             /\ row'[j] = row[j] /\ (j \in loc[r].hit => row[j].kind = "none")
    BY <1>1, <1>4 DEF RowsOK
  <1> QED
    BY <1>2, <1>3, <1>4, OtherRow

(* Persons, students and parents lose an address at most. *)
LEMMA KeptAfter ==
  ASSUME IInv, NEW r \in Reqs, Accepted(r), NEW j \in Ids, j # loc[r].id, row[j].kind \in Kept
  PROVE  /\ loc[r].op # "remove" \/ row[j].kind # "person" => row'[j] = row[j]
         /\ loc[r].op = "remove" /\ row[j].kind = "person" =>
              row'[j] = [row[j] EXCEPT !.of = row[j].of \ {loc[r].id}]
  BY OtherRow DEF Kept

(* Records that others refer to stay; none comes back. *)
LEMMA Evolution ==
  ASSUME IInv, NEW r \in Reqs, Accepted(r), NEW p \in Ids
  PROVE  /\ row[p].kind \in Kept => row'[p].kind = row[p].kind
         /\ row[p].kind # "none" => row'[p].kind \in {row[p].kind, "none"}
         /\ row[p].kind = "none" /\ Settled(p) => row'[p].kind = "none"
         /\ row[p].kind \notin {"none", "person"} /\ row'[p].kind # "none" => row'[p].of = row[p].of
         /\ loc[r].op # "remove" /\ row[p].kind # "none" => row'[p].kind = row[p].kind
  <1>1. CASE p # loc[r].id
    BY <1>1, RestAfter
  <1>2. CASE p = loc[r].id
    <2>1. PICK x : x = Written(r)
      OBVIOUS
    <2>2. Settled(p) => p # r
      BY DEF Settled, Accepted
    <2> QED
      BY <1>2, <2>1, <2>2, OwnAfter, NoRowIs
  <1> QED
    BY <1>1, <1>2

LEMMA RefsAfter ==
  ASSUME IInv, NEW r \in Reqs, Accepted(r), NEW x, x.of \in SUBSET Ids
  PROVE  /\ Refs(x) /\ x.kind # "person" => Refs(x)'
         /\ Refs(x) /\ loc[r].op # "remove" => Refs(x)'
         /\ Wanted(x) => Wanted(x)'
  <1>1. /\ pc' = [pc EXCEPT ![r] = "done"] /\ CtlOK
    BY DEF Accepted, Finish, IInv
  <1>2. \A p : Settled(p) => Settled(p)'
    BY <1>1 DEF Settled, CtlOK
  <1>3. ASSUME Refs(x), x.kind # "person"
        PROVE  Refs(x)'
    <2>1. \A p \in x.of : row'[p].kind = row[p].kind
      BY <1>3, Evolution, RefKindsAre DEF Refs
    <2> QED
      BY <1>3, <2>1 DEF Refs
  <1>4. ASSUME Refs(x), loc[r].op # "remove"
        PROVE  Refs(x)'
    <2>1. \A p \in x.of : row[p].kind # "none"
      BY <1>4, RefKindsAre, NoRowIs DEF Refs
    <2>2. \A p \in x.of : row'[p].kind = row[p].kind
      BY <1>4, <2>1, Evolution
    <2> QED
      BY <1>4, <2>2 DEF Refs
  <1>5. ASSUME Wanted(x), x.kind = "person"
        PROVE  Wanted(x)'
    <2>1. \A p \in x.of : row'[p].kind \in {"address", "none"}
      BY <1>5, Evolution DEF Wanted
    <2> QED
      BY <1>2, <1>5, <2>1 DEF Wanted
  <1> QED
    BY <1>3, <1>4, <1>5 DEF Wanted

LEMMA RowsAfter ==
  ASSUME IInv, NEW r \in Reqs, Accepted(r)
  PROVE  RowsOK'
  <1>1. PICK i, x : i = loc[r].id /\ x = Written(r)
    OBVIOUS
  <1>2. RowsOK
    BY DEF IInv
  <1>3. /\ i \in Ids /\ row'[i] = x
        /\ loc[r].op \in {"create", "edit", "keep", "remove"}
        /\ loc[r].op = "keep" => x = row[i]
        /\ loc[r].op = "remove" => x = NoRow
        /\ loc[r].op \in {"create", "edit"} => x \in Row(Kinds, Tags) /\ x.version > 0 /\ Refs(x)
    BY <1>1, OwnAfter
  <1>4. ASSUME NEW j \in Ids, j # i
        PROVE  /\ row'[j] \in Row(Kinds, Tags) \cup {NoRow}
               /\ row'[j].kind = row[j].kind /\ row'[j].version = row[j].version
               /\ row'[j].of = IF loc[r].op = "remove" /\ row[j].kind = "person"
                                 THEN row[j].of \ {i} ELSE row[j].of
    <2>1. j # loc[r].id
      BY <1>1, <1>4
    <2> QED
      BY <1>1, <1>4, <2>1, RestAfter
  <1>5. row' \in [Ids -> Row(Kinds, Tags) \cup {NoRow}]
    <2>1. row' = [j \in Ids |-> row'[j]]
      BY DEF Accepted, Effects
    <2>2. \A j \in Ids : row'[j] \in Row(Kinds, Tags) \cup {NoRow}
      BY <1>2, <1>3, <1>4 DEF RowsOK
    <2> QED
      BY <2>1, <2>2
  <1>6. ASSUME NEW j \in Ids
        PROVE  (Refs(row[j]) /\ (row[j].kind # "none" => row[j].version > 0))'
    <2>1. PICK y : y = row'[j]
      OBVIOUS
    <2>2. CASE j = i /\ loc[r].op = "remove"
      BY <1>3, <2>2, NoRowIs DEF Refs
    <2>3. CASE j = i /\ loc[r].op # "remove"
      <3>1. y = x /\ y.of \in SUBSET Ids /\ Refs(y) /\ (y.kind # "none" => y.version > 0)
        BY <1>2, <1>3, <2>1, <2>3, RowFields, RowIs DEF RowsOK
      <3>2. Refs(y)'
        BY <2>3, <3>1, RefsAfter
      <3> QED
        BY <2>1, <3>1, <3>2 DEF Refs
    <2>4. CASE j # i
      <3>1. PICK z : z = row[j]
        OBVIOUS
      <3>2. /\ Refs(z) /\ z.of \in SUBSET Ids /\ (z.kind # "none" => z.version > 0)
            /\ y.kind = z.kind /\ y.version = z.version
            /\ y.of = IF loc[r].op = "remove" /\ z.kind = "person" THEN z.of \ {i} ELSE z.of
        BY <1>2, <1>4, <2>1, <2>4, <3>1, RowIs DEF RowsOK
      <3>3. CASE ~(loc[r].op = "remove" /\ z.kind = "person")
        <4>1. Refs(z)'
          BY <3>2, <3>3, RefsAfter
        <4> QED
          BY <2>1, <3>2, <3>3, <4>1 DEF Refs
      <3>4. CASE loc[r].op = "remove" /\ z.kind = "person"
        <4>1. \A p \in y.of : p # i /\ row[p].kind = "address" /\ p \in Ids
          BY <3>2, <3>4, RefKindsAre DEF Refs
        <4>2. \A p \in y.of : row'[p].kind = "address"
          BY <1>4, <4>1
        <4> QED
          BY <2>1, <3>2, <3>4, <4>2, RefKindsAre DEF Refs
      <3> QED
        BY <3>3, <3>4
    <2> QED
      BY <2>2, <2>3, <2>4
  <1> QED
    BY <1>5, <1>6 DEF RowsOK

(* Who else is a guardian of the same student: nobody new among records    *)
(* that were there.                                                        *)
LEMMA OthersAfter ==
  ASSUME IInv, NEW r \in Reqs, Accepted(r), NEW g, NEW k, g.of \in SUBSET Ids,
         \A s \in g.of : row[s].kind \in Kept
  PROVE  \A j \in Others(g, k)' : row[j].kind # "none" => j \in Others(g, k)
  <1>1. SUFFICES ASSUME NEW j \in Others(g, k)', row[j].kind # "none"
                 PROVE  j \in Others(g, k)
    OBVIOUS
  <1>2. /\ j \in Ids /\ row'[j].kind = "guardian" /\ j # k
        /\ \A s \in g.of : row'[s].kind = "student" => s \in row'[j].of
    BY DEF Others, Of
  <1>3. row[j].kind = "guardian" /\ row'[j].of = row[j].of
    BY <1>1, <1>2, Evolution
  <1>4. \A s \in g.of : row'[s].kind = row[s].kind
    BY Evolution
  <1> QED
    BY <1>2, <1>3, <1>4 DEF Others, Of

(* What another request was about to do holds after the write. *)
LEMMA OtherRequest ==
  ASSUME IInv, NEW r \in Reqs, Accepted(r), NEW q \in Reqs, q # r
  PROVE  At(q)'
  <1>1. /\ CtlOK /\ RowsOK /\ LocAt(q) /\ EditAt(q) /\ Known(q) /\ MadeAt(q)
    BY DEF IInv, At
  <1>2. /\ pc' = [pc EXCEPT ![r] = "done"] /\ loc' = [loc EXCEPT ![r] = NoLocal]
        /\ raced' = [p \in Reqs |-> p # r /\ (raced[p] \/ pc[p] \notin {"idle", "done"})]
    BY DEF Accepted, Finish
  <1>3. /\ pc'[q] = pc[q] /\ loc'[q] = loc[q]
        /\ pc[q] \in {"unset", "write"} => raced'[q]
        /\ \A p : Settled(p) => Settled(p)'
    BY <1>1, <1>2 DEF CtlOK, Settled
  <1>4. PICK i, x : i = loc[r].id /\ x = Written(r)
    OBVIOUS
  <1>5. /\ i \in Ids /\ row[r].kind = "none" /\ row'[i] = x
        /\ loc[r].op \in {"create", "edit", "keep", "remove"}
        /\ loc[r].op = "create" => i = r
        /\ loc[r].op = "keep" => x = row[i]
        /\ loc[r].op = "remove" => x = NoRow /\ row[i].kind \notin Kept
        /\ loc[r].op = "edit" =>
              /\ row[i].kind # "none" /\ x.kind = row[i].kind
              /\ x.kind \in Kept => x.version = row[i].version + 1
    BY <1>4, OwnAfter
  <1>6. q \in Ids /\ (pc[q] # "done" => q # i)
    <2>1. i # r => Settled(i)
      BY <1>4 DEF IInv, At, LocAt, Accepted
    <2> QED
      BY <2>1, Named DEF Settled
  <1>7. MadeAt(q)'
    <2>1. SUFFICES ASSUME pc[q] # "done" PROVE row'[q] = NoRow
      BY <1>3 DEF MadeAt
    <2>2. q # loc[r].id /\ row[q].kind = "none"
      BY <1>1, <1>4, <1>6, <2>1, NoRowIs DEF MadeAt
    <2>3. row'[q].kind = "none" /\ row'[q] \in Row(Kinds, Tags) \cup {NoRow}
      BY <1>6, <2>2, RestAfter
    <2> QED
      BY <2>3, RowFields
  <1>8. SUFFICES ASSUME pc[q] \in {"unset", "write"}
                 PROVE  LocAt(q)' /\ EditAt(q)' /\ Known(q)'
    BY <1>3, <1>7 DEF At, LocAt, EditAt, Known, Unraced, Takes
  <1>9. LocAt(q)'
    <2>1. \A j \in loc[q].hit : row'[j].kind \in {"guardian", "none"} /\ Settled(j)'
      <3>1. loc[q].hit \in SUBSET Ids
        BY <1>1 DEF CtlOK, LocType
      <3> QED
        BY <1>1, <1>3, <1>8, <3>1, Evolution DEF LocAt
    <2>2. loc[q].op = "remove" => row'[loc[q].id].kind \notin Kept
      <3>1. loc[q].op = "remove" =>
              loc[q].id \in Ids /\ Settled(loc[q].id) /\ row[loc[q].id].kind \notin Kept
        BY <1>1, <1>8, Named DEF LocAt
      <3> QED
        BY <3>1, Evolution, NoRowIs
    <2>3. loc[q].op # "remove" => Wanted(loc[q].new)'
      <3>1. PICK y : y = loc[q].new
        OBVIOUS
      <3>2. loc[q].op # "remove" => Wanted(y) /\ y.of \in SUBSET Ids
        BY <1>1, <1>8, <3>1, RowFields DEF LocAt
      <3>3. loc[q].op # "remove" => Wanted(y)'
        BY <3>2, RefsAfter
      <3> QED
        BY <1>3, <3>1, <3>3 DEF Wanted, Refs
    <2> QED
      BY <1>1, <1>3, <1>8, <2>1, <2>2, <2>3 DEF LocAt
  <1>10. EditAt(q)'
    <2>1. SUFFICES ASSUME loc[q].op = "edit" PROVE EditAt(q)'
      BY <1>3 DEF EditAt
    <2>2. PICK old, new, d : old = loc[q].row /\ new = loc[q].new /\ d = loc[q].id
      OBVIOUS
    <2>3. /\ old \in Row(Kinds, Tags) /\ old.version > 0 /\ Wanted(old)
          /\ new.kind = old.kind /\ row[d].kind \in {new.kind, "none"}
          /\ new.kind # "person" => new.of = old.of /\ (row[d].kind # "none" => row[d].of = old.of)
          /\ new.kind \in Kept => /\ new.version = old.version + 1
                                  /\ row[d].kind = new.kind /\ old.version <= row[d].version
                                  /\ old.version = row[d].version => row[d] = StillThere(old)
      BY <1>1, <1>8, <2>1, <2>2 DEF EditAt
    <2>4. d \in Ids /\ Settled(d) /\ old.of \in SUBSET Ids /\ old.version \in Nat
      BY <1>1, <1>8, <2>1, <2>2, <2>3, RowFields DEF LocAt
    <2>5. Wanted(old)'
      BY <2>3, <2>4, RefsAfter
    <2>6. row'[d].kind \in {new.kind, "none"}
      BY <2>3, <2>4, Evolution
    <2>7. new.kind # "person" /\ row'[d].kind # "none" => row'[d].of = old.of
      BY <2>3, <2>4, Evolution
    <2>8. ASSUME new.kind \in Kept
          PROVE  /\ row'[d].kind = new.kind /\ old.version <= row'[d].version
                 /\ old.version = row'[d].version => row'[d] = [old EXCEPT !.of = {a \in old.of : row'[a].kind # "none"}]
      <3>1. /\ row[d].kind = new.kind /\ row[d].kind # "none" /\ row[d] \in Row(Kinds, Tags)
            /\ row[d].version \in Nat /\ old.version <= row[d].version
            /\ old.version = row[d].version => row[d] = StillThere(old)
        BY <1>1, <2>3, <2>4, <2>8, RowIs, RowFields, NoRowIs
      <3>2. CASE d = i
        <4>1. loc[r].op \in {"edit", "keep"}
          BY <1>5, <2>8, <3>1, <3>2
        <4>2. CASE loc[r].op = "edit"
          <5>1. row'[d].kind = row[d].kind /\ row'[d].version = row[d].version + 1
            BY <1>5, <2>8, <3>1, <3>2, <4>2
          <5> QED
            BY <2>4, <3>1, <5>1
        <4>3. CASE loc[r].op = "keep"
          <5>1. row'[d] = row[d] /\ d = loc[r].id
            BY <1>4, <1>5, <3>2, <4>3
          <5>2. \A a \in old.of : row'[a].kind = row[a].kind
            <6>1. \A a \in old.of : a # d => row'[a].kind = row[a].kind
              BY <2>4, <5>1, RestAfter
            <6> QED
              BY <5>1, <6>1
          <5> QED
            BY <3>1, <5>1, <5>2 DEF StillThere, Exists
        <4> QED
          BY <4>1, <4>2, <4>3
      <3>3. CASE d # i
        <4>1. /\ row'[d].kind = row[d].kind /\ row'[d].version = row[d].version
              /\ row'[d] = IF loc[r].op = "remove" /\ row[d].kind = "person"
                             THEN [row[d] EXCEPT !.of = row[d].of \ {i}] ELSE row[d]
          <5>1. d # loc[r].id /\ row[d].kind \in Kept
            BY <1>4, <2>8, <3>1, <3>3
          <5>2. row'[d].kind = row[d].kind /\ row'[d].version = row[d].version
            BY <2>4, <5>1, RestAfter
          <5> QED
            BY <1>4, <2>4, <5>1, <5>2, KeptAfter
        <4>2. ASSUME old.version = row[d].version
              PROVE  row'[d] = [old EXCEPT !.of = {a \in old.of : row'[a].kind # "none"}]
          <5>1. PICK of : of = {a \in old.of : row[a].kind # "none"}
            OBVIOUS
          <5>2. row[d] = [old EXCEPT !.of = of] /\ row[d].of = of
            BY <2>3, <3>1, <4>2, <5>1 DEF StillThere, Exists, Row
          <5>3. ASSUME NEW a \in old.of, a # i
                PROVE  row'[a].kind # "none" <=> row[a].kind # "none"
            <6>1. a \in Ids /\ a # loc[r].id
              BY <1>4, <2>4, <5>3
            <6> QED
              BY <6>1, RestAfter
          <5>4. CASE loc[r].op = "remove" /\ row[d].kind = "person"
            <6>1. row'[i].kind = "none"
              BY <1>5, <5>4, NoRowIs
            <6>2. of \ {i} = {a \in old.of : row'[a].kind # "none"}
              BY <5>1, <5>3, <6>1
            <6>3. row'[d] = [old EXCEPT !.of = of \ {i}]
              BY <2>3, <4>1, <5>2, <5>4 DEF Row
            <6> QED
              BY <6>2, <6>3
          <5>5. CASE ~(loc[r].op = "remove" /\ row[d].kind = "person")
            <6>1. i \in old.of => (row'[i].kind # "none" <=> row[i].kind # "none")
              <7>1. CASE loc[r].op = "create"
                <8>1. i \in old.of => Settled(i) \/ row[i].kind \in Kept
                  BY <2>3, RefKindsAre DEF Wanted, Refs
                <8> QED
                  BY <1>5, <7>1, <8>1, NoRowIs DEF Settled, Accepted
              <7>2. CASE loc[r].op \in {"edit", "keep"}
                BY <1>5, <7>2
              <7>3. CASE loc[r].op = "remove"
                <8>1. old.kind # "person" /\ \A a \in old.of : row[a].kind \in Kept
                  BY <2>3, <3>1, <5>5, <7>3, RefKindsAre DEF Wanted, Refs
                <8> QED
                  BY <1>5, <7>3, <8>1
              <7> QED
                BY <1>5, <7>1, <7>2, <7>3
            <6>2. of = {a \in old.of : row'[a].kind # "none"}
              BY <5>1, <5>3, <6>1
            <6> QED
              BY <4>1, <5>2, <5>5, <6>2
          <5> QED
            BY <5>4, <5>5
        <4> QED
          BY <3>1, <4>1, <4>2
      <3> QED
        BY <3>2, <3>3
    <2>9. StillThere(old)' = [old EXCEPT !.of = {a \in old.of : row'[a].kind # "none"}]
      BY DEF StillThere, Exists
    <2>10. /\ loc'[q].row = old /\ loc'[q].new = new /\ loc'[q].id = d /\ loc'[q].op = "edit"
      BY <1>3, <2>1, <2>2
    <2>11. StillThere(loc[q].row)' = [old EXCEPT !.of = {a \in old.of : row'[a].kind # "none"}]
      BY <2>10 DEF StillThere, Exists
    <2>12. Wanted(loc[q].row)'
      BY <2>5, <2>10 DEF Wanted, Refs
    <2> QED
      BY <2>3, <2>6, <2>7, <2>8, <2>10, <2>11, <2>12 DEF EditAt
  <1>11. Known(q)'
    <2>1. SUFFICES ASSUME Takes(q)
                   PROVE  Others(loc[q].new, loc[q].id)' \cap Seeds \subseteq loc'[q].hit
      BY <1>3 DEF Known, Takes
    <2>2. PICK g, k : g = loc[q].new /\ k = loc[q].id
      OBVIOUS
    <2>3. g.of \in SUBSET Ids /\ \A s \in g.of : row[s].kind \in Kept
      <3>1. loc[q].op # "remove"
        BY <1>1, <2>1, NoRowIs DEF LocAt, Takes
      <3>2. g \in Row(Kinds, Tags) /\ Wanted(g) /\ g.kind = "guardian"
        BY <1>1, <2>1, <2>2, <3>1 DEF LocAt, Takes
      <3> QED
        BY <3>2, RowFields, RefKindsAre DEF Wanted, Refs, Kept
    <2>4. \A j \in Seeds : j \in Others(g, k)' => row[j].kind # "none"
      <3>1. SUFFICES ASSUME NEW j \in Seeds, j \in Others(g, k)', row[j].kind = "none"
                     PROVE  FALSE
        OBVIOUS
      <3>2. Settled(j) /\ j \in Ids
        BY Named DEF Settled
      <3> QED
        BY <3>1, <3>2, Evolution DEF Others, Of
    <2>5. Others(g, k)' \cap Seeds \subseteq Others(g, k)
      BY <2>3, <2>4, OthersAfter
    <2>6. Others(g, k) \cap Seeds \subseteq loc[q].hit
      BY <1>1, <2>1, <2>2 DEF Known
    <2>7. Others(loc[q].new, loc[q].id)' = Others(g, k)'
      BY <1>3, <2>2 DEF Others
    <2> QED
      BY <1>3, <2>5, <2>6, <2>7
  <1> QED
    BY <1>9, <1>10, <1>11

LEMMA WrittenType ==
  ASSUME IInv, NEW r \in Reqs, Accepted(r)
  PROVE  /\ CtlOK' /\ At(r)' /\ out'[r] = "written"
         /\ \A q \in Reqs : q # r => out'[q] = out[q]
  <1>1. /\ pc' = [pc EXCEPT ![r] = "done"] /\ loc' = [loc EXCEPT ![r] = NoLocal]
        /\ out' = [out EXCEPT ![r] = "written"] /\ CtlOK
        /\ raced' = [q \in Reqs |-> q # r /\ (raced[q] \/ pc[q] \notin {"idle", "done"})]
    BY DEF Accepted, Finish, IInv
  <1>2. raced' \in [Reqs -> BOOLEAN]
    BY <1>1
  <1>3. /\ pc' \in [Reqs -> {"idle", "unset", "write", "done"}] /\ loc' \in [Reqs -> LocType]
        /\ out' \in [Reqs -> {"none", "refused", "aborted", "error", "written"}]
    BY <1>1, NoLocalType DEF CtlOK
  <1>4. pc'[r] = "done" /\ out'[r] = "written"
    BY <1>1 DEF CtlOK
  <1>5. \A q \in Reqs : q # r => pc'[q] = pc[q] /\ out'[q] = out[q]
    BY <1>1 DEF CtlOK
  <1>6. CtlOK'
    BY <1>1, <1>2, <1>3, <1>4, <1>5 DEF CtlOK
  <1> QED
    BY <1>4, <1>5, <1>6 DEF At, LocAt, EditAt, Known, Unraced, Takes, MadeAt

(* The unique constraints keep the written row apart from the others. *)
LEMMA WrittenApart ==
  ASSUME IInv, NEW r \in Reqs, Accepted(r), NEW i, i = loc[r].id, NEW j \in Ids, i # j,
         loc[r].op # "keep", row'[i].kind # "none", row'[i].kind = row'[j].kind
  PROVE  /\ row'[i].kind \in {"student", "parent", "guardian", "link"} => row'[i].of # row'[j].of
         /\ row'[i].kind = "student" => row'[i].tag # row'[j].tag
         /\ row'[i].kind = "contact" => row'[i].of # row'[j].of \/ row'[i].tag # row'[j].tag
  <1>1. PICK x : x = Written(r)
    OBVIOUS
  <1>2. row'[i] = x /\ loc[r].op # "remove"
    BY <1>1, OwnAfter, NoRowIs
  <1>3. KeyFree(i, x)
    BY <1>1, <1>2, OwnAfter DEF Accepted
  <1>4. /\ row'[j].kind = row[j].kind /\ row'[j].tag = row[j].tag
        /\ row[j].kind # "person" => row'[j].of = row[j].of
    BY RestAfter
  <1> QED
    BY <1>2, <1>3, <1>4 DEF KeyFree

LEMMA DistinctAfter ==
  ASSUME IInv, NEW r \in Reqs, Accepted(r)
  PROVE  HouseholdsDistinct'
  <1>1. SUFFICES ASSUME NEW i \in Ids, NEW j \in Ids, i # j,
                        row'[i].kind # "none", row'[i].kind = row'[j].kind
                 PROVE  /\ row'[i].kind \in {"student", "parent", "guardian", "link"} =>
                             row'[i].of # row'[j].of
                        /\ row'[i].kind = "student" => row'[i].tag # row'[j].tag
                        /\ row'[i].kind = "contact" =>
                             row'[i].of # row'[j].of \/ row'[i].tag # row'[j].tag
    BY DEF HouseholdsDistinct, Exists
  <1>2. CASE i = loc[r].id /\ loc[r].op # "keep"
    BY <1>1, <1>2, WrittenApart
  <1>3. CASE j = loc[r].id /\ loc[r].op # "keep"
    BY <1>1, <1>3, WrittenApart
  <1>4. CASE (i # loc[r].id /\ j # loc[r].id) \/ loc[r].op = "keep"
    <2>1. \A k \in {i, j} : /\ row'[k].kind = row[k].kind /\ row'[k].tag = row[k].tag
                            /\ row[k].kind # "person" => row'[k].of = row[k].of
      <3>1. loc[r].op = "keep" => row'[loc[r].id] = row[loc[r].id]
        BY OwnAfter
      <3> QED
        BY <1>1, <1>4, <3>1, RestAfter
    <2>2. HouseholdsDistinct
      BY DEF IInv
    <2> QED
      BY <1>1, <2>1, <2>2 DEF HouseholdsDistinct, Exists
  <1> QED
    BY <1>2, <1>3, <1>4

(* Who is made primary refers to the same student as the request wanted,   *)
(* and the others are among those that the request has found or could have *)
(* found.                                                                  *)
LEMMA TakenAfter ==
  ASSUME IInv, NEW r \in Reqs, Accepted(r), Takes(r), NEW i, i = loc[r].id,
         NEW x, x = Written(r)
  PROVE  /\ row'[i] = x /\ x.kind = "guardian" /\ x.on
         /\ Others(x, i)' \subseteq Others(loc[r].new, i)
         /\ \A j \in loc[r].hit : row'[j].kind = "guardian" => ~row'[j].on \/ j = i
  <1>1. PICK new : new = loc[r].new
    OBVIOUS
  <1>2. /\ LocAt(r) /\ EditAt(r) /\ CtlOK /\ pc[r] = "write"
        /\ new.kind = "guardian" /\ new.on /\ ~loc[r].row.on
    BY <1>1 DEF IInv, At, Takes
  <1>3. loc[r].op \notin {"keep", "remove"}
    BY <1>1, <1>2, NoRowIs DEF LocAt
  <1>4. /\ row'[i] = x /\ x.kind = "guardian" /\ x.on /\ x.of = new.of /\ i \in Ids
        /\ x \in Row(Kinds, Tags) /\ Refs(x)
    <2>1. CASE loc[r].op = "create"
      BY <1>1, <1>2, <2>1, OwnAfter
    <2>2. CASE loc[r].op = "edit"
      <3>1. /\ row'[i] = x /\ row[i].kind # "none" /\ x.kind = row[i].kind
            /\ x.kind # "person" => x.of = row[i].of
            /\ x.on = (IF loc[r].new.on = loc[r].row.on THEN row[i].on ELSE loc[r].new.on)
            /\ i \in Ids /\ x \in Row(Kinds, Tags) /\ Refs(x)
        BY <1>1, <2>2, OwnAfter
      <3>2. /\ row[i].kind \in {new.kind, "none"}
            /\ new.kind # "person" /\ row[i].kind # "none" => row[i].of = new.of
        BY <1>1, <1>2, <2>2 DEF EditAt
      <3>3. x.on
        BY <1>1, <1>2, <3>1
      <3> QED
        BY <1>2, <3>1, <3>2, <3>3
    <2> QED
      BY <1>1, <1>3, <2>1, <2>2, OwnAfter
  <1>5. x.of \in SUBSET Ids /\ \A s \in x.of : row'[s].kind = row[s].kind
    BY <1>4, RowFields, Evolution, RefKindsAre DEF Refs
  <1>6. ASSUME NEW j \in Others(x, i)'
        PROVE  j \in Others(new, i)
    <2>1. /\ j \in Ids /\ row'[j].kind = "guardian" /\ j # i
          /\ \A s \in x.of : row'[s].kind = "student" => s \in row'[j].of
      BY <1>6 DEF Others, Of
    <2>2. row'[j].kind = row[j].kind /\ (row[j].kind # "person" => row'[j].of = row[j].of)
      BY <2>1, RestAfter
    <2> QED
      BY <1>4, <1>5, <2>1, <2>2 DEF Others, Of
  <1>7. ASSUME NEW j \in loc[r].hit, j # i
        PROVE  row'[j].kind = "guardian" => ~row'[j].on
    <2>1. j \in Ids
      BY <1>2, <1>7 DEF CtlOK, LocType
    <2> QED
      BY <1>7, <2>1, RestAfter
  <1> QED
    BY <1>1, <1>4, <1>6, <1>7

LEMMA SameStudentBoth ==
  ASSUME RowsOK, NEW i \in Ids, NEW j \in Ids,
         row[i].kind = "guardian", row[j].kind = "guardian", SameStudent(i, j)
  PROVE  SameStudent(j, i)
  <1>1. PICK s, p \in Ids : row[i].of = {s, p} /\ row[s].kind = "student" /\ row[p].kind = "person"
    BY DEF RowsOK, Refs
  <1>2. PICK t, q \in Ids : row[j].of = {t, q} /\ row[t].kind = "student" /\ row[q].kind = "person"
    BY DEF RowsOK, Refs
  <1>3. j # i /\ s \in row[j].of
    BY <1>1 DEF SameStudent, Others, Of
  <1>4. s = t
    BY <1>1, <1>2, <1>3
  <1> QED
    BY <1>1, <1>2, <1>3, <1>4 DEF SameStudent, Others, Of

(* Guardians that were there are guardians of the same student as before. *)
LEMMA SeedsBefore ==
  ASSUME IInv, NEW r \in Reqs, Accepted(r), NEW i \in Seeds, NEW j \in Seeds,
         row'[i].kind = "guardian", SameStudent(i, j)'
  PROVE  /\ row[i].kind = "guardian" /\ row[j].kind = "guardian" /\ row'[j].kind = "guardian"
         /\ SameStudent(i, j)
  <1>1. /\ i \in Ids /\ j \in Ids /\ Settled(i) /\ Settled(j) /\ row'[j].kind = "guardian" /\ j # i
        /\ \A s \in row'[i].of : row'[s].kind = "student" => s \in row'[j].of
    BY Named DEF Settled, SameStudent, Others, Of
  <1>2. /\ row[i].kind = "guardian" /\ row[j].kind = "guardian"
        /\ row'[i].of = row[i].of /\ row'[j].of = row[j].of
    BY <1>1, Evolution
  <1>3. \A s \in row[i].of : s \in Ids /\ row[s].kind \in Kept
    BY <1>1, <1>2, RowIs, RefKindsAre DEF IInv, RowsOK, Refs
  <1>4. \A s \in row[i].of : row'[s].kind = row[s].kind
    BY <1>3, Evolution
  <1> QED
    BY <1>1, <1>2, <1>4 DEF SameStudent, Others, Of

(* The two are not both primary when the first, or neither, is written. *)
LEMMA SeedsAfter ==
  ASSUME IInv, NEW r \in Reqs, Accepted(r), NEW i \in Seeds, NEW j \in Seeds,
         row[i].kind = "guardian", row'[i].kind = "guardian",
         row[j].kind = "guardian", row'[j].kind = "guardian", SameStudent(i, j), j # loc[r].id
  PROVE  ~(row'[i].on /\ row'[j].on)
  <1>1. j # i
    BY DEF SameStudent, Others
  <1>2. ~(row[i].on /\ row[j].on) /\ i \in Ids /\ j \in Ids
    BY Named DEF IInv, OnePrimaryAmongKnown
  <1>3. row'[j].on => row[j].on
    BY <1>2, RestAfter
  <1>4. CASE i # loc[r].id
    BY <1>2, <1>3, <1>4, RestAfter
  <1>5. CASE i = loc[r].id /\ loc[r].op = "keep"
    BY <1>2, <1>3, <1>5, OwnAfter
  <1>6. CASE i = loc[r].id /\ loc[r].op # "keep"
    <2>1. PICK x : x = Written(r)
      OBVIOUS
    <2>2. row'[i] = x /\ loc[r].op = "edit"
      BY <1>6, <2>1, OwnAfter, NoRowIs, Named
    <2>3. /\ x.on = (IF loc[r].new.on = loc[r].row.on THEN row[i].on ELSE loc[r].new.on)
          /\ LocAt(r) /\ EditAt(r) /\ Known(r) /\ pc[r] = "write"
      BY <1>6, <2>1, <2>2, OwnAfter DEF IInv, At, Accepted
    <2>4. /\ loc[r].new.kind = "guardian" /\ loc[r].new.of = row[i].of
          /\ loc[r].new \in Row(Kinds, Tags) /\ loc[r].row \in Row(Kinds, Tags)
      BY <1>6, <2>2, <2>3 DEF LocAt, EditAt
    <2>5. CASE ~Takes(r)
      <3>1. x.on => row[i].on
        BY <2>3, <2>4, <2>5, RowFields DEF Takes
      <3> QED
        BY <1>2, <1>3, <2>2, <3>1
    <2>6. CASE Takes(r)
      <3>1. j \in Others(loc[r].new, i)
        BY <2>4 DEF SameStudent, Others, Of
      <3>2. j \in loc[r].hit
        BY <1>6, <2>3, <2>6, <3>1 DEF Known
      <3> QED
        BY <1>1, <1>2, <3>2, NoRowIs, RestAfter
    <2> QED
      BY <2>5, <2>6
  <1> QED
    BY <1>4, <1>5, <1>6

LEMMA PrimaryAfter ==
  ASSUME IInv, NEW r \in Reqs, Accepted(r)
  PROVE  OnePrimaryAmongKnown'
  <1>1. SUFFICES ASSUME NEW i \in Seeds, NEW j \in Seeds, row'[i].kind = "guardian",
                        SameStudent(i, j)'
                 PROVE  ~(row'[i].on /\ row'[j].on)
    BY DEF OnePrimaryAmongKnown
  <1>2. /\ row[i].kind = "guardian" /\ row[j].kind = "guardian" /\ row'[j].kind = "guardian"
        /\ SameStudent(i, j)
    BY <1>1, SeedsBefore
  <1>3. SameStudent(j, i)
    BY <1>2, SameStudentBoth, Named DEF IInv
  <1>4. i # j
    BY <1>2 DEF SameStudent, Others
  <1>5. CASE j # loc[r].id
    BY <1>1, <1>2, <1>5, SeedsAfter
  <1>6. CASE j = loc[r].id
    BY <1>1, <1>2, <1>3, <1>4, <1>6, SeedsAfter
  <1> QED
    BY <1>5, <1>6

LEMMA WriteStep ==
  ASSUME IInv, NEW r \in Reqs, Write(r)
  PROVE  IInv'
  <1>1. CASE Accepted(r)
    BY <1>1, WrittenType, RowsAfter, DistinctAfter, PrimaryAfter, OtherRequest DEF IInv
  <1>2. CASE Finish(r, "error") /\ row' = row /\ raced' = [raced EXCEPT ![r] = FALSE]
    BY <1>2, Ending
  <1> QED
    BY <1>1, <1>2, WriteIs

-----------------------------------------------------------------------------
(* The invariant                                                           *)

LEMMA StepInv ==
  ASSUME IInv, NEW r \in Reqs, Step(r)
  PROVE  IInv'
  <1>1. CASE \E address : CreatePerson(r, address) \/ \E i \in Of("person") : EditPerson(r, i, address)
    BY <1>1, CreatePersonStep, EditPersonStep DEF Of
  <1>2. CASE \E i, target \in Of("person") : MergePerson(r, i, target)
    BY <1>2, MergePersonStep DEF Of
  <1>3. CASE \E owner \in Owners : CreateAddress(r, owner) \/ \E tag \in Contacts : CreateContact(r, owner, tag)
    BY <1>3, CreateOwnedStep
  <1>4. CASE \E i \in Ids, tag \in Contacts : EditContact(r, i, tag)
    BY <1>4, EditContactStep
  <1>5. CASE \E i \in Ids : EditAddress(r, i) \/ EditParent(r, i)
    BY <1>5, SameStep
  <1>6. CASE \E i \in Ids : DeletePerson(r, i) \/ DeleteStudent(r, i) \/ DeleteParent(r, i)
    BY <1>6, DeleteStep
  <1>7. CASE \E i \in Ids : RemoveAddress(r, i) \/ RemoveContact(r, i) \/ RemoveGuardian(r, i) \/ UnlinkParent(r, i)
    BY <1>7, RemoveStep
  <1>8. CASE \E p \in Ids : CreateParent(r, p) \/ \E n \in Numbers : CreateStudent(r, p, n)
    BY <1>8, CreateRoleStep
  <1>9. CASE \E s, p \in Ids, primary \in BOOLEAN : AddGuardian(r, s, p, primary)
    BY <1>9, AddGuardianStep
  <1>10. CASE \E i \in Ids, n \in Numbers : EditStudent(r, i, n)
    BY <1>10, EditStudentStep
  <1>11. CASE \E s, q \in Ids : LinkParent(r, s, q)
    BY <1>11, LinkStep
  <1>12. CASE \E i \in Ids : TouchGuardian(r, i) \/ \E primary \in BOOLEAN : EditGuardian(r, i, primary)
    BY <1>12, TouchGuardianStep, EditGuardianStep
  <1>13. CASE UnsetPrimary(r) \/ Write(r)
    BY <1>13, UnsetPrimaryStep, WriteStep
  <1>14. CASE Refuse(r) \/ Abort(r)
    BY <1>14, Ending DEF Refuse, Abort
  <1>15. \A kind : Of(kind) \subseteq Ids
    BY DEF Of
  <1> QED
    BY <1>1, <1>2, <1>3, <1>4, <1>5, <1>6, <1>7, <1>8, <1>9, <1>10, <1>11, <1>12, <1>13, <1>14, <1>15
       DEF Step

LEMMA NextInv ==
  IInv /\ [Next]_vars => IInv'
  <1>1. ASSUME IInv, UNCHANGED vars
        PROVE  IInv'
    <2>1. /\ row' = row /\ pc' = pc /\ loc' = loc /\ raced' = raced /\ out' = out
      BY <1>1 DEF vars
    <2>2. \A q \in Reqs : At(q)'
      BY <1>1, <2>1, OtherStays DEF IInv
    <2>3. CtlOK'
      BY <1>1, <2>1 DEF IInv, CtlOK
    <2> QED
      BY <1>1, <2>1, <2>2, <2>3, RecordsStay DEF IInv
  <1> QED
    BY <1>1, StepInv DEF Next

LEMMA InitInv ==
  Init => IInv
  <1> SUFFICES ASSUME Init PROVE IInv
    OBVIOUS
  <1>1. /\ pc = [r \in Reqs |-> "idle"] /\ loc = [r \in Reqs |-> NoLocal]
        /\ raced = [r \in Reqs |-> FALSE] /\ out = [r \in Reqs |-> "none"]
        /\ row = [i \in Ids |-> IF i \in Seeds THEN SeedRow[i] ELSE NoRow]
    BY DEF Init
  <1>2. CtlOK
    BY <1>1, NoLocalType DEF CtlOK
  <1>3. /\ \A i \in Seeds : /\ i \in Ids /\ row[i] = SeedRow[i] /\ row[i] \in Row(Kinds, Tags)
                            /\ row[i].kind # "none"
        /\ \A i \in Ids : i \notin Seeds => row[i] = NoRow /\ row[i].kind = "none"
    BY <1>1, SeedsFit, RowFields, NoRowIs, Named
  <1>4. ASSUME NEW i \in Seeds
        PROVE  Refs(row[i]) /\ row[i].version > 0 /\ row[i].of \subseteq Seeds
    <2>1. /\ row[i].version > 0 /\ row[i].of \subseteq Seeds
          /\ \A p \in row[i].of : SeedRow[p].kind \in RefKinds(row[i].kind)
          /\ row[i].kind = "guardian" =>
               \E s, p \in Seeds : /\ row[i].of = {s, p}
                                   /\ SeedRow[s].kind = "student" /\ SeedRow[p].kind = "person"
      BY <1>3, SeedsFit
    <2> QED
      BY <1>3, <2>1 DEF Refs
  <1>5. RowsOK
    <2>1. row \in [Ids -> Row(Kinds, Tags) \cup {NoRow}]
      BY <1>1, <1>3
    <2>2. \A i \in Ids : Refs(row[i]) /\ (row[i].kind # "none" => row[i].version > 0)
      BY <1>3, <1>4, NoRowIs
    <2> QED
      BY <2>1, <2>2 DEF RowsOK
  <1>6. HouseholdsDistinct
    <2>1. SUFFICES ASSUME NEW i \in Ids, NEW j \in Ids, i # j, row[i].kind # "none",
                          row[i].kind = row[j].kind
                   PROVE  /\ row[i].kind \in {"student", "parent", "guardian", "link"} => row[i].of # row[j].of
                          /\ row[i].kind = "student" => row[i].tag # row[j].tag
                          /\ row[i].kind = "contact" => row[i].of # row[j].of \/ row[i].tag # row[j].tag
      BY DEF HouseholdsDistinct, Exists
    <2>2. i \in Seeds /\ j \in Seeds /\ SeedRow[i] = row[i] /\ SeedRow[j] = row[j]
      BY <1>3, <2>1
    <2> QED
      BY <2>1, <2>2, SeedsDistinct
  <1>7. OnePrimaryAmongKnown
    <2>1. SUFFICES ASSUME NEW i \in Seeds, NEW j \in Seeds, row[i].kind = "guardian",
                          SameStudent(i, j), row[i].on, row[j].on
                   PROVE  FALSE
      BY DEF OnePrimaryAmongKnown
    <2>2. /\ i # j /\ row[j].kind = "guardian"
          /\ \A s \in row[i].of : row[s].kind = "student" => s \in row[j].of
      BY <2>1 DEF SameStudent, Others, Of
    <2>3. PICK s \in Ids : s \in row[i].of /\ row[s].kind = "student"
      BY <1>4, <2>1 DEF Refs
    <2>4. s \in Seeds /\ s \in row[i].of \cap row[j].of
      BY <1>4, <2>2, <2>3
    <2>5. SeedRow[i] = row[i] /\ SeedRow[j] = row[j] /\ SeedRow[s] = row[s]
      BY <1>3, <2>4
    <2> QED
      BY <2>1, <2>2, <2>3, <2>4, <2>5, SeedsDistinct
  <1>8. ASSUME NEW q \in Reqs
        PROVE  At(q)
    <2>1. pc[q] = "idle" /\ row[q] = NoRow
      BY <1>1, <1>3, Named
    <2> QED
      BY <2>1 DEF At, LocAt, EditAt, Known, Unraced, Takes, MadeAt
  <1> QED
    BY <1>2, <1>5, <1>6, <1>7, <1>8 DEF IInv

(* The records and the requests are well formed, the tables hold what the  *)
(* constraints promise, and a request that makes a guardian primary takes  *)
(* the flag from all that were there before it.                            *)
THEOREM InductiveInvariant == Spec => []IInv
  BY InitInv, NextInv, PTL DEF Spec

(* Records and requests are well formed; a reference leads to a record of  *)
(* the kind that it is meant for, whatever is deleted meanwhile.           *)
THEOREM TypeInvariant == Spec => []TypeOK
  <1>1. IInv => TypeOK
    BY Joined DEF IInv
  <1> QED
    BY <1>1, InductiveInvariant, PTL

(* The unique constraints keep students, parents, guardians, links and     *)
(* contacts apart, whatever the lookups of overlapping requests miss.      *)
THEOREM HouseholdsDistinctTheorem == Spec => []HouseholdsDistinct
  <1>1. IInv => HouseholdsDistinct
    BY DEF IInv
  <1> QED
    BY <1>1, InductiveInvariant, PTL

(* Guardians that the student had never end as two primary ones, however   *)
(* the requests that edit them overlap (_unset_primary).                   *)
THEOREM OnePrimaryTheorem == Spec => []OnePrimaryAmongKnown
  <1>1. IInv => OnePrimaryAmongKnown
    BY DEF IInv
  <1> QED
    BY <1>1, InductiveInvariant, PTL

-----------------------------------------------------------------------------
(* Steps                                                                   *)

(* Only a write changes the records, and only a write is written. *)
LEMMA OnlyWrites ==
  ASSUME IInv, [Next]_vars
  PROVE  \/ \E r \in Reqs : Accepted(r)
         \/ row' = row /\ \A q \in Reqs : out'[q] = "written" => out[q] = "written"
  <1>1. CASE UNCHANGED vars
    BY <1>1 DEF vars
  <1>2. ASSUME NEW r \in Reqs, Step(r)
        PROVE  \/ Accepted(r)
               \/ row' = row /\ \A q \in Reqs : out'[q] = "written" => out[q] = "written"
    <2>1. CtlOK
      BY <1>2 DEF IInv
    <2>2. \/ Write(r)
          \/ row' = row /\ out' = out
          \/ row' = row /\ \E o \in {"refused", "aborted"} : Finish(r, o)
      <3>1. ASSUME NEW at, NEW op, NEW i, NEW x, NEW old, NEW new, NEW hit,
                   AskAt(r, at, op, i, old, new, hit) \/ AskUpdate(r, at, i, x, hit)
            PROVE  row' = row /\ out' = out
        BY <3>1 DEF AskAt, AskUpdate
      <3>2. CASE \E address : CreatePerson(r, address) \/ \E i \in Of("person") : EditPerson(r, i, address)
        BY <3>1, <3>2 DEF CreatePerson, EditPerson, AskCreate, AskEdit, Ask
      <3>3. CASE \E i, target \in Of("person") : MergePerson(r, i, target)
        BY <3>1, <3>3 DEF MergePerson, AskEdit, Ask
      <3>4. CASE \E owner \in Owners :
                   CreateAddress(r, owner) \/ \E tag \in Contacts : CreateContact(r, owner, tag)
        BY <3>1, <3>4 DEF CreateAddress, CreateContact, AskCreate, Ask
      <3>5. CASE \E i, tag : EditContact(r, i, tag) \/ EditStudent(r, i, tag)
        BY <3>1, <3>5 DEF EditContact, EditStudent, AskEdit, Ask
      <3>6. CASE \E i : EditAddress(r, i) \/ EditParent(r, i)
        BY <3>1, <3>6 DEF EditAddress, EditParent, AskEdit, Ask
      <3>7. CASE \E i : DeletePerson(r, i) \/ DeleteStudent(r, i) \/ DeleteParent(r, i)
        BY <3>1, <3>7 DEF DeletePerson, DeleteStudent, DeleteParent, DeleteOf, AskDelete, AskEdit, Ask
      <3>8. CASE \E i : RemoveAddress(r, i) \/ RemoveContact(r, i) \/ RemoveGuardian(r, i) \/ UnlinkParent(r, i)
        BY <3>1, <3>8 DEF RemoveAddress, RemoveContact, RemoveGuardian, UnlinkParent, AskRemove, Ask
      <3>9. CASE \E p : CreateParent(r, p) \/ \E n \in Numbers : CreateStudent(r, p, n)
        BY <3>1, <3>9 DEF CreateParent, CreateStudent, AskCreate, Ask
      <3>10. CASE \E s, p, primary : AddGuardian(r, s, p, primary)
        BY <3>1, <3>10 DEF AddGuardian
      <3>11. CASE \E s, q : LinkParent(r, s, q)
        BY <3>1, <3>11 DEF LinkParent, AskCreate, Ask
      <3>12. CASE \E i : TouchGuardian(r, i) \/ \E primary \in BOOLEAN : EditGuardian(r, i, primary)
        BY <3>1, <3>12 DEF TouchGuardian, EditGuardian, Ask
      <3>13. CASE UnsetPrimary(r) \/ Write(r)
        BY <3>13 DEF UnsetPrimary
      <3>14. CASE Refuse(r) \/ Abort(r)
        BY <3>14 DEF Refuse, Abort
      <3> QED
        BY <1>2, <3>2, <3>3, <3>4, <3>5, <3>6, <3>7, <3>8, <3>9, <3>10, <3>11, <3>12, <3>13, <3>14
           DEF Step
    <2>3. ASSUME NEW o \in {"refused", "aborted", "error"}, Finish(r, o)
          PROVE  \A q \in Reqs : out'[q] = "written" => out[q] = "written"
      BY <2>1, <2>3 DEF Finish, CtlOK
    <2> QED
      BY <2>2, <2>3, WriteIs
  <1> QED
    BY <1>1, <1>2 DEF Next

(* What a write does to a record that has a version *)
LEMMA KnowinglyWritten ==
  ASSUME IInv, NEW r \in Reqs, Accepted(r), NEW i \in Ids, row'[i] # row[i], row[i].kind \in Kept
  PROVE  \/ row'[i] = [row[i] EXCEPT !.of = {a \in row[i].of : row'[a].kind # "none"}]
         \/ /\ row'[i].of \subseteq {a \in Ids : row[a].kind # "none"}
            /\ loc[r].id = i /\ pc[r] = "write" /\ out'[r] = "written"
            /\ row[i] = StillThere(loc[r].row)
  <1>1. CASE i # loc[r].id
    <2>1. PICK d : d = loc[r].id
      OBVIOUS
    <2>2. /\ loc[r].op = "remove" /\ row[i].kind = "person"
          /\ row'[i] = [row[i] EXCEPT !.of = row[i].of \ {d}]
      BY <1>1, <2>1, KeptAfter
    <2>3. row'[d].kind = "none" /\ d \in Ids
      BY <2>1, <2>2, OwnAfter, NoRowIs
    <2>4. row[i].of \in SUBSET Ids /\ \A a \in row[i].of : row[a].kind = "address"
      BY <2>2, RowIs, RefKindsAre DEF IInv, RowsOK, Refs
    <2>5. \A a \in row[i].of : a # d => row'[a].kind # "none"
      BY <2>1, <2>4, RestAfter
    <2>6. row[i].of \ {d} = {a \in row[i].of : row'[a].kind # "none"}
      BY <2>3, <2>5
    <2> QED
      BY <2>2, <2>6
  <1>2. CASE i = loc[r].id
    <2>1. PICK x : x = Written(r)
      OBVIOUS
    <2>2. row'[i] = x /\ loc[r].op = "edit" /\ x.kind \in Kept /\ x \in Row(Kinds, Tags)
      BY <1>2, <2>1, OwnAfter, NoRowIs
    <2>3. row[i] = StillThere(loc[r].row)
      BY <1>2, <2>1, <2>2, OwnAfter
    <2>4. x.of \subseteq {a \in Ids : row[a].kind # "none"}
      BY <2>1, <2>2, RowFields DEF Accepted, Refers, Exists
    <2> QED
      BY <1>2, <2>2, <2>3, <2>4, WrittenType DEF Accepted
  <1> QED
    BY <1>1, <1>2

(* A person, student or parent is only written by a request that has loaded *)
(* this very row of it, addresses apart that are really deleted             *)
(* (NoBlindWrite).                                                          *)
THEOREM NoBlindWriteTheorem == Spec => NoBlindWrite
  <1>1. ASSUME IInv, [Next]_vars, NEW i \in Ids, row'[i] # row[i],
               row[i].kind \in Versioned \ {"address"}
        PROVE  \/ row'[i] = [row[i] EXCEPT !.of = {a \in @ : Exists(a)'}]
               \/ /\ row'[i].of \subseteq {a \in Ids : Exists(a)}
                  /\ \E r \in Reqs :
                       /\ loc[r].id = i /\ pc[r] = "write" /\ out'[r] = "written"
                       /\ row[i] = [loc[r].row EXCEPT !.of = {a \in @ : Exists(a)}]
    <2>1. PICK r \in Reqs : Accepted(r)
      BY <1>1, OnlyWrites
    <2>2. row[i].kind \in Kept
      BY <1>1 DEF Versioned, Kept
    <2> QED
      BY <1>1, <2>1, <2>2, KnowinglyWritten DEF Exists, StillThere
  <1>2. IInv /\ [Next]_vars =>
          [\A i \in Ids : row'[i] # row[i] /\ row[i].kind \in Versioned \ {"address"} =>
             \/ row'[i] = [row[i] EXCEPT !.of = {a \in @ : Exists(a)'}]
             \/ /\ row'[i].of \subseteq {a \in Ids : Exists(a)}
                /\ \E r \in Reqs :
                     /\ loc[r].id = i /\ pc[r] = "write" /\ out'[r] = "written"
                     /\ row[i] = [loc[r].row EXCEPT !.of = {a \in @ : Exists(a)}]]_vars
    BY <1>1
  <1> QED
    BY <1>2, InductiveInvariant, PTL DEF Spec, NoBlindWrite

(* Whoever is made primary is committed as the only primary guardian of    *)
(* the student, but for one that was added and committed between the       *)
(* lookups and the bulk UPDATE (PrimaryButForAdded).                       *)
THEOREM PrimaryButForAddedTheorem == Spec => PrimaryButForAdded
  <1>1. ASSUME IInv, [Next]_vars, NEW r \in Reqs, NEW i \in Ids,
               pc[r] = "write", out'[r] = "written", loc[r].id = i,
               loc[r].new.kind = "guardian", loc[r].new.on, ~loc[r].row.on
        PROVE  /\ row'[i].on
               /\ \A j \in Ids : SameStudent(i, j)' /\ row'[j].on => j \in Reqs /\ raced[r]
    <2>1. out[r] # "written" /\ Takes(r) /\ Known(r) /\ Unraced(r)
      BY <1>1 DEF IInv, CtlOK, At, Takes
    <2>2. PICK q \in Reqs : Accepted(q)
      BY <1>1, <2>1, OnlyWrites
    <2>3. q = r
      BY <1>1, <2>1, <2>2, WrittenType
    <2>4. PICK x : x = Written(r)
      OBVIOUS
    <2>5. /\ row'[i] = x /\ x.on /\ Others(x, i)' \subseteq Others(loc[r].new, i)
          /\ \A j \in loc[r].hit : row'[j].kind = "guardian" => ~row'[j].on \/ j = i
      BY <1>1, <2>1, <2>2, <2>3, <2>4, TakenAfter
    <2>6. /\ Others(loc[r].new, i) \cap Seeds \subseteq loc[r].hit
          /\ ~raced[r] => Others(loc[r].new, i) \subseteq loc[r].hit
      BY <1>1, <2>1 DEF Known, Unraced
    <2>7. ASSUME NEW j \in Ids, SameStudent(i, j)', row'[j].on
          PROVE  j \in Reqs /\ raced[r]
      <3>1. j \in Others(x, i)' /\ j # i /\ row'[j].kind = "guardian"
        BY <2>5, <2>7 DEF SameStudent, Others, Of
      <3>2. j \in Others(loc[r].new, i) /\ j \notin loc[r].hit
        BY <2>5, <2>7, <3>1
      <3> QED
        BY <2>6, <3>2 DEF Ids
    <2> QED
      BY <2>5, <2>7
  <1>2. IInv /\ [Next]_vars =>
          [\A r \in Reqs, i \in Ids :
             /\ pc[r] = "write" /\ out'[r] = "written" /\ loc[r].id = i
             /\ loc[r].new.kind = "guardian" /\ loc[r].new.on /\ ~loc[r].row.on
             => /\ row'[i].on
                /\ \A j \in Ids : SameStudent(i, j)' /\ row'[j].on => j \in Reqs /\ raced[r]]_vars
    <2>1. ASSUME IInv, [Next]_vars
          PROVE  \A r \in Reqs, i \in Ids :
                   /\ pc[r] = "write" /\ out'[r] = "written" /\ loc[r].id = i
                   /\ loc[r].new.kind = "guardian" /\ loc[r].new.on /\ ~loc[r].row.on
                   => /\ row'[i].on
                      /\ \A j \in Ids : SameStudent(i, j)' /\ row'[j].on => j \in Reqs /\ raced[r]
      BY <1>1, <2>1
    <2> QED
      BY <2>1
  <1> QED
    BY <1>2, InductiveInvariant, PTL DEF Spec, PrimaryButForAdded
=============================================================================
