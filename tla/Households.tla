----------------------------- MODULE Households -----------------------------
(***************************************************************************)
(* One school's people (app/modules/people, students, students/guardians   *)
(* and parents): persons with addresses and contacts, and who is a         *)
(* student, a guardian or a parent among them.                             *)
(*                                                                         *)
(* kind       of                    tag               on        val        *)
(* person     perhaps its address                               merged into*)
(* address    its owner                                                    *)
(* contact    its owner             type and value                         *)
(* student    its person            admission number                       *)
(* guardian   student, person                         primary              *)
(* parent     its person                                                   *)
(* link       student, parent                                              *)
(* An owner that is the school is left out of "of".  Contacts, guardians   *)
(* and links have no version, and with addresses they are really deleted.  *)
(***************************************************************************)
EXTENDS Records

CONSTANTS Contacts,     \* types and values of contacts
          Numbers       \* admission numbers

ASSUME PersonsAreValues == Values = Seeds \cup Reqs \cup {None}

Kinds == {"person", "address", "contact", "student", "guardian", "parent", "link"}
Tags == Contacts \cup Numbers \cup {None}
Versioned == {"person", "address", "student", "parent"}

(* What a record of that kind refers to *)
RefKinds(kind) == CASE kind = "person"   -> {"address"}
                    [] kind = "guardian" -> {"student", "person"}
                    [] kind = "link"     -> {"student", "parent"}
                    [] OTHER             -> {"person"}

(* The records at the start are ones that the services may have left. *)
ASSUME SeedsFit ==
  /\ SeedRow \in [Seeds -> Row(Kinds, Tags)]
  /\ \A i \in Seeds :
       /\ SeedRow[i].version > 0 /\ SeedRow[i].of \subseteq Seeds
       /\ \A p \in SeedRow[i].of : SeedRow[p].kind \in RefKinds(SeedRow[i].kind)
       /\ SeedRow[i].kind = "guardian" =>
            \E s, p \in Seeds : /\ SeedRow[i].of = {s, p}
                                /\ SeedRow[s].kind = "student" /\ SeedRow[p].kind = "person"

ASSUME SeedsDistinct ==
  \A i, j \in Seeds :
    /\ i # j /\ SeedRow[i].kind = SeedRow[j].kind
    => /\ SeedRow[i].kind \in {"student", "parent", "guardian", "link"} => SeedRow[i].of # SeedRow[j].of
       /\ SeedRow[i].kind \in {"student", "contact"} =>
            SeedRow[i].tag # SeedRow[j].tag \/ (SeedRow[i].kind = "contact" /\ SeedRow[i].of # SeedRow[j].of)
       /\ SeedRow[i].kind = "guardian" /\ SeedRow[i].on /\ SeedRow[j].on =>
            ~\E s \in SeedRow[i].of \cap SeedRow[j].of : SeedRow[s].kind = "student"

-----------------------------------------------------------------------------
(* _assert_entity_owned: the owner is the school or a live person.         *)
Owners == {{}} \cup {{p} : p \in LiveOf("person")}

(* _assert_address_owned: any address of the organization will do.         *)
Addresses == {{a} : a \in Of("address")}

CreatePerson(r, address) ==
  address \in Addresses \cup {{}} /\ AskCreate(r, NewRow("person", address, None, FALSE, None))

(* exclude_none: an edit never takes the address away. *)
EditPerson(r, i, address) ==
  /\ i \in LiveOf("person") /\ address \in Addresses \cup {row[i].of}
  /\ AskEdit(r, i, [row[i] EXCEPT !.of = address])

(* The target may have been merged itself. *)
MergePerson(r, i, target) ==
  /\ {i, target} \subseteq LiveOf("person") /\ i # target
  /\ AskEdit(r, i, [row[i] EXCEPT !.val = target])

CreateAddress(r, owner) ==
  owner \in Owners /\ AskCreate(r, NewRow("address", owner, None, FALSE, None))

EditAddress(r, i) == i \in Of("address") /\ AskEdit(r, i, row[i])

(* The version is compared with the loaded one and not in the DELETE. *)
RemoveAddress(r, i) == i \in Of("address") /\ AskRemove(r, i)

CreateContact(r, owner, tag) ==
  LET x == NewRow("contact", owner, tag, FALSE, None)
  IN /\ owner \in Owners
     /\ ~\E i \in Of("contact") : row[i].of = owner /\ row[i].tag = tag
     /\ AskCreate(r, x)

EditContact(r, i, tag) ==
  i \in Of("contact") /\ AskUpdate(r, "write", i, [row[i] EXCEPT !.tag = tag], {})

RemoveContact(r, i) == i \in Of("contact") /\ AskRemove(r, i)

-----------------------------------------------------------------------------
CreateStudent(r, p, n) ==
  /\ p \in LiveOf("person")
  /\ ~\E s \in LiveOf("student") : row[s].tag = n \/ row[s].of = {p}
  /\ AskCreate(r, NewRow("student", {p}, n, FALSE, None))

(* A new admission number is not looked up. *)
EditStudent(r, i, n) ==
  i \in LiveOf("student") /\ AskEdit(r, i, [row[i] EXCEPT !.tag = n])

CreateParent(r, p) ==
  /\ p \in LiveOf("person")
  /\ ~\E q \in LiveOf("parent") : row[q].of = {p}
  /\ AskCreate(r, NewRow("parent", {p}, None, FALSE, None))

EditParent(r, i) == i \in LiveOf("parent") /\ AskEdit(r, i, row[i])

(* Nobody looks for records that refer to a deleted person, student or     *)
(* parent.                                                                 *)
DeleteOf(r, kind, i) == i \in LiveOf(kind) /\ AskDelete(r, i)
DeletePerson(r, i) == DeleteOf(r, "person", i)
DeleteStudent(r, i) == DeleteOf(r, "student", i)
DeleteParent(r, i) == DeleteOf(r, "parent", i)

LinkParent(r, s, q) ==
  /\ q \in LiveOf("parent") /\ s \in LiveOf("student")
  /\ ~\E i \in Of("link") : row[i].of = {s, q}
  /\ AskCreate(r, NewRow("link", {s, q}, None, FALSE, None))

(* get_student_parent finds no link whose parent is deleted. *)
UnlinkParent(r, i) ==
  i \in Of("link") /\ Live(Parent(i, "parent")) /\ AskRemove(r, i)

-----------------------------------------------------------------------------
(* A primary guardian takes the flag from the others first. *)
AddGuardian(r, s, p, primary) ==
  /\ s \in LiveOf("student") /\ p \in LiveOf("person")
  /\ ~\E g \in Of("guardian") : row[g].of = {s, p}
  /\ AskAt(r, IF primary THEN "unset" ELSE "write", "create", r, NoRow,
           NewRow("guardian", {s, p}, None, primary, None), {})

(* Faulty variant: only a new guardian takes the flag from the others. *)
EditGuardianAlone(r, i, primary) ==
  /\ i \in Of("guardian")
  /\ AskUpdate(r, "write", i, [row[i] EXCEPT !.on = primary], {})

(* The flag is asked for, or given up. *)
EditGuardian(r, i, primary) ==
  /\ i \in Of("guardian")
  /\ AskUpdate(r, IF primary THEN "unset" ELSE "write", i, [row[i] EXCEPT !.on = primary], {})

(* Other columns are edited. *)
TouchGuardian(r, i) == i \in Of("guardian") /\ AskUpdate(r, "write", i, row[i], {})

RemoveGuardian(r, i) == i \in Of("guardian") /\ AskRemove(r, i)

Others(g, i) ==
  {j \in Of("guardian") \ {i} : \A s \in g.of : row[s].kind = "student" => s \in row[j].of}

(* Faulty variant: only guardians that have the flag are updated. *)
UnsetPrimaryOfPrimaries(r) ==
  /\ pc[r] = "unset"
  /\ pc' = [pc EXCEPT ![r] = "write"]
  /\ loc' = [loc EXCEPT ![r].hit = {j \in Others(loc[r].new, loc[r].id) : row[j].on}]
  /\ UNCHANGED <<row, raced, out>>

(* The bulk UPDATE finds the rows that are committed when it starts.  It   *)
(* locks each, waiting for whoever has changed it, so that it takes effect *)
(* on what the other one leaves: with the commit, in the model.            *)
UnsetPrimary(r) ==
  /\ pc[r] = "unset"
  /\ pc' = [pc EXCEPT ![r] = "write"]
  /\ loc' = [loc EXCEPT ![r].hit = Others(loc[r].new, loc[r].id)]
  /\ UNCHANGED <<row, raced, out>>

-----------------------------------------------------------------------------
(* What holds of the row when it is written *)

(* Faulty variant: the lookup before is all that keeps persons apart. *)
KeyFreeByTag(i, x) ==
  x.kind \in {"student", "contact"} =>
    \A j \in Ids \ {i} : row[j].kind = x.kind => row[j].tag # x.tag

(* The unique constraints; deleted students and parents count. *)
KeyFree(i, x) ==
  /\ x.kind \in {"student", "parent", "guardian", "link"} =>
       \A j \in Ids \ {i} : row[j].kind = x.kind => row[j].of # x.of
  /\ x.kind = "student" => \A j \in Ids \ {i} : row[j].kind = "student" => row[j].tag # x.tag
  /\ x.kind = "contact" =>
       \A j \in Ids \ {i} : row[j].kind = "contact" => row[j].of # x.of \/ row[j].tag # x.tag

(* Faulty variant: the address is referred to without a foreign key. *)
RefersAnywhere(x) == TRUE

(* fk_persons_address_id_addresses; other rows that are referred to are    *)
(* never really deleted.                                                   *)
Refers(x) == \A p \in x.of : Exists(p)

(* Faulty variant: no row has a version. *)
FoundAnyVersion(r) == Exists(loc[r].id)

(* Rows with a version, and no others, are only found when it is the       *)
(* loaded one.                                                             *)
Found(r) == IF loc[r].new.kind \in Versioned THEN Fresh(r) ELSE Exists(loc[r].id)

(* Persons lose an address that is deleted (ON DELETE SET NULL), guardians *)
(* their flag to a primary one.                                            *)
Effects(r, x) ==
  [j \in Ids |->
     IF j = loc[r].id THEN x
     ELSE IF loc[r].op = "remove" /\ row[j].kind = "person"
       THEN [row[j] EXCEPT !.of = @ \ {loc[r].id}]
     ELSE IF j \in loc[r].hit /\ Exists(j) THEN [row[j] EXCEPT !.on = FALSE]
     ELSE row[j]]

(* The flush of the request's own row, and the commit *)
Write(r) ==
  LET x == Written(r)
  IN /\ pc[r] = "write"
     /\ Store(r, \/ loc[r].op \in {"keep", "remove"}
                 \/ /\ loc[r].op = "edit" => Found(r)
                    /\ KeyFree(loc[r].id, x) /\ Refers(x),
              Effects(r, x))

Step(r) ==
  \/ \E address \in {{}} \cup {{a} : a \in Ids} :
       CreatePerson(r, address) \/ \E i \in Of("person") : EditPerson(r, i, address)
  \/ \E i, target \in Of("person") : MergePerson(r, i, target)
  \/ \E owner \in Owners :
       CreateAddress(r, owner) \/ \E tag \in Contacts : CreateContact(r, owner, tag)
  \/ \E i \in Of("contact") : RemoveContact(r, i) \/ \E tag \in Contacts : EditContact(r, i, tag)
  \/ \E i \in Of("address") : EditAddress(r, i) \/ RemoveAddress(r, i)
  \/ \E p \in Of("person") :
       \/ DeletePerson(r, p) \/ CreateParent(r, p)
       \/ \E n \in Numbers : CreateStudent(r, p, n)
       \/ \E s \in Of("student"), primary \in BOOLEAN : AddGuardian(r, s, p, primary)
  \/ \E s \in Of("student") :
       \/ DeleteStudent(r, s)
       \/ \E n \in Numbers : EditStudent(r, s, n)
       \/ \E q \in Of("parent") : LinkParent(r, s, q)
  \/ \E q \in Of("parent") : EditParent(r, q) \/ DeleteParent(r, q)
  \/ \E i \in Of("link") : UnlinkParent(r, i)
  \/ \E i \in Of("guardian") :
       \/ TouchGuardian(r, i) \/ RemoveGuardian(r, i)
       \/ \E primary \in BOOLEAN : EditGuardian(r, i, primary)
  \/ UnsetPrimary(r) \/ Write(r) \/ Refuse(r) \/ Abort(r)

Next == \E r \in Reqs : Step(r)

Spec == Init /\ [][Next]_vars

-----------------------------------------------------------------------------
(* The records and the requests are well formed, and a reference leads to  *)
(* a record of the kind that it is meant for.                              *)
TypeOK ==
  /\ row \in [Ids -> Row(Kinds, Tags) \cup {NoRow}]
  /\ \A i \in Ids, p \in Ids : p \in row[i].of =>
       row[p].kind \in RefKinds(row[i].kind)
  /\ pc \in [Reqs -> {"idle", "unset", "write", "done"}]
  /\ loc \in [Reqs -> [op: {"none", "create", "edit", "keep", "remove"}, id: Ids \cup {None},
                       row: Row(Kinds, Tags) \cup {NoRow}, new: Row(Kinds, Tags) \cup {NoRow},
                       hit: SUBSET Ids]]
  /\ raced \in [Reqs -> BOOLEAN]
  /\ out \in [Reqs -> {"none", "refused", "aborted", "error", "written"}]

(* A person is a student, a parent and a student's guardian once, an       *)
(* admission number stands for one student and a contact is not repeated,  *)
(* although each is only looked up before it is written, admission numbers *)
(* that are edited not even that.                                          *)
HouseholdsDistinct ==
  \A i, j \in Ids :
    /\ i # j /\ Exists(i) /\ row[i].kind = row[j].kind
    => /\ row[i].kind \in {"student", "parent", "guardian", "link"} => row[i].of # row[j].of
       /\ row[i].kind = "student" => row[i].tag # row[j].tag
       /\ row[i].kind = "contact" => row[i].of # row[j].of \/ row[i].tag # row[j].tag

SameStudent(i, j) == j \in Others(row[i], i)

(* However requests that edit guardians overlap, the guardians that a      *)
(* student had before them do not end as two primary ones: the bulk UPDATE *)
(* takes every other row and waits for whoever is writing it.              *)
OnePrimaryAmongKnown ==
  \A i, j \in Seeds :
    row[i].kind = "guardian" /\ SameStudent(i, j) => ~(row[i].on /\ row[j].on)

(* tests/integration/test_guardians.py:142-169: who is made primary is the *)
(* only primary guardian of the student when it is committed, whoever else *)
(* is edited, made primary or deleted meanwhile.  Only a guardian that is  *)
(* added between the lookups and the commit keeps the flag beside it.  (One *)
(* that is primary when it is loaded is not written at all, and one that   *)
(* another request has replaced meanwhile is not made primary again.)      *)
PrimaryButForAdded ==
  [][\A r \in Reqs, i \in Ids :
       /\ pc[r] = "write" /\ out'[r] = "written" /\ loc[r].id = i
       /\ loc[r].new.kind = "guardian" /\ loc[r].new.on /\ ~loc[r].row.on
       => /\ row'[i].on
          /\ \A j \in Ids : SameStudent(i, j)' /\ row'[j].on => j \in Reqs /\ raced[r]]_vars

(* "a stale write raises, never overwrites" (db/mixins.py): a person,      *)
(* student or parent is changed by who has loaded the row as it is, but    *)
(* for an address that was really deleted in the meantime: that is taken   *)
(* from persons without a look at their version, and is not given back by  *)
(* an edit that loaded them with it.                                       *)
NoBlindWrite ==
  [][\A i \in Ids : row'[i] # row[i] /\ row[i].kind \in Versioned \ {"address"} =>
       \/ row'[i] = [row[i] EXCEPT !.of = {a \in @ : Exists(a)'}]
       \/ /\ row'[i].of \subseteq {a \in Ids : Exists(a)}
          /\ \E r \in Reqs :
               /\ loc[r].id = i /\ pc[r] = "write" /\ out'[r] = "written"
               /\ row[i] = [loc[r].row EXCEPT !.of = {a \in @ : Exists(a)}]]_vars
=============================================================================
