------------------------------ MODULE Records -------------------------------
(***************************************************************************)
(* What the services of app/modules that keep plain records have in common:*)
(* a request is one READ COMMITTED transaction (db/session.py) that looks  *)
(* up and checks what it needs, then writes one record and commits.  The   *)
(* unique indexes, foreign keys and version columns of PostgreSQL are      *)
(* evaluated when it writes; other requests commit in between.             *)
(*                                                                         *)
(* The lookups of a request are one step here.  A record is named by the   *)
(* request that created it, and says by kind what its columns mean.        *)
(***************************************************************************)
EXTENDS Naturals, FiniteSets

CONSTANTS Reqs, Seeds, SeedRow,     \* requests, records at the start and their rows
          Values,                   \* what other columns of a record hold
          None                      \* SQL NULL

ASSUME SeedsAreNoRequests == Seeds \cap Reqs = {} /\ None \notin Seeds \cup Reqs

VARIABLES
  row,    \* the tables
  pc,     \* where each request is
  loc,    \* what it loaded and what it is going to write
  raced,  \* another request committed after this one's lookups
  out     \* how it ended

vars == <<row, pc, loc, raced, out>>

Ids == Seeds \cup Reqs

(* of: the records it refers to.  tag: its code, number or role.  on: its  *)
(* flag (is_current, is_primary, status ACTIVE).  val: other columns.      *)
Row(kinds, tags) ==
  [kind: kinds, of: SUBSET Ids, tag: tags, on: BOOLEAN, val: Values, deleted: BOOLEAN,
   version: Nat]

NoRow == [kind |-> "none", of |-> {}, tag |-> None, on |-> FALSE, val |-> None,
          deleted |-> FALSE, version |-> 0]
NewRow(kind, of, tag, on, val) ==
  [kind |-> kind, of |-> of, tag |-> tag, on |-> on, val |-> val, deleted |-> FALSE,
   version |-> 1]
NoLocal == [op |-> "none", id |-> None, row |-> NoRow, new |-> NoRow, hit |-> {}]

Init ==
  /\ row = [i \in Ids |-> IF i \in Seeds THEN SeedRow[i] ELSE NoRow]
  /\ pc = [r \in Reqs |-> "idle"]
  /\ loc = [r \in Reqs |-> NoLocal]
  /\ raced = [r \in Reqs |-> FALSE]
  /\ out = [r \in Reqs |-> "none"]

-----------------------------------------------------------------------------
Exists(i) == row[i].kind # "none"
Live(i) == Exists(i) /\ ~row[i].deleted
Of(kind) == {i \in Ids : row[i].kind = kind}
LiveOf(kind) == {i \in Ids : row[i].kind = kind /\ Live(i)}

(* The record of that kind which i refers to *)
Parent(i, kind) == CHOOSE p \in row[i].of : row[p].kind = kind

-----------------------------------------------------------------------------
(* The lookups are done and the request goes on.  hit: the rows that a     *)
(* bulk UPDATE of the request is for.                                      *)
AskAt(r, at, op, id, old, new, hit) ==
  /\ pc[r] = "idle"
  /\ pc' = [pc EXCEPT ![r] = at]
  /\ loc' = [loc EXCEPT ![r] = [op |-> op, id |-> id, row |-> old, new |-> new, hit |-> hit]]
  /\ UNCHANGED <<row, raced, out>>

Ask(r, op, id, old, new) == AskAt(r, "write", op, id, old, new, {})

AskCreate(r, x) == Ask(r, "create", r, NoRow, x)

(* An UPDATE of the loaded row to x; or none at all, which is what a flush *)
(* emits when no column has got another value, not even updated_by_id.     *)
AskUpdate(r, at, i, x, hit) ==
  \/ AskAt(r, at, "edit", i, row[i], x, hit)
  \/ /\ [x EXCEPT !.version = row[i].version] = row[i]
     /\ AskAt(r, at, "keep", i, row[i], row[i], hit)

(* The client's version is that of the loaded row; the version column makes *)
(* the UPDATE raise it.                                                    *)
Raised(i, x) == [x EXCEPT !.version = row[i].version + 1]
AskEdit(r, i, x) == AskUpdate(r, "write", i, Raised(i, x), {})

AskDelete(r, i) == AskEdit(r, i, [row[i] EXCEPT !.deleted = TRUE])

(* A row that is really deleted *)
AskRemove(r, i) == Ask(r, "remove", i, row[i], NoRow)

(* get_db: the transaction ends with the request. *)
Finish(r, o) ==
  /\ pc' = [pc EXCEPT ![r] = "done"]
  /\ out' = [out EXCEPT ![r] = o]
  /\ loc' = [loc EXCEPT ![r] = NoLocal]

(* Not found, taken, another version than the client's *)
Refuse(r) == pc[r] = "idle" /\ Finish(r, "refused") /\ UNCHANGED <<row, raced>>

(* A lost connection or a lock deadlock *)
Abort(r) ==
  /\ pc[r] \notin {"idle", "done"}
  /\ Finish(r, "aborted")
  /\ raced' = [raced EXCEPT ![r] = FALSE]
  /\ UNCHANGED row

(* Faulty variant: the UPDATE finds its row by the id alone. *)
FreshById(r) == Exists(loc[r].id)

(* UPDATE ... WHERE id = .. AND version = the loaded one finds its row. *)
Fresh(r) == row[loc[r].id].version = loc[r].row.version

(* An UPDATE sets the columns that differ from the loaded ones. *)
ChangedColumns(r) ==
  LET was == loc[r].row
      new == loc[r].new
      now == row[loc[r].id]
  IN [now EXCEPT !.of      = IF new.of = was.of THEN @ ELSE new.of,
                 !.tag     = IF new.tag = was.tag THEN @ ELSE new.tag,
                 !.on      = IF new.on = was.on THEN @ ELSE new.on,
                 !.val     = IF new.val = was.val THEN @ ELSE new.val,
                 !.deleted = new.deleted,
                 !.version = new.version]

(* What the request's own row becomes *)
Written(r) == CASE loc[r].op = "edit" -> ChangedColumns(r)
                [] loc[r].op = "keep" -> row[loc[r].id]
                [] OTHER              -> loc[r].new

(* The write is refused, or the transaction commits with these tables. *)
Store(r, accepted, rows) ==
  IF accepted
    THEN /\ row' = rows
         /\ raced' = [q \in Reqs |-> q # r /\ (raced[q] \/ pc[q] \notin {"idle", "done"})]
         /\ Finish(r, "written")
    ELSE /\ UNCHANGED row
         /\ raced' = [raced EXCEPT ![r] = FALSE]
         /\ Finish(r, "error")

(* Who writes record i in the next step has loaded exactly this row of it. *)
WrittenKnowingly(i) ==
  \E r \in Reqs : loc[r].id = i /\ pc[r] = "write" /\ out'[r] = "written" /\ loc[r].row = row[i]
=============================================================================
