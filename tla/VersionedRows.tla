---------------------------- MODULE VersionedRows ---------------------------
(***************************************************************************)
(* What VersionMixin (app/db/mixins.py) promises of the tables whose       *)
(* models have it: "a stale write raises, never overwrites".  A request    *)
(* works on a copy of one row; what it commits may make new rows, and      *)
(* changes or removes an old one only if its copy still is that row.       *)
(* Nothing is said here about handlers, checks, indexes or what the        *)
(* columns mean: TimetableSlots, Enrollments, Attendance and Academic are  *)
(* shown to implement this module.                                         *)
(***************************************************************************)
EXTENDS Naturals

CONSTANTS Clients,   \* requests
          Ids,       \* primary keys
          Rows,      \* rows, records with a field version
          NoRow      \* what a key without a row has

VARIABLES table,     \* table[i]: the row of key i
          copy       \* copy[c]: the row that request c has loaded, if any

vvars == <<table, copy>>

VInit ==
  /\ table \in [Ids -> Rows \cup {NoRow}]
  /\ copy = [c \in Clients |-> {}]

(* A request loads a row. *)
VLoad(c, i) ==
  /\ table[i] # NoRow
  /\ copy' = [copy EXCEPT ![c] = {[id |-> i, row |-> table[i]]}]
  /\ UNCHANGED table

(* Its transaction ends without a write. *)
VForget(c) ==
  /\ copy' = [copy EXCEPT ![c] = {}]
  /\ UNCHANGED table

(* What request c may make of the row of key i: a new row starts at        *)
(* version 1; an old one is the one it has loaded, and is removed or gets  *)
(* the next version.                                                       *)
Allowed(c, i, new) ==
  IF table[i] = NoRow
    THEN new.version = 1
    ELSE /\ [id |-> i, row |-> table[i]] \in copy[c]
         /\ new # NoRow => new.version = table[i].version + 1

VCommit(c) ==
  /\ table' \in [Ids -> Rows \cup {NoRow}]
  /\ \A i \in Ids : table'[i] # table[i] => Allowed(c, i, table'[i])
  /\ copy' = [copy EXCEPT ![c] = {}]

VNext ==
  \E c \in Clients : VForget(c) \/ VCommit(c) \/ \E i \in Ids : VLoad(c, i)

VSpec == VInit /\ [][VNext]_vvars

=============================================================================
