---------------------------- MODULE AccessProofs -----------------------------
(***************************************************************************)
(* Proofs about Tenancy for any number of requests, accounts, tenants,     *)
(* memberships, roles and permissions, and about AccessCatalog for any     *)
(* number of runs of the scripts and of roles of organizations.            *)
(*                                                                         *)
(* Tenancy.  What a request found when it was checked stays true until it  *)
(* commits, because memberships keep their account, organization and       *)
(* school (Grown).  So a principal's organization stays one that its       *)
(* account has been made a member of (PrinAt), and what a service is about *)
(* to write belongs to it (LocAt).  The version of a role is looked at     *)
(* only when its row is written; EditAt says what follows for two edits of *)
(* one row.  ExactInv follows a principal through the SELECTs that resolve *)
(* it: as long as nobody commits, what was loaded is what the tables hold. *)
(*                                                                         *)
(* AccessCatalog.  A system role is never granted more than the widest     *)
(* catalogue gives it (GrantsInv), whichever scripts overlap, because      *)
(* what a run plans to add is in the catalogue (PlanAt).  So what a role   *)
(* opens is a fact about constants: the lemmas about routes and codes.     *)
(* While nobody commits beside a run, its plan is the difference between   *)
(* the catalogue and the tables (UndisturbedAt).                           *)
(***************************************************************************)
EXTENDS Tenancy, AccessCatalog, FiniteSetTheorems, TLAPS

Resolving == {"grants", "schools"}
Served == {"member_roles", "commit"}
There(m) == mem[m].status # "NONE"
MemberOf(u, org) ==
  org # None /\ \E m \in Members : There(m) /\ mem[m].user = u /\ mem[m].org = org
RoleFits(ro, org) == RoleOrg[ro] \in {None, org}

WhoAt(q) == pc[q] \in Resolving => \A m \in who[q].ms : There(m) /\ mem[m].user = who[q].user
PrinAt(q) ==
  /\ pc[q] \notin Served \cup {"guard"} => prin[q] = NoPrincipal
  /\ pc[q] = "guard" =>
       prin[q].admin \/ prin[q].perms = {} \/ MemberOf(who[q].user, prin[q].org)
  /\ pc[q] \in Served => prin[q].admin \/ MemberOf(who[q].user, prin[q].org)

(* What a request is about to write, by operation *)
NewcomerAt(q) ==
  /\ loc[q].new \in Membership /\ loc[q].new.status = "ACTIVE"
  /\ loc[q].new.user \in Users /\ loc[q].new.org \in Orgs /\ loc[q].new.org = prin[q].org
  /\ loc[q].new.school # None => SchoolOrg[loc[q].new.school] = loc[q].new.org
TenantAt(q) ==
  /\ loc[q].id \in Tenants /\ loc[q].new \in Tenant
  /\ loc[q].id \in Schools => prin[q].org = SchoolOrg[loc[q].id]
UserAt(q) ==
  /\ loc[q].id = q => NewcomerAt(q)
  /\ loc[q].id # q => loc[q].id \in Users /\ loc[q].new \in User /\ loc[q].new.status # "NONE"
MemberAt(q) ==
  /\ loc[q].id = q =>
       /\ NewcomerAt(q) /\ user[loc[q].new.user].status # "NONE"
       /\ loc[q].role \in Roles \cup {None}
       /\ pc[q] = "commit" /\ loc[q].role # None => RoleFits(loc[q].role, loc[q].new.org)
  /\ loc[q].id # q =>
       /\ loc[q].id \in Members /\ There(loc[q].id)
       /\ loc[q].new \in Membership /\ loc[q].new.status # "NONE"
       /\ loc[q].new.user = mem[loc[q].id].user /\ loc[q].new.org = mem[loc[q].id].org
       /\ loc[q].new.school = mem[loc[q].id].school /\ loc[q].new.org = prin[q].org
GrantAt(q) ==
  /\ loc[q].id \in Members /\ There(loc[q].id) /\ mem[loc[q].id].org = prin[q].org
  /\ loc[q].role \in Roles /\ loc[q].new \in Link \cup {NoLink}
  /\ loc[q].new # NoLink => RoleFits(loc[q].role, prin[q].org)
RoleAt(q) ==
  /\ loc[q].id \in Roles /\ loc[q].row \in Role /\ loc[q].new \in Role
  /\ prin[q].admin \/ RoleOrg[loc[q].id] = prin[q].org
LocAt(q) ==
  pc[q] \in Served =>
    /\ loc[q].op \in Ops
    /\ pc[q] = "member_roles" => loc[q].op = "member" /\ loc[q].id = q
    /\ loc[q].op = "tenant" => TenantAt(q)
    /\ loc[q].op = "user" => UserAt(q)
    /\ loc[q].op = "member" => MemberAt(q)
    /\ loc[q].op = "grant" => GrantAt(q)
    /\ loc[q].op = "role" => RoleAt(q)

(* An edit of a role, about to be committed or committed *)
Bumped(q) == loc[q].new.version # loc[q].row.version
EditAt(q) ==
  loc[q].op = "role" /\ (pc[q] = "commit" \/ out[q] = "written") =>
    /\ loc[q].id \in Roles /\ loc[q].row \in Role /\ loc[q].new \in Role
    /\ loc[q].row.version <= role[loc[q].id].version
    /\ ~Bumped(q) => OnlyPermissions(q)
    /\ Bumped(q) => loc[q].new.version = loc[q].row.version + 1
    /\ Bumped(q) /\ out[q] = "written" => loc[q].row.version < role[loc[q].id].version

MadeAt(q) == pc[q] # "done" => ~There(q) /\ out[q] = "none"
At(q) == WhoAt(q) /\ PrinAt(q) /\ LocAt(q) /\ EditAt(q) /\ MadeAt(q)

LinksInv == \A m \in Members : ~There(m) => \A ro \in Roles : link[<<m, ro>>] = NoLink
UsersInv == \A m \in Members : There(m) => user[mem[m].user].status # "NONE"
LocInv == loc = [q \in Reqs |-> loc[q]]

IInv == /\ TypeOK /\ LinksInv /\ UsersInv /\ LocInv
        /\ OneMembership /\ RoleRowWrittenOnce
        /\ \A q \in Reqs : At(q)

-----------------------------------------------------------------------------
(* Shapes                                                                  *)

(* The rows that the operations build are rows. *)
LEMMA Shapes ==
  /\ NoMember \in Membership /\ NoMember.status = "NONE" /\ NoMember.user = None
  /\ NoMember.org = None /\ NoMember.school = None
  /\ NoTenant \in Tenant /\ NoUser \in User /\ NoUser.status = "NONE"
  /\ NoPrincipal \in Principal /\ ~NoPrincipal.admin /\ NoPrincipal.perms = {}
  /\ NoLocal.op = "none"
  /\ "NONE" \notin TenantStatus \cup UserStatus \cup MembershipStatus \cup {"DELETED"}
  /\ "ACTIVE" \in MembershipStatus /\ "ACTIVE" \in UserStatus /\ "LIVE" \in TenantStatus
  BY DEF NoMember, Membership, NoTenant, Tenant, NoUser, User, NoPrincipal, Principal, NoLocal,
         TenantStatus, UserStatus, MembershipStatus

LEMMA Names ==
  /\ \A m \in Members : m # None
  /\ \A r \in Reqs : r \in Members /\ r \notin Users /\ r \notin Seeds
  /\ \A o \in Orgs : o # None /\ o \in Tenants /\ o \notin Schools
  /\ \A s \in Schools : s # None /\ s \in Tenants /\ SchoolOrg[s] \in Orgs /\ s \notin Orgs
  /\ \A u \in Users : u # None
  /\ \A ro \in Roles : ro # None
  BY NoneIsNoName, SchoolsHaveOrgs, SeedsAreNoRequests, RequestsAreNoUsers DEF Members, Tenants

(* What typed rows and principals hold. *)
LEMMA MemTypes ==
  ASSUME TypeOK, NEW m \in Members
  PROVE  /\ mem[m] \in Membership
         /\ mem[m].user \in Users \cup {None} /\ mem[m].org \in Orgs \cup {None}
         /\ mem[m].school \in Schools \cup {None} /\ mem[m].version \in Nat
         /\ There(m) => mem[m].user \in Users /\ mem[m].org \in Orgs
  <1>1. mem[m] \in Membership
    BY DEF TypeOK
  <1>2. There(m) => mem[m].user # None /\ mem[m].org # None
    BY DEF TypeOK, There
  <1> QED
    BY <1>1, <1>2 DEF Membership

LEMMA PrinTypes ==
  ASSUME TypeOK, NEW q \in Reqs
  PROVE  /\ prin[q] \in Principal /\ prin[q].org \in Orgs \cup {None}
         /\ prin[q].school \in Schools \cup {None} /\ prin[q].admin \in BOOLEAN
  <1>1. prin[q] \in Principal
    BY DEF TypeOK
  <1> QED
    BY <1>1 DEF Principal

-----------------------------------------------------------------------------
(* Frames                                                                  *)

(* The rows that are there stay; accounts and versions of roles too.       *)
Grown ==
  /\ \A m \in Members : There(m) =>
       /\ There(m)' /\ mem'[m].user = mem[m].user /\ mem'[m].org = mem[m].org
       /\ mem'[m].school = mem[m].school
  /\ \A u \in Users : user[u].status # "NONE" => user'[u].status # "NONE"
  /\ \A ro \in Roles : role[ro].version \in Nat /\ role'[ro].version \in Nat
                       /\ role[ro].version <= role'[ro].version

Same(q) == /\ pc'[q] = pc[q] /\ who'[q] = who[q] /\ prin'[q] = prin[q]
           /\ loc'[q] = loc[q] /\ out'[q] = out[q]
Rest(r) == \A q \in Reqs : q # r => Same(q)

(* A member stays one. *)
LEMMA MembersStay ==
  ASSUME Grown, NEW u, NEW org, MemberOf(u, org)
  PROVE  MemberOf(u, org)'
  BY DEF Grown, MemberOf, There

(* A step of another request leaves what q relies on. *)
LEMMA OthersAt ==
  ASSUME IInv, Grown, NEW q \in Reqs, Same(q), There(q)' => There(q)
  PROVE  At(q)'
  <1>1. /\ pc'[q] = pc[q] /\ who'[q] = who[q] /\ prin'[q] = prin[q] /\ loc'[q] = loc[q]
        /\ out'[q] = out[q]
    BY DEF Same
  <1>2. At(q) /\ TypeOK
    BY DEF IInv
  <1>3. WhoAt(q)'
    <2>1. pc[q] \in Resolving => \A m \in who[q].ms :
            m \in Members /\ There(m) /\ mem[m].user = who[q].user
      <3>1. who[q].ms \subseteq Members
        BY <1>2 DEF TypeOK
      <3> QED
        BY <1>2, <3>1 DEF At, WhoAt
    <2> QED
      BY <1>1, <2>1 DEF WhoAt, Grown
  <1>4. PrinAt(q)'
    BY <1>1, <1>2, MembersStay DEF At, PrinAt
  <1>5. LocAt(q)'
    <2>1. SUFFICES ASSUME pc[q] \in Served PROVE LocAt(q)'
      BY <1>1 DEF LocAt
    <2>2. LocAt(q)
      BY <1>2 DEF At
    <2>3. loc[q].op = "tenant" => TenantAt(q)'
      BY <1>1, <2>1, <2>2 DEF LocAt, TenantAt
    <2>4. loc[q].op = "user" => UserAt(q)'
      BY <1>1, <2>1, <2>2 DEF LocAt, UserAt, NewcomerAt
    <2>5. loc[q].op = "member" => MemberAt(q)'
      BY <1>1, <2>1, <2>2 DEF LocAt, MemberAt, NewcomerAt, Grown, RoleFits, There
    <2>6. loc[q].op = "grant" => GrantAt(q)'
      BY <1>1, <2>1, <2>2 DEF LocAt, GrantAt, Grown, RoleFits, There
    <2>7. loc[q].op = "role" => RoleAt(q)'
      BY <1>1, <2>1, <2>2 DEF LocAt, RoleAt
    <2> QED
      BY <1>1, <2>1, <2>2, <2>3, <2>4, <2>5, <2>6, <2>7 DEF LocAt
  <1>6. EditAt(q)'
    <2>1. SUFFICES ASSUME loc[q].op = "role", pc[q] = "commit" \/ out[q] = "written"
                   PROVE  EditAt(q)'
      BY <1>1 DEF EditAt
    <2>2. EditAt(q) /\ loc[q].id \in Roles /\ loc[q].row \in Role
      BY <1>2, <2>1 DEF At, EditAt
    <2>3. loc[q].row.version \in Nat
      BY <2>2 DEF Role
    <2> QED
      BY <1>1, <2>1, <2>2, <2>3 DEF EditAt, Grown, Bumped, OnlyPermissions
  <1>7. MadeAt(q)'
    BY <1>1, <1>2 DEF At, MadeAt
  <1> QED
    BY <1>3, <1>4, <1>5, <1>6, <1>7 DEF At

(* Where the tables stay, so does what is said of them. *)
LEMMA TablesStay ==
  ASSUME IInv, UNCHANGED tables
  PROVE  Grown /\ LinksInv' /\ UsersInv' /\ OneMembership' /\ \A q \in Reqs : There(q)' => There(q)
  <1>1. \A ro \in Roles : role[ro].version \in Nat
    BY DEF IInv, TypeOK, Role
  <1> QED
    BY <1>1 DEF IInv, tables, Grown, There, LinksInv, UsersInv, OneMembership

(* Edits of roles that have been written stay what they are. *)
LEMMA RoleRowStays ==
  ASSUME RoleRowWrittenOnce,
         \A q \in Reqs : out'[q] = "written" /\ loc'[q].op = "role" =>
                         out[q] = "written" /\ loc'[q] = loc[q]
  PROVE  RoleRowWrittenOnce'
  <1>1. SUFFICES ASSUME NEW q \in Reqs, NEW r \in Reqs, q # r,
                        out'[q] = "written", out'[r] = "written",
                        loc'[q].op = "role", loc'[r].op = "role", loc'[q].id = loc'[r].id,
                        loc'[q].row.version = loc'[r].row.version
                 PROVE  OnlyPermissions(q)' \/ OnlyPermissions(r)'
    BY DEF RoleRowWrittenOnce
  <1>2. out[q] = "written" /\ loc'[q] = loc[q] /\ out[r] = "written" /\ loc'[r] = loc[r]
    BY <1>1
  <1>3. OnlyPermissions(q) \/ OnlyPermissions(r)
    BY <1>1, <1>2 DEF RoleRowWrittenOnce
  <1> QED
    BY <1>2, <1>3 DEF OnlyPermissions

-----------------------------------------------------------------------------
(* Steps that do not write                                                 *)

(* A request moves on. *)
LEMMA Moving ==
  ASSUME IInv, NEW r \in Reqs, pc[r] # "done", NEW p \in Point \ {"done"}, Goto(r, p),
         UNCHANGED tables, Rest(r), At(r)', LocInv', raced' \in [Reqs -> BOOLEAN],
         who' \in [Reqs -> [user: Users \cup {None}, asked: Schools \cup {None},
                            ms: SUBSET Members, got: SUBSET (Members \X Perms)]],
         prin' \in [Reqs -> Principal]
  PROVE  IInv'
  <1>1. TypeOK'
    BY DEF IInv, TypeOK, Goto, tables
  <1>2. out[r] = "none" /\ out'[r] = "none"
    BY DEF IInv, At, MadeAt, Goto
  <1>3. RoleRowWrittenOnce'
    BY <1>2, RoleRowStays DEF IInv, Rest, Same
  <1>4. \A q \in Reqs : At(q)'
    BY TablesStay, OthersAt DEF Rest
  <1> QED
    BY <1>1, <1>3, <1>4, TablesStay DEF IInv

(* What is left of a request that has ended *)
LEMMA Ended ==
  ASSUME IInv, NEW r \in Reqs, NEW o \in Outcome, Finish(r, o)
  PROVE  /\ Rest(r) /\ LocInv' /\ pc'[r] = "done" /\ out'[r] = o
         /\ o = "written" => loc'[r] = loc[r]
         /\ EditAt(r)' => At(r)'
         /\ pc' \in [Reqs -> Point] /\ out' \in [Reqs -> Outcome]
         /\ who' \in [Reqs -> [user: Users \cup {None}, asked: Schools \cup {None},
                               ms: SUBSET Members, got: SUBSET (Members \X Perms)]]
         /\ prin' \in [Reqs -> Principal]
  <1>0. /\ pc \in [Reqs -> Point] /\ out \in [Reqs -> Outcome] /\ prin \in [Reqs -> Principal]
        /\ who \in [Reqs -> [user: Users \cup {None}, asked: Schools \cup {None},
                             ms: SUBSET Members, got: SUBSET (Members \X Perms)]]
        /\ LocInv
    BY DEF IInv, TypeOK
  <1>1. pc'[r] = "done" /\ out'[r] = o /\ prin'[r] = NoPrincipal
    BY <1>0 DEF Finish
  <1>2. Rest(r)
    BY <1>0 DEF Finish, Rest, Same, LocInv
  <1>3. LocInv' /\ (o = "written" => loc'[r] = loc[r])
    BY <1>0 DEF Finish, LocInv
  <1>4. EditAt(r)' => At(r)'
    BY <1>1 DEF At, WhoAt, PrinAt, LocAt, MadeAt, Served, Resolving
  <1>5. /\ pc' \in [Reqs -> Point] /\ out' \in [Reqs -> Outcome] /\ prin' \in [Reqs -> Principal]
    BY <1>0, Shapes DEF Finish, Point
  <1>6. NobodyYet \in [user: Users \cup {None}, asked: Schools \cup {None},
                       ms: SUBSET Members, got: SUBSET (Members \X Perms)]
    BY DEF NobodyYet
  <1>7. who' \in [Reqs -> [user: Users \cup {None}, asked: Schools \cup {None},
                           ms: SUBSET Members, got: SUBSET (Members \X Perms)]]
    BY <1>0, <1>6 DEF Finish
  <1> QED
    BY <1>1, <1>2, <1>3, <1>4, <1>5, <1>7

(* Unless it has edited a role, no edit is added. *)
LEMMA NoEdit ==
  ASSUME IInv, NEW r \in Reqs, NEW o \in Outcome, Finish(r, o),
         o = "written" => loc[r].op # "role"
  PROVE  EditAt(r)' /\ RoleRowWrittenOnce'
  <1>1. Rest(r) /\ pc'[r] = "done" /\ out'[r] = o /\ (o = "written" => loc'[r] = loc[r])
    BY Ended
  <1>2. loc'[r].op # "role" \/ out'[r] # "written"
    BY <1>1
  <1>3. EditAt(r)'
    BY <1>1, <1>2 DEF EditAt
  <1>4. RoleRowWrittenOnce'
    BY <1>1, <1>2, RoleRowStays DEF IInv, Rest, Same
  <1> QED
    BY <1>3, <1>4

(* A request ends without writing. *)
LEMMA Ending ==
  ASSUME IInv, NEW r \in Reqs, NEW o \in Outcome \ {"written"}, Finish(r, o),
         UNCHANGED tables, raced' \in [Reqs -> BOOLEAN]
  PROVE  IInv'
  <1>1. TypeOK'
    BY Ended DEF IInv, TypeOK, tables
  <1>2. \A q \in Reqs : At(q)'
    BY TablesStay, OthersAt, Ended, NoEdit DEF Rest
  <1> QED
    BY <1>1, <1>2, TablesStay, Ended, NoEdit DEF IInv

(* A service has made its checks. *)
LEMMA ServeLoc ==
  ASSUME IInv, NEW r \in Reqs, NEW op, NEW id, NEW row, NEW new, NEW ro,
         Serve(r, op, id, row, new, ro)
  PROVE  /\ loc'[r] = [op |-> op, id |-> id, row |-> row, new |-> new, role |-> ro]
         /\ LocInv' /\ \A q \in Reqs : q # r => loc'[q] = loc[q]
         /\ pc[r] = "guard" /\ ~There(r) /\ out[r] = "none" /\ UNCHANGED <<tables, who, prin, raced>>
         /\ prin[r].admin \/ MemberOf(who[r].user, prin[r].org)
  <1>1. LocInv /\ At(r)
    BY DEF IInv
  <1>2. pc[r] = "guard" /\ UNCHANGED <<tables, who, prin, raced>>
    BY DEF Serve
  <1>3. prin[r].admin \/ MemberOf(who[r].user, prin[r].org)
    BY <1>1, <1>2 DEF Serve, Permitted, At, PrinAt
  <1>4. ~There(r) /\ out[r] = "none"
    BY <1>1, <1>2 DEF At, MadeAt
  <1>5. /\ loc'[r] = [op |-> op, id |-> id, row |-> row, new |-> new, role |-> ro]
        /\ LocInv' /\ \A q \in Reqs : q # r => loc'[q] = loc[q]
    BY <1>1 DEF Serve, LocInv
  <1> QED
    BY <1>2, <1>3, <1>4, <1>5

LEMMA Serving ==
  ASSUME IInv, NEW r \in Reqs, NEW op \in Ops, NEW id, NEW row, NEW new, NEW ro,
         Serve(r, op, id, row, new, ro), NEW p \in Served, Goto(r, p), LocAt(r)', EditAt(r)'
  PROVE  IInv'
  <1>1. /\ LocInv' /\ \A q \in Reqs : q # r => loc'[q] = loc[q]
        /\ pc[r] = "guard" /\ ~There(r) /\ out[r] = "none"
        /\ tables' = tables /\ who' = who /\ prin' = prin /\ raced' = raced
        /\ prin[r].admin \/ MemberOf(who[r].user, prin[r].org)
    BY ServeLoc DEF vars
  <1>2. TypeOK
    BY DEF IInv
  <1>3. p \in Point \ {"done"} /\ p \notin Resolving \cup {"guard"}
    BY DEF Served, Point, Resolving
  <1>4. pc'[r] = p /\ out' = out /\ \A q \in Reqs : q # r => pc'[q] = pc[q]
    BY <1>2 DEF Goto, TypeOK
  <1>5. Rest(r)
    BY <1>1, <1>4 DEF Rest, Same
  <1>6. WhoAt(r)'
    BY <1>3, <1>4 DEF WhoAt
  <1>7. MemberOf(who[r].user, prin[r].org) => MemberOf(who[r].user, prin[r].org)'
    BY <1>1 DEF MemberOf, There, tables
  <1>8. PrinAt(r)'
    BY <1>1, <1>3, <1>4, <1>7 DEF PrinAt, MemberOf
  <1>9. MadeAt(r)'
    BY <1>1, <1>4 DEF MadeAt, There, tables
  <1>10. At(r)'
    BY <1>6, <1>8, <1>9 DEF At
  <1>11. /\ raced' \in [Reqs -> BOOLEAN] /\ prin' \in [Reqs -> Principal]
         /\ who' \in [Reqs -> [user: Users \cup {None}, asked: Schools \cup {None},
                               ms: SUBSET Members, got: SUBSET (Members \X Perms)]]
    BY <1>1, <1>2 DEF TypeOK
  <1> QED
    BY <1>1, <1>3, <1>5, <1>10, <1>11, Moving

-----------------------------------------------------------------------------
(* Resolving the principal                                                 *)

LEMMA StartStep ==
  ASSUME IInv, NEW r \in Reqs, NEW u \in Users, NEW s \in Schools \cup {None}, Start(r, u, s)
  PROVE  IInv'
  <1> DEFINE ms == {m \in Members : mem[m].user = u /\ Active(m)}
             W == [user |-> u, asked |-> s, ms |-> IF u \in Admins THEN {} ELSE ms, got |-> {}]
  <1>1. /\ TypeOK /\ At(r) /\ pc[r] = "idle" /\ prin[r] = NoPrincipal
        /\ UNCHANGED tables /\ loc' = loc /\ raced' = raced /\ LocInv
    BY DEF IInv, At, PrinAt, Start, Served
  <1>2. who' = [who EXCEPT ![r] = W]
    BY DEF Start
  <1>3. PICK p \in {"guard", "grants"} : /\ Goto(r, p)
                                         /\ p = "grants" => prin' = prin
                                         /\ p = "guard" => \/ prin' = prin
                                                           \/ prin' = [prin EXCEPT ![r] = StaffPrincipal(s)]
    BY DEF Start
  <1>4. ms \subseteq Members /\ \A m \in ms : There(m) /\ mem[m].user = u
    BY Shapes DEF Active, There
  <1>5. W \in [user: Users \cup {None}, asked: Schools \cup {None},
               ms: SUBSET Members, got: SUBSET (Members \X Perms)]
    BY <1>4
  <1>6. StaffPrincipal(s) \in Principal /\ StaffPrincipal(s).admin
    BY Names DEF StaffPrincipal, Principal
  <1>7. W.user = u /\ \A m \in W.ms : There(m) /\ mem[m].user = u
    BY <1>4
  <1> HIDE DEF ms, W
  <1>8. /\ who' \in [Reqs -> [user: Users \cup {None}, asked: Schools \cup {None},
                              ms: SUBSET Members, got: SUBSET (Members \X Perms)]]
        /\ who'[r] = W /\ \A q \in Reqs : q # r => who'[q] = who[q]
    BY <1>1, <1>2, <1>5 DEF TypeOK
  <1>9. /\ prin' \in [Reqs -> Principal] /\ \A q \in Reqs : q # r => prin'[q] = prin[q]
        /\ prin'[r] = NoPrincipal \/ (p = "guard" /\ prin'[r].admin)
    BY <1>1, <1>3, <1>6 DEF TypeOK
  <1>10. pc'[r] = p /\ out' = out /\ \A q \in Reqs : q # r => pc'[q] = pc[q]
    BY <1>1, <1>3 DEF Goto, TypeOK
  <1>11. Rest(r)
    BY <1>1, <1>8, <1>9, <1>10 DEF Rest, Same
  <1>12. WhoAt(r)'
    BY <1>1, <1>7, <1>8 DEF WhoAt, There, tables
  <1>13. PrinAt(r)'
    BY <1>9, <1>10, Shapes DEF PrinAt, Served
  <1>14. LocAt(r)' /\ EditAt(r)' /\ MadeAt(r)'
    BY <1>1, <1>10 DEF At, LocAt, EditAt, MadeAt, There, tables, Served
  <1>15. At(r)' /\ LocInv' /\ raced' \in [Reqs -> BOOLEAN] /\ p \in Point \ {"done"}
    BY <1>1, <1>12, <1>13, <1>14 DEF At, LocInv, TypeOK, Point
  <1> QED
    BY <1>1, <1>3, <1>8, <1>9, <1>11, <1>15, Moving

LEMMA LoadGrantsStep ==
  ASSUME IInv, NEW r \in Reqs, LoadGrants(r)
  PROVE  IInv'
  <1> DEFINE got == {g \in who[r].ms \X Perms : \E ro \in Roles : g[2] \in Gives(g[1], ro)}
             W == [user |-> who[r].user, asked |-> who[r].asked, ms |-> who[r].ms, got |-> got]
  <1>1. /\ TypeOK /\ At(r) /\ pc[r] = "grants" /\ Goto(r, "schools")
        /\ UNCHANGED tables /\ loc' = loc /\ raced' = raced /\ prin' = prin /\ LocInv
    BY DEF IInv, LoadGrants
  <1>2. who' = [who EXCEPT ![r] = W]
    BY DEF LoadGrants
  <1>3. who[r] \in [user: Users \cup {None}, asked: Schools \cup {None},
                    ms: SUBSET Members, got: SUBSET (Members \X Perms)]
    BY <1>1 DEF TypeOK
  <1>4. got \in SUBSET (Members \X Perms)
    BY <1>3
  <1> HIDE DEF got
  <1>5. /\ W \in [user: Users \cup {None}, asked: Schools \cup {None},
                  ms: SUBSET Members, got: SUBSET (Members \X Perms)]
        /\ W.user = who[r].user /\ W.ms = who[r].ms
    BY <1>3, <1>4
  <1> HIDE DEF W
  <1>6. /\ who' \in [Reqs -> [user: Users \cup {None}, asked: Schools \cup {None},
                              ms: SUBSET Members, got: SUBSET (Members \X Perms)]]
        /\ who'[r] = W /\ \A q \in Reqs : q # r => who'[q] = who[q]
    BY <1>1, <1>2, <1>5 DEF TypeOK
  <1>7. pc'[r] = "schools" /\ out' = out /\ \A q \in Reqs : q # r => pc'[q] = pc[q]
    BY <1>1 DEF Goto, TypeOK
  <1>8. Rest(r)
    BY <1>1, <1>6, <1>7 DEF Rest, Same
  <1>9. WhoAt(r)'
    BY <1>1, <1>5, <1>6 DEF At, WhoAt, There, tables, Resolving
  <1>10. PrinAt(r)' /\ LocAt(r)' /\ EditAt(r)' /\ MadeAt(r)'
    BY <1>1, <1>7 DEF At, PrinAt, LocAt, EditAt, MadeAt, There, tables, Served
  <1>11. /\ At(r)' /\ LocInv' /\ raced' \in [Reqs -> BOOLEAN] /\ prin' \in [Reqs -> Principal]
         /\ "schools" \in Point \ {"done"}
    BY <1>1, <1>9, <1>10 DEF At, LocInv, TypeOK, Point
  <1> QED
    BY <1>1, <1>6, <1>8, <1>11, Moving

(* The principal's organization is one that the account is a member of.    *)
LEMMA SelectSchoolStep ==
  ASSUME IInv, NEW r \in Reqs, SelectSchool(r)
  PROVE  IInv'
  <1>1. /\ TypeOK /\ At(r) /\ pc[r] = "schools" /\ Goto(r, "guard") /\ out[r] = "none"
        /\ UNCHANGED tables /\ loc' = loc /\ who' = who /\ LocInv
        /\ raced' = [raced EXCEPT ![r] = FALSE]
    BY DEF IInv, SelectSchool, At, MadeAt
  <1>2. PICK p \in Resolved(r) : prin' = [prin EXCEPT ![r] = p]
    BY DEF SelectSchool
  <1>3. who[r].ms \subseteq Members /\ \A m \in who[r].ms : There(m) /\ mem[m].user = who[r].user
    BY <1>1 DEF TypeOK, At, WhoAt, Resolving
  <1>4. PICK m \in who[r].ms, sch \in Schools \cup {None} :
          p = [org |-> mem[m].org, school |-> sch, admin |-> FALSE,
               perms |-> {x \in Perms : \E n \in Applicable(r, sch) : <<n, x>> \in who[r].got}]
    BY <1>2 DEF Resolved
  <1>5. m \in Members /\ There(m) /\ mem[m].user = who[r].user /\ mem[m].org \in Orgs
    BY <1>1, <1>3, MemTypes
  <1>6. p \in Principal /\ p.org = mem[m].org
    BY <1>4, <1>5 DEF Principal
  <1>7. MemberOf(who[r].user, p.org)
    BY <1>5, <1>6, Names DEF MemberOf
  <1>8. /\ prin' \in [Reqs -> Principal]
        /\ prin'[r] = p /\ \A q \in Reqs : q # r => prin'[q] = prin[q]
    BY <1>1, <1>2, <1>6 DEF TypeOK
  <1>9. pc'[r] = "guard" /\ out' = out /\ \A q \in Reqs : q # r => pc'[q] = pc[q]
    BY <1>1 DEF Goto, TypeOK
  <1>10. Rest(r)
    BY <1>1, <1>8, <1>9 DEF Rest, Same
  <1>11. MemberOf(who[r].user, p.org)'
    BY <1>1, <1>2, <1>7, <1>8, TablesStay, MembersStay
  <1>12. PrinAt(r)'
    BY <1>1, <1>8, <1>9, <1>11 DEF PrinAt, Served
  <1>13. WhoAt(r)' /\ LocAt(r)' /\ EditAt(r)' /\ MadeAt(r)'
    BY <1>1, <1>9 DEF At, WhoAt, LocAt, EditAt, MadeAt, There, tables, Served, Resolving
  <1>14. /\ At(r)' /\ LocInv' /\ raced' \in [Reqs -> BOOLEAN] /\ "guard" \in Point \ {"done"}
         /\ who' \in [Reqs -> [user: Users \cup {None}, asked: Schools \cup {None},
                               ms: SUBSET Members, got: SUBSET (Members \X Perms)]]
    BY <1>1, <1>12, <1>13 DEF At, LocInv, TypeOK, Point
  <1> QED
    BY <1>1, <1>8, <1>10, <1>14, Moving

-----------------------------------------------------------------------------
(* What the services have checked when they go on to write                 *)

LEMMA ServeSchoolStep ==
  ASSUME IInv, NEW r \in Reqs, NEW t \in Schools, NEW status \in TenantStatus \cup {"DELETED"},
         ServeSchool(r, t, status)
  PROVE  IInv'
  <1> DEFINE new == [status |-> status, version |-> tenant[t].version + 1]
  <1>1. Serve(r, "tenant", t, tenant[t], new, None) /\ Goto(r, "commit")
    BY DEF ServeSchool
  <1>2. prin[r].org = SchoolOrg[t]
    BY Names DEF ServeSchool, OwnedTenant
  <1>3. tenant[t].version \in Nat /\ t \in Tenants
    BY Names DEF IInv, TypeOK, Tenant
  <1>4. new \in Tenant
    BY <1>3 DEF Tenant
  <1> HIDE DEF new
  <1>5. loc'[r] = [op |-> "tenant", id |-> t, row |-> tenant[t], new |-> new, role |-> None]
    BY <1>1, ServeLoc
  <1>6. prin' = prin /\ pc'[r] = "commit"
    BY <1>1 DEF Serve, Goto, IInv, TypeOK
  <1>7. LocAt(r)' /\ EditAt(r)'
    BY <1>2, <1>3, <1>4, <1>5, <1>6 DEF LocAt, EditAt, TenantAt, Ops
  <1>8. "tenant" \in Ops /\ "commit" \in Served
    BY DEF Ops, Served
  <1> QED
    BY <1>1, <1>7, <1>8, Serving

LEMMA ServeOrganizationStep ==
  ASSUME IInv, NEW r \in Reqs, NEW t \in Orgs, NEW status \in TenantStatus \cup {"DELETED"},
         ServeOrganization(r, t, status)
  PROVE  IInv'
  <1> DEFINE new == [status |-> status, version |-> tenant[t].version + 1]
  <1>1. Serve(r, "tenant", t, tenant[t], new, None) /\ Goto(r, "commit")
    BY DEF ServeOrganization
  <1>3. tenant[t].version \in Nat /\ t \in Tenants /\ t \notin Schools
    BY Names DEF IInv, TypeOK, Tenant
  <1>4. new \in Tenant
    BY <1>3 DEF Tenant
  <1> HIDE DEF new
  <1>5. loc'[r] = [op |-> "tenant", id |-> t, row |-> tenant[t], new |-> new, role |-> None]
    BY <1>1, ServeLoc
  <1>6. prin' = prin /\ pc'[r] = "commit"
    BY <1>1 DEF Serve, Goto, IInv, TypeOK
  <1>7. LocAt(r)' /\ EditAt(r)'
    BY <1>3, <1>4, <1>5, <1>6 DEF LocAt, EditAt, TenantAt, Ops
  <1>8. "tenant" \in Ops /\ "commit" \in Served
    BY DEF Ops, Served
  <1> QED
    BY <1>1, <1>7, <1>8, Serving

LEMMA ServeUserStep ==
  ASSUME IInv, NEW r \in Reqs, NEW u \in Users, NEW status \in UserStatus \cup {"DELETED"},
         ServeUser(r, u, status)
  PROVE  IInv'
  <1> DEFINE new == [status |-> status, version |-> user[u].version + 1]
  <1>1. Serve(r, "user", u, user[u], new, None) /\ Goto(r, "commit")
    BY DEF ServeUser
  <1>3. user[u].version \in Nat /\ u # r
    BY Names DEF IInv, TypeOK, User
  <1>4. new \in User /\ new.status # "NONE"
    BY <1>3, Shapes DEF User
  <1> HIDE DEF new
  <1>5. loc'[r] = [op |-> "user", id |-> u, row |-> user[u], new |-> new, role |-> None]
    BY <1>1, ServeLoc
  <1>6. prin' = prin /\ pc'[r] = "commit"
    BY <1>1 DEF Serve, Goto, IInv, TypeOK
  <1>7. LocAt(r)' /\ EditAt(r)'
    BY <1>3, <1>4, <1>5, <1>6 DEF LocAt, EditAt, UserAt, Ops
  <1>8. "user" \in Ops /\ "commit" \in Served
    BY DEF Ops, Served
  <1> QED
    BY <1>1, <1>7, <1>8, Serving

LEMMA ServeUserCreateStep ==
  ASSUME IInv, NEW r \in Reqs, NEW u \in Users, NEW s \in Schools \cup {None},
         ServeUserCreate(r, u, s)
  PROVE  IInv'
  <1> DEFINE new == [user |-> u, org |-> prin[r].org, school |-> s, status |-> "ACTIVE",
                     default |-> TRUE, version |-> 1]
  <1>1. Serve(r, "user", r, NoMember, new, None) /\ Goto(r, "commit")
    BY DEF ServeUserCreate
  <1>2. prin[r].org \in Orgs /\ (s # None => SchoolOrg[s] = prin[r].org)
    BY PrinTypes, Names DEF IInv, ServeUserCreate, HasOrganization, OwnedTenant
  <1>3. new \in Membership
    BY <1>2, Shapes DEF Membership
  <1>4. new.status = "ACTIVE" /\ new.user = u /\ new.org = prin[r].org /\ new.school = s
    OBVIOUS
  <1> HIDE DEF new
  <1>5. loc'[r] = [op |-> "user", id |-> r, row |-> NoMember, new |-> new, role |-> None]
    BY <1>1, ServeLoc
  <1>6. prin' = prin /\ pc'[r] = "commit"
    BY <1>1 DEF Serve, Goto, IInv, TypeOK
  <1>7. LocAt(r)' /\ EditAt(r)'
    BY <1>2, <1>3, <1>4, <1>5, <1>6 DEF LocAt, EditAt, UserAt, NewcomerAt, Ops
  <1>8. "user" \in Ops /\ "commit" \in Served
    BY DEF Ops, Served
  <1> QED
    BY <1>1, <1>7, <1>8, Serving

LEMMA ServeMemberCreateStep ==
  ASSUME IInv, NEW r \in Reqs, NEW u \in Users, NEW s \in Schools \cup {None},
         NEW ro \in Roles \cup {None}, ServeMemberCreate(r, u, s, ro)
  PROVE  IInv'
  <1> DEFINE new == NewMember(u, prin[r].org, s)
             p == IF ro = None THEN "commit" ELSE "member_roles"
  <1>1. Serve(r, "member", r, NoMember, new, ro) /\ Goto(r, p) /\ user[u].status # "NONE"
    BY DEF ServeMemberCreate
  <1>2. prin[r].org \in Orgs /\ (s # None => SchoolOrg[s] = prin[r].org)
    BY PrinTypes, Names DEF IInv, ServeMemberCreate, HasOrganization, OwnedTenant
  <1>3. new \in Membership
    BY <1>2, Shapes DEF Membership, NewMember
  <1>4. new.status = "ACTIVE" /\ new.user = u /\ new.org = prin[r].org /\ new.school = s
    BY DEF NewMember
  <1>5. p \in Served /\ (p = "commit" => ro = None)
    BY DEF Served
  <1> HIDE DEF new, p
  <1>6. loc'[r] = [op |-> "member", id |-> r, row |-> NoMember, new |-> new, role |-> ro]
    BY <1>1, ServeLoc
  <1>7. prin' = prin /\ pc'[r] = p /\ user' = user
    BY <1>1 DEF Serve, Goto, IInv, TypeOK, tables
  <1>8. LocAt(r)' /\ EditAt(r)'
    BY <1>1, <1>2, <1>3, <1>4, <1>5, <1>6, <1>7 DEF LocAt, EditAt, MemberAt, NewcomerAt, Ops
  <1>9. "member" \in Ops
    BY DEF Ops
  <1> QED
    BY <1>1, <1>5, <1>8, <1>9, Serving

LEMMA MemberRolesStep ==
  ASSUME IInv, NEW r \in Reqs, MemberRoles(r)
  PROVE  IInv'
  <1>1. /\ TypeOK /\ At(r) /\ pc[r] = "member_roles" /\ Goto(r, "commit")
        /\ UNCHANGED <<tables, who, prin, loc, raced>> /\ LocInv /\ Grantable(r, loc[r].role)
    BY DEF IInv, MemberRoles
  <1>2. pc'[r] = "commit" /\ out' = out /\ \A q \in Reqs : q # r => pc'[q] = pc[q]
    BY <1>1 DEF Goto, TypeOK
  <1>3. Rest(r)
    BY <1>1, <1>2 DEF Rest, Same
  <1>4. loc[r].op = "member" /\ loc[r].id = r /\ MemberAt(r)
    BY <1>1 DEF At, LocAt, Served
  <1>5. RoleFits(loc[r].role, loc[r].new.org)
    BY <1>1, <1>4 DEF Grantable, OrgRole, RoleFits, MemberAt, NewcomerAt
  <1>6. MemberAt(r)'
    BY <1>1, <1>4, <1>5 DEF MemberAt, NewcomerAt, RoleFits, tables
  <1>7. LocAt(r)' /\ EditAt(r)'
    BY <1>1, <1>4, <1>6 DEF LocAt, EditAt, Ops
  <1>8. MemberOf(who[r].user, prin[r].org) => MemberOf(who[r].user, prin[r].org)'
    BY <1>1 DEF MemberOf, There, tables
  <1>9. WhoAt(r)' /\ PrinAt(r)' /\ MadeAt(r)'
    BY <1>1, <1>2, <1>8 DEF At, WhoAt, PrinAt, MadeAt, MemberOf, There, tables, Served, Resolving
  <1>10. At(r)' /\ LocInv' /\ "commit" \in Point \ {"done"}
    BY <1>1, <1>7, <1>9 DEF At, LocInv, Point
  <1>11. /\ raced' \in [Reqs -> BOOLEAN] /\ prin' \in [Reqs -> Principal]
         /\ who' \in [Reqs -> [user: Users \cup {None}, asked: Schools \cup {None},
                               ms: SUBSET Members, got: SUBSET (Members \X Perms)]]
    BY <1>1 DEF TypeOK
  <1> QED
    BY <1>1, <1>3, <1>10, <1>11, Moving

LEMMA ServeMemberStep ==
  ASSUME IInv, NEW r \in Reqs, NEW m \in Members, NEW status \in MembershipStatus,
         NEW default \in BOOLEAN, ServeMember(r, m, status, default)
  PROVE  IInv'
  <1> DEFINE new == [user |-> mem[m].user, org |-> mem[m].org, school |-> mem[m].school,
                     status |-> status, default |-> default, version |-> mem[m].version + 1]
  <1>1. Serve(r, "member", m, mem[m], new, None) /\ Goto(r, "commit")
    BY DEF ServeMember
  <1>2. There(m) /\ prin[r].org = mem[m].org
    BY DEF ServeMember, OwnedMember, There
  <1>3. m # r
    BY <1>1, <1>2, ServeLoc
  <1>4. new \in Membership
    BY MemTypes DEF IInv, Membership
  <1>5. /\ new.user = mem[m].user /\ new.org = mem[m].org /\ new.school = mem[m].school
        /\ new.status # "NONE"
    BY Shapes
  <1> HIDE DEF new
  <1>6. loc'[r] = [op |-> "member", id |-> m, row |-> mem[m], new |-> new, role |-> None]
    BY <1>1, ServeLoc
  <1>7. prin' = prin /\ pc'[r] = "commit" /\ mem' = mem
    BY <1>1 DEF Serve, Goto, IInv, TypeOK, tables
  <1>8. LocAt(r)' /\ EditAt(r)'
    BY <1>2, <1>3, <1>4, <1>5, <1>6, <1>7 DEF LocAt, EditAt, MemberAt, There, Ops
  <1>9. "member" \in Ops /\ "commit" \in Served
    BY DEF Ops, Served
  <1> QED
    BY <1>1, <1>8, <1>9, Serving

LEMMA ServeGrantStep ==
  ASSUME IInv, NEW r \in Reqs, NEW m \in Members, NEW ro \in Roles, ServeGrant(r, m, ro)
  PROVE  IInv'
  <1> DEFINE new == [by |-> r, live |-> TRUE]
  <1>1. Serve(r, "grant", m, NoLink, new, ro) /\ Goto(r, "commit")
    BY DEF ServeGrant
  <1>2. There(m) /\ prin[r].org = mem[m].org
    BY DEF ServeGrant, OwnedMember, There
  <1>3. RoleFits(ro, prin[r].org)
    BY DEF ServeGrant, Grantable, OrgRole, RoleFits
  <1>4. new \in Link
    BY Names DEF Link
  <1> HIDE DEF new
  <1>6. loc'[r] = [op |-> "grant", id |-> m, row |-> NoLink, new |-> new, role |-> ro]
    BY <1>1, ServeLoc
  <1>7. prin' = prin /\ pc'[r] = "commit" /\ mem' = mem
    BY <1>1 DEF Serve, Goto, IInv, TypeOK, tables
  <1>8. LocAt(r)' /\ EditAt(r)'
    BY <1>2, <1>3, <1>4, <1>6, <1>7 DEF LocAt, EditAt, GrantAt, There, RoleFits, Ops
  <1>9. "grant" \in Ops /\ "commit" \in Served
    BY DEF Ops, Served
  <1> QED
    BY <1>1, <1>8, <1>9, Serving

LEMMA ServeRevokeStep ==
  ASSUME IInv, NEW r \in Reqs, NEW m \in Members, NEW ro \in Roles, ServeRevoke(r, m, ro)
  PROVE  IInv'
  <1>1. Serve(r, "grant", m, link[<<m, ro>>], NoLink, ro) /\ Goto(r, "commit")
    BY DEF ServeRevoke
  <1>2. There(m) /\ prin[r].org = mem[m].org
    BY DEF ServeRevoke, OwnedMember, There
  <1>6. loc'[r] = [op |-> "grant", id |-> m, row |-> link[<<m, ro>>], new |-> NoLink, role |-> ro]
    BY <1>1, ServeLoc
  <1>7. prin' = prin /\ pc'[r] = "commit" /\ mem' = mem
    BY <1>1 DEF Serve, Goto, IInv, TypeOK, tables
  <1>8. LocAt(r)' /\ EditAt(r)'
    BY <1>2, <1>6, <1>7 DEF LocAt, EditAt, GrantAt, There, Ops
  <1>9. "grant" \in Ops /\ "commit" \in Served
    BY DEF Ops, Served
  <1> QED
    BY <1>1, <1>8, <1>9, Serving

(* The role is one of the request's organization, and its version grows    *)
(* unless its row stays as it is.                                          *)
LEMMA ServeRoleStep ==
  ASSUME IInv, NEW r \in Reqs, NEW ro \in Roles, NEW status \in {"LIVE", "ARCHIVED"},
         NEW ps \in SUBSET Perms, NEW cols \in BOOLEAN, ServeRole(r, ro, status, ps, cols)
  PROVE  IInv'
  <1> DEFINE v == IF RowWritten(r, ro, status, cols) THEN role[ro].version + 1
                                                     ELSE role[ro].version
             new == [status |-> status, perms |-> ps, by |-> who[r].user, version |-> v]
  <1>1. Serve(r, "role", ro, role[ro], new, None) /\ Goto(r, "commit")
    BY DEF ServeRole
  <1>2. prin[r].admin \/ MemberOf(who[r].user, prin[r].org)
    BY <1>1, ServeLoc
  <1>3. prin[r].admin \/ RoleOrg[ro] = prin[r].org
    BY <1>2 DEF ServeRole, OwnedRole, OrgRole, MemberOf
  <1>4. role[ro] \in Role /\ role[ro].version \in Nat /\ who[r].user \in Users \cup {None}
    BY DEF IInv, TypeOK, Role
  <1>5. v \in Nat /\ (v # role[ro].version => v = role[ro].version + 1)
    BY <1>4
  <1>6. v = role[ro].version => role[ro].by = who[r].user
    BY <1>4 DEF RowWritten
  <1>13. v = role[ro].version => new = [role[ro] EXCEPT !.perms = ps]
    BY <1>4 DEF RowWritten, Role
  <1> HIDE DEF v
  <1>7. new \in Role /\ new.version = v /\ new.by = who[r].user
    BY <1>4, <1>5 DEF Role
  <1> HIDE DEF new
  <1>8. loc'[r] = [op |-> "role", id |-> ro, row |-> role[ro], new |-> new, role |-> None]
    BY <1>1, ServeLoc
  <1>9. prin' = prin /\ pc'[r] = "commit" /\ role' = role /\ out'[r] = "none"
    BY <1>1, ServeLoc DEF Serve, Goto, IInv, TypeOK, tables
  <1>10. LocAt(r)'
    BY <1>3, <1>4, <1>7, <1>8, <1>9 DEF LocAt, RoleAt, Ops
  <1>11. EditAt(r)'
    BY <1>4, <1>5, <1>6, <1>7, <1>8, <1>9, <1>13 DEF EditAt, Bumped, OnlyPermissions
  <1>12. "role" \in Ops /\ "commit" \in Served
    BY DEF Ops, Served
  <1> QED
    BY <1>1, <1>10, <1>11, <1>12, Serving

-----------------------------------------------------------------------------
(* Commits                                                                 *)

(* The part of TypeOK that is about the tables *)
RowsOK ==
  /\ tenant \in [Tenants -> Tenant]
  /\ user \in [Users -> User]
  /\ mem \in [Members -> Membership]
  /\ \A m \in Members : There(m) => mem[m].user # None /\ mem[m].org # None
  /\ \A m \in Members : There(m) =>
       /\ mem[m].school # None => SchoolOrg[mem[m].school] = mem[m].org
       /\ \A ro \in Roles : link[<<m, ro>>] # NoLink => RoleFits(ro, mem[m].org)
  /\ link \in [Members \X Roles -> Link \cup {NoLink}]
  /\ role \in [Roles -> Role]

LEMMA Rows ==
  TypeOK => RowsOK
  BY DEF TypeOK, RowsOK, There, RoleFits

LEMMA DisturbType ==
  ASSUME TypeOK, NEW r \in Reqs, Disturb(r)
  PROVE  raced' \in [Reqs -> BOOLEAN]
  BY DEF TypeOK, Disturb

(* A request ends, having written. *)
LEMMA Writing ==
  ASSUME IInv, NEW r \in Reqs, NEW o \in {"written", "same"}, Finish(r, o), Disturb(r),
         Grown, RowsOK', LinksInv', UsersInv', OneMembership',
         \A q \in Reqs : q # r => (There(q)' => There(q)),
         EditAt(r)', RoleRowWrittenOnce'
  PROVE  IInv'
  <1>1. /\ Rest(r) /\ LocInv' /\ At(r)'
        /\ pc' \in [Reqs -> Point] /\ out' \in [Reqs -> Outcome]
        /\ who' \in [Reqs -> [user: Users \cup {None}, asked: Schools \cup {None},
                              ms: SUBSET Members, got: SUBSET (Members \X Perms)]]
        /\ prin' \in [Reqs -> Principal]
    <2>1. o \in Outcome
      BY DEF Outcome
    <2> QED
      BY <2>1, Ended
  <1>2. raced' \in [Reqs -> BOOLEAN]
    BY DisturbType DEF IInv
  <1>3. TypeOK'
    BY <1>1, <1>2 DEF TypeOK, RowsOK, There, RoleFits
  <1>4. \A q \in Reqs : At(q)'
    BY <1>1, OthersAt DEF Rest
  <1> QED
    BY <1>1, <1>3, <1>4 DEF IInv

(* What a request relies on when it commits *)
LEMMA Committing ==
  ASSUME IInv, NEW r \in Reqs, pc[r] = "commit"
  PROVE  /\ TypeOK /\ RowsOK /\ LinksInv /\ UsersInv /\ OneMembership /\ ~There(r)
         /\ PrinAt(r) /\ LocAt(r) /\ EditAt(r)
         /\ \A ro \in Roles : role[ro].version \in Nat
  <1>1. \A ro \in Roles : role[ro].version \in Nat
    BY DEF IInv, TypeOK, Role
  <1> QED
    BY <1>1, Rows DEF IInv, At, MadeAt

LEMMA CommitTenantStep ==
  ASSUME IInv, NEW r \in Reqs, CommitTenant(r)
  PROVE  IInv'
  <1> DEFINE t == loc[r].id
  <1>1. pc[r] = "commit" /\ loc[r].op = "tenant" /\ UNCHANGED <<user, mem, link, role>>
    BY DEF CommitTenant
  <1>2. CASE UNCHANGED <<tenant, raced>> /\ Finish(r, "error")
    BY <1>1, <1>2, Ending DEF tables, IInv, TypeOK, Outcome
  <1>3. CASE tenant' = [tenant EXCEPT ![t] = loc[r].new] /\ Finish(r, "written") /\ Disturb(r)
    <2>1. t \in Tenants /\ loc[r].new \in Tenant
      BY <1>1, Committing DEF LocAt, TenantAt, Served
    <2>2. RowsOK'
      BY <1>1, <1>3, <2>1, Committing DEF RowsOK, There, RoleFits
    <2>3. /\ Grown /\ LinksInv' /\ UsersInv' /\ OneMembership'
          /\ \A q \in Reqs : q # r => (There(q)' => There(q))
      BY <1>1, Committing DEF Grown, LinksInv, UsersInv, OneMembership, There
    <2>4. EditAt(r)' /\ RoleRowWrittenOnce'
      BY <1>1, <1>3, NoEdit DEF Outcome
    <2> QED
      BY <1>3, <2>2, <2>3, <2>4, Writing
  <1> QED
    BY <1>2, <1>3 DEF CommitTenant

LEMMA CommitUserStep ==
  ASSUME IInv, NEW r \in Reqs, CommitUser(r)
  PROVE  IInv'
  <1> DEFINE u == loc[r].id
  <1>1. /\ pc[r] = "commit" /\ loc[r].op = "user" /\ u \in Users
        /\ UNCHANGED <<tenant, mem, link, role>>
    BY DEF CommitUser
  <1>2. CASE UNCHANGED <<user, raced>> /\ Finish(r, "error")
    BY <1>1, <1>2, Ending DEF tables, IInv, TypeOK, Outcome
  <1>3. CASE user' = [user EXCEPT ![u] = loc[r].new] /\ Finish(r, "written") /\ Disturb(r)
    <2>1. loc[r].new \in User /\ loc[r].new.status # "NONE"
      BY <1>1, Names, Committing DEF LocAt, UserAt, Served
    <2>2. RowsOK'
      BY <1>1, <1>3, <2>1, Committing DEF RowsOK, There, RoleFits
    <2>3. \A x \in Users : user[x].status # "NONE" => user'[x].status # "NONE"
      BY <1>1, <1>3, <2>1, Committing DEF RowsOK
    <2>4. /\ Grown /\ LinksInv' /\ OneMembership'
          /\ \A q \in Reqs : q # r => (There(q)' => There(q))
      BY <1>1, <2>3, Committing DEF Grown, LinksInv, OneMembership, There
    <2>5. UsersInv'
      BY <1>1, <2>3, MemTypes, Committing DEF UsersInv, There
    <2>6. EditAt(r)' /\ RoleRowWrittenOnce'
      BY <1>1, <1>3, NoEdit DEF Outcome
    <2> QED
      BY <1>3, <2>2, <2>4, <2>5, <2>6, Writing
  <1> QED
    BY <1>2, <1>3 DEF CommitUser

(* The membership of a new account cannot be there yet. *)
LEMMA CommitUserCreateStep ==
  ASSUME IInv, NEW r \in Reqs, CommitUserCreate(r)
  PROVE  IInv'
  <1> DEFINE new == loc[r].new
             u == new.user
  <1>1. /\ pc[r] = "commit" /\ loc[r].op = "user" /\ loc[r].id = r
        /\ UNCHANGED <<tenant, link, role>>
    BY DEF CommitUserCreate
  <1>2. CASE UNCHANGED <<user, mem, raced>> /\ Finish(r, "error")
    BY <1>1, <1>2, Ending DEF tables, IInv, TypeOK, Outcome
  <1>3. ASSUME user[u].status = "NONE", NEW s \in {"ACTIVE", "OFF"},
               user' = [user EXCEPT ![u] = [status |-> s, version |-> 1]],
               mem' = [mem EXCEPT ![r] = new], Finish(r, "written"), Disturb(r)
        PROVE  IInv'
    <2>1. /\ new \in Membership /\ new.status = "ACTIVE" /\ u \in Users /\ new.org \in Orgs
          /\ new.school # None => SchoolOrg[new.school] = new.org
      BY <1>1, Committing DEF LocAt, UserAt, NewcomerAt, Served
    <2>2. [status |-> s, version |-> 1] \in User /\ s # "NONE"
      BY DEF User, UserStatus
    <2>3. user' \in [Users -> User] /\ mem' \in [Members -> Membership]
      BY <1>1, <1>3, <2>1, <2>2, Committing DEF RowsOK
    <2>4. /\ mem'[r] = new /\ \A m \in Members : m # r => mem'[m] = mem[m]
          /\ user'[u].status # "NONE" /\ \A x \in Users : x # u => user'[x] = user[x]
          /\ r \in Members
      BY <1>1, <1>3, <2>1, <2>2, Names, Committing DEF RowsOK
    <2>5. /\ \A m \in Members : m # r => (There(m)' <=> There(m))
          /\ There(r)' /\ ~There(r) /\ \A ro \in Roles : link[<<r, ro>>] = NoLink
      BY <1>1, <2>1, <2>4, Committing DEF There, LinksInv
    <2>6. RowsOK'
      <3>1. \A m \in Members : There(m)' => mem'[m].user # None /\ mem'[m].org # None
        BY <1>1, <2>1, <2>4, <2>5, Names, Committing DEF RowsOK
      <3>2. \A m \in Members : There(m)' =>
              /\ mem'[m].school # None => SchoolOrg[mem'[m].school] = mem'[m].org
              /\ \A ro \in Roles : link[<<m, ro>>] # NoLink => RoleFits(ro, mem'[m].org)
        BY <1>1, <2>1, <2>4, <2>5, Committing DEF RowsOK
      <3> QED
        BY <1>1, <2>3, <3>1, <3>2, Committing DEF RowsOK, RoleFits
    <2>7. /\ Grown /\ LinksInv' /\ \A q \in Reqs : q # r => (There(q)' => There(q))
      BY <1>1, <1>3, <2>4, <2>5, Names, Committing DEF Grown, LinksInv
    <2>8. UsersInv'
      BY <1>1, <2>1, <2>4, <2>5, MemTypes, Committing DEF UsersInv
    <2>9. \A m \in Members : There(m) => mem[m].user # u
      BY <1>1, <1>3, Committing DEF UsersInv
    <2>10. OneMembership'
      BY <1>1, <2>4, <2>5, <2>9, Committing DEF OneMembership, There
    <2>11. EditAt(r)' /\ RoleRowWrittenOnce'
      BY <1>1, <1>3, NoEdit DEF Outcome
    <2> QED
      BY <1>3, <2>6, <2>7, <2>8, <2>10, <2>11, Writing
  <1> QED
    BY <1>2, <1>3 DEF CommitUserCreate

LEMMA CommitMemberCreateStep ==
  ASSUME IInv, NEW r \in Reqs, CommitMemberCreate(r)
  PROVE  IInv'
  <1> DEFINE new == loc[r].new
             ro == loc[r].role
             l == [by |-> r, live |-> TRUE]
  <1>1. /\ pc[r] = "commit" /\ loc[r].op = "member" /\ loc[r].id = r
        /\ UNCHANGED <<tenant, user, role>>
    BY DEF CommitMemberCreate
  <1>2. CASE UNCHANGED <<mem, link, raced>> /\ Finish(r, "error")
    BY <1>1, <1>2, Ending DEF tables, IInv, TypeOK, Outcome
  <1>3. CASE /\ MemberFree(new) /\ mem' = [mem EXCEPT ![r] = new]
             /\ link' = IF ro = None THEN link ELSE [link EXCEPT ![<<r, ro>>] = l]
             /\ Finish(r, "written") /\ Disturb(r)
    <2>1. /\ new \in Membership /\ new.status = "ACTIVE" /\ new.user \in Users /\ new.org \in Orgs
          /\ new.school # None => SchoolOrg[new.school] = new.org
          /\ user[new.user].status # "NONE" /\ ro \in Roles \cup {None}
          /\ ro # None => RoleFits(ro, new.org)
      BY <1>1, Committing DEF LocAt, MemberAt, NewcomerAt, Served
    <2>2. l \in Link
      BY Names DEF Link
    <2> HIDE DEF l
    <2>3. mem' \in [Members -> Membership]
      BY <1>1, <1>3, <2>1, Committing DEF RowsOK
    <2>4. /\ mem'[r] = new /\ \A m \in Members : m # r => mem'[m] = mem[m]
          /\ r \in Members
      BY <1>1, <1>3, <2>1, Names, Committing DEF RowsOK
    <2>5. /\ \A m \in Members : m # r => (There(m)' <=> There(m))
          /\ There(r)' /\ ~There(r) /\ \A x \in Roles : link[<<r, x>>] = NoLink
      BY <1>1, <2>1, <2>4, Committing DEF There, LinksInv
    <2>6. /\ link' \in [Members \X Roles -> Link \cup {NoLink}]
          /\ \A m \in Members, x \in Roles : m # r => link'[<<m, x>>] = link[<<m, x>>]
          /\ \A x \in Roles : x # ro => link'[<<r, x>>] = NoLink
      <3>1. CASE ro = None
        BY <1>1, <1>3, <2>5, <3>1, Committing DEF RowsOK
      <3>2. CASE ro # None
        <4>1. link \in [Members \X Roles -> Link \cup {NoLink}] /\ <<r, ro>> \in Members \X Roles
          BY <1>1, <2>1, <2>4, <3>2, Committing DEF RowsOK
        <4>2. link' = [link EXCEPT ![<<r, ro>>] = l]
          BY <1>3, <3>2
        <4> QED
          BY <2>2, <2>4, <2>5, <4>1, <4>2
      <3> QED
        BY <3>1, <3>2
    <2>7. RowsOK'
      <3>1. \A m \in Members : There(m)' => mem'[m].user # None /\ mem'[m].org # None
        BY <1>1, <2>1, <2>4, <2>5, Names, Committing DEF RowsOK
      <3>2. \A m \in Members : There(m)' =>
              (mem'[m].school # None => SchoolOrg[mem'[m].school] = mem'[m].org)
        BY <1>1, <2>1, <2>4, <2>5, Committing DEF RowsOK
      <3>3. \A m \in Members : There(m)' =>
              (\A x \in Roles : link'[<<m, x>>] # NoLink => RoleFits(x, mem'[m].org))
        BY <1>1, <2>1, <2>4, <2>5, <2>6, Names, Committing DEF RowsOK
      <3> QED
        BY <1>1, <2>3, <2>6, <3>1, <3>2, <3>3, Committing DEF RowsOK, RoleFits
    <2>8. /\ Grown /\ LinksInv' /\ \A q \in Reqs : q # r => (There(q)' => There(q))
      BY <1>1, <2>4, <2>5, <2>6, Names, Committing DEF Grown, LinksInv
    <2>9. UsersInv'
      BY <1>1, <2>1, <2>4, <2>5, Committing DEF UsersInv
    <2>10. OneMembership'
      BY <1>1, <1>3, <2>4, <2>5, Committing DEF OneMembership, MemberFree, There
    <2>11. EditAt(r)' /\ RoleRowWrittenOnce'
      BY <1>1, <1>3, NoEdit DEF Outcome
    <2> QED
      BY <1>3, <2>7, <2>8, <2>9, <2>10, <2>11, Writing
  <1> QED
    BY <1>2, <1>3 DEF CommitMemberCreate

LEMMA CommitMemberStep ==
  ASSUME IInv, NEW r \in Reqs, CommitMember(r)
  PROVE  IInv'
  <1> DEFINE m == loc[r].id
             new == loc[r].new
  <1>1. /\ pc[r] = "commit" /\ loc[r].op = "member" /\ m # r
        /\ UNCHANGED <<tenant, user, link, role>>
    BY DEF CommitMember
  <1>2. CASE UNCHANGED <<mem, raced>> /\ Finish(r, "error")
    BY <1>1, <1>2, Ending DEF tables, IInv, TypeOK, Outcome
  <1>3. CASE mem' = [mem EXCEPT ![m] = new] /\ Finish(r, "written") /\ Disturb(r)
    <2>1. /\ m \in Members /\ There(m) /\ new \in Membership /\ new.status # "NONE"
          /\ new.user = mem[m].user /\ new.org = mem[m].org /\ new.school = mem[m].school
      BY <1>1, Committing DEF LocAt, MemberAt, Served
    <2> HIDE DEF m, new
    <2>2. mem' \in [Members -> Membership] /\ mem'[m] = new
      BY <1>1, <1>3, <2>1, Committing DEF RowsOK
    <2>3. \A n \in Members :
            /\ There(n)' <=> There(n)
            /\ mem'[n].user = mem[n].user /\ mem'[n].org = mem[n].org
            /\ mem'[n].school = mem[n].school
      BY <1>1, <1>3, <2>1, <2>2, Committing DEF There, RowsOK
    <2>4. RowsOK'
      BY <1>1, <2>2, <2>3, Committing DEF RowsOK, RoleFits
    <2>5. /\ Grown /\ LinksInv' /\ \A q \in Reqs : q # r => (There(q)' => There(q))
      BY <1>1, <2>3, Names, Committing DEF Grown, LinksInv
    <2>6. UsersInv'
      BY <1>1, <2>3, Committing DEF UsersInv
    <2>7. OneMembership'
      BY <1>1, <2>3, Committing DEF OneMembership, There
    <2>8. EditAt(r)' /\ RoleRowWrittenOnce'
      BY <1>1, <1>3, NoEdit DEF Outcome
    <2> QED
      BY <1>3, <2>4, <2>5, <2>6, <2>7, <2>8, Writing
  <1> QED
    BY <1>2, <1>3 DEF CommitMember

LEMMA CommitGrantStep ==
  ASSUME IInv, NEW r \in Reqs, CommitGrant(r)
  PROVE  IInv'
  <1> DEFINE m == loc[r].id
             ro == loc[r].role
             new == loc[r].new
  <1>1. pc[r] = "commit" /\ loc[r].op = "grant" /\ UNCHANGED <<tenant, user, mem, role>>
    BY DEF CommitGrant
  <1>2. CASE UNCHANGED <<link, raced>> /\ Finish(r, "error")
    BY <1>1, <1>2, Ending DEF tables, IInv, TypeOK, Outcome
  <1>3. CASE /\ link' = link \/ link' = [link EXCEPT ![<<m, ro>>] = new]
             /\ Finish(r, "written") /\ Disturb(r)
    <2>1. /\ m \in Members /\ There(m) /\ mem[m].org = prin[r].org /\ ro \in Roles
          /\ new \in Link \cup {NoLink} /\ (new # NoLink => RoleFits(ro, prin[r].org))
      BY <1>1, Committing DEF LocAt, GrantAt, Served
    <2>2. link \in [Members \X Roles -> Link \cup {NoLink}] /\ <<m, ro>> \in Members \X Roles
      BY <1>1, <2>1, Committing DEF RowsOK
    <2> HIDE DEF m, ro, new
    <2>3. /\ link' \in [Members \X Roles -> Link \cup {NoLink}]
          /\ \A n \in Members, x \in Roles :
               link'[<<n, x>>] = link[<<n, x>>] \/ (n = m /\ x = ro /\ link'[<<n, x>>] = new)
      BY <1>3, <2>1, <2>2
    <2>4. \A n \in Members : There(n)' <=> There(n)
      BY <1>1 DEF There
    <2>5. \A n \in Members : There(n) =>
            \A x \in Roles : link'[<<n, x>>] # NoLink => RoleFits(x, mem[n].org)
      BY <1>1, <2>1, <2>3, Committing DEF RowsOK
    <2>6. RowsOK'
      BY <1>1, <2>3, <2>4, <2>5, Committing DEF RowsOK, RoleFits
    <2>7. /\ Grown /\ LinksInv' /\ \A q \in Reqs : q # r => (There(q)' => There(q))
      BY <1>1, <2>1, <2>3, <2>4, Names, Committing DEF Grown, LinksInv
    <2>8. UsersInv' /\ OneMembership'
      BY <1>1, <2>4, Committing DEF UsersInv, OneMembership
    <2>9. EditAt(r)' /\ RoleRowWrittenOnce'
      BY <1>1, <1>3, NoEdit DEF Outcome
    <2> QED
      BY <1>3, <2>6, <2>7, <2>8, <2>9, Writing
  <1> QED
    BY <1>2, <1>3 DEF CommitGrant

(* Of two edits that loaded one version of a role, the one that commits    *)
(* second finds the version moved unless the first left it.                *)
LEMMA CommitRoleStep ==
  ASSUME IInv, NEW r \in Reqs, CommitRole(r)
  PROVE  IInv'
  <1> DEFINE ro == loc[r].id
             row == loc[r].row
             new == loc[r].new
             bumped == new.version # row.version
             cur == role[ro]
             next == [status |-> IF bumped THEN new.status ELSE cur.status,
                      perms |-> (cur.perms \ (row.perms \ new.perms)) \cup (new.perms \ row.perms),
                      by |-> IF bumped THEN new.by ELSE cur.by,
                      version |-> IF bumped THEN new.version ELSE cur.version]
  <1>1. pc[r] = "commit" /\ loc[r].op = "role" /\ UNCHANGED <<tenant, user, mem, link>>
    BY DEF CommitRole
  <1>2. CASE UNCHANGED <<role, raced>> /\ Finish(r, "error")
    BY <1>1, <1>2, Ending DEF tables, IInv, TypeOK, Outcome
  <1>3. ASSUME bumped => cur.version = row.version,
               role' = [role EXCEPT ![ro] = next],
               NEW o \in {"written", "same"}, Finish(r, o), Disturb(r)
        PROVE  IInv'
    <2>1. /\ ro \in Roles /\ row \in Role /\ new \in Role
          /\ row.version <= cur.version /\ (~bumped => OnlyPermissions(r))
          /\ bumped => new.version = row.version + 1
      BY <1>1, Committing DEF LocAt, RoleAt, EditAt, Bumped, Served
    <2>2. cur \in Role
      BY <1>1, <2>1, Committing DEF RowsOK
    <2>3. next \in Role /\ next.version = (IF bumped THEN new.version ELSE cur.version)
      <3>1. /\ cur.perms \in SUBSET Perms /\ new.perms \in SUBSET Perms
            /\ cur.status \in {"LIVE", "ARCHIVED", "NONE"} /\ new.status \in {"LIVE", "ARCHIVED", "NONE"}
            /\ cur.by \in Users \cup {None} /\ new.by \in Users \cup {None}
            /\ cur.version \in Nat /\ new.version \in Nat
        BY <2>1, <2>2 DEF Role
      <3> QED
        BY <3>1 DEF Role
    <2>4. row.version \in Nat /\ cur.version \in Nat /\ next.version \in Nat
      BY <2>1, <2>2, <2>3 DEF Role
    <2>5. cur.version <= next.version /\ row.version <= next.version
          /\ (bumped => row.version < next.version)
      BY <1>3, <2>1, <2>3, <2>4
    <2> HIDE DEF next
    <2>6. /\ role' \in [Roles -> Role] /\ role'[ro] = next
          /\ \A x \in Roles : x # ro => role'[x] = role[x]
      BY <1>1, <1>3, <2>1, <2>3, Committing DEF RowsOK
    <2>7. RowsOK'
      BY <1>1, <2>6, Committing DEF RowsOK, There, RoleFits
    <2>8. \A x \in Roles : role[x].version \in Nat /\ role'[x].version \in Nat
                           /\ role[x].version <= role'[x].version
      BY <1>1, <2>1, <2>4, <2>5, <2>6, Committing
    <2>9. /\ Grown /\ LinksInv' /\ UsersInv' /\ OneMembership'
          /\ \A q \in Reqs : q # r => (There(q)' => There(q))
      BY <1>1, <2>8, Committing DEF Grown, LinksInv, UsersInv, OneMembership, There
    <2>10. /\ Rest(r) /\ pc'[r] = "done" /\ out'[r] = o /\ (o = "written" => loc'[r] = loc[r])
      BY <1>3, Ended DEF Outcome
    <2>11. EditAt(r)'
      BY <2>1, <2>5, <2>6, <2>10 DEF EditAt, Bumped, OnlyPermissions
    <2>12. RoleRowWrittenOnce'
      <3>1. SUFFICES \A q \in Reqs :
                       /\ q # r /\ out[q] = "written" /\ o = "written" /\ loc[q].op = "role"
                       /\ loc[q].id = ro /\ loc[q].row.version = row.version
                       => OnlyPermissions(q) \/ OnlyPermissions(r)
        <4>1. ASSUME NEW q \in Reqs, NEW p \in Reqs, q # p,
                     out'[q] = "written", out'[p] = "written",
                     loc'[q].op = "role", loc'[p].op = "role", loc'[q].id = loc'[p].id,
                     loc'[q].row.version = loc'[p].row.version
              PROVE  OnlyPermissions(q)' \/ OnlyPermissions(p)'
          <5>1. loc'[q] = loc[q] /\ loc'[p] = loc[p]
            BY <2>10, <4>1 DEF Rest, Same
          <5>2. (q # r => out[q] = "written") /\ (p # r => out[p] = "written")
            BY <2>10, <4>1 DEF Rest, Same
          <5>3. OnlyPermissions(q) \/ OnlyPermissions(p)
            <6>1. CASE q # r /\ p # r
              BY <4>1, <5>1, <5>2, <6>1 DEF IInv, RoleRowWrittenOnce
            <6>2. CASE p = r
              BY <2>10, <3>1, <4>1, <5>1, <5>2, <6>2
            <6>3. CASE q = r
              BY <2>10, <3>1, <4>1, <5>1, <5>2, <6>3
            <6> QED
              BY <6>1, <6>2, <6>3
          <5> QED
            BY <5>1, <5>3 DEF OnlyPermissions
        <4> QED
          BY <4>1 DEF RoleRowWrittenOnce
      <3>2. ASSUME NEW q \in Reqs, out[q] = "written", loc[q].op = "role", loc[q].id = ro,
                   loc[q].row.version = row.version
            PROVE  OnlyPermissions(q) \/ OnlyPermissions(r)
        <4>1. EditAt(q)
          BY DEF IInv, At
        <4>2. CASE ~bumped
          BY <2>1, <4>2
        <4>3. CASE bumped
          BY <1>3, <2>4, <3>2, <4>1, <4>3 DEF EditAt, Bumped
        <4> QED
          BY <4>2, <4>3
      <3> QED
        BY <3>2
    <2> QED
      BY <1>3, <2>7, <2>9, <2>11, <2>12, Writing
  <1>4. CASE /\ bumped => Fresh(r, cur)
             /\ role' = [role EXCEPT ![ro] = next]
             /\ Finish(r, IF bumped \/ new.perms # row.perms THEN "written" ELSE "same")
             /\ Disturb(r)
    BY <1>3, <1>4 DEF Fresh
  <1> QED
    BY <1>2, <1>4 DEF CommitRole

(* A grant expires. *)
LEMMA GrantExpiresStep ==
  ASSUME IInv, NEW l \in Members \X Roles, GrantExpires(l)
  PROVE  IInv'
  <1> DEFINE new == [by |-> link[l].by, live |-> FALSE]
  <1>1. /\ TypeOK /\ RowsOK /\ LinksInv /\ UsersInv /\ OneMembership /\ LocInv
        /\ link[l].live /\ link' = [link EXCEPT ![l] = new]
        /\ UNCHANGED <<tenant, user, mem, role, pc, who, prin, loc, out>>
    BY Rows DEF IInv, GrantExpires
  <1>2. PICK m \in Members, ro \in Roles : l = <<m, ro>>
    OBVIOUS
  <1>3. link \in [Members \X Roles -> Link \cup {NoLink}]
    BY <1>1 DEF RowsOK
  <1>4. link[l] # NoLink
    BY <1>1 DEF NoLink
  <1>5. new \in Link
    BY <1>3, <1>4 DEF Link
  <1> HIDE DEF new
  <1>6. /\ link' \in [Members \X Roles -> Link \cup {NoLink}]
        /\ \A n \in Members, x \in Roles : link'[<<n, x>>] # NoLink => link[<<n, x>>] # NoLink
    BY <1>1, <1>2, <1>3, <1>4, <1>5
  <1>7. \A n \in Members : There(n)' <=> There(n)
    BY <1>1 DEF There
  <1>8. raced' \in [Reqs -> BOOLEAN]
    BY DEF GrantExpires
  <1>9. RowsOK'
    BY <1>1, <1>6, <1>7 DEF RowsOK, RoleFits
  <1>10. TypeOK'
    BY <1>1, <1>8, <1>9 DEF TypeOK, RowsOK, There, RoleFits
  <1>11. LinksInv' /\ UsersInv' /\ OneMembership' /\ LocInv' /\ RoleRowWrittenOnce'
    BY <1>1, <1>6, <1>7, RoleRowStays
       DEF LinksInv, UsersInv, OneMembership, LocInv, IInv
  <1>12. \A ro2 \in Roles : role[ro2].version \in Nat
    BY <1>1 DEF RowsOK, Role
  <1>13. Grown /\ \A q \in Reqs : Same(q)
    BY <1>1, <1>7, <1>12 DEF Grown, Same
  <1>14. \A q \in Reqs : At(q)'
    BY <1>7, <1>13, OthersAt, Names
  <1> QED
    BY <1>10, <1>11, <1>14 DEF IInv

-----------------------------------------------------------------------------
(* The invariant                                                           *)

LEMMA InitInv == Init => IInv
  <1> SUFFICES ASSUME Init PROVE IInv
    OBVIOUS
  <1>1. ASSUME NEW m \in Members, m \in Seeds
        PROVE  /\ mem[m] = [user |-> Seed[m].user, org |-> Seed[m].org, school |-> Seed[m].school,
                            status |-> "ACTIVE", default |-> FALSE, version |-> 1]
               /\ mem[m].user = Seed[m].user /\ mem[m].org = Seed[m].org
               /\ mem[m].school = Seed[m].school /\ There(m)
    <2>1. mem[m] = [user |-> Seed[m].user, org |-> Seed[m].org, school |-> Seed[m].school,
                    status |-> "ACTIVE", default |-> FALSE, version |-> 1]
      BY <1>1 DEF Init
    <2>2. mem[m].user = Seed[m].user /\ mem[m].org = Seed[m].org /\ mem[m].school = Seed[m].school
      BY <2>1
    <2>3. mem[m].status = "ACTIVE"
      BY <2>1
    <2> QED
      BY <2>1, <2>2, <2>3 DEF There
  <1>2. ASSUME NEW m \in Members, m \notin Seeds
        PROVE  mem[m] = NoMember /\ ~There(m)
    <2>1. mem[m] = NoMember
      BY <1>2 DEF Init
    <2> QED
      BY <2>1, Shapes DEF There
  <1>3. \A m \in Seeds :
          /\ m \in Members
          /\ Seed[m].user \in Users /\ Seed[m].org \in Orgs /\ Seed[m].school \in Schools \cup {None}
          /\ Seed[m].role \in Roles /\ Seed[m].user \notin Unused
          /\ Seed[m].school # None => SchoolOrg[Seed[m].school] = Seed[m].org
          /\ RoleOrg[Seed[m].role] \in {None, Seed[m].org}
    BY SeedsFit DEF Members
  <1>4. mem \in [Members -> Membership]
    <2>1. ASSUME NEW m \in Members PROVE mem[m] \in Membership
      <3>1. CASE m \in Seeds
        <4>1. /\ Seed[m].user \in Users \cup {None} /\ Seed[m].org \in Orgs \cup {None}
              /\ Seed[m].school \in Schools \cup {None} /\ "ACTIVE" \in MembershipStatus \cup {"NONE"}
          BY <1>3, <3>1, Shapes
        <4>2. \A u \in Users \cup {None}, o \in Orgs \cup {None}, s \in Schools \cup {None} :
                [user |-> u, org |-> o, school |-> s, status |-> "ACTIVE", default |-> FALSE,
                 version |-> 1] \in Membership
          BY <4>1 DEF Membership
        <4> QED
          BY <1>1, <3>1, <4>1, <4>2
      <3>2. CASE m \notin Seeds
        BY <1>2, <3>2, Shapes
      <3> QED
        BY <3>1, <3>2
    <2> QED
      BY <2>1 DEF Init
  <1>5. /\ link \in [Members \X Roles -> Link \cup {NoLink}]
        /\ \A m \in Members, ro \in Roles :
             link[<<m, ro>>] # NoLink => m \in Seeds /\ Seed[m].role = ro
    <2>1. \A l \in Members \X Roles :
            link[l] = IF l[1] \in Seeds /\ Seed[l[1]].role = l[2]
                        THEN [by |-> l[1], live |-> TRUE] ELSE NoLink
      BY DEF Init
    <2>2. ASSUME NEW l \in Members \X Roles PROVE link[l] \in Link \cup {NoLink}
      <3>1. link[l] = [by |-> l[1], live |-> TRUE] \/ link[l] = NoLink
        BY <2>1
      <3>2. [by |-> l[1], live |-> TRUE] \in Link
        BY DEF Link
      <3> QED
        BY <3>1, <3>2
    <2>3. link \in [Members \X Roles -> Link \cup {NoLink}]
      BY <2>2 DEF Init
    <2>4. \A m \in Members, ro \in Roles :
            link[<<m, ro>>] # NoLink => m \in Seeds /\ Seed[m].role = ro
      BY <2>1
    <2> QED
      BY <2>3, <2>4
  <1>6. tenant \in [Tenants -> Tenant] /\ user \in [Users -> User]
    BY Shapes DEF Init, Tenant, User
  <1>7. role \in [Roles -> Role]
    BY SeedsFit DEF Init, Role
  <1>8. \A m \in Members : There(m) =>
          /\ mem[m].user # None /\ mem[m].org # None
          /\ mem[m].school # None => SchoolOrg[mem[m].school] = mem[m].org
    BY <1>1, <1>2, <1>3, Names
  <1>9. \A m \in Members : There(m) =>
          \A ro \in Roles : link[<<m, ro>>] # NoLink => RoleFits(ro, mem[m].org)
    <2>1. ASSUME NEW m \in Members, There(m), NEW ro \in Roles, link[<<m, ro>>] # NoLink
          PROVE  RoleFits(ro, mem[m].org)
      <3>1. m \in Seeds /\ Seed[m].role = ro
        BY <1>5, <2>1
      <3>2. mem[m].org = Seed[m].org
        BY <1>1, <3>1
      <3> QED
        BY <1>3, <3>1, <3>2 DEF RoleFits
    <2> QED
      BY <2>1
  <1>10. RowsOK
    BY <1>4, <1>5, <1>6, <1>7, <1>8, <1>9 DEF RowsOK
  <1>11. /\ pc \in [Reqs -> Point] /\ raced \in [Reqs -> BOOLEAN] /\ out \in [Reqs -> Outcome]
         /\ prin \in [Reqs -> Principal]
         /\ who \in [Reqs -> [user: Users \cup {None}, asked: Schools \cup {None},
                              ms: SUBSET Members, got: SUBSET (Members \X Perms)]]
    BY Shapes DEF Init, Point, Outcome, NobodyYet
  <1>12. TypeOK
    BY <1>10, <1>11 DEF TypeOK, RowsOK, There, RoleFits
  <1>13. LinksInv
    BY <1>1, <1>5 DEF LinksInv
  <1>14. UsersInv
    BY <1>1, <1>2, <1>3 DEF UsersInv, Init
  <1>15. OneMembership
    <2>1. SUFFICES ASSUME NEW m \in Members, NEW n \in Members, There(m), There(n),
                          mem[m].user = mem[n].user, mem[m].org = mem[n].org,
                          mem[m].school = mem[n].school
                   PROVE  m = n
      BY DEF OneMembership, There
    <2>2. m \in Seeds /\ n \in Seeds
      BY <1>2, <2>1
    <2>3. /\ Seed[m].user = Seed[n].user /\ Seed[m].org = Seed[n].org
          /\ Seed[m].school = Seed[n].school
      BY <1>1, <2>1, <2>2
    <2> QED
      BY <2>2, <2>3, SeedsFit
  <1>16. \A q \in Reqs : At(q)
    BY <1>2, Names DEF At, WhoAt, PrinAt, LocAt, EditAt, MadeAt, Init, Resolving, Served
  <1>17. LocInv /\ RoleRowWrittenOnce
    BY DEF LocInv, Init, RoleRowWrittenOnce
  <1> QED
    BY <1>12, <1>13, <1>14, <1>15, <1>16, <1>17 DEF IInv

(* Each step of a request keeps the invariant. *)
LEMMA StepInv ==
  ASSUME IInv, NEW r \in Reqs, Step(r)
  PROVE  IInv'
  <1>1. ASSUME NEW u \in Users, NEW s \in Schools \cup {None},
               \/ Start(r, u, s) \/ ServeUserCreate(r, u, s)
               \/ \E ro \in Roles \cup {None} : ServeMemberCreate(r, u, s, ro)
        PROVE  IInv'
    BY <1>1, StartStep, ServeUserCreateStep, ServeMemberCreateStep
  <1>2. CASE LoadGrants(r) \/ SelectSchool(r) \/ MemberRoles(r)
    BY <1>2, LoadGrantsStep, SelectSchoolStep, MemberRolesStep
  <1>3. CASE Refused(r) \/ Abort(r)
    <2>1. /\ Finish(r, "refused") \/ Finish(r, "aborted")
          /\ raced' \in [Reqs -> BOOLEAN] /\ UNCHANGED tables
      BY <1>3 DEF Refused, Abort, IInv, TypeOK
    <2> QED
      BY <2>1, Ending DEF Outcome
  <1>4. ASSUME NEW status \in TenantStatus \cup {"DELETED"},
               \/ \E t \in Schools : ServeSchool(r, t, status)
               \/ \E t \in Orgs : ServeOrganization(r, t, status)
        PROVE  IInv'
    BY <1>4, ServeSchoolStep, ServeOrganizationStep
  <1>5. ASSUME NEW u \in Users, \E status \in UserStatus \cup {"DELETED"} : ServeUser(r, u, status)
        PROVE  IInv'
    BY <1>5, ServeUserStep
  <1>6. ASSUME NEW u \in Users, ServeToggle(r, u)
        PROVE  IInv'
    <2>1. Finish(r, "error") /\ UNCHANGED tables /\ raced' \in [Reqs -> BOOLEAN]
      BY <1>6 DEF ServeToggle, IInv, TypeOK
    <2> QED
      BY <2>1, Ending DEF Outcome
  <1>7. ASSUME NEW m \in Members,
               \/ \E status \in MembershipStatus, d \in BOOLEAN : ServeMember(r, m, status, d)
               \/ \E ro \in Roles : ServeGrant(r, m, ro) \/ ServeRevoke(r, m, ro)
        PROVE  IInv'
    BY <1>7, ServeMemberStep, ServeGrantStep, ServeRevokeStep
  <1>8. ASSUME NEW ro \in Roles, NEW status \in {"LIVE", "ARCHIVED"}, NEW ps \in SUBSET Perms,
               NEW c \in BOOLEAN, ServeRole(r, ro, status, ps, c)
        PROVE  IInv'
    BY <1>8, ServeRoleStep
  <1>9. CASE \/ CommitTenant(r) \/ CommitUser(r) \/ CommitUserCreate(r) \/ CommitMemberCreate(r)
             \/ CommitMember(r) \/ CommitGrant(r) \/ CommitRole(r)
    BY <1>9, CommitTenantStep, CommitUserStep, CommitUserCreateStep, CommitMemberCreateStep,
       CommitMemberStep, CommitGrantStep, CommitRoleStep
  <1> QED
    BY <1>1, <1>2, <1>3, <1>4, <1>5, <1>6, <1>7, <1>8, <1>9 DEF Step

LEMMA NextInv == IInv /\ [Next]_vars => IInv'
  <1> SUFFICES ASSUME IInv, [Next]_vars PROVE IInv'
    OBVIOUS
  <1>1. CASE \E r \in Reqs : Step(r)
    BY <1>1, StepInv
  <1>2. CASE \E l \in Members \X Roles : GrantExpires(l)
    BY <1>2, GrantExpiresStep
  <1>3. CASE UNCHANGED vars
    <2>1. UNCHANGED tables /\ pc' = pc /\ who' = who /\ prin' = prin /\ loc' = loc
          /\ raced' = raced /\ out' = out
      BY <1>3 DEF vars, tables
    <2>2. \A q \in Reqs : Same(q)
      BY <2>1 DEF Same
    <2>3. \A q \in Reqs : At(q)'
      BY <2>1, <2>2, TablesStay, OthersAt
    <2> QED
      BY <2>1, <2>3, TablesStay, RoleRowStays DEF IInv, TypeOK, tables, LocInv
  <1> QED
    BY <1>1, <1>2, <1>3 DEF Next

(* What every reachable state satisfies, however the requests interleave.  *)
THEOREM InductiveInvariant == Spec => []IInv
  BY InitInv, NextInv, PTL DEF Spec

(* Rows, requests and principals stay well formed, and a membership stays  *)
(* within one tenant: its school and its roles are its organization's.     *)
THEOREM TypeInvariant == Spec => []TypeOK
  <1>1. IInv => TypeOK
    BY DEF IInv
  <1> QED
    BY <1>1, InductiveInvariant, PTL

(* An account never has two memberships in one school or two in a whole    *)
(* organization, whichever of the two creations commits first.             *)
THEOREM OneMembershipTheorem == Spec => []OneMembership
  <1>1. IInv => OneMembership
    BY DEF IInv
  <1> QED
    BY <1>1, InductiveInvariant, PTL

(* Of two edits of a role that loaded one version of it and take effect, one *)
(* changes only permissions, by whoever had edited it last (service.py of   *)
(* roles, update and its version check).                                    *)
THEOREM RoleRowTheorem == Spec => []RoleRowWrittenOnce
  <1>1. IInv => RoleRowWrittenOnce
    BY DEF IInv
  <1> QED
    BY <1>1, InductiveInvariant, PTL

-----------------------------------------------------------------------------
(* A request writes only where its account is a member.                    *)

(* An organization that is written is visible to the request. *)
LEMMA TenantVisible ==
  ASSUME IInv, [Next]_vars, NEW r \in Reqs, pc[r] = "commit", loc[r].op = "tenant",
         out'[r] = "written", loc[r].id \in Orgs
  PROVE  Visible(r, loc[r].id)
  <1>1. TypeOK /\ out[r] = "none"
    BY DEF IInv, At, MadeAt
  <1>2. \A q \in Reqs : \A o : Finish(q, o) => out' = [out EXCEPT ![q] = o]
    BY DEF Finish
  <1>3. \A q \in Reqs : \A p : Goto(q, p) => out' = out
    BY DEF Goto
  <1>4. PICK q \in Reqs : Step(q)
    BY <1>1 DEF Next, vars, GrantExpires
  <1>5. /\ ~\E u \in Users, s \in Schools \cup {None} :
              \/ Start(q, u, s) \/ ServeUserCreate(q, u, s)
              \/ \E ro \in Roles \cup {None} : ServeMemberCreate(q, u, s, ro)
        /\ ~(LoadGrants(q) \/ SelectSchool(q) \/ MemberRoles(q))
    BY <1>1, <1>3 DEF Start, ServeUserCreate, ServeMemberCreate, LoadGrants, SelectSchool, MemberRoles
  <1>6. ~(Refused(q) \/ Abort(q)) /\ \A u \in Users : ~ServeToggle(q, u)
    BY <1>1, <1>2 DEF Refused, Abort, ServeToggle, TypeOK
  <1>7. \A status \in TenantStatus \cup {"DELETED"} :
          /\ \A t \in Schools : ~ServeSchool(q, t, status)
          /\ \A t \in Orgs : ~ServeOrganization(q, t, status)
    BY <1>1, <1>3 DEF ServeSchool, ServeOrganization
  <1>8. \A u \in Users, status \in UserStatus \cup {"DELETED"} : ~ServeUser(q, u, status)
    BY <1>1, <1>3 DEF ServeUser
  <1>9. \A m \in Members :
          /\ \A status \in MembershipStatus, d \in BOOLEAN : ~ServeMember(q, m, status, d)
          /\ \A ro \in Roles : ~ServeGrant(q, m, ro) /\ ~ServeRevoke(q, m, ro)
    BY <1>1, <1>3 DEF ServeMember, ServeGrant, ServeRevoke
  <1>10. \A ro \in Roles, status \in {"LIVE", "ARCHIVED"}, ps \in SUBSET Perms, c \in BOOLEAN :
           ~ServeRole(q, ro, status, ps, c)
    BY <1>1, <1>3 DEF ServeRole
  <1>11. \/ CommitTenant(q) \/ CommitUser(q) \/ CommitUserCreate(q) \/ CommitMemberCreate(q)
         \/ CommitMember(q) \/ CommitGrant(q) \/ CommitRole(q)
    BY <1>4, <1>5, <1>6, <1>7, <1>8, <1>9, <1>10 DEF Step
  <1>12. \E o : Finish(q, o)
    BY <1>11 DEF CommitTenant, CommitUser, CommitUserCreate, CommitMemberCreate, CommitMember,
                 CommitGrant, CommitRole
  <1>13. q = r
    BY <1>1, <1>2, <1>12 DEF TypeOK
  <1>14. CommitTenant(r)
    BY <1>11, <1>13 DEF CommitUser, CommitUserCreate, CommitMemberCreate, CommitMember,
                        CommitGrant, CommitRole
  <1>15. ~Finish(r, "error")
    BY <1>1, <1>2 DEF TypeOK
  <1> QED
    BY <1>14, <1>15 DEF CommitTenant

(* Apart from platform staff, an account writes only to an organization    *)
(* that it has been made a member of.                                      *)
THEOREM MembersOnlyTheorem == Spec => MembersOnly
  <1>1. IInv /\ [Next]_vars =>
          [\A r \in Reqs :
             /\ pc[r] = "commit" /\ out'[r] = "written" /\ ~prin[r].admin
             /\ loc[r].op # "user" \/ loc[r].id = r
             => \E m \in Members : mem[m].user = who[r].user /\ mem[m].org = WrittenOrg(r)]_vars
    <2> SUFFICES ASSUME IInv, [Next]_vars, NEW r \in Reqs, pc[r] = "commit",
                        out'[r] = "written", ~prin[r].admin, loc[r].op # "user" \/ loc[r].id = r
                 PROVE  \E m \in Members : mem[m].user = who[r].user /\ mem[m].org = WrittenOrg(r)
      OBVIOUS
    <2>1. MemberOf(who[r].user, prin[r].org) /\ LocAt(r)
      BY Committing DEF PrinAt, Served
    <2>2. WrittenOrg(r) = prin[r].org
      <3>1. CASE loc[r].op = "tenant"
        <4>1. loc[r].id \in Orgs => loc[r].id = prin[r].org
          BY <2>1, <3>1, TenantVisible DEF Visible, MemberOf
        <4>2. loc[r].id \notin Orgs => SchoolOrg[loc[r].id] = prin[r].org
          BY <2>1, <3>1 DEF LocAt, TenantAt, Served, Tenants
        <4> QED
          BY <3>1, <4>1, <4>2 DEF WrittenOrg
      <3>2. CASE loc[r].op = "grant"
        BY <2>1, <3>2 DEF LocAt, GrantAt, Served, WrittenOrg
      <3>3. CASE loc[r].op = "role"
        BY <2>1, <3>3 DEF LocAt, RoleAt, Served, WrittenOrg
      <3>4. CASE loc[r].op = "member"
        BY <2>1, <3>4 DEF LocAt, MemberAt, NewcomerAt, Served, WrittenOrg
      <3>5. CASE loc[r].op = "user"
        BY <2>1, <3>5 DEF LocAt, UserAt, NewcomerAt, Served, WrittenOrg
      <3> QED
        BY <2>1, <3>1, <3>2, <3>3, <3>4, <3>5 DEF LocAt, Served, Ops
    <2> QED
      BY <2>1, <2>2 DEF MemberOf
  <1> QED
    BY <1>1, InductiveInvariant, PTL DEF Spec, MembersOnly

-----------------------------------------------------------------------------
(* A principal is exact unless the tables changed on the way.              *)

MsOf(u) == {m \in Members : mem[m].user = u /\ Active(m)}
GotOf(ms) == {g \in ms \X Perms : \E ro \in Roles : g[2] \in Gives(g[1], ro)}

(* What an undisturbed request has read so far is what the tables hold. *)
ExactAt(q) ==
  pc[q] \in Resolving /\ ~raced[q] =>
    /\ who[q].ms = MsOf(who[q].user)
    /\ pc[q] = "schools" => who[q].got = GotOf(who[q].ms)
ExactInv == \A q \in Reqs : ExactAt(q)

(* A request that writes disturbs the ones that are resolving. *)
Undisturbed(q) == pc'[q] = pc[q] /\ who'[q] = who[q] /\ tables' = tables /\ (raced[q] => raced'[q])

LEMMA CommitsDisturb ==
  ASSUME IInv, NEW r \in Reqs, NEW q \in Reqs, q # r, pc'[q] \in Resolving, ~raced'[q],
         \/ CommitTenant(r) \/ CommitUser(r) \/ CommitUserCreate(r) \/ CommitMemberCreate(r)
         \/ CommitMember(r) \/ CommitGrant(r) \/ CommitRole(r)
  PROVE  Undisturbed(q)
  <1>1. pc \in [Reqs -> Point] /\ raced \in [Reqs -> BOOLEAN]
    BY DEF IInv, TypeOK
  <1>2. PICK o : Finish(r, o)
    BY DEF CommitTenant, CommitUser, CommitUserCreate, CommitMemberCreate, CommitMember,
           CommitGrant, CommitRole
  <1>3. pc'[q] = pc[q] /\ who'[q] = who[q]
    BY <1>1, <1>2 DEF Finish, IInv, TypeOK
  <1>4. ~Disturb(r)
    BY <1>1, <1>3 DEF Disturb, Resolving
  <1>5. tables' = tables /\ raced' = raced
    BY <1>4 DEF CommitTenant, CommitUser, CommitUserCreate, CommitMemberCreate, CommitMember,
                CommitGrant, CommitRole, tables
  <1> QED
    BY <1>3, <1>5 DEF Undisturbed

(* A step that does not commit touches nobody else. *)
Commits(r) ==
  \/ CommitTenant(r) \/ CommitUser(r) \/ CommitUserCreate(r) \/ CommitMemberCreate(r)
  \/ CommitMember(r) \/ CommitGrant(r) \/ CommitRole(r)
Elsewhere(r) ==
  /\ tables' = tables
  /\ \A q \in Reqs : q # r => pc'[q] = pc[q] /\ who'[q] = who[q] /\ raced'[q] = raced[q]

LEMMA Apart ==
  ASSUME IInv, NEW r \in Reqs, Step(r), ~Commits(r)
  PROVE  Elsewhere(r)
  <1>1. /\ pc \in [Reqs -> Point] /\ raced \in [Reqs -> BOOLEAN]
        /\ who \in [Reqs -> [user: Users \cup {None}, asked: Schools \cup {None},
                             ms: SUBSET Members, got: SUBSET (Members \X Perms)]]
    BY DEF IInv, TypeOK
  <1>2. ASSUME NEW p, Goto(r, p), tables' = tables,
               raced' = raced \/ raced' = [raced EXCEPT ![r] = FALSE],
               who' = who \/ \E w : who' = [who EXCEPT ![r] = w]
        PROVE  Elsewhere(r)
    BY <1>1, <1>2 DEF Elsewhere, Goto
  <1>3. ASSUME NEW o, Finish(r, o), tables' = tables,
               raced' = raced \/ raced' = [raced EXCEPT ![r] = FALSE]
        PROVE  Elsewhere(r)
    BY <1>1, <1>3 DEF Elsewhere, Finish
  <1>4. ASSUME NEW op, NEW id, NEW row, NEW new, NEW ro, Serve(r, op, id, row, new, ro),
               NEW p, Goto(r, p)
        PROVE  Elsewhere(r)
    <2>1. tables' = tables /\ raced' = raced /\ who' = who
      BY <1>4 DEF Serve
    <2> QED
      BY <1>2, <1>4, <2>1
  <1>5. ASSUME NEW u \in Users, NEW s \in Schools \cup {None}, Start(r, u, s)
        PROVE  Elsewhere(r)
    <2>1. \E p : Goto(r, p)
      BY <1>5 DEF Start
    <2>2. \E w : who' = [who EXCEPT ![r] = w]
      BY <1>5 DEF Start
    <2>3. tables' = tables /\ raced' = raced
      BY <1>5 DEF Start
    <2> QED
      BY <1>2, <2>1, <2>2, <2>3
  <1>6. ASSUME NEW u \in Users, NEW s \in Schools \cup {None},
               \/ ServeUserCreate(r, u, s)
               \/ \E ro \in Roles \cup {None} : ServeMemberCreate(r, u, s, ro)
        PROVE  Elsewhere(r)
    BY <1>4, <1>6 DEF ServeUserCreate, ServeMemberCreate
  <1>7. CASE LoadGrants(r) \/ SelectSchool(r) \/ MemberRoles(r)
    BY <1>2, <1>7 DEF LoadGrants, SelectSchool, MemberRoles
  <1>8. CASE Refused(r) \/ Abort(r)
    BY <1>3, <1>8 DEF Refused, Abort
  <1>9. ASSUME NEW status \in TenantStatus \cup {"DELETED"},
               \/ \E t \in Schools : ServeSchool(r, t, status)
               \/ \E t \in Orgs : ServeOrganization(r, t, status)
        PROVE  Elsewhere(r)
    BY <1>4, <1>9 DEF ServeSchool, ServeOrganization
  <1>10. ASSUME NEW u \in Users, \E status \in UserStatus \cup {"DELETED"} : ServeUser(r, u, status)
         PROVE  Elsewhere(r)
    BY <1>4, <1>10 DEF ServeUser
  <1>11. ASSUME NEW u \in Users, ServeToggle(r, u)
         PROVE  Elsewhere(r)
    BY <1>3, <1>11 DEF ServeToggle
  <1>12. ASSUME NEW m \in Members,
                \/ \E status \in MembershipStatus, d \in BOOLEAN : ServeMember(r, m, status, d)
                \/ \E ro \in Roles : ServeGrant(r, m, ro) \/ ServeRevoke(r, m, ro)
         PROVE  Elsewhere(r)
    BY <1>4, <1>12 DEF ServeMember, ServeGrant, ServeRevoke
  <1>13. ASSUME NEW ro \in Roles, NEW status \in {"LIVE", "ARCHIVED"}, NEW ps \in SUBSET Perms,
                NEW c \in BOOLEAN, ServeRole(r, ro, status, ps, c)
         PROVE  Elsewhere(r)
    BY <1>4, <1>13 DEF ServeRole
  <1> QED
    BY <1>5, <1>6, <1>7, <1>8, <1>9, <1>10, <1>11, <1>12, <1>13 DEF Step, Commits

(* A request starts to resolve or goes on with it in two ways. *)
LEMMA Resolution ==
  ASSUME IInv, NEW q \in Reqs, Step(q), pc'[q] \in Resolving \cup {"guard"}
  PROVE  \/ LoadGrants(q) \/ SelectSchool(q)
         \/ \E u \in Users, s \in Schools \cup {None} : Start(q, u, s)
  <1>1. pc \in [Reqs -> Point]
    BY DEF IInv, TypeOK
  <1>2. \A p : Goto(q, p) => pc'[q] = p
    BY <1>1 DEF Goto
  <1>3. \A o : Finish(q, o) => pc'[q] = "done"
    BY <1>1 DEF Finish
  <1>4. pc'[q] \notin Served \cup {"done"}
    BY DEF Resolving, Served
  <1>5. ~Commits(q) /\ ~(Refused(q) \/ Abort(q)) /\ \A u \in Users : ~ServeToggle(q, u)
    BY <1>3, <1>4 DEF Commits, CommitTenant, CommitUser, CommitUserCreate, CommitMemberCreate,
                      CommitMember, CommitGrant, CommitRole, Refused, Abort, ServeToggle
  <1>6. /\ \A u \in Users, s \in Schools \cup {None} :
             /\ ~ServeUserCreate(q, u, s)
             /\ \A ro \in Roles \cup {None} : ~ServeMemberCreate(q, u, s, ro)
        /\ ~MemberRoles(q)
    <2>1. ~Goto(q, "commit") /\ ~Goto(q, "member_roles")
      BY <1>2, <1>4 DEF Served
    <2> QED
      BY <2>1 DEF ServeUserCreate, ServeMemberCreate, MemberRoles
  <1>7. \A status \in TenantStatus \cup {"DELETED"} :
          /\ \A t \in Schools : ~ServeSchool(q, t, status)
          /\ \A t \in Orgs : ~ServeOrganization(q, t, status)
    BY <1>2, <1>4 DEF ServeSchool, ServeOrganization, Served
  <1>8. \A u \in Users, status \in UserStatus \cup {"DELETED"} : ~ServeUser(q, u, status)
    BY <1>2, <1>4 DEF ServeUser, Served
  <1>9. \A m \in Members :
          /\ \A status \in MembershipStatus, d \in BOOLEAN : ~ServeMember(q, m, status, d)
          /\ \A ro \in Roles : ~ServeGrant(q, m, ro) /\ ~ServeRevoke(q, m, ro)
    BY <1>2, <1>4 DEF ServeMember, ServeGrant, ServeRevoke, Served
  <1>10. \A ro \in Roles, status \in {"LIVE", "ARCHIVED"}, ps \in SUBSET Perms, c \in BOOLEAN :
           ~ServeRole(q, ro, status, ps, c)
    BY <1>2, <1>4 DEF ServeRole, Served
  <1> QED
    BY <1>5, <1>6, <1>7, <1>8, <1>9, <1>10 DEF Step, Commits

(* A request that is still resolving and undisturbed after another one's   *)
(* step has seen no table change.                                          *)
LEMMA Quiet ==
  ASSUME IInv, Next, NEW q \in Reqs, pc'[q] \in Resolving, ~raced'[q], ~Step(q)
  PROVE  Undisturbed(q)
  <1>1. CASE \E l \in Members \X Roles : GrantExpires(l)
    <2>1. /\ pc' = pc /\ who' = who
          /\ raced' = [x \in Reqs |-> raced[x] \/ pc[x] \in {"grants", "schools"}]
      BY <1>1 DEF GrantExpires
    <2>2. raced'[q] = (raced[q] \/ pc[q] \in {"grants", "schools"})
      BY <2>1
    <2> QED
      BY <2>1, <2>2 DEF Resolving
  <1>2. ASSUME NEW r \in Reqs, Step(r)
        PROVE  Undisturbed(q)
    <2>1. q # r
      BY <1>2
    <2>2. CASE Commits(r)
      BY <2>1, <2>2, CommitsDisturb DEF Commits
    <2>3. CASE ~Commits(r)
      BY <1>2, <2>1, <2>3, Apart DEF Elsewhere, Undisturbed
    <2> QED
      BY <2>2, <2>3
  <1> QED
    BY <1>1, <1>2 DEF Next

LEMMA ExactNext == IInv /\ ExactInv /\ [Next]_vars => ExactInv'
  <1> SUFFICES ASSUME IInv, ExactInv, [Next]_vars, NEW q \in Reqs, pc'[q] \in Resolving, ~raced'[q]
               PROVE  ExactAt(q)'
    BY DEF ExactInv, ExactAt
  <1>1. /\ pc \in [Reqs -> Point]
        /\ who \in [Reqs -> [user: Users \cup {None}, asked: Schools \cup {None},
                             ms: SUBSET Members, got: SUBSET (Members \X Perms)]]
        /\ ExactAt(q)
    BY DEF IInv, TypeOK, ExactInv
  <1>2. PICK u, ms : u = who'[q].user /\ ms = who'[q].ms
    OBVIOUS
  <1>3. SUFFICES ms = MsOf(u)' /\ (pc'[q] = "schools" => who'[q].got = GotOf(ms)')
    BY <1>2 DEF ExactAt, MsOf, GotOf, Active, Gives
  <1>4. tables' = tables => MsOf(u)' = MsOf(u) /\ GotOf(ms)' = GotOf(ms)
    BY DEF MsOf, GotOf, Active, Gives, tables
  <1>5. CASE Undisturbed(q)
    <2>1. /\ who'[q] = who[q] /\ pc'[q] = pc[q] /\ ~raced[q] /\ tables' = tables
      BY <1>5 DEF Undisturbed
    <2> QED
      BY <1>1, <1>2, <1>4, <2>1 DEF ExactAt
  <1>6. CASE UNCHANGED vars
    BY <1>5, <1>6 DEF vars, tables, Undisturbed
  <1>7. CASE Next
    <2>1. CASE ~Step(q)
      BY <1>5, <1>7, <2>1, Quiet
    <2>2. ASSUME NEW v \in Users, NEW s \in Schools \cup {None}, Start(q, v, s)
          PROVE  ms = MsOf(u)' /\ pc'[q] # "schools"
      <3>1. pc'[q] # "guard"
        BY DEF Resolving
      <3>2. \A p : Goto(q, p) => pc'[q] = p
        BY <1>1 DEF Goto
      <3>3. v \notin Admins
        BY <2>2, <3>1, <3>2 DEF Start
      <3>4. who' = [who EXCEPT ![q] = [user |-> v, asked |-> s, ms |-> MsOf(v), got |-> {}]]
        BY <2>2, <3>3 DEF Start, MsOf
      <3>5. ms = MsOf(v) /\ u = v
        BY <1>1, <1>2, <3>4
      <3>6. tables' = tables /\ (Goto(q, "guard") \/ Goto(q, "grants"))
        BY <2>2 DEF Start
      <3> QED
        BY <1>4, <3>2, <3>5, <3>6
    <2>3. CASE LoadGrants(q)
      <3>1. /\ pc[q] = "grants" /\ ~raced[q] /\ tables' = tables
            /\ who' = [who EXCEPT ![q] = [user |-> who[q].user, asked |-> who[q].asked,
                                          ms |-> who[q].ms, got |-> GotOf(who[q].ms)]]
        BY <2>3 DEF LoadGrants, GotOf
      <3>2. ms = who[q].ms /\ u = who[q].user /\ who'[q].got = GotOf(who[q].ms)
        BY <1>1, <1>2, <3>1
      <3>3. who[q].ms = MsOf(who[q].user)
        BY <1>1, <3>1 DEF ExactAt, Resolving
      <3> QED
        BY <1>4, <3>1, <3>2, <3>3
    <2>4. ~SelectSchool(q)
      BY <1>1 DEF SelectSchool, Goto, Resolving
    <2> QED
      BY <2>1, <2>2, <2>3, <2>4, Resolution
  <1> QED
    BY <1>6, <1>7

(* A principal that was put together while no table changed is one that    *)
(* the tables warrant.                                                     *)
LEMMA SelectExact ==
  ASSUME IInv, ExactInv, NEW r \in Reqs, SelectSchool(r), ~raced[r]
  PROVE  prin'[r] \in Principals(who'[r].user, who'[r].asked)
  <1> DEFINE ms == MsOf(who[r].user)
  <1>1. /\ who' = who /\ who[r].ms = ms /\ who[r].got = GotOf(ms) /\ prin \in [Reqs -> Principal]
        /\ role \in [Roles -> Role] /\ ms \subseteq Members
    BY DEF SelectSchool, ExactInv, ExactAt, Resolving, IInv, TypeOK, MsOf
  <1>2. PICK p \in Resolved(r) :
          /\ p.school \in ActiveSchool(ms, Accessible(ms, p.org), who[r].asked)
          /\ prin' = [prin EXCEPT ![r] = p]
    BY <1>1 DEF SelectSchool
  <1>3. PICK m \in ms, sch \in Schools \cup {None} :
          p = [org |-> mem[m].org, school |-> sch, admin |-> FALSE,
               perms |-> {x \in Perms : \E n \in Applicable(r, sch) : <<n, x>> \in GotOf(ms)}]
    BY <1>1, <1>2 DEF Resolved
  <1>4. p.org = mem[m].org /\ p.school = sch
    BY <1>3
  <1>5. {x \in Perms : \E n \in Applicable(r, sch) : <<n, x>> \in GotOf(ms)}
          = {x \in Perms : \E n \in ms, ro \in Roles : /\ mem[n].school \in {None, sch}
                                                       /\ x \in Gives(n, ro)}
    <2>1. Applicable(r, sch) = {n \in ms : mem[n].school \in {None, sch}}
      BY <1>1 DEF Applicable
    <2>2. \A n \in ms, x \in Perms : <<n, x>> \in GotOf(ms) <=> \E ro \in Roles : x \in Gives(n, ro)
      BY DEF GotOf
    <2> HIDE DEF ms
    <2> QED
      BY <2>1, <2>2
  <1>6. prin'[r] = p
    BY <1>1, <1>2
  <1> DEFINE Of(org, x) == [org |-> org, school |-> x, admin |-> FALSE,
                            perms |-> {y \in Perms : \E n \in ms, ro \in Roles :
                                         mem[n].school \in {None, x} /\ y \in Gives(n, ro)}]
             Choices(org) == {Of(org, x) : x \in ActiveSchool(ms, Accessible(ms, org), who[r].asked)}
  <1>7. p = Of(p.org, sch)
    BY <1>3, <1>4, <1>5
  <1>8. p \in Choices(p.org)
    <2> HIDE DEF Of, ms
    <2> QED
      BY <1>2, <1>4, <1>7
  <1>9. p \in UNION {Choices(org) : org \in {mem[n].org : n \in ms}}
    <2> HIDE DEF Choices, ms
    <2> QED
      BY <1>4, <1>8
  <1>10. Principals(who[r].user, who[r].asked) = UNION {Choices(org) : org \in {mem[n].org : n \in ms}}
    BY DEF Principals, MsOf
  <1> QED
    BY <1>1, <1>6, <1>9, <1>10

(* The principal of a request is what the tables warrant, unless one of    *)
(* them changed between the SELECTs it is put together from.               *)
THEOREM PrincipalExactTheorem == Spec => PrincipalExact
  <1>1. Init => ExactInv
    BY DEF Init, ExactInv, ExactAt, Resolving
  <1>2. Spec => [](IInv /\ ExactInv)
    BY <1>1, ExactNext, InductiveInvariant, PTL DEF Spec
  <1>3. IInv /\ ExactInv /\ [Next]_vars =>
          [\A r \in Reqs : /\ pc[r] \in {"idle", "schools"} /\ pc'[r] = "guard"
                           /\ ~prin'[r].admin /\ ~raced[r]
                           => prin'[r] \in Principals(who'[r].user, who'[r].asked)]_vars
    <2> SUFFICES ASSUME IInv, ExactInv, [Next]_vars, NEW r \in Reqs, pc[r] \in {"idle", "schools"},
                        pc'[r] = "guard", ~prin'[r].admin, ~raced[r]
                 PROVE  prin'[r] \in Principals(who'[r].user, who'[r].asked)
      OBVIOUS
    <2>1. Step(r)
      <3>1. CASE \E l \in Members \X Roles : GrantExpires(l)
        BY <3>1 DEF GrantExpires
      <3>2. ASSUME NEW q \in Reqs, Step(q), q # r
            PROVE  FALSE
        <4>1. CASE Commits(q)
          <5>1. PICK o : Finish(q, o)
            BY <4>1 DEF Commits, CommitTenant, CommitUser, CommitUserCreate, CommitMemberCreate,
                        CommitMember, CommitGrant, CommitRole
          <5> QED
            BY <3>2, <5>1 DEF Finish, IInv, TypeOK
        <4>2. CASE ~Commits(q)
          BY <3>2, <4>2, Apart DEF Elsewhere
        <4> QED
          BY <4>1, <4>2
      <3> QED
        BY <3>1, <3>2 DEF Next, vars
    <2>2. ~LoadGrants(r)
      BY DEF LoadGrants
    <2>3. CASE SelectSchool(r)
      BY <2>3, SelectExact
    <2>4. ASSUME NEW u \in Users, NEW s \in Schools \cup {None}, Start(r, u, s)
          PROVE  prin'[r] \in Principals(who'[r].user, who'[r].asked)
      <3>1. /\ prin \in [Reqs -> Principal] /\ PrinAt(r) /\ pc[r] = "idle" /\ pc \in [Reqs -> Point]
            /\ who \in [Reqs -> [user: Users \cup {None}, asked: Schools \cup {None},
                                 ms: SUBSET Members, got: SUBSET (Members \X Perms)]]
        BY <2>4 DEF IInv, TypeOK, At, Start
      <3>2. prin[r] = NoPrincipal
        BY <3>1 DEF PrinAt, Served
      <3>3. StaffPrincipal(s).admin
        BY DEF StaffPrincipal
      <3>4. u \notin Admins
        BY <2>4, <3>1, <3>3 DEF Start
      <3>5. /\ prin' = prin /\ tables' = tables
            /\ who' = [who EXCEPT ![r] = [user |-> u, asked |-> s, ms |-> MsOf(u), got |-> {}]]
            /\ Goto(r, IF MsOf(u) = {} THEN "guard" ELSE "grants")
        BY <2>4, <3>4 DEF Start, MsOf
      <3>6. MsOf(u) = {}
        BY <3>1, <3>5 DEF Goto
      <3>7. who'[r].user = u /\ who'[r].asked = s
        BY <3>1, <3>5
      <3> QED
        BY <3>2, <3>5, <3>6, <3>7 DEF Principals, MsOf
    <2> QED
      BY <2>1, <2>2, <2>3, <2>4, Resolution
  <1> QED
    BY <1>2, <1>3, PTL DEF Spec, PrincipalExact
-----------------------------------------------------------------------------
(* The catalogue and the scripts                                           *)

AllRoles == SystemRoles \cup TenantRoles
Widest(ro) == Catalogue(RoleImports \cup StudentPermissions)[ro]
Plan == [add: SUBSET AllPermissions, del: SUBSET AllPermissions, new: BOOLEAN]
Job == [kind: Kind, at: JobPoint, rows: SUBSET AllPermissions, next: 0 .. 9,
        plan: [AllRoles -> Plan], alone: BOOLEAN]

(* The tables: a grant is of a role and a permission with rows, and a      *)
(* system role is granted nothing that the widest catalogue does not name. *)
GrantsInv ==
  /\ permissions \subseteq AllPermissions /\ roles \subseteq AllRoles
  /\ links \in [AllRoles -> SUBSET AllPermissions]
  /\ \A ro \in AllRoles : links[ro] \subseteq permissions /\ (links[ro] # {} => ro \in roles)
  /\ \A ro \in SystemRoles : links[ro] \subseteq Widest(ro)

(* A plan: what it adds is in the catalogue if the role is a system role,  *)
(* and the role is there, or is to be created.                             *)
PlanAt(j) ==
  \A ro \in AllRoles :
    /\ ro \in SystemRoles => job[j].plan[ro].add \subseteq Catalogue(RoleImports)[ro]
    /\ job[j].plan[ro].add # {} => ro \in roles \/ job[j].plan[ro].new

(* A run of sync_roles is at one of the eight roles or through with all of *)
(* them; SUPER_ADMIN, the first one, needs every permission there is.      *)
ProgressAt(j) ==
  /\ job[j].at = "loop" => job[j].kind = "roles" /\ job[j].next \in 1 .. 8
  /\ job[j].at = "commit" /\ job[j].kind = "roles" => job[j].next = 9
  /\ Running(j) /\ job[j].kind = "roles" /\ job[j].next > 1 => RoleImports \subseteq job[j].rows

(* The difference between the catalogue and the tables *)
Planned(ro) ==
  [add |-> Catalogue(RoleImports)[ro] \ links[ro],
   del |-> links[ro] \ Catalogue(RoleImports)[ro], new |-> ro \notin roles]

(* While nobody commits beside it, a run of sync_roles has read what the   *)
(* table of permissions still holds and has planned what is still needed.  *)
UndisturbedAt(j) ==
  job[j].kind = "roles" /\ Running(j) /\ job[j].alone =>
    /\ job[j].rows = permissions
    /\ \A i \in 1 .. 8 : i < job[j].next => job[j].plan[RoleOrder[i]] = Planned(RoleOrder[i])

JobAt(j) == PlanAt(j) /\ ProgressAt(j) /\ UndisturbedAt(j)

(* A run of bootstrap that has created the account *)
Made(j) == job[j].kind = "bootstrap" /\ job[j].next = 0 /\ job[j].at = "done"
AdminInv ==
  /\ admin \in {"none", "member", "granted"}
  /\ \A j \in Jobs : Made(j) => admin # "none"
  /\ \A j, k \in Jobs : Made(j) /\ Made(k) => j = k

SyncIInv ==
  /\ GrantsInv /\ AdminInv
  /\ job \in [Jobs -> Job]
  /\ \A j \in Jobs : JobAt(j)

(* No run of sync_roles has got past a role, and what any run has read is  *)
(* what sync_permissions imports.                                          *)
Unseeded ==
  /\ permissions \subseteq PermissionImports
  /\ roles \cap SystemRoles = {}
  /\ admin # "granted"
  /\ \A j \in Jobs :
       /\ job[j].kind = "roles" => /\ job[j].at \in {"loop", "failed"}
                                   /\ job[j].rows \subseteq PermissionImports
       /\ \A ro \in SystemRoles : ~job[j].plan[ro].new
-----------------------------------------------------------------------------
(* The three parts of a permission *)
LEMMA CodesSplit ==
  ASSUME NEW module, NEW resources, NEW actions, NEW c \in Codes(module, resources, actions)
  PROVE  c[1] = module /\ c[2] \in resources /\ c[3] \in actions
  BY DEF Codes

(* The catalogue goes through eight roles, each once. *)
LEMMA RoleNames ==
  /\ SystemRoles = {"SUPER_ADMIN", "ORG_ADMIN", "SCHOOL_ADMIN", "PRINCIPAL", "TEACHER", "STAFF",
                    "PARENT", "STUDENT"}
  /\ Len(RoleOrder) = 8
  /\ \A i \in 1 .. 8 : RoleOrder[i] \in SystemRoles
  /\ \A i, k \in 1 .. 8 : i # k => RoleOrder[i] # RoleOrder[k]
  /\ \A ro \in SystemRoles : \E i \in 1 .. 8 : ro = RoleOrder[i]
  BY DEF SystemRoles, RoleOrder

LEMMA ImportsAreCodes ==
  /\ RoleImports \subseteq AllPermissions /\ StudentPermissions \subseteq AllPermissions
  /\ PermissionImports \subseteq RoleImports
  BY DEF RoleImports, AllPermissions, PermissionImports

(* The catalogue gives a role only registered permissions, and more when   *)
(* more are registered.                                                    *)
LEMMA CatalogueWithin ==
  ASSUME NEW registered, NEW ro \in SystemRoles
  PROVE  Catalogue(registered)[ro] \subseteq registered
  BY RoleNames DEF Catalogue, In, People

LEMMA CatalogueMonotone ==
  ASSUME NEW P, NEW Q, P \subseteq Q, NEW ro \in SystemRoles
  PROVE  Catalogue(P)[ro] \subseteq Catalogue(Q)[ro]
  BY RoleNames DEF Catalogue, In, People

LEMMA SuperAdminHasAll == \A registered : Catalogue(registered)["SUPER_ADMIN"] = registered
  BY DEF Catalogue

(* Whatever is registered, the roles of readers get to read people. *)
LEMMA ReadersRead ==
  ASSUME NEW registered, NEW ro \in ReaderRoles, NEW c \in Catalogue(registered)[ro]
  PROVE  c[1] = "people" /\ c[3] \in Reading
  BY RoleNames DEF Catalogue, In, People, ReaderRoles, Reading

(* The routes of a resource, by what they ask for *)
LEMMA GetsRead ==
  ASSUME NEW module, NEW resource, NEW actions, NEW x \in Gets(module, resource, actions)
  PROVE  ~x.writes /\ x.code[1] = module /\ x.code[2] = resource /\ x.code[3] \in actions
  BY CodesSplit DEF Gets, Route

LEMMA ChangesWrite ==
  ASSUME NEW module, NEW resource, NEW actions, NEW x \in Changes(module, resource, actions)
  PROVE  x.writes /\ x.code[1] = module /\ x.code[2] = resource /\ x.code[3] \in actions
  BY CodesSplit DEF Changes, Route
LEMMA CrudSplit ==
  ASSUME NEW module, NEW resource, NEW x \in CrudRoutes(module, resource)
  PROVE  /\ x.code[1] = module /\ x.code[2] = resource
         /\ x.writes => x.code[3] \in {"create", "update", "delete"}
  BY GetsRead, ChangesWrite DEF CrudRoutes

(* No route that writes is open to a permission to read people. *)
LEMMA NoReaderRouteWrites ==
  ASSUME NEW x \in Routes, x.code[1] = "people", x.code[3] \in Reading
  PROVE  ~x.writes
  <1>1. CASE x \in PersonRoutes \cup AddressRoutes \cup ContactRoutes
    BY <1>1, CrudSplit, ChangesWrite DEF PersonRoutes, AddressRoutes, ContactRoutes, Reading
  <1>2. CASE x \notin PersonRoutes \cup AddressRoutes \cup ContactRoutes
    <2>1. x \notin OrganizationRoutes \cup SchoolRoutes \cup UserRoutes \cup MembershipRoutes
                 \cup RoleRoutes \cup AuditRoutes
      BY CrudSplit, GetsRead, ChangesWrite DEF OrganizationRoutes, SchoolRoutes, UserRoutes,
         MembershipRoutes, RoleRoutes, AuditRoutes
    <2>2. x \notin AcademicYearRoutes \cup AcademicTermRoutes \cup AcademicClassRoutes
                 \cup SubjectRoutes \cup ClassSubjectRoutes \cup CohortRoutes
      BY CrudSplit, GetsRead, ChangesWrite DEF AcademicYearRoutes, AcademicTermRoutes,
         AcademicClassRoutes, SubjectRoutes, ClassSubjectRoutes, CohortRoutes
    <2>3. x \notin StudentRoutes \cup EnrollmentRoutes \cup GuardianRoutes \cup TeacherRoutes
                 \cup AssignmentRoutes \cup TimetableRoutes
      BY CrudSplit, GetsRead, ChangesWrite DEF StudentRoutes, EnrollmentRoutes, GuardianRoutes,
         TeacherRoutes, AssignmentRoutes, TimetableRoutes
    <2>4. x \notin PeriodRoutes \cup SlotRoutes \cup AnnouncementRoutes \cup SessionRoutes
                 \cup RecordRoutes \cup BulkImportRoutes
      BY CrudSplit, GetsRead, ChangesWrite DEF PeriodRoutes, SlotRoutes, AnnouncementRoutes,
         SessionRoutes, RecordRoutes, BulkImportRoutes
    <2>5. x \notin ParentRoutes \cup StudentParentRoutes \cup NotificationRoutes
                 \cup DocumentRoutes \cup ReportRoutes \cup StatsRoutes
      BY CrudSplit, GetsRead, ChangesWrite DEF ParentRoutes, StudentParentRoutes,
         NotificationRoutes, DocumentRoutes, ReportRoutes, StatsRoutes
    <2>6. x \notin FeatureFlagRoutes \cup OutboxRoutes
      BY CrudSplit, GetsRead, ChangesWrite DEF FeatureFlagRoutes, OutboxRoutes
    <2> QED
      BY <1>2, <2>1, <2>2, <2>3, <2>4, <2>5, <2>6 DEF Routes, PlatformRoutes
  <1> QED
    BY <1>1, <1>2

(* What the catalogue knows of the platform module is the audit log. *)
LEMMA PlatformIsAudit ==
  ASSUME NEW c \in RoleImports \cup StudentPermissions, c[1] = "platform"
  PROVE  c[2] = "audit_log"
  <1>1. c \in AuditPermissions => c[2] = "audit_log"
    BY CodesSplit DEF AuditPermissions
  <1>2. c \notin IamAndPeople
    BY CodesSplit DEF IamAndPeople, OrganizationPermissions, SchoolPermissions, UserPermissions,
         MembershipPermissions, RolePermissions, PersonPermissions, AddressPermissions,
         ContactPermissions
  <1>3. c \notin Academic
    BY CodesSplit DEF Academic, AcademicYearPermissions, AcademicTermPermissions,
         AcademicClassPermissions, SubjectPermissions, ClassSubjectPermissions, CohortPermissions
  <1>4. c \notin StudentPermissions \cup EnrollmentPermissions \cup GuardianPermissions
               \cup TeacherPermissions \cup TimetablePermissions
    BY CodesSplit DEF StudentPermissions, EnrollmentPermissions, GuardianPermissions,
         TeacherPermissions, TimetablePermissions
  <1>5. c \notin AnnouncementPermissions \cup AttendancePermissions \cup BulkImportPermissions
    BY CodesSplit DEF AnnouncementPermissions, AttendancePermissions, BulkImportPermissions
  <1> QED
    BY <1>1, <1>2, <1>3, <1>4, <1>5 DEF RoleImports

LEMMA PlatformRoutesAreNoAudit ==
  ASSUME NEW x \in PlatformRoutes
  PROVE  x.code[1] = "platform" /\ x.code[2] # "audit_log"
  BY GetsRead DEF PlatformRoutes, StatsRoutes, FeatureFlagRoutes, OutboxRoutes

(* The catalogue has a permission that sync_permissions does not import. *)
LEMMA CatalogueNeedsMore == ~(RoleImports \subseteq PermissionImports)
  <1> DEFINE c == <<"academic", "cohort", "list">>
  <1>1. c \in RoleImports
    BY DEF RoleImports, Academic, CohortPermissions, Codes, Crud, Reading
  <1>2. c[1] = "academic"
    OBVIOUS
  <1>3. c \notin PermissionImports
    BY <1>2, CodesSplit DEF PermissionImports, IamAndPeople, OrganizationPermissions,
         SchoolPermissions, UserPermissions, MembershipPermissions, RolePermissions,
         PersonPermissions, AddressPermissions, ContactPermissions, AuditPermissions
  <1> QED
    BY <1>1, <1>3
-----------------------------------------------------------------------------
(* How a run moves, and how the others see it.                             *)

database == <<permissions, roles, links, admin>>

LEMMA NoJobShape == NoPlan \in Plan /\ NoJob \in Job /\ NoJob.plan = [ro \in AllRoles |-> NoPlan]
  BY DEF NoPlan, Plan, NoJob, Job, Kind, JobPoint, AllRoles

(* The plan and the catalogue that a run of sync_roles computes are made   *)
(* of permissions.                                                         *)
LEMMA CatalogueCodes ==
  ASSUME NEW ro \in SystemRoles
  PROVE  /\ Catalogue(RoleImports)[ro] \subseteq RoleImports
         /\ Catalogue(RoleImports)[ro] \subseteq AllPermissions
         /\ Catalogue(RoleImports)[ro] \subseteq Widest(ro)
         /\ Widest(ro) \subseteq AllPermissions
         /\ Widest(ro) \subseteq RoleImports \cup StudentPermissions
  BY CatalogueWithin, CatalogueMonotone, ImportsAreCodes DEF Widest

(* A step of j within its run changes nothing of the others. *)
LEMMA SetEffect ==
  ASSUME job \in [Jobs -> Job], NEW j \in Jobs, NEW kind \in Kind, NEW at \in JobPoint,
         NEW rows, rows \subseteq AllPermissions, NEW next \in 0 .. 9,
         NEW plan \in [AllRoles -> Plan],
         job' = [job EXCEPT ![j] = [kind |-> kind, at |-> at, rows |-> rows, next |-> next,
                                    plan |-> plan, alone |-> job[j].alone]]
  PROVE  /\ job' \in [Jobs -> Job]
         /\ job'[j].kind = kind /\ job'[j].at = at /\ job'[j].rows = rows
         /\ job'[j].next = next /\ job'[j].plan = plan /\ job'[j].alone = job[j].alone
         /\ \A k \in Jobs \ {j} : job'[k] = job[k]
  <1>1. job[j].alone \in BOOLEAN
    BY DEF Job
  <1>2. [kind |-> kind, at |-> at, rows |-> rows, next |-> next, plan |-> plan,
         alone |-> job[j].alone] \in Job
    BY <1>1 DEF Job
  <1> QED
    BY <1>2

(* A run ends without planning anything more, and a commit is a disturbance. *)
LEMMA EndEffect ==
  ASSUME job \in [Jobs -> Job], NEW j \in Jobs, NEW at \in {"done", "failed"}, End(j, at)
  PROVE  /\ job' \in [Jobs -> Job]
         /\ job'[j].kind = job[j].kind /\ job'[j].at = at /\ job'[j].rows = {}
         /\ job'[j].next = job[j].next /\ job'[j].plan = NoJob.plan
         /\ \A k \in Jobs \ {j} :
              /\ job'[k].kind = job[k].kind /\ job'[k].at = job[k].at
              /\ job'[k].rows = job[k].rows /\ job'[k].next = job[k].next
              /\ job'[k].plan = job[k].plan
              /\ job'[k].alone => job[k].alone /\ ~(at = "done" /\ Running(k))
  <1> DEFINE EndedRun(k) ==
        IF k = j THEN [kind |-> job[j].kind, at |-> at, rows |-> {}, next |-> job[j].next,
                       plan |-> NoJob.plan, alone |-> TRUE]
                 ELSE [kind |-> job[k].kind, at |-> job[k].at, rows |-> job[k].rows,
                       next |-> job[k].next, plan |-> job[k].plan,
                       alone |-> job[k].alone /\ ~(at = "done" /\ Running(k))]
  <1>1. job' = [k \in Jobs |-> EndedRun(k)]
    BY DEF End
  <1>2. at \in JobPoint /\ NoJob.plan \in [AllRoles -> Plan]
    BY NoJobShape DEF JobPoint
  <1>3. \A k \in Jobs : EndedRun(k) \in Job
    <2> TAKE k \in Jobs
    <2>1. job[k] \in Job /\ job[j] \in Job
      OBVIOUS
    <2>2. CASE k = j
      BY <2>1, <2>2, <1>2 DEF Job
    <2>3. CASE k # j
      <3>1. (job[k].alone /\ ~(at = "done" /\ Running(k))) \in BOOLEAN
        OBVIOUS
      <3> QED
        BY <2>1, <2>3, <3>1 DEF Job
    <2> QED
      BY <2>2, <2>3
  <1>4. job' \in [Jobs -> Job]
    BY <1>1, <1>3
  <1>5. /\ job'[j].kind = job[j].kind /\ job'[j].at = at /\ job'[j].rows = {}
        /\ job'[j].next = job[j].next /\ job'[j].plan = NoJob.plan
    BY <1>1
  <1>6. \A k \in Jobs \ {j} :
          /\ job'[k].kind = job[k].kind /\ job'[k].at = job[k].at
          /\ job'[k].rows = job[k].rows /\ job'[k].next = job[k].next
          /\ job'[k].plan = job[k].plan
          /\ job'[k].alone => job[k].alone /\ ~(at = "done" /\ Running(k))
    BY <1>1
  <1> QED
    BY <1>4, <1>5, <1>6
-----------------------------------------------------------------------------
(* The invariant is inductive                                              *)

(* What the other runs keep when j takes a step *)
Others(j) ==
  \A k \in Jobs \ {j} :
    /\ job'[k].kind = job[k].kind /\ job'[k].at = job[k].at
    /\ job'[k].rows = job[k].rows /\ job'[k].next = job[k].next
    /\ job'[k].plan = job[k].plan /\ (job'[k].alone => job[k].alone)

LEMMA OthersKeepTheirs ==
  ASSUME SyncIInv, NEW j \in Jobs, Others(j), NEW k \in Jobs \ {j}, roles \subseteq roles',
         UNCHANGED database \/ ~Running(k) \/ ~job'[k].alone
  PROVE  JobAt(k)' /\ (Made(k)' <=> Made(k))
  <1>1. /\ job'[k].kind = job[k].kind /\ job'[k].at = job[k].at
        /\ job'[k].rows = job[k].rows /\ job'[k].next = job[k].next
        /\ job'[k].plan = job[k].plan /\ (job'[k].alone => job[k].alone)
    BY DEF Others
  <1>2. JobAt(k)
    BY DEF SyncIInv
  <1>3. PlanAt(k)'
    BY <1>1, <1>2 DEF JobAt, PlanAt
  <1>4. ProgressAt(k)'
    BY <1>1, <1>2 DEF JobAt, ProgressAt, Running
  <1>5. UndisturbedAt(k)'
    <2>1. Running(k)' <=> Running(k)
      BY <1>1 DEF Running
    <2>2. CASE UNCHANGED database
      BY <1>1, <1>2, <2>1, <2>2 DEF JobAt, UndisturbedAt, Planned, database
    <2>3. CASE ~Running(k) \/ ~job'[k].alone
      BY <2>1, <2>3 DEF UndisturbedAt
    <2> QED
      BY <2>2, <2>3
  <1>6. Made(k)' <=> Made(k)
    BY <1>1 DEF Made
  <1> QED
    BY <1>3, <1>4, <1>5, <1>6 DEF JobAt

(* A step that leaves the tables alone *)
LEMMA QuietStep ==
  ASSUME SyncIInv, NEW j \in Jobs, job' \in [Jobs -> Job], Others(j), UNCHANGED database,
         JobAt(j)', job'[j].at # "done"
  PROVE  SyncIInv'
  <1>1. /\ permissions' = permissions /\ roles' = roles /\ links' = links /\ admin' = admin
    BY DEF database
  <1>2. \A k \in Jobs \ {j} : JobAt(k)' /\ (Made(k)' <=> Made(k))
    BY <1>1, OthersKeepTheirs
  <1>3. GrantsInv'
    BY <1>1 DEF SyncIInv, GrantsInv
  <1>4. ~Made(j)'
    BY DEF Made
  <1>5. AdminInv'
    BY <1>1, <1>2, <1>4 DEF SyncIInv, AdminInv
  <1> QED
    BY <1>2, <1>3, <1>5 DEF SyncIInv

(* A run that has ended *)
LEMMA EndedRun ==
  ASSUME NEW j \in Jobs, job'[j].at \in {"done", "failed"}, job'[j].plan = NoJob.plan
  PROVE  JobAt(j)'
  <1>1. \A ro \in AllRoles : job'[j].plan[ro].add = {}
    BY NoJobShape DEF NoPlan
  <1> QED
    BY <1>1 DEF JobAt, PlanAt, ProgressAt, UndisturbedAt, Running

(* A run that fails, or whose connection breaks, leaves no trace. *)
LEMMA FailStep ==
  ASSUME SyncIInv, NEW j \in Jobs, End(j, "failed"), UNCHANGED database
  PROVE  SyncIInv'
  <1>1. job \in [Jobs -> Job]
    BY DEF SyncIInv
  <1>2. /\ job' \in [Jobs -> Job] /\ Others(j)
        /\ job'[j].at = "failed" /\ job'[j].plan = NoJob.plan
    BY <1>1, EndEffect DEF Others
  <1>3. JobAt(j)'
    BY <1>2, EndedRun
  <1> QED
    BY <1>2, <1>3, QuietStep

(* A run that commits *)
LEMMA CommitStep ==
  ASSUME SyncIInv, NEW j \in Jobs, End(j, "done"), roles \subseteq roles', GrantsInv',
         admin' \in {"none", "member", "granted"}, admin # "none" => admin' # "none",
         job[j].kind = "bootstrap" /\ job[j].next = 0 => admin = "none" /\ admin' # "none"
  PROVE  SyncIInv'
  <1>1. job \in [Jobs -> Job]
    BY DEF SyncIInv
  <1>2. /\ job' \in [Jobs -> Job] /\ Others(j)
        /\ job'[j].kind = job[j].kind /\ job'[j].next = job[j].next
        /\ job'[j].at = "done" /\ job'[j].plan = NoJob.plan
        /\ \A k \in Jobs \ {j} : Running(k) => ~job'[k].alone
    BY <1>1, EndEffect DEF Others
  <1>3. JobAt(j)'
    BY <1>2, EndedRun
  <1>4. \A k \in Jobs \ {j} : JobAt(k)' /\ (Made(k)' <=> Made(k))
    BY <1>2, OthersKeepTheirs
  <1>5. Made(j)' => admin = "none" /\ admin' # "none"
    BY <1>2 DEF Made
  <1>6. AdminInv'
    <2>1. \A k \in Jobs : Made(k)' => admin' # "none"
      BY <1>4, <1>5 DEF SyncIInv, AdminInv
    <2>2. \A k, l \in Jobs : Made(k)' /\ Made(l)' => k = l
      BY <1>4, <1>5 DEF SyncIInv, AdminInv
    <2> QED
      BY <2>1, <2>2 DEF AdminInv, Made
  <1> QED
    BY <1>2, <1>3, <1>4, <1>6 DEF SyncIInv
(* One lemma per action *)
LEMMA NothingPlanned ==
  ASSUME NEW ro \in AllRoles
  PROVE  NoJob.plan[ro].add = {} /\ ~NoJob.plan[ro].new
  BY NoJobShape DEF NoPlan

LEMMA SyncNames ==
  /\ {"permissions", "roles", "bootstrap", "edit"} \subseteq Kind
  /\ {"loop", "commit"} \subseteq JobPoint
  BY DEF Kind, JobPoint

LEMMA PermissionsReadStep ==
  ASSUME SyncIInv, NEW j \in Jobs, PermissionsRead(j)
  PROVE  SyncIInv'
  <1>1. job \in [Jobs -> Job] /\ permissions \subseteq AllPermissions /\ UNCHANGED database
    BY DEF SyncIInv, GrantsInv, PermissionsRead, database
  <1>2. Set(j, "permissions", "commit", permissions, 0, NoJob.plan)
    BY DEF PermissionsRead
  <1>3. /\ job' \in [Jobs -> Job] /\ job'[j].kind = "permissions" /\ job'[j].at = "commit"
        /\ job'[j].plan = NoJob.plan /\ \A k \in Jobs \ {j} : job'[k] = job[k]
    <2>1. "permissions" \in Kind /\ "commit" \in JobPoint /\ 0 \in 0 .. 9
      BY SyncNames
    <2>2. permissions \in SUBSET AllPermissions /\ NoJob.plan \in [AllRoles -> Plan]
      BY <1>1, NoJobShape
    <2> QED
      BY <1>1, <1>2, <2>1, <2>2, SetEffect DEF Set
  <1>4. JobAt(j)'
    BY <1>3, NothingPlanned DEF JobAt, PlanAt, ProgressAt, UndisturbedAt
  <1> QED
    BY <1>1, <1>3, <1>4, QuietStep DEF Others

LEMMA RolesReadStep ==
  ASSUME SyncIInv, NEW j \in Jobs, RolesRead(j)
  PROVE  SyncIInv'
  <1>1. job \in [Jobs -> Job] /\ permissions \subseteq AllPermissions /\ UNCHANGED database
    BY DEF SyncIInv, GrantsInv, RolesRead, database
  <1>2. Set(j, "roles", "loop", permissions, 1, NoJob.plan)
    BY DEF RolesRead
  <1>3. /\ job' \in [Jobs -> Job] /\ job'[j].kind = "roles" /\ job'[j].at = "loop"
        /\ job'[j].rows = permissions /\ job'[j].next = 1
        /\ job'[j].plan = NoJob.plan /\ \A k \in Jobs \ {j} : job'[k] = job[k]
    <2>1. "roles" \in Kind /\ "loop" \in JobPoint /\ 1 \in 0 .. 9
      BY SyncNames
    <2>2. permissions \in SUBSET AllPermissions /\ NoJob.plan \in [AllRoles -> Plan]
      BY <1>1, NoJobShape
    <2> QED
      BY <1>1, <1>2, <2>1, <2>2, SetEffect DEF Set
  <1>4. PlanAt(j)' /\ ProgressAt(j)'
    BY <1>3, NothingPlanned DEF PlanAt, ProgressAt
  <1>5. UndisturbedAt(j)'
    BY <1>1, <1>3 DEF UndisturbedAt, database
  <1> QED
    BY <1>1, <1>3, <1>4, <1>5, QuietStep DEF Others, JobAt

LEMMA BootstrapReadStep ==
  ASSUME SyncIInv, NEW j \in Jobs, BootstrapRead(j)
  PROVE  SyncIInv'
  <1> DEFINE one == [add |-> {}, del |-> {}, new |-> "SUPER_ADMIN" \in roles /\ admin # "granted"]
             plan == [NoJob.plan EXCEPT !["SUPER_ADMIN"] = one]
  <1>1. job \in [Jobs -> Job] /\ UNCHANGED database
    BY DEF SyncIInv, BootstrapRead, database
  <1>2. Set(j, "bootstrap", "commit", {}, IF admin = "none" THEN 0 ELSE 1, plan)
    BY DEF BootstrapRead
  <1>3. one \in Plan /\ one.add = {}
    BY DEF Plan
  <1>4. plan \in [AllRoles -> Plan] /\ \A ro \in AllRoles : plan[ro].add = {}
    <2> HIDE DEF one
    <2> QED
      BY <1>3, NoJobShape, NothingPlanned
  <1>5. /\ job' \in [Jobs -> Job] /\ job'[j].kind = "bootstrap" /\ job'[j].at = "commit"
        /\ job'[j].plan = plan /\ \A k \in Jobs \ {j} : job'[k] = job[k]
    <2> HIDE DEF plan
    <2>1. /\ (IF admin = "none" THEN 0 ELSE 1) \in 0 .. 9 /\ {} \in SUBSET AllPermissions
          /\ "bootstrap" \in Kind /\ "commit" \in JobPoint
      BY SyncNames
    <2> QED
      BY <1>1, <1>2, <1>4, <2>1, SetEffect DEF Set
  <1>6. JobAt(j)'
    <2> HIDE DEF plan
    <2> QED
      BY <1>4, <1>5 DEF JobAt, PlanAt, ProgressAt, UndisturbedAt
  <1> QED
    BY <1>1, <1>5, <1>6, QuietStep DEF Others

LEMMA EditRoleStep ==
  ASSUME SyncIInv, NEW j \in Jobs, NEW ro \in TenantRoles, NEW want \in SUBSET Picks,
         EditRole(j, ro, want)
  PROVE  SyncIInv'
  <1> DEFINE one == [add |-> want \ links[ro], del |-> links[ro] \ want, new |-> FALSE]
             plan == [NoJob.plan EXCEPT ![ro] = one]
  <1>1. /\ job \in [Jobs -> Job] /\ UNCHANGED database /\ want \subseteq AllPermissions
        /\ links[ro] \subseteq AllPermissions /\ ro \in roles /\ ro \in AllRoles
    BY DEF SyncIInv, GrantsInv, EditRole, database, AllRoles
  <1>2. Set(j, "edit", "commit", {}, 0, plan)
    BY DEF EditRole
  <1>3. one \in Plan
    BY <1>1 DEF Plan
  <1>4. /\ plan \in [AllRoles -> Plan]
        /\ \A r \in AllRoles : plan[r].add # {} => r = ro
    <2> HIDE DEF one
    <2> QED
      BY <1>1, <1>3, NoJobShape, NothingPlanned
  <1>5. /\ job' \in [Jobs -> Job] /\ job'[j].kind = "edit" /\ job'[j].at = "commit"
        /\ job'[j].plan = plan /\ \A k \in Jobs \ {j} : job'[k] = job[k]
    <2> HIDE DEF plan
    <2>1. /\ 0 \in 0 .. 9 /\ {} \in SUBSET AllPermissions
          /\ "edit" \in Kind /\ "commit" \in JobPoint
      BY SyncNames
    <2> QED
      BY <1>1, <1>2, <1>4, <2>1, SetEffect DEF Set
  <1>6. ro \notin SystemRoles
    BY TenantRolesAreNoSystemRoles
  <1>7. roles' = roles
    BY <1>1 DEF database
  <1>8. JobAt(j)'
    <2> HIDE DEF plan
    <2>1. PlanAt(j)'
      BY <1>1, <1>4, <1>5, <1>6, <1>7 DEF PlanAt
    <2> QED
      BY <1>5, <2>1 DEF JobAt, ProgressAt, UndisturbedAt
  <1> QED
    BY <1>1, <1>5, <1>8, QuietStep DEF Others

LEMMA AbortStep ==
  ASSUME SyncIInv, NEW j \in Jobs, AbortJob(j)
  PROVE  SyncIInv'
  BY FailStep DEF AbortJob, database

LEMMA RoleStepStep ==
  ASSUME SyncIInv, NEW j \in Jobs, RoleStep(j)
  PROVE  SyncIInv'
  <1> DEFINE i == job[j].next
             ro == RoleOrder[i]
             rows == job[j].rows
             missing == Catalogue(RoleImports)[ro] \ (links[ro] \cap rows)
             one == [add |-> missing, del |-> Unwanted(j, ro), new |-> ro \notin roles]
             plan == [job[j].plan EXCEPT ![ro] = one]
             at == IF i = Len(RoleOrder) THEN "commit" ELSE "loop"
  <1>1. /\ job \in [Jobs -> Job] /\ UNCHANGED database /\ job[j] \in Job /\ JobAt(j)
        /\ job[j].at = "loop"
    BY DEF SyncIInv, RoleStep, database
  <1>2. /\ i \in 1 .. 8 /\ ro \in SystemRoles /\ ro \in AllRoles /\ job[j].kind = "roles"
        /\ job[j].plan \in [AllRoles -> Plan] /\ rows \subseteq AllPermissions
        /\ job[j].alone \in BOOLEAN
    BY <1>1, RoleNames DEF JobAt, ProgressAt, AllRoles, Job
  <1>3. CASE ~(missing \subseteq rows)
    BY <1>3, <1>1, FailStep DEF RoleStep
  <1>4. CASE missing \subseteq rows
    <2>1. Set(j, "roles", at, rows, i + 1, plan)
      BY <1>4 DEF RoleStep
    <2>2. missing \subseteq Catalogue(RoleImports)[ro] /\ missing \subseteq AllPermissions
      BY <1>2, CatalogueCodes
    <2>3. Unwanted(j, ro) \subseteq AllPermissions
      BY <1>2 DEF Unwanted, SyncIInv, GrantsInv
    <2>4. one \in Plan
      BY <2>2, <2>3 DEF Plan
    <2>5. plan \in [AllRoles -> Plan]
      <3> HIDE DEF one
      <3> QED
        BY <1>2, <2>4
    <2>6. /\ plan[ro] = one
          /\ \A r \in AllRoles \ {ro} : plan[r] = job[j].plan[r]
      BY <1>2
    <2>7. at \in JobPoint /\ at # "done" /\ i + 1 \in 0 .. 9 /\ "roles" \in Kind
      BY <1>2 DEF JobPoint, Kind
    <2>8. /\ job' \in [Jobs -> Job] /\ job'[j].kind = "roles" /\ job'[j].at = at
          /\ job'[j].rows = rows /\ job'[j].next = i + 1
          /\ job'[j].plan = plan /\ job'[j].alone = job[j].alone
          /\ \A k \in Jobs \ {j} : job'[k] = job[k]
      <3> HIDE DEF plan, at, i, rows
      <3>1. rows \in SUBSET AllPermissions
        BY <1>2
      <3> QED
        BY <1>1, <2>1, <2>5, <2>7, <3>1, SetEffect DEF Set
    <2>9. permissions' = permissions /\ roles' = roles /\ links' = links
      BY <1>1 DEF database
    <2>10. PlanAt(j)'
      <3> SUFFICES ASSUME NEW r \in AllRoles
                   PROVE  /\ r \in SystemRoles => plan[r].add \subseteq Catalogue(RoleImports)[r]
                          /\ plan[r].add # {} => r \in roles \/ plan[r].new
        BY <2>8, <2>9 DEF PlanAt
      <3>1. CASE r = ro
        <4>1. one.add = missing /\ one.new = (ro \notin roles)
          OBVIOUS
        <4> HIDE DEF one, missing
        <4> QED
          BY <3>1, <4>1, <2>6, <2>2
      <3>2. CASE r # ro
        BY <3>2, <2>6, <1>1 DEF JobAt, PlanAt
      <3> QED
        BY <3>1, <3>2
    <2>11. ProgressAt(j)'
      <3>1. i > 1 => RoleImports \subseteq rows
        BY <1>1, <1>2 DEF JobAt, ProgressAt, Running
      <3>2. i = 1 => RoleImports \subseteq rows
        BY <1>4, SuperAdminHasAll DEF RoleOrder
      <3>3. job'[j].kind = "roles" /\ job'[j].next = i + 1 /\ job'[j].rows = rows
        BY <2>8
      <3>4. (job'[j].at = "loop" => i # 8) /\ (job'[j].at = "commit" => i = 8)
        BY <2>8, RoleNames
      <3> QED
        BY <1>2, <3>1, <3>2, <3>3, <3>4 DEF ProgressAt
    <2>12. UndisturbedAt(j)'
      <3> SUFFICES ASSUME job[j].alone
                   PROVE  /\ rows = permissions
                          /\ \A k \in 1 .. 8 : k < i + 1 =>
                               plan[RoleOrder[k]] = Planned(RoleOrder[k])
        BY <2>8, <2>9 DEF UndisturbedAt, Planned
      <3>1. /\ rows = permissions
            /\ \A k \in 1 .. 8 : k < i => job[j].plan[RoleOrder[k]] = Planned(RoleOrder[k])
        BY <1>1, <1>2 DEF JobAt, UndisturbedAt, Running
      <3>2. ASSUME NEW k \in 1 .. 8, k < i
            PROVE  plan[RoleOrder[k]] = Planned(RoleOrder[k])
        <4>1. RoleOrder[k] # ro /\ RoleOrder[k] \in AllRoles
          BY <3>2, <1>2, RoleNames DEF AllRoles
        <4> QED
          BY <3>1, <3>2, <4>1, <2>6
      <3>3. plan[ro] = Planned(ro)
        <4>1. links[ro] \subseteq permissions
          BY <1>2 DEF SyncIInv, GrantsInv
        <4>2. missing = Catalogue(RoleImports)[ro] \ links[ro]
          BY <3>1, <4>1
        <4> QED
          BY <2>6, <4>2 DEF Planned, Unwanted
      <3> QED
        BY <1>2, <3>1, <3>2, <3>3
    <2> QED
      BY <1>1, <2>7, <2>8, <2>10, <2>11, <2>12, QuietStep DEF Others, JobAt
  <1> QED
    BY <1>3, <1>4
(* A grant goes with its permission, in the same transaction. *)
LEMMA PermissionsCommitStep ==
  ASSUME SyncIInv, NEW j \in Jobs, PermissionsCommit(j)
  PROVE  SyncIInv'
  <1> DEFINE add == PermissionImports \ job[j].rows
             del == job[j].rows \ PermissionImports
  <1>1. CASE ~(add \cap permissions = {})
    BY <1>1, FailStep DEF PermissionsCommit, database
  <1>2. CASE add \cap permissions = {}
    <2>1. /\ permissions' = (permissions \ del) \cup add
          /\ links' = [ro \in DOMAIN links |-> links[ro] \ del]
          /\ End(j, "done") /\ roles' = roles /\ admin' = admin
      BY <1>2 DEF PermissionsCommit
    <2>2. GrantsInv
      BY DEF SyncIInv
    <2>3. /\ links' = [ro \in AllRoles |-> links[ro] \ del]
          /\ \A ro \in AllRoles : links[ro] \in SUBSET AllPermissions
      BY <2>1, <2>2 DEF GrantsInv
    <2>4. permissions' \subseteq AllPermissions
      BY <2>1, <2>2, ImportsAreCodes DEF GrantsInv
    <2>5. links' \in [AllRoles -> SUBSET AllPermissions]
      BY <2>3
    <2>6. \A ro \in AllRoles : links'[ro] \subseteq links[ro] /\ links'[ro] \subseteq permissions'
      BY <2>1, <2>2, <2>3 DEF GrantsInv
    <2>7. GrantsInv'
      <3> HIDE DEF add, del
      <3> QED
        BY <2>1, <2>2, <2>4, <2>5, <2>6 DEF GrantsInv, AllRoles
    <2>8. job[j].kind = "permissions"
      BY DEF PermissionsCommit
    <2> QED
      BY <2>1, <2>7, <2>8, CommitStep DEF SyncIInv, AdminInv
  <1> QED
    BY <1>1, <1>2

LEMMA RolesCommitStep ==
  ASSUME SyncIInv, NEW j \in Jobs, RolesCommit(j)
  PROVE  SyncIInv'
  <1> DEFINE plan == job[j].plan
  <1>1. CASE ~(RowsThere(plan) /\ RowsFree(plan))
    BY <1>1, FailStep DEF RolesCommit, database
  <1>2. CASE RowsThere(plan) /\ RowsFree(plan)
    <2>1. /\ roles' = roles \cup {ro \in DOMAIN plan : plan[ro].new}
          /\ links' = [ro \in DOMAIN links |-> (links[ro] \ plan[ro].del) \cup plan[ro].add]
          /\ End(j, "done") /\ permissions' = permissions /\ admin' = admin
      BY <1>2 DEF RolesCommit
    <2>2. GrantsInv /\ job[j] \in Job /\ PlanAt(j)
      BY DEF SyncIInv, JobAt
    <2>3. plan \in [AllRoles -> Plan]
      BY <2>2 DEF Job
    <2>4. \A ro \in AllRoles : plan[ro].add \subseteq permissions
      BY <1>2, <2>3 DEF RowsThere
    <2>5. \A ro \in AllRoles : links'[ro] = (links[ro] \ plan[ro].del) \cup plan[ro].add
      BY <2>1, <2>2 DEF GrantsInv
    <2>6. \A ro \in AllRoles : ro \in roles \/ plan[ro].new => ro \in roles'
      BY <2>1, <2>3
    <2>7. roles' \subseteq AllRoles /\ roles \subseteq roles'
      BY <2>1, <2>2, <2>3 DEF GrantsInv
    <2>8. \A ro \in AllRoles : /\ links[ro] \subseteq permissions
                              /\ permissions \subseteq AllPermissions
      BY <2>2 DEF GrantsInv
    <2>9. links' \in [AllRoles -> SUBSET AllPermissions]
      <3>1. DOMAIN links = AllRoles
        BY <2>2 DEF GrantsInv
      <3>2. \A ro \in AllRoles :
              (links[ro] \ plan[ro].del) \cup plan[ro].add \in SUBSET AllPermissions
        BY <2>4, <2>8
      <3> HIDE DEF plan
      <3> QED
        BY <2>1, <3>1, <3>2
    <2>10. \A ro \in AllRoles : links'[ro] \subseteq permissions'
      BY <2>1, <2>4, <2>5, <2>8
    <2>11. \A ro \in AllRoles : links'[ro] # {} => ro \in roles'
      <3> TAKE ro \in AllRoles
      <3>1. links'[ro] # {} => links[ro] # {} \/ plan[ro].add # {}
        BY <2>5
      <3> QED
        BY <3>1, <2>2, <2>6 DEF GrantsInv, PlanAt
    <2>12. \A ro \in SystemRoles : links'[ro] \subseteq Widest(ro)
      <3> TAKE ro \in SystemRoles
      <3>1. ro \in AllRoles
        BY DEF AllRoles
      <3>2. plan[ro].add \subseteq Widest(ro) /\ links[ro] \subseteq Widest(ro)
        BY <2>2, <3>1, CatalogueCodes DEF GrantsInv, PlanAt
      <3> QED
        BY <2>5, <3>1, <3>2
    <2>13. GrantsInv'
      <3>1. permissions' \subseteq AllPermissions
        BY <2>1, <2>2 DEF GrantsInv
      <3> QED
        BY <3>1, <2>7, <2>9, <2>10, <2>11, <2>12 DEF GrantsInv
    <2>14. job[j].kind # "bootstrap"
      BY DEF RolesCommit
    <2> QED
      BY <2>1, <2>7, <2>13, <2>14, CommitStep DEF SyncIInv, AdminInv
  <1> QED
    BY <1>1, <1>2

LEMMA BootstrapCommitStep ==
  ASSUME SyncIInv, NEW j \in Jobs, BootstrapCommit(j)
  PROVE  SyncIInv'
  <1> DEFINE grants == job[j].plan["SUPER_ADMIN"].new
             lets == FirstBootstrap(j) /\ (grants => admin # "granted")
  <1>1. CASE ~lets
    BY <1>1, FailStep DEF BootstrapCommit, database
  <1>2. CASE lets
    <2>1. /\ admin' = IF grants THEN "granted" ELSE IF admin = "none" THEN "member" ELSE admin
          /\ End(j, "done") /\ permissions' = permissions /\ roles' = roles /\ links' = links
      BY <1>2 DEF BootstrapCommit
    <2>2. GrantsInv'
      BY <2>1 DEF SyncIInv, GrantsInv
    <2>3. admin' \in {"none", "member", "granted"} /\ admin' # "none"
      BY <2>1 DEF SyncIInv, AdminInv
    <2> QED
      BY <1>2, <2>1, <2>2, <2>3, CommitStep DEF FirstBootstrap
  <1> QED
    BY <1>1, <1>2

LEMMA SyncInitInv == SyncInit => SyncIInv
  <1> SUFFICES ASSUME SyncInit PROVE SyncIInv
    OBVIOUS
  <1>1. GrantsInv
    <2>1. CASE permissions = {} /\ roles = TenantRoles
               /\ links = [ro \in SystemRoles \cup TenantRoles |-> {}]
      BY <2>1 DEF GrantsInv, AllRoles
    <2>2. CASE /\ permissions = AllPermissions /\ roles = SystemRoles \cup TenantRoles
               /\ links = [ro \in SystemRoles \cup TenantRoles |->
                             IF ro \in SystemRoles THEN Widest(ro) ELSE {}]
      BY <2>2, CatalogueCodes DEF GrantsInv, AllRoles
    <2> QED
      BY <2>1, <2>2 DEF SyncInit, Widest
  <1>2. job = [j \in Jobs |-> NoJob] /\ admin = "none"
    BY DEF SyncInit
  <1>3. job \in [Jobs -> Job]
    BY <1>2, NoJobShape
  <1>4. NoJob.kind = "none" /\ NoJob.at = "idle"
    BY DEF NoJob
  <1>5. \A j \in Jobs : JobAt(j) /\ ~Made(j)
    BY <1>2, <1>4, NothingPlanned DEF JobAt, PlanAt, ProgressAt, UndisturbedAt, Running, Made
  <1> QED
    BY <1>1, <1>2, <1>3, <1>5 DEF SyncIInv, AdminInv

LEMMA SyncStepInv == SyncIInv /\ [SyncNext]_syncVars => SyncIInv'
  <1> SUFFICES ASSUME SyncIInv, [SyncNext]_syncVars PROVE SyncIInv'
    OBVIOUS
  <1>1. CASE UNCHANGED syncVars
    BY <1>1 DEF syncVars, SyncIInv, GrantsInv, AdminInv, Made, JobAt, PlanAt, ProgressAt,
                UndisturbedAt, Running, Planned
  <1>2. ASSUME NEW j \in Jobs,
               \/ PermissionsRead(j) \/ PermissionsCommit(j)
               \/ RolesRead(j) \/ RoleStep(j) \/ RolesCommit(j)
               \/ \E ro \in TenantRoles, want \in SUBSET Picks : EditRole(j, ro, want)
               \/ BootstrapRead(j) \/ BootstrapCommit(j)
               \/ AbortJob(j)
        PROVE  SyncIInv'
    BY <1>2, PermissionsReadStep, PermissionsCommitStep, RolesReadStep, RoleStepStep,
       RolesCommitStep, EditRoleStep, BootstrapReadStep, BootstrapCommitStep, AbortStep
  <1> QED
    BY <1>1, <1>2 DEF SyncNext

(* The inductive invariant holds throughout every behaviour. *)
THEOREM SyncInvariant == SyncSpec => []SyncIInv
  BY SyncInitInv, SyncStepInv, PTL DEF SyncSpec

(* A second run of bootstrap finds the account of the first. *)
LEMMA AtMostOneMade ==
  ASSUME AdminInv
  PROVE  Cardinality({j \in Jobs : Made(j)}) <= 1
  <1> DEFINE S == {j \in Jobs : Made(j)}
  <1>1. CASE S = {}
    BY <1>1, FS_EmptySet
  <1>2. CASE S # {}
    <2>1. PICK x \in Jobs : Made(x)
      BY <1>2
    <2>2. S = {x}
      BY <2>1 DEF AdminInv
    <2>3. Cardinality({x}) = 1
      BY FS_Singleton
    <2> QED
      BY <2>2, <2>3
  <1> QED
    BY <1>1, <1>2

(* However the scripts and the edits of roles overlap (sync_permissions.py,*)
(* sync_roles.py, bootstrap.py), no role holds a permission without a row, *)
(* and one bootstrap at most creates the account.                          *)
THEOREM CatalogueTyped == SyncSpec => []CatalogueTypeOK
  <1>1. SyncIInv => CatalogueTypeOK
    <2> SUFFICES ASSUME SyncIInv PROVE CatalogueTypeOK
      OBVIOUS
    <2>1. Cardinality({j \in Jobs : Made(j)}) <= 1
      BY AtMostOneMade DEF SyncIInv
    <2>2. /\ permissions \subseteq AllPermissions
          /\ roles \subseteq SystemRoles \cup TenantRoles
          /\ links \in [SystemRoles \cup TenantRoles -> SUBSET AllPermissions]
          /\ \A ro \in roles : links[ro] \subseteq permissions
          /\ \A ro \in SystemRoles : links[ro] # {} => ro \in roles
          /\ admin \in {"none", "member", "granted"}
      BY DEF SyncIInv, GrantsInv, AllRoles, AdminInv
    <2>3. \A j \in Jobs : /\ job[j].kind \in Kind /\ job[j].at \in JobPoint
                          /\ job[j].rows \subseteq AllPermissions
                          /\ job[j].next \in 0 .. Len(RoleOrder) + 1
      BY RoleNames DEF SyncIInv, Job
    <2>4. {j \in Jobs : Made(j)} = {j \in Jobs : /\ job[j].kind = "bootstrap" /\ job[j].next = 0
                                                 /\ job[j].at = "done"}
      BY DEF Made
    <2> QED
      BY <2>1, <2>2, <2>3, <2>4 DEF CatalogueTypeOK
  <1> QED
    BY <1>1, SyncInvariant, PTL

LEMMA ReadersInv == SyncIInv => ReadersNeverWrite
  <1> SUFFICES ASSUME SyncIInv, NEW ro \in ReaderRoles, NEW x \in Opened(ro) PROVE ~x.writes
    BY DEF ReadersNeverWrite
  <1>1. ro \in SystemRoles
    BY RoleNames DEF ReaderRoles
  <1>2. x \in Routes /\ x.code \in Widest(ro)
    BY <1>1 DEF Opened, SyncIInv, GrantsInv
  <1>3. x.code[1] = "people" /\ x.code[3] \in Reading
    BY <1>2, ReadersRead DEF Widest
  <1> QED
    BY <1>2, <1>3, NoReaderRouteWrites

(* On a database that was migrated, or filled as the tests fill it, no     *)
(* order of script runs ever opens a writing route to TEACHER, STAFF,      *)
(* PARENT or STUDENT (ROLE_CATALOG of sync_roles.py, the routers).         *)
THEOREM ReadersOnlyRead == SyncSpec => []ReadersNeverWrite
  BY SyncInvariant, ReadersInv, PTL

LEMMA PlatformInv == SyncIInv => PlatformRoutesNotForTenants
  <1> SUFFICES ASSUME SyncIInv, NEW ro \in SystemRoles, NEW x \in Opened(ro), x \in PlatformRoutes
               PROVE  FALSE
    BY DEF PlatformRoutesNotForTenants, ScopedRoles
  <1>1. x.code \in RoleImports \cup StudentPermissions
    BY CatalogueCodes DEF Opened, SyncIInv, GrantsInv
  <1> QED
    BY <1>1, PlatformIsAudit, PlatformRoutesAreNoAudit

(* Nor does a system role of an organization or a school ever open the     *)
(* routes with data of all tenants: their permissions are in no import of  *)
(* sync_roles.py, so that SUPER_ADMIN does not get them either.            *)
THEOREM PlatformRoutesStayClosed == SyncSpec => []PlatformRoutesNotForTenants
  BY SyncInvariant, PlatformInv, PTL
(* What an undisturbed run of sync_roles commits *)
LEMMA RestoredStep ==
  ASSUME SyncIInv, NEW j \in Jobs, RolesCommit(j), job[j].kind = "roles", job[j].alone,
         job'[j].at = "done"
  PROVE  /\ SystemRoles \subseteq roles'
         /\ \A ro \in SystemRoles : links'[ro] = Catalogue(RoleImports)[ro]
  <1> DEFINE plan == job[j].plan
  <1>1. job[j].at = "commit" /\ job[j] \in Job /\ JobAt(j) /\ GrantsInv /\ job \in [Jobs -> Job]
    BY DEF RolesCommit, SyncIInv
  <1>2. /\ RowsThere(plan) /\ RowsFree(plan)
    <2>1. ASSUME End(j, "failed") PROVE FALSE
      BY <2>1, <1>1, EndEffect
    <2> QED
      BY <2>1 DEF RolesCommit
  <1>3. /\ roles' = roles \cup {ro \in DOMAIN plan : plan[ro].new}
        /\ links' = [ro \in DOMAIN links |-> (links[ro] \ plan[ro].del) \cup plan[ro].add]
    BY <1>2 DEF RolesCommit
  <1>4. /\ job[j].rows = permissions /\ job[j].next = 9
        /\ \A i \in 1 .. 8 : i < job[j].next => plan[RoleOrder[i]] = Planned(RoleOrder[i])
    BY <1>1 DEF JobAt, ProgressAt, UndisturbedAt, Running
  <1>5. \A ro \in SystemRoles : plan[ro] = Planned(ro)
    BY <1>4, RoleNames
  <1>6. DOMAIN plan = AllRoles /\ DOMAIN links = AllRoles /\ SystemRoles \subseteq AllRoles
    BY <1>1 DEF Job, GrantsInv, AllRoles
  <1>7. SystemRoles \subseteq roles'
    <2>1. \A ro \in SystemRoles : Planned(ro).new <=> ro \notin roles
      BY DEF Planned
    <2> HIDE DEF plan
    <2> QED
      BY <1>3, <1>5, <1>6, <2>1
  <1>8. ASSUME NEW ro \in SystemRoles PROVE links'[ro] = Catalogue(RoleImports)[ro]
    <2>1. links'[ro] = (links[ro] \ plan[ro].del) \cup plan[ro].add
      BY <1>3, <1>6
    <2>2. /\ plan[ro].del = links[ro] \ Catalogue(RoleImports)[ro]
          /\ plan[ro].add = Catalogue(RoleImports)[ro] \ links[ro]
      <3>1. plan[ro] = Planned(ro)
        BY <1>5
      <3>2. /\ Planned(ro).del = links[ro] \ Catalogue(RoleImports)[ro]
            /\ Planned(ro).add = Catalogue(RoleImports)[ro] \ links[ro]
        BY DEF Planned
      <3> HIDE DEF plan
      <3> QED
        BY <3>1, <3>2
    <2> QED
      BY <2>1, <2>2
  <1> QED
    BY <1>7, <1>8

(* A run of sync_roles.py beside which nobody commits leaves every system  *)
(* role with the permissions of the catalogue, whatever it held before.    *)
THEOREM SyncRestores == SyncSpec => CatalogueRestored
  <1>1. SyncIInv /\ [SyncNext]_syncVars =>
          [\A j \in Jobs :
             /\ job[j].kind = "roles" /\ job[j].alone
             /\ job[j].at = "commit" /\ job'[j].at = "done"
             => /\ SystemRoles \subseteq roles'
                /\ \A ro \in SystemRoles : links'[ro] = Catalogue(RoleImports)[ro]]_syncVars
    <2> SUFFICES ASSUME SyncIInv, SyncNext, NEW j \in Jobs, job[j].kind = "roles", job[j].alone,
                        job[j].at = "commit", job'[j].at = "done"
                 PROVE  /\ SystemRoles \subseteq roles'
                        /\ \A ro \in SystemRoles : links'[ro] = Catalogue(RoleImports)[ro]
      OBVIOUS
    <2>1. job \in [Jobs -> Job]
      BY DEF SyncIInv
    <2>2. PICK k \in Jobs :
               \/ PermissionsRead(k) \/ PermissionsCommit(k)
               \/ RolesRead(k) \/ RoleStep(k) \/ RolesCommit(k)
               \/ \E ro \in TenantRoles, want \in SUBSET Picks : EditRole(k, ro, want)
               \/ BootstrapRead(k) \/ BootstrapCommit(k)
               \/ AbortJob(k)
      BY DEF SyncNext
    <2>3. \A kind, at, rows, next, plan :
            Set(k, kind, at, rows, next, plan) /\ at # "done" => job'[j].at # "done"
      BY <2>1 DEF Set
    <2>4. \A at \in {"done", "failed"} : End(k, at) => k = j
      BY <2>1, EndEffect
    <2>5. CASE RolesCommit(k)
      <3>1. k = j
        BY <2>4, <2>5 DEF RolesCommit
      <3> QED
        BY <2>5, <3>1, RestoredStep
    <2>6. CASE PermissionsRead(k) \/ RolesRead(k) \/ BootstrapRead(k)
      BY <2>3, <2>6 DEF PermissionsRead, RolesRead, BootstrapRead
    <2>7. CASE \E ro \in TenantRoles, want \in SUBSET Picks : EditRole(k, ro, want)
      BY <2>3, <2>7 DEF EditRole
    <2>8. CASE PermissionsCommit(k) \/ BootstrapCommit(k)
      BY <2>4, <2>8 DEF PermissionsCommit, BootstrapCommit
    <2>9. CASE AbortJob(k)
      BY <2>1, <2>9, EndEffect DEF AbortJob
    <2>10. CASE RoleStep(k)
      BY <2>1, <2>3, <2>10, EndEffect DEF RoleStep
    <2> QED
      BY <2>2, <2>5, <2>6, <2>7, <2>8, <2>9, <2>10
  <1> QED
    BY <1>1, SyncInvariant, PTL DEF SyncSpec, CatalogueRestored

-----------------------------------------------------------------------------
(* From the database that the migrations leave *)

(* A run of sync_roles that has read only what sync_permissions imports    *)
(* fails at whichever role it has come to.                                 *)
LEMMA ForeignImportsFail ==
  ASSUME SyncIInv, NEW j \in Jobs, RoleStep(j), job[j].rows \subseteq PermissionImports
  PROVE  End(j, "failed")
  <1> DEFINE i == job[j].next
             ro == RoleOrder[i]
             missing == Catalogue(RoleImports)[ro] \ (links[ro] \cap job[j].rows)
  <1>1. /\ job[j].kind = "roles" /\ i \in 1 .. 8 /\ Running(j)
        /\ i > 1 => RoleImports \subseteq job[j].rows
    BY DEF RoleStep, SyncIInv, JobAt, ProgressAt, Running
  <1>2. i = 1
    BY <1>1, CatalogueNeedsMore
  <1>3. RoleImports \ (links[ro] \cap job[j].rows) = missing
    BY <1>2, SuperAdminHasAll DEF RoleOrder
  <1>4. ~(missing \subseteq job[j].rows)
    BY <1>3, CatalogueNeedsMore
  <1> QED
    BY <1>4 DEF RoleStep

LEMMA UnseededStep ==
  ASSUME SyncIInv, Unseeded, [SyncNext]_syncVars
  PROVE  Unseeded'
  <1>0. job \in [Jobs -> Job] /\ SystemRoles \subseteq AllRoles /\ "SUPER_ADMIN" \in SystemRoles
    BY RoleNames DEF SyncIInv, AllRoles
  <1> DEFINE Fine(j) == /\ job[j].kind = "roles" => /\ job[j].at \in {"loop", "failed"}
                                                     /\ job[j].rows \subseteq PermissionImports
                        /\ \A ro \in SystemRoles : ~job[j].plan[ro].new
  <1>1. \A j \in Jobs : Fine(j)
    BY DEF Unseeded
  <1>2. CASE UNCHANGED syncVars
    BY <1>2 DEF syncVars, Unseeded
  <1>3. ASSUME NEW j \in Jobs, PermissionsRead(j) \/ RolesRead(j) PROVE Unseeded'
    <2>1. /\ job' = [job EXCEPT ![j] = job'[j]] /\ UNCHANGED database
          /\ job'[j].rows = permissions /\ job'[j].plan = NoJob.plan
          /\ job'[j].kind = "roles" => job'[j].at = "loop"
      BY <1>0, <1>3 DEF PermissionsRead, RolesRead, Set, database
    <2> QED
      BY <2>1, <1>0, <1>1, NothingPlanned DEF Unseeded, database
  <1>4. ASSUME NEW j \in Jobs, BootstrapRead(j) PROVE Unseeded'
    <2>1. ~("SUPER_ADMIN" \in roles /\ admin # "granted")
      BY <1>0 DEF Unseeded
    <2>2. /\ job' = [job EXCEPT ![j] = job'[j]] /\ UNCHANGED database
          /\ job'[j].kind = "bootstrap"
          /\ job'[j].plan = [NoJob.plan EXCEPT !["SUPER_ADMIN"] =
               [add |-> {}, del |-> {}, new |-> "SUPER_ADMIN" \in roles /\ admin # "granted"]]
      BY <1>0, <1>4 DEF BootstrapRead, Set, database
    <2>3. \A ro \in SystemRoles : ~job'[j].plan[ro].new
      <3>1. \A ro \in SystemRoles \ {"SUPER_ADMIN"} : job'[j].plan[ro] = NoJob.plan[ro]
        BY <2>2, <1>0, NoJobShape
      <3>2. job'[j].plan["SUPER_ADMIN"].new = ("SUPER_ADMIN" \in roles /\ admin # "granted")
        BY <2>2, <1>0, NoJobShape
      <3> QED
        BY <2>1, <3>1, <3>2, <1>0, NothingPlanned
    <2>4. \A k \in Jobs \ {j} : job'[k] = job[k]
      BY <2>2, <1>0
    <2>5. \A k \in Jobs : Fine(k)'
      BY <2>2, <2>3, <2>4, <1>1
    <2> QED
      BY <2>2, <2>5 DEF Unseeded, database
  <1>5. ASSUME NEW j \in Jobs, NEW ro \in TenantRoles, NEW want \in SUBSET Picks,
               EditRole(j, ro, want)
        PROVE  Unseeded'
    <2>1. /\ job' = [job EXCEPT ![j] = job'[j]] /\ UNCHANGED database /\ job'[j].kind = "edit"
          /\ job'[j].plan = [NoJob.plan EXCEPT ![ro] =
               [add |-> want \ links[ro], del |-> links[ro] \ want, new |-> FALSE]]
      BY <1>0, <1>5 DEF EditRole, Set, database
    <2>2. \A r \in SystemRoles : ~job'[j].plan[r].new
      <3>1. ro \in AllRoles /\ ro \notin SystemRoles
        BY TenantRolesAreNoSystemRoles DEF AllRoles
      <3>2. \A r \in SystemRoles : job'[j].plan[r] = NoJob.plan[r]
        BY <2>1, <3>1, NoJobShape
      <3> QED
        BY <3>2, <1>0, NothingPlanned
    <2> QED
      BY <2>1, <2>2, <1>0, <1>1 DEF Unseeded, database
  <1>6. ASSUME NEW j \in Jobs, NEW at \in {"done", "failed"}, End(j, at),
               at = "failed" \/ job[j].kind # "roles"
        PROVE  \A k \in Jobs : Fine(k)'
    <2>1. /\ job'[j].rows = {} /\ job'[j].plan = NoJob.plan
          /\ job'[j].kind = job[j].kind /\ job'[j].at = at
          /\ \A k \in Jobs \ {j} : /\ job'[k].kind = job[k].kind /\ job'[k].rows = job[k].rows
                                   /\ job'[k].plan = job[k].plan /\ job'[k].at = job[k].at
      BY <1>0, <1>6, EndEffect
    <2>2. Fine(j)'
      BY <2>1, <1>0, <1>6, NothingPlanned
    <2>3. \A k \in Jobs \ {j} : Fine(k)'
      BY <2>1, <1>1
    <2> QED
      BY <2>2, <2>3
  <1>7. ASSUME NEW j \in Jobs, PermissionsCommit(j) PROVE Unseeded'
    <2>1. permissions' \subseteq PermissionImports
      BY <1>7 DEF PermissionsCommit, Unseeded
    <2>2. roles' = roles /\ admin' = admin /\ \A k \in Jobs : Fine(k)'
      BY <1>6, <1>7 DEF PermissionsCommit
    <2> QED
      BY <2>1, <2>2 DEF Unseeded
  <1>8. ASSUME NEW j \in Jobs, RolesCommit(j) PROVE Unseeded'
    <2>0. job[j].kind # "roles"
      BY <1>1, <1>8 DEF RolesCommit
    <2>1. /\ permissions' = permissions /\ admin' = admin /\ \A k \in Jobs : Fine(k)'
          /\ roles' \subseteq roles \cup {ro \in DOMAIN job[j].plan : job[j].plan[ro].new}
      BY <2>0, <1>6, <1>8 DEF RolesCommit
    <2>2. roles' \cap SystemRoles = {}
      BY <2>1, <1>1 DEF Unseeded
    <2> QED
      BY <2>1, <2>2 DEF Unseeded
  <1>9. ASSUME NEW j \in Jobs, BootstrapCommit(j) PROVE Unseeded'
    <2>1. ~job[j].plan["SUPER_ADMIN"].new
      BY <1>0, <1>1
    <2>2. admin' # "granted"
      BY <2>1, <1>9 DEF BootstrapCommit, Unseeded
    <2>3. permissions' = permissions /\ roles' = roles /\ \A k \in Jobs : Fine(k)'
      BY <1>6, <1>9 DEF BootstrapCommit
    <2> QED
      BY <2>2, <2>3 DEF Unseeded
  <1>10. ASSUME NEW j \in Jobs, AbortJob(j) PROVE Unseeded'
    BY <1>6, <1>10 DEF AbortJob, Unseeded
  <1>11. ASSUME NEW j \in Jobs, RoleStep(j) PROVE Unseeded'
    <2>1. job[j].kind = "roles" /\ job[j].rows \subseteq PermissionImports
      BY <1>1, <1>11 DEF RoleStep, SyncIInv, JobAt, ProgressAt
    <2>2. End(j, "failed")
      BY <2>1, <1>11, ForeignImportsFail
    <2> QED
      BY <2>2, <1>6, <1>11 DEF Unseeded, RoleStep
  <1> QED
    BY <1>2, <1>3, <1>4, <1>5, <1>7, <1>8, <1>9, <1>10, <1>11 DEF SyncNext

LEMMA UnseededInit == SyncInit /\ permissions = {} => Unseeded
  <1> SUFFICES ASSUME SyncInit, permissions = {} PROVE Unseeded
    OBVIOUS
  <1>1. AllPermissions # {}
    BY CatalogueNeedsMore, ImportsAreCodes
  <1>2. roles = TenantRoles /\ admin = "none" /\ job = [j \in Jobs |-> NoJob]
    BY <1>1 DEF SyncInit
  <1>3. NoJob.kind = "none" /\ \A ro \in SystemRoles : ~NoJob.plan[ro].new
    BY NothingPlanned DEF NoJob, AllRoles
  <1> QED
    BY <1>2, <1>3, TenantRolesAreNoSystemRoles DEF Unseeded

(* No system role has a row, no run of sync_roles gets further than its    *)
(* loop, and bootstrap has not granted SUPER_ADMIN.                        *)
NothingSeeded ==
  /\ roles \cap SystemRoles = {} /\ admin # "granted"
  /\ \A j \in Jobs : job[j].kind = "roles" => job[j].at \in {"loop", "failed"}

(* From a database as the migrations leave it the scripts never get any    *)
(* further, in whatever order and however often they are run: the imports  *)
(* of sync_permissions.py:22-30 lack what sync_roles.py:199 looks up.      *)
THEOREM MigratedIsNeverSeeded == SyncSpec /\ permissions = {} => []NothingSeeded
  <1>1. Unseeded => NothingSeeded
    BY DEF NothingSeeded, Unseeded
  <1> QED
    BY <1>1, UnseededInit, UnseededStep, SyncInvariant, PTL DEF SyncSpec
=============================================================================
