------------------------------ MODULE Tenancy -------------------------------
(***************************************************************************)
(* Who may do what where: organizations, schools, users, memberships and   *)
(* roles of app/modules/iam, the principal that every request resolves     *)
(* from them (iam/principal.py, core/context.py, core/authz.py) and the    *)
(* row-level security it sets (db/rls.py).                                 *)
(*                                                                         *)
(* A request is one READ COMMITTED transaction.  It first resolves its     *)
(* principal with several SELECTs, then checks the route's permission,     *)
(* then runs its service: a step that reads and checks, and a step that    *)
(* writes and commits.  The tables change between any two of these steps.  *)
(***************************************************************************)
EXTENDS Naturals, FiniteSets

CONSTANTS Reqs,         \* requests; a membership is named by the request that made it
          Users, Admins,              \* accounts; those with is_platform_admin
          Orgs, Schools, SchoolOrg,   \* tenants, a school's organization
          Roles, RoleOrg,             \* roles, a role's organization; None: system
          PlatformRoles,              \* system roles of scope PLATFORM
          Perms, Needs,               \* permissions, what each operation asks for
          Seeds, Seed, SeedPerms,     \* memberships and role permissions at the start
          Unused,       \* names of accounts and tenants that have no row at the start
          None

Tenants == Orgs \cup Schools
Members == Seeds \cup Reqs
Ops == {"tenant", "user", "member", "grant", "role"}

ASSUME AdminsAreUsers == Admins \subseteq Users
ASSUME SchoolsHaveOrgs == SchoolOrg \in [Schools -> Orgs] /\ Orgs \cap Schools = {}
ASSUME RolesHaveOrgs == RoleOrg \in [Roles -> Orgs \cup {None}]
ASSUME PlatformRolesAreSystem == PlatformRoles \subseteq {ro \in Roles : RoleOrg[ro] = None}
ASSUME PermsNeeded == Needs \in [Ops -> Perms]
ASSUME NoneIsNoName == None \notin Users \cup Tenants \cup Roles \cup Members
ASSUME SeedsAreNoRequests == Seeds \cap Reqs = {}
ASSUME RequestsAreNoUsers == Users \cap Reqs = {}
ASSUME SeedsFit ==
  /\ Seed \in [Seeds -> [user: Users, org: Orgs, school: Schools \cup {None}, role: Roles]]
  /\ SeedPerms \in [Roles -> SUBSET Perms]
  /\ Unused \cap (Admins \cup UNION {{Seed[m].user, Seed[m].org, Seed[m].school} : m \in Seeds}) = {}
  /\ \A m \in Seeds : /\ Seed[m].school # None => SchoolOrg[Seed[m].school] = Seed[m].org
                      /\ RoleOrg[Seed[m].role] \in {None, Seed[m].org}
                      /\ \A n \in Seeds \ {m} : \/ Seed[m].user # Seed[n].user
                                                \/ Seed[m].org # Seed[n].org
                                                \/ Seed[m].school # Seed[n].school

VARIABLES
  tenant,    \* organizations and schools rows; the name stands for the code
  user,      \* users rows; the name stands for the e-mail address
  mem,       \* memberships rows
  link,      \* membership_roles rows, by membership and role
  role,      \* roles rows with their role_permissions; the name stands for the code
  pc,        \* where each request is
  who,       \* the account, the school asked for and what resolution has read
  prin,      \* its principal
  loc,       \* the row its service loaded and the row it is to become
  raced,     \* a table changed while the request resolved its principal
  out        \* how it ended

tables == <<tenant, user, mem, link, role>>
vars == <<tenant, user, mem, link, role, pc, who, prin, loc, raced, out>>

-----------------------------------------------------------------------------
TenantStatus == {"LIVE", "SUSPENDED"}    \* SETUP, TRIAL or ACTIVE; SUSPENDED or CLOSED
UserStatus == {"ACTIVE", "OFF"}          \* OFF: INVITED, SUSPENDED or DISABLED
MembershipStatus == {"ACTIVE", "OFF"}    \* OFF: INACTIVE, ENDED or out of its dates

Tenant == [status: TenantStatus \cup {"DELETED", "NONE"}, version: Nat]
User == [status: UserStatus \cup {"DELETED", "NONE"}, version: Nat]
Membership == [user: Users \cup {None}, org: Orgs \cup {None}, school: Schools \cup {None},
               status: MembershipStatus \cup {"NONE"}, default: BOOLEAN, version: Nat]
Link == [by: Members, live: BOOLEAN]   \* who inserted it, not expired
Role == [status: {"LIVE", "ARCHIVED", "NONE"}, perms: SUBSET Perms,
         by: Users \cup {None}, version: Nat]

Principal == [org: Orgs \cup {None}, school: Schools \cup {None},
              perms: SUBSET Perms, admin: BOOLEAN]

Point == {"idle", "grants", "schools", "guard", "service", "member_roles", "commit", "done"}
Outcome == {"none", "written", "same", "refused", "error", "aborted"}

NoTenant == [status |-> "NONE", version |-> 0]
NoUser == NoTenant
NoMember == [user |-> None, org |-> None, school |-> None, status |-> "NONE",
             default |-> FALSE, version |-> 0]
NoLink == [by |-> None, live |-> FALSE]
NobodyYet == [user |-> None, asked |-> None, ms |-> {}, got |-> {}]
NoPrincipal == [org |-> None, school |-> None, perms |-> {}, admin |-> FALSE]
NoLocal == [op |-> "none", id |-> None, row |-> 0, new |-> 0, role |-> None]

Init ==
  /\ tenant = [t \in Tenants |-> IF t \in Unused THEN NoTenant
                                             ELSE [status |-> "LIVE", version |-> 1]]
  /\ user = [u \in Users |-> IF u \in Unused THEN NoUser
                                         ELSE [status |-> "ACTIVE", version |-> 1]]
  /\ mem = [m \in Members |->
              IF m \in Seeds
                THEN [user |-> Seed[m].user, org |-> Seed[m].org, school |-> Seed[m].school,
                      status |-> "ACTIVE", default |-> FALSE, version |-> 1]
                ELSE NoMember]
  /\ link = [l \in Members \X Roles |->
               IF l[1] \in Seeds /\ Seed[l[1]].role = l[2] THEN [by |-> l[1], live |-> TRUE]
                                                           ELSE NoLink]
  /\ role = [ro \in Roles |-> [status |-> "LIVE", perms |-> SeedPerms[ro],
                               by |-> None, version |-> 1]]
  /\ pc = [r \in Reqs |-> "idle"]
  /\ who = [r \in Reqs |-> NobodyYet]
  /\ prin = [r \in Reqs |-> NoPrincipal]
  /\ loc = [r \in Reqs |-> NoLocal]
  /\ raced = [r \in Reqs |-> FALSE]
  /\ out = [r \in Reqs |-> "none"]

-----------------------------------------------------------------------------
(* The rules of the resolution, over the tables as they are. *)

Active(m) == mem[m].status = "ACTIVE"
Accessed(ms) == {mem[m].school : m \in ms} \ {None}
OrgLevel(ms) == \E m \in ms : mem[m].school = None

(* The accessible schools: those of the memberships, and with one for a    *)
(* whole organization every live school of that organization.              *)
Accessible(ms, org) ==
  Accessed(ms) \cup
    IF OrgLevel(ms) THEN {s \in Schools : SchoolOrg[s] = org /\ tenant[s].status = "LIVE"} ELSE {}

(* The schools that may become the active one: the one asked for, else a   *)
(* default membership's, else the only one there is.                       *)
ActiveSchool(ms, acc, asked) ==
  LET defaults == {mem[m].school : m \in {n \in ms : mem[n].default}} \ {None}
  IN IF asked # None THEN {asked} \cap acc
     ELSE IF defaults # {} THEN defaults
     ELSE IF Cardinality(acc) = 1 THEN acc
     ELSE {None}

(* What role ro gives through membership m: nothing once it is archived or *)
(* the grant has expired.                                                  *)
Gives(m, ro) ==
  IF link[<<m, ro>>].live /\ role[ro].status = "LIVE" THEN role[ro].perms ELSE {}

(* The principals account u may get when it asks for school s, by the      *)
(* rules alone: an active account, one of the organizations it has an      *)
(* active membership in, permissions of the memberships that apply.        *)
Principals(u, s) ==
  LET ms == {m \in Members : mem[m].user = u /\ Active(m)}
      Of(org, sch) ==
        [org |-> org, school |-> sch, admin |-> FALSE,
         perms |-> {p \in Perms : \E m \in ms, ro \in Roles : /\ mem[m].school \in {None, sch}
                                                             /\ p \in Gives(m, ro)}]
  IN IF ms = {} THEN {NoPrincipal}
     ELSE UNION {{Of(org, sch) : sch \in ActiveSchool(ms, Accessible(ms, org), s)} :
                   org \in {mem[m].org : m \in ms}}

-----------------------------------------------------------------------------
Goto(r, p) == pc' = [pc EXCEPT ![r] = p] /\ UNCHANGED out

(* The end of a request: what it held is gone with it, except the record   *)
(* of what it has written.                                                 *)
Finish(r, o) ==
  /\ pc' = [pc EXCEPT ![r] = "done"]
  /\ out' = [out EXCEPT ![r] = o]
  /\ who' = [who EXCEPT ![r] = NobodyYet]
  /\ prin' = [prin EXCEPT ![r] = NoPrincipal]
  /\ loc' = IF o = "written" THEN loc ELSE [loc EXCEPT ![r] = NoLocal]

(* A committed change is a race for whoever is resolving. *)
Disturb(r) ==
  raced' = [q \in Reqs |-> raced[q] \/ (q # r /\ pc[q] \in {"grants", "schools"})]

StaffPrincipal(s) ==
  [org |-> IF s = None THEN None ELSE SchoolOrg[s], school |-> s, perms |-> {}, admin |-> TRUE]

(* get_context, first part: the account must be live and active.           *)
Start(r, u, s) ==
  /\ pc[r] = "idle"
  /\ user[u].status = "ACTIVE"
  /\ IF u \in Admins
       THEN /\ s # None => tenant[s].status \in TenantStatus
            /\ prin' = [prin EXCEPT ![r] = StaffPrincipal(s)]
            /\ who' = [who EXCEPT ![r] = [user |-> u, asked |-> s, ms |-> {}, got |-> {}]]
            /\ Goto(r, "guard")
       ELSE LET ms == {m \in Members : mem[m].user = u /\ Active(m)}
            IN /\ who' = [who EXCEPT ![r] = [user |-> u, asked |-> s, ms |-> ms, got |-> {}]]
               /\ Goto(r, IF ms = {} THEN "guard" ELSE "grants")
               /\ UNCHANGED prin
  /\ UNCHANGED <<tables, loc, raced>>

(* The roles of these memberships and their permissions are loaded. *)
LoadGrants(r) ==
  /\ pc[r] = "grants"
  /\ who' = [who EXCEPT ![r] =
       [user |-> who[r].user, asked |-> who[r].asked, ms |-> who[r].ms,
        got |-> {g \in who[r].ms \X Perms : \E ro \in Roles : g[2] \in Gives(g[1], ro)}]]
  /\ Goto(r, "schools")
  /\ UNCHANGED <<tables, prin, loc, raced>>

(* Faulty variant: the grants of all memberships, whatever the active school *)
ApplicableAll(r, sch) == who[r].ms

(* Memberships whose grants apply in the active school *)
Applicable(r, sch) == {m \in who[r].ms : mem[m].school \in {None, sch}}

(* The schools are read, one is chosen and the grants are collected.  The  *)
(* organization is that of the first membership, in no particular order.   *)
Resolved(r) ==
  {[org |-> org, school |-> sch, admin |-> FALSE,
    perms |-> {p \in Perms : \E m \in Applicable(r, sch) : <<m, p>> \in who[r].got}] :
     org \in {mem[m].org : m \in who[r].ms}, sch \in Schools \cup {None}}

SelectSchool(r) ==
  /\ pc[r] = "schools"
  /\ \E p \in Resolved(r) :
       /\ p.school \in ActiveSchool(who[r].ms, Accessible(who[r].ms, p.org), who[r].asked)
       /\ prin' = [prin EXCEPT ![r] = p]
  /\ raced' = [raced EXCEPT ![r] = FALSE]
  /\ Goto(r, "guard")
  /\ UNCHANGED <<tables, who, loc>>

(* require: the permission, or platform staff. *)
Permitted(r, op) == prin[r].admin \/ Needs[op] \in prin[r].perms

(* Faulty variant: no policy on the table *)
VisibleAll(r, org) == TRUE

(* Row-level security: the organization's rows, or all when none is set. *)
Visible(r, org) == prin[r].org \in {None, org}

(* What get_owned of the services finds.  Only schools are looked up by    *)
(* organization; for an organization itself row-level security decides.    *)
OwnedTenant(r, t) ==
  /\ tenant[t].status \in TenantStatus
  /\ IF t \in Orgs THEN Visible(r, t) ELSE prin[r].org = SchoolOrg[t]
OwnedMember(r, m) == mem[m].status # "NONE" /\ prin[r].org = mem[m].org
OwnedUser(r, u) ==
  /\ user[u].status \notin {"DELETED", "NONE"}
  /\ ~prin[r].admin /\ prin[r].org # None =>
       \E m \in Members : mem[m].user = u /\ mem[m].org = prin[r].org
OrgRole(org, ro) == role[ro].status = "LIVE" /\ RoleOrg[ro] \in {None, org}
OwnedRole(r, ro) ==
  IF prin[r].org = None THEN role[ro].status = "LIVE" ELSE OrgRole(prin[r].org, ro)

(* A check fails on the way: inactive account, inaccessible school, missing *)
(* permission or row, another version than the client's, a duplicate seen.  *)
Refused(r) ==
  /\ pc[r] \notin {"commit", "done"}
  /\ Finish(r, "refused")
  /\ raced' = [raced EXCEPT ![r] = FALSE]
  /\ UNCHANGED tables

(* A lost connection or a lock deadlock: the transaction is rolled back. *)
Abort(r) ==
  /\ pc[r] \notin {"idle", "done"}
  /\ Finish(r, "aborted")
  /\ raced' = [raced EXCEPT ![r] = FALSE]
  /\ UNCHANGED tables

Serve(r, op, id, row, new, ro) ==
  /\ pc[r] = "guard"
  /\ Permitted(r, op)
  /\ loc' = [loc EXCEPT ![r] = [op |-> op, id |-> id, row |-> row, new |-> new, role |-> ro]]
  /\ UNCHANGED <<tables, who, prin, raced>>

(* create, update and delete of a school.  A code may be taken again by a  *)
(* create once its row is deleted, as far as the handler looks; the unique *)
(* index does not agree.                                                   *)
ServeSchool(r, t, status) ==
  /\ IF tenant[t].status \in TenantStatus
       THEN OwnedTenant(r, t)
       ELSE status = "LIVE" /\ prin[r].org = SchoolOrg[t]
  /\ Serve(r, "tenant", t, tenant[t],
           [status |-> status, version |-> tenant[t].version + 1], None)
  /\ Goto(r, "commit")

(* The same for an organization, which nothing but row-level security      *)
(* ties to the request; its status is not among what update may set.       *)
ServeOrganization(r, t, status) ==
  /\ IF tenant[t].status \in TenantStatus
       THEN OwnedTenant(r, t) /\ status \in {tenant[t].status, "DELETED"}
       ELSE status = "LIVE"
  /\ Serve(r, "tenant", t, tenant[t],
           [status |-> status, version |-> tenant[t].version + 1], None)
  /\ Goto(r, "commit")

(* update and delete of an account; its creation is with the memberships. *)
ServeUser(r, u, status) ==
  /\ OwnedUser(r, u)
  /\ Serve(r, "user", u, user[u], [status |-> status, version |-> user[u].version + 1], None)
  /\ Goto(r, "commit")

(* toggle_platform_admin: the CHECK of audit_logs.action knows neither of  *)
(* the two actions it writes, so the transaction is refused.               *)
ServeToggle(r, u) ==
  /\ pc[r] = "guard" /\ Permitted(r, "user")
  /\ OwnedUser(r, u) /\ u # who[r].user
  /\ Finish(r, "error")
  /\ UNCHANGED <<tables, raced>>

(* What is created for an organization needs one to be chosen. *)
HasOrganization(r) == prin[r].org # None

NewMember(u, org, s) ==
  [user |-> u, org |-> org, school |-> s, status |-> "ACTIVE", default |-> FALSE, version |-> 1]

(* users create: an account and its first membership.  An address is one   *)
(* row here, so that of a deleted account is not used again.               *)
ServeUserCreate(r, u, s) ==
  /\ HasOrganization(r)
  /\ user[u].status = "NONE"
  /\ s # None => OwnedTenant(r, s)
  /\ Serve(r, "user", r, NoMember,
           [user |-> u, org |-> prin[r].org, school |-> s, status |-> "ACTIVE",
            default |-> TRUE, version |-> 1], None)
  /\ Goto(r, "commit")

(* memberships create: an account, a school of the organization, and no    *)
(* membership of the two yet, ended ones included.                         *)
ServeMemberCreate(r, u, s, ro) ==
  /\ HasOrganization(r)
  /\ user[u].status \notin {"NONE", "DELETED"}
  /\ s # None => OwnedTenant(r, s)
  /\ ~\E m \in Members : /\ mem[m].user = u /\ mem[m].org = prin[r].org
                         /\ mem[m].school = s
  /\ Serve(r, "member", r, NoMember, NewMember(u, prin[r].org, s), ro)
  /\ Goto(r, IF ro = None THEN "commit" ELSE "member_roles")

(* Faulty variant: any role by its id *)
GrantableAny(r, ro) == role[ro].status = "LIVE"

(* A role that is not archived, of the organization or of the system *)
Grantable(r, ro) == OrgRole(prin[r].org, ro)

MemberRoles(r) ==
  /\ pc[r] = "member_roles"
  /\ Grantable(r, loc[r].role)
  /\ Goto(r, "commit")
  /\ UNCHANGED <<tables, who, prin, loc, raced>>

(* update and end of a membership; dates out of range count as OFF. *)
ServeMember(r, m, status, default) ==
  /\ OwnedMember(r, m)
  /\ Serve(r, "member", m, mem[m],
           [user |-> mem[m].user, org |-> mem[m].org, school |-> mem[m].school,
            status |-> status, default |-> default, version |-> mem[m].version + 1], None)
  /\ Goto(r, "commit")

(* grant_role, unlike create, gives no platform role; it finds no grant     *)
(* yet, expired ones included.  revoke_role finds one.  Neither asks for a  *)
(* version.                                                                *)
ServeGrant(r, m, ro) ==
  /\ OwnedMember(r, m)
  /\ Grantable(r, ro) /\ ro \notin PlatformRoles /\ link[<<m, ro>>] = NoLink
  /\ Serve(r, "grant", m, NoLink, [by |-> r, live |-> TRUE], ro)
  /\ Goto(r, "commit")
ServeRevoke(r, m, ro) ==
  /\ OwnedMember(r, m)
  /\ link[<<m, ro>>] # NoLink
  /\ Serve(r, "grant", m, link[<<m, ro>>], NoLink, ro)
  /\ Goto(r, "commit")

(* Faulty variant: an update that leaves updated_by_id alone *)
RowWrittenUnsigned(r, ro, status, cols) == cols \/ status # role[ro].status

(* The row of a role is written when updated_by_id or another column of it *)
(* changes (name, description, data scope: "cols").                        *)
RowWritten(r, ro, status, cols) ==
  cols \/ status # role[ro].status \/ role[ro].by # who[r].user

(* create, update and delete (archive) of a role.  System roles are not    *)
(* editable.  Its permissions are rows of their own.                       *)
ServeRole(r, ro, status, perms, cols) ==
  /\ RoleOrg[ro] # None
  /\ IF role[ro].status = "LIVE"
       THEN OwnedRole(r, ro) /\ (status = "LIVE" \/ perms = role[ro].perms)
       ELSE status = "LIVE" /\ prin[r].org = RoleOrg[ro]
  /\ Serve(r, "role", ro, role[ro],
           [status |-> status, perms |-> perms, by |-> who[r].user,
            version |-> IF RowWritten(r, ro, status, cols) THEN role[ro].version + 1
                                                           ELSE role[ro].version], None)
  /\ Goto(r, "commit")

-----------------------------------------------------------------------------
(* The commits. *)

(* UPDATE ... WHERE version = the loaded one finds its row. *)
Fresh(r, row) == row.version = loc[r].row.version

(* Faulty variant: NULLs are distinct in the index of memberships. *)
MemberFreeDistinct(new) ==
  new.school = None \/ ~\E m \in Members : /\ mem[m].user = new.user /\ mem[m].org = new.org
                                           /\ mem[m].school = new.school

(* uq_memberships_user_id_organization_id_school_id, NULLS NOT DISTINCT *)
MemberFree(new) ==
  ~\E m \in Members : /\ mem[m].user = new.user /\ mem[m].org = new.org
                      /\ mem[m].school = new.school

(* The code is unique, deleted rows included.  Row-level security refuses  *)
(* an organization that is created under another one's.                    *)
CommitTenant(r) ==
  LET t == loc[r].id IN
  /\ pc[r] = "commit" /\ loc[r].op = "tenant"
  /\ IF /\ Fresh(r, tenant[t]) /\ loc[r].row.status # "DELETED"
        /\ t \in Orgs => Visible(r, t)
       THEN tenant' = [tenant EXCEPT ![t] = loc[r].new] /\ Finish(r, "written") /\ Disturb(r)
       ELSE UNCHANGED <<tenant, raced>> /\ Finish(r, "error")
  /\ UNCHANGED <<user, mem, link, role>>

CommitUser(r) ==
  LET u == loc[r].id IN
  /\ pc[r] = "commit" /\ loc[r].op = "user" /\ u \in Users
  /\ IF Fresh(r, user[u])
       THEN user' = [user EXCEPT ![u] = loc[r].new] /\ Finish(r, "written") /\ Disturb(r)
       ELSE UNCHANGED <<user, raced>> /\ Finish(r, "error")
  /\ UNCHANGED <<tenant, mem, link, role>>

(* The address is unique among accounts that are not deleted. *)
CommitUserCreate(r) ==
  LET u == loc[r].new.user IN
  /\ pc[r] = "commit" /\ loc[r].op = "user" /\ loc[r].id = r
  /\ IF user[u].status = "NONE"
       THEN /\ \E s \in {"ACTIVE", "OFF"} :
                 user' = [user EXCEPT ![u] = [status |-> s, version |-> 1]]
            /\ mem' = [mem EXCEPT ![r] = loc[r].new]
            /\ Finish(r, "written") /\ Disturb(r)
       ELSE UNCHANGED <<user, mem, raced>> /\ Finish(r, "error")
  /\ UNCHANGED <<tenant, link, role>>

CommitMemberCreate(r) ==
  /\ pc[r] = "commit" /\ loc[r].op = "member" /\ loc[r].id = r
  /\ IF MemberFree(loc[r].new)
       THEN /\ mem' = [mem EXCEPT ![r] = loc[r].new]
            /\ link' = IF loc[r].role = None THEN link
                         ELSE [link EXCEPT ![<<r, loc[r].role>>] = [by |-> r, live |-> TRUE]]
            /\ Finish(r, "written") /\ Disturb(r)
       ELSE UNCHANGED <<mem, link, raced>> /\ Finish(r, "error")
  /\ UNCHANGED <<tenant, user, role>>

CommitMember(r) ==
  LET m == loc[r].id IN
  /\ pc[r] = "commit" /\ loc[r].op = "member" /\ m # r
  /\ IF Fresh(r, mem[m])
       THEN mem' = [mem EXCEPT ![m] = loc[r].new] /\ Finish(r, "written") /\ Disturb(r)
       ELSE UNCHANGED <<mem, raced>> /\ Finish(r, "error")
  /\ UNCHANGED <<tenant, user, link, role>>

(* uq_membership_roles_membership_id_role_id refuses a second grant; a     *)
(* revocation of a grant that is gone deletes nothing and succeeds.        *)
CommitGrant(r) ==
  LET l == <<loc[r].id, loc[r].role>> IN
  /\ pc[r] = "commit" /\ loc[r].op = "grant"
  /\ IF loc[r].new = NoLink
       THEN /\ link' = IF link[l].by = loc[r].row.by THEN [link EXCEPT ![l] = NoLink] ELSE link
            /\ Finish(r, "written") /\ Disturb(r)
       ELSE IF link[l] = NoLink
         THEN link' = [link EXCEPT ![l] = loc[r].new] /\ Finish(r, "written") /\ Disturb(r)
         ELSE UNCHANGED <<link, raced>> /\ Finish(r, "error")
  /\ UNCHANGED <<tenant, user, mem, role>>

(* The permissions that leave and those that join are deleted and inserted *)
(* by row: what another request changed in between stays, and a row both   *)
(* insert is refused by uq_role_permissions_role_id_permission_id.         *)
CommitRole(r) ==
  LET ro == loc[r].id
      old == loc[r].row.perms
      new == loc[r].new.perms
      bumped == loc[r].new.version # loc[r].row.version
  IN
  /\ pc[r] = "commit" /\ loc[r].op = "role"
  /\ IF /\ bumped => Fresh(r, role[ro])
        /\ loc[r].row.status # "ARCHIVED"
        /\ (new \ old) \cap role[ro].perms = {}
       THEN /\ role' = [role EXCEPT ![ro] =
                 [status |-> IF bumped THEN loc[r].new.status ELSE role[ro].status,
                  perms |-> (role[ro].perms \ (old \ new)) \cup (new \ old),
                  by |-> IF bumped THEN loc[r].new.by ELSE role[ro].by,
                  version |-> IF bumped THEN loc[r].new.version ELSE role[ro].version]]
            /\ Finish(r, IF bumped \/ new # old THEN "written" ELSE "same") /\ Disturb(r)
       ELSE UNCHANGED <<role, raced>> /\ Finish(r, "error")
  /\ UNCHANGED <<tenant, user, mem, link>>

(* expires_at of a grant passes. *)
GrantExpires(l) ==
  /\ link[l].live
  /\ link' = [link EXCEPT ![l] = [by |-> link[l].by, live |-> FALSE]]
  /\ raced' = [q \in Reqs |-> raced[q] \/ pc[q] \in {"grants", "schools"}]
  /\ UNCHANGED <<tenant, user, mem, role, pc, who, prin, loc, out>>

Step(r) ==
  \/ \E u \in Users, s \in Schools \cup {None} :
       \/ Start(r, u, s) \/ ServeUserCreate(r, u, s)
       \/ \E ro \in Roles \cup {None} : ServeMemberCreate(r, u, s, ro)
  \/ LoadGrants(r) \/ SelectSchool(r) \/ MemberRoles(r)
  \/ Refused(r) \/ Abort(r)
  \/ \E status \in TenantStatus \cup {"DELETED"} : \/ \E t \in Schools : ServeSchool(r, t, status)
                                                 \/ \E t \in Orgs : ServeOrganization(r, t, status)
  \/ \E u \in Users : \/ \E status \in UserStatus \cup {"DELETED"} : ServeUser(r, u, status)
                      \/ ServeToggle(r, u)
  \/ \E m \in Members :
       \/ \E status \in MembershipStatus, d \in BOOLEAN : ServeMember(r, m, status, d)
       \/ \E ro \in Roles : ServeGrant(r, m, ro) \/ ServeRevoke(r, m, ro)
  \/ \E ro \in Roles, status \in {"LIVE", "ARCHIVED"}, ps \in SUBSET Perms, c \in BOOLEAN :
       ServeRole(r, ro, status, ps, c)
  \/ CommitTenant(r) \/ CommitUser(r) \/ CommitUserCreate(r) \/ CommitMemberCreate(r)
  \/ CommitMember(r) \/ CommitGrant(r) \/ CommitRole(r)

Next ==
  \/ \E r \in Reqs : Step(r)
  \/ \E l \in Members \X Roles : GrantExpires(l)

Spec == Init /\ [][Next]_vars

-----------------------------------------------------------------------------
(* The rows, the requests and their principals are well formed.  A         *)
(* membership stays within one tenant: its school is a school of its       *)
(* organization and its roles are the organization's or the system's.      *)
TypeOK ==
  /\ tenant \in [Tenants -> Tenant]
  /\ user \in [Users -> User]
  /\ mem \in [Members -> Membership]
  /\ \A m \in Members : mem[m].status # "NONE" => mem[m].user # None /\ mem[m].org # None
  /\ \A m \in Members : mem[m].status # "NONE" =>
       /\ mem[m].school # None => SchoolOrg[mem[m].school] = mem[m].org
       /\ \A ro \in Roles : link[<<m, ro>>] # NoLink => RoleOrg[ro] \in {None, mem[m].org}
  /\ link \in [Members \X Roles -> Link \cup {NoLink}]
  /\ role \in [Roles -> Role]
  /\ pc \in [Reqs -> Point]
  /\ who \in [Reqs -> [user: Users \cup {None}, asked: Schools \cup {None},
                      ms: SUBSET Members, got: SUBSET (Members \X Perms)]]
  /\ prin \in [Reqs -> Principal]
  /\ raced \in [Reqs -> BOOLEAN]
  /\ out \in [Reqs -> Outcome]

(* However creations of accounts and memberships race, an account has one  *)
(* membership per school and one for a whole organization.                 *)
OneMembership ==
  \A m, n \in Members :
    /\ mem[m].status # "NONE" /\ mem[n].status # "NONE"
    /\ mem[m].user = mem[n].user /\ mem[m].org = mem[n].org /\ mem[m].school = mem[n].school
    => m = n

(* A principal is put together from several SELECTs.  Unless a table       *)
(* changed on the way, it is one that the tables warrant at the end.       *)
PrincipalExact ==
  [][\A r \in Reqs : /\ pc[r] \in {"idle", "schools"} /\ pc'[r] = "guard"
                     /\ ~prin'[r].admin /\ ~raced[r]
                     => prin'[r] \in Principals(who'[r].user, who'[r].asked)]_vars

(* The organization a request writes to. *)
WrittenOrg(r) ==
  CASE loc[r].op = "tenant" -> IF loc[r].id \in Orgs THEN loc[r].id ELSE SchoolOrg[loc[r].id]
    [] loc[r].op = "grant" -> mem[loc[r].id].org
    [] loc[r].op = "role" -> RoleOrg[loc[r].id]
    [] OTHER -> loc[r].new.org

(* Apart from platform staff, nobody writes to an organization without     *)
(* ever having been made a member of it.                                   *)
MembersOnly ==
  [][\A r \in Reqs :
       /\ pc[r] = "commit" /\ out'[r] = "written" /\ ~prin[r].admin
       /\ loc[r].op # "user" \/ loc[r].id = r
       => \E m \in Members : mem[m].user = who[r].user /\ mem[m].org = WrittenOrg(r)]_vars

(* The row is written as it was loaded, but for the permissions. *)
OnlyPermissions(r) == loc[r].new = [loc[r].row EXCEPT !.perms = loc[r].new.perms]

(* Of the edits that loaded a role in one version at most one changes its   *)
(* row.  Another one that takes effect as well changes permissions and      *)
(* nothing else, and is made by whoever had edited the role last: it does   *)
(* not move the version, so that it goes unnoticed beside a rename too.     *)
RoleRowWrittenOnce ==
  \A q, r \in Reqs :
    /\ q # r /\ out[q] = "written" /\ out[r] = "written"
    /\ loc[q].op = "role" /\ loc[r].op = "role" /\ loc[q].id = loc[r].id
    /\ loc[q].row.version = loc[r].row.version
    => OnlyPermissions(q) \/ OnlyPermissions(r)
=============================================================================
