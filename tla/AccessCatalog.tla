--------------------------- MODULE AccessCatalog ----------------------------
(***************************************************************************)
(* The permissions the code declares, the routes that ask for them and the *)
(* scripts that bring permissions and system roles into the database       *)
(* (each module's permissions.py and router.py, core/permissions.py,       *)
(* scripts/sync_permissions.py, scripts/sync_roles.py,                     *)
(* scripts/bootstrap.py).                                                  *)
(*                                                                         *)
(* A permission exists in code once the module that registers it has been  *)
(* imported: a script knows those of its own imports, the application all. *)
(* Every script is one transaction; several may run at once, beside a      *)
(* tenant that edits a role.  Who holds a role is in Tenancy.              *)
(***************************************************************************)
EXTENDS Naturals, Sequences, FiniteSets

CONSTANTS Jobs,         \* runs of scripts, and edits of roles by a tenant
          TenantRoles,  \* roles of organizations
          Picks         \* the permissions such an edit chooses from

(* A permission is its module, its resource and its action. *)
Codes(module, resources, actions) == {module} \X resources \X actions

ASSUME PicksAreCodes == \A c \in Picks : Len(c) = 3

-----------------------------------------------------------------------------
(* What each permissions.py registers. *)
Reading == {"list", "read"}
Crud == Reading \cup {"create", "update", "delete"}

OrganizationPermissions == Codes("iam", {"organization"}, Crud)
SchoolPermissions == Codes("iam", {"school"}, Crud)
UserPermissions == Codes("iam", {"user"}, Crud \cup {"invite", "toggle_platform_admin"})
MembershipPermissions == Codes("iam", {"membership"}, Crud \cup {"grant_role", "revoke_role"})
RolePermissions == Codes("iam", {"role"}, Crud)
PersonPermissions == Codes("people", {"person"}, Crud \cup {"merge"})
AddressPermissions == Codes("people", {"address"}, Crud)
ContactPermissions == Codes("people", {"contact"}, Crud)
AuditPermissions == Codes("platform", {"audit_log"}, Reading)
AcademicYearPermissions == Codes("academic", {"academic_year"}, Crud)
AcademicTermPermissions == Codes("academic", {"academic_term"}, Crud)
AcademicClassPermissions == Codes("academic", {"academic_class"}, Crud)
SubjectPermissions == Codes("academic", {"subject"}, Crud)
ClassSubjectPermissions == Codes("academic", {"class_subject"}, Crud \ {"update"})
CohortPermissions == Codes("academic", {"cohort"}, Crud)
StudentPermissions == Codes("students", {"student"}, Crud)
EnrollmentPermissions == Codes("students", {"enrollment"}, Crud \cup {"transfer"})
GuardianPermissions == Codes("students", {"guardian"}, Crud)
TeacherPermissions == Codes("teachers", {"teacher", "assignment"}, Crud)
TimetablePermissions == Codes("timetables", {"period", "timetable", "slot"}, Crud)
AnnouncementPermissions == Codes("announcements", {"announcement"}, Crud \cup {"publish", "archive"})
AttendancePermissions ==
  Codes("attendance", {"session"}, Crud \cup {"submit", "amend"})
    \cup Codes("attendance", {"record"}, {"list", "update"})
BulkImportPermissions ==
  Codes("bulk_import", {"import"}, Reading \cup {"create"})
    \cup Codes("bulk_import", {"export"}, {"create"})
ParentPermissions ==
  Codes("parents", {"parent"}, Crud) \cup Codes("parents", {"student_parent"}, {"create", "delete"})
NotificationPermissions == Codes("notifications", {"notification"}, {"list", "update"})
DocumentPermissions == Codes("documents", {"document"}, Crud \ {"update"})
ReportPermissions == Codes("reports", {"export"}, Reading \cup {"create"})
StatsPermissions == Codes("platform", {"stats"}, {"read"})
FeatureFlagPermissions == Codes("platform", {"feature_flag"}, {"list"})
OutboxPermissions == Codes("platform", {"outbox"}, {"list"})

IamAndPeople ==
  OrganizationPermissions \cup SchoolPermissions \cup UserPermissions \cup MembershipPermissions
    \cup RolePermissions \cup PersonPermissions \cup AddressPermissions \cup ContactPermissions
Academic ==
  AcademicYearPermissions \cup AcademicTermPermissions \cup AcademicClassPermissions
    \cup SubjectPermissions \cup ClassSubjectPermissions \cup CohortPermissions
PlatformWide == StatsPermissions \cup FeatureFlagPermissions \cup OutboxPermissions

(* The registry as sync_permissions, sync_roles and the application see it *)
PermissionImports == IamAndPeople \cup AuditPermissions

(* Faulty variant: the catalogue is built with the application imported. *)
RoleImportsAll ==
  IamAndPeople \cup AuditPermissions \cup Academic \cup EnrollmentPermissions
    \cup GuardianPermissions \cup TeacherPermissions \cup TimetablePermissions
    \cup AnnouncementPermissions \cup AttendancePermissions \cup BulkImportPermissions
    \cup PlatformWide

RoleImports ==
  IamAndPeople \cup AuditPermissions \cup Academic \cup EnrollmentPermissions
    \cup GuardianPermissions \cup TeacherPermissions \cup TimetablePermissions
    \cup AnnouncementPermissions \cup AttendancePermissions \cup BulkImportPermissions

AllPermissions ==
  IamAndPeople \cup AuditPermissions \cup Academic \cup StudentPermissions
    \cup EnrollmentPermissions \cup GuardianPermissions \cup TeacherPermissions
    \cup TimetablePermissions \cup AnnouncementPermissions \cup AttendancePermissions
    \cup BulkImportPermissions \cup ParentPermissions \cup NotificationPermissions
    \cup DocumentPermissions \cup ReportPermissions \cup PlatformWide

-----------------------------------------------------------------------------
(* The routes: the permission each asks for and whether it is a GET. *)
Route(codes, writes) == {[code |-> c, writes |-> writes] : c \in codes}
Gets(module, resource, actions) == Route(Codes(module, {resource}, actions), FALSE)
Changes(module, resource, actions) == Route(Codes(module, {resource}, actions), TRUE)
CrudRoutes(module, resource) ==
  Gets(module, resource, Reading) \cup Changes(module, resource, {"create", "update", "delete"})

OrganizationRoutes == CrudRoutes("iam", "organization")
SchoolRoutes == CrudRoutes("iam", "school")
UserRoutes == CrudRoutes("iam", "user") \cup Changes("iam", "user", {"toggle_platform_admin"})
MembershipRoutes ==
  CrudRoutes("iam", "membership") \cup Changes("iam", "membership", {"grant_role", "revoke_role"})
RoleRoutes == CrudRoutes("iam", "role")
PersonRoutes == CrudRoutes("people", "person") \cup Changes("people", "person", {"merge"})
AddressRoutes == CrudRoutes("people", "address")
ContactRoutes == CrudRoutes("people", "contact")
AuditRoutes == Gets("platform", "audit_log", Reading)
AcademicYearRoutes == CrudRoutes("academic", "academic_year")
AcademicTermRoutes == CrudRoutes("academic", "academic_term")
AcademicClassRoutes == CrudRoutes("academic", "academic_class")
SubjectRoutes == CrudRoutes("academic", "subject")
ClassSubjectRoutes ==
  Gets("academic", "class_subject", Reading)
    \cup Changes("academic", "class_subject", {"create", "delete"})
CohortRoutes == CrudRoutes("academic", "cohort")
StudentRoutes == CrudRoutes("students", "student")
EnrollmentRoutes ==
  CrudRoutes("students", "enrollment") \cup Changes("students", "enrollment", {"transfer"})
GuardianRoutes == CrudRoutes("students", "guardian")
TeacherRoutes == CrudRoutes("teachers", "teacher")
AssignmentRoutes == CrudRoutes("teachers", "assignment")
TimetableRoutes ==
  Gets("timetables", "timetable", Reading) \cup Changes("timetables", "timetable", {"create", "update"})
PeriodRoutes == CrudRoutes("timetables", "period")
SlotRoutes == CrudRoutes("timetables", "slot")
AnnouncementRoutes ==
  CrudRoutes("announcements", "announcement")
    \cup Changes("announcements", "announcement", {"publish", "archive"})
SessionRoutes ==
  CrudRoutes("attendance", "session") \cup Changes("attendance", "session", {"submit", "amend"})
RecordRoutes == Gets("attendance", "record", {"list"}) \cup Changes("attendance", "record", {"update"})
BulkImportRoutes ==
  Gets("bulk_import", "import", Reading) \cup Changes("bulk_import", "import", {"create"})
    \cup Gets("bulk_import", "export", {"create"})
ParentRoutes == CrudRoutes("parents", "parent")
StudentParentRoutes ==
  Gets("parents", "parent", {"list"}) \cup Changes("parents", "student_parent", {"create", "delete"})
NotificationRoutes ==
  Gets("notifications", "notification", {"list"})
    \cup Changes("notifications", "notification", {"update"})
DocumentRoutes ==
  Gets("documents", "document", Reading) \cup Changes("documents", "document", {"create", "delete"})
ReportRoutes == Gets("reports", "export", Reading) \cup Changes("reports", "export", {"create"})
StatsRoutes == Gets("platform", "stats", {"read"})
FeatureFlagRoutes == Gets("platform", "feature_flag", {"list"})
OutboxRoutes == Gets("platform", "outbox", {"list"})

PlatformRoutes == StatsRoutes \cup FeatureFlagRoutes \cup OutboxRoutes
Routes ==
  UNION {OrganizationRoutes, SchoolRoutes, UserRoutes, MembershipRoutes, RoleRoutes, PersonRoutes,
         AddressRoutes, ContactRoutes, AuditRoutes, AcademicYearRoutes, AcademicTermRoutes,
         AcademicClassRoutes, SubjectRoutes, ClassSubjectRoutes, CohortRoutes, StudentRoutes,
         EnrollmentRoutes, GuardianRoutes, TeacherRoutes, AssignmentRoutes, TimetableRoutes,
         PeriodRoutes, SlotRoutes, AnnouncementRoutes, SessionRoutes, RecordRoutes,
         BulkImportRoutes, ParentRoutes, StudentParentRoutes, NotificationRoutes, DocumentRoutes,
         ReportRoutes, PlatformRoutes}

(* require() at import time: the application starts only if every route    *)
(* asks for a registered permission.                                       *)
ASSUME RoutesAreRegistered == \A r \in Routes : r.code \in AllPermissions

-----------------------------------------------------------------------------
(* The role catalogue, built from what is registered when it is imported.  *)
In(registered, modules) == {c \in registered : c[1] \in modules}
People(registered, actions) == {c \in In(registered, {"people"}) : c[3] \in actions}

(* Faulty variant: the readers' roles, too, get every action on people. *)
CatalogueWide(registered) ==
  LET reader == In(registered, {"people"})
  IN [SUPER_ADMIN |-> registered, ORG_ADMIN |-> registered, SCHOOL_ADMIN |-> registered,
      PRINCIPAL |-> reader, TEACHER |-> reader, STAFF |-> reader, PARENT |-> reader,
      STUDENT |-> reader]

Catalogue(registered) ==
  [SUPER_ADMIN |-> registered,
   ORG_ADMIN |-> In(registered, {"iam", "people", "academic", "students", "platform", "attendance"}),
   SCHOOL_ADMIN |->
     In(registered, {"people", "academic", "students", "teachers", "timetables", "announcements",
                     "attendance", "bulk_import", "platform"})
       \cup {c \in In(registered, {"iam"}) : c[2] \in {"membership", "user", "school", "role"}},
   PRINCIPAL |-> People(registered, Reading \cup {"create", "update"}),
   TEACHER |-> People(registered, Reading),
   STAFF |-> People(registered, Reading),
   PARENT |-> People(registered, Reading),
   STUDENT |-> People(registered, {"read"})]

(* The order in which sync_roles goes through it *)
RoleOrder == <<"SUPER_ADMIN", "ORG_ADMIN", "SCHOOL_ADMIN", "PRINCIPAL", "TEACHER", "STAFF",
               "PARENT", "STUDENT">>
SystemRoles == {RoleOrder[i] : i \in DOMAIN RoleOrder}

(* Those of scope ORGANIZATION or SCHOOL *)
ScopedRoles == SystemRoles \ {"SUPER_ADMIN"}
ReaderRoles == {"TEACHER", "STAFF", "PARENT", "STUDENT"}

ASSUME TenantRolesAreNoSystemRoles == TenantRoles \cap SystemRoles = {}

VARIABLES
  permissions,  \* codes with a row in permissions
  roles,        \* roles that have a row
  links,        \* role_permissions: the codes each role holds
  admin,        \* the bootstrap account: none, or with and without SUPER_ADMIN
  job           \* each run: its script, how far it is and what it has read and planned

syncVars == <<permissions, roles, links, admin, job>>

Kind == {"none", "permissions", "roles", "bootstrap", "edit"}
JobPoint == {"idle", "loop", "commit", "done", "failed"}
NoPlan == [add |-> {}, del |-> {}, new |-> FALSE]
NoJob == [kind |-> "none", at |-> "idle", rows |-> {}, next |-> 0,
          plan |-> [ro \in SystemRoles \cup TenantRoles |-> NoPlan], alone |-> TRUE]

(* A database as the migrations leave it, or filled as the integration     *)
(* tests fill theirs: permissions of the whole application, the catalogue  *)
(* with the students' permissions registered too.                          *)
SyncInit ==
  /\ \/ /\ permissions = {} /\ roles = TenantRoles
        /\ links = [ro \in SystemRoles \cup TenantRoles |-> {}]
     \/ /\ permissions = AllPermissions /\ roles = SystemRoles \cup TenantRoles
        /\ links = [ro \in SystemRoles \cup TenantRoles |->
                      IF ro \in SystemRoles THEN Catalogue(RoleImports \cup StudentPermissions)[ro]
                                            ELSE {}]
  /\ admin = "none"
  /\ job = [j \in Jobs |-> NoJob]

-----------------------------------------------------------------------------
Set(j, kind, at, rows, next, plan) ==
  job' = [job EXCEPT ![j] = [kind |-> kind, at |-> at, rows |-> rows, next |-> next,
                             plan |-> plan, alone |-> job[j].alone]]

Running(j) == job[j].at \in {"loop", "commit"}

(* A run ends; one that commits disturbs those that are under way.         *)
End(j, at) ==
  job' = [k \in Jobs |->
    IF k = j THEN [kind |-> job[j].kind, at |-> at, rows |-> {}, next |-> job[j].next,
                   plan |-> NoJob.plan, alone |-> TRUE]
             ELSE [kind |-> job[k].kind, at |-> job[k].at, rows |-> job[k].rows,
                   next |-> job[k].next, plan |-> job[k].plan,
                   alone |-> job[k].alone /\ ~(at = "done" /\ Running(k))]]

(* sync_permissions reads the table, then inserts what is missing and      *)
(* deletes what its registry does not know, the grants of it first.        *)
PermissionsRead(j) ==
  /\ job[j].at = "idle"
  /\ Set(j, "permissions", "commit", permissions, 0, NoJob.plan)
  /\ UNCHANGED <<permissions, roles, links, admin>>

(* uq_permissions_code refuses what another run has inserted meanwhile.    *)
PermissionsCommit(j) ==
  LET add == PermissionImports \ job[j].rows
      del == job[j].rows \ PermissionImports
  IN
  /\ job[j].at = "commit" /\ job[j].kind = "permissions"
  /\ IF add \cap permissions = {}
       THEN /\ permissions' = (permissions \ del) \cup add
            /\ links' = [ro \in DOMAIN links |-> links[ro] \ del]
            /\ End(j, "done")
       ELSE UNCHANGED <<permissions, links>> /\ End(j, "failed")
  /\ UNCHANGED <<roles, admin>>

(* sync_roles reads the permissions, then goes through the catalogue.      *)
RolesRead(j) ==
  /\ job[j].at = "idle"
  /\ Set(j, "roles", "loop", permissions, 1, NoJob.plan)
  /\ UNCHANGED <<permissions, roles, links, admin>>

(* Faulty variant: grants are only ever added. *)
UnwantedNone(j, ro) == {}

(* The grants that leave a role: those the catalogue does not name *)
Unwanted(j, ro) == links[ro] \ Catalogue(RoleImports)[ro]

(* One role: created when there is none, its grants compared with the      *)
(* catalogue.  permission_rows[code] fails for a code without a row.       *)
RoleStep(j) ==
  LET ro == RoleOrder[job[j].next]
      missing == Catalogue(RoleImports)[ro] \ (links[ro] \cap job[j].rows)
  IN
  /\ job[j].at = "loop"
  /\ IF missing \subseteq job[j].rows
       THEN Set(j, "roles", IF job[j].next = Len(RoleOrder) THEN "commit" ELSE "loop",
                job[j].rows, job[j].next + 1,
                [job[j].plan EXCEPT ![ro] = [add |-> missing, del |-> Unwanted(j, ro),
                                             new |-> ro \notin roles]])
       ELSE End(j, "failed")
  /\ UNCHANGED <<permissions, roles, links, admin>>

(* Faulty variant: no foreign key to permissions *)
RowsThereUnchecked(plan) == TRUE

(* The foreign key: every permission granted still has its row. *)
RowsThere(plan) == \A ro \in DOMAIN plan : plan[ro].add \subseteq permissions

(* The unique constraints: roles by code, grants by role and permission.   *)
RowsFree(plan) ==
  \A ro \in DOMAIN plan : plan[ro].add \cap links[ro] = {} /\ (plan[ro].new => ro \notin roles)

RolesCommit(j) ==
  LET plan == job[j].plan IN
  /\ job[j].at = "commit" /\ job[j].kind \in {"roles", "edit"}
  /\ IF RowsThere(plan) /\ RowsFree(plan)
       THEN /\ roles' = roles \cup {ro \in DOMAIN plan : plan[ro].new}
            /\ links' = [ro \in DOMAIN links |-> (links[ro] \ plan[ro].del) \cup plan[ro].add]
            /\ End(j, "done")
       ELSE UNCHANGED <<roles, links>> /\ End(j, "failed")
  /\ UNCHANGED <<permissions, admin>>

(* An organization gives a role of its own other permissions; those it     *)
(* names must have rows (_fetch_permissions).  Concurrent edits are in     *)
(* Tenancy, here there is one at a time.                                   *)
EditRole(j, ro, want) ==
  /\ job[j].at = "idle" /\ ro \in roles
  /\ ~\E k \in Jobs : job[k].kind = "edit" /\ Running(k)
  /\ want \subseteq permissions
  /\ Set(j, "edit", "commit", {}, 0,
         [NoJob.plan EXCEPT ![ro] = [add |-> want \ links[ro], del |-> links[ro] \ want,
                                     new |-> FALSE]])
  /\ UNCHANGED <<permissions, roles, links, admin>>

(* bootstrap creates the organization, the school, the account and its     *)
(* membership, or finds them, and gives it SUPER_ADMIN if that role exists.*)
BootstrapRead(j) ==
  /\ job[j].at = "idle"
  /\ Set(j, "bootstrap", "commit", {}, IF admin = "none" THEN 0 ELSE 1,
         [NoJob.plan EXCEPT !["SUPER_ADMIN"] =
            [add |-> {}, del |-> {}, new |-> "SUPER_ADMIN" \in roles /\ admin # "granted"]])
  /\ UNCHANGED <<permissions, roles, links, admin>>

(* The organization's code and the account's address are unique. *)
FirstBootstrap(j) == job[j].next = 0 => admin = "none"

BootstrapCommit(j) ==
  LET grants == job[j].plan["SUPER_ADMIN"].new IN
  /\ job[j].at = "commit" /\ job[j].kind = "bootstrap"
  /\ IF FirstBootstrap(j) /\ (grants => admin # "granted")
       THEN /\ admin' = IF grants THEN "granted" ELSE IF admin = "none" THEN "member" ELSE admin
            /\ End(j, "done")
       ELSE UNCHANGED admin /\ End(j, "failed")
  /\ UNCHANGED <<permissions, roles, links>>

(* The connection breaks; a run is one transaction. *)
AbortJob(j) ==
  /\ Running(j)
  /\ End(j, "failed")
  /\ UNCHANGED <<permissions, roles, links, admin>>

SyncNext ==
  \E j \in Jobs :
    \/ PermissionsRead(j) \/ PermissionsCommit(j)
    \/ RolesRead(j) \/ RoleStep(j) \/ RolesCommit(j)
    \/ \E ro \in TenantRoles, want \in SUBSET Picks : EditRole(j, ro, want)
    \/ BootstrapRead(j) \/ BootstrapCommit(j)
    \/ AbortJob(j)

SyncSpec == SyncInit /\ [][SyncNext]_syncVars

-----------------------------------------------------------------------------
(* The rows and the runs of the scripts are well formed, no role holds a   *)
(* permission that is not in the table any more however the scripts and    *)
(* the edits of roles overlap, and of the runs of bootstrap one at most    *)
(* creates the account.                                                    *)
CatalogueTypeOK ==
  /\ permissions \subseteq AllPermissions
  /\ roles \subseteq SystemRoles \cup TenantRoles
  /\ links \in [SystemRoles \cup TenantRoles -> SUBSET AllPermissions]
  /\ \A ro \in roles : links[ro] \subseteq permissions
  /\ \A ro \in SystemRoles : links[ro] # {} => ro \in roles
  /\ admin \in {"none", "member", "granted"}
  /\ \A j \in Jobs : /\ job[j].kind \in Kind /\ job[j].at \in JobPoint
                     /\ job[j].rows \subseteq AllPermissions
                     /\ job[j].next \in 0 .. Len(RoleOrder) + 1
  /\ Cardinality({j \in Jobs : /\ job[j].kind = "bootstrap" /\ job[j].next = 0
                               /\ job[j].at = "done"}) <= 1

(* The routes a role opens: require() compares codes. *)
Opened(ro) == {r \in Routes : r.code \in links[ro]}

(* The roles that are described as reading ("Read-only people access",     *)
(* "Reads only their own record") open no route that writes.               *)
ReadersNeverWrite == \A ro \in ReaderRoles : \A r \in Opened(ro) : ~r.writes

(* The routes with data of all tenants ("platform-admin only") are opened  *)
(* by no role of an organization or a school, though ORG_ADMIN and         *)
(* SCHOOL_ADMIN are given every registered permission of the platform      *)
(* module: it depends on what has been imported when the catalogue is built.*)
PlatformRoutesNotForTenants == \A ro \in ScopedRoles : Opened(ro) \cap PlatformRoutes = {}

(* A run of sync_roles that no other run disturbed leaves every system     *)
(* role with exactly what the catalogue says.                              *)
CatalogueRestored ==
  [][\A j \in Jobs :
       /\ job[j].kind = "roles" /\ job[j].alone
       /\ job[j].at = "commit" /\ job'[j].at = "done"
       => /\ SystemRoles \subseteq roles'
          /\ \A ro \in SystemRoles : links'[ro] = Catalogue(RoleImports)[ro]]_syncVars

(* "make sync-roles # seed system roles" (README.md:18), after             *)
(* "make sync-perms": a run that nothing disturbs and nothing interrupts   *)
(* ends with the system roles in the table.                                *)
RolesSeeded ==
  [][\A j \in Jobs :
       /\ job[j].kind = "roles" /\ job[j].alone /\ job[j].rows = PermissionImports
       /\ RoleStep(j)
       => job'[j].at # "failed"]_syncVars
=============================================================================
