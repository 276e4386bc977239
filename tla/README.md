# School OS core: TLA+ verification

School OS core is a multi-tenant school administration back end: FastAPI
services over PostgreSQL (SQLAlchemy, asyncio), Redis for rate limits and a
leader key, and a worker that turns outbox events into notifications. This
directory models the parts of it where concurrent transactions, crashes and
retries decide whether the system is right.

Contents: 1 inventory, 2 modelling conventions, 3 modules and code, 4 runs,
5 proofs, 6 findings and observations, 7 what is not modelled, 8 plan.

## 1. Inventory

Every HTTP request runs in one READ COMMITTED transaction that commits when the
request ends (`app/db/session.py`). Services check, write and call `audit` and,
for some operations, `publish`, all in that transaction. Most tables have a
`version` column (`app/db/mixins.py`) that SQLAlchemy compares on every UPDATE
and DELETE. Nothing is locked explicitly except by the outbox worker
(`FOR UPDATE SKIP LOCKED`), so what keeps requests apart is the version column,
unique indexes and foreign keys.

| Component | State | Operations | Interacts with | Hard behaviour | Correct means | Module |
| --- | --- | --- | --- | --- | --- | --- |
| Outbox (`platform_/outbox`) | `outbox_events` | publish | every domain transaction | atomic with the domain change | nothing lost, nothing invented | OutboxDispatcher |
| Dispatcher (`workers/outbox_dispatcher.py`) | row locks, attempts, backoff, leader key | poll, fetch, process, commit | handlers, Redis | replicas, crashes, Redis failures, poison events, backoff | every event delivered once to each recipient | OutboxDispatcher |
| Fan-out (`workers/handlers.py`, `channels.py`) | `notifications` | send | accounts, memberships | a handler fails half way, retries | no recipient twice, none forgotten | OutboxDispatcher, NotificationDelivery |
| Principal, tenancy, row-level security (`iam/principal.py`, `core/context.py`, `db/rls.py`) | session variables of a request | resolve, require, filter | every request | several memberships, revocation in flight | no access across tenants | Tenancy |
| Memberships, roles, organizations, schools, accounts (`iam/*`) | versioned rows, grants | create, update, delete, grant, revoke | the principal | races on unique keys, rows that edits leave unversioned | one membership per place, no lost edit | Tenancy |
| Permissions, routes, system roles (`*/permissions.py`, `*/router.py`, `scripts/`) | registry, permissions, role permissions | sync, bootstrap, edit | imports, memberships | the import decides what is registered; scripts beside tenants | readers only read, the catalogue is what is granted | AccessCatalog |
| Authentication (`auth`) | users, refresh tokens, reset links, login attempts | login, refresh, logout, reset, confirm, change password | user administration | races of all of these on one account, second transactions | no session survives its password, no lost failure | AuthSessions |
| Attendance (`attendance`) | sessions, records | create, update, delete, submit, amend, record update, bulk update | enrollments, outbox | races on one roll call | one roll call per day, one event, no orphans | Attendance |
| Enrollments (`students/enrollments`) | enrollments | create, update, transfer, delete | students, attendance | races between checks and commit | one active enrollment, unique rolls | Enrollments |
| Timetable slots and periods (`timetables`) | period definitions, slots | create, update, delete/cancel | teachers, cohorts | conflict queries before the commit | no double booking, unique names | TimetableSlots |
| Academic calendar and catalogue (`academic/*`) | years, terms, classes, subjects, class subjects, cohorts | create, update, delete | enrollments, timetables | the switch of the current year, parents edited under their children | one current year, terms within years, unique codes | Academic |
| Teachers and assignments (`teachers`) | teachers, assignments | hire, edit, leave, assign, edit, end | cohorts, subjects, persons | two assignments to a post, an ended one revived | one holder of each post | Academic |
| People (`people/*`) | persons, addresses, contacts | create, edit, merge, delete | students, teachers, parents | addresses deleted under their persons | nothing overwritten unseen | Households |
| Students, guardians, parents (`students`, `students/guardians`, `parents`) | students, guardians, parents, links | create, edit, delete, link | people | the primary flag, numbers that are edited without a lookup | at most one primary guardian, nobody twice | Households |
| Timetable headers (`timetables`) | timetables | create, update, publish, archive | slots | cannot commit (section 6) | one published per year | |
| Announcements | announcements, targets | draft, publish, archive | outbox | version and targets | published once | |
| Documents and storage | rows and files | upload, delete | storage | cannot commit (section 6) | no row without a file | |
| Bulk import, reports | job rows | import, export | students, teachers | savepoints, time limit, rollback | the job tells the truth | |
| Rate limiter | Redis sets, per-worker windows | allow | Redis | non-atomic count and add, fallback | at most the limit | |
| Search, audit, flags, health, statistics, inbox | records | mostly reads | | | | |

`PROJECT.json` lists these under "components" and, under "hazards", the places
in the code where an interleaving, a crash or a limit bites, with the property
that watches each. Hazards of the parts without a module, and some smaller ones,
are in sections 6 and 7 instead.

## 2. Modelling conventions

* One action per database round trip that matters: a query whose answer is used
  later is a step, the writes of a transaction and its commit are one step. So a
  request is a sequence *Read*, (further reads), *Commit*, and between its steps
  any other request may run. This is READ COMMITTED: each statement sees what is
  committed when it runs, and writes become visible together.
* `pc[r]` says where request `r` is, `loc[r]` what it has read. A request names
  the rows it creates, so a row's identity needs no counter.
* `Fresh(r)` is the version check: UPDATE and DELETE find the row only in the
  version the request loaded. When they do not, SQLAlchemy raises StaleDataError
  and the transaction is rolled back.
* Unique indexes, foreign keys and CHECKs are evaluated at the commit, against
  the state at that time (`SlotFree`, `YearFree`, `RollFree`, `NameFree`,
  `StartFree`, `Unreferenced`, `SessionThere`, `MemberFree`, `RowsFree`, `KeyFree`,
  `CurrentFree`, `TeacherFree`, `SlotFree`, `Refers`). PostgreSQL makes the second of
  two conflicting writers wait for the first; as the waiter writes nothing, this
  is the same as the commits taking place one after the other. A lock deadlock
  is an `Abort`.
* A flush writes the columns that differ from the loaded ones, and moves the
  version with them. When none differs, `updated_by_id` included, it emits no
  UPDATE at all: no version and no index is compared, and the request goes on.
  This is modelled wherever something follows the flush or another request can
  tell: `AskUpdate` of Records (Academic, Households) and `RowWritten` of
  Tenancy's roles. In the other modules such an edit would change nothing and is
  left out.
* `Abort(r)`: the connection is lost, the process dies or PostgreSQL breaks a
  deadlock. Nothing is written.
* Where a property is about what no third party can undo, the model keeps one bit
  of history: `raced[r]` (somebody committed between the lookups and the write of
  `r`), `alone`, `past` and `writer`. No action reads these.
* Operators commented "Faulty variant" are not used by any specification. Each
  is the form a definition would take after a plausible mistake in the code;
  replacing the definition by it makes the corresponding property fail
  ("mutants" in `PROJECT.json`).

## 3. Modules and code

**OutboxDispatcher** (`platform_/outbox/service.py`, `workers/*.py`).
`row` and `notes` are the committed tables; a worker's open transaction is
`claimed` (its row locks), `todo`, `txRow` and `txNotes`. `AcquireLease` and
`SkipLease` are `_acquire_redis_lock`, `Fetch` is `_fetch_due_events`,
`NoHandler`, `HandlerReturns` and `HandlerRaises` are `_process_event`, `Commit`
and `PassFails` end `run_once`. A handler that raises keeps the notifications it
has already inserted, because there is no savepoint. `Tick` lets backoff and the
leader key run down. `Deactivate` is the environment: accounts end while events
are in flight.

**NotificationDelivery** is what the rest of the system may rely on: events
become published, a set of published events becomes sent, inboxes only grow, an
inbox holds at most one notification per event, and a sent event has reached its
active recipients. OutboxDispatcher implements it with `sent` and `published`
read off the row status and `inbox` equal to the committed notifications.

**AuthSessions** (`auth/service.py`, `iam/users/service.py`). One account, the
refresh tokens and reset links that requests make for it. `LoginRead`,
`LoginCommit`, `FailRead`, `FailCommit` (the separate transaction that counts a
failure), `RefreshRead`, `RefreshUser`, `RefreshCommit`, `FamilyRead`,
`FamilyCommit` and `TokenRevoke` (the separate, durable revocations), `Logout`,
`Reset*`, `Confirm*`, `Change*`, `Admin*`. A password is a number that grows
with every change; a token remembers the password it stems from. Expiry of
tokens, links and lockouts are steps that may happen at any time.

**Attendance** (`attendance/service.py`). The roll calls of one cohort and date:
each operation as a read and a commit, record updates with the extra read of
the session that the code does. `events` counts outbox events per session.

**Enrollments** (`students/enrollments/service.py`). The enrollments of one
academic year, with the partial unique indexes of migration 0011, and as
environment the deletion of students and attendance records that refer to
enrollments.

**TimetableSlots** (`timetables/service.py`, `repository.py`). Periods of a year
and slots of one weekday. `past[r]` and `writer[s]` are history: whom `r` could
see when it looked for conflicts, and who wrote slot `s` last. SUBSTITUTED is
treated like CANCELLED, as the conflict queries do.

**VersionedRows** is what `VersionMixin` promises ("a stale write raises, never
overwrites"), without handlers or columns: a request loads a copy of one row, and
its commit may make new rows (in version 1), but changes or removes an old one
only if its copy still is that row, and then makes the next version. Four modules
implement it: TimetableSlots with its slots, Enrollments with its enrollments,
Attendance with the status and version of its sessions (records have no part in
the version), Academic with what `Guarded` leaves of its records. That is
everything but class subjects, which have no version column, and the flag of a
year, which `unset_current` also clears without comparing or moving a version;
what may happen to the flag is `FlagTakenOnlyByRace`. In each, `Copy(r)` is what
request `r` still holds of the row it has loaded; a request that goes on to other
reads keeps it, one that ends drops it.
Households does not implement it, because the bulk UPDATE on guardians and the
deletion of an address write rows nobody has loaded; `NoBlindWrite` there is the
same promise with these exceptions. In AuthSessions a request keeps of the
account only the columns its handler uses; that they are current when it writes
is what the `...Seen` invariants of AuthProofs say.

**Tenancy** (`iam/principal.py`, `core/context.py`, `core/authz.py`, `db/rls.py` and
the services of `iam`). A request resolves its principal in three reads, `Start`
(account and active memberships, or platform staff), `LoadGrants` (roles and
permissions) and `SelectSchool` (schools, the active one, the grants that apply),
then passes `require` and reads (`Serve*`) and writes (`Commit*`) as its service
does. `Visible` is the policy on organizations, `Owned*` are the `get_owned` of the
services. `PlatformRoles` are the system roles of scope PLATFORM: `grant_role`
refuses them (`ServeGrant`), the creation of a membership does not
(`MemberRoles`). `Principals(u, s)` is the rule written down once, without the order of
the reads; `PrincipalExact` compares the two.

**AccessCatalog** (every `permissions.py` and `router.py`, `core/permissions.py`,
`scripts/sync_permissions.py`, `sync_roles.py`, `bootstrap.py`). The permissions
each module registers and the permission each route asks for are constants, so
is the catalogue as a function of what is registered. The scripts are concurrent
transactions beside an organization that edits a role of its own. The two initial
states are the database after the migrations and one filled as
`tests/integration/conftest.py` fills it.

**Records** is what the services that keep plain records share: a request looks
up and checks (`Ask*`), and writes and commits (`Store`) or fails. A record is
named by the request that made it; its columns are abstracted to those the rules
of the services are about, and the header of each module says what they mean.
An edit (`AskUpdate`) is either written later, with the columns that differ from
the loaded row (`ChangedColumns`), or has an empty flush (`keep`) when it gives no
column another value; both go on to what follows the flush.
Here all lookups of a request are one step, so an order in which another request
commits between two lookups of the same request is not in these two modules; the
invariants rest on what is evaluated at the write, and the properties with
`raced` would count such an order as a race.

**Academic** (`academic/*`, `teachers`) and **Households** (`people/*`, `students`,
`students/guardians`, `parents`) add to Records one action per operation, the
indexes of migrations 0004 and 0007 to 0013, 0022 and 0026, and what runs after
the flush: `UnsetCurrent` in Academic, and in Households `UnsetPrimary`, the bulk
UPDATE on guardians, which chooses its rows before the flush and takes effect on
what they have become by the commit (`Effects`).

**MCOutbox, MCTenancy, MCAccess, MCAuth, MCAttendance, MCEnrollments, MCTimetable,
MCAcademic, MCHouseholds** add only symmetry sets, initial records and constant
functions for TLC. The **...Proofs** modules hold the theorems.

## 4. Runs

| Run | Instance | Result |
| --- | --- | --- |
| outbox_safety | 2 replicas, 2 events (one without a handler), 2 recipients, batch 2, 2 faults, Redis, fairness | `AtMostOneNotification`, `NotificationsAreRecorded`, the refinement `ImplementsDelivery`, `NothingUndone` and `HealthyDelivered` hold |
| outbox_starvation | as many poison events as the batch holds, fairness | `HealthyDelivered` is violated (finding 1) |
| tenancy_safety | 2 requests, platform staff and a member with two memberships, 2 organizations, 3 schools (one not created), 3 roles (of the organization, of the system, of the platform) | `TypeOK` (memberships within a tenant), `OneMembership`, `RoleRowWrittenOnce`, `PrincipalExact`, `MembersOnly` hold |
| access_safety | 3 script runs or role edits, all permissions and routes of the code | `CatalogueTypeOK` (no grant without its permission), `ReadersNeverWrite`, `PlatformRoutesNotForTenants`, `CatalogueRestored` hold |
| access_seeding | same | `RolesSeeded` is violated (finding 2) |
| auth_safety | 3 requests, lockout after 2 failures | `LoginSessionsCurrent`, `NoLostFailure`, `NoLoginWhenBarred`, `DeletedKeepsPassword` hold |
| attendance_safety | 3 requests, 2 students | `TypeOK` (no orphan record), `OneSessionPerDate`, `AnnouncedOnce`, `NoReopen` hold |
| enrollment_safety | 3 requests, 2 students, 2 cohorts, 1 roll number | `TypeOK` (no dangling attendance), `OneActiveEnrollment`, `RollNumbersUnique`, `ActedUponOnce` hold |
| timetable_safety | 3 requests, 2 teachers, 1 cohort, 2 period names, 2 dates | `TypeOK` (no slot without its period), `CohortClashOnlyRaced`, the refinement `ImplementsVersionedRows` hold |
| academic_safety | 2 requests on 13 records in every condition (current, ended, deleted), a third one when all are for years | `TypeOK`, `OneCurrentYear`, `OneHolder`, `UnsoundOnlyByRace`, `FlagTakenOnlyByRace`, the refinement `ImplementsVersionedRows` hold |
| academic_current | the same records, 2 requests | `CurrentYearMoves` is violated (finding 3) |
| households_safety | 2 requests on 15 records, three guardians of a student among them | `TypeOK`, `HouseholdsDistinct`, `OnePrimaryAmongKnown`, `PrimaryButForAdded`, `NoBlindWrite` hold |

**Why the bounds are enough.** A race needs two requests; a third gives every
pair a committed history in between (a transfer, then a reactivation beside a
create). Two students, cohorts, names or recipients are the least for which "the
same" and "another" differ; one roll number makes every roll contested. Two
dates with open ends give slots that overlap, touch and miss each other.
`MaxFailed = 2` lets three requests count, lock and count again. In the outbox a
batch as large as the number of poison events, and one larger, are the two sides
of the starvation; `AttemptCap` lies above `MaxAttempts`, so that a counter past
the limit is reached (the counter of the code has no bound: `AttemptCap = None`,
which the theorems include); `MaxFaults` bounds crashes, Redis failures and
transient handler errors together: one fault makes both replicas dispatch at
once, the other one breaks a pass of theirs. Where the runs have only two
requests (Tenancy, Academic but for years, Households), the initial tables hold
what earlier requests would have left: deleted, archived and ended rows, codes
that differ only in case, an assignment whose post is taken, a primary guardian
beside others, a membership for the organization beside one for a school. The
theorems of section 5 hold without these bounds.

**Deadlock** is not checked for the request models and the scripts: requests
end, and when all have ended nothing is left to do. The outbox runs check it.

**Fairness** (`FairSpec`): the clock runs (`Tick`), and each worker that can
take a faultless step does: `run_forever` polls in an endless loop, takes the
leader key when it is free, and carries a pass through to its commit. Nothing is
assumed of publishers, accounts, or faults; faults are bounded by `MaxFaults`,
as an event whose worker always crashes is never delivered. Nothing else runs in
the background, so no other component promises that something happens.

## 5. Proofs

The theorems hold for any number of requests, replicas, events, students, dates
and faults and every setting allowed by the ASSUMEs of the modules (finite set
of events, positive limits, NULL different from every value, names of requests,
records and accounts apart). Tenancy, Academic and Households start from any
tables that the services may have left: references lead to records of the right
kind (`SeedsFit`) and the unique indexes hold (`SeedsDistinct`). TLC evaluates the
assumptions on the instance of each run, and each inductive invariant was also
checked there before its proof.

* **OutboxProofs.** The inductive invariant ties a worker's buffer to its locks:
  it buffers rows and notifications only of events it has claimed, claims are
  disjoint and never of SENT rows, a buffered notification is only there when no
  committed one is, and a buffered SENT row comes with all its notifications.
  From it: `AtMostOneNotification`, `SentMeansDelivered`,
  `NotificationsAreRecorded`, `ClaimsDisjoint`, the action property
  `NothingUndone`, and `Refinement`: every step is a step of
  NotificationDelivery or leaves its variables unchanged. Its type invariant also
  says, for a counter of attempts that grows without bound, what the retries rest
  on (`Counted`): a FAILED row has counted its attempts and is due within the
  backoff cap, or has used up `outbox_max_attempts`.
* **AuthProofs.** The argument of optimistic locking: while the version a
  request loaded is still the account's, what it read of the account is still
  true (`LoginSeen`, `FailSeen`, `RowsSeen`, `UndeletedSeen`). `RowsSeen` is the
  decisive one: a login changes the account, so a password change that can still
  commit knows every login session.
* **AttendanceProofs.** `SeenInv` (a current version means a current status),
  `HeldInv` and `MadeInv` (a session is made once, before anybody can hold it).
* **EnrollmentProofs.** The same for enrollments, with the unique indexes
  carrying `OneActiveEnrollment` and `RollNumbersUnique`, and the outcome of
  requests tied to versions for `ActedUponOnce`.
* **TimetableProofs.** `CheckedAt`: between its look for conflicts and its commit,
  whatever clashes with what a request is about to write was written after that
  look. Overlap is symmetric, and versions only grow.
* **VersionedRows** (`Refinement` in TimetableProofs, EnrollmentProofs,
  AttendanceProofs and AcademicProofs). Each step of a handler is a `VLoad`, a
  `VForget`, a `VCommit` or a stutter. The database compares nothing but versions;
  that this compares whole rows is the invariant that a row in the version a
  request has loaded is the row it has loaded, which holds because rows are made
  in version 1 by one request each and every write moves the version. In Academic
  the one write that asks for no version, `unset_current`, only touches the flag of
  years, which `Guarded` takes out.
* **AccessProofs**, of Tenancy. What a request found stays true until it commits because
  memberships keep account, organization and school (`Grown`): a principal's
  organization is one its account was made a member of (`PrinAt`), and what a
  service is about to write belongs to it (`LocAt`), which gives `MembersOnly`.
  `EditAt` follows two edits that loaded one version of a role: one that writes
  the row moves the version, so that of the other one, if it is written too,
  nothing but permissions changes (`RoleRowWrittenOnce`).
  `ExactInv` follows a principal through its SELECTs: as long as nobody commits,
  what has been loaded is what the tables hold, hence `PrincipalExact`.
  Of AccessCatalog: the invariant `SyncIInv` says that a system role only ever
  holds permissions that the widest catalogue (all that the scripts or the tests
  ever import) gives it, in whatever order scripts commit
  (`GrantsInv`), from which `ReadersNeverWrite` and `PlatformRoutesNotForTenants`
  are facts about the constants: the routes a permission of that kind opens to a
  reader, or to a role that is made for organizations or schools. A
  run of sync_roles carries which roles it has already put right (`PlanAt`), true
  as long as nobody else has committed (`UndisturbedAt`), hence
  `CatalogueRestored`. `MigratedIsNeverSeeded` proves finding 2 for any number of
  runs of the scripts: from a migrated database no system role is ever made.
* **AcademicProofs.** Kinds stay and versions grow, and what a request has checked
  (`Checked`) holds until somebody else commits. The unique indexes carry
  `OneCurrentYear`, `OneHolder` and `TeachersDistinct`, which no lookup can. For
  `FlagTakenOnlyByRace`: a write that sets the flag has passed the index, so that
  the other years have none left to clear; what remains is a repeated declaration,
  which has loaded its year as current, writes no flag and, if another year is
  current by now, has been overtaken.
  `UnsoundOnlyByRace` is a case analysis of what a write without a race can do to
  each record that refers to the written one.
* **HouseholdsProofs.** Persons, students and parents are never really deleted, so
  references keep their kind; a person may only lose an address, which is why
  the row an edit loaded is compared "but for addresses that are gone"
  (`StillThere`) in `NoBlindWrite`. A request that makes a guardian primary
  carries the rows the bulk UPDATE will reach: all that were there at the start
  (`Known`, for `OnePrimaryAmongKnown`) and, unless somebody has committed, all
  there are (`Unraced`); so whoever is primary beside it in the end was added
  after its lookups (`PrimaryButForAdded`).

Some theorems state what no run repeats: the type invariants of OutboxDispatcher
and AuthSessions, `SentMeansDelivered` and `ClaimsDisjoint` of the outbox,
`AnnouncedStays` of attendance, `PeriodNamesUnique` of timetables,
`TeachersDistinct` of Academic (a person is one teacher, a number stands for one),
`ImplementsVersionedRows` of enrollments and attendance, and
`MigratedIsNeverSeeded`. TLC had checked them on the instances of section 4
before they were proved.

Only model-checked: `HealthyDelivered` (liveness is out of the prover's reach)
and the fairness of `ImplementsDelivery`, whose theorem covers the initial states
and the steps. The three violated properties are of course not proved. Every
other property of a run is a theorem.

## 6. Findings and observations

Each of the three findings has a run whose counterexample shows it.

1. Dead-lettered events stay due. `_fetch_due_events` accepts FAILED rows without
   `next_attempt_at`, which is what a dead letter is; they are the oldest, so once
   there are `outbox_batch_size` of them no other event is ever claimed
   (`outbox_starvation`). For the same reason `outbox_max_attempts` does not end
   the attempts (`outbox_dispatcher.py:74` against `:14` and `:126`).
2. The two seeding commands of `README.md:17-18` do not seed the roles
   (`access_seeding`): `sync_permissions` imports, and so inserts, only the
   permissions of iam, people and the audit log and deletes all others, and
   `sync_roles` fails on the first of the catalogue that has no row. That no
   number of further runs helps is the theorem `MigratedIsNeverSeeded`.
3. A school that has a current year cannot be given a new one that is current
   (`academic_current`): the flush comes before `unset_current`, and the index of
   migration 0009 refuses it. `test_academic.py:170-190` expects it to work.
   The index keeps `OneCurrentYear` true; what fails is the switch.

Observations without a run of their own. On authentication:

* A reset link can be used twice by confirmations side by side: `consumed_at` is
  checked before the account is loaded.
* A refresh beside a password change keeps a session of the old password, and one
  beside the revocation of its family leaves an unrevoked token in it
  (`auth/service.py:386`, `:401`). `LoginSessionsCurrent` shows that logins cannot.
* `_register_failure` skips the attempt row when its counter update meets a
  concurrent one (`auth/service.py:331-337` against `:348-349`); in the model
  `FailCommit` ends without it.
* A failed login holds the connection of its request while it waits for a second
  one of the same pool (`:327`).

On attendance, enrollments and timetables:

* `update_session` can submit or amend a draft without its event, and a record
  update that read DRAFT commits after the submission.
* Two updates of a record write only the columns that differ from what they
  loaded, so it can end with the status of one and the arrival time of the other;
  two bulk updates in different orders can deadlock, one of them is an `Abort`.
* Deleting a student leaves its ACTIVE enrollments; a taken roll number is
  answered ALREADY_ENROLLED.
* `update_slot` looks for a teacher conflict only when the payload names a
  teacher; reactivating or extending a slot can book its teacher twice without
  any race. The cohort is always checked, which is why `CohortClashOnlyRaced`
  is about cohorts. Racing requests do book a cohort twice: the unique constraint
  only compares start dates, and ignores the status, so that a cancelled slot
  blocks its start date.
* The conflict queries build `effective_from <= None` for open-ended slots
  (`timetables/repository.py:288`). The tests expect such a request to succeed,
  and so does the model; whether SQLAlchemy accepts the comparison depends on
  its version.

On tenants and access:

* An account with memberships in several organizations gets that of the first row
  of a query without an order. `Resolved` chooses any.
* The own account, memberships and roles that the resolution has loaded stay in
  the session and are not read again by the service.
* `toggle_platform_admin` can never commit: the CHECK of `audit_logs.action` lists
  neither of its two actions (`ServeToggle`). An organization cannot be created
  while an organization is chosen: the policy's WITH CHECK refuses it.
* An edit that changes only the permissions of a role, made by its last editor,
  leaves the row and its version alone (`roles/service.py:94-110`). It goes
  unnoticed beside any other edit of the same loaded row, a rename as well as
  one of the same kind; `RoleRowWrittenOnce` says that at most one of such edits
  writes the row.
* Creating a membership gives it any role of the system, those of scope PLATFORM
  included, which `grant_role` refuses (`memberships/service.py:69-73` against
  `:155-156`).
* SUPER_ADMIN, "Full access across all tenants" (`sync_roles.py:60`), holds only
  what the imports of the script register, without the platform-wide permissions
  and those of the modules listed below. `PlatformRoutesNotForTenants` is about
  the roles of organizations and schools, for which that absence is right.
* Deleting a school, organization or account leaves its memberships.
* The catalogue is what its imports make it: the permissions of documents,
  parents, reports, notifications, students.student, statistics, feature flags
  and the outbox are in no script's imports, so on a database filled by the
  scripts only platform staff reach those routes. `iam.user.invite` and
  `timetables.timetable.delete` guard no route; GET /search asks only for
  authentication; `bootstrap` grants SUPER_ADMIN only if it exists by then.

On records:

* A school, role, organization, code, teacher, student or parent that was deleted
  cannot be created again: the lookup does not see the row, the unique index does.
* Repeating `is_current: true` on a year that was current when loaded is a flush
  that does not write the flag (no UPDATE at all if its last editor does it), and
  `unset_current` follows all the same (`academic_years/service.py:73-76`). If the
  year has lost the flag to another one since, it does not get it back, and the
  other one loses it too: the school is left without a current year, and a row
  nobody had loaded is written ("a stale write raises, never overwrites",
  `mixins.py:8`). Nothing else takes a flag unseen: `FlagTakenOnlyByRace`.
* The number of a student is edited without a lookup; the dates of a year are
  compared with nothing, also not with its terms; a cohort's year is not compared
  with that of an assignment to it.
* `update_assignment` leaves the unique violation untranslated; an assignment
  without a subject is not held unique, as NULLs are distinct in the index.
* Two guardians added at once both end primary, and one that was loaded as primary
  and has been replaced meanwhile is not made primary again. `is_primary` of
  addresses, contacts and links is kept by nothing.
* Merging can make a cycle of persons. A link whose parent is deleted can neither
  be removed nor made again.
* Deleting an address compares the version only in Python and takes it from
  persons without a look at theirs.

In general:

* Without Redis the dispatcher has no lock at all (`outbox_dispatcher.py:59`; the
  text at `:9` speaks of an advisory lock); the row locks suffice (`PassesApart`).
* StaleDataError and the IntegrityError of a flush are mostly untranslated: a lost
  race is answered 500, while `implementation_plan.md:448` promises 409.
* The CHECK of `audit_logs.action` is rewritten as a whole by several migrations.
  The last one (0022) lists neither the DOCUMENT_* actions of 0020 nor
  TIMETABLE_CREATED, _UPDATED, _PUBLISHED and _ARCHIVED, so these operations
  cannot commit on PostgreSQL.

## 7. What is not modelled

Password hashing and token formats (taken as ideal), request validation, response
shapes, listing and search (no state), logging and metrics. Of the modelled
components: dates, class and type of an enrollment, notes and subjects of slots,
times of periods, names, descriptions and dates that no rule is about, data
scopes (no route asks for one), the policies on schools (the services filter by
them already). Timetable headers and documents cannot commit (see above).

Not modelled yet, with what is hard about each:

* the rate limiter (`core/ratelimit.py`): trimming and counting is one pipeline
  and adding another one (`:177`), so concurrent requests exceed the limit; when
  Redis fails each worker counts from zero in its own memory (`:193`);
* bulk import: a savepoint per row, and a time limit that rolls back everything,
  the job row that reports the progress included (`bulk_import/router.py:81`);
* announcements: publication is one versioned update with its event, which
  OutboxDispatcher's publish stands for;
* reports, inbox, feature flags: single-row writes of one request.

## 8. Plan

Done: outbox, authentication, attendance, enrollments, timetables, tenancy,
access, academic records with teachers, and households. In this order:

1. **RateLimiter**: workers sharing a Redis window, failures and the fallback,
   and by how much the limit can be exceeded.
2. **Jobs**: bulk import with savepoints and the time limit, exports.
3. **Announcements** and the publication of their events, composed with
   NotificationDelivery.
4. **ConnectionPool**: requests that hold one connection while they wait for a
   second one (failed logins).
5. The order of two lookups of one request in Records, as steps of their own.
