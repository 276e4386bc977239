---------------------------- MODULE AuthSessions ----------------------------
(***************************************************************************)
(* One account, its refresh-token families and its reset links under       *)
(* concurrent requests: app/modules/auth/service.py and the account        *)
(* updates of app/modules/iam/users/service.py.                            *)
(*                                                                         *)
(* A request is one READ COMMITTED transaction (app/db/session.py).  It    *)
(* reads in one or more steps and writes at its commit; flush and commit   *)
(* are one step because the rows a flush writes stay locked until then.    *)
(* User is versioned (VersionMixin): its UPDATE hits only the version the  *)
(* request loaded and otherwise raises StaleDataError.  RefreshToken and   *)
(* PasswordResetToken are not.  The "durable" helpers and the failure      *)
(* counter run in transactions of their own.                               *)
(***************************************************************************)
EXTENDS Naturals

CONSTANTS Reqs,       \* requests; a token or reset link is named by its maker
          T0,         \* a refresh token issued before, alone in its family
          K0,         \* a reset link issued before
          MaxFailed,  \* settings.login_max_failed_attempts
          None

ASSUME MaxFailedAssumption == MaxFailed \in Nat \ {0}
ASSUME NamesAssumption ==
  /\ T0 \notin Reqs /\ K0 \notin Reqs
  /\ None \notin Reqs \cup {T0, K0}

Tokens == Reqs \cup {T0}
Links == Reqs \cup {K0}
UserStatus == {"ACTIVE", "SUSPENDED"}  \* SUSPENDED: any status but ACTIVE
Gone == "GONE"                         \* what delete asks for: deleted_at is set

VARIABLES
  acct,     \* the users row
  tok,      \* refresh_tokens rows; family None: no such row
  expired,  \* refresh tokens past expires_at
  link,     \* password_reset_tokens rows: "none", "open" or "consumed"
  lapsed,   \* reset links past expires_at
  pc,       \* where each request is in its handler
  loc,      \* what it has read
  out,      \* how it ended
  logged,   \* requests with a login_attempts row
  misses    \* history: wrong passwords answered 401 since the last reset

vars == <<acct, tok, expired, link, lapsed, pc, loc, out, logged, misses>>

-----------------------------------------------------------------------------
Account == [status: UserStatus, deleted: BOOLEAN, version: Nat, pwd: Nat,
            failed_login_count: 0..(MaxFailed - 1), locked: BOOLEAN]
Token == [family: Tokens \cup {None}, rotated: BOOLEAN, revoked: BOOLEAN, pwd: Nat]
Point == {"idle", "login_commit", "fail_read", "fail_commit", "family_read",
          "family_commit", "token_revoke", "refresh_user", "refresh_commit",
          "reset_commit", "confirm_user", "confirm_rows", "confirm_commit",
          "change_rows", "change_commit", "admin_commit", "done"}
Outcome == {"none", "ok", "refused", "stale", "aborted"}
Local == [arg: Tokens \cup Links \cup UserStatus \cup {Gone, None}, version: Nat, pwd: Nat,
          count: Nat, rows: SUBSET Tokens, links: SUBSET Links]

NoToken == [family |-> None, rotated |-> FALSE, revoked |-> FALSE, pwd |-> 0]
NewToken(family, pwd) == [NoToken EXCEPT !.family = family, !.pwd = pwd]
NoLocal == [arg |-> None, version |-> 0, pwd |-> 0, count |-> 0, rows |-> {}, links |-> {}]

Init ==
  /\ acct = [status |-> "ACTIVE", deleted |-> FALSE, version |-> 1, pwd |-> 0,
             failed_login_count |-> 0, locked |-> FALSE]
  /\ tok = [t \in Tokens |-> IF t = T0 THEN NewToken(T0, 0) ELSE NoToken]
  /\ expired = {}
  /\ link = [k \in Links |-> IF k = K0 THEN "open" ELSE "none"]
  /\ lapsed = {}
  /\ pc = [r \in Reqs |-> "idle"]
  /\ loc = [r \in Reqs |-> NoLocal]
  /\ out = [r \in Reqs |-> "none"]
  /\ logged = {}
  /\ misses = 0

-----------------------------------------------------------------------------
(* Steps of a request                                                      *)

Goto(r, p) == pc' = [pc EXCEPT ![r] = p] /\ UNCHANGED out
Finish(r, o) == pc' = [pc EXCEPT ![r] = "done"] /\ out' = [out EXCEPT ![r] = o]
Load(r, l) == loc' = [loc EXCEPT ![r] = l]
Record(r) == logged' = logged \cup {r}
Revoke(rows) == [t \in Tokens |-> IF t \in rows THEN [tok[t] EXCEPT !.revoked = TRUE]
                                                ELSE tok[t]]

(* Faulty variant: a users table without the version column *)
FreshUnchecked(r) == TRUE

(* UPDATE users ... WHERE version = the version this request loaded *)
Fresh(r) == loc[r].version = acct.version

(* What login, principals and reset requests ask of an account *)
Active == acct.status = "ACTIVE" /\ ~acct.deleted

(* login: the account is unknown, locked or not active. *)
LoginRefused(r) ==
  /\ pc[r] = "idle"
  /\ ~Active \/ acct.locked
  /\ Record(r)
  /\ Finish(r, "refused")
  /\ UNCHANGED <<acct, tok, expired, link, lapsed, loc, misses>>

(* login: the account is loaded and the password checked against it. *)
LoginRead(r) ==
  /\ pc[r] = "idle"
  /\ Active /\ ~acct.locked
  /\ \/ Goto(r, "fail_read") /\ Load(r, NoLocal)
     \/ /\ Goto(r, "login_commit")
        /\ Load(r, [NoLocal EXCEPT !.version = acct.version, !.pwd = acct.pwd])
  /\ UNCHANGED <<acct, tok, expired, link, lapsed, logged, misses>>

(* _register_failure loads the account again, in its own transaction. *)
FailRead(r) ==
  /\ pc[r] = "fail_read"
  /\ Load(r, [loc[r] EXCEPT !.version = acct.version, !.count = acct.failed_login_count])
  /\ Goto(r, "fail_commit")
  /\ UNCHANGED <<acct, tok, expired, link, lapsed, logged, misses>>

(* failed_login_count >= settings.login_max_failed_attempts *)
LockoutDue(count) == count >= MaxFailed

(* _register_failure commits, then _record_attempt; a stale version raises *)
(* before the attempt is recorded.                                         *)
FailCommit(r) ==
  /\ pc[r] = "fail_commit"
  /\ IF Fresh(r)
       THEN LET full == LockoutDue(loc[r].count + 1)
            IN  /\ acct' = [acct EXCEPT !.version = @ + 1,
                              !.failed_login_count = IF full THEN 0 ELSE loc[r].count + 1,
                              !.locked = @ \/ full]
                /\ misses' = IF full THEN 0 ELSE misses + 1
                /\ Record(r)
                /\ Finish(r, "refused")
       ELSE Finish(r, "stale") /\ UNCHANGED <<acct, misses, logged>>
  /\ UNCHANGED <<tok, expired, link, lapsed, loc>>

(* login succeeds: counters are reset and a new family is issued. *)
LoginCommit(r) ==
  /\ pc[r] = "login_commit"
  /\ IF Fresh(r)
       THEN /\ acct' = [acct EXCEPT !.version = @ + 1, !.failed_login_count = 0,
                                    !.locked = FALSE]
            /\ misses' = 0
            /\ tok' = [tok EXCEPT ![r] = NewToken(r, loc[r].pwd)]
            /\ Record(r)
            /\ Finish(r, "ok")
       ELSE Finish(r, "stale") /\ UNCHANGED <<acct, tok, misses, logged>>
  /\ UNCHANGED <<expired, link, lapsed, loc>>

(* refresh: the presented token is looked up by digest. *)
RefreshRead(r, t) ==
  /\ pc[r] = "idle"
  /\ tok[t].family # None
  /\ Load(r, [NoLocal EXCEPT !.arg = t])
  /\ Goto(r, CASE tok[t].revoked \/ tok[t].rotated -> "family_read"
               [] ~(tok[t].revoked \/ tok[t].rotated) /\ t \in expired -> "token_revoke"
               [] OTHER -> "refresh_user")
  /\ UNCHANGED <<acct, tok, expired, link, lapsed, logged, misses>>

(* refresh: the token's account is loaded. *)
RefreshUser(r) ==
  /\ pc[r] = "refresh_user"
  /\ \/ Active /\ Goto(r, "refresh_commit")
     \/ acct.deleted /\ Goto(r, "family_read")
     \/ ~acct.deleted /\ acct.status # "ACTIVE" /\ Finish(r, "refused")
  /\ UNCHANGED <<acct, tok, expired, link, lapsed, loc, logged, misses>>

(* refresh: the token is marked rotated and its successor inserted.  The   *)
(* row has no version, so what happened to it since it was read is not     *)
(* noticed.                                                                *)
RefreshCommit(r) ==
  /\ pc[r] = "refresh_commit"
  /\ LET t == loc[r].arg
     IN  tok' = [tok EXCEPT ![t].rotated = TRUE,
                            ![r] = NewToken(tok[t].family, tok[t].pwd)]
  /\ Finish(r, "ok")
  /\ UNCHANGED <<acct, expired, link, lapsed, loc, logged, misses>>

(* _revoke_family_durable: the SELECT of its own transaction. *)
FamilyRead(r) ==
  /\ pc[r] = "family_read"
  /\ Load(r, [loc[r] EXCEPT !.rows = {t \in Tokens : /\ tok[t].family # None
                                                     /\ tok[t].family = tok[loc[r].arg].family}])
  /\ Goto(r, "family_commit")
  /\ UNCHANGED <<acct, tok, expired, link, lapsed, logged, misses>>

FamilyCommit(r) ==
  /\ pc[r] = "family_commit"
  /\ tok' = Revoke(loc[r].rows)
  /\ Finish(r, "refused")
  /\ UNCHANGED <<acct, expired, link, lapsed, loc, logged, misses>>

(* _revoke_token_durable *)
TokenRevoke(r) ==
  /\ pc[r] = "token_revoke"
  /\ tok' = Revoke({loc[r].arg})
  /\ Finish(r, "refused")
  /\ UNCHANGED <<acct, expired, link, lapsed, loc, logged, misses>>

(* logout: an authenticated request revokes the token it presents. *)
Logout(r, t) ==
  /\ pc[r] = "idle"
  /\ Active /\ tok[t].family # None
  /\ tok' = Revoke({t})
  /\ Finish(r, "ok")
  /\ UNCHANGED <<acct, expired, link, lapsed, loc, logged, misses>>

(* request_password_reset: known, active accounts only *)
ResetRead(r) ==
  /\ pc[r] = "idle"
  /\ \/ Active /\ Goto(r, "reset_commit")
     \/ ~Active /\ Finish(r, "ok")
  /\ UNCHANGED <<acct, tok, expired, link, lapsed, loc, logged, misses>>

ResetCommit(r) ==
  /\ pc[r] = "reset_commit"
  /\ link' = [link EXCEPT ![r] = "open"]
  /\ Finish(r, "ok")
  /\ UNCHANGED <<acct, tok, expired, lapsed, loc, logged, misses>>

(* confirm_password_reset: the link is looked up. *)
ConfirmRead(r, k) ==
  /\ pc[r] = "idle"
  /\ link[k] # "none"
  /\ IF link[k] = "open" /\ k \notin lapsed
       THEN Load(r, [NoLocal EXCEPT !.arg = k]) /\ Goto(r, "confirm_user")
       ELSE Finish(r, "refused") /\ UNCHANGED loc
  /\ UNCHANGED <<acct, tok, expired, link, lapsed, logged, misses>>

ConfirmUser(r) ==
  /\ pc[r] = "confirm_user"
  /\ IF acct.deleted
       THEN Finish(r, "refused") /\ UNCHANGED loc
       ELSE Load(r, [loc[r] EXCEPT !.version = acct.version]) /\ Goto(r, "confirm_rows")
  /\ UNCHANGED <<acct, tok, expired, link, lapsed, logged, misses>>

(* The rows _revoke_all_user_sessions will revoke *)
OpenSessions == {t \in Tokens : tok[t].family # None /\ ~tok[t].revoked}

(* The other unconsumed links and the user's sessions are loaded. *)
ConfirmRows(r) ==
  /\ pc[r] = "confirm_rows"
  /\ Load(r, [loc[r] EXCEPT !.rows = OpenSessions,
                            !.links = {k \in Links : link[k] = "open"} \ {loc[r].arg}])
  /\ Goto(r, "confirm_commit")
  /\ UNCHANGED <<acct, tok, expired, link, lapsed, logged, misses>>

(* Faulty variant: the failure counter is not reset. *)
NewPasswordOnly == [acct EXCEPT !.version = @ + 1, !.pwd = @ + 1]

(* What a new password does to the account row *)
NewPassword == [acct EXCEPT !.version = @ + 1, !.pwd = @ + 1,
                            !.failed_login_count = 0, !.locked = FALSE]

ConfirmCommit(r) ==
  /\ pc[r] = "confirm_commit"
  /\ IF Fresh(r)
       THEN /\ acct' = [NewPassword EXCEPT !.status = "ACTIVE"]
            /\ misses' = 0
            /\ link' = [k \in Links |-> IF k \in loc[r].links \cup {loc[r].arg}
                                          THEN "consumed" ELSE link[k]]
            /\ tok' = Revoke(loc[r].rows)
            /\ Finish(r, "ok")
       ELSE Finish(r, "stale") /\ UNCHANGED <<acct, tok, link, misses>>
  /\ UNCHANGED <<expired, lapsed, loc, logged>>

(* change_password by an authenticated, active user *)
ChangeRead(r) ==
  /\ pc[r] = "idle"
  /\ Active
  /\ \/ Finish(r, "refused") /\ UNCHANGED loc
     \/ Load(r, [NoLocal EXCEPT !.version = acct.version]) /\ Goto(r, "change_rows")
  /\ UNCHANGED <<acct, tok, expired, link, lapsed, logged, misses>>

ChangeRows(r) ==
  /\ pc[r] = "change_rows"
  /\ Load(r, [loc[r] EXCEPT !.rows = OpenSessions])
  /\ Goto(r, "change_commit")
  /\ UNCHANGED <<acct, tok, expired, link, lapsed, logged, misses>>

ChangeCommit(r) ==
  /\ pc[r] = "change_commit"
  /\ IF Fresh(r)
       THEN /\ acct' = NewPassword
            /\ misses' = 0
            /\ tok' = Revoke(loc[r].rows)
            /\ Finish(r, "ok")
       ELSE Finish(r, "stale") /\ UNCHANGED <<acct, tok, misses>>
  /\ UNCHANGED <<expired, link, lapsed, loc, logged>>

(* users.service update and delete: an administrator sets the status or    *)
(* deletes; refused when the version it was shown is not the row's.        *)
AdminRead(r, s) ==
  /\ pc[r] = "idle"
  /\ ~acct.deleted
  /\ \/ Finish(r, "refused") /\ UNCHANGED loc
     \/ /\ Load(r, [NoLocal EXCEPT !.version = acct.version, !.arg = s])
        /\ Goto(r, "admin_commit")
  /\ UNCHANGED <<acct, tok, expired, link, lapsed, logged, misses>>

AdminCommit(r) ==
  /\ pc[r] = "admin_commit"
  /\ IF Fresh(r)
       THEN /\ acct' = IF loc[r].arg = Gone
                         THEN [acct EXCEPT !.version = @ + 1, !.deleted = TRUE]
                         ELSE [acct EXCEPT !.version = @ + 1, !.status = loc[r].arg]
            /\ Finish(r, "ok")
       ELSE Finish(r, "stale") /\ UNCHANGED acct
  /\ UNCHANGED <<tok, expired, link, lapsed, loc, logged, misses>>

(* The client disconnects or the process dies: the transaction is rolled   *)
(* back.                                                                   *)
Abort(r) ==
  /\ pc[r] \notin {"idle", "done"}
  /\ Finish(r, "aborted")
  /\ UNCHANGED <<acct, tok, expired, link, lapsed, loc, logged, misses>>

-----------------------------------------------------------------------------
(* Time                                                                    *)

TokenExpires(t) ==
  /\ tok[t].family # None /\ t \notin expired
  /\ expired' = expired \cup {t}
  /\ UNCHANGED <<acct, tok, link, lapsed, pc, loc, out, logged, misses>>

LinkLapses(k) ==
  /\ link[k] = "open" /\ k \notin lapsed
  /\ lapsed' = lapsed \cup {k}
  /\ UNCHANGED <<acct, tok, expired, link, pc, loc, out, logged, misses>>

(* locked_until passes; no row is written. *)
LockoutEnds ==
  /\ acct.locked
  /\ acct' = [acct EXCEPT !.locked = FALSE]
  /\ UNCHANGED <<tok, expired, link, lapsed, pc, loc, out, logged, misses>>

Request(r) ==
  \/ LoginRefused(r) \/ LoginRead(r) \/ FailRead(r) \/ FailCommit(r) \/ LoginCommit(r)
  \/ \E t \in Tokens : RefreshRead(r, t)
  \/ RefreshUser(r) \/ RefreshCommit(r)
  \/ FamilyRead(r) \/ FamilyCommit(r) \/ TokenRevoke(r)
  \/ \E t \in Tokens : Logout(r, t)
  \/ ResetRead(r) \/ ResetCommit(r)
  \/ \E k \in Links : ConfirmRead(r, k)
  \/ ConfirmUser(r) \/ ConfirmRows(r) \/ ConfirmCommit(r)
  \/ ChangeRead(r) \/ ChangeRows(r) \/ ChangeCommit(r)
  \/ \E s \in UserStatus \cup {Gone} : AdminRead(r, s)
  \/ AdminCommit(r)
  \/ Abort(r)

Next ==
  \/ \E r \in Reqs : Request(r)
  \/ \E t \in Tokens : TokenExpires(t)
  \/ \E k \in Links : LinkLapses(k)
  \/ LockoutEnds

Spec == Init /\ [][Next]_vars

-----------------------------------------------------------------------------
(* Properties                                                              *)

TypeOK ==
  /\ acct \in Account
  /\ tok \in [Tokens -> Token]
  /\ expired \subseteq Tokens
  /\ link \in [Links -> {"none", "open", "consumed"}]
  /\ lapsed \subseteq Links
  /\ pc \in [Reqs -> Point]
  /\ loc \in [Reqs -> Local]
  /\ out \in [Reqs -> Outcome]
  /\ logged \subseteq Reqs
  /\ misses \in Nat

(* A session that a login opened is never honoured under a later password: *)
(* a login that checked the old password cannot commit after the change,   *)
(* and a change that did not see a session cannot commit after the login   *)
(* (both write the versioned users row).                                   *)
LoginSessionsCurrent ==
  \A t \in Tokens : tok[t].family = t /\ ~tok[t].revoked => tok[t].pwd = acct.pwd

(* Every wrong password that was answered 401 is in the counter or has     *)
(* been turned into a lockout: concurrent failures never overwrite each    *)
(* other's count, although each computes it from its own read.             *)
NoLostFailure == acct.failed_login_count = misses

(* No login opens a session on an account that is locked, suspended or     *)
(* deleted at that moment, although it was checked steps earlier.          *)
NoLoginWhenBarred ==
  [][\A r \in Reqs : tok[r].family = None /\ tok'[r].family = r =>
       Active /\ ~acct.locked]_tok

(* The password of a deleted account is never set again: a reset or a      *)
(* change that loaded the account before the deletion cannot commit after. *)
DeletedKeepsPassword ==
  [][acct'.pwd # acct.pwd => ~acct.deleted]_acct
=============================================================================
