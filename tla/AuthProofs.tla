----------------------------- MODULE AuthProofs -----------------------------
(***************************************************************************)
(* Proofs about AuthSessions, for any number of concurrent requests and    *)
(* every lockout limit.                                                    *)
(*                                                                         *)
(* The argument is that of optimistic locking: while the version a request *)
(* has loaded is still the account's, everything it read of the account is *)
(* still true (the ...Seen invariants), because every other commit that    *)
(* changes the account also moves the version.                             *)
(***************************************************************************)
EXTENDS AuthSessions, TLAPS

-----------------------------------------------------------------------------
(* The inductive invariant                                                 *)

TokenPoint == {"refresh_user", "refresh_commit", "family_read", "family_commit",
               "token_revoke"}
LinkPoint == {"confirm_user", "confirm_rows", "confirm_commit"}
SetterPoint == {"confirm_rows", "confirm_commit", "change_rows", "change_commit"}

(* The argument a request carries is of the kind its handler expects. *)
ArgOK ==
  \A r \in Reqs :
    /\ pc[r] \in TokenPoint => loc[r].arg \in Tokens
    /\ pc[r] \in LinkPoint => loc[r].arg \in Links
    /\ pc[r] = "admin_commit" => loc[r].arg \in UserStatus \cup {Gone}

(* Versions only grow. *)
VersionBound == \A r \in Reqs : loc[r].version <= acct.version

(* A login whose version is current still sees the account it checked. *)
LoginSeen ==
  \A r \in Reqs : pc[r] = "login_commit" /\ Fresh(r) =>
    loc[r].pwd = acct.pwd /\ Active /\ ~acct.locked

(* A failure whose version is current holds the current count. *)
FailSeen ==
  \A r \in Reqs : pc[r] = "fail_commit" /\ Fresh(r) =>
    loc[r].count = acct.failed_login_count

(* A password change whose version is current knows every login session. *)
RowsSeen ==
  \A r \in Reqs : pc[r] \in {"confirm_commit", "change_commit"} /\ Fresh(r) =>
    \A t \in Tokens : tok[t].family = t /\ ~tok[t].revoked => t \in loc[r].rows

(* A password change whose version is current is not on a deleted account. *)
UndeletedSeen ==
  \A r \in Reqs : pc[r] \in SetterPoint /\ Fresh(r) => ~acct.deleted

(* A request makes at most one token, at its end. *)
OwnSlot == \A r \in Reqs : pc[r] # "done" => tok[r].family = None

(* Every family is named after the login that opened it. *)
FamilyRooted ==
  \A t \in Tokens : tok[t].family # None => tok[tok[t].family].family = tok[t].family

IInv ==
  /\ TypeOK
  /\ ArgOK
  /\ VersionBound
  /\ LoginSeen
  /\ FailSeen
  /\ RowsSeen
  /\ UndeletedSeen
  /\ OwnSlot
  /\ FamilyRooted
  /\ LoginSessionsCurrent
  /\ NoLostFailure

-----------------------------------------------------------------------------
(* Typing                                                                  *)

(* Tokens stay tokens: issued, revoked or rotated.                         *)
LEMMA TokenTypes ==
  ASSUME TypeOK
  PROVE  /\ \A f \in Tokens \cup {None}, p \in Nat : NewToken(f, p) \in Token
         /\ \A R : Revoke(R) \in [Tokens -> Token]
  BY DEF TypeOK, NewToken, NoToken, Token, Revoke

(* A rotated token is a token.                                             *)
LEMMA RotatedType == \A t \in Token : [t EXCEPT !.rotated = TRUE] \in Token
  BY DEF Token

(* What the handlers load is well typed.                                   *)
LEMMA LocalUpdates ==
  /\ NoLocal \in Local
  /\ \A v \in Nat, p \in Nat : [NoLocal EXCEPT !.version = v, !.pwd = p] \in Local
  /\ \A v \in Nat, s \in UserStatus \cup {Gone} :
       [NoLocal EXCEPT !.version = v, !.arg = s] \in Local
  /\ \A l \in Local, v \in Nat, c \in Nat : [l EXCEPT !.version = v, !.count = c] \in Local
  /\ \A l \in Local, R \in SUBSET Tokens : [l EXCEPT !.rows = R] \in Local
  /\ \A l \in Local, R \in SUBSET Tokens, K \in SUBSET Links :
       [l EXCEPT !.rows = R, !.links = K] \in Local
  BY DEF Local, NoLocal

(* What the handlers write to the account is an account.                   *)
LEMMA AccountUpdates ==
  /\ \A a \in Account, v \in Nat, p \in Nat, c \in 0..(MaxFailed - 1), b \in BOOLEAN :
       [a EXCEPT !.version = v, !.pwd = p, !.failed_login_count = c, !.locked = b] \in Account
  /\ \A a \in Account, v \in Nat, c \in 0..(MaxFailed - 1), b \in BOOLEAN :
       [a EXCEPT !.version = v, !.failed_login_count = c, !.locked = b] \in Account
  /\ \A a \in Account, v \in Nat, s \in UserStatus :
       [a EXCEPT !.version = v, !.status = s] \in Account
  /\ \A a \in Account, v \in Nat, b \in BOOLEAN :
       [a EXCEPT !.version = v, !.deleted = b] \in Account
  BY DEF Account

(* The fields of the account row, and the row a new password makes of it.  *)
LEMMA AccountTypes ==
  ASSUME TypeOK
  PROVE  /\ acct.version \in Nat /\ acct.version + 1 \in Nat
         /\ acct.pwd \in Nat /\ acct.failed_login_count \in Nat
         /\ acct.locked \in BOOLEAN
         /\ 0 \in 0..(MaxFailed - 1) /\ FALSE \in BOOLEAN /\ TRUE \in BOOLEAN
         /\ NewPassword \in Account
         /\ [NewPassword EXCEPT !.status = "ACTIVE"] \in Account
  <1>1. /\ acct.version \in Nat /\ acct.version + 1 \in Nat
        /\ acct.pwd \in Nat /\ acct.pwd + 1 \in Nat /\ acct.failed_login_count \in Nat
    BY MaxFailedAssumption DEF TypeOK, Account
  <1>2. 0 \in 0..(MaxFailed - 1)
    BY MaxFailedAssumption
  <1>3. FALSE \in BOOLEAN /\ TRUE \in BOOLEAN
    OBVIOUS
  <1>4. acct \in Account /\ acct.locked \in BOOLEAN
    BY DEF TypeOK, Account
  <1>5. NewPassword \in Account
    BY <1>1, <1>2, <1>3, <1>4, AccountUpdates, Zenon DEF NewPassword
  <1>6. [NewPassword EXCEPT !.status = "ACTIVE"] \in Account
    BY <1>5 DEF Account, UserStatus
  <1> QED BY <1>1, <1>2, <1>3, <1>4, <1>5, <1>6

(* Every step keeps the state well typed and the arguments in their kind.  *)
LEMMA TypeStep == TypeOK /\ ArgOK /\ [Next]_vars => TypeOK' /\ ArgOK'
  <1> SUFFICES ASSUME TypeOK, ArgOK, [Next]_vars PROVE TypeOK' /\ ArgOK'
    OBVIOUS
  <1> USE DEF TypeOK, ArgOK, Tokens, Links, TokenPoint, LinkPoint
  <1>1. ASSUME NEW r \in Reqs, LoginRefused(r) PROVE TypeOK' /\ ArgOK'
    BY <1>1 DEF LoginRefused, Finish, Record, Outcome, Point
  <1>2. ASSUME NEW r \in Reqs, LoginRead(r) PROVE TypeOK' /\ ArgOK'
    <2>1. [NoLocal EXCEPT !.version = acct.version, !.pwd = acct.pwd] \in Local
      BY AccountTypes, LocalUpdates
    <2>2. loc' \in [Reqs -> Local]
      BY <1>2, <2>1, LocalUpdates DEF LoginRead, Load
    <2>3. \A q \in Reqs : q # r => loc'[q] = loc[q]
      BY <1>2 DEF LoginRead, Load
    <2> QED BY <1>2, <2>2, <2>3 DEF LoginRead, Goto, Point
  <1>3. ASSUME NEW r \in Reqs, FailRead(r) PROVE TypeOK' /\ ArgOK'
    <2>1. loc[r] \in Local
      OBVIOUS
    <2>2. loc' \in [Reqs -> Local]
      BY <1>3, <2>1, AccountTypes, LocalUpdates DEF FailRead, Load
    <2>3. \A q \in Reqs : q # r => loc'[q] = loc[q]
      BY <1>3 DEF FailRead, Load
    <2> QED BY <1>3, <2>2, <2>3 DEF FailRead, Goto, Point
  <1>4. ASSUME NEW r \in Reqs, FailCommit(r) PROVE TypeOK' /\ ArgOK'
    <2>1. acct' \in Account
      <3>1. loc[r].count \in Nat
        BY DEF Local
      <3> DEFINE full == LockoutDue(loc[r].count + 1)
      <3> DEFINE count == IF full THEN 0 ELSE loc[r].count + 1
      <3> DEFINE locked == acct.locked \/ full
      <3>2. count \in 0..(MaxFailed - 1)
        BY <3>1, MaxFailedAssumption DEF LockoutDue
      <3>3. locked \in BOOLEAN
        OBVIOUS
      <3>4. [acct EXCEPT !.version = acct.version + 1, !.failed_login_count = count,
                         !.locked = locked] \in Account
        <4> HIDE DEF count, locked
        <4>1. acct \in Account /\ acct.version + 1 \in Nat
          BY AccountTypes
        <4> QED BY <3>2, <3>3, <4>1, AccountUpdates, Zenon
      <3> QED BY <1>4, <3>4, Zenon DEF FailCommit
    <2>2. misses' \in Nat
      BY <1>4 DEF FailCommit
    <2> QED BY <1>4, <2>1, <2>2 DEF FailCommit, Finish, Record, Outcome, Point
  <1>5. ASSUME NEW r \in Reqs, LoginCommit(r) PROVE TypeOK' /\ ArgOK'
    <2>1. acct' \in Account
      <3>1. [acct EXCEPT !.version = acct.version + 1, !.failed_login_count = 0,
                         !.locked = FALSE] \in Account
        BY AccountTypes, AccountUpdates, Zenon
      <3> QED BY <1>5, <3>1, Zenon DEF LoginCommit
    <2>2. tok' \in [Tokens -> Token]
      <3>1. loc[r].pwd \in Nat
        BY DEF Local
      <3> QED BY <1>5, <3>1, TokenTypes DEF LoginCommit
    <2>3. misses' \in Nat
      BY <1>5 DEF LoginCommit
    <2> QED BY <1>5, <2>1, <2>2, <2>3 DEF LoginCommit, Finish, Record, Outcome, Point
  <1>6. ASSUME NEW r \in Reqs, NEW t \in Tokens, RefreshRead(r, t) PROVE TypeOK' /\ ArgOK'
    BY <1>6 DEF RefreshRead, Goto, Load, Point, Local, NoLocal
  <1>7. ASSUME NEW r \in Reqs, RefreshUser(r) PROVE TypeOK' /\ ArgOK'
    BY <1>7 DEF RefreshUser, Goto, Finish, Point, Outcome
  <1>8. ASSUME NEW r \in Reqs, RefreshCommit(r) PROVE TypeOK' /\ ArgOK'
    <2> DEFINE t == loc[r].arg
    <2>1. t \in Tokens
      BY <1>8 DEF RefreshCommit
    <2>2. NewToken(tok[t].family, tok[t].pwd) \in Token
      <3>1. tok[t].family \in Tokens \cup {None} /\ tok[t].pwd \in Nat
        BY <2>1 DEF Token
      <3> QED BY <3>1, TokenTypes DEF Tokens
    <2>3. [tok[t] EXCEPT !.rotated = TRUE] \in Token
      BY <2>1, RotatedType
    <2>4. tok' \in [Tokens -> Token]
      BY <1>8, <2>1, <2>2, <2>3 DEF RefreshCommit
    <2> QED BY <1>8, <2>4 DEF RefreshCommit, Finish, Point, Outcome
  <1>9. ASSUME NEW r \in Reqs, FamilyRead(r) PROVE TypeOK' /\ ArgOK'
    <2> DEFINE R == {t \in Tokens : tok[t].family # None /\ tok[t].family = tok[loc[r].arg].family}
    <2>1. loc[r] \in Local /\ R \in SUBSET Tokens
      OBVIOUS
    <2>2. [loc[r] EXCEPT !.rows = R] \in Local
      <3> HIDE DEF R
      <3> QED BY <2>1, LocalUpdates
    <2>3. loc' = [loc EXCEPT ![r] = [loc[r] EXCEPT !.rows = R]]
      BY <1>9 DEF FamilyRead, Load
    <2> HIDE DEF R
    <2>4. loc' \in [Reqs -> Local] /\ \A q \in Reqs : loc'[q].arg = loc[q].arg
      BY <2>2, <2>3 DEF Local
    <2> QED BY <1>9, <2>4 DEF FamilyRead, Goto, Point
  <1>10. ASSUME NEW r \in Reqs, FamilyCommit(r) PROVE TypeOK' /\ ArgOK'
    BY <1>10, TokenTypes DEF FamilyCommit, Finish, Point, Outcome
  <1>11. ASSUME NEW r \in Reqs, TokenRevoke(r) PROVE TypeOK' /\ ArgOK'
    BY <1>11, TokenTypes DEF TokenRevoke, Finish, Point, Outcome
  <1>12. ASSUME NEW r \in Reqs, NEW t \in Tokens, Logout(r, t) PROVE TypeOK' /\ ArgOK'
    BY <1>12, TokenTypes DEF Logout, Finish, Point, Outcome
  <1>13. ASSUME NEW r \in Reqs, ResetRead(r) PROVE TypeOK' /\ ArgOK'
    BY <1>13 DEF ResetRead, Goto, Finish, Point, Outcome
  <1>14. ASSUME NEW r \in Reqs, ResetCommit(r) PROVE TypeOK' /\ ArgOK'
    BY <1>14 DEF ResetCommit, Finish, Point, Outcome
  <1>15. ASSUME NEW r \in Reqs, NEW k \in Links, ConfirmRead(r, k) PROVE TypeOK' /\ ArgOK'
    BY <1>15 DEF ConfirmRead, Goto, Finish, Load, Point, Outcome, Local, NoLocal
  <1>16. ASSUME NEW r \in Reqs, ConfirmUser(r) PROVE TypeOK' /\ ArgOK'
    BY <1>16, AccountTypes DEF ConfirmUser, Goto, Finish, Load, Point, Outcome, Local
  <1>17. ASSUME NEW r \in Reqs, ConfirmRows(r) PROVE TypeOK' /\ ArgOK'
    <2> DEFINE R == OpenSessions
    <2> DEFINE K == {k \in Links : link[k] = "open"} \ {loc[r].arg}
    <2>1. loc[r] \in Local /\ R \in SUBSET Tokens /\ K \in SUBSET Links
      BY DEF OpenSessions
    <2>2. [loc[r] EXCEPT !.rows = R, !.links = K] \in Local
      <3> HIDE DEF R, K
      <3> QED BY <2>1, LocalUpdates
    <2>3. loc' = [loc EXCEPT ![r] = [loc[r] EXCEPT !.rows = R, !.links = K]]
      BY <1>17 DEF ConfirmRows, Load
    <2> HIDE DEF R, K
    <2>4. loc' \in [Reqs -> Local] /\ \A q \in Reqs : loc'[q].arg = loc[q].arg
      BY <2>2, <2>3 DEF Local
    <2> QED BY <1>17, <2>4 DEF ConfirmRows, Goto, Point
  <1>18. ASSUME NEW r \in Reqs, ConfirmCommit(r) PROVE TypeOK' /\ ArgOK'
    BY <1>18, TokenTypes, AccountTypes DEF ConfirmCommit, Finish, Point, Outcome
  <1>19. ASSUME NEW r \in Reqs, ChangeRead(r) PROVE TypeOK' /\ ArgOK'
    BY <1>19, AccountTypes DEF ChangeRead, Goto, Finish, Load, Point, Outcome, Local, NoLocal
  <1>20. ASSUME NEW r \in Reqs, ChangeRows(r) PROVE TypeOK' /\ ArgOK'
    <2> DEFINE R == OpenSessions
    <2>1. loc[r] \in Local /\ R \in SUBSET Tokens
      BY DEF OpenSessions
    <2>2. [loc[r] EXCEPT !.rows = R] \in Local
      <3> HIDE DEF R
      <3> QED BY <2>1, LocalUpdates
    <2>3. loc' = [loc EXCEPT ![r] = [loc[r] EXCEPT !.rows = R]]
      BY <1>20 DEF ChangeRows, Load
    <2> HIDE DEF R
    <2>4. loc' \in [Reqs -> Local] /\ \A q \in Reqs : loc'[q].arg = loc[q].arg
      BY <2>2, <2>3 DEF Local
    <2> QED BY <1>20, <2>4 DEF ChangeRows, Goto, Point
  <1>21. ASSUME NEW r \in Reqs, ChangeCommit(r) PROVE TypeOK' /\ ArgOK'
    BY <1>21, TokenTypes, AccountTypes DEF ChangeCommit, Finish, Point, Outcome
  <1>22. ASSUME NEW r \in Reqs, NEW s \in UserStatus \cup {Gone}, AdminRead(r, s)
         PROVE  TypeOK' /\ ArgOK'
    <2>1. [NoLocal EXCEPT !.version = acct.version, !.arg = s] \in Local
      BY AccountTypes, LocalUpdates
    <2>2. loc' \in [Reqs -> Local]
      BY <1>22, <2>1 DEF AdminRead, Load
    <2>3. \A q \in Reqs : q # r => loc'[q] = loc[q]
      BY <1>22 DEF AdminRead, Load
    <2>4. pc'[r] = "admin_commit" => loc'[r].arg = s
      <3>1. [NoLocal EXCEPT !.version = acct.version, !.arg = s].arg = s
        BY DEF NoLocal
      <3>2. pc'[r] = "admin_commit" =>
              loc'[r] = [NoLocal EXCEPT !.version = acct.version, !.arg = s]
        BY <1>22 DEF AdminRead, Load, Goto, Finish
      <3> QED BY <3>1, <3>2
    <2> QED BY <1>22, <2>2, <2>3, <2>4 DEF AdminRead, Goto, Finish, Point, Outcome
  <1>23. ASSUME NEW r \in Reqs, AdminCommit(r) PROVE TypeOK' /\ ArgOK'
    <2>1. acct' \in Account
      <3>1. loc[r].arg \in UserStatus \cup {Gone}
        BY <1>23 DEF AdminCommit
      <3>2. loc[r].arg # Gone => loc[r].arg \in UserStatus
        BY <3>1
      <3>3. /\ [acct EXCEPT !.version = acct.version + 1, !.deleted = TRUE] \in Account
            /\ \A s \in UserStatus :
                 [acct EXCEPT !.version = acct.version + 1, !.status = s] \in Account
        BY AccountTypes, AccountUpdates, Zenon
      <3> QED BY <1>23, <3>2, <3>3, Zenon DEF AdminCommit
    <2> QED BY <1>23, <2>1 DEF AdminCommit, Finish, Point, Outcome
  <1>24. ASSUME NEW r \in Reqs, Abort(r) PROVE TypeOK' /\ ArgOK'
    BY <1>24 DEF Abort, Finish, Point, Outcome
  <1>25. ASSUME NEW t \in Tokens, TokenExpires(t) PROVE TypeOK' /\ ArgOK'
    BY <1>25 DEF TokenExpires
  <1>26. ASSUME NEW k \in Links, LinkLapses(k) PROVE TypeOK' /\ ArgOK'
    BY <1>26 DEF LinkLapses
  <1>27. CASE LockoutEnds
    BY <1>27 DEF LockoutEnds, Account
  <1>28. CASE UNCHANGED vars
    BY <1>28 DEF vars
  <1> QED
    BY <1>1, <1>2, <1>3, <1>4, <1>5, <1>6, <1>7, <1>8, <1>9, <1>10, <1>11,
       <1>12, <1>13, <1>14, <1>15, <1>16, <1>17, <1>18, <1>19, <1>20, <1>21,
       <1>22, <1>23, <1>24, <1>25, <1>26, <1>27, <1>28 DEF Next, Request

-----------------------------------------------------------------------------
(* What a step may do                                                      *)

(* Steps that read, and write neither the account nor a token *)
ReadStep(r) ==
  \/ LoginRefused(r) \/ LoginRead(r) \/ FailRead(r)
  \/ \E t \in Tokens : RefreshRead(r, t)
  \/ RefreshUser(r) \/ FamilyRead(r) \/ ResetRead(r) \/ ResetCommit(r)
  \/ \E k \in Links : ConfirmRead(r, k)
  \/ ConfirmUser(r) \/ ConfirmRows(r) \/ ChangeRead(r) \/ ChangeRows(r)
  \/ \E s \in UserStatus \cup {Gone} : AdminRead(r, s)
  \/ Abort(r)

(* Steps that commit and end the request *)
WriteStep(r) ==
  \/ FailCommit(r) \/ LoginCommit(r) \/ RefreshCommit(r)
  \/ FamilyCommit(r) \/ TokenRevoke(r)
  \/ \E t \in Tokens : Logout(r, t)
  \/ ConfirmCommit(r) \/ ChangeCommit(r) \/ AdminCommit(r)

(* The clock *)
TimeStep ==
  \/ \E t \in Tokens : TokenExpires(t)
  \/ \E k \in Links : LinkLapses(k)
  \/ LockoutEnds

(* Every step of the system is of one of these kinds.                      *)
LEMMA StepKinds ==
  [Next]_vars => \/ \E r \in Reqs : ReadStep(r) \/ WriteStep(r)
                 \/ TimeStep
                 \/ UNCHANGED vars
  BY DEF Next, Request, ReadStep, WriteStep, TimeStep

(* A reading step leaves account, tokens and history alone, and moves only *)
(* its own request.                                                        *)
LEMMA ReadFrame ==
  ASSUME TypeOK, NEW r \in Reqs, ReadStep(r)
  PROVE  /\ acct' = acct /\ tok' = tok /\ misses' = misses
         /\ pc[r] # "done"
         /\ \A q \in Reqs : q # r => pc'[q] = pc[q] /\ loc'[q] = loc[q]
  BY DEF TypeOK, ReadStep, Goto, Finish, Load, LoginRefused, LoginRead, FailRead,
         RefreshRead, RefreshUser, FamilyRead, ResetRead, ResetCommit, ConfirmRead,
         ConfirmUser, ConfirmRows, ChangeRead, ChangeRows, AdminRead, Abort

(* A commit ends its request and moves no other.                           *)
LEMMA WriteFrame ==
  ASSUME TypeOK, NEW r \in Reqs, WriteStep(r)
  PROVE  /\ pc[r] # "done" /\ pc'[r] = "done" /\ loc' = loc
         /\ \A q \in Reqs : q # r => pc'[q] = pc[q]
  BY DEF TypeOK, WriteStep, Finish, FailCommit, LoginCommit, RefreshCommit, FamilyCommit,
         TokenRevoke, Logout, ConfirmCommit, ChangeCommit, AdminCommit

(* The clock moves no request and no token.                                *)
LEMMA TimeFrame ==
  ASSUME TimeStep
  PROVE  /\ pc' = pc /\ loc' = loc /\ tok' = tok /\ misses' = misses
         /\ acct' = acct \/ acct' = [acct EXCEPT !.locked = FALSE]
  BY DEF TimeStep, TokenExpires, LinkLapses, LockoutEnds

(* The fields of the row a new password makes *)
LEMMA NewPasswordFields ==
  ASSUME TypeOK
  PROVE  /\ NewPassword.version = acct.version + 1
         /\ NewPassword.pwd = acct.pwd + 1
         /\ NewPassword.failed_login_count = 0
         /\ NewPassword.deleted = acct.deleted
         /\ [NewPassword EXCEPT !.status = "ACTIVE"].version = acct.version + 1
         /\ [NewPassword EXCEPT !.status = "ACTIVE"].pwd = acct.pwd + 1
         /\ [NewPassword EXCEPT !.status = "ACTIVE"].failed_login_count = 0
  BY DEF TypeOK, Account, NewPassword

(* The account, apart from the end of a lockout *)
SameAccount ==
  /\ acct'.version = acct.version
  /\ acct'.pwd = acct.pwd
  /\ acct'.status = acct.status
  /\ acct'.deleted = acct.deleted
  /\ acct'.failed_login_count = acct.failed_login_count
  /\ acct'.locked => acct.locked

(* A commit either writes the account and moves its version, or leaves it  *)
(* alone.                                                                  *)
LEMMA AccountStep ==
  ASSUME TypeOK, NEW r \in Reqs, WriteStep(r)
  PROVE  acct'.version = acct.version + 1 \/ acct' = acct
  <1>1. CASE FailCommit(r)
    BY <1>1 DEF FailCommit, TypeOK, Account
  <1>2. CASE LoginCommit(r)
    BY <1>2 DEF LoginCommit, TypeOK, Account
  <1>3. CASE RefreshCommit(r) \/ FamilyCommit(r) \/ TokenRevoke(r) \/ \E t \in Tokens : Logout(r, t)
    BY <1>3 DEF RefreshCommit, FamilyCommit, TokenRevoke, Logout
  <1>4. CASE ConfirmCommit(r)
    BY <1>4, NewPasswordFields DEF ConfirmCommit
  <1>5. CASE ChangeCommit(r)
    BY <1>5, NewPasswordFields DEF ChangeCommit
  <1>6. CASE AdminCommit(r)
    BY <1>6 DEF AdminCommit, TypeOK, Account
  <1> QED BY <1>1, <1>2, <1>3, <1>4, <1>5, <1>6 DEF WriteStep

(* No step changes what requests rely on without moving the version.       *)
LEMMA VersionStep ==
  ASSUME TypeOK, [Next]_vars
  PROVE  acct'.version = acct.version + 1 \/ SameAccount
  <1>1. ASSUME NEW r \in Reqs, ReadStep(r) PROVE SameAccount
    BY <1>1, ReadFrame DEF SameAccount
  <1>2. ASSUME NEW r \in Reqs, WriteStep(r) PROVE acct'.version = acct.version + 1 \/ SameAccount
    BY <1>2, AccountStep DEF SameAccount
  <1>3. CASE TimeStep
    BY <1>3, TimeFrame DEF SameAccount, TypeOK, Account
  <1>4. CASE UNCHANGED vars
    BY <1>4 DEF vars, SameAccount
  <1> QED BY <1>1, <1>2, <1>3, <1>4, StepKinds

-----------------------------------------------------------------------------
(* Tokens                                                                  *)

(* Revocation changes the revoked flag alone.                              *)
LEMMA RevokeFields ==
  ASSUME TypeOK, NEW R, NEW t \in Tokens
  PROVE  /\ Revoke(R)[t].family = tok[t].family
         /\ Revoke(R)[t].pwd = tok[t].pwd
         /\ t \in R => Revoke(R)[t].revoked
         /\ tok[t].revoked => Revoke(R)[t].revoked
  BY DEF TypeOK, Token, Revoke

(* What refresh writes: the presented token is rotated and the request's   *)
(* own, new token joins a family that is not named after it.               *)
LEMMA RefreshFields ==
  ASSUME TypeOK, ArgOK, OwnSlot, FamilyRooted, NEW r \in Reqs, RefreshCommit(r)
  PROVE  /\ tok'[r].family # r
         /\ tok'[r].family = tok[loc[r].arg].family
         /\ \A t \in Tokens : t # r => /\ tok'[t].family = tok[t].family
                                       /\ tok'[t].pwd = tok[t].pwd
                                       /\ tok'[t].revoked = tok[t].revoked
  <1> DEFINE a == loc[r].arg
  <1>1. a \in Tokens /\ r \in Tokens
    BY DEF ArgOK, TokenPoint, RefreshCommit, Tokens
  <1>2. tok'[r] = NewToken(tok[a].family, tok[a].pwd)
    BY <1>1 DEF TypeOK, RefreshCommit
  <1>3. tok'[r].family = tok[a].family
    BY <1>2 DEF NewToken, NoToken
  <1>4. tok[a].family # r
    <2>1. tok[r].family = None
      BY DEF OwnSlot, RefreshCommit
    <2>2. r # None
      BY NamesAssumption
    <2> QED BY <1>1, <2>1, <2>2 DEF FamilyRooted
  <1>5. \A t \in Tokens : t # r => tok'[t] = tok[t] \/ tok'[t] = [tok[t] EXCEPT !.rotated = TRUE]
    BY <1>1 DEF TypeOK, RefreshCommit
  <1>6. \A t \in Tokens : t # r => /\ tok'[t].family = tok[t].family
                                   /\ tok'[t].pwd = tok[t].pwd
                                   /\ tok'[t].revoked = tok[t].revoked
    <2> HIDE DEF a
    <2> SUFFICES ASSUME NEW t \in Tokens, t # r
                 PROVE  /\ tok'[t].family = tok[t].family
                        /\ tok'[t].pwd = tok[t].pwd
                        /\ tok'[t].revoked = tok[t].revoked
      OBVIOUS
    <2>1. tok[t] \in Token
      BY DEF TypeOK
    <2>2. CASE tok'[t] = tok[t]
      BY <2>2
    <2>3. CASE tok'[t] = [tok[t] EXCEPT !.rotated = TRUE]
      BY ONLY <2>1, <2>3 DEF Token
    <2> QED BY <1>5, <2>2, <2>3
  <1> QED BY <1>3, <1>4, <1>6

(* What a successful login writes                                          *)
LEMMA LoginFields ==
  ASSUME TypeOK, NEW r \in Reqs, LoginCommit(r), Fresh(r)
  PROVE  /\ acct'.version = acct.version + 1
         /\ acct'.pwd = acct.pwd
         /\ acct'.failed_login_count = 0
         /\ acct'.deleted = acct.deleted
         /\ misses' = 0
         /\ tok'[r].family = r
         /\ tok'[r].pwd = loc[r].pwd
         /\ \A t \in Tokens : t # r => tok'[t] = tok[t]
  <1>1. r \in Tokens
    BY DEF Tokens
  <1>2. acct' = [acct EXCEPT !.version = @ + 1, !.failed_login_count = 0, !.locked = FALSE]
    BY DEF LoginCommit
  <1>3. tok' = [tok EXCEPT ![r] = NewToken(r, loc[r].pwd)] /\ misses' = 0
    BY DEF LoginCommit
  <1>4. /\ acct'.version = acct.version + 1 /\ acct'.pwd = acct.pwd
        /\ acct'.failed_login_count = 0 /\ acct'.deleted = acct.deleted
    BY <1>2 DEF TypeOK, Account
  <1>5. /\ tok'[r] = NewToken(r, loc[r].pwd)
        /\ \A t \in Tokens : t # r => tok'[t] = tok[t]
    BY <1>1, <1>3 DEF TypeOK
  <1>6. NewToken(r, loc[r].pwd).family = r /\ NewToken(r, loc[r].pwd).pwd = loc[r].pwd
    BY DEF NewToken, NoToken
  <1> QED BY <1>3, <1>4, <1>5, <1>6

(* Only a login that finds its version current makes a login session; no   *)
(* other commit revives one or changes the password it stems from.         *)
LEMMA RootStep ==
  ASSUME TypeOK, ArgOK, OwnSlot, FamilyRooted, NEW r \in Reqs, WriteStep(r),
         NEW t \in Tokens, tok'[t].family = t, ~tok'[t].revoked
  PROVE  \/ tok[t].family = t /\ ~tok[t].revoked /\ tok'[t].pwd = tok[t].pwd
         \/ t = r /\ LoginCommit(r) /\ Fresh(r)
  <1>1. CASE FailCommit(r) \/ AdminCommit(r)
    BY <1>1 DEF FailCommit, AdminCommit
  <1>2. CASE LoginCommit(r)
    <2>1. CASE Fresh(r)
      BY <1>2, <2>1, LoginFields
    <2>2. CASE ~Fresh(r)
      BY <1>2, <2>2 DEF LoginCommit
    <2> QED BY <2>1, <2>2
  <1>3. CASE RefreshCommit(r)
    BY <1>3, RefreshFields
  <1>4. CASE FamilyCommit(r) \/ TokenRevoke(r) \/ \E u \in Tokens : Logout(r, u)
    <2>1. PICK R : tok' = Revoke(R)
      BY <1>4 DEF FamilyCommit, TokenRevoke, Logout
    <2> QED BY <2>1, RevokeFields
  <1>5. CASE ConfirmCommit(r) \/ ChangeCommit(r)
    BY <1>5, RevokeFields DEF ConfirmCommit, ChangeCommit
  <1> QED BY <1>1, <1>2, <1>3, <1>4, <1>5 DEF WriteStep

(* A request that has not ended keeps its token slot empty, and families   *)
(* keep their roots.                                                       *)
LEMMA FamilyStep ==
  ASSUME TypeOK, ArgOK, OwnSlot, FamilyRooted, [Next]_vars
  PROVE  OwnSlot' /\ FamilyRooted'
  <1> USE DEF OwnSlot, FamilyRooted
  <1>1. ASSUME tok' = tok, \A r \in Reqs : pc'[r] # "done" => pc[r] # "done"
        PROVE  OwnSlot' /\ FamilyRooted'
    BY <1>1
  <1>2. ASSUME NEW r \in Reqs, ReadStep(r) PROVE OwnSlot' /\ FamilyRooted'
    BY <1>1, <1>2, ReadFrame
  <1>3. ASSUME NEW r \in Reqs, WriteStep(r) PROVE OwnSlot' /\ FamilyRooted'
    <2>1. ASSUME \A t \in Tokens : tok'[t].family = tok[t].family
          PROVE  OwnSlot' /\ FamilyRooted'
      <3>1. OwnSlot'
        BY <1>3, <2>1, WriteFrame DEF Tokens
      <3>2. \A t \in Tokens : tok[t].family # None => tok[t].family \in Tokens
        BY DEF TypeOK, Token
      <3> QED BY <2>1, <3>1, <3>2
    <2>2. CASE FailCommit(r) \/ AdminCommit(r)
      BY <2>1, <2>2 DEF FailCommit, AdminCommit
    <2>3. CASE LoginCommit(r)
      <3>1. CASE Fresh(r)
        <4>1. OwnSlot'
          BY <1>3, <2>3, <3>1, WriteFrame, LoginFields DEF Tokens
        <4>2. \A t \in Tokens : tok[t].family # None => tok[t].family \in Tokens
          BY DEF TypeOK, Token
        <4> QED BY <2>3, <3>1, <4>1, <4>2, LoginFields
      <3>2. CASE ~Fresh(r)
        BY <2>1, <2>3, <3>2 DEF LoginCommit
      <3> QED BY <3>1, <3>2
    <2>4. CASE RefreshCommit(r)
      <3>1. OwnSlot'
        BY <1>3, <2>4, WriteFrame, RefreshFields DEF Tokens
      <3>2. \A t \in Tokens : tok[t].family # None => tok[t].family \in Tokens
        BY DEF TypeOK, Token
      <3>3. loc[r].arg \in Tokens /\ tok[r].family = None
        BY <2>4 DEF ArgOK, TokenPoint, RefreshCommit
      <3>4. \A t \in Tokens : tok[t].family # None => tok[t].family # r
        BY <3>3
      <3> QED BY <2>4, <3>1, <3>2, <3>3, <3>4, RefreshFields
    <2>5. CASE FamilyCommit(r) \/ TokenRevoke(r) \/ \E t \in Tokens : Logout(r, t)
      <3>1. PICK R : tok' = Revoke(R)
        BY <2>5 DEF FamilyCommit, TokenRevoke, Logout
      <3> QED BY <2>1, <3>1, RevokeFields
    <2>6. CASE ConfirmCommit(r) \/ ChangeCommit(r)
      BY <2>1, <2>6, RevokeFields DEF ConfirmCommit, ChangeCommit
    <2> QED BY <1>3, <2>2, <2>3, <2>4, <2>5, <2>6 DEF WriteStep
  <1>4. CASE TimeStep
    BY <1>1, <1>4, TimeFrame
  <1>5. CASE UNCHANGED vars
    BY <1>1, <1>5 DEF vars
  <1> QED BY <1>2, <1>3, <1>4, <1>5, StepKinds

-----------------------------------------------------------------------------
(* Optimistic locking                                                      *)

(* What a request holds after a reading step is true of the account.       *)
LEMMA ReadSeen ==
  ASSUME IInv, NEW r \in Reqs, ReadStep(r)
  PROVE  /\ loc'[r].version <= acct.version
         /\ pc'[r] = "login_commit" =>
              loc'[r].pwd = acct.pwd /\ Active /\ ~acct.locked
         /\ pc'[r] = "fail_commit" => loc'[r].count = acct.failed_login_count
         /\ pc'[r] \in {"confirm_commit", "change_commit"} => loc'[r].rows = OpenSessions
         /\ pc'[r] \in SetterPoint /\ loc'[r].version = acct.version => ~acct.deleted
  <1> DEFINE Goal == /\ loc'[r].version <= acct.version
                     /\ pc'[r] = "login_commit" =>
                          loc'[r].pwd = acct.pwd /\ Active /\ ~acct.locked
                     /\ pc'[r] = "fail_commit" => loc'[r].count = acct.failed_login_count
                     /\ pc'[r] \in {"confirm_commit", "change_commit"} =>
                          loc'[r].rows = OpenSessions
                     /\ pc'[r] \in SetterPoint /\ loc'[r].version = acct.version =>
                          ~acct.deleted
  <1> USE DEF SetterPoint
  <1>0. /\ TypeOK /\ acct.version \in Nat /\ loc[r] \in Local /\ loc[r].version <= acct.version
        /\ NoLocal.version = 0
    BY AccountTypes DEF IInv, TypeOK, VersionBound, NoLocal
  <1>1. CASE LoginRefused(r) \/ RefreshUser(r) \/ ResetRead(r) \/ ResetCommit(r) \/ Abort(r)
    BY <1>0, <1>1 DEF LoginRefused, RefreshUser, ResetRead, ResetCommit, Abort, Goto, Finish, TypeOK
  <1>2. CASE LoginRead(r)
    <2>1. /\ [NoLocal EXCEPT !.version = acct.version, !.pwd = acct.pwd].version = acct.version
          /\ [NoLocal EXCEPT !.version = acct.version, !.pwd = acct.pwd].pwd = acct.pwd
      BY DEF NoLocal
    <2>2. /\ Active /\ ~acct.locked
          /\ \/ pc'[r] = "fail_read" /\ loc'[r] = NoLocal
             \/ /\ pc'[r] = "login_commit"
                /\ loc'[r] = [NoLocal EXCEPT !.version = acct.version, !.pwd = acct.pwd]
      BY <1>0, <1>2 DEF LoginRead, Goto, Load, TypeOK
    <2>3. \/ pc'[r] = "fail_read" /\ loc'[r].version = 0
          \/ /\ pc'[r] = "login_commit"
             /\ loc'[r].version = acct.version /\ loc'[r].pwd = acct.pwd
      BY <1>0, <2>1, <2>2, Zenon
    <2> QED BY <1>0, <2>2, <2>3
  <1>3. CASE FailRead(r)
    <2>1. /\ [loc[r] EXCEPT !.version = acct.version,
                            !.count = acct.failed_login_count].version = acct.version
          /\ [loc[r] EXCEPT !.version = acct.version,
                            !.count = acct.failed_login_count].count = acct.failed_login_count
      BY <1>0 DEF Local
    <2> QED BY <1>0, <1>3, <2>1 DEF FailRead, Goto, Load, TypeOK
  <1>4. ASSUME NEW t \in Tokens, RefreshRead(r, t) PROVE Goal
    <2>1. [NoLocal EXCEPT !.arg = t].version = 0
      BY DEF NoLocal
    <2> QED BY <1>0, <1>4, <2>1 DEF RefreshRead, Goto, Load, TypeOK
  <1>5. CASE FamilyRead(r)
    <2>1. \A R : [loc[r] EXCEPT !.rows = R].version = loc[r].version
      BY <1>0 DEF Local
    <2>2. loc'[r].version = loc[r].version
      BY <1>5, <2>1 DEF FamilyRead, Load, IInv, TypeOK
    <2> QED BY <1>0, <1>5, <2>2 DEF FamilyRead, Goto, TypeOK
  <1>6. ASSUME NEW k \in Links, ConfirmRead(r, k) PROVE Goal
    <2>1. [NoLocal EXCEPT !.arg = k].version = 0
      BY DEF NoLocal
    <2>2. \/ pc'[r] = "confirm_user" /\ loc'[r] = [NoLocal EXCEPT !.arg = k]
          \/ pc'[r] = "done" /\ loc'[r] = loc[r]
      BY <1>0, <1>6 DEF ConfirmRead, Goto, Finish, Load, TypeOK
    <2>3. pc'[r] \in {"confirm_user", "done"} /\ (loc'[r].version = 0 \/ loc'[r] = loc[r])
      BY <2>1, <2>2, Zenon
    <2> QED BY <1>0, <2>3
  <1>7. CASE ConfirmUser(r)
    <2>1. [loc[r] EXCEPT !.version = acct.version].version = acct.version
      BY <1>0 DEF Local
    <2>2. \/ pc'[r] = "done" /\ loc'[r] = loc[r]
          \/ /\ pc'[r] = "confirm_rows" /\ ~acct.deleted
             /\ loc'[r] = [loc[r] EXCEPT !.version = acct.version]
      BY <1>0, <1>7 DEF ConfirmUser, Goto, Finish, Load, TypeOK
    <2>3. \/ pc'[r] = "done" /\ loc'[r] = loc[r]
          \/ pc'[r] = "confirm_rows" /\ ~acct.deleted /\ loc'[r].version = acct.version
      BY <2>1, <2>2, Zenon
    <2> QED BY <1>0, <2>3
  <1>8. CASE ConfirmRows(r)
    <2> DEFINE K == {k \in Links : link[k] = "open"} \ {loc[r].arg}
    <2>1. \A R, L : /\ [loc[r] EXCEPT !.rows = R, !.links = L].version = loc[r].version
                    /\ [loc[r] EXCEPT !.rows = R, !.links = L].rows = R
      BY <1>0 DEF Local
    <2>2. loc'[r] = [loc[r] EXCEPT !.rows = OpenSessions, !.links = K]
      BY <1>8 DEF ConfirmRows, Load, IInv, TypeOK
    <2> HIDE DEF K
    <2>3. loc'[r].version = loc[r].version /\ loc'[r].rows = OpenSessions
      BY <2>1, <2>2
    <2>4. pc[r] = "confirm_rows" /\ pc'[r] = "confirm_commit"
      BY <1>8 DEF ConfirmRows, Goto, IInv, TypeOK
    <2> QED BY <1>0, <2>3, <2>4 DEF IInv, UndeletedSeen, Fresh
  <1>9. CASE ChangeRead(r)
    <2>1. [NoLocal EXCEPT !.version = acct.version].version = acct.version
      BY DEF NoLocal
    <2>2. \/ pc'[r] = "done" /\ loc'[r] = loc[r]
          \/ /\ pc'[r] = "change_rows" /\ ~acct.deleted
             /\ loc'[r] = [NoLocal EXCEPT !.version = acct.version]
      BY <1>0, <1>9 DEF ChangeRead, Active, Goto, Finish, Load, TypeOK
    <2>3. \/ pc'[r] = "done" /\ loc'[r] = loc[r]
          \/ pc'[r] = "change_rows" /\ ~acct.deleted /\ loc'[r].version = acct.version
      BY <2>1, <2>2, Zenon
    <2> QED BY <1>0, <2>3
  <1>10. CASE ChangeRows(r)
    <2>1. \A R : /\ [loc[r] EXCEPT !.rows = R].version = loc[r].version
                 /\ [loc[r] EXCEPT !.rows = R].rows = R
      BY <1>0 DEF Local
    <2>2. loc'[r] = [loc[r] EXCEPT !.rows = OpenSessions]
      BY <1>10 DEF ChangeRows, Load, IInv, TypeOK
    <2>3. loc'[r].version = loc[r].version /\ loc'[r].rows = OpenSessions
      BY <2>1, <2>2
    <2>4. pc[r] = "change_rows" /\ pc'[r] = "change_commit"
      BY <1>10 DEF ChangeRows, Goto, IInv, TypeOK
    <2> QED BY <1>0, <2>3, <2>4 DEF IInv, UndeletedSeen, Fresh
  <1>11. ASSUME NEW s \in UserStatus \cup {Gone}, AdminRead(r, s) PROVE Goal
    <2>1. [NoLocal EXCEPT !.version = acct.version, !.arg = s].version = acct.version
      BY DEF NoLocal
    <2>2. \/ pc'[r] = "done" /\ loc'[r] = loc[r]
          \/ /\ pc'[r] = "admin_commit"
             /\ loc'[r] = [NoLocal EXCEPT !.version = acct.version, !.arg = s]
      BY <1>0, <1>11 DEF AdminRead, Goto, Finish, Load, TypeOK
    <2>3. /\ pc'[r] \in {"admin_commit", "done"}
          /\ loc'[r].version = acct.version \/ loc'[r] = loc[r]
      BY <2>1, <2>2, Zenon
    <2> QED BY <1>0, <2>3
  <1> QED
    BY <1>1, <1>2, <1>3, <1>4, <1>5, <1>6, <1>7, <1>8, <1>9, <1>10, <1>11 DEF ReadStep

(* A request that does not move and still finds its version current after  *)
(* a step found it current before, and the account is the one it read.     *)
LEMMA StillFresh ==
  ASSUME IInv, [Next]_vars, NEW q \in Reqs, loc'[q] = loc[q]
  PROVE  /\ loc'[q].version <= acct'.version
         /\ Fresh(q)' => Fresh(q) /\ SameAccount
  <1>1. TypeOK /\ acct.version \in Nat /\ loc[q].version \in Nat
    BY AccountTypes DEF IInv, TypeOK, Local
  <1>2. loc[q].version <= acct.version
    BY DEF IInv, VersionBound
  <1>3. acct'.version = acct.version + 1 \/ SameAccount
    BY <1>1, VersionStep
  <1>4. Fresh(q)' <=> loc[q].version = acct'.version
    BY DEF Fresh
  <1> QED BY <1>1, <1>2, <1>3, <1>4 DEF Fresh, SameAccount

(* A step preserves everything requests rely on.                           *)
LEMMA SeenStep ==
  ASSUME IInv, [Next]_vars
  PROVE  VersionBound' /\ LoginSeen' /\ FailSeen' /\ UndeletedSeen'
  <1> DEFINE Goal(q) == /\ loc'[q].version <= acct'.version
                        /\ pc'[q] = "login_commit" /\ Fresh(q)' =>
                             loc'[q].pwd = acct'.pwd /\ Active' /\ ~acct'.locked
                        /\ pc'[q] = "fail_commit" /\ Fresh(q)' =>
                             loc'[q].count = acct'.failed_login_count
                        /\ pc'[q] \in SetterPoint /\ Fresh(q)' => ~acct'.deleted
  <1> SUFFICES ASSUME NEW q \in Reqs PROVE Goal(q)
    BY DEF VersionBound, LoginSeen, FailSeen, UndeletedSeen
  <1>0. TypeOK
    BY DEF IInv
  <1>1. ASSUME pc'[q] = pc[q] \/ pc'[q] = "done", loc'[q] = loc[q] PROVE Goal(q)
    BY <1>1, StillFresh DEF IInv, LoginSeen, FailSeen, UndeletedSeen, SameAccount, Active,
                            SetterPoint
  <1>2. ASSUME NEW r \in Reqs, ReadStep(r) PROVE Goal(q)
    <2>1. CASE q = r
      BY <1>0, <1>2, <2>1, ReadFrame, ReadSeen DEF Fresh, Active
    <2>2. CASE q # r
      BY <1>0, <1>1, <1>2, <2>2, ReadFrame
    <2> QED BY <2>1, <2>2
  <1>3. ASSUME NEW r \in Reqs, WriteStep(r) PROVE Goal(q)
    BY <1>0, <1>1, <1>3, WriteFrame
  <1>4. CASE TimeStep
    BY <1>1, <1>4, TimeFrame
  <1>5. CASE UNCHANGED vars
    BY <1>1, <1>5 DEF vars
  <1> QED BY <1>2, <1>3, <1>4, <1>5, StepKinds

(* A password change that is still current knows every login session: a    *)
(* login would have moved the version.                                     *)
LEMMA RowsStep == ASSUME IInv, [Next]_vars PROVE RowsSeen'
  <1> SUFFICES ASSUME NEW q \in Reqs, pc'[q] \in {"confirm_commit", "change_commit"}, Fresh(q)',
                      NEW t \in Tokens, tok'[t].family = t, ~tok'[t].revoked
               PROVE  t \in loc'[q].rows
    BY DEF RowsSeen
  <1>0. TypeOK /\ ArgOK /\ OwnSlot /\ FamilyRooted /\ acct.version \in Nat
    BY AccountTypes DEF IInv
  <1>1. ASSUME pc'[q] = pc[q], loc'[q] = loc[q], tok' = tok PROVE t \in loc'[q].rows
    BY <1>1, StillFresh DEF IInv, RowsSeen
  <1>2. ASSUME NEW r \in Reqs, ReadStep(r) PROVE t \in loc'[q].rows
    <2>1. CASE q = r
      <3>1. loc'[q].rows = OpenSessions
        BY <1>2, <2>1, ReadSeen
      <3>2. tok[t].family = t /\ ~tok[t].revoked /\ t # None
        BY <1>0, <1>2, ReadFrame, NamesAssumption DEF Tokens
      <3> QED BY <3>1, <3>2 DEF OpenSessions
    <2>2. CASE q # r
      BY <1>0, <1>1, <1>2, <2>2, ReadFrame
    <2> QED BY <2>1, <2>2
  <1>3. ASSUME NEW r \in Reqs, WriteStep(r) PROVE t \in loc'[q].rows
    <2>1. q # r /\ pc'[q] = pc[q] /\ loc'[q] = loc[q]
      BY <1>0, <1>3, WriteFrame
    <2>2. Fresh(q) /\ SameAccount
      BY <2>1, StillFresh
    <2>3. ~(LoginCommit(r) /\ Fresh(r))
      BY <1>0, <2>2, LoginFields DEF SameAccount
    <2>4. tok[t].family = t /\ ~tok[t].revoked
      BY <1>0, <1>3, <2>3, RootStep
    <2> QED BY <2>1, <2>2, <2>4 DEF IInv, RowsSeen
  <1>4. CASE TimeStep
    BY <1>1, <1>4, TimeFrame
  <1>5. CASE UNCHANGED vars
    BY <1>1, <1>5 DEF vars
  <1> QED BY <1>2, <1>3, <1>4, <1>5, StepKinds

-----------------------------------------------------------------------------
(* The invariants                                                          *)

(* A committed password change revokes every login session there is.       *)
LEMMA ChangeRevokes ==
  ASSUME IInv, NEW r \in Reqs, ConfirmCommit(r) \/ ChangeCommit(r), Fresh(r),
         NEW t \in Tokens, tok'[t].family = t
  PROVE  tok'[t].revoked
  <1>1. TypeOK /\ RowsSeen
    BY DEF IInv
  <1>2. tok' = Revoke(loc[r].rows) /\ pc[r] \in {"confirm_commit", "change_commit"}
    BY DEF ConfirmCommit, ChangeCommit
  <1> QED BY <1>1, <1>2, RevokeFields DEF RowsSeen

(* No step leaves a login session of an earlier password unrevoked.        *)
LEMMA SessionsStep == ASSUME IInv, [Next]_vars PROVE LoginSessionsCurrent'
  <1> SUFFICES ASSUME NEW t \in Tokens, tok'[t].family = t, ~tok'[t].revoked
               PROVE  tok'[t].pwd = acct'.pwd
    BY DEF LoginSessionsCurrent
  <1>0. TypeOK /\ ArgOK /\ OwnSlot /\ FamilyRooted /\ LoginSeen /\ LoginSessionsCurrent
    BY DEF IInv
  <1>1. ASSUME tok' = tok, acct'.pwd = acct.pwd PROVE tok'[t].pwd = acct'.pwd
    BY <1>0, <1>1 DEF LoginSessionsCurrent
  <1>2. ASSUME NEW r \in Reqs, ReadStep(r) PROVE tok'[t].pwd = acct'.pwd
    BY <1>0, <1>1, <1>2, ReadFrame
  <1>3. ASSUME NEW r \in Reqs, WriteStep(r) PROVE tok'[t].pwd = acct'.pwd
    <2>1. CASE LoginCommit(r) /\ Fresh(r)
      <3>1. loc[r].pwd = acct.pwd
        BY <1>0, <2>1 DEF LoginSeen, LoginCommit
      <3>2. CASE t = r
        BY <1>0, <2>1, <3>1, <3>2, LoginFields
      <3>3. CASE t # r
        BY <1>0, <2>1, <3>3, LoginFields DEF LoginSessionsCurrent
      <3> QED BY <3>2, <3>3
    <2>2. CASE ~(LoginCommit(r) /\ Fresh(r))
      <3>1. tok[t].family = t /\ ~tok[t].revoked /\ tok'[t].pwd = tok[t].pwd
        BY <1>0, <1>3, <2>2, RootStep
      <3>2. CASE (ConfirmCommit(r) \/ ChangeCommit(r)) /\ Fresh(r)
        BY <3>2, ChangeRevokes
      <3>3. CASE ~((ConfirmCommit(r) \/ ChangeCommit(r)) /\ Fresh(r))
        <4>1. acct'.pwd = acct.pwd
          <5>1. CASE FailCommit(r)
            BY <1>0, <5>1 DEF FailCommit, TypeOK, Account
          <5>2. CASE AdminCommit(r)
            BY <1>0, <5>2 DEF AdminCommit, TypeOK, Account
          <5>3. CASE LoginCommit(r) \/ ConfirmCommit(r) \/ ChangeCommit(r)
            BY <2>2, <3>3, <5>3 DEF LoginCommit, ConfirmCommit, ChangeCommit
          <5>4. CASE \/ RefreshCommit(r) \/ FamilyCommit(r) \/ TokenRevoke(r)
                     \/ \E u \in Tokens : Logout(r, u)
            BY <5>4 DEF RefreshCommit, FamilyCommit, TokenRevoke, Logout
          <5> QED BY <1>3, <5>1, <5>2, <5>3, <5>4 DEF WriteStep
        <4> QED BY <1>0, <3>1, <4>1 DEF LoginSessionsCurrent
      <3> QED BY <3>2, <3>3
    <2> QED BY <2>1, <2>2
  <1>4. CASE TimeStep
    BY <1>0, <1>1, <1>4, TimeFrame DEF TypeOK, Account
  <1>5. CASE UNCHANGED vars
    BY <1>1, <1>5 DEF vars
  <1> QED BY <1>2, <1>3, <1>4, <1>5, StepKinds

(* No step loses count of a failure.                                       *)
LEMMA FailureStep == ASSUME IInv, [Next]_vars PROVE NoLostFailure'
  <1> USE DEF NoLostFailure
  <1>0. TypeOK /\ FailSeen /\ NoLostFailure
    BY DEF IInv
  <1>1. ASSUME misses' = misses, acct'.failed_login_count = acct.failed_login_count
        PROVE  NoLostFailure'
    BY <1>0, <1>1
  <1>2. ASSUME NEW r \in Reqs, ReadStep(r) PROVE NoLostFailure'
    BY <1>0, <1>1, <1>2, ReadFrame
  <1>3. ASSUME NEW r \in Reqs, WriteStep(r) PROVE NoLostFailure'
    <2>1. CASE FailCommit(r)
      <3>1. CASE Fresh(r)
        <4> DEFINE full == LockoutDue(loc[r].count + 1)
        <4>1. loc[r].count = misses
          BY <1>0, <2>1, <3>1 DEF FailSeen, FailCommit
        <4>2. misses' = IF full THEN 0 ELSE misses + 1
          BY <2>1, <3>1 DEF FailCommit
        <4>3. acct'.failed_login_count = IF full THEN 0 ELSE loc[r].count + 1
          BY <1>0, <2>1, <3>1 DEF FailCommit, TypeOK, Account
        <4> QED BY <4>1, <4>2, <4>3
      <3>2. CASE ~Fresh(r)
        BY <1>1, <2>1, <3>2 DEF FailCommit
      <3> QED BY <3>1, <3>2
    <2>2. CASE LoginCommit(r)
      <3>1. CASE Fresh(r)
        BY <1>0, <2>2, <3>1, LoginFields
      <3>2. CASE ~Fresh(r)
        BY <1>1, <2>2, <3>2 DEF LoginCommit
      <3> QED BY <3>1, <3>2
    <2>3. CASE ConfirmCommit(r)
      BY <1>0, <2>3, NewPasswordFields DEF ConfirmCommit
    <2>4. CASE ChangeCommit(r)
      BY <1>0, <2>4, NewPasswordFields DEF ChangeCommit
    <2>5. CASE AdminCommit(r)
      BY <1>0, <1>1, <2>5 DEF AdminCommit, TypeOK, Account
    <2>6. CASE \/ RefreshCommit(r) \/ FamilyCommit(r) \/ TokenRevoke(r)
               \/ \E t \in Tokens : Logout(r, t)
      BY <1>1, <2>6 DEF RefreshCommit, FamilyCommit, TokenRevoke, Logout
    <2> QED BY <1>3, <2>1, <2>2, <2>3, <2>4, <2>5, <2>6 DEF WriteStep
  <1>4. CASE TimeStep
    BY <1>0, <1>1, <1>4, TimeFrame DEF TypeOK, Account
  <1>5. CASE UNCHANGED vars
    BY <1>1, <1>5 DEF vars
  <1> QED BY <1>2, <1>3, <1>4, <1>5, StepKinds

(* The invariant holds initially.                                          *)
LEMMA InitInv == Init => IInv
  <1> SUFFICES ASSUME Init PROVE IInv
    OBVIOUS
  <1>1. NoToken \in Token /\ NewToken(T0, 0) \in Token /\ NewToken(T0, 0).family = T0
    BY DEF NoToken, NewToken, Token, Tokens
  <1>2. \A t \in Tokens : tok[t] = IF t = T0 THEN NewToken(T0, 0) ELSE NoToken
    BY DEF Init
  <1>3. NoToken.family = None /\ NewToken(T0, 0).pwd = 0
    BY DEF NoToken, NewToken
  <1>4. TypeOK
    <2>1. acct \in Account
      BY MaxFailedAssumption DEF Init, Account, UserStatus
    <2>2. tok \in [Tokens -> Token]
      BY <1>1 DEF Init
    <2>3. loc \in [Reqs -> Local]
      BY LocalUpdates DEF Init
    <2> QED BY <2>1, <2>2, <2>3 DEF Init, TypeOK, Links, Tokens, Point, Outcome
  <1>5. VersionBound
    <2>1. acct.version = 1
      BY DEF Init
    <2>2. NoLocal.version = 0
      BY DEF NoLocal
    <2>3. \A r \in Reqs : loc[r] = NoLocal
      BY DEF Init
    <2>4. \A r \in Reqs : loc[r].version = 0
      BY <2>2, <2>3, Zenon
    <2>5. 0 <= 1
      OBVIOUS
    <2> QED BY <2>1, <2>4, <2>5, Zenon DEF VersionBound
  <1>6. ArgOK /\ LoginSeen /\ FailSeen /\ RowsSeen /\ UndeletedSeen
    BY DEF Init, ArgOK, LoginSeen, FailSeen, RowsSeen, UndeletedSeen, TokenPoint, LinkPoint,
           SetterPoint
  <1>7. OwnSlot
    BY <1>2, <1>3, NamesAssumption DEF OwnSlot, Tokens
  <1>8. FamilyRooted
    BY <1>1, <1>2, <1>3 DEF FamilyRooted, Tokens
  <1>9. LoginSessionsCurrent
    BY <1>2, <1>3, NamesAssumption DEF Init, LoginSessionsCurrent, Tokens
  <1>10. NoLostFailure
    BY DEF Init, NoLostFailure
  <1> QED BY <1>4, <1>5, <1>6, <1>7, <1>8, <1>9, <1>10 DEF IInv

(* Every step preserves the invariant.                                     *)
LEMMA InductiveStep == IInv /\ [Next]_vars => IInv'
  <1> SUFFICES ASSUME IInv, [Next]_vars PROVE IInv'
    OBVIOUS
  <1>1. TypeOK' /\ ArgOK'
    BY TypeStep DEF IInv
  <1>2. OwnSlot' /\ FamilyRooted'
    BY FamilyStep DEF IInv
  <1> QED BY <1>1, <1>2, SeenStep, RowsStep, SessionsStep, FailureStep DEF IInv

(* The invariant holds in every state of every behaviour.                  *)
THEOREM InductiveInvariant == Spec => []IInv
  BY InitInv, InductiveStep, PTL DEF Spec

(* The state stays well typed; the failure counter stays below the limit.  *)
THEOREM TypeInvariant == Spec => []TypeOK
  <1>1. IInv => TypeOK
    BY DEF IInv
  <1> QED BY <1>1, InductiveInvariant, PTL

(* Logins and password changes exclude each other, through the version of  *)
(* the users row.                                                          *)
THEOREM SessionsCurrent == Spec => []LoginSessionsCurrent
  <1>1. IInv => LoginSessionsCurrent
    BY DEF IInv
  <1> QED BY <1>1, InductiveInvariant, PTL

(* _register_failure counts every failure it answers.                      *)
THEOREM FailuresCounted == Spec => []NoLostFailure
  <1>1. IInv => NoLostFailure
    BY DEF IInv
  <1> QED BY <1>1, InductiveInvariant, PTL

(* login opens sessions only on accounts that may log in.                  *)
THEOREM LoginChecked == Spec => NoLoginWhenBarred
  <1>1. ASSUME IInv, [Next]_vars, NEW r \in Reqs, tok[r].family = None, tok'[r].family = r
        PROVE  Active /\ ~acct.locked
    <2>0. TypeOK /\ ArgOK /\ OwnSlot /\ FamilyRooted /\ LoginSeen /\ r \in Tokens /\ r # None
      BY <1>1, NamesAssumption DEF IInv, Tokens
    <2>1. tok' # tok
      BY <1>1, <2>0
    <2>2. PICK q \in Reqs : WriteStep(q)
      BY <1>1, <2>0, <2>1, StepKinds, ReadFrame, TimeFrame DEF vars
    <2>3. CASE ~tok'[r].revoked
      <3>1. r = q /\ LoginCommit(r) /\ Fresh(r)
        BY <1>1, <2>0, <2>2, <2>3, RootStep
      <3> QED BY <2>0, <3>1 DEF LoginSeen, LoginCommit
    <2>4. CASE tok'[r].revoked
      <3>1. ASSUME NEW R, tok' = Revoke(R) PROVE FALSE
        BY <1>1, <2>0, <3>1, RevokeFields
      <3>2. ~(FamilyCommit(q) \/ TokenRevoke(q) \/ \E t \in Tokens : Logout(q, t))
        BY <3>1 DEF FamilyCommit, TokenRevoke, Logout
      <3>3. ~(ConfirmCommit(q) \/ ChangeCommit(q))
        BY <2>1, <3>1 DEF ConfirmCommit, ChangeCommit
      <3>4. ~(FailCommit(q) \/ AdminCommit(q))
        BY <2>1 DEF FailCommit, AdminCommit
      <3>5. ~RefreshCommit(q)
        BY <1>1, <2>0, RefreshFields
      <3>6. LoginCommit(q) /\ Fresh(q)
        BY <2>1, <2>2, <3>2, <3>3, <3>4, <3>5 DEF WriteStep, LoginCommit
      <3>7. q = r
        BY <1>1, <2>0, <3>6, LoginFields
      <3> QED BY <2>0, <3>6, <3>7 DEF LoginSeen, LoginCommit
    <2> QED BY <2>3, <2>4
  <1>2. IInv /\ [Next]_vars =>
          [\A r \in Reqs : tok[r].family = None /\ tok'[r].family = r =>
             Active /\ ~acct.locked]_tok
    BY <1>1
  <1> QED BY <1>2, InductiveInvariant, PTL DEF Spec, NoLoginWhenBarred

(* Neither a reset nor a change of password reaches a deleted account.     *)
THEOREM DeletedUntouched == Spec => DeletedKeepsPassword
  <1>1. ASSUME IInv, [Next]_vars, acct'.pwd # acct.pwd PROVE ~acct.deleted
    <2>0. TypeOK /\ UndeletedSeen
      BY <1>1 DEF IInv
    <2>1. acct' # acct /\ ~SameAccount
      BY <1>1 DEF SameAccount
    <2>2. PICK r \in Reqs : WriteStep(r)
      <3>1. ~TimeStep
        BY <1>1, <2>0, TimeFrame DEF TypeOK, Account
      <3> QED BY <1>1, <2>0, <2>1, <3>1, StepKinds, ReadFrame DEF vars
    <2>3. ~(FailCommit(r) \/ AdminCommit(r))
      BY <1>1, <2>0 DEF FailCommit, AdminCommit, TypeOK, Account
    <2>4. ~LoginCommit(r)
      BY <1>1, <2>0, LoginFields DEF LoginCommit
    <2>5. ~(RefreshCommit(r) \/ FamilyCommit(r) \/ TokenRevoke(r) \/ \E t \in Tokens : Logout(r, t))
      BY <2>1 DEF RefreshCommit, FamilyCommit, TokenRevoke, Logout
    <2>6. (ConfirmCommit(r) \/ ChangeCommit(r)) /\ Fresh(r)
      BY <2>1, <2>2, <2>3, <2>4, <2>5 DEF WriteStep, ConfirmCommit, ChangeCommit
    <2> QED BY <2>0, <2>6 DEF UndeletedSeen, SetterPoint, ConfirmCommit, ChangeCommit
  <1>2. IInv /\ [Next]_vars => [acct'.pwd # acct.pwd => ~acct.deleted]_acct
    BY <1>1
  <1> QED BY <1>2, InductiveInvariant, PTL DEF Spec, DeletedKeepsPassword

=============================================================================
