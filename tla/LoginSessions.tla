---------------------------- MODULE LoginSessions ----------------------------
(***************************************************************************)
(* Passwords and login sessions (routes/auth, middleware/auth, services/    *)
(* account and the parts of user-admin that end sessions).                  *)
(*                                                                          *)
(* A login is four statements of its own and no transaction: read the user, *)
(* compare the password (bcrypt, for a fraction of a second), insert the    *)
(* session, read the identity back; then the cookie is sent.  A change of   *)
(* the own password is let in by the middleware and runs in a transaction   *)
(* later.  What an administrator does to an account is one transaction that *)
(* locks the user's row, hence one step: an insert of a session waits for   *)
(* it, through the foreign key, and so does a change of password.           *)
(*                                                                          *)
(* Each login has a token of its own, which names it.  A password is the    *)
(* number of times it was replaced: no password comes back.                 *)
(***************************************************************************)
EXTENDS Naturals

CONSTANTS Users,
          Tokens,       \* session tokens, one for each login (a bound)
          MaxPassword   \* how often a password may be replaced (a bound)

ASSUME MaxPasswordIsNat == MaxPassword \in Nat

VARIABLES status,      \* user -> "active", "disabled" or "deleted"
          password,    \* user -> the password that is stored
          mustChange,  \* user -> must_change_password
          row,         \* token -> its row in session_tokens: "none", "live", "expired"
          login,       \* token -> the login it belongs to and how far that is
          change       \* token -> the change of password asked with it

vars == <<status, password, mustChange, row, login, change>>

----------------------------------------------------------------------------
(* Values *)

Statuses == {"active", "disabled", "deleted"}
Rows == {"none", "live", "expired"}
LoginSteps == {"unused", "matched", "created", "delivered", "over"}
Passwords == 0..MaxPassword

Logins == [step : LoginSteps, user : Users, typed : Passwords]
Changes == [asked : BOOLEAN, typed : Passwords]
NoChange == [asked |-> FALSE, typed |-> 0]

TokensOf(u) == {t \in Tokens : login[t].step # "unused" /\ login[t].user = u}

\* findIdentityBySessionTokenHash: the row is there, has not expired, and its
\* user is active.
LetsIn(t) == row[t] = "live" /\ status[login[t].user] = "active"

\* Mutant: the identity is read back without the condition on the status.
LetsInAnyone(t) == row[t] = "live"

\* The same query, when a login reads its identity back.
IdentityLoads(t) == LetsIn(t)

\* DELETE FROM session_tokens for the tokens in T.
DeleteRows(T) == row' = [t \in Tokens |-> IF t \in T THEN "none" ELSE row[t]]

----------------------------------------------------------------------------
(* Logins *)

Init ==
    /\ status = [u \in Users |-> "active"]
    /\ password = [u \in Users |-> 0]
    /\ mustChange = [u \in Users |-> TRUE]
    /\ row = [t \in Tokens |-> "none"]
    /\ \E u \in Users : login = [t \in Tokens |-> [step |-> "unused", user |-> u, typed |-> 0]]
    /\ change = [t \in Tokens |-> NoChange]

\* findUserForLogin and the comparison with the hash it returned.  A login that
\* is refused changes nothing.
MatchPassword(t, u) ==
    /\ login[t].step = "unused"
    /\ status[u] = "active"
    /\ login' = [login EXCEPT ![t] = [step |-> "matched", user |-> u, typed |-> password[u]]]
    /\ UNCHANGED <<status, password, mustChange, row, change>>

\* The foreign key of session_tokens.user_id.
UserIsThere(u) == status[u] # "deleted"

\* createSession fails if the user has been deleted since it was read.
CreateSession(t) ==
    /\ login[t].step = "matched"
    /\ IF UserIsThere(login[t].user)
       THEN /\ login' = [login EXCEPT ![t].step = "created"]
            /\ row' = [row EXCEPT ![t] = "live"]
       ELSE /\ login' = [login EXCEPT ![t].step = "over"]
            /\ UNCHANGED row
    /\ UNCHANGED <<status, password, mustChange, change>>

\* The cookie is sent if the new session's identity can be loaded.
DeliverCookie(t) ==
    /\ login[t].step = "created"
    /\ login' = [login EXCEPT ![t].step = IF IdentityLoads(t) THEN "delivered" ELSE "over"]
    /\ UNCHANGED <<status, password, mustChange, row, change>>

Logout(t) ==
    /\ login[t].step = "delivered"
    /\ login' = [login EXCEPT ![t].step = "over"]
    /\ DeleteRows({t})
    /\ UNCHANGED <<status, password, mustChange, change>>

Expire(t) ==
    /\ row[t] = "live"
    /\ row' = [row EXCEPT ![t] = "expired"]
    /\ UNCHANGED <<status, password, mustChange, login, change>>

----------------------------------------------------------------------------
(* The own password *)

\* The middleware lets the request in; p is the current password as typed.
AskChange(t, p) ==
    /\ login[t].step = "delivered" /\ LetsIn(t)
    /\ ~change[t].asked
    /\ p \in 0..password[login[t].user]
    /\ change' = [change EXCEPT ![t] = [asked |-> TRUE, typed |-> p]]
    /\ UNCHANGED <<status, password, mustChange, row, login>>

\* Mutant: the password is compared with one that was read before the
\* transaction, so that any password that was ever right will do.
MatchesOnceRead(u, p) == p <= password[u]

\* bcrypt.compare with the hash read FOR UPDATE.
Matches(u, p) == p = password[u]

\* changePassword: the caller's session stays, the user's other sessions go.
ChangePassword(t) ==
    LET u == login[t].user IN
    /\ change[t].asked
    /\ change' = [change EXCEPT ![t] = NoChange]
    /\ IF status[u] = "active" /\ Matches(u, change[t].typed)
       THEN /\ password[u] < MaxPassword
            /\ password' = [password EXCEPT ![u] = @ + 1]
            /\ mustChange' = [mustChange EXCEPT ![u] = FALSE]
            /\ DeleteRows(TokensOf(u) \ {t})
       ELSE UNCHANGED <<password, mustChange, row>>
    /\ UNCHANGED <<status, login>>

----------------------------------------------------------------------------
(* What an administrator does to an account *)

Exists(u) == status[u] \in {"active", "disabled"}

\* The administrator who asks: an active user, for some operations another one.
SomeoneActive == \E a \in Users : status[a] = "active"
AnotherActive(u) == \E a \in Users \ {u} : status[a] = "active"

\* setStatus deletes the sessions of an account it disables.
Disable(u) ==
    /\ Exists(u) /\ AnotherActive(u)
    /\ status' = [status EXCEPT ![u] = "disabled"]
    /\ DeleteRows(TokensOf(u))
    /\ UNCHANGED <<password, mustChange, login, change>>

Enable(u) ==
    /\ Exists(u) /\ SomeoneActive
    /\ status' = [status EXCEPT ![u] = "active"]
    /\ UNCHANGED <<password, mustChange, row, login, change>>

DeleteUser(u) ==
    /\ Exists(u) /\ AnotherActive(u)
    /\ status' = [status EXCEPT ![u] = "deleted"]
    /\ DeleteRows(TokensOf(u))
    /\ UNCHANGED <<password, mustChange, login, change>>

ResetPassword(u) ==
    /\ Exists(u) /\ SomeoneActive /\ password[u] < MaxPassword
    /\ password' = [password EXCEPT ![u] = @ + 1]
    /\ mustChange' = [mustChange EXCEPT ![u] = TRUE]
    /\ DeleteRows(TokensOf(u))
    /\ UNCHANGED <<status, login, change>>

\* setTier, replaceUserAssignments, convertToAlumni and revokeSessions.
RevokeSessions(u) ==
    /\ Exists(u) /\ SomeoneActive
    /\ DeleteRows(TokensOf(u))
    /\ UNCHANGED <<status, password, mustChange, login, change>>

Next ==
    \/ \E t \in Tokens :
          \/ \E u \in Users : MatchPassword(t, u)
          \/ CreateSession(t) \/ DeliverCookie(t) \/ Logout(t) \/ Expire(t)
          \/ \E p \in Passwords : AskChange(t, p)
          \/ ChangePassword(t)
    \/ \E u \in Users :
          Disable(u) \/ Enable(u) \/ DeleteUser(u) \/ ResetPassword(u) \/ RevokeSessions(u)

Spec == Init /\ [][Next]_vars

----------------------------------------------------------------------------
(* Properties *)

\* Every variable has its type.
TypeOK ==
    /\ status \in [Users -> Statuses]
    /\ password \in [Users -> Passwords]
    /\ mustChange \in [Users -> BOOLEAN]
    /\ row \in [Tokens -> Rows]
    /\ login \in [Tokens -> Logins]
    /\ change \in [Tokens -> Changes]

\* No session outlives its user, and only a disabled account's unfinished login
\* can leave one behind that nobody holds: createSession runs after the checks.
Delivered(t) == login[t].step = "delivered"
SessionsHaveUsers ==
    \A t \in Tokens : row[t] # "none" =>
       /\ login[t].step # "unused" /\ Exists(login[t].user)
       /\ Delivered(t) => status[login[t].user] = "active"

\* A token in somebody's browser that once does not let in never does again: an
\* account that is enabled after it was disabled starts without sessions, also
\* when a login was under way (setStatus, findIdentityBySessionTokenHash).
DeadTokensStayDead == [][\A t \in Tokens : Delivered(t) /\ ~LetsIn(t) => ~LetsIn(t)']_vars

\* After a reset the account leaves the state "must change password" only for
\* somebody who typed the temporary password of that reset, not for a request
\* that was let in before (changePassword compares under FOR UPDATE).
TemporaryPasswordNeeded ==
    [][\A u \in Users : mustChange[u] /\ ~mustChange'[u] =>
          \E t \in TokensOf(u) : change[t].asked /\ change[t].typed = password[u]]_vars

=============================================================================
