------------------------- MODULE LoginSessionsProofs -------------------------
(***************************************************************************)
(* Proofs about LoginSessions for any users, logins and passwords.          *)
(***************************************************************************)
EXTENDS LoginSessions, TLAPS

----------------------------------------------------------------------------
(* Type correctness *)

\* Every step keeps every variable within its type.
THEOREM SessionTypes == Spec => []TypeOK
<1>1. Init => TypeOK
  BY MaxPasswordIsNat DEF Init, TypeOK, Statuses, Passwords, Rows, Logins, LoginSteps,
                          Changes, NoChange
<1>2. ASSUME TypeOK, [Next]_vars
      PROVE  TypeOK'
  <2> USE <1>2, MaxPasswordIsNat DEF TypeOK
  <2>1. CASE UNCHANGED vars
    BY <2>1 DEF vars
  <2>2. ASSUME NEW t \in Tokens, NEW u \in Users, MatchPassword(t, u)
        PROVE  TypeOK'
    BY <2>2 DEF MatchPassword, Logins, LoginSteps
  <2>3. ASSUME NEW t \in Tokens, CreateSession(t)
        PROVE  TypeOK'
    <3>1. CASE UserIsThere(login[t].user)
      BY <2>3, <3>1 DEF CreateSession, Logins, LoginSteps, Rows
    <3>2. CASE ~UserIsThere(login[t].user)
      BY <2>3, <3>2 DEF CreateSession, Logins, LoginSteps, Rows
    <3>3. QED  BY <3>1, <3>2
  <2>4. ASSUME NEW t \in Tokens, DeliverCookie(t)
        PROVE  TypeOK'
    BY <2>4 DEF DeliverCookie, Logins, LoginSteps
  <2>5. ASSUME NEW t \in Tokens, Logout(t)
        PROVE  TypeOK'
    BY <2>5 DEF Logout, DeleteRows, Logins, LoginSteps, Rows
  <2>6. ASSUME NEW t \in Tokens, Expire(t)
        PROVE  TypeOK'
    BY <2>6 DEF Expire, Rows
  <2>7. ASSUME NEW t \in Tokens, NEW p \in Passwords, AskChange(t, p)
        PROVE  TypeOK'
    BY <2>7 DEF AskChange, Changes
  <2>8. ASSUME NEW t \in Tokens, ChangePassword(t)
        PROVE  TypeOK'
    <3>1. login[t].user \in Users
      BY DEF Logins
    <3>2. change' \in [Tokens -> Changes]
      BY <2>8 DEF ChangePassword, Changes, NoChange, Passwords
    <3>3. row' \in [Tokens -> Rows]
      BY <2>8 DEF ChangePassword, DeleteRows, Rows
    <3>4. password' \in [Users -> Passwords] /\ mustChange' \in [Users -> BOOLEAN]
      <4>1. CASE status[login[t].user] = "active" /\ Matches(login[t].user, change[t].typed)
        <5>1. /\ password' = [password EXCEPT ![login[t].user] = @ + 1]
              /\ mustChange' = [mustChange EXCEPT ![login[t].user] = FALSE]
              /\ password[login[t].user] < MaxPassword
          BY <2>8, <4>1 DEF ChangePassword
        <5>2. password[login[t].user] + 1 \in Passwords
          BY <3>1, <5>1 DEF Passwords
        <5>3. QED  BY <5>1, <5>2
      <4>2. CASE ~(status[login[t].user] = "active" /\ Matches(login[t].user, change[t].typed))
        BY <2>8, <4>2 DEF ChangePassword
      <4>3. QED  BY <4>1, <4>2
    <3>5. QED  BY <2>8, <3>2, <3>3, <3>4 DEF ChangePassword
  <2>9. ASSUME NEW u \in Users,
               Disable(u) \/ Enable(u) \/ DeleteUser(u) \/ RevokeSessions(u)
        PROVE  TypeOK'
    BY <2>9 DEF Disable, Enable, DeleteUser, RevokeSessions, DeleteRows, Statuses, Rows
  <2>10. ASSUME NEW u \in Users, ResetPassword(u)
         PROVE  TypeOK'
    BY <2>10 DEF ResetPassword, DeleteRows, Rows, Passwords
  <2>11. QED  BY <2>1, <2>2, <2>3, <2>4, <2>5, <2>6, <2>7, <2>8, <2>9, <2>10 DEF Next
<1>3. QED  BY <1>1, <1>2, PTL DEF Spec

----------------------------------------------------------------------------
(* Sessions and their users *)

\* Sessions are deleted with their user and ended when it is disabled, whatever
\* logins are under way.
THEOREM SessionsBelong == Spec => []SessionsHaveUsers
<1>1. Init => SessionsHaveUsers
  BY DEF Init, SessionsHaveUsers
<1>2. ASSUME TypeOK, SessionsHaveUsers, [Next]_vars
      PROVE  SessionsHaveUsers'
  <2> USE <1>2 DEF SessionsHaveUsers, Delivered, Exists
  <2>1. CASE UNCHANGED vars
    BY <2>1 DEF vars
  <2>2. ASSUME NEW t \in Tokens, NEW u \in Users, MatchPassword(t, u)
        PROVE  SessionsHaveUsers'
    BY <2>2 DEF MatchPassword, TypeOK
  <2>3. ASSUME NEW t \in Tokens, CreateSession(t)
        PROVE  SessionsHaveUsers'
    <3>1. login[t].user \in Users
      BY DEF TypeOK, Logins
    <3>2. CASE UserIsThere(login[t].user)
      <4>1. Exists(login[t].user)
        BY <3>1, <3>2 DEF UserIsThere, TypeOK, Statuses
      <4>2. /\ status' = status
            /\ \A v \in Tokens \ {t} : login'[v] = login[v] /\ row'[v] = row[v]
            /\ login'[t].step = "created" /\ login'[t].user = login[t].user
        BY <2>3, <3>2 DEF CreateSession, TypeOK, Logins
      <4>3. QED  BY <4>1, <4>2
    <3>3. CASE ~UserIsThere(login[t].user)
      <4>1. /\ status' = status /\ row' = row
            /\ \A v \in Tokens \ {t} : login'[v] = login[v]
            /\ login'[t].step = "over" /\ login'[t].user = login[t].user
        BY <2>3, <3>3 DEF CreateSession, TypeOK, Logins
      <4>2. QED  BY <4>1
    <3>4. QED  BY <3>2, <3>3
  <2>4. ASSUME NEW t \in Tokens, DeliverCookie(t)
        PROVE  SessionsHaveUsers'
    BY <2>4 DEF DeliverCookie, IdentityLoads, LetsIn, TypeOK
  <2>5. ASSUME NEW t \in Tokens, Logout(t)
        PROVE  SessionsHaveUsers'
    BY <2>5 DEF Logout, DeleteRows, TypeOK
  <2>6. ASSUME NEW t \in Tokens, Expire(t)
        PROVE  SessionsHaveUsers'
    BY <2>6 DEF Expire, TypeOK
  <2>7. ASSUME NEW t \in Tokens, NEW p \in Passwords, AskChange(t, p)
        PROVE  SessionsHaveUsers'
    BY <2>7 DEF AskChange
  <2>8. ASSUME NEW t \in Tokens, ChangePassword(t)
        PROVE  SessionsHaveUsers'
    BY <2>8 DEF ChangePassword, DeleteRows
  <2>9. ASSUME NEW u \in Users,
               Disable(u) \/ DeleteUser(u) \/ RevokeSessions(u) \/ ResetPassword(u)
        PROVE  SessionsHaveUsers'
    <3>1. DeleteRows(TokensOf(u)) /\ login' = login
      BY <2>9 DEF Disable, DeleteUser, RevokeSessions, ResetPassword
    <3>2. \A v \in Users \ {u} : status'[v] = status[v]
      BY <2>9 DEF Disable, DeleteUser, RevokeSessions, ResetPassword, TypeOK
    <3>3. ASSUME NEW t \in Tokens, row'[t] # "none"
          PROVE  /\ row[t] # "none" /\ login[t].step # "unused"
                 /\ login[t].user \in Users \ {u}
      BY <3>1, <3>3 DEF DeleteRows, TokensOf, TypeOK, Logins
    <3>4. QED  BY <3>1, <3>2, <3>3
  <2>10. ASSUME NEW u \in Users, Enable(u)
         PROVE  SessionsHaveUsers'
    BY <2>10 DEF Enable, TypeOK
  <2>11. QED  BY <2>1, <2>2, <2>3, <2>4, <2>5, <2>6, <2>7, <2>8, <2>9, <2>10 DEF Next
<1>3. QED  BY <1>1, <1>2, SessionTypes, PTL DEF Spec

\* A token that was delivered and lets nobody in is without a live row, and only
\* a login that has not delivered its token yet makes a row live.
THEOREM DeadForEver == Spec => DeadTokensStayDead
<1>1. ASSUME TypeOK, SessionsHaveUsers, [Next]_vars
      PROVE  [\A t \in Tokens : Delivered(t) /\ ~LetsIn(t) => ~LetsIn(t)']_vars
  <2> SUFFICES ASSUME NEW t \in Tokens, Delivered(t), ~LetsIn(t)
               PROVE  row'[t] # "live"
    BY DEF LetsIn
  <2>1. row[t] # "live"
    BY <1>1 DEF SessionsHaveUsers, LetsIn
  <2>2. ASSUME NEW v \in Tokens, CreateSession(v)
        PROVE  row'[t] # "live"
    BY <2>1, <2>2, <1>1 DEF CreateSession, Delivered, TypeOK
  <2>3. QED  BY <2>1, <2>2, <1>1
             DEF Next, vars, MatchPassword, DeliverCookie, Logout, Expire, AskChange,
                 ChangePassword, Disable, Enable, DeleteUser, ResetPassword, RevokeSessions,
                 DeleteRows, TypeOK
<1>2. QED  BY <1>1, SessionTypes, SessionsBelong, PTL DEF Spec, DeadTokensStayDead

----------------------------------------------------------------------------
(* The temporary password *)

\* A change of password is asked with a session that some login has opened.
ChangesComeFromLogins ==
    \A t \in Tokens : change[t].asked => login[t].step \in {"delivered", "over"}

LEMMA ChangesInv == Spec => []ChangesComeFromLogins
<1>1. Init => ChangesComeFromLogins
  BY DEF Init, ChangesComeFromLogins, NoChange
<1>2. ASSUME TypeOK, ChangesComeFromLogins, [Next]_vars
      PROVE  ChangesComeFromLogins'
  <2> USE <1>2 DEF ChangesComeFromLogins
  <2>1. ASSUME change' = change,
               \A t \in Tokens : login[t].step \in {"delivered", "over"} =>
                                  login'[t].step \in {"delivered", "over"}
        PROVE  ChangesComeFromLogins'
    BY <2>1
  <2>2. ASSUME NEW t \in Tokens,
               CreateSession(t) \/ DeliverCookie(t) \/ Logout(t)
                  \/ \E u \in Users : MatchPassword(t, u)
        PROVE  ChangesComeFromLogins'
    <3>1. /\ \A v \in Tokens \ {t} : login'[v] = login[v]
          /\ login[t].step \in {"delivered", "over"} => login'[t].step = "over"
          /\ change' = change
      BY <2>2 DEF CreateSession, DeliverCookie, Logout, MatchPassword, TypeOK, Logins
    <3>2. QED  BY <2>1, <3>1
  <2>3. ASSUME NEW t \in Tokens, NEW p \in Passwords, AskChange(t, p)
        PROVE  ChangesComeFromLogins'
    BY <2>3 DEF AskChange, TypeOK
  <2>4. ASSUME NEW t \in Tokens, ChangePassword(t)
        PROVE  ChangesComeFromLogins'
    BY <2>4 DEF ChangePassword, TypeOK, NoChange
  <2>5. QED  BY <2>1, <2>2, <2>3, <2>4
             DEF Next, vars, Expire, Disable, Enable, DeleteUser, ResetPassword, RevokeSessions
<1>3. QED  BY <1>1, <1>2, SessionTypes, PTL DEF Spec

\* A reset cannot be undone by a request that was let in before it: the state
\* "must change password" ends only for somebody who knows the new password.
THEOREM ResetStands == Spec => TemporaryPasswordNeeded
<1>1. ASSUME TypeOK, ChangesComeFromLogins, [Next]_vars
      PROVE  [\A u \in Users : mustChange[u] /\ ~mustChange'[u] =>
                \E t \in TokensOf(u) : change[t].asked /\ change[t].typed = password[u]]_vars
  <2> SUFFICES ASSUME NEW u \in Users, mustChange[u], ~mustChange'[u]
               PROVE  \E t \in TokensOf(u) : change[t].asked /\ change[t].typed = password[u]
    OBVIOUS
  <2>1. ASSUME NEW v \in Users, ResetPassword(v)
        PROVE  FALSE
    BY <2>1, <1>1 DEF ResetPassword, TypeOK
  <2>2. PICK t \in Tokens : ChangePassword(t)
    BY <1>1, <2>1 DEF Next, vars, MatchPassword, CreateSession, DeliverCookie, Logout, Expire,
                      AskChange, Disable, Enable, DeleteUser, RevokeSessions
  <2>3. change[t].asked /\ login[t].user = u /\ change[t].typed = password[u]
    BY <2>2, <1>1 DEF ChangePassword, Matches, TypeOK
  <2>4. t \in TokensOf(u)
    BY <2>3, <1>1 DEF ChangesComeFromLogins, TokensOf
  <2>5. QED  BY <2>3, <2>4
<1>2. QED  BY <1>1, SessionTypes, ChangesInv, PTL DEF Spec, TemporaryPasswordNeeded

=============================================================================
