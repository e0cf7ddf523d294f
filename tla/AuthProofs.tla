----------------------------- MODULE AuthProofs -----------------------------
(***************************************************************************)
(* What Auth keeps for any number of users, tokens, codes, allowed attempts*)
(* and concurrent requests, and what it keeps as long as requests run one  *)
(* at a time.  Sessions come first, the one-time codes after them, and what*)
(* they share is said first.                                               *)
(***************************************************************************)
EXTENDS Auth, FiniteSetTheorems, SequenceTheorems, TLAPS

----------------------------------------------------------------------------
(* Both parts *)

\* A behaviour of the whole is a behaviour of each part.
LEMMA AllParts == AllSpec => TurnSpec /\ Spec /\ Codes!TurnSpec /\ Codes!Spec
<1>1. AllInit => TurnInit /\ Init /\ Codes!TurnInit /\ Codes!Init
  BY DEF AllInit, TurnInit, Codes!TurnInit
<1>2. [AllNext]_allVars => [TurnNext]_turnVars /\ [Codes!TurnNext]_(Codes!turnVars)
  BY DEF AllNext, allVars, codeVars, Codes!turnVars, Codes!vars
<1>3. /\ [TurnNext]_turnVars => [Next]_vars
      /\ [Codes!TurnNext]_(Codes!turnVars) => [Codes!Next]_(Codes!vars)
  BY DEF TurnNext, turnVars, Next, Codes!TurnNext, Codes!turnVars, Codes!Next
<1> QED
  BY <1>1, <1>2, <1>3, PTL DEF AllSpec, TurnSpec, Spec, Codes!TurnSpec, Codes!Spec

----------------------------------------------------------------------------
(* Sessions: what a step does to the table of tokens *)

\* A token is untouched, loses its life, or is given to a user.
Touched(t) ==
    /\ t \in Issued
    /\ t \in Issued'
    /\ tokens'[t].user = tokens[t].user
    /\ tokens[t].revoked => tokens'[t].revoked
    /\ tokens[t].expired => tokens'[t].expired
    /\ tokens'[t].replacedBy = tokens[t].replacedBy

LEMMA TokenFacts ==
    ASSUME TypeOK
    PROVE  /\ \A t \in Issued : t \in Tokens /\ tokens[t] \in RefreshToken
           /\ \A u \in Users : NewToken(u) \in RefreshToken /\ NewToken(u) # Unissued
           /\ \A row \in RefreshToken : row # Unissued
BY SessionAssumption DEF TypeOK, Issued, NewToken, RefreshToken, Unissued

\* The rows that the updates of the repository leave.
LEMMA RevokeRow ==
    ASSUME NEW row \in RefreshToken, NEW new, new = [row EXCEPT !.revoked = TRUE]
    PROVE  /\ new \in RefreshToken /\ new.revoked /\ new.user = row.user
           /\ new.expired = row.expired /\ new.replacedBy = row.replacedBy
BY DEF RefreshToken

LEMMA ExpireRow ==
    ASSUME NEW row \in RefreshToken, NEW new, new = [row EXCEPT !.expired = TRUE]
    PROVE  /\ new \in RefreshToken /\ new.expired /\ new.user = row.user
           /\ new.revoked = row.revoked /\ new.replacedBy = row.replacedBy
BY DEF RefreshToken

LEMMA RevokedRows ==
    ASSUME TypeOK, NEW u \in Users, tokens' = RevokedForUser(u)
    PROVE  /\ tokens' \in [Tokens -> RefreshToken \cup {Unissued}]
           /\ Issued' = Issued
           /\ \A t \in Issued : Touched(t)
           /\ \A t \in TokensOf(u) : tokens'[t].revoked
<1>1. \A t \in Tokens : /\ t \in TokensOf(u) => tokens'[t] = [tokens[t] EXCEPT !.revoked = TRUE]
                        /\ t \notin TokensOf(u) => tokens'[t] = tokens[t]
  BY DEF RevokedForUser
<1>2. \A t \in TokensOf(u) : /\ t \in Tokens /\ t \in Issued /\ tokens[t] \in RefreshToken
                             /\ tokens'[t] \in RefreshToken
                             /\ tokens'[t].user = tokens[t].user
                             /\ tokens'[t].revoked
                             /\ tokens'[t].expired = tokens[t].expired
                             /\ tokens'[t].replacedBy = tokens[t].replacedBy
  <2> TAKE t \in TokensOf(u)
  <2>1. t \in Tokens /\ t \in Issued /\ tokens[t] \in RefreshToken
    BY TokenFacts DEF TokensOf
  <2>2. tokens'[t] = [tokens[t] EXCEPT !.revoked = TRUE]
    BY <1>1, <2>1
  <2> QED
    BY <2>1, <2>2, RevokeRow
<1>3. Issued' = Issued
  BY <1>1, <1>2, TokenFacts DEF Issued
<1>4. \A t \in Issued : Touched(t)
  BY <1>1, <1>2, <1>3, TokenFacts DEF Touched
<1>5. tokens' \in [Tokens -> RefreshToken \cup {Unissued}]
  <2>1. tokens' = [t \in Tokens |-> tokens'[t]]
    BY DEF RevokedForUser
  <2>2. \A t \in Tokens : tokens'[t] \in RefreshToken \cup {Unissued}
    BY <1>1, <1>2 DEF TypeOK
  <2> QED
    BY <2>1, <2>2
<1> QED
  BY <1>2, <1>3, <1>4, <1>5

\* Logout and Expire replace the row of one token.
LEMMA OneRow ==
    ASSUME TypeOK, NEW x \in Issued, NEW row \in RefreshToken,
           tokens' = [tokens EXCEPT ![x] = row],
           row.user = tokens[x].user, row.replacedBy = tokens[x].replacedBy,
           tokens[x].revoked => row.revoked, tokens[x].expired => row.expired
    PROVE  /\ tokens' \in [Tokens -> RefreshToken \cup {Unissued}]
           /\ Issued' = Issued
           /\ \A t \in Issued : Touched(t)
           /\ tokens'[x] = row
<1>1. /\ x \in Tokens /\ tokens'[x] = row /\ row # Unissued
      /\ \A t \in Tokens : t # x => tokens'[t] = tokens[t]
      /\ tokens' \in [Tokens -> RefreshToken \cup {Unissued}]
  BY TokenFacts DEF TypeOK
<1>2. Issued' = Issued
  BY <1>1 DEF Issued
<1>3. \A t \in Issued : t = x \/ tokens'[t] = tokens[t]
  BY <1>1 DEF Issued
<1>4. \A t \in Issued : Touched(t)
  BY <1>1, <1>2, <1>3 DEF Touched
<1> QED
  BY <1>1, <1>2, <1>4

LEMMA LogoutRows ==
    ASSUME TypeOK, NEW r \in Requests, NEW x \in Tokens, Logout(r, x)
    PROVE  /\ tokens' \in [Tokens -> RefreshToken \cup {Unissued}]
           /\ Issued' = Issued /\ x \in Issued
           /\ \A t \in Issued : Touched(t)
           /\ tokens'[x].revoked
<1> DEFINE row == [tokens[x] EXCEPT !.revoked = TRUE]
<1>1. x \in Issued /\ tokens' = [tokens EXCEPT ![x] = row]
  BY DEF Logout
<1>2. /\ row \in RefreshToken /\ row.revoked /\ row.user = tokens[x].user
      /\ row.expired = tokens[x].expired /\ row.replacedBy = tokens[x].replacedBy
  BY <1>1, TokenFacts, RevokeRow
<1> HIDE DEF row
<1> QED
  BY <1>1, <1>2, OneRow

LEMMA ExpireRows ==
    ASSUME TypeOK, NEW x \in Tokens, Expire(x)
    PROVE  /\ tokens' \in [Tokens -> RefreshToken \cup {Unissued}]
           /\ Issued' = Issued
           /\ \A t \in Issued : Touched(t) /\ tokens'[t].revoked = tokens[t].revoked
<1> DEFINE row == [tokens[x] EXCEPT !.expired = TRUE]
<1>1. x \in Issued /\ tokens' = [tokens EXCEPT ![x] = row]
  BY DEF Expire
<1>2. /\ row \in RefreshToken /\ row.expired /\ row.user = tokens[x].user
      /\ row.revoked = tokens[x].revoked /\ row.replacedBy = tokens[x].replacedBy
  BY <1>1, TokenFacts, ExpireRow
<1> HIDE DEF row
<1>3. \A t \in Issued : t # x => tokens'[t] = tokens[t]
  BY <1>1 DEF Issued, TypeOK
<1> QED
  BY <1>1, <1>2, <1>3, OneRow

LEMMA IssueRows ==
    ASSUME TypeOK, NEW r \in Requests, NEW x \in Tokens, IssueAuthResult(r, x)
    PROVE  /\ tokens' \in [Tokens -> RefreshToken \cup {Unissued}]
           /\ x \notin Issued /\ Issued' = Issued \cup {x}
           /\ \A t \in Issued : Touched(t)
           /\ tokens'[x].replacedBy = NoToken
<1>1. reqs[r].user \in Users
  BY DEF IssueAuthResult, TypeOK, Request, Idle
<1>2. /\ x \notin Issued
      /\ tokens' \in [Tokens -> RefreshToken \cup {Unissued}]
      /\ tokens'[x] = NewToken(reqs[r].user)
      /\ \A t \in Tokens : t # x => tokens'[t] = tokens[t]
  BY <1>1, TokenFacts DEF IssueAuthResult, TypeOK
<1>3. Issued' = Issued \cup {x}
  BY <1>1, <1>2, TokenFacts DEF Issued
<1>4. \A t \in Issued : Touched(t)
  BY <1>2, <1>3 DEF Touched, Issued
<1> QED
  BY <1>1, <1>2, <1>3, <1>4 DEF NewToken

LEMMA RotateRows ==
    ASSUME TypeOK, NEW r \in Requests, NEW x \in Tokens, Rotate(r, x)
    PROVE  LET old == reqs[r].token IN
           /\ tokens' \in [Tokens -> RefreshToken \cup {Unissued}]
           /\ old \in Issued /\ x \notin Issued /\ Issued' = Issued \cup {x}
           /\ \A t \in Issued : t # old => Touched(t)
           /\ tokens'[old].user = tokens[old].user /\ tokens'[x].user = tokens[old].user
           /\ tokens'[old].revoked /\ tokens'[old].replacedBy = x
           /\ tokens'[x].replacedBy = NoToken
<1> DEFINE old == reqs[r].token
           row == [tokens[old] EXCEPT !.revoked = TRUE, !.replacedBy = x]
<1>1. /\ reqs[r].user \in Users /\ old \in Issued /\ tokens[old].user = reqs[r].user
      /\ x \notin Issued /\ old # x
  BY DEF Rotate, TypeOK, Request, Idle, TokensOf
<1>2. tokens' = [tokens EXCEPT ![old] = row, ![x] = NewToken(reqs[r].user)]
  BY DEF Rotate
<1>3. /\ row \in RefreshToken /\ row.revoked /\ row.replacedBy = x /\ row.user = tokens[old].user
  <2>1. tokens[old] \in RefreshToken
    BY <1>1, TokenFacts
  <2> QED
    BY <2>1 DEF RefreshToken
<1> HIDE DEF row
<1>4. /\ tokens' \in [Tokens -> RefreshToken \cup {Unissued}]
      /\ tokens'[old] = row /\ tokens'[x] = NewToken(reqs[r].user)
      /\ \A t \in Tokens : t # x /\ t # old => tokens'[t] = tokens[t]
  BY <1>1, <1>2, <1>3, TokenFacts DEF TypeOK
<1>5. Issued' = Issued \cup {x}
  BY <1>1, <1>3, <1>4, TokenFacts DEF Issued
<1>6. \A t \in Issued : t # old => Touched(t)
  BY <1>1, <1>4, <1>5 DEF Touched, Issued
<1> QED
  BY <1>1, <1>3, <1>4, <1>5, <1>6 DEF NewToken

----------------------------------------------------------------------------
(* Sessions: type correctness *)

LEMMA TypeInit == Init => TypeOK
BY DEF Init, TypeOK, Request, Idle, Issued

\* A request keeps the token it may rotate, as tokens never change user.
LEMMA RequestStep ==
    ASSUME TypeOK, Issued \subseteq Issued',
           \A t \in Issued : tokens'[t].user = tokens[t].user,
           NEW r \in Requests, NEW q \in Request, reqs' = [reqs EXCEPT ![r] = q],
           q.op = "rotate" => q.token \in TokensOf(q.user)
    PROVE  /\ reqs' \in [Requests -> Request]
           /\ \A p \in Requests : reqs'[p].op = "rotate" =>
                 reqs'[p].token \in Issued' /\ tokens'[reqs'[p].token].user = reqs'[p].user
<1>1. reqs' \in [Requests -> Request]
  BY DEF TypeOK
<1>2. \A p \in Requests : reqs'[p] = IF p = r THEN q ELSE reqs[p]
  BY DEF TypeOK
<1>3. \A p \in Requests : reqs'[p].op = "rotate" =>
          reqs'[p].token \in Issued /\ tokens[reqs'[p].token].user = reqs'[p].user
  BY <1>2 DEF TypeOK, TokensOf
<1> QED
  BY <1>1, <1>3

\* A step keeps the types, one action at a time.
LEMMA TypeStep == TypeOK /\ [Next]_vars => TypeOK'
<1> SUFFICES ASSUME TypeOK, [Next]_vars PROVE TypeOK'
  OBVIOUS
\* The common part: the tokens are well typed, none changes user, and at most
\* one request is replaced.
<1>1. ASSUME credentials' \in [Users -> Passwords \cup {NoPassword, NoAccount}],
             tokens' \in [Tokens -> RefreshToken \cup {Unissued}],
             Issued \subseteq Issued',
             \A t \in Issued : tokens'[t].user = tokens[t].user,
             ended' \subseteq Issued', outdated' \subseteq Issued',
             NEW r \in Requests, NEW q \in Request, reqs' = [reqs EXCEPT ![r] = q],
             q.op = "rotate" => q.token \in TokensOf(q.user)
      PROVE  TypeOK'
  BY <1>1, RequestStep DEF TypeOK, TokensOf
<1>2. ASSUME NEW r \in Requests, NEW q \in Request, reqs' = [reqs EXCEPT ![r] = q],
             q.op = "rotate" => q.token \in TokensOf(q.user),
             UNCHANGED <<credentials, tokens, ended, outdated>>
      PROVE  TypeOK'
  BY <1>1, <1>2 DEF TypeOK, Issued
<1>3. Idle \in Request /\ Idle.op # "rotate"
  BY DEF Idle, Request
<1>4. ASSUME NEW r \in Requests, NEW u \in Users,
             NEW password \in Passwords \cup {NoPassword}, Register(r, u, password)
      PROVE  TypeOK'
  BY <1>2, <1>4 DEF Register, Request
<1>5. ASSUME NEW r \in Requests, CreateUser(r) PROVE TypeOK'
  <2>1. reqs[r].user \in Users /\ reqs[r].password \in Passwords \cup {NoPassword}
    BY <1>5 DEF CreateUser, TypeOK, Request, Idle
  <2>2. [op |-> "issue", user |-> reqs[r].user] \in Request
    BY <2>1 DEF Request
  <2>3. /\ credentials' \in [Users -> Passwords \cup {NoPassword, NoAccount}]
        /\ UNCHANGED <<tokens, ended, outdated>>
        /\ reqs' = [reqs EXCEPT ![r] = [op |-> "issue", user |-> reqs[r].user]]
    BY <1>5, <2>1 DEF CreateUser, TypeOK
  <2> QED
    BY <1>1, <2>2, <2>3 DEF TypeOK, Issued
<1>6. ASSUME NEW r \in Requests, NEW u \in Users,
             PasswordlessLogin(r, u) \/ \E password \in Passwords : Login(r, u, password)
      PROVE  TypeOK'
  <2>1. [op |-> "issue", user |-> u] \in Request
    BY DEF Request
  <2> QED
    BY <1>2, <1>6, <2>1 DEF Login, PasswordlessLogin
<1>7. ASSUME NEW r \in Requests, NEW t \in Tokens, IssueAuthResult(r, t) PROVE TypeOK'
  <2>1. UNCHANGED <<credentials, ended, outdated>> /\ reqs' = [reqs EXCEPT ![r] = Idle]
    BY <1>7 DEF IssueAuthResult
  <2> QED
    BY <1>1, <1>3, <1>7, <2>1, IssueRows DEF TypeOK, Touched
<1>8. ASSUME NEW r \in Requests, NEW t \in Tokens, Refresh(r, t) PROVE TypeOK'
  <2>1. t \in Issued /\ tokens[t].user \in Users /\ t \in TokensOf(tokens[t].user)
    BY <1>8, TokenFacts DEF Refresh, RefreshToken, TokensOf
  <2>2. /\ [op |-> "kill", user |-> tokens[t].user] \in Request
        /\ [op |-> "rotate", user |-> tokens[t].user, token |-> t] \in Request
    BY <2>1 DEF Request
  <2>3. UNCHANGED <<credentials, tokens, ended, outdated>>
    BY <1>8 DEF Refresh
  <2>4. CASE tokens[t].revoked
    BY <1>2, <1>8, <2>2, <2>3, <2>4 DEF Refresh
  <2>5. CASE ~tokens[t].revoked
    BY <1>2, <1>8, <2>1, <2>2, <2>3, <2>5 DEF Refresh
  <2> QED
    BY <2>4, <2>5
<1>9. ASSUME NEW r \in Requests, NEW t \in Tokens, Rotate(r, t) PROVE TypeOK'
  <2>1. /\ credentials' = credentials /\ reqs' = [reqs EXCEPT ![r] = Idle]
        /\ ended' \subseteq ended \cup {t} /\ outdated' \subseteq outdated \cup {t}
    BY <1>9 DEF Rotate, Inherit
  <2>2. /\ tokens' \in [Tokens -> RefreshToken \cup {Unissued}]
        /\ Issued' = Issued \cup {t}
        /\ \A x \in Issued : tokens'[x].user = tokens[x].user
    BY <1>9, RotateRows DEF Touched
  <2> QED
    BY <1>1, <1>3, <2>1, <2>2 DEF TypeOK
<1>10. ASSUME NEW u \in Users, NEW r \in Requests, NEW q \in Request,
              tokens' = RevokedForUser(u), ended' = ended \cup TokensOf(u),
              UNCHANGED <<credentials, outdated>>, reqs' = [reqs EXCEPT ![r] = q],
              q.op = "rotate" => q.token \in TokensOf(q.user)
       PROVE  TypeOK'
  <2>1. ended' \subseteq Issued
    BY <1>10 DEF TypeOK, TokensOf
  <2> QED
    BY <1>1, <1>10, <2>1, RevokedRows DEF TypeOK, Touched
<1>11. ASSUME NEW r \in Requests, KillChain(r) PROVE TypeOK'
  <2>1. reqs[r].user \in Users
    BY <1>11 DEF KillChain, TypeOK, Request, Idle
  <2> QED
    BY <1>3, <1>10, <1>11, <2>1 DEF KillChain
<1>12. ASSUME NEW r \in Requests, NEW t \in Tokens, Logout(r, t) PROVE TypeOK'
  <2>1. /\ reqs' = [reqs EXCEPT ![r] = Idle] /\ ended' \subseteq Issued
        /\ UNCHANGED <<credentials, outdated>>
    BY <1>12 DEF Logout, TypeOK, Issued
  <2> QED
    BY <1>1, <1>3, <1>12, <2>1, LogoutRows DEF TypeOK, Touched
<1>13. ASSUME NEW r \in Requests, NEW u \in Users, LogoutAll(r, u) PROVE TypeOK'
  <2>1. reqs' = [reqs EXCEPT ![r] = Idle]
    BY <1>13 DEF LogoutAll, TypeOK
  <2> QED
    BY <1>3, <1>10, <1>13, <2>1 DEF LogoutAll
<1>14. ASSUME NEW r \in Requests, NEW u \in Users, NEW new \in Passwords,
              \/ \E current \in Passwords : ChangePassword(r, u, current, new)
              \/ ResetPassword(r, u, new)
       PROVE  TypeOK'
  <2>1. [op |-> "password", user |-> u, password |-> new] \in Request
    BY DEF Request
  <2> QED
    BY <1>2, <1>14, <2>1 DEF ChangePassword, ResetPassword
<1>15. ASSUME NEW r \in Requests, UpdatePassword(r) PROVE TypeOK'
  <2>1. reqs[r].user \in Users /\ reqs[r].password \in Passwords \cup {NoPassword}
    BY <1>15 DEF UpdatePassword, TypeOK, Request, Idle
  <2>2. [op |-> "revoke", user |-> reqs[r].user] \in Request
    BY <2>1 DEF Request
  <2>3. /\ credentials' \in [Users -> Passwords \cup {NoPassword, NoAccount}]
        /\ UNCHANGED <<tokens, ended>> /\ outdated' \subseteq Issued
        /\ reqs' = [reqs EXCEPT ![r] = [op |-> "revoke", user |-> reqs[r].user]]
    BY <1>15, <2>1 DEF UpdatePassword, TypeOK, TokensOf
  <2> QED
    BY <1>1, <2>2, <2>3 DEF TypeOK, Issued
<1>16. ASSUME NEW r \in Requests, RevokeSessions(r) PROVE TypeOK'
  <2>1. reqs[r].user \in Users
    BY <1>16 DEF RevokeSessions, TypeOK, Request, Idle
  <2>2. [op |-> "issue", user |-> reqs[r].user] \in Request
    BY <2>1 DEF Request
  <2> QED
    BY <1>10, <1>16, <2>1, <2>2 DEF RevokeSessions
<1>17. ASSUME NEW t \in Tokens, Expire(t) PROVE TypeOK'
  <2>1. /\ \A x \in Issued : tokens'[x].user = tokens[x].user
        /\ UNCHANGED <<credentials, reqs, ended, outdated>>
    BY <1>17, ExpireRows DEF Touched, Expire
  <2> QED
    BY <1>17, <2>1, ExpireRows DEF TypeOK, TokensOf
<1>18. ASSUME NEW r \in Requests, Fail(r) PROVE TypeOK'
  BY <1>2, <1>3, <1>18 DEF Fail
<1>19. CASE UNCHANGED vars
  BY <1>19 DEF vars, TypeOK, Issued, TokensOf
<1> QED
  BY <1>4, <1>5, <1>6, <1>7, <1>8, <1>9, <1>11, <1>12, <1>13, <1>14, <1>15, <1>16, <1>17,
     <1>18, <1>19 DEF Next, Handle

\* The tables and the requests in flight always have their types, and a
\* request that will rotate a token holds one of its own user.
LEMMA TypeCorrect == Spec => []TypeOK
BY TypeInit, TypeStep, PTL DEF Spec

----------------------------------------------------------------------------
(* Sessions: rotation *)

LEMMA RotationStep == TypeOK /\ RotationIsSound /\ [Next]_vars => RotationIsSound'
<1> SUFFICES ASSUME TypeOK, RotationIsSound, [Next]_vars PROVE RotationIsSound'
  OBVIOUS
<1>1. \A t \in Issued : t \in Tokens /\ tokens[t] \in RefreshToken
  BY TokenFacts
\* New tokens are replaced by none, and old ones keep what replaced them.
<1>2. ASSUME Issued \subseteq Issued', \A t \in Issued : Touched(t),
             \A t \in Issued' \ Issued : tokens'[t].replacedBy = NoToken
      PROVE  RotationIsSound'
  BY <1>2 DEF RotationIsSound, Touched, TokensOf
<1>3. ASSUME UNCHANGED tokens PROVE RotationIsSound'
  BY <1>3 DEF RotationIsSound, TokensOf, Issued
<1>4. ASSUME NEW r \in Requests, NEW x \in Tokens, Rotate(r, x) PROVE RotationIsSound'
  <2> DEFINE old == reqs[r].token
  <2>1. /\ old \in Issued /\ x \notin Issued /\ Issued' = Issued \cup {x}
        /\ \A t \in Issued : t # old => Touched(t)
        /\ tokens'[old].user = tokens[old].user /\ tokens'[x].user = tokens[old].user
        /\ tokens'[old].revoked /\ tokens'[old].replacedBy = x
        /\ tokens'[x].replacedBy = NoToken
    BY <1>4, RotateRows
  <2>2. \A t \in Issued : tokens'[t].user = tokens[t].user
    BY <2>1 DEF Touched
  <2> QED
    BY <2>1, <2>2 DEF RotationIsSound, Touched, TokensOf
<1>5. ASSUME NEW r \in Requests, NEW x \in Tokens, IssueAuthResult(r, x) PROVE RotationIsSound'
  BY <1>2, <1>5, IssueRows
<1>6. ASSUME NEW r \in Requests, KillChain(r) \/ RevokeSessions(r) PROVE RotationIsSound'
  <2>1. reqs[r].user \in Users /\ tokens' = RevokedForUser(reqs[r].user)
    BY <1>6 DEF KillChain, RevokeSessions, TypeOK, Request, Idle
  <2> QED
    BY <1>2, <2>1, RevokedRows
<1>7. ASSUME NEW r \in Requests, NEW u \in Users, LogoutAll(r, u) PROVE RotationIsSound'
  BY <1>2, <1>7, RevokedRows DEF LogoutAll
<1>8. ASSUME NEW r \in Requests, NEW x \in Tokens, Logout(r, x) PROVE RotationIsSound'
  BY <1>2, <1>8, LogoutRows
<1>9. ASSUME NEW x \in Tokens, Expire(x) PROVE RotationIsSound'
  BY <1>2, <1>9, ExpireRows
<1> QED
  BY <1>3, <1>4, <1>5, <1>6, <1>7, <1>8, <1>9
     DEF Next, Handle, vars, Register, CreateUser, Login, PasswordlessLogin, Refresh,
         ChangePassword,
         ResetPassword, UpdatePassword, Fail

\* A replaced token is revoked and its replacement belongs to the same user,
\* whatever requests overlap with the transaction of rotate.
THEOREM RotationIsAlwaysSound == AllSpec => []RotationIsSound
<1>1. Init => RotationIsSound
  BY DEF Init, RotationIsSound, Issued
<1> QED
  BY <1>1, RotationStep, TypeCorrect, AllParts, PTL DEF Spec

----------------------------------------------------------------------------
(* Sessions: one request at a time *)

\* What holds as long as no two requests overlap: an ended session is revoked,
\* and a request that will rotate a token found it live and still does.
SerialInv ==
    /\ TypeOK
    /\ RotationIsSound
    /\ \A t \in ended : tokens[t].revoked
    /\ \A r \in Requests : reqs[r].op = "rotate" => ~tokens[reqs[r].token].revoked

LEMMA SerialStep ==
    ASSUME SerialInv, NEW r \in Requests, Alone(r), Handle(r)
    PROVE  SerialInv'
<1>1. TypeOK' /\ RotationIsSound'
  BY TypeStep, RotationStep DEF SerialInv, Next
<1>2. ended \subseteq Issued /\ \A t \in ended : tokens[t].revoked
  BY DEF SerialInv, TypeOK
\* The only request in flight becomes q.
<1>3. ASSUME NEW q, reqs' = [reqs EXCEPT ![r] = q],
             q.op = "rotate" => ~tokens'[q.token].revoked,
             \A t \in ended' : tokens'[t].revoked
      PROVE  SerialInv'
  <2>1. \A p \in Requests : reqs'[p] = q \/ reqs'[p] = Idle
    BY <1>3 DEF SerialInv, TypeOK, Alone
  <2>2. Idle.op # "rotate"
    BY DEF Idle
  <2> QED
    BY <1>1, <1>3, <2>1, <2>2 DEF SerialInv
<1>4. Idle.op # "rotate"
  BY DEF Idle
<1>5. ASSUME NEW q, reqs' = [reqs EXCEPT ![r] = q],
             q.op # "rotate", UNCHANGED <<tokens, ended>>
      PROVE  SerialInv'
  BY <1>2, <1>3, <1>5
<1>6. ASSUME NEW u \in Users, NEW q, reqs' = [reqs EXCEPT ![r] = q],
             q.op # "rotate", tokens' = RevokedForUser(u), ended' = ended \cup TokensOf(u)
      PROVE  SerialInv'
  BY <1>2, <1>3, <1>6, RevokedRows DEF SerialInv, Touched
<1>7. ASSUME NEW t \in Tokens, Refresh(r, t) PROVE SerialInv'
  <2>1. UNCHANGED <<tokens, ended>>
    BY <1>7 DEF Refresh
  <2>2. CASE tokens[t].revoked
    <3> DEFINE q == [op |-> "kill", user |-> tokens[t].user]
    <3>1. reqs' = [reqs EXCEPT ![r] = q] /\ q.op # "rotate"
      BY <1>7, <2>2 DEF Refresh
    <3> HIDE DEF q
    <3> QED
      BY <1>5, <2>1, <3>1
  <2>3. CASE ~tokens[t].revoked
    BY <1>2, <1>3, <1>7, <2>1, <2>3 DEF Refresh
  <2> QED
    BY <2>2, <2>3
<1>8. ASSUME NEW x \in Tokens, Rotate(r, x) PROVE SerialInv'
  <2> DEFINE old == reqs[r].token
  <2>1. old \notin ended
    <3>1. reqs[r].op = "rotate"
      BY <1>8 DEF Rotate
    <3>2. ~tokens[old].revoked
      BY <3>1 DEF SerialInv
    <3> QED
      BY <1>2, <3>2
  <2>2. ended' = ended /\ reqs' = [reqs EXCEPT ![r] = Idle]
    BY <1>8, <2>1 DEF Rotate, Inherit
  <2>3. \A t \in Issued : tokens[t].revoked => tokens'[t].revoked
    BY <1>8, RotateRows DEF SerialInv, Touched
  <2> QED
    BY <1>2, <1>3, <1>4, <2>2, <2>3
<1>9. ASSUME NEW x \in Tokens, IssueAuthResult(r, x) PROVE SerialInv'
  <2>1. ended' = ended /\ reqs' = [reqs EXCEPT ![r] = Idle]
    BY <1>9 DEF IssueAuthResult
  <2>2. \A t \in Issued : tokens[t].revoked => tokens'[t].revoked
    BY <1>9, IssueRows DEF SerialInv, Touched
  <2> QED
    BY <1>2, <1>3, <1>4, <2>1, <2>2
<1>10. ASSUME NEW x \in Tokens, Logout(r, x) PROVE SerialInv'
  <2>1. ended' = ended \cup {x} /\ reqs' = [reqs EXCEPT ![r] = Idle]
    BY <1>10 DEF Logout, SerialInv, TypeOK
  <2> QED
    BY <1>2, <1>3, <1>4, <1>10, <2>1, LogoutRows DEF SerialInv, Touched
<1>12. ASSUME KillChain(r) \/ RevokeSessions(r) PROVE SerialInv'
  <2>1. reqs[r].user \in Users
    BY <1>12 DEF KillChain, RevokeSessions, SerialInv, TypeOK, Request, Idle
  <2> QED
    BY <1>4, <1>6, <1>12, <2>1 DEF KillChain, RevokeSessions
<1>13. ASSUME NEW u \in Users, LogoutAll(r, u) PROVE SerialInv'
  <2>1. reqs' = [reqs EXCEPT ![r] = Idle]
    BY <1>13 DEF LogoutAll, SerialInv, TypeOK
  <2> QED
    BY <1>4, <1>6, <1>13, <2>1 DEF LogoutAll
<1>14. ASSUME \/ \E u \in Users, password \in Passwords \cup {NoPassword} : Register(r, u, password)
              \/ CreateUser(r)
              \/ \E u \in Users, password \in Passwords : Login(r, u, password)
              \/ \E u \in Users : PasswordlessLogin(r, u)
              \/ \E u \in Users, current, new \in Passwords : ChangePassword(r, u, current, new)
              \/ \E u \in Users, new \in Passwords : ResetPassword(r, u, new)
              \/ UpdatePassword(r)
              \/ Fail(r)
       PROVE  SerialInv'
  BY <1>4, <1>5, <1>14 DEF Register, CreateUser, Login, PasswordlessLogin, ChangePassword,
                           ResetPassword, UpdatePassword, Fail
<1> QED
  BY <1>7, <1>8, <1>9, <1>10, <1>12, <1>13, <1>14 DEF Handle

LEMMA SerialExpire ==
    ASSUME SerialInv, NEW x \in Tokens, Expire(x)
    PROVE  SerialInv'
<1>1. TypeOK' /\ RotationIsSound'
  BY TypeStep, RotationStep DEF SerialInv, Next
<1>2. UNCHANGED <<reqs, ended>>
  BY DEF Expire
<1>3. \A t \in Issued : tokens'[t].revoked = tokens[t].revoked
  BY ExpireRows DEF SerialInv
<1>4. ended \subseteq Issued /\ \A t \in ended : tokens[t].revoked
  BY DEF SerialInv, TypeOK
<1>5. \A r \in Requests : reqs[r].op = "rotate" => reqs[r].token \in Issued
  BY DEF SerialInv, TypeOK, TokensOf
<1> QED
  BY <1>1, <1>2, <1>3, <1>4, <1>5 DEF SerialInv

LEMMA SerialInit == Init => SerialInv
BY TypeInit DEF Init, SerialInv, RotationIsSound, Issued, Idle

\* SerialInv lasts until requests overlap for the first time.
LEMMA TurnStep ==
    ASSUME overlapped \/ SerialInv, [TurnNext]_turnVars
    PROVE  (overlapped \/ SerialInv)'
<1>1. ASSUME NEW r \in Requests, Handle(r), overlapped' = (overlapped \/ ~Alone(r))
      PROVE  (overlapped \/ SerialInv)'
  BY <1>1, SerialStep
<1>2. ASSUME NEW t \in Tokens, Expire(t), UNCHANGED overlapped
      PROVE  (overlapped \/ SerialInv)'
  BY <1>2, SerialExpire
<1>3. CASE UNCHANGED turnVars
  BY <1>3 DEF turnVars, vars, SerialInv, TypeOK, RotationIsSound, Issued, TokensOf
<1> QED
  BY <1>1, <1>2, <1>3 DEF TurnNext

LEMMA TurnInvariant == TurnSpec => [](overlapped \/ SerialInv)
<1>1. TurnInit => overlapped \/ SerialInv
  BY SerialInit DEF TurnInit
<1> QED
  BY <1>1, TurnStep, PTL DEF TurnSpec

\* As long as requests take turns, a session that a logout or a revocation
\* has ended never comes back to life, whatever fails on the way.
THEOREM SessionsStayEndedInTurn == AllSpec => []EndedStaysEndedInTurn
<1>1. overlapped \/ SerialInv => EndedStaysEndedInTurn
  BY DEF EndedStaysEndedInTurn, SerialInv, EndedStaysEnded, Live
<1> QED
  BY <1>1, TurnInvariant, AllParts, PTL

\* As long as requests take turns, a token is replaced once.
THEOREM TokensAreUsedOnceInTurn == AllSpec => OneUsePerTokenInTurn
<1>1. ASSUME SerialInv, Next PROVE ReplacedOnce
  <2> SUFFICES ASSUME NEW t \in Issued, tokens[t].replacedBy # NoToken
               PROVE  tokens'[t].replacedBy = tokens[t].replacedBy
    BY DEF ReplacedOnce
  <2> USE <1>1 DEF SerialInv
  <2>1. ASSUME NEW r \in Requests, NEW x \in Tokens, Rotate(r, x)
        PROVE  tokens'[t].replacedBy = tokens[t].replacedBy
    <3>1. t # reqs[r].token
      BY <2>1 DEF RotationIsSound, Rotate
    <3> QED
      BY <2>1, <3>1, RotateRows DEF Touched
  <2>2. ASSUME NEW r \in Requests, KillChain(r) \/ RevokeSessions(r)
        PROVE  Touched(t)
    <3>1. reqs[r].user \in Users /\ tokens' = RevokedForUser(reqs[r].user)
      BY <2>2 DEF KillChain, RevokeSessions, TypeOK, Request, Idle
    <3> QED
      BY <3>1, RevokedRows
  <2>3. ASSUME NEW r \in Requests, NEW u \in Users, LogoutAll(r, u) PROVE Touched(t)
    BY <2>3, RevokedRows DEF LogoutAll
  <2>4. ASSUME NEW x \in Tokens,
               Expire(x) \/ \E r \in Requests : IssueAuthResult(r, x) \/ Logout(r, x)
        PROVE  Touched(t)
    BY <2>4, ExpireRows, IssueRows, LogoutRows
  <2> QED
    BY <2>1, <2>2, <2>3, <2>4
       DEF Next, Handle, Touched, Register, CreateUser, Login, PasswordlessLogin, Refresh,
           ChangePassword, ResetPassword, UpdatePassword, Fail
<1>2. (overlapped \/ SerialInv) /\ [TurnNext]_turnVars => [~overlapped' => ReplacedOnce]_turnVars
  BY <1>1 DEF TurnNext, Next
<1> QED
  BY <1>2, TurnInvariant, AllParts, PTL DEF TurnSpec, OneUsePerTokenInTurn

----------------------------------------------------------------------------
(* Sessions: the password, and those that are older than it *)

\* A session older than the password is revoked, but for the moment between
\* the two statements that set the one and revoke the other.
Revoking(u) == [op |-> "revoke", user |-> u]

OutdatedAreRevoked ==
    \A t \in outdated :
        tokens[t].revoked \/ \E r \in Requests : reqs[r] = Revoking(tokens[t].user)

\* A request that runs alone, and is not between those two statements, sees
\* none of them unrevoked.
LEMMA NoneOutdated ==
    ASSUME OutdatedAreRevoked, NEW r \in Requests, Alone(r), reqs[r].op # "revoke"
    PROVE  \A t \in outdated : tokens[t].revoked
<1>1. \A u : Revoking(u).op = "revoke"
  BY DEF Revoking
<1>2. \A q \in Requests : reqs[q].op # "revoke"
  BY DEF Alone, Idle
<1> QED
  BY <1>1, <1>2 DEF OutdatedAreRevoked

LEMMA OutdatedStep ==
    ASSUME SerialInv, OutdatedAreRevoked, NEW r \in Requests, Alone(r), Handle(r), ~Fail(r)
    PROVE  OutdatedAreRevoked'
<1>1. TypeOK /\ outdated \subseteq Issued
  BY DEF SerialInv, TypeOK
\* Every other step keeps the tokens that are revoked, and ages none.
<1>2. ASSUME reqs[r].op # "revoke", outdated' = outdated,
             \A t \in Issued : tokens[t].revoked => tokens'[t].revoked
      PROVE  OutdatedAreRevoked'
  BY <1>1, <1>2, NoneOutdated DEF OutdatedAreRevoked
<1>3. ASSUME NEW u \in Users, LogoutAll(r, u) PROVE OutdatedAreRevoked'
  <2>1. reqs[r].op # "revoke" /\ outdated' = outdated /\ tokens' = RevokedForUser(u)
    BY <1>3 DEF LogoutAll, Idle
  <2> QED
    BY <1>1, <1>2, <2>1, RevokedRows DEF Touched
<1>4. ASSUME KillChain(r) PROVE OutdatedAreRevoked'
  <2>1. /\ reqs[r].user \in Users /\ reqs[r].op # "revoke" /\ outdated' = outdated
        /\ tokens' = RevokedForUser(reqs[r].user)
    BY <1>1, <1>4 DEF KillChain, TypeOK, Request, Idle
  <2> QED
    BY <1>1, <1>2, <2>1, RevokedRows DEF Touched
<1>5. ASSUME NEW x \in Tokens, IssueAuthResult(r, x) PROVE OutdatedAreRevoked'
  <2>1. reqs[r].op # "revoke" /\ outdated' = outdated
    BY <1>5 DEF IssueAuthResult
  <2> QED
    BY <1>1, <1>2, <1>5, <2>1, IssueRows DEF Touched
<1>6. ASSUME NEW x \in Tokens, Logout(r, x) PROVE OutdatedAreRevoked'
  <2>1. reqs[r].op # "revoke" /\ outdated' = outdated
    BY <1>6 DEF Logout, Idle
  <2> QED
    BY <1>1, <1>2, <1>6, <2>1, LogoutRows DEF Touched
\* The token rotated is not revoked, so none that is outdated.
<1>7. ASSUME NEW x \in Tokens, Rotate(r, x) PROVE OutdatedAreRevoked'
  <2>1. reqs[r].op = "rotate" /\ ~tokens[reqs[r].token].revoked
    BY <1>7 DEF Rotate, SerialInv
  <2>2. reqs[r].token \notin outdated
    BY <2>1, NoneOutdated
  <2>3. outdated' = outdated
    BY <1>7, <2>2 DEF Rotate, Inherit
  <2>4. \A t \in Issued : tokens[t].revoked => tokens'[t].revoked
    BY <1>1, <1>7, RotateRows DEF Touched
  <2> QED
    BY <1>2, <2>1, <2>3, <2>4
\* The new password makes every session of the user outdated, to be revoked next.
<1>8. ASSUME UpdatePassword(r) PROVE OutdatedAreRevoked'
  <2> DEFINE u == reqs[r].user
  <2>1. /\ reqs[r].op = "password" /\ tokens' = tokens
        /\ outdated' = outdated \cup TokensOf(u)
        /\ reqs' = [reqs EXCEPT ![r] = Revoking(u)]
    BY <1>8 DEF UpdatePassword, Revoking
  <2>2. reqs'[r] = Revoking(u)
    BY <1>1, <2>1 DEF TypeOK
  <2>3. \A t \in outdated' : tokens'[t].revoked \/ tokens'[t].user = u
    BY <2>1, NoneOutdated DEF TokensOf
  <2> QED
    BY <2>2, <2>3 DEF OutdatedAreRevoked
<1>9. ASSUME RevokeSessions(r) PROVE OutdatedAreRevoked'
  <2> DEFINE u == reqs[r].user
  <2>1. /\ u \in Users /\ outdated' = outdated /\ tokens' = RevokedForUser(u)
    BY <1>1, <1>9 DEF RevokeSessions, TypeOK, Request, Idle
  <2>2. \A t \in outdated : tokens[t].revoked \/ tokens[t].user = u
    <3>1. \A q \in Requests : q = r \/ reqs[q].op # "revoke"
      BY DEF Alone, Idle
    <3>2. \A x : Revoking(x).op = "revoke" /\ Revoking(x).user = x
      BY DEF Revoking
    <3> QED
      BY <3>1, <3>2 DEF OutdatedAreRevoked
  <2>3. \A t \in outdated : tokens'[t].revoked
    BY <1>1, <2>1, <2>2, RevokedRows DEF Touched, TokensOf
  <2> QED
    BY <2>1, <2>3 DEF OutdatedAreRevoked
<1>10. ASSUME \/ \E u \in Users, password \in Passwords \cup {NoPassword} : Register(r, u, password)
              \/ CreateUser(r)
              \/ \E u \in Users, password \in Passwords : Login(r, u, password)
              \/ \E u \in Users : PasswordlessLogin(r, u)
              \/ \E t \in Tokens : Refresh(r, t)
              \/ \E u \in Users, current, new \in Passwords : ChangePassword(r, u, current, new)
              \/ \E u \in Users, new \in Passwords : ResetPassword(r, u, new)
       PROVE  OutdatedAreRevoked'
  <2>1. UNCHANGED <<tokens, outdated>> /\ reqs[r].op # "revoke"
    BY <1>10 DEF Register, CreateUser, Login, PasswordlessLogin, Refresh, ChangePassword,
                 ResetPassword, Idle
  <2> QED
    BY <1>2, <2>1
<1> QED
  BY <1>3, <1>4, <1>5, <1>6, <1>7, <1>8, <1>9, <1>10 DEF Handle

LEMMA OutdatedExpire ==
    ASSUME SerialInv, OutdatedAreRevoked, NEW x \in Tokens, Expire(x)
    PROVE  OutdatedAreRevoked'
<1>1. outdated \subseteq Issued /\ UNCHANGED <<reqs, outdated>>
  BY DEF SerialInv, TypeOK, Expire
<1>2. \A t \in Issued : /\ tokens'[t].revoked = tokens[t].revoked
                        /\ tokens'[t].user = tokens[t].user
  BY ExpireRows DEF SerialInv, Touched
<1> QED
  BY <1>1, <1>2 DEF OutdatedAreRevoked

\* It lasts until requests overlap, or one dies half-way.
LEMMA OutdatedTurnStep ==
    ASSUME overlapped \/ SerialInv, overlapped \/ failed \/ OutdatedAreRevoked,
           [TurnNext]_turnVars
    PROVE  (overlapped \/ failed \/ OutdatedAreRevoked)'
<1>1. ASSUME NEW r \in Requests, Handle(r), overlapped' = (overlapped \/ ~Alone(r)),
             failed' = (failed \/ Fail(r))
      PROVE  (overlapped \/ failed \/ OutdatedAreRevoked)'
  BY <1>1, OutdatedStep
<1>2. ASSUME NEW t \in Tokens, Expire(t), UNCHANGED <<overlapped, failed>>
      PROVE  (overlapped \/ failed \/ OutdatedAreRevoked)'
  BY <1>2, OutdatedExpire
<1>3. CASE UNCHANGED turnVars
  BY <1>3 DEF turnVars, vars, OutdatedAreRevoked
<1> QED
  BY <1>1, <1>2, <1>3 DEF TurnNext

\* As long as requests take turns and none dies half-way, a new password
\* leaves no session that is older, but for the time its request runs.
THEOREM OutdatedSessionsAlwaysEndInTurn == AllSpec => []OutdatedSessionsEndInTurn
<1>1. TurnInit => OutdatedAreRevoked
  BY DEF TurnInit, Init, OutdatedAreRevoked
<1>2. overlapped \/ failed \/ OutdatedAreRevoked => OutdatedSessionsEndInTurn
  BY DEF OutdatedSessionsEndInTurn, OutdatedAreRevoked, OutdatedSessionsEnd, Live, Revoking
<1> QED
  BY <1>1, <1>2, OutdatedTurnStep, TurnInvariant, AllParts, PTL DEF TurnSpec

----------------------------------------------------------------------------
(* One-time codes: the table *)

\* What a step may rely on of the rows and the requests.
LEMMA CodeFacts ==
    ASSUME Codes!TypeOK
    PROVE  /\ Len(challenges) \in Nat
           /\ DOMAIN challenges = 1 .. Len(challenges)
           /\ \A i \in DOMAIN challenges : i \in Nat /\ challenges[i] \in Codes!Challenge
           /\ \A r \in CodeRequests : codeReqs[r].op \in {"count", "burn"} =>
                  codeReqs[r].id \in DOMAIN challenges
           /\ accepted \in Seq(Nat) /\ Len(accepted) = Len(challenges)
BY DEF Codes!TypeOK

\* Replacing the row of challenge i keeps the type of the table.
LEMMA RowUpdate ==
    ASSUME Codes!TypeOK, NEW i \in DOMAIN challenges, NEW row \in Codes!Challenge,
           challenges' = [challenges EXCEPT ![i] = row]
    PROVE  /\ challenges' \in Seq(Codes!Challenge)
           /\ Len(challenges') = Len(challenges)
           /\ DOMAIN challenges' = DOMAIN challenges
           /\ challenges'[i] = row
           /\ \A j \in DOMAIN challenges : j # i => challenges'[j] = challenges[j]
BY ExceptSeq, CodeFacts DEF Codes!TypeOK

\* invalidateActive keeps every row, as consumed.
LEMMA InvalidatedRows ==
    ASSUME Codes!TypeOK
    PROVE  /\ Codes!Invalidated \in Seq(Codes!Challenge)
           /\ Len(Codes!Invalidated) = Len(challenges)
           /\ \A i \in DOMAIN challenges :
                  /\ Codes!Invalidated[i].consumed
                  /\ Codes!Invalidated[i].attempts = challenges[i].attempts
<1>1. Len(challenges) \in Nat /\ DOMAIN challenges = 1 .. Len(challenges)
  BY CodeFacts
<1>2. \A i \in 1 .. Len(challenges) : [challenges[i] EXCEPT !.consumed = TRUE] \in Codes!Challenge
  BY <1>1, CodeFacts DEF Codes!Challenge
<1>3. Codes!Invalidated = [i \in 1 .. Len(challenges) |-> [challenges[i] EXCEPT !.consumed = TRUE]]
  BY <1>1 DEF Codes!Invalidated
<1>4. Codes!Invalidated \in [1 .. Len(challenges) -> Codes!Challenge]
  BY <1>2, <1>3
<1>5. Codes!Invalidated \in Seq(Codes!Challenge) /\ Len(Codes!Invalidated) = Len(challenges)
  BY <1>1, <1>4
<1> QED
  BY <1>1, <1>3, <1>5, CodeFacts DEF Codes!Challenge

----------------------------------------------------------------------------
(* One-time codes: type correctness *)

\* What each action does to the table: a row is replaced, or one is appended.
LEMMA IncrementRow ==
    ASSUME Codes!TypeOK, NEW r \in CodeRequests, Codes!IncrementAttempts(r)
    PROVE  /\ challenges' \in Seq(Codes!Challenge)
           /\ Len(challenges') = Len(challenges) /\ DOMAIN challenges' = DOMAIN challenges
           /\ \A i \in DOMAIN challenges :
                 /\ challenges'[i].consumed = challenges[i].consumed
                 /\ i # codeReqs[r].id => challenges'[i].attempts = challenges[i].attempts
                 /\ i = codeReqs[r].id => challenges'[i].attempts = challenges[i].attempts + 1
<1> DEFINE i == codeReqs[r].id
           row == [challenges[i] EXCEPT !.attempts = challenges[i].attempts + 1]
<1>1. i \in DOMAIN challenges /\ challenges[i] \in Codes!Challenge
  BY CodeFacts DEF Codes!IncrementAttempts
<1>2. challenges' = [challenges EXCEPT ![i] = row]
  BY DEF Codes!IncrementAttempts
<1>3. /\ row \in Codes!Challenge
      /\ row.consumed = challenges[i].consumed /\ row.attempts = challenges[i].attempts + 1
  BY <1>1 DEF Codes!Challenge
<1> HIDE DEF row
<1> QED
  BY <1>1, <1>2, <1>3, RowUpdate

LEMMA ConsumeRow ==
    ASSUME Codes!TypeOK, NEW r \in CodeRequests, Codes!MarkConsumed(r)
    PROVE  /\ challenges' \in Seq(Codes!Challenge)
           /\ Len(challenges') = Len(challenges) /\ DOMAIN challenges' = DOMAIN challenges
           /\ \A i \in DOMAIN challenges :
                 /\ challenges[i].consumed => challenges'[i].consumed
                 /\ challenges'[i].attempts = challenges[i].attempts
<1> DEFINE i == codeReqs[r].id
           row == [challenges[i] EXCEPT !.consumed = TRUE]
<1>1. i \in DOMAIN challenges /\ challenges[i] \in Codes!Challenge
  BY CodeFacts DEF Codes!MarkConsumed
<1>2. challenges' = [challenges EXCEPT ![i] = row]
  BY DEF Codes!MarkConsumed
<1>3. row \in Codes!Challenge /\ row.consumed /\ row.attempts = challenges[i].attempts
  BY <1>1 DEF Codes!Challenge
<1> HIDE DEF row
<1> QED
  BY <1>1, <1>2, <1>3, RowUpdate

LEMMA AgeRow ==
    ASSUME Codes!TypeOK, NEW i \in DOMAIN challenges, Codes!Age(i)
    PROVE  /\ challenges' \in Seq(Codes!Challenge)
           /\ Len(challenges') = Len(challenges) /\ DOMAIN challenges' = DOMAIN challenges
           /\ \A j \in DOMAIN challenges :
                 /\ challenges'[j].consumed = challenges[j].consumed
                 /\ challenges'[j].attempts = challenges[j].attempts
<1> DEFINE row == [challenges[i] EXCEPT !.cooling = FALSE, !.expired = ~challenges[i].cooling]
<1>1. challenges' = [challenges EXCEPT ![i] = row]
  BY DEF Codes!Age
<1>2. /\ row \in Codes!Challenge
      /\ row.consumed = challenges[i].consumed /\ row.attempts = challenges[i].attempts
  BY CodeFacts DEF Codes!Challenge
<1> HIDE DEF row
<1> QED
  BY <1>1, <1>2, RowUpdate

LEMMA AppendedRow ==
    ASSUME Codes!TypeOK, NEW r \in CodeRequests, Codes!StoreChallenge(r)
    PROVE  /\ challenges' \in Seq(Codes!Challenge)
           /\ DOMAIN challenges' = 1 .. Len(challenges) + 1
           /\ Len(challenges') = Len(challenges) + 1
           /\ \A i \in DOMAIN challenges : /\ challenges'[i].consumed
                                           /\ challenges'[i].attempts = challenges[i].attempts
           /\ challenges'[Len(challenges) + 1] = Codes!NewChallenge
<1>1. Codes!NewChallenge \in Codes!Challenge
  BY DEF Codes!NewChallenge, Codes!Challenge
<1>2. challenges' = Append(Codes!Invalidated, Codes!NewChallenge)
  BY DEF Codes!StoreChallenge
<1> QED
  BY <1>1, <1>2, InvalidatedRows, CodeFacts, AppendProperties, LenProperties

\* A step keeps the types, one action at a time.
LEMMA CodesTypeStep == Codes!TypeOK /\ [Codes!Next]_(Codes!vars) => Codes!TypeOK'
<1> SUFFICES ASSUME Codes!TypeOK, [Codes!Next]_(Codes!vars) PROVE Codes!TypeOK'
  OBVIOUS
<1>1. ASSUME NEW r \in CodeRequests, Codes!RequestOtp(r) PROVE Codes!TypeOK'
  BY <1>1 DEF Codes!RequestOtp, Codes!Request, Codes!TypeOK
<1>2. ASSUME NEW r \in CodeRequests, Codes!StoreChallenge(r) PROVE Codes!TypeOK'
  <2>1. accepted' \in Seq(Nat) /\ Len(accepted') = Len(challenges) + 1
    BY <1>2, CodeFacts, AppendProperties DEF Codes!StoreChallenge
  <2>2. accepted' \in [DOMAIN challenges' -> Nat]
    BY <1>2, <2>1, AppendedRow, LenProperties
  <2>3. /\ codeReqs' \in [CodeRequests -> Codes!Request]
        /\ \A q \in CodeRequests : codeReqs'[q].op \in {"count", "burn"} =>
              codeReqs'[q].id \in DOMAIN challenges
    BY <1>2 DEF Codes!StoreChallenge, Codes!Request, Codes!Idle, Codes!TypeOK
  <2>4. DOMAIN challenges \subseteq DOMAIN challenges'
    BY <1>2, AppendedRow, CodeFacts
  <2> QED
    BY <1>2, <2>2, <2>3, <2>4, AppendedRow DEF Codes!TypeOK
<1>3. ASSUME NEW r \in CodeRequests, NEW i \in DOMAIN challenges, NEW isValid \in BOOLEAN,
             Codes!ReadChallenge(r, i, isValid)
      PROVE  Codes!TypeOK'
  <2>1. i \in Nat
    BY CodeFacts
  <2>2. [op |-> IF isValid THEN "burn" ELSE "count", id |-> i] \in Codes!Request
    BY <2>1 DEF Codes!Request
  <2>3. UNCHANGED <<challenges, accepted>>
    BY <1>3 DEF Codes!ReadChallenge
  <2> QED
    BY <1>3, <2>2, <2>3 DEF Codes!ReadChallenge, Codes!TypeOK
<1>4. ASSUME NEW r \in CodeRequests, codeReqs' = [codeReqs EXCEPT ![r] = Codes!Idle],
             challenges' \in Seq(Codes!Challenge), DOMAIN challenges' = DOMAIN challenges,
             accepted' \in [DOMAIN challenges -> Nat]
      PROVE  Codes!TypeOK'
  BY <1>4 DEF Codes!Request, Codes!Idle, Codes!TypeOK
<1>5. ASSUME NEW r \in CodeRequests, Codes!IncrementAttempts(r) PROVE Codes!TypeOK'
  <2>1. /\ codeReqs' = [codeReqs EXCEPT ![r] = Codes!Idle]
        /\ accepted' \in [DOMAIN challenges -> Nat]
    BY <1>5 DEF Codes!IncrementAttempts, Codes!TypeOK
  <2> QED
    BY <1>4, <1>5, <2>1, IncrementRow
<1>6. ASSUME NEW r \in CodeRequests, Codes!MarkConsumed(r) PROVE Codes!TypeOK'
  <2>1. /\ codeReqs' = [codeReqs EXCEPT ![r] = Codes!Idle]
        /\ accepted' \in [DOMAIN challenges -> Nat]
    BY <1>6 DEF Codes!MarkConsumed, Codes!TypeOK
  <2> QED
    BY <1>4, <1>6, <2>1, ConsumeRow
<1>7. ASSUME NEW r \in CodeRequests, Codes!Fail(r) PROVE Codes!TypeOK'
  BY <1>4, <1>7 DEF Codes!Fail, Codes!TypeOK
<1>8. ASSUME NEW i \in DOMAIN challenges, Codes!Age(i) PROVE Codes!TypeOK'
  <2>1. /\ challenges' \in Seq(Codes!Challenge) /\ DOMAIN challenges' = DOMAIN challenges
    BY <1>8, AgeRow
  <2> QED
    BY <1>8, <2>1 DEF Codes!Age, Codes!TypeOK
<1>9. CASE UNCHANGED Codes!vars
  BY <1>9 DEF Codes!vars, Codes!TypeOK
<1> QED
  BY <1>1, <1>2, <1>3, <1>5, <1>6, <1>7, <1>8, <1>9 DEF Codes!Next, Codes!Handle

LEMMA CodesTypeInit == Codes!Init => Codes!TypeOK
BY DEF Codes!Init, Codes!TypeOK, Codes!Request, Codes!Idle

\* The subject's challenges and the requests always have their types.
LEMMA CodesTypeCorrect == Codes!Spec => []Codes!TypeOK
BY CodesTypeInit, CodesTypeStep, PTL DEF Codes!Spec

----------------------------------------------------------------------------
(* One-time codes: only the newest works *)

LEMMA NewestStep ==
    Codes!TypeOK /\ Codes!OnlyNewestIsActive /\ [Codes!Next]_(Codes!vars)
    => Codes!OnlyNewestIsActive'
<1> SUFFICES ASSUME Codes!TypeOK, Codes!OnlyNewestIsActive, [Codes!Next]_(Codes!vars)
             PROVE  Codes!OnlyNewestIsActive'
  OBVIOUS
<1>1. ASSUME NEW r \in CodeRequests, Codes!StoreChallenge(r) PROVE Codes!OnlyNewestIsActive'
  BY <1>1, AppendedRow, CodeFacts DEF Codes!OnlyNewestIsActive, Codes!Active
<1>2. ASSUME Len(challenges') = Len(challenges), DOMAIN challenges' = DOMAIN challenges,
             \A i \in DOMAIN challenges : challenges[i].consumed => challenges'[i].consumed
      PROVE  Codes!OnlyNewestIsActive'
  BY <1>2 DEF Codes!OnlyNewestIsActive, Codes!Active
<1>3. ASSUME NEW r \in CodeRequests, Codes!IncrementAttempts(r) PROVE Codes!OnlyNewestIsActive'
  BY <1>2, <1>3, IncrementRow
<1>4. ASSUME NEW r \in CodeRequests, Codes!MarkConsumed(r) PROVE Codes!OnlyNewestIsActive'
  BY <1>2, <1>4, ConsumeRow
<1>5. ASSUME NEW i \in DOMAIN challenges, Codes!Age(i) PROVE Codes!OnlyNewestIsActive'
  BY <1>2, <1>5, AgeRow
<1>6. CASE challenges' = challenges
  BY <1>2, <1>6
<1> QED
  BY <1>1, <1>3, <1>4, <1>5, <1>6
     DEF Codes!Next, Codes!Handle, Codes!vars, Codes!RequestOtp, Codes!ReadChallenge, Codes!Fail

\* At any time at most one code can be accepted, the one stored last: what
\* the transaction of requestOtp promises.
THEOREM OnlyNewestIsEverActive == AllSpec => []OnlyNewestIsActive
<1>1. Codes!Init => Codes!OnlyNewestIsActive
  BY DEF Codes!Init, Codes!OnlyNewestIsActive, Codes!Active
<1> QED
  BY <1>1, NewestStep, CodesTypeCorrect, AllParts, PTL DEF Codes!Spec, OnlyNewestIsActive

----------------------------------------------------------------------------
(* One-time codes: the attempt cap, and by how much it can be exceeded *)

LEMMA CountingIsFinite ==
    \A i : /\ IsFiniteSet(Codes!Counting(i))
           /\ Cardinality(Codes!Counting(i)) \in Nat
           /\ Cardinality(Codes!Counting(i)) <= Cardinality(CodeRequests)
           /\ Cardinality(CodeRequests) \in Nat
BY CodesAssumption, FS_Subset, FS_CardinalityType DEF Codes!Counting

LEMMA CountingIsFiniteNext ==
    \A i : /\ IsFiniteSet(Codes!Counting(i)')
           /\ Cardinality(Codes!Counting(i)') \in Nat
           /\ Cardinality(Codes!Counting(i)') <= Cardinality(CodeRequests)
BY CodesAssumption, FS_Subset, FS_CardinalityType DEF Codes!Counting

\* A request that stops counting frees its place.
LEMMA CountingLess ==
    ASSUME Codes!TypeOK, NEW r \in CodeRequests, NEW i,
           codeReqs[r].op = "count", codeReqs[r].id = i,
           codeReqs' = [codeReqs EXCEPT ![r] = Codes!Idle]
    PROVE  Cardinality({q \in CodeRequests : codeReqs'[q].op = "count" /\ codeReqs'[q].id = i})
               = Cardinality(Codes!Counting(i)) - 1
<1>1. {q \in CodeRequests : codeReqs'[q].op = "count" /\ codeReqs'[q].id = i}
          = Codes!Counting(i) \ {r}
  BY DEF Codes!TypeOK, Codes!Counting, Codes!Idle
<1>2. r \in Codes!Counting(i)
  BY DEF Codes!Counting
<1> QED
  BY <1>1, <1>2, CountingIsFinite, FS_RemoveElement

\* An instance has its own name for the size of a set.
LEMMA CodesCardinality == \A S : Codes!Cardinality(S) = Cardinality(S)
BY DEF Codes!Cardinality, Cardinality

LEMMA BoundStep ==
    Codes!TypeOK /\ Codes!AttemptsAreBounded /\ [Codes!Next]_(Codes!vars)
    => Codes!AttemptsAreBounded'
<1> SUFFICES ASSUME Codes!TypeOK, Codes!AttemptsAreBounded, [Codes!Next]_(Codes!vars),
                    NEW i \in DOMAIN challenges'
             PROVE  challenges'[i].attempts
                      + Cardinality({q \in CodeRequests :
                                        codeReqs'[q].op = "count" /\ codeReqs'[q].id = i})
                          < MaxAttempts + Cardinality(CodeRequests)
  BY CodesCardinality DEF Codes!AttemptsAreBounded, Codes!Counting
<1> DEFINE Counted == {q \in CodeRequests : codeReqs'[q].op = "count" /\ codeReqs'[q].id = i}
<1> HIDE DEF Counted
<1>1. /\ IsFiniteSet(Counted) /\ Cardinality(Counted) \in Nat
      /\ Cardinality(Counted) <= Cardinality(CodeRequests)
      /\ Cardinality(CodeRequests) \in Nat /\ MaxAttempts \in Nat \ {0}
  BY CodesAssumption, FS_Subset, FS_CardinalityType DEF Counted
<1>2. i \in DOMAIN challenges =>
          /\ challenges[i].attempts \in Nat
          /\ Cardinality(Codes!Counting(i)) \in Nat
          /\ challenges[i].attempts + Cardinality(Codes!Counting(i))
                < MaxAttempts + Cardinality(CodeRequests)
  BY CodeFacts, CountingIsFinite, CodesCardinality DEF Codes!AttemptsAreBounded, Codes!Challenge
\* Where the attempts stay and nobody starts to count, nothing grows.
<1>3. ASSUME i \in DOMAIN challenges, challenges'[i].attempts = challenges[i].attempts,
             Counted \subseteq Codes!Counting(i)
      PROVE  challenges'[i].attempts + Cardinality(Counted)
                 < MaxAttempts + Cardinality(CodeRequests)
  <2>1. Cardinality(Counted) <= Cardinality(Codes!Counting(i))
    BY <1>3, CountingIsFinite, FS_Subset
  <2> QED
    BY <1>1, <1>2, <1>3, <2>1
<1>4. \A r \in CodeRequests :
         codeReqs' = [codeReqs EXCEPT ![r] = Codes!Idle] => Counted \subseteq Codes!Counting(i)
  BY DEF Counted, Codes!Counting, Codes!TypeOK, Codes!Idle
<1>5. ASSUME NEW r \in CodeRequests, Codes!StoreChallenge(r)
      PROVE  challenges'[i].attempts + Cardinality(Counted)
                 < MaxAttempts + Cardinality(CodeRequests)
  <2>1. codeReqs' = [codeReqs EXCEPT ![r] = Codes!Idle]
    BY <1>5 DEF Codes!StoreChallenge
  <2>2. CASE i \in DOMAIN challenges
    BY <1>3, <1>4, <1>5, <2>1, <2>2, AppendedRow
  <2>3. CASE i = Len(challenges) + 1
    <3>1. challenges'[i].attempts = 0
      BY <1>5, <2>3, AppendedRow DEF Codes!NewChallenge
    <3> QED
      BY <1>1, <3>1
  <2> QED
    BY <1>5, <2>2, <2>3, AppendedRow, CodeFacts
<1>6. ASSUME NEW r \in CodeRequests, NEW j \in DOMAIN challenges, NEW isValid \in BOOLEAN,
             Codes!ReadChallenge(r, j, isValid)
      PROVE  challenges'[i].attempts + Cardinality(Counted)
                 < MaxAttempts + Cardinality(CodeRequests)
  <2>1. /\ challenges' = challenges
        /\ codeReqs' = [codeReqs EXCEPT ![r] =
               [op |-> IF isValid THEN "burn" ELSE "count", id |-> j]]
        /\ challenges[j].attempts < MaxAttempts
    BY <1>6 DEF Codes!ReadChallenge, Codes!Allows
  <2>2. CASE i = j
    BY <1>1, <1>2, <2>1, <2>2
  <2>3. CASE i # j
    <3>1. Counted \subseteq Codes!Counting(i)
      BY <2>1, <2>3 DEF Counted, Codes!Counting, Codes!TypeOK
    <3> QED
      BY <1>3, <2>1, <3>1
  <2> QED
    BY <2>2, <2>3
<1>7. ASSUME NEW r \in CodeRequests, Codes!IncrementAttempts(r)
      PROVE  challenges'[i].attempts + Cardinality(Counted)
                 < MaxAttempts + Cardinality(CodeRequests)
  <2>1. codeReqs' = [codeReqs EXCEPT ![r] = Codes!Idle] /\ codeReqs[r].op = "count"
    BY <1>7 DEF Codes!IncrementAttempts
  <2>2. i \in DOMAIN challenges
    BY <1>7, IncrementRow
  <2>3. CASE i = codeReqs[r].id
    <3>1. Cardinality(Counted) = Cardinality(Codes!Counting(i)) - 1
      BY <2>1, <2>3, CountingLess DEF Counted
    <3>2. challenges'[i].attempts = challenges[i].attempts + 1
      BY <1>7, <2>2, <2>3, IncrementRow
    <3> QED
      BY <1>2, <2>2, <3>1, <3>2
  <2>4. CASE i # codeReqs[r].id
    <3>1. challenges'[i].attempts = challenges[i].attempts
      BY <1>7, <2>2, <2>4, IncrementRow
    <3> QED
      BY <1>3, <1>4, <2>1, <2>2, <3>1
  <2> QED
    BY <2>3, <2>4
<1>8. ASSUME NEW r \in CodeRequests, Codes!MarkConsumed(r)
      PROVE  challenges'[i].attempts + Cardinality(Counted)
                 < MaxAttempts + Cardinality(CodeRequests)
  <2>1. codeReqs' = [codeReqs EXCEPT ![r] = Codes!Idle]
    BY <1>8 DEF Codes!MarkConsumed
  <2>2. i \in DOMAIN challenges /\ challenges'[i].attempts = challenges[i].attempts
    BY <1>8, ConsumeRow
  <2> QED
    BY <1>3, <1>4, <2>1, <2>2
<1>9. ASSUME NEW j \in DOMAIN challenges, Codes!Age(j)
      PROVE  challenges'[i].attempts + Cardinality(Counted)
                 < MaxAttempts + Cardinality(CodeRequests)
  <2>1. codeReqs' = codeReqs
    BY <1>9 DEF Codes!Age
  <2>2. i \in DOMAIN challenges /\ challenges'[i].attempts = challenges[i].attempts
    BY <1>9, AgeRow
  <2> QED
    BY <1>3, <2>1, <2>2 DEF Counted, Codes!Counting
<1>10. CASE UNCHANGED <<challenges, codeReqs>>
  BY <1>3, <1>10 DEF Counted, Codes!Counting
<1>11. ASSUME NEW r \in CodeRequests, Codes!RequestOtp(r) \/ Codes!Fail(r)
       PROVE  challenges'[i].attempts + Cardinality(Counted)
                 < MaxAttempts + Cardinality(CodeRequests)
  <2>1. challenges' = challenges /\ Counted \subseteq Codes!Counting(i)
    BY <1>4, <1>11 DEF Codes!RequestOtp, Codes!Fail, Counted, Codes!Counting, Codes!TypeOK
  <2> QED
    BY <1>3, <2>1
<1> QED
  BY <1>5, <1>6, <1>7, <1>8, <1>9, <1>10, <1>11 DEF Codes!Next, Codes!Handle, Codes!vars, Counted

\* The cap may be exceeded, but by less than the number of requests that run
\* at once, for every cap and every number of requests.
THEOREM AttemptsAreAlwaysBounded == AllSpec => []AttemptsAreBounded
<1>1. Codes!Init => Codes!AttemptsAreBounded
  BY DEF Codes!Init, Codes!AttemptsAreBounded
<1> QED
  BY <1>1, BoundStep, CodesTypeCorrect, AllParts, PTL DEF Codes!Spec, AttemptsAreBounded

----------------------------------------------------------------------------
(* One-time codes: in turn *)

\* What a request that has matched a code holds while requests take turns.
CodesInv ==
    /\ Codes!TypeOK
    /\ ~codesOverlapped =>
          \A r \in CodeRequests : codeReqs[r].op = "burn" => codeReqs[r].id \in Codes!Active

\* A step in turn accepts no code but an active one.
AcceptsActive ==
    ~codesOverlapped' => \A i \in DOMAIN accepted : accepted'[i] # accepted[i] => i \in Codes!Active

LEMMA CodesStepIsNext == [Codes!TurnNext]_(Codes!turnVars) => [Codes!Next]_(Codes!vars)
BY DEF Codes!TurnNext, Codes!turnVars, Codes!Next

\* The request of a step that leaves the requests in turn runs alone.
LEMMA CodesInTurn ==
    ASSUME [Codes!TurnNext]_(Codes!turnVars), ~codesOverlapped'
    PROVE  /\ ~codesOverlapped
           /\ \/ UNCHANGED Codes!vars
              \/ \E r \in CodeRequests : Codes!Handle(r) /\ Codes!Alone(r)
              \/ \E i \in DOMAIN challenges : Codes!Age(i)
<1>1. CASE UNCHANGED Codes!turnVars
  BY <1>1 DEF Codes!turnVars
<1>2. ASSUME NEW r \in CodeRequests, Codes!Handle(r),
             codesOverlapped' = (codesOverlapped \/ ~Codes!Alone(r))
      PROVE  ~codesOverlapped /\ Codes!Alone(r)
  BY <1>2
<1>3. ASSUME NEW i \in DOMAIN challenges, Codes!Age(i), UNCHANGED codesOverlapped
      PROVE  ~codesOverlapped
  BY <1>3
<1> QED
  BY <1>1, <1>2, <1>3 DEF Codes!TurnNext

\* Rows keep their consumption outside requestOtp and markConsumed, and only
\* these two end a request that may hold a code.
LEMMA CodesTurnStep == CodesInv /\ [Codes!TurnNext]_(Codes!turnVars) => CodesInv'
<1> SUFFICES ASSUME CodesInv, [Codes!TurnNext]_(Codes!turnVars) PROVE CodesInv'
  OBVIOUS
<1>1. Codes!TypeOK /\ Codes!TypeOK'
  BY CodesTypeStep, CodesStepIsNext DEF CodesInv
<1> SUFFICES ASSUME ~codesOverlapped', NEW q \in CodeRequests, codeReqs'[q].op = "burn"
             PROVE  codeReqs'[q].id \in Codes!Active'
  BY <1>1 DEF CodesInv
<1>2. /\ ~codesOverlapped
      /\ \A r \in CodeRequests : codeReqs[r].op = "burn" => codeReqs[r].id \in Codes!Active
  BY CodesInTurn DEF CodesInv
<1>3. ASSUME NEW r \in CodeRequests, Codes!Alone(r), codeReqs' = [codeReqs EXCEPT ![r] = Codes!Idle]
      PROVE  FALSE
  <2>1. codeReqs'[q] = Codes!Idle
    BY <1>1, <1>3 DEF Codes!Alone, Codes!TypeOK
  <2> QED
    BY <2>1 DEF Codes!Idle
<1>4. ASSUME NEW r \in CodeRequests, NEW i \in DOMAIN challenges, NEW isValid \in BOOLEAN,
             Codes!Alone(r), Codes!ReadChallenge(r, i, isValid)
      PROVE  codeReqs'[q].id \in Codes!Active'
  <2>1. /\ i \in Codes!Active /\ challenges' = challenges
        /\ codeReqs' = [codeReqs EXCEPT ![r] =
               [op |-> IF isValid THEN "burn" ELSE "count", id |-> i]]
    BY <1>4 DEF Codes!ReadChallenge, Codes!IsLatestActive
  <2>2. q = r
    BY <1>1, <1>4, <2>1 DEF Codes!Alone, Codes!TypeOK, Codes!Idle
  <2> QED
    BY <1>1, <2>1, <2>2 DEF Codes!Active, Codes!TypeOK
<1>5. ASSUME NEW r \in CodeRequests, Codes!Alone(r), Codes!RequestOtp(r) PROVE FALSE
  <2>1. codeReqs' = [codeReqs EXCEPT ![r] = [op |-> "send"]]
    BY <1>5 DEF Codes!RequestOtp
  <2> QED
    BY <1>1, <1>5, <2>1 DEF Codes!Alone, Codes!TypeOK, Codes!Idle
<1>6. ASSUME NEW i \in DOMAIN challenges, Codes!Age(i) PROVE codeReqs'[q].id \in Codes!Active'
  <2>1. codeReqs' = codeReqs /\ DOMAIN challenges' = DOMAIN challenges
        /\ \A j \in DOMAIN challenges : challenges'[j].consumed = challenges[j].consumed
    BY <1>1, <1>6, AgeRow DEF Codes!Age
  <2> QED
    BY <1>2, <2>1 DEF Codes!Active
<1>7. CASE UNCHANGED Codes!vars
  BY <1>2, <1>7 DEF Codes!vars, Codes!Active
<1> QED
  BY <1>3, <1>4, <1>5, <1>6, <1>7, CodesInTurn
     DEF Codes!Handle, Codes!StoreChallenge, Codes!IncrementAttempts, Codes!MarkConsumed, Codes!Fail

LEMMA AcceptedStep == CodesInv /\ [Codes!TurnNext]_(Codes!turnVars) => AcceptsActive
<1> SUFFICES ASSUME CodesInv, [Codes!TurnNext]_(Codes!turnVars), ~codesOverlapped',
                    NEW i \in DOMAIN accepted, accepted'[i] # accepted[i]
             PROVE  i \in Codes!Active
  BY DEF AcceptsActive
<1>1. /\ Codes!TypeOK
      /\ \A r \in CodeRequests : codeReqs[r].op = "burn" => codeReqs[r].id \in Codes!Active
  BY CodesInTurn DEF CodesInv
<1>2. ASSUME NEW r \in CodeRequests, Codes!StoreChallenge(r) PROVE FALSE
  <2>1. accepted' = Append(accepted, 0) /\ accepted \in Seq(Nat)
    BY <1>1, <1>2, CodeFacts DEF Codes!StoreChallenge
  <2> QED
    BY <2>1
<1>3. ASSUME NEW r \in CodeRequests, Codes!MarkConsumed(r) PROVE i \in Codes!Active
  <2>1. accepted' = [accepted EXCEPT ![codeReqs[r].id] = @ + 1] /\ codeReqs[r].op = "burn"
    BY <1>3 DEF Codes!MarkConsumed
  <2>2. i = codeReqs[r].id
    BY <2>1
  <2> QED
    BY <1>1, <2>1, <2>2
<1> QED
  BY <1>2, <1>3, CodesInTurn
     DEF Codes!Handle, Codes!RequestOtp, Codes!ReadChallenge, Codes!IncrementAttempts,
         Codes!Fail, Codes!Age, Codes!vars

\* Until requests overlap for the first time, every code is accepted once at
\* most, and only while no newer one has been stored.
THEOREM AcceptedOnlyWhileActiveInTurn == AllSpec => AcceptedWhileActiveInTurn
<1>1. Codes!TurnInit => CodesInv
  BY CodesTypeInit DEF Codes!TurnInit, CodesInv, Codes!Init, Codes!Idle
<1>2. CodesInv /\ CodesInv' /\ [Codes!TurnNext]_(Codes!turnVars) => [AcceptsActive]_(Codes!turnVars)
  BY AcceptedStep
<1> QED
  BY <1>1, <1>2, CodesTurnStep, AllParts,
     PTL DEF Codes!TurnSpec, AcceptedWhileActiveInTurn, Codes!AcceptedWhileActiveInTurn,
             AcceptsActive

----------------------------------------------------------------------------
(* Types *)

\* Users, tokens, challenges and the requests of both parts keep their types,
\* for any number of them (the tables and handlers of auth.service.js).
THEOREM TypesCorrect == AllSpec => []TypesOK
BY AllParts, TypeCorrect, CodesTypeCorrect, PTL DEF TypesOK

=============================================================================
