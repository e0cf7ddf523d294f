------------------------------ MODULE Sessions ------------------------------
(***************************************************************************)
(* Accounts and refresh tokens: services/shared/auth.service.js and        *)
(* repositories/shared/refreshToken.repository.js.                         *)
(*                                                                         *)
(* A session is a chain of refresh tokens.  Signing in issues the first    *)
(* one, each refresh replaces it by the next, and logging out, changing the*)
(* password and replaying a used token revoke.  A handler is a chain of    *)
(* awaits: it reads a row, decides, and writes in a later statement that is*)
(* addressed by id and tests nothing again.  Only the two statements of    *)
(* rotate share a transaction.  An access token is checked by its signature*)
(* alone and has no state here.  No code in the repository suspends a user,*)
(* so assertUserActive always passes.                                      *)
(***************************************************************************)
EXTENDS Naturals, FiniteSets

CONSTANTS
    Users,
    Passwords,
    NoPassword,     \* password_hash NULL: an OTP-only or Google account
    NoAccount,      \* no row in users yet
    Tokens,         \* the refresh tokens that may be signed
    NoToken,        \* replaced_by_hash NULL
    Requests        \* the HTTP requests that may be in flight at one time

ASSUME SessionAssumption ==
    /\ NoPassword \notin Passwords
    /\ NoAccount \notin Passwords \cup {NoPassword} \cup Users
    /\ NoToken \notin Tokens

VARIABLES
    credentials,    \* the table users: the password of each account
    tokens,         \* the table refresh_tokens
    reqs,           \* what each request in flight holds
    ended,          \* ghost: tokens of the sessions a logout or revocation has ended
    outdated        \* ghost: tokens of the sessions older than the account's password

vars == <<credentials, tokens, reqs, ended, outdated>>

----------------------------------------------------------------------------
(* Rows and requests *)

Unissued == [user |-> NoAccount]

\* revoked: revoked_at is set; expired: expires_at, which is also the exp
\* claim of the token, is in the past.
RefreshToken ==
    [user : Users, revoked : BOOLEAN, expired : BOOLEAN, replacedBy : Tokens \cup {NoToken}]

Issued == {t \in Tokens : tokens[t] # Unissued}

Live(t) == t \in Issued /\ ~tokens[t].revoked /\ ~tokens[t].expired

TokensOf(u) == {t \in Issued : tokens[t].user = u}

Idle == [op |-> "idle"]

\* register: no account was found; issue: the user may have a pair; kill: a
\* used token was presented; rotate: a live one was; password: the new
\* password is to be saved; revoke: it was.
Request ==
    {Idle}
    \cup [op : {"register", "password"}, user : Users, password : Passwords \cup {NoPassword}]
    \cup [op : {"issue", "kill", "revoke"}, user : Users]
    \cup [op : {"rotate"}, user : Users, token : Tokens]

\* signRefreshToken and RefreshToken.create.
NewToken(u) == [user |-> u, revoked |-> FALSE, expired |-> FALSE, replacedBy |-> NoToken]

\* revokeAllForUser.
RevokedForUser(u) ==
    [t \in Tokens |-> IF t \in TokensOf(u) THEN [tokens[t] EXCEPT !.revoked = TRUE] ELSE tokens[t]]

\* A token that replaces t belongs to the session of t.
Inherit(set, t, new) == IF t \in set THEN set \cup {new} ELSE set

----------------------------------------------------------------------------
(* Signing in *)

Init ==
    /\ credentials = [u \in Users |-> NoAccount]
    /\ tokens = [t \in Tokens |-> Unissued]
    /\ reqs = [r \in Requests |-> Idle]
    /\ ended = {}
    /\ outdated = {}

\* register, googleAuth and verifyOtp (REGISTER) up to userRepository.create:
\* no account has this e-mail or phone.  The last two set no password.
Register(r, u, password) ==
    /\ reqs[r] = Idle
    /\ credentials[u] = NoAccount
    /\ reqs' = [reqs EXCEPT ![r] = [op |-> "register", user |-> u, password |-> password]]
    /\ UNCHANGED <<credentials, tokens, ended, outdated>>

\* userRepository.create, which the unique indexes of users refuse when
\* another request has registered the same identifier since (then Fail).
CreateUser(r) ==
    LET q == reqs[r] IN
    /\ q.op = "register"
    /\ credentials[q.user] = NoAccount
    /\ credentials' = [credentials EXCEPT ![q.user] = q.password]
    /\ reqs' = [reqs EXCEPT ![r] = [op |-> "issue", user |-> q.user]]
    /\ UNCHANGED <<tokens, ended, outdated>>

\* login: the password given is that of the row read.
Login(r, u, password) ==
    /\ reqs[r] = Idle
    /\ credentials[u] = password
    /\ reqs' = [reqs EXCEPT ![r] = [op |-> "issue", user |-> u]]
    /\ UNCHANGED <<credentials, tokens, ended, outdated>>

\* verifyOtp (LOGIN) and googleAuth of an account there is: the code or the
\* Google token has been accepted.
PasswordlessLogin(r, u) ==
    /\ reqs[r] = Idle
    /\ credentials[u] # NoAccount
    /\ reqs' = [reqs EXCEPT ![r] = [op |-> "issue", user |-> u]]
    /\ UNCHANGED <<credentials, tokens, ended, outdated>>

\* issueAuthResult: a fresh token t is signed and stored.
IssueAuthResult(r, t) ==
    /\ reqs[r].op = "issue"
    /\ t \notin Issued
    /\ tokens' = [tokens EXCEPT ![t] = NewToken(reqs[r].user)]
    /\ reqs' = [reqs EXCEPT ![r] = Idle]
    /\ UNCHANGED <<credentials, ended, outdated>>

----------------------------------------------------------------------------
(* Refreshing *)

\* Mutant: whether the token was used before is not looked at.
RefreshAnyToken(r, t) ==
    /\ reqs[r] = Idle
    /\ t \in Issued
    /\ ~tokens[t].expired
    /\ reqs' = [reqs EXCEPT ![r] = [op |-> "rotate", user |-> tokens[t].user, token |-> t]]
    /\ UNCHANGED <<credentials, tokens, ended, outdated>>

\* refresh up to its first write: an expired token is refused by its own
\* signature check, a revoked one gives the whole user away.
Refresh(r, t) ==
    /\ reqs[r] = Idle
    /\ t \in Issued
    /\ ~tokens[t].expired
    /\ reqs' = [reqs EXCEPT ![r] =
           IF tokens[t].revoked
           THEN [op |-> "kill", user |-> tokens[t].user]
           ELSE [op |-> "rotate", user |-> tokens[t].user, token |-> t]]
    /\ UNCHANGED <<credentials, tokens, ended, outdated>>

\* Mutant: the presented token stays as it is.
RotateKeepingOld(r, new) ==
    LET q == reqs[r] IN
    /\ q.op = "rotate"
    /\ new \notin Issued
    /\ tokens' = [tokens EXCEPT ![q.token].replacedBy = new, ![new] = NewToken(q.user)]
    /\ ended' = Inherit(ended, q.token, new)
    /\ outdated' = Inherit(outdated, q.token, new)
    /\ reqs' = [reqs EXCEPT ![r] = Idle]
    /\ UNCHANGED credentials

\* The transaction of rotate: the row that was read is revoked, whatever has
\* become of it, and its replacement is created.
Rotate(r, new) ==
    LET q == reqs[r] IN
    /\ q.op = "rotate"
    /\ new \notin Issued
    /\ tokens' = [tokens EXCEPT ![q.token].revoked = TRUE,
                                ![q.token].replacedBy = new,
                                ![new] = NewToken(q.user)]
    /\ ended' = Inherit(ended, q.token, new)
    /\ outdated' = Inherit(outdated, q.token, new)
    /\ reqs' = [reqs EXCEPT ![r] = Idle]
    /\ UNCHANGED credentials

\* The other branch of refresh: every session of the user is killed.
KillChain(r) ==
    /\ reqs[r].op = "kill"
    /\ tokens' = RevokedForUser(reqs[r].user)
    /\ ended' = ended \cup TokensOf(reqs[r].user)
    /\ reqs' = [reqs EXCEPT ![r] = Idle]
    /\ UNCHANGED <<credentials, outdated>>

----------------------------------------------------------------------------
(* Signing out and changing the password *)

\* logout is one UPDATE, of a token that has not been revoked.
Logout(r, t) ==
    /\ reqs[r] = Idle
    /\ t \in Issued
    /\ ~tokens[t].revoked
    /\ tokens' = [tokens EXCEPT ![t].revoked = TRUE]
    /\ ended' = ended \cup {t}
    /\ UNCHANGED <<credentials, reqs, outdated>>

\* logoutAll is one UPDATE too.
LogoutAll(r, u) ==
    /\ reqs[r] = Idle
    /\ tokens' = RevokedForUser(u)
    /\ ended' = ended \cup TokensOf(u)
    /\ UNCHANGED <<credentials, reqs, outdated>>

\* changePassword up to its first write: the current password is given, if
\* there is one.
ChangePassword(r, u, current, new) ==
    /\ reqs[r] = Idle
    /\ credentials[u] \in {current, NoPassword}
    /\ reqs' = [reqs EXCEPT ![r] = [op |-> "password", user |-> u, password |-> new]]
    /\ UNCHANGED <<credentials, tokens, ended, outdated>>

\* resetPassword up to its first write of users: a code has been accepted.
ResetPassword(r, u, new) ==
    /\ reqs[r] = Idle
    /\ credentials[u] # NoAccount
    /\ reqs' = [reqs EXCEPT ![r] = [op |-> "password", user |-> u, password |-> new]]
    /\ UNCHANGED <<credentials, tokens, ended, outdated>>

\* Both then save the new password.
UpdatePassword(r) ==
    LET q == reqs[r] IN
    /\ q.op = "password"
    /\ credentials' = [credentials EXCEPT ![q.user] = q.password]
    /\ outdated' = outdated \cup TokensOf(q.user)
    /\ reqs' = [reqs EXCEPT ![r] = [op |-> "revoke", user |-> q.user]]
    /\ UNCHANGED <<tokens, ended>>

\* Mutant: a new password leaves the sessions as they are.
RevokeNoSessions(r) ==
    /\ reqs[r].op = "revoke"
    /\ reqs' = [reqs EXCEPT ![r] = [op |-> "issue", user |-> reqs[r].user]]
    /\ UNCHANGED <<credentials, tokens, ended, outdated>>

\* Both revoke every session in a statement of its own, and issue a pair.
RevokeSessions(r) ==
    /\ reqs[r].op = "revoke"
    /\ tokens' = RevokedForUser(reqs[r].user)
    /\ ended' = ended \cup TokensOf(reqs[r].user)
    /\ reqs' = [reqs EXCEPT ![r] = [op |-> "issue", user |-> reqs[r].user]]
    /\ UNCHANGED <<credentials, outdated>>

----------------------------------------------------------------------------

\* expires_at of t passes.
Expire(t) ==
    /\ t \in Issued
    /\ tokens' = [tokens EXCEPT ![t].expired = TRUE]
    /\ UNCHANGED <<credentials, reqs, ended, outdated>>

\* A request dies between two of its statements.
Fail(r) ==
    /\ reqs[r] # Idle
    /\ reqs' = [reqs EXCEPT ![r] = Idle]
    /\ UNCHANGED <<credentials, tokens, ended, outdated>>

\* One step of request r.
Handle(r) ==
    \/ \E u \in Users, password \in Passwords \cup {NoPassword} : Register(r, u, password)
    \/ CreateUser(r)
    \/ \E u \in Users, password \in Passwords : Login(r, u, password)
    \/ \E u \in Users : PasswordlessLogin(r, u)
    \/ \E t \in Tokens : IssueAuthResult(r, t)
    \/ \E t \in Tokens : Refresh(r, t)
    \/ \E t \in Tokens : Rotate(r, t)
    \/ KillChain(r)
    \/ \E t \in Tokens : Logout(r, t)
    \/ \E u \in Users : LogoutAll(r, u)
    \/ \E u \in Users, current, new \in Passwords : ChangePassword(r, u, current, new)
    \/ \E u \in Users, new \in Passwords : ResetPassword(r, u, new)
    \/ UpdatePassword(r)
    \/ RevokeSessions(r)
    \/ Fail(r)

Next ==
    \/ \E r \in Requests : Handle(r)
    \/ \E t \in Tokens : Expire(t)

Spec == Init /\ [][Next]_vars

----------------------------------------------------------------------------
(* Properties *)

\* Every variable holds what its table or its handler can hold.
TypeOK ==
    /\ credentials \in [Users -> Passwords \cup {NoPassword, NoAccount}]
    /\ tokens \in [Tokens -> RefreshToken \cup {Unissued}]
    /\ reqs \in [Requests -> Request]
    /\ \A r \in Requests : reqs[r].op = "rotate" => reqs[r].token \in TokensOf(reqs[r].user)
    /\ ended \subseteq Issued
    /\ outdated \subseteq Issued

\* Rotation leaves no loose end, even when two requests rotate the same token:
\* a replaced token is revoked, and what replaced it is another token, issued
\* to the same user.
RotationIsSound ==
    \A t \in Issued : tokens[t].replacedBy # NoToken =>
        /\ tokens[t].revoked
        /\ tokens[t].replacedBy \in TokensOf(tokens[t].user) \ {t}

\* "rotation happens as one transaction so a crash between the two never
\* leaves a token double-spendable" and "only has one use": once a token has
\* its replacement, it never gets another.
ReplacedOnce ==
    \A t \in Issued : tokens[t].replacedBy # NoToken
                          => tokens'[t].replacedBy = tokens[t].replacedBy

\* "every session for this user is killed", "Signs every device out at once",
\* "the only live session afterwards": a session that was ended stays so.
EndedStaysEnded == \A t \in ended : ~Live(t)

\* "Every existing session is revoked" when a password is reset: no session is
\* older than the password, except while the request that set it still runs.
OutdatedSessionsEnd ==
    \A t \in outdated : Live(t) =>
        \E r \in Requests : reqs[r] = [op |-> "revoke", user |-> tokens[t].user]

============================================================================
