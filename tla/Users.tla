--------------------------------- MODULE Users ---------------------------------
(***************************************************************************)
(* The users of the Manager and their sessions: logins and logouts         *)
(* (routers/auth.py, dependencies.py), the administration of users         *)
(* (routers/users.py) and the bootstrap of the first administrator         *)
(* (bootstrap.py).                                                         *)
(*                                                                         *)
(* A password is hashed or verified in a thread, so a login uses a row it  *)
(* read before, and an administration request was authenticated before.    *)
(* Every write to users is made behind one row, the lifecycle fence, and   *)
(* becomes visible when it commits.  Requests that are refused before the  *)
(* fence, and replays, change nothing and are left out.                    *)
(***************************************************************************)
EXTENDS Naturals, FiniteSets

CONSTANTS
    Nothing,
    Accounts,   \* users, by email
    Passwords,
    Keys,       \* idempotency keys of one administrator
    Asked(_),   \* may a request with this body be made: TRUE, or the bound of an instance
    Procs,      \* requests handled at a time
    MaxTokens   \* bound on logins

VARIABLES
    users,      \* User by account; role "none" when there is no row
    booted,     \* AdminBootstrapState.admin_user_id
    fence,      \* the request that holds the lock of AdminBootstrapState
    ops,        \* AdminUserOperation by actor and key
    req,        \* requests
    tokens,     \* access tokens without those of RevokedAccessToken; pw and role are
                \* the ones that the login read (history)
    issued      \* how many were issued

userVars == <<users, booted, fence, ops, req, tokens, issued>>

NoUser == [role |-> "none", disabled |-> FALSE, row |-> 0, tok |-> 0, pw |-> Nothing]

Rows == [role : {"none", "admin", "user"}, disabled : BOOLEAN, row : Nat, tok : Nat,
         pw : Passwords \cup {Nothing}]

\* What an administrator asks for.
Bodies ==
    [op : {"create"}, role : {"admin", "user"}, disabled : BOOLEAN, pw : Passwords]
    \cup [op : {"access_update"}, role : {"admin", "user"}, disabled : BOOLEAN, pw : {Nothing}]
    \cup [op : {"password_reset"}, role : {"none"}, disabled : {FALSE}, pw : Passwords]

NoBody == [op |-> "none", role |-> "none", disabled |-> FALSE, pw |-> Nothing]

Operations == (Accounts \X Keys) \cup {Nothing}

\* user: the row that a login read, or that a decided request writes.
UserRequests == [at : {"idle", "verify", "authenticated", "fenced", "decided"},
             actor : Accounts \cup {Nothing}, target : Accounts \cup {Nothing}, key : Operations,
             body : Bodies \cup {NoBody}, row : Nat, user : Rows]

Idle == [at |-> "idle", actor |-> Nothing, target |-> Nothing, key |-> Nothing, body |-> NoBody,
         row |-> 0, user |-> NoUser]

\* The request goes on, with the row that it read or writes.
Moved(q, at, user) == [at |-> at, actor |-> q.actor, target |-> q.target, key |-> q.key,
                       body |-> q.body, row |-> q.row, user |-> user]

Tokens == [user : Accounts, ver : Nat, jti : Nat, role : {"none", "admin", "user"},
           pw : Passwords \cup {Nothing}]

UsersTypeOK ==
    /\ users \in [Accounts -> Rows]
    /\ booted \in Accounts \cup {Nothing}
    /\ fence \in Procs \cup {Nothing}
    /\ ops \in [Accounts \X Keys -> BOOLEAN]
    /\ req \in [Procs -> UserRequests]
    /\ tokens \subseteq Tokens
    /\ issued \in Nat

Administrator(pw) == [role |-> "admin", disabled |-> FALSE, row |-> 1, tok |-> 1, pw |-> pw]

\* A new database, or one in which every account was made an administrator.
UsersInit ==
    /\ \/ users = [u \in Accounts |-> NoUser] /\ booted = Nothing
       \/ /\ \E pw \in Passwords : users = [u \in Accounts |-> Administrator(pw)]
          /\ booted \in Accounts
    /\ fence = Nothing
    /\ ops = [k \in Accounts \X Keys |-> FALSE]
    /\ req = [p \in Procs |-> Idle]
    /\ tokens = {} /\ issued = 0

EnabledAdmin(u) == users[u].role = "admin" /\ ~users[u].disabled

-----------------------------------------------------------------------------
(* The first administrator, and sessions.                                  *)

\* ensure_admin_user, behind the same row as the fence; once only.
Bootstrap(u, pw) ==
    /\ fence = Nothing
    /\ booted = Nothing
    /\ \A v \in Accounts : users[v].role = "none"
    /\ users' = [users EXCEPT ![u] = Administrator(pw)]
    /\ booted' = u
    /\ UNCHANGED <<fence, ops, req, tokens, issued>>

\* login reads the row and verifies the password in a thread; a wrong password and a
\* disabled user end in a refusal.
Login(p, u) ==
    /\ req[p].at = "idle"
    /\ users[u].role # "none" /\ ~users[u].disabled
    /\ issued < MaxTokens
    /\ req' = [req EXCEPT ![p] = [at |-> "verify", actor |-> Nothing, target |-> u, key |-> Nothing,
                                body |-> NoBody, row |-> 0, user |-> users[u]]]
    /\ UNCHANGED <<users, booted, fence, ops, tokens, issued>>

\* The token carries the version of the row as it was read.
IssueToken(p) ==
    /\ req[p].at = "verify"
    /\ tokens' = tokens \cup {[user |-> req[p].target, ver |-> req[p].user.tok, jti |-> issued + 1,
                               role |-> req[p].user.role, pw |-> req[p].user.pw]}
    /\ issued' = issued + 1
    /\ req' = [req EXCEPT ![p] = Idle]
    /\ UNCHANGED <<users, booted, fence, ops>>

\* require_user_auth
Live(t) ==
    /\ users[t.user].role # "none" /\ ~users[t.user].disabled
    /\ users[t.user].tok = t.ver

Logout(t) ==
    /\ Live(t)
    /\ tokens' = tokens \ {t}
    /\ UNCHANGED <<users, booted, fence, ops, req, issued>>

-----------------------------------------------------------------------------
(* The administration of users.                                            *)

\* require_admin_user and the first look for a stored answer; the row that the
\* administrator was shown is the present one.
ReceiveRequest(p, t, u, k, body) ==
    /\ req[p].at = "idle"
    /\ Live(t) /\ users[t.user].role = "admin"
    /\ Asked(body)
    /\ ~ops[<<t.user, k>>]
    /\ req' = [req EXCEPT ![p] = [at |-> "authenticated", actor |-> t.user, target |-> u,
                                key |-> <<t.user, k>>, body |-> body, row |-> users[u].row,
                                user |-> NoUser]]
    /\ UNCHANGED <<users, booted, fence, ops, tokens, issued>>

\* (mutant) only the row of the target is locked
TargetRowOnly(p) ==
    /\ req[p].at = "authenticated"
    /\ req' = [req EXCEPT ![p] = Moved(req[p], "fenced", NoUser)]
    /\ UNCHANGED <<users, booted, fence, ops, tokens, issued>>

\* _lock_lifecycle_fence: one write at a time; the actor is looked at again.
LifecycleFence(p) ==
    /\ req[p].at = "authenticated"
    /\ fence = Nothing
    /\ IF EnabledAdmin(req[p].actor)
       THEN req' = [req EXCEPT ![p] = Moved(req[p], "fenced", NoUser)] /\ fence' = p
       ELSE req' = [req EXCEPT ![p] = Idle] /\ UNCHANGED fence
    /\ UNCHANGED <<users, booted, ops, tokens, issued>>

Removes(q) == q.body.role # "admin" \/ q.body.disabled

\* The checks of update_user_access: the version shown, no administrator against
\* themselves, and never against the last one.
MayUpdate(q) ==
    /\ users[q.target].role # "none" /\ users[q.target].row = q.row
    /\ Removes(q) => q.target # q.actor
    /\ Removes(q) /\ EnabledAdmin(q.target) => Cardinality({u \in Accounts : EnabledAdmin(u)}) > 1

May(q) ==
    /\ ~ops[q.key]
    /\ CASE q.body.op = "create" -> users[q.target].role = "none"
         [] q.body.op = "access_update" -> MayUpdate(q)
         [] q.body.op = "password_reset" ->
              users[q.target].role # "none" /\ users[q.target].row = q.row

\* A change of role or state, and a new password, end the sessions of the user.
Written(q) ==
    LET old == users[q.target] IN
    CASE q.body.op = "create" ->
           [role |-> q.body.role, disabled |-> q.body.disabled, row |-> 1, tok |-> 1, pw |-> q.body.pw]
      [] q.body.op = "access_update" ->
           IF old.role = q.body.role /\ old.disabled = q.body.disabled THEN old
           ELSE [role |-> q.body.role, disabled |-> q.body.disabled, row |-> old.row + 1,
                 tok |-> old.tok + 1, pw |-> old.pw]
      [] q.body.op = "password_reset" ->
           [role |-> old.role, disabled |-> old.disabled, row |-> old.row + 1,
            tok |-> old.tok + 1, pw |-> q.body.pw]

Released(p) == IF fence = p THEN Nothing ELSE fence

\* Behind the fence: a stored answer, the row of the target under its lock, the
\* checks, and the write, which nobody else sees before the commit.
Decide(p) ==
    /\ req[p].at = "fenced"
    /\ \A q \in Procs : ~(req[q].at = "decided" /\ req[q].target = req[p].target)
    /\ IF May(req[p])
       THEN /\ req' = [req EXCEPT ![p] = Moved(req[p], "decided", Written(req[p]))]
            /\ UNCHANGED fence
       ELSE req' = [req EXCEPT ![p] = Idle] /\ fence' = Released(p)
    /\ UNCHANGED <<users, booted, ops, tokens, issued>>

Commit(p) ==
    /\ req[p].at = "decided"
    /\ users' = [users EXCEPT ![req[p].target] = req[p].user]
    /\ ops' = [ops EXCEPT ![req[p].key] = TRUE]
    /\ req' = [req EXCEPT ![p] = Idle]
    /\ fence' = Released(p)
    /\ UNCHANGED <<booted, tokens, issued>>

\* The process dies, or the transaction is rolled back; before the fence a request
\* that ends is one that takes no further step.
Abort(p) ==
    /\ req[p].at \in {"fenced", "decided"}
    /\ req' = [req EXCEPT ![p] = Idle]
    /\ fence' = Released(p)
    /\ UNCHANGED <<users, booted, ops, tokens, issued>>

UsersNext ==
    \/ \E u \in Accounts, pw \in Passwords : Bootstrap(u, pw)
    \/ \E t \in tokens : Logout(t)
    \/ \E p \in Procs :
         \/ IssueToken(p) \/ LifecycleFence(p) \/ Decide(p) \/ Commit(p) \/ Abort(p)
         \/ \E u \in Accounts : Login(p, u)
         \/ \E t \in tokens, u \in Accounts, k \in Keys, b \in Bodies : ReceiveRequest(p, t, u, k, b)

UsersSpec == UsersInit /\ [][UsersNext]_userVars

-----------------------------------------------------------------------------
(* Properties.                                                             *)

\* Once there is an administrator, an enabled one always remains: also when two of
\* them demote each other at once.
AdminRemains == booted # Nothing => \E u \in Accounts : EnabledAdmin(u)

\* A token that is accepted was issued for the present password and the present role,
\* also when they changed between the read and the end of its login.
LiveTokenIsCurrent ==
    \A t \in tokens : Live(t) => t.pw = users[t.user].pw /\ t.role = users[t.user].role

\* Whoever may administer is known: an administrator remains and no session outlives
\* the credentials and the role it was opened with.
AuthorityIsCurrent == AdminRemains /\ LiveTokenIsCurrent
=============================================================================
