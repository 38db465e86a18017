---------------------------- MODULE MCCredentials ----------------------------
(***************************************************************************)
(* Credentials on small instances: TokenRotation, the token of a Worker,   *)
(* Users, the sessions of people, and SecretProjection, the secrets of the *)
(* Manager's services.  They share no row and no file, so a behaviour is   *)
(* about one of them and the others stay as they were.                     *)
(***************************************************************************)
EXTENDS TokenRotation, Users, SecretProjection, TLC

CONSTANTS a1, a2, p1, p2, w1, w2

VARIABLE part

TwoAccounts == {a1, a2}
TwoPasswords == {w1, w2}
TwoProcs == {p1, p2}

\* New users are administrators, a reset changes the password, and an access update
\* changes the role or the state.
AskedHere(body) ==
    /\ body.op = "create" => body.role = "admin" /\ ~body.disabled /\ body.pw = w1
    /\ body.op = "access_update" => body.role = "admin" \/ ~body.disabled
    /\ body.op = "password_reset" => body.pw = w2

CredentialsInit ==
    /\ part \in {"worker", "users", "secrets"}
    /\ Init /\ UsersInit /\ ProjectionInit
    /\ booted # Nothing => part = "users" /\ booted = a1 /\ users[a1].pw = w1

CredentialsNext ==
    \/ part = "worker" /\ Next /\ UNCHANGED <<part, userVars, projectionVars>>
    \/ part = "users" /\ UsersNext /\ UNCHANGED <<part, vars, projectionVars>>
    \/ part = "secrets" /\ ProjectionNext /\ UNCHANGED <<part, vars, userVars>>

CredentialsSpec ==
    CredentialsInit /\ [][CredentialsNext]_<<part, vars, userVars, projectionVars>> /\ Fairness
=============================================================================
