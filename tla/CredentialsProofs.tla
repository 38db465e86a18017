------------------------- MODULE CredentialsProofs --------------------------
(***************************************************************************)
(* Proofs about the credentials of Workers (TokenRotation), of people      *)
(* (Users) and of the Manager's services (SecretProjection).  The three    *)
(* parts share no state and use nothing of each other.                     *)
(***************************************************************************)
EXTENDS TokenRotation, Users, SecretProjection, TLAPS

-----------------------------------------------------------------------------
(***************************************************************************)
(* TokenRotation.                                                          *)
(* The token that the Manager accepts is on the Worker's disk, for every   *)
(* bound on identifiers and faults and whether or not a request may be     *)
(* processed after the Worker gave up on it.                               *)
(***************************************************************************)

\* An identifier that nobody has used yet, except for the requests in ours.
Fresh(r, ours) ==
    /\ r \notin {token, pend, file.token, file.pending, cred.token, cred.pending}
    /\ \A q \in net : q[2] # r /\ (q \notin ours => q[3] # r)

Making == {"prepare", "enroll"}
Staged == {"activate", "retry", "confirm", "persist", "probe", "status", "abortExpired", "clear"}
Unstaged == {"check", "ready", "running", "prepare", "stage", "abortOrphan"}

\* The process and what it waits for.
ProcessInv ==
    /\ sent # None => (pc \in DOMAIN Operation /\ sent = <<Operation[pc], cred.token, id>>)
    /\ answer # None => sent # None
    /\ pc \notin {"off", "abortStaged"} => cred = file
    /\ pc \in Unstaged => cred.pending = None
    /\ pc \in Staged => cred.pending = id

\* Identifiers are used in the order in which they are drawn.
DrawnInv ==
    /\ \A r \in {token, id, file.token, cred.token} : r <= lastId
    /\ \A r \in {pend, file.pending, cred.pending} : r # None => r <= lastId
    /\ \A q \in net : q[2] <= lastId /\ q[3] <= lastId

\* A request for a new token names an identifier that is nowhere else, until the
\* Manager has handled it, and it is sent once.
FreshInv ==
    /\ \A q \in net : q[1] \in Making => Fresh(q[3], {q})
    /\ (pc \in Making /\ sent = None) => Fresh(id, {})
    /\ ((pc \in Making /\ answer = "ok") \/ pc \in {"stage", "saveEnrolled", "abortStaged", "abortOrphan"}) =>
          \A q \in net : q[1] \in Making => q[3] # id

RowInv ==
    /\ pend # token
    /\ ~active => pend = None

\* An activation that the Manager would accept is for the staged token.
ActivationInv ==
    \A q \in net : (q[1] = "activate" /\ q[2] = token /\ q[3] = pend) => pend = file.pending

\* Where a token is about to be dropped from the file, the Manager does not have it and
\* can not get it any more.
DropInv ==
    /\ (pc = "clear" \/ (pc = "abortExpired" /\ answer = "ok")) =>
          /\ pend # cred.pending
          /\ active => (token = cred.token \/ token \in enrolled)
    /\ pc = "persist" =>
          /\ pend # cred.pending
          /\ active => (token = cred.pending \/ token \in enrolled)
    /\ (pc = "saveEnrolled" \/ (pc = "enroll" /\ answer = "ok")) =>
          (active => (token \in enrolled /\ \A q \in net : q[2] # token))

RotationInv ==
    /\ TypeOK /\ ProcessInv /\ DrawnInv /\ FreshInv /\ RowInv /\ ActivationInv /\ DropInv
    /\ TokenKnown

-----------------------------------------------------------------------------
\* The places where a request is sent and where the file is saved.
LEMMA Domains ==
    /\ DOMAIN Operation = {"prepare", "activate", "retry", "abortOrphan", "abortStaged",
                           "abortExpired", "enroll"}
    /\ DOMAIN AfterSave = {"stage", "persist", "clear", "saveEnrolled"}
  BY DEF Operation, AfterSave

\* The parts of a request.
LEMMA RequestParts ==
    ASSUME NEW q \in Requests
    PROVE  /\ q = <<q[1], q[2], q[3]>>
           /\ q[1] \in {"prepare", "activate", "abort", "enroll"}
           /\ q[2] \in Ids /\ q[3] \in Ids
  BY DEF Requests

\* An absent identifier is no identifier,
LEMMA NoneNoId == None \notin Ids
  BY RotationAssumption DEF Ids

\* an absent answer no answer,
LEMMA NoneNoAnswer == None \notin {"ok", "refused", "lost"}
  BY RotationAssumption

\* and an absent request no request.
LEMMA RequestNotNone == None \notin Requests
  BY RotationAssumption DEF Requests

\* A registered Worker satisfies the invariant.
LEMMA InitInv == Init => RotationInv
  <1> SUFFICES ASSUME Init PROVE RotationInv OBVIOUS
  <1> USE RotationAssumption, NoneNoId, NoneNoAnswer, Domains DEF Init, Credential
  <1>1. TypeOK
    <2>1. 0 \in Ids /\ 0 \in 0..MaxFaults BY DEF Ids
    <2>2. file \in Credentials BY <2>1 DEF Credentials
    <2>3. pc \in Places BY DEF Places
    <2> QED BY <2>1, <2>2, <2>3 DEF TypeOK
  <1>2. ProcessInv BY DEF ProcessInv, Unstaged, Staged
  <1>3. DrawnInv BY DEF DrawnInv
  <1>4. FreshInv BY DEF FreshInv, Making
  <1>5. RowInv BY DEF RowInv
  <1>6. ActivationInv BY DEF ActivationInv
  <1>7. DropInv BY DEF DropInv
  <1>8. TokenKnown BY DEF TokenKnown
  <1> QED BY <1>1, <1>2, <1>3, <1>4, <1>5, <1>6, <1>7, <1>8 DEF RotationInv

\* A request is sent: the invariant is kept.
LEMMA SendInv ==
    ASSUME RotationInv, Send
    PROVE  RotationInv'
  <1> USE RotationAssumption, NoneNoId, NoneNoAnswer, Domains DEF RotationInv
  <1>0. /\ answer = None /\ pc \in DOMAIN Operation /\ sent = None
        /\ sent' = <<Operation[pc], cred.token, id>> /\ net' = net \cup {sent'}
        /\ sent' \in Requests /\ cred.token \in Ids
    BY DEF Send, TypeOK, ProcessInv, Requests, Operation, Credentials
  <1>q. sent'[1] = Operation[pc] /\ sent'[2] = cred.token /\ sent'[3] = id
    BY <1>0
  <1>1. TypeOK'
    BY <1>0 DEF Send, TypeOK, managerVars
  <1>2. ProcessInv'
    BY <1>0 DEF Send, ProcessInv, Unstaged, Staged, managerVars
  <1>3. DrawnInv'
    BY <1>0, <1>q DEF Send, DrawnInv, managerVars
  <1>4. FreshInv'
    <2>1. ASSUME NEW q \in net, q[1] \in Making PROVE q[3] # cred.token /\ q[3] # id
      BY <1>0, <2>1 DEF FreshInv, Fresh, ProcessInv, Making, Staged
    <2>2. ASSUME pc \in Making PROVE Fresh(id, {}) /\ id # cred.token
      BY <1>0, <2>2 DEF FreshInv, Fresh
    <2>3. pc \notin Making => Operation[pc] \notin Making
      BY <1>0 DEF Operation, Making
    <2>4. ASSUME NEW q \in net', q[1] \in Making PROVE Fresh(q[3], {q})'
      <3>1. CASE q \in net
        BY <3>1, <2>1, <2>4, <1>q, <1>0 DEF FreshInv, Fresh, Send, managerVars
      <3>2. CASE q = sent'
        BY <3>2, <2>2, <2>3, <2>4, <1>q, <1>0 DEF Fresh, Send, managerVars
      <3> QED BY <3>1, <3>2, <2>4, <1>0
    <2>5. ASSUME pc \in {"abortOrphan", "abortStaged"}, NEW q \in net', q[1] \in Making
          PROVE q[3] # id
      BY <2>1, <2>3, <2>5, <1>0, <1>q DEF Making
    <2>6. pc' = pc /\ id' = id /\ answer' = None
      BY <1>0 DEF Send
    <2>7. sent' # None BY <1>0, RequestNotNone
    <2> QED BY <2>4, <2>5, <2>6, <2>7, <1>0 DEF FreshInv, Making
  <1>5. RowInv'
    BY <1>0 DEF Send, RowInv, managerVars
  <1>6. ActivationInv'
    BY <1>0, <1>q DEF Send, ActivationInv, managerVars, ProcessInv, Staged, Operation
  <1>7. DropInv'
    BY <1>0 DEF Send, DropInv, managerVars
  <1>8. TokenKnown'
    BY <1>0 DEF Send, TokenKnown, managerVars
  <1> QED BY <1>1, <1>2, <1>3, <1>4, <1>5, <1>6, <1>7, <1>8 DEF RotationInv

\* An answer is received: the invariant is kept.
LEMMA ReceiveInv ==
    ASSUME RotationInv, Receive
    PROVE  RotationInv'
  <1> USE RotationAssumption, NoneNoId, NoneNoAnswer, Domains DEF RotationInv
  <1>0. pc \in DOMAIN Operation /\ sent # None /\ answer # None /\ pc' \in Places
    BY DEF Receive, ProcessInv, AfterOk, AfterFailure, Places
  <1>1. TypeOK'
    BY <1>0 DEF Receive, TypeOK, managerVars, managerVars
  <1>2. ProcessInv'
    BY <1>0 DEF Receive, ProcessInv, Unstaged, Staged, managerVars, AfterOk, AfterFailure
  <1>3. DrawnInv'
    BY <1>0 DEF Receive, DrawnInv, managerVars
  <1>4. FreshInv'
    BY <1>0 DEF Receive, FreshInv, Making, Fresh, managerVars, AfterOk, AfterFailure
  <1>5. RowInv'
    BY <1>0 DEF Receive, RowInv, managerVars
  <1>6. ActivationInv'
    BY <1>0 DEF Receive, ActivationInv, managerVars
  <1>7. DropInv'
    BY <1>0 DEF Receive, DropInv, managerVars, AfterOk, AfterFailure
  <1>8. TokenKnown'
    BY <1>0 DEF Receive, TokenKnown, managerVars
  <1> QED BY <1>1, <1>2, <1>3, <1>4, <1>5, <1>6, <1>7, <1>8 DEF RotationInv

\* The pending token is tried: the invariant is kept.
LEMMA ProbeInv ==
    ASSUME RotationInv, Probe
    PROVE  RotationInv'
  <1> USE RotationAssumption, NoneNoId, NoneNoAnswer, Domains DEF RotationInv
  <1>0. sent = None /\ answer = None
    BY DEF Probe, ProcessInv
  <1>1. TypeOK'
    BY <1>0 DEF Probe, TypeOK, Goto, managerVars, Places
  <1>2. ProcessInv'
    BY <1>0 DEF Probe, ProcessInv, Unstaged, Staged, Goto, managerVars
  <1>3. DrawnInv'
    BY <1>0 DEF Probe, DrawnInv, Goto, managerVars
  <1>4. FreshInv'
    BY <1>0 DEF Probe, FreshInv, Making, Fresh, Goto, managerVars
  <1>5. RowInv'
    BY <1>0 DEF Probe, RowInv, Goto, managerVars
  <1>6. ActivationInv'
    BY <1>0 DEF Probe, ActivationInv, Goto, managerVars
  <1>7. DropInv'
    BY <1>0 DEF Probe, DropInv, Goto, managerVars, Authenticated, RowInv, ProcessInv, Staged
  <1>8. TokenKnown'
    BY <1>0 DEF Probe, TokenKnown, Goto, managerVars
  <1> QED BY <1>1, <1>2, <1>3, <1>4, <1>5, <1>6, <1>7, <1>8 DEF RotationInv

\* The rotation is found to be gone: the invariant is kept.
LEMMA StatusGoneInv ==
    ASSUME RotationInv, StatusGone
    PROVE  RotationInv'
  <1> USE RotationAssumption, NoneNoId, NoneNoAnswer, Domains DEF RotationInv
  <1>0. sent = None /\ answer = None
    BY DEF StatusGone, ProcessInv
  <1>1. TypeOK'
    BY <1>0 DEF StatusGone, TypeOK, Goto, managerVars, Places
  <1>2. ProcessInv'
    BY <1>0 DEF StatusGone, ProcessInv, Unstaged, Staged, Goto, managerVars
  <1>3. DrawnInv'
    BY <1>0 DEF StatusGone, DrawnInv, Goto, managerVars
  <1>4. FreshInv'
    BY <1>0 DEF StatusGone, FreshInv, Making, Fresh, Goto, managerVars
  <1>5. RowInv'
    BY <1>0 DEF StatusGone, RowInv, Goto, managerVars
  <1>6. ActivationInv'
    BY <1>0 DEF StatusGone, ActivationInv, Goto, managerVars
  <1>7. DropInv'
    <2>1. cred.pending = id /\ id \in Ids /\ (pc' = "clear" => pend = None /\ token = cred.token)
      BY DEF StatusGone, ProcessInv, Staged, TypeOK, Goto, Authenticated
    <2>2. pc' \in {"off", "clear"} BY DEF StatusGone, Goto
    <2> QED BY <2>1, <2>2, <1>0 DEF DropInv, StatusGone, managerVars
  <1>8. TokenKnown'
    BY <1>0 DEF StatusGone, TokenKnown, Goto, managerVars
  <1> QED BY <1>1, <1>2, <1>3, <1>4, <1>5, <1>6, <1>7, <1>8 DEF RotationInv

\* The rotation is found to be expired: the invariant is kept.
LEMMA StatusExpiredInv ==
    ASSUME RotationInv, StatusExpired
    PROVE  RotationInv'
  <1> USE RotationAssumption, NoneNoId, NoneNoAnswer, Domains DEF RotationInv
  <1>0. sent = None /\ answer = None
    BY DEF StatusExpired, ProcessInv
  <1>1. TypeOK'
    BY <1>0 DEF StatusExpired, TypeOK, Goto, managerVars, Places
  <1>2. ProcessInv'
    BY <1>0 DEF StatusExpired, ProcessInv, Unstaged, Staged, Goto, managerVars
  <1>3. DrawnInv'
    BY <1>0 DEF StatusExpired, DrawnInv, Goto, managerVars
  <1>4. FreshInv'
    BY <1>0 DEF StatusExpired, FreshInv, Making, Fresh, Goto, managerVars
  <1>5. RowInv'
    BY <1>0 DEF StatusExpired, RowInv, Goto, managerVars
  <1>6. ActivationInv'
    BY <1>0 DEF StatusExpired, ActivationInv, Goto, managerVars
  <1>7. DropInv'
    BY <1>0
        DEF StatusExpired, DropInv, Goto, managerVars, Authenticated, RowInv, ProcessInv,
            Staged
  <1>8. TokenKnown'
    BY <1>0 DEF StatusExpired, TokenKnown, Goto, managerVars
  <1> QED BY <1>1, <1>2, <1>3, <1>4, <1>5, <1>6, <1>7, <1>8 DEF RotationInv

\* The rotation is found to be pending: the invariant is kept.
LEMMA StatusPendingInv ==
    ASSUME RotationInv, StatusPending
    PROVE  RotationInv'
  <1> USE RotationAssumption, NoneNoId, NoneNoAnswer, Domains DEF RotationInv
  <1>0. sent = None /\ answer = None
    BY DEF StatusPending, ProcessInv
  <1>1. TypeOK'
    BY <1>0 DEF StatusPending, TypeOK, Goto, managerVars, Places
  <1>2. ProcessInv'
    BY <1>0 DEF StatusPending, ProcessInv, Unstaged, Staged, Goto, managerVars
  <1>3. DrawnInv'
    BY <1>0 DEF StatusPending, DrawnInv, Goto, managerVars
  <1>4. FreshInv'
    BY <1>0 DEF StatusPending, FreshInv, Making, Fresh, Goto, managerVars
  <1>5. RowInv'
    BY <1>0 DEF StatusPending, RowInv, Goto, managerVars
  <1>6. ActivationInv'
    BY <1>0 DEF StatusPending, ActivationInv, Goto, managerVars
  <1>7. DropInv'
    BY <1>0
        DEF StatusPending, DropInv, Goto, managerVars, Authenticated, RowInv, ProcessInv,
            Staged
  <1>8. TokenKnown'
    BY <1>0 DEF StatusPending, TokenKnown, Goto, managerVars
  <1> QED BY <1>1, <1>2, <1>3, <1>4, <1>5, <1>6, <1>7, <1>8 DEF RotationInv

\* The pending token is confirmed: the invariant is kept.
LEMMA ConfirmInv ==
    ASSUME RotationInv, Confirm
    PROVE  RotationInv'
  <1> USE RotationAssumption, NoneNoId, NoneNoAnswer, Domains DEF RotationInv
  <1>0. sent = None /\ answer = None
    BY DEF Confirm, ProcessInv
  <1>1. TypeOK'
    BY <1>0 DEF Confirm, TypeOK, Goto, managerVars, Places
  <1>2. ProcessInv'
    BY <1>0 DEF Confirm, ProcessInv, Unstaged, Staged, Goto, managerVars
  <1>3. DrawnInv'
    BY <1>0 DEF Confirm, DrawnInv, Goto, managerVars
  <1>4. FreshInv'
    BY <1>0 DEF Confirm, FreshInv, Making, Fresh, Goto, managerVars
  <1>5. RowInv'
    BY <1>0 DEF Confirm, RowInv, Goto, managerVars
  <1>6. ActivationInv'
    BY <1>0 DEF Confirm, ActivationInv, Goto, managerVars
  <1>7. DropInv'
    BY <1>0 DEF Confirm, DropInv, Goto, managerVars, Authenticated, RowInv, ProcessInv, Staged
  <1>8. TokenKnown'
    BY <1>0 DEF Confirm, TokenKnown, Goto, managerVars
  <1> QED BY <1>1, <1>2, <1>3, <1>4, <1>5, <1>6, <1>7, <1>8 DEF RotationInv

\* The Manager's rotation is looked up: the invariant is kept.
LEMMA CheckInv ==
    ASSUME RotationInv, Check
    PROVE  RotationInv'
  <1> USE RotationAssumption, NoneNoId, NoneNoAnswer, Domains DEF RotationInv
  <1>0. sent = None /\ answer = None
    BY DEF Check, ProcessInv
  <1>1. TypeOK'
    BY <1>0 DEF Check, TypeOK, Goto, managerVars, Places
  <1>2. ProcessInv'
    BY <1>0 DEF Check, ProcessInv, Unstaged, Staged, Goto, managerVars
  <1>3. DrawnInv'
    BY <1>0 DEF Check, DrawnInv, Goto, managerVars
  <1>4. FreshInv'
    BY <1>0 DEF Check, FreshInv, Making, Fresh, Goto, managerVars
  <1>5. RowInv'
    BY <1>0 DEF Check, RowInv, Goto, managerVars
  <1>6. ActivationInv'
    BY <1>0 DEF Check, ActivationInv, Goto, managerVars
  <1>7. DropInv'
    BY <1>0 DEF Check, DropInv, Goto, managerVars
  <1>8. TokenKnown'
    BY <1>0 DEF Check, TokenKnown, Goto, managerVars
  <1> QED BY <1>1, <1>2, <1>3, <1>4, <1>5, <1>6, <1>7, <1>8 DEF RotationInv

\* The service stops: the invariant is kept.
LEMMA StopInv ==
    ASSUME RotationInv, Stop
    PROVE  RotationInv'
  <1> USE RotationAssumption, NoneNoId, NoneNoAnswer, Domains DEF RotationInv
  <1>0. sent = None /\ answer = None
    BY DEF Stop, ProcessInv
  <1>1. TypeOK'
    BY <1>0 DEF Stop, TypeOK, Goto, managerVars, Places
  <1>2. ProcessInv'
    BY <1>0 DEF Stop, ProcessInv, Unstaged, Staged, Goto, managerVars
  <1>3. DrawnInv'
    BY <1>0 DEF Stop, DrawnInv, Goto, managerVars
  <1>4. FreshInv'
    BY <1>0 DEF Stop, FreshInv, Making, Fresh, Goto, managerVars
  <1>5. RowInv'
    BY <1>0 DEF Stop, RowInv, Goto, managerVars
  <1>6. ActivationInv'
    BY <1>0 DEF Stop, ActivationInv, Goto, managerVars
  <1>7. DropInv'
    BY <1>0 DEF Stop, DropInv, Goto, managerVars
  <1>8. TokenKnown'
    BY <1>0 DEF Stop, TokenKnown, Goto, managerVars
  <1> QED BY <1>1, <1>2, <1>3, <1>4, <1>5, <1>6, <1>7, <1>8 DEF RotationInv

\* A process starts with what the file says: the invariant is kept.
LEMMA StartInv ==
    ASSUME RotationInv, NEW m \in {"agent", "rotate", "enroll"}, Start(m)
    PROVE  RotationInv'
  <1> USE RotationAssumption, NoneNoId, NoneNoAnswer, Domains DEF RotationInv
  <1>0. /\ sent = None /\ answer = None /\ file \in Credentials /\ cred' = file
        /\ lastId \in Nat /\ lastId' \in Ids /\ lastId <= lastId' /\ id' <= lastId'
        /\ pc' = "enroll" => id' = lastId + 1
        /\ pc' \in {"enroll", "activate", "check"} /\ id' \in Ids
    BY DEF Start, ProcessInv, TypeOK, Ids, DrawnInv, Credentials
  <1>1. TypeOK' BY <1>0 DEF Start, TypeOK, managerVars, Places
  <1>2. ProcessInv' BY <1>0 DEF Start, ProcessInv, Staged, Unstaged
  <1>3. DrawnInv' BY <1>0 DEF Start, DrawnInv, TypeOK, managerVars, Ids, Credentials, Requests
  <1>4. FreshInv'
    <2>1. ASSUME NEW q \in net, q[1] \in Making PROVE Fresh(q[3], {q})'
      BY <1>0, <2>1 DEF Start, FreshInv, Fresh, managerVars
    <2>2. ASSUME pc' = "enroll" PROVE Fresh(id, {})'
      <3>1. ~ (lastId + 1 <= lastId) /\ id' = lastId + 1 BY <1>0, <2>2
      <3>2. None # lastId + 1 BY <1>0
      <3>3. \A q \in net : q[2] # id' /\ q[3] # id' BY <3>1 DEF DrawnInv
      <3>4. id' \notin {token, pend, file.token, file.pending, cred.token, cred.pending}
        BY <3>1, <3>2 DEF DrawnInv
      <3> QED BY <3>3, <3>4 DEF Fresh, Start, managerVars
    <2> QED BY <2>1, <2>2, <1>0 DEF FreshInv, Making, Start
  <1>5. RowInv' BY DEF Start, RowInv, managerVars
  <1>6. ActivationInv' BY DEF Start, ActivationInv, managerVars
  <1>7. DropInv' BY <1>0 DEF Start, DropInv, managerVars
  <1>8. TokenKnown' BY DEF Start, TokenKnown, managerVars
  <1> QED BY <1>1, <1>2, <1>3, <1>4, <1>5, <1>6, <1>7, <1>8 DEF RotationInv

\* A reconciled process goes on with what it is for: the invariant is kept.
LEMMA ReadyInv ==
    ASSUME RotationInv, Ready
    PROVE  RotationInv'
  <1> USE RotationAssumption, NoneNoId, NoneNoAnswer, Domains DEF RotationInv
  <1>0. /\ sent = None /\ answer = None /\ pc = "ready"
        /\ lastId \in Nat /\ lastId' \in Ids /\ lastId <= lastId' /\ id' <= lastId'
        /\ pc' = "prepare" => id' = lastId + 1
        /\ pc' \in {"prepare", "running", "off"} /\ id' \in Ids
    BY DEF Ready, ProcessInv, TypeOK, Ids, DrawnInv, Goto
  <1>1. TypeOK' BY <1>0 DEF Ready, TypeOK, managerVars, Places, Goto
  <1>2. ProcessInv' BY <1>0 DEF Ready, ProcessInv, Staged, Unstaged
  <1>3. DrawnInv' BY <1>0 DEF Ready, DrawnInv, TypeOK, managerVars, Ids, Credentials, Requests
  <1>4. FreshInv'
    <2>1. ASSUME NEW q \in net, q[1] \in Making PROVE Fresh(q[3], {q})'
      BY <1>0, <2>1 DEF Ready, FreshInv, Fresh, managerVars
    <2>2. ASSUME pc' = "prepare" PROVE Fresh(id, {})'
      <3>1. ~ (lastId + 1 <= lastId) /\ id' = lastId + 1 BY <1>0, <2>2
      <3>2. None # lastId + 1 BY <1>0
      <3>3. \A q \in net : q[2] # id' /\ q[3] # id' BY <3>1 DEF DrawnInv
      <3>4. id' \notin {token, pend, file.token, file.pending, cred.token, cred.pending}
        BY <3>1, <3>2 DEF DrawnInv
      <3> QED BY <3>3, <3>4 DEF Fresh, Ready, managerVars
    <2> QED BY <2>1, <2>2, <1>0 DEF FreshInv, Making, Ready
  <1>5. RowInv' BY DEF Ready, RowInv, managerVars
  <1>6. ActivationInv' BY DEF Ready, ActivationInv, managerVars
  <1>7. DropInv' BY <1>0 DEF Ready, DropInv, managerVars
  <1>8. TokenKnown' BY DEF Ready, TokenKnown, managerVars
  <1> QED BY <1>1, <1>2, <1>3, <1>4, <1>5, <1>6, <1>7, <1>8 DEF RotationInv

\* A request is given up on: the invariant is kept.
LEMMA TimeOutInv ==
    ASSUME RotationInv, TimeOut
    PROVE  RotationInv'
  <1> USE RotationAssumption, NoneNoId, NoneNoAnswer, Domains DEF RotationInv
  <1>0. /\ sent # None /\ answer' = "lost" /\ net' \subseteq net
        /\ faults' \in 0..MaxFaults
    BY DEF TimeOut, Fault, TypeOK
  <1>1. TypeOK'
    BY <1>0 DEF TimeOut, TypeOK, managerVars
  <1>2. ProcessInv'
    BY <1>0 DEF TimeOut, ProcessInv, Unstaged, Staged, managerVars
  <1>3. DrawnInv'
    BY <1>0 DEF TimeOut, DrawnInv, managerVars
  <1>4. FreshInv'
    BY <1>0 DEF TimeOut, FreshInv, Making, Fresh, managerVars
  <1>5. RowInv'
    BY <1>0 DEF TimeOut, RowInv, managerVars
  <1>6. ActivationInv'
    BY <1>0 DEF TimeOut, ActivationInv, managerVars
  <1>7. DropInv'
    BY <1>0 DEF TimeOut, DropInv, managerVars
  <1>8. TokenKnown'
    BY <1>0 DEF TimeOut, TokenKnown, managerVars
  <1> QED BY <1>1, <1>2, <1>3, <1>4, <1>5, <1>6, <1>7, <1>8 DEF RotationInv

\* The process dies: the invariant is kept.
LEMMA CrashInv ==
    ASSUME RotationInv, Crash
    PROVE  RotationInv'
  <1> USE RotationAssumption, NoneNoId, NoneNoAnswer, Domains DEF RotationInv
  <1>0. /\ sent' = None /\ answer' = None /\ net' \subseteq net /\ pc' = "off"
        /\ faults' \in 0..MaxFaults
    BY DEF Crash, Fault, TypeOK, Goto
  <1>1. TypeOK'
    BY <1>0 DEF Crash, TypeOK, Goto, managerVars, Places
  <1>2. ProcessInv'
    BY <1>0 DEF Crash, ProcessInv, Unstaged, Staged, Goto, managerVars
  <1>3. DrawnInv'
    BY <1>0 DEF Crash, DrawnInv, Goto, managerVars
  <1>4. FreshInv'
    BY <1>0 DEF Crash, FreshInv, Making, Fresh, Goto, managerVars
  <1>5. RowInv'
    BY <1>0 DEF Crash, RowInv, Goto, managerVars
  <1>6. ActivationInv'
    BY <1>0 DEF Crash, ActivationInv, Goto, managerVars
  <1>7. DropInv'
    BY <1>0 DEF Crash, DropInv, Goto, managerVars
  <1>8. TokenKnown'
    BY <1>0 DEF Crash, TokenKnown, Goto, managerVars
  <1> QED BY <1>1, <1>2, <1>3, <1>4, <1>5, <1>6, <1>7, <1>8 DEF RotationInv

\* A rotation expires: the invariant is kept.
LEMMA ExpireInv ==
    ASSUME RotationInv, Expire
    PROVE  RotationInv'
  <1> USE RotationAssumption, NoneNoId, NoneNoAnswer, Domains DEF RotationInv
  <1>0. UNCHANGED <<active, token, pend, enrolled, workerVars, net, lastId, faults>>
    BY DEF Expire
  <1>1. TypeOK'
    BY <1>0 DEF Expire, TypeOK, workerVars
  <1>2. ProcessInv'
    BY <1>0 DEF Expire, ProcessInv, Unstaged, Staged, workerVars
  <1>3. DrawnInv'
    BY <1>0 DEF Expire, DrawnInv, workerVars
  <1>4. FreshInv'
    BY <1>0 DEF Expire, FreshInv, Making, Fresh, workerVars
  <1>5. RowInv'
    BY <1>0 DEF Expire, RowInv, workerVars
  <1>6. ActivationInv'
    BY <1>0 DEF Expire, ActivationInv, workerVars
  <1>7. DropInv'
    BY <1>0 DEF Expire, DropInv, workerVars
  <1>8. TokenKnown'
    BY <1>0 DEF Expire, TokenKnown, workerVars
  <1> QED BY <1>1, <1>2, <1>3, <1>4, <1>5, <1>6, <1>7, <1>8 DEF RotationInv

\* A job is claimed: the invariant is kept.
LEMMA ClaimInv ==
    ASSUME RotationInv, Claim
    PROVE  RotationInv'
  <1> USE RotationAssumption, NoneNoId, NoneNoAnswer, Domains DEF RotationInv
  <1>0. UNCHANGED <<active, token, pend, enrolled, workerVars, net, lastId, faults>>
    BY DEF Claim
  <1>1. TypeOK'
    BY <1>0 DEF Claim, TypeOK, workerVars
  <1>2. ProcessInv'
    BY <1>0 DEF Claim, ProcessInv, Unstaged, Staged, workerVars
  <1>3. DrawnInv'
    BY <1>0 DEF Claim, DrawnInv, workerVars
  <1>4. FreshInv'
    BY <1>0 DEF Claim, FreshInv, Making, Fresh, workerVars
  <1>5. RowInv'
    BY <1>0 DEF Claim, RowInv, workerVars
  <1>6. ActivationInv'
    BY <1>0 DEF Claim, ActivationInv, workerVars
  <1>7. DropInv'
    BY <1>0 DEF Claim, DropInv, workerVars
  <1>8. TokenKnown'
    BY <1>0 DEF Claim, TokenKnown, workerVars
  <1> QED BY <1>1, <1>2, <1>3, <1>4, <1>5, <1>6, <1>7, <1>8 DEF RotationInv

\* A job ends: the invariant is kept.
LEMMA FinishInv ==
    ASSUME RotationInv, Finish
    PROVE  RotationInv'
  <1> USE RotationAssumption, NoneNoId, NoneNoAnswer, Domains DEF RotationInv
  <1>0. UNCHANGED <<active, token, pend, enrolled, workerVars, net, lastId, faults>>
    BY DEF Finish
  <1>1. TypeOK'
    BY <1>0 DEF Finish, TypeOK, workerVars
  <1>2. ProcessInv'
    BY <1>0 DEF Finish, ProcessInv, Unstaged, Staged, workerVars
  <1>3. DrawnInv'
    BY <1>0 DEF Finish, DrawnInv, workerVars
  <1>4. FreshInv'
    BY <1>0 DEF Finish, FreshInv, Making, Fresh, workerVars
  <1>5. RowInv'
    BY <1>0 DEF Finish, RowInv, workerVars
  <1>6. ActivationInv'
    BY <1>0 DEF Finish, ActivationInv, workerVars
  <1>7. DropInv'
    BY <1>0 DEF Finish, DropInv, workerVars
  <1>8. TokenKnown'
    BY <1>0 DEF Finish, TokenKnown, workerVars
  <1> QED BY <1>1, <1>2, <1>3, <1>4, <1>5, <1>6, <1>7, <1>8 DEF RotationInv

\* The token is revoked: the invariant is kept.
LEMMA RevokeInv ==
    ASSUME RotationInv, Revoke
    PROVE  RotationInv'
  <1> USE RotationAssumption, NoneNoId, NoneNoAnswer, Domains DEF RotationInv
  <1>0. /\ UNCHANGED <<enrolled, file, cred, mode, pc, id, sent, answer, net, faults>>
        /\ active' = FALSE /\ token' = lastId + 1 /\ pend' = None
        /\ lastId \in Nat /\ lastId' = lastId + 1 /\ lastId' \in Ids /\ ~ (lastId + 1 <= lastId)
    BY DEF Revoke, workerVars, TypeOK, Ids
  <1>1. TypeOK'
    BY <1>0 DEF Revoke, TypeOK
  <1>2. ProcessInv'
    BY <1>0 DEF Revoke, ProcessInv, Unstaged, Staged
  <1>3. DrawnInv'
    BY <1>0 DEF Revoke, DrawnInv, TypeOK, Credentials, Requests, Ids
  <1>4. FreshInv'
    <2>1. \A q \in net : q[3] # token'
      BY <1>0 DEF DrawnInv
    <2>2. id # token' BY <1>0 DEF DrawnInv
    <2>3. ASSUME NEW q \in net, q[1] \in Making PROVE Fresh(q[3], {q})'
      BY <1>0, <2>1, <2>3, RequestParts DEF FreshInv, Fresh, TypeOK
    <2>4. ASSUME pc \in Making, sent = None PROVE Fresh(id, {})'
      BY <1>0, <2>2, <2>4 DEF FreshInv, Fresh, TypeOK
    <2> QED BY <1>0, <2>3, <2>4 DEF FreshInv
  <1>5. RowInv'
    BY <1>0 DEF Revoke, RowInv, Ids
  <1>6. ActivationInv'
    BY <1>0, RequestParts DEF Revoke, ActivationInv, TypeOK
  <1>7. DropInv'
    BY <1>0 DEF Revoke, DropInv, ProcessInv, Staged, TypeOK
  <1>8. TokenKnown'
    BY <1>0 DEF Revoke, TokenKnown
  <1> QED BY <1>1, <1>2, <1>3, <1>4, <1>5, <1>6, <1>7, <1>8 DEF RotationInv

\* What a save writes.
LEMMA SavedParts ==
    ASSUME RotationInv, pc \in DOMAIN AfterSave
    PROVE  /\ Saved(pc) \in Credentials /\ cred = file /\ sent = None /\ answer = None
           /\ pc = "stage" => Saved(pc) = [token |-> cred.token, pending |-> id] /\ cred.pending = None
           /\ pc = "persist" => Saved(pc) = [token |-> cred.pending, pending |-> None] /\ cred.pending = id
           /\ pc = "clear" => Saved(pc) = [token |-> cred.token, pending |-> None] /\ cred.pending = id
           /\ pc = "saveEnrolled" => Saved(pc) = [token |-> id, pending |-> None]
  <1> USE RotationAssumption, NoneNoId, NoneNoAnswer, Domains DEF RotationInv
  <1>1. cred = file /\ sent = None /\ answer = None BY DEF ProcessInv
  <1>2. id \in Ids /\ cred \in Credentials BY DEF TypeOK
  <1>3. CASE pc = "stage" BY <1>1, <1>2, <1>3
      DEF Saved, Credential, Credentials, ProcessInv, Unstaged
  <1>4. CASE pc = "persist" BY <1>1, <1>2, <1>4
      DEF Saved, Credential, Credentials, ProcessInv, Staged
  <1>5. CASE pc = "clear" BY <1>1, <1>2, <1>5
      DEF Saved, Credential, Credentials, ProcessInv, Staged
  <1>6. CASE pc = "saveEnrolled" BY <1>1, <1>2, <1>6 DEF Saved, Credential, Credentials
  <1> QED BY <1>1, <1>3, <1>4, <1>5, <1>6

\* What is on the disk after a save is still what the row needs, and no request
\* in the net can change that.
LEMMA SavedKeeps ==
    ASSUME RotationInv, pc \in DOMAIN AfterSave
    PROVE  /\ active => token \in {Saved(pc).token, Saved(pc).pending} \cup enrolled
           /\ Saved(pc).token <= lastId
           /\ Saved(pc).pending # None => Saved(pc).pending <= lastId
           /\ \A q \in net : (q[1] = "activate" /\ q[2] = token /\ q[3] = pend) => FALSE
           /\ \A q \in net : q[1] \in Making =>
                  q[3] # Saved(pc).token /\ q[3] # Saved(pc).pending
  <1> USE RotationAssumption, NoneNoId, NoneNoAnswer, Domains DEF RotationInv
  <1>0. /\ cred = file /\ id \in Ids /\ token \in Ids /\ net \subseteq Requests
        /\ \A q \in net : q[3] \in Ids
    BY SavedParts, RequestParts DEF TypeOK
  <1>1. CASE pc = "stage"
    BY <1>0, <1>1, SavedParts DEF TokenKnown, DrawnInv, ActivationInv, FreshInv, Fresh
  <1>2. CASE pc = "persist"
    BY <1>0, <1>2, SavedParts DEF DropInv, DrawnInv, ActivationInv, FreshInv, Fresh
  <1>3. CASE pc = "clear"
    BY <1>0, <1>3, SavedParts DEF DropInv, DrawnInv, ActivationInv, FreshInv, Fresh
  <1>4. CASE pc = "saveEnrolled"
    BY <1>0, <1>4, SavedParts DEF DropInv, DrawnInv, ActivationInv, FreshInv, Fresh, RowInv
  <1> QED BY <1>1, <1>2, <1>3, <1>4

\* The credential file is replaced: the invariant is kept.
LEMMA SaveInv ==
    ASSUME RotationInv, Save
    PROVE  RotationInv'
  <1> USE RotationAssumption, NoneNoId, NoneNoAnswer, Domains DEF RotationInv
  <1>0. /\ pc \in DOMAIN AfterSave /\ sent = None /\ answer = None /\ pc' = AfterSave[pc]
        /\ file' = Saved(pc) /\ cred' = Saved(pc) /\ Saved(pc) \in Credentials
    BY SavedParts DEF Save
  <1>1. TypeOK'
    BY <1>0 DEF Save, TypeOK, managerVars, AfterSave, Places
  <1>2. ProcessInv'
    BY <1>0, SavedParts DEF Save, ProcessInv, Unstaged, Staged, managerVars, AfterSave
  <1>3. DrawnInv'
    BY <1>0, SavedKeeps DEF Save, DrawnInv, managerVars
  <1>4. FreshInv'
    BY <1>0, SavedKeeps DEF Save, FreshInv, Making, Fresh, managerVars, AfterSave
  <1>5. RowInv'
    BY <1>0 DEF Save, RowInv, managerVars
  <1>6. ActivationInv'
    BY <1>0, SavedKeeps DEF Save, ActivationInv, managerVars
  <1>7. DropInv'
    BY <1>0 DEF Save, DropInv, managerVars, AfterSave
  <1>8. TokenKnown'
    BY <1>0, SavedKeeps DEF Save, TokenKnown, managerVars
  <1> QED BY <1>1, <1>2, <1>3, <1>4, <1>5, <1>6, <1>7, <1>8 DEF RotationInv

\* The credential file is replaced, or not, and the process gives up: the invariant is kept.
LEMMA SaveFailedInv ==
    ASSUME RotationInv, SaveFailed
    PROVE  RotationInv'
  <1> USE RotationAssumption, NoneNoId, NoneNoAnswer, Domains DEF RotationInv
  <1>0. /\ pc \in DOMAIN AfterSave /\ sent = None /\ answer = None /\ cred' = cred
        /\ file' \in {file, Saved(pc)} /\ Saved(pc) \in Credentials
        /\ pc' = (IF pc = "stage" THEN "abortStaged" ELSE "off") /\ faults' \in 0..MaxFaults
    BY SavedParts DEF SaveFailed, Fault, TypeOK
  <1>1. TypeOK'
    BY <1>0 DEF SaveFailed, TypeOK, managerVars, Places
  <1>2. ProcessInv'
    BY <1>0 DEF SaveFailed, ProcessInv, Unstaged, Staged, managerVars
  <1>3. DrawnInv'
    BY <1>0, SavedKeeps DEF SaveFailed, DrawnInv, managerVars
  <1>4. FreshInv'
    BY <1>0, SavedKeeps DEF SaveFailed, FreshInv, Making, Fresh, managerVars
  <1>5. RowInv'
    BY <1>0 DEF SaveFailed, RowInv, managerVars
  <1>6. ActivationInv'
    BY <1>0, SavedKeeps DEF SaveFailed, ActivationInv, managerVars
  <1>7. DropInv'
    BY <1>0 DEF SaveFailed, DropInv, managerVars
  <1>8. TokenKnown'
    BY <1>0, SavedKeeps DEF SaveFailed, TokenKnown, managerVars
  <1> QED BY <1>1, <1>2, <1>3, <1>4, <1>5, <1>6, <1>7, <1>8 DEF RotationInv

\* A request that the Manager handles: who is answered, and what it knows.
LEMMA HandleParts ==
    ASSUME RotationInv, NEW q \in net, Handle(q)
    PROVE  /\ UNCHANGED <<busy, file, cred, mode, pc, id, sent, lastId, faults>>
           /\ net' = net \ {q} /\ q \in Requests
           /\ q[1] \in {"prepare", "activate", "abort", "enroll"} /\ q[2] \in Ids /\ q[3] \in Ids
           /\ answer' \in {None, "ok", "refused", "lost"}
           /\ answer' # None => sent # None
           /\ answer' = "ok" => \/ answer = "ok"
                                \/ Accepted(q) /\ q = <<Operation[pc], cred.token, id>>
  <1> USE RotationAssumption, NoneNoId, NoneNoAnswer, Domains DEF RotationInv
  <1>1. q \in Requests BY DEF TypeOK
  <1>2. sent = q => q = <<Operation[pc], cred.token, id>>
    BY <1>1, RequestNotNone DEF ProcessInv
  <1> QED BY <1>1, <1>2, RequestParts, RequestNotNone DEF Handle, TypeOK, ProcessInv

\* An accepted prepare is handled: the invariant is kept.
LEMMA HandlePrepareInv ==
    ASSUME RotationInv, NEW q \in net, Handle(q), q[1] = "prepare", Accepted(q)
    PROVE  RotationInv'
  <1> USE RotationAssumption, NoneNoId, NoneNoAnswer, Domains DEF RotationInv
  <1>0. /\ MayPrepare(q[2])
        /\ pend' = q[3] /\ UNCHANGED <<active, token, enrolled>> /\ expired' = FALSE
    BY DEF Accepted, Handle, Effect
  <1>a. /\ net' = net \ {q} /\ q[2] \in Ids /\ q[3] \in Ids
        /\ file' = file /\ cred' = cred /\ pc' = pc /\ id' = id /\ sent' = sent /\ lastId' = lastId
    BY HandleParts
  <1>b. answer' = "ok" => answer = "ok" \/ (Operation[pc] = "prepare" /\ q[2] = cred.token /\ q[3] = id)
    BY HandleParts
  <1>t. token \in Ids /\ id \in Ids /\ (\A r \in net : r[2] \in Ids /\ r[3] \in Ids)
    BY RequestParts DEF TypeOK
  <1>1. TypeOK' BY <1>0, <1>a, HandleParts DEF TypeOK, MayActivate
  <1>2. ProcessInv' BY HandleParts DEF ProcessInv
  <1>3. DrawnInv'
    <2>1. q[3] <= lastId /\ (pend # None => pend <= lastId) BY DEF DrawnInv
    <2>2. token' <= lastId' BY <2>1, <1>0, <1>a, <1>t DEF DrawnInv, MayActivate
    <2>3. pend' # None => pend' <= lastId' BY <2>1, <1>0, <1>a
    <2> QED BY <2>2, <2>3, <1>a DEF DrawnInv
  <1>4. FreshInv'
    <2>1. q[1] \in Making => Fresh(q[3], {q}) BY DEF FreshInv
    <2>2. \A r \in net' : r[1] \in Making => Fresh(r[3], {r})
      BY <1>a DEF FreshInv
    <2>3. \A r \in net' : r[1] \in Making => r[3] \notin {token', pend'}
      BY <2>1, <2>2, <1>0, <1>a, <1>t DEF Fresh, Making
    <2>4. \A r \in net' : r[1] \in Making => Fresh(r[3], {r})'
      BY <2>2, <2>3, <1>a DEF Fresh
    <2>5. ASSUME pc \in Making, sent = None PROVE Fresh(id, {})'
      BY <2>5, <1>0, <1>a, <1>t DEF Fresh, FreshInv
    <2>6. ASSUME pc \in Making, answer' = "ok", NEW r \in net', r[1] \in Making PROVE r[3] # id
      BY <2>6, <2>2, <1>a, <1>b DEF Fresh, FreshInv
    <2> QED BY <2>4, <2>5, <2>6, <1>a DEF FreshInv
  <1>5. RowInv' BY <1>0, <1>a, <1>t
      DEF RowInv, FreshInv, Fresh, Making, MayPrepare, MayActivate, MayAbort, Authenticated
  <1>6. ActivationInv' BY <1>0, <1>a, <1>t
      DEF ActivationInv, FreshInv, Fresh, Making, MayActivate
  <1>7. DropInv'
    <2>1. (cred = file /\ cred.pending = id) \/ pc \notin Staged BY DEF ProcessInv, Staged
    <2>2. pc = "abortExpired" /\ answer' = "ok" /\ answer # "ok" => Operation[pc] = "prepare" BY <1>b
    <2> QED BY <2>1, <2>2, <1>0, <1>a, <1>b, <1>t
        
             DEF DropInv, Staged, ActivationInv, FreshInv, Fresh, Making, Operation,
                 MayActivate, MayPrepare, MayAbort, Authenticated
  <1>8. TokenKnown' BY <1>0, <1>a, <1>t
      DEF TokenKnown, ActivationInv, MayActivate, Authenticated
  <1> QED BY <1>1, <1>2, <1>3, <1>4, <1>5, <1>6, <1>7, <1>8 DEF RotationInv

\* An accepted activate is handled: the invariant is kept.
LEMMA HandleActivateInv ==
    ASSUME RotationInv, NEW q \in net, Handle(q), q[1] = "activate", Accepted(q)
    PROVE  RotationInv'
  <1> USE RotationAssumption, NoneNoId, NoneNoAnswer, Domains DEF RotationInv
  <1>0. /\ MayActivate(q[2], q[3])
        /\ token' = pend /\ pend' = None /\ UNCHANGED <<active, enrolled>> /\ expired' = FALSE
    BY DEF Accepted, Handle, Effect
  <1>a. /\ net' = net \ {q} /\ q[2] \in Ids /\ q[3] \in Ids
        /\ file' = file /\ cred' = cred /\ pc' = pc /\ id' = id /\ sent' = sent /\ lastId' = lastId
    BY HandleParts
  <1>b. answer' = "ok" => answer = "ok" \/ (Operation[pc] = "activate" /\ q[2] = cred.token /\ q[3] = id)
    BY HandleParts
  <1>t. token \in Ids /\ id \in Ids /\ (\A r \in net : r[2] \in Ids /\ r[3] \in Ids)
    BY RequestParts DEF TypeOK
  <1>1. TypeOK' BY <1>0, <1>a, HandleParts DEF TypeOK, MayActivate
  <1>2. ProcessInv' BY HandleParts DEF ProcessInv
  <1>3. DrawnInv'
    <2>1. q[3] <= lastId /\ (pend # None => pend <= lastId) BY DEF DrawnInv
    <2>2. token' <= lastId' BY <2>1, <1>0, <1>a, <1>t DEF DrawnInv, MayActivate
    <2>3. pend' # None => pend' <= lastId' BY <2>1, <1>0, <1>a
    <2> QED BY <2>2, <2>3, <1>a DEF DrawnInv
  <1>4. FreshInv'
    <2>1. q[1] \in Making => Fresh(q[3], {q}) BY DEF FreshInv
    <2>2. \A r \in net' : r[1] \in Making => Fresh(r[3], {r})
      BY <1>a DEF FreshInv
    <2>3. \A r \in net' : r[1] \in Making => r[3] \notin {token', pend'}
      BY <2>1, <2>2, <1>0, <1>a, <1>t DEF Fresh, Making
    <2>4. \A r \in net' : r[1] \in Making => Fresh(r[3], {r})'
      BY <2>2, <2>3, <1>a DEF Fresh
    <2>5. ASSUME pc \in Making, sent = None PROVE Fresh(id, {})'
      BY <2>5, <1>0, <1>a, <1>t DEF Fresh, FreshInv
    <2>6. ASSUME pc \in Making, answer' = "ok", NEW r \in net', r[1] \in Making PROVE r[3] # id
      BY <2>6, <2>2, <1>a, <1>b DEF Fresh, FreshInv
    <2> QED BY <2>4, <2>5, <2>6, <1>a DEF FreshInv
  <1>5. RowInv' BY <1>0, <1>a, <1>t
      DEF RowInv, FreshInv, Fresh, Making, MayPrepare, MayActivate, MayAbort, Authenticated
  <1>6. ActivationInv' BY <1>0, <1>a, <1>t
      DEF ActivationInv, FreshInv, Fresh, Making, MayActivate
  <1>7. DropInv'
    <2>1. (cred = file /\ cred.pending = id) \/ pc \notin Staged BY DEF ProcessInv, Staged
    <2>2. pc = "abortExpired" /\ answer' = "ok" /\ answer # "ok" => Operation[pc] = "activate" BY <1>b
    <2> QED BY <2>1, <2>2, <1>0, <1>a, <1>b, <1>t
        
             DEF DropInv, Staged, ActivationInv, FreshInv, Fresh, Making, Operation,
                 MayActivate, MayPrepare, MayAbort, Authenticated
  <1>8. TokenKnown' BY <1>0, <1>a, <1>t
      DEF TokenKnown, ActivationInv, MayActivate, Authenticated
  <1> QED BY <1>1, <1>2, <1>3, <1>4, <1>5, <1>6, <1>7, <1>8 DEF RotationInv

\* An accepted abort is handled: the invariant is kept.
LEMMA HandleAbortInv ==
    ASSUME RotationInv, NEW q \in net, Handle(q), q[1] = "abort", Accepted(q)
    PROVE  RotationInv'
  <1> USE RotationAssumption, NoneNoId, NoneNoAnswer, Domains DEF RotationInv
  <1>0. /\ MayAbort(q[2], q[3])
        /\ pend' = None /\ UNCHANGED <<active, token, enrolled>> /\ expired' = FALSE
    BY DEF Accepted, Handle, Effect
  <1>a. /\ net' = net \ {q} /\ q[2] \in Ids /\ q[3] \in Ids
        /\ file' = file /\ cred' = cred /\ pc' = pc /\ id' = id /\ sent' = sent /\ lastId' = lastId
    BY HandleParts
  <1>b. answer' = "ok" => answer = "ok" \/ (Operation[pc] = "abort" /\ q[2] = cred.token /\ q[3] = id)
    BY HandleParts
  <1>t. token \in Ids /\ id \in Ids /\ (\A r \in net : r[2] \in Ids /\ r[3] \in Ids)
    BY RequestParts DEF TypeOK
  <1>1. TypeOK' BY <1>0, <1>a, HandleParts DEF TypeOK, MayActivate
  <1>2. ProcessInv' BY HandleParts DEF ProcessInv
  <1>3. DrawnInv'
    <2>1. q[3] <= lastId /\ (pend # None => pend <= lastId) BY DEF DrawnInv
    <2>2. token' <= lastId' BY <2>1, <1>0, <1>a, <1>t DEF DrawnInv, MayActivate
    <2>3. pend' # None => pend' <= lastId' BY <2>1, <1>0, <1>a
    <2> QED BY <2>2, <2>3, <1>a DEF DrawnInv
  <1>4. FreshInv'
    <2>1. q[1] \in Making => Fresh(q[3], {q}) BY DEF FreshInv
    <2>2. \A r \in net' : r[1] \in Making => Fresh(r[3], {r})
      BY <1>a DEF FreshInv
    <2>3. \A r \in net' : r[1] \in Making => r[3] \notin {token', pend'}
      BY <2>1, <2>2, <1>0, <1>a, <1>t DEF Fresh, Making
    <2>4. \A r \in net' : r[1] \in Making => Fresh(r[3], {r})'
      BY <2>2, <2>3, <1>a DEF Fresh
    <2>5. ASSUME pc \in Making, sent = None PROVE Fresh(id, {})'
      BY <2>5, <1>0, <1>a, <1>t DEF Fresh, FreshInv
    <2>6. ASSUME pc \in Making, answer' = "ok", NEW r \in net', r[1] \in Making PROVE r[3] # id
      BY <2>6, <2>2, <1>a, <1>b DEF Fresh, FreshInv
    <2> QED BY <2>4, <2>5, <2>6, <1>a DEF FreshInv
  <1>5. RowInv' BY <1>0, <1>a, <1>t
      DEF RowInv, FreshInv, Fresh, Making, MayPrepare, MayActivate, MayAbort, Authenticated
  <1>6. ActivationInv' BY <1>0, <1>a, <1>t
      DEF ActivationInv, FreshInv, Fresh, Making, MayActivate
  <1>7. DropInv'
    <2>1. (cred = file /\ cred.pending = id) \/ pc \notin Staged BY DEF ProcessInv, Staged
    <2>2. pc = "abortExpired" /\ answer' = "ok" /\ answer # "ok" => Operation[pc] = "abort" BY <1>b
    <2> QED BY <2>1, <2>2, <1>0, <1>a, <1>b, <1>t
        
             DEF DropInv, Staged, ActivationInv, FreshInv, Fresh, Making, Operation,
                 MayActivate, MayPrepare, MayAbort, Authenticated
  <1>8. TokenKnown' BY <1>0, <1>a, <1>t
      DEF TokenKnown, ActivationInv, MayActivate, Authenticated
  <1> QED BY <1>1, <1>2, <1>3, <1>4, <1>5, <1>6, <1>7, <1>8 DEF RotationInv

\* An accepted enroll is handled: the invariant is kept.
LEMMA HandleEnrollInv ==
    ASSUME RotationInv, NEW q \in net, Handle(q), q[1] = "enroll", Accepted(q)
    PROVE  RotationInv'
  <1> USE RotationAssumption, NoneNoId, NoneNoAnswer, Domains DEF RotationInv
  <1>0. /\ MayEnroll
        /\ active' = TRUE /\ token' = q[3] /\ pend' = None /\ expired' = FALSE
        /\ enrolled' = enrolled \cup {q[3]}
    BY DEF Accepted, Handle, Effect
  <1>a. /\ net' = net \ {q} /\ q[2] \in Ids /\ q[3] \in Ids
        /\ file' = file /\ cred' = cred /\ pc' = pc /\ id' = id /\ sent' = sent /\ lastId' = lastId
    BY HandleParts
  <1>b. answer' = "ok" => answer = "ok" \/ (Operation[pc] = "enroll" /\ q[2] = cred.token /\ q[3] = id)
    BY HandleParts
  <1>t. token \in Ids /\ id \in Ids /\ (\A r \in net : r[2] \in Ids /\ r[3] \in Ids)
    BY RequestParts DEF TypeOK
  <1>1. TypeOK' BY <1>0, <1>a, HandleParts DEF TypeOK, MayActivate
  <1>2. ProcessInv' BY HandleParts DEF ProcessInv
  <1>3. DrawnInv'
    <2>1. q[3] <= lastId /\ (pend # None => pend <= lastId) BY DEF DrawnInv
    <2>2. token' <= lastId' BY <2>1, <1>0, <1>a, <1>t DEF DrawnInv, MayActivate
    <2>3. pend' # None => pend' <= lastId' BY <2>1, <1>0, <1>a
    <2> QED BY <2>2, <2>3, <1>a DEF DrawnInv
  <1>4. FreshInv'
    <2>1. q[1] \in Making => Fresh(q[3], {q}) BY DEF FreshInv
    <2>2. \A r \in net' : r[1] \in Making => Fresh(r[3], {r})
      BY <1>a DEF FreshInv
    <2>3. \A r \in net' : r[1] \in Making => r[3] \notin {token', pend'}
      BY <2>1, <2>2, <1>0, <1>a, <1>t DEF Fresh, Making
    <2>4. \A r \in net' : r[1] \in Making => Fresh(r[3], {r})'
      BY <2>2, <2>3, <1>a DEF Fresh
    <2>5. ASSUME pc \in Making, sent = None PROVE Fresh(id, {})'
      BY <2>5, <1>0, <1>a, <1>t DEF Fresh, FreshInv
    <2>6. ASSUME pc \in Making, answer' = "ok", NEW r \in net', r[1] \in Making PROVE r[3] # id
      BY <2>6, <2>2, <1>a, <1>b DEF Fresh, FreshInv
    <2> QED BY <2>4, <2>5, <2>6, <1>a DEF FreshInv
  <1>5. RowInv' BY <1>0, <1>a, <1>t
      DEF RowInv, FreshInv, Fresh, Making, MayPrepare, MayActivate, MayAbort, Authenticated
  <1>6. ActivationInv' BY <1>0, <1>a, <1>t
      DEF ActivationInv, FreshInv, Fresh, Making, MayActivate
  <1>7. DropInv'
    <2>1. (cred = file /\ cred.pending = id) \/ pc \notin Staged BY DEF ProcessInv, Staged
    <2>2. pc = "abortExpired" /\ answer' = "ok" /\ answer # "ok" => Operation[pc] = "enroll" BY <1>b
    <2> QED BY <2>1, <2>2, <1>0, <1>a, <1>b, <1>t
        
             DEF DropInv, Staged, ActivationInv, FreshInv, Fresh, Making, Operation,
                 MayActivate, MayPrepare, MayAbort, Authenticated
  <1>8. TokenKnown' BY <1>0, <1>a, <1>t
      DEF TokenKnown, ActivationInv, MayActivate, Authenticated
  <1> QED BY <1>1, <1>2, <1>3, <1>4, <1>5, <1>6, <1>7, <1>8 DEF RotationInv

\* A request is refused: the invariant is kept.
LEMMA HandleRefusedInv ==
    ASSUME RotationInv, NEW q \in net, Handle(q), ~Accepted(q)
    PROVE  RotationInv'
  <1> USE RotationAssumption, NoneNoId, NoneNoAnswer, Domains DEF RotationInv
  <1>0. UNCHANGED <<active, token, pend, expired, enrolled>> BY DEF Handle
  <1>a. /\ UNCHANGED <<busy, file, cred, mode, pc, id, sent, lastId, faults>> /\ net' \subseteq net
        /\ answer' \in {None, "ok", "refused", "lost"} /\ (answer' # None => sent # None)
        /\ (answer' = "ok" => answer = "ok")
    BY HandleParts
  <1>1. TypeOK' BY <1>0, <1>a DEF TypeOK
  <1>2. ProcessInv' BY <1>a DEF ProcessInv
  <1>3. DrawnInv' BY <1>0, <1>a DEF DrawnInv
  <1>4. FreshInv' BY <1>0, <1>a DEF FreshInv, Fresh
  <1>5. RowInv' BY <1>0, <1>a DEF RowInv
  <1>6. ActivationInv' BY <1>0, <1>a DEF ActivationInv
  <1>7. DropInv' BY <1>0, <1>a DEF DropInv
  <1>8. TokenKnown' BY <1>0, <1>a DEF TokenKnown
  <1> QED BY <1>1, <1>2, <1>3, <1>4, <1>5, <1>6, <1>7, <1>8 DEF RotationInv

\* A stuttering step changes nothing: the invariant is kept.
LEMMA StutterInv ==
    ASSUME RotationInv, UNCHANGED vars
    PROVE  RotationInv'
  <1> USE DEF RotationInv, vars, managerVars, workerVars
  <1>1. TypeOK' BY DEF TypeOK
  <1>2. ProcessInv' BY DEF ProcessInv
  <1>3. DrawnInv' BY DEF DrawnInv
  <1>4. FreshInv' BY DEF FreshInv, Fresh
  <1>5. RowInv' BY DEF RowInv
  <1>6. ActivationInv' BY DEF ActivationInv
  <1>7. DropInv' BY DEF DropInv
  <1>8. TokenKnown' BY DEF TokenKnown
  <1> QED BY <1>1, <1>2, <1>3, <1>4, <1>5, <1>6, <1>7, <1>8 DEF RotationInv

\* Every step keeps the invariant.
LEMMA StepInv == RotationInv /\ [Next]_vars => RotationInv'
  <1> SUFFICES ASSUME RotationInv, [Next]_vars PROVE RotationInv' OBVIOUS
  <1>1. ASSUME Steps PROVE RotationInv'
    BY <1>1, CheckInv, ReadyInv, SendInv, ReceiveInv, SaveInv, ProbeInv, StatusGoneInv,
       StatusPendingInv, ConfirmInv DEF Steps
  <1>2. ASSUME NEW q \in net, Handle(q) PROVE RotationInv'
    <2>1. CASE ~Accepted(q) BY <1>2, <2>1, HandleRefusedInv
    <2>2. CASE Accepted(q)
      <3>1. q[1] \in {"prepare", "activate", "abort", "enroll"} BY <1>2, HandleParts
      <3> QED BY <1>2, <2>2, <3>1, HandlePrepareInv, HandleActivateInv, HandleAbortInv,
          HandleEnrollInv
    <2> QED BY <2>1, <2>2
  <1>3. ASSUME NEW m \in {"agent", "rotate", "enroll"}, Start(m) PROVE RotationInv'
    BY <1>3, StartInv
  <1>4. ASSUME Expire \/ Revoke \/ Claim \/ Finish PROVE RotationInv'
    BY <1>4, ExpireInv, RevokeInv, ClaimInv, FinishInv
  <1>5. ASSUME TimeOut \/ SaveFailed \/ StatusExpired \/ Stop \/ Crash PROVE RotationInv'
    BY <1>5, TimeOutInv, SaveFailedInv, StatusExpiredInv, StopInv, CrashInv
  <1>6. ASSUME UNCHANGED vars PROVE RotationInv' BY <1>6, StutterInv
  <1> QED BY <1>1, <1>2, <1>3, <1>4, <1>5, <1>6 DEF Next

\* The variables keep their types (a rotation never persists an absent token).
THEOREM TypeCorrect == Spec => []TypeOK
  <1>1. RotationInv => TypeOK BY DEF RotationInv
  <1> QED BY <1>1, InitInv, StepInv, PTL DEF Spec

\* Whatever is lost, late or crashes, and however often: the token that the Manager
\* accepts is in the Worker's credential file, or was issued by a re-enrolment.
THEOREM TokenIsKnown == Spec => []TokenKnown
  <1>1. RotationInv => TokenKnown BY DEF RotationInv
  <1> QED BY <1>1, InitInv, StepInv, PTL DEF Spec

-----------------------------------------------------------------------------
(* Without late requests no rotation is pending while the agent runs.      *)

\* The only request on its way is the one that the process waits for.
NetInv == net \subseteq {sent} /\ (answer # None => net = {})

\* A pending rotation is the staged one or the one that is being staged, and none is
\* pending where the process takes the rotation to be over.
OverInv ==
    /\ file.pending # None => pend \in {None, file.pending}
    /\ (pc = "stage" \/ (pc = "prepare" /\ answer = "ok")) => pend \in {None, id}
    /\ (\/ pc \in {"ready", "running", "persist", "clear"}
        \/ pc \in {"abortOrphan", "abortExpired"} /\ answer = "ok") => pend = None

\* A request that is given up is not processed any more: the network is empty again.
LEMMA NetStep ==
    ASSUME ~Late, RotationInv, NetInv, [Next]_vars
    PROVE  NetInv'
  <1> USE RotationAssumption, NoneNoAnswer, Domains DEF RotationInv, NetInv
  <1>1. sent = None => net = {} /\ answer = None
    BY RequestNotNone DEF TypeOK, ProcessInv
  <1>2. ASSUME UNCHANGED <<net, sent, answer>> PROVE NetInv' BY <1>2
  <1>3. ASSUME Send PROVE NetInv'
    <2>1. sent' = <<Operation[pc], cred.token, id>> BY <1>3 DEF Send
    <2>2. net = {} /\ answer' = None /\ net' = net \cup {sent'} BY <1>1, <1>3 DEF Send
    <2> QED BY <2>2
  <1>4. ASSUME Receive PROVE NetInv' BY <1>4 DEF Receive
  <1>5. ASSUME NEW q \in net, Handle(q) PROVE NetInv' BY <1>5 DEF Handle
  <1>6. ASSUME TimeOut PROVE NetInv' BY <1>6 DEF TimeOut
  <1>7. ASSUME Crash PROVE NetInv' BY <1>1, <1>7 DEF Crash
  <1>8. CASE Steps
    BY <1>2, <1>3, <1>4, <1>8
        DEF Steps, Check, Ready, Save, Probe, StatusGone, StatusPending, Confirm, Goto
  <1> QED
    BY <1>2, <1>5, <1>6, <1>7, <1>8
        DEF Next, Start, Expire, Revoke, Claim, Finish, SaveFailed, StatusExpired, Stop, vars,
            workerVars

\* What the Manager does keeps it: a rotation is prepared only for the process that waits.
LEMMA OverHandle ==
    ASSUME RotationInv, NetInv, OverInv, NEW q \in net, Handle(q)
    PROVE  OverInv'
  <1> USE RotationAssumption, NoneNoId, NoneNoAnswer, Domains DEF RotationInv
  <1>1. /\ sent = q /\ answer = None /\ q \in Requests
        /\ pc \in DOMAIN Operation /\ q[1] = Operation[pc] /\ q[3] = id
    BY RequestNotNone DEF NetInv, TypeOK, ProcessInv
  <1>2. UNCHANGED <<file, cred, pc, id>> BY DEF Handle
  <1>3. pc \in DOMAIN Operation => pc \notin {"stage", "ready", "running", "persist", "clear"}
    OBVIOUS
  <1>4. CASE Accepted(q) /\ q[1] = "prepare"
    <2>1. pc = "prepare" BY <1>1, <1>4 DEF Operation
    <2>2. file.pending = None BY <2>1 DEF ProcessInv, Unstaged
    <2>3. pend' = id BY <1>1, <1>4 DEF Handle, Effect
    <2> QED BY <1>2, <2>1, <2>2, <2>3 DEF OverInv
  <1>5. CASE Accepted(q) /\ q[1] # "prepare"
    <2>1. pend' = None BY <1>1, <1>5 DEF Handle, Effect
    <2> QED BY <2>1 DEF OverInv
  <1>6. CASE ~Accepted(q)
    <2>1. pend' = pend /\ answer' # "ok" BY <1>1, <1>6 DEF Handle
    <2> QED BY <1>1, <1>2, <1>3, <2>1 DEF OverInv
  <1> QED BY <1>4, <1>5, <1>6

\* Every step keeps it.
LEMMA OverStep ==
    ASSUME ~Late, RotationInv, NetInv, OverInv, [Next]_vars
    PROVE  OverInv'
  <1> USE RotationAssumption, NoneNoId, NoneNoAnswer, Domains DEF RotationInv
  <1>1. ASSUME pc \notin DOMAIN Operation PROVE sent = None /\ answer = None /\ net = {}
    BY <1>1, RequestNotNone DEF ProcessInv, TypeOK, NetInv
  <1>2. ASSUME UNCHANGED <<pend, file>>, pc' \in {"off", "check", "probe", "status", "confirm",
                                                  "enroll", "saveEnrolled", "abortStaged"}
        PROVE OverInv'
    BY <1>2 DEF OverInv
  <1>3. ASSUME UNCHANGED <<file, pc, id, pend>>, answer' # "ok" \/ answer' = answer
        PROVE OverInv'
    BY <1>3 DEF OverInv
  <1>4. ASSUME Check PROVE OverInv'
    <2>1. answer' = None BY <1>1, <1>4 DEF Check
    <2> QED BY <1>4, <2>1 DEF OverInv, Check, Goto, managerVars
  <1>5. ASSUME Ready PROVE OverInv'
    <2>1. answer' = None BY <1>1, <1>5 DEF Ready
    <2> QED BY <1>5, <2>1 DEF OverInv, Ready, Goto, managerVars
  <1>6. ASSUME Send PROVE OverInv' BY <1>3, <1>6 DEF Send, managerVars
  <1>7. ASSUME Receive PROVE OverInv'
    <2>1. pc \in DOMAIN Operation BY <1>7 DEF Receive, ProcessInv
    <2> QED BY <1>7, <2>1 DEF OverInv, Receive, AfterOk, AfterFailure, managerVars
  <1>8. ASSUME Save PROVE OverInv'
    <2>1. answer' = None BY <1>1, <1>8 DEF Save
    <2>2. file' = Saved(pc) /\ pc' = AfterSave[pc] /\ pend' = pend /\ id' = id
      BY <1>8 DEF Save, managerVars
    <2>3. CASE pc = "stage" BY <2>1, <2>2, <2>3 DEF OverInv, Saved, Credential, AfterSave
    <2>4. CASE pc \in {"persist", "clear"}
      BY <2>1, <2>2, <2>4 DEF OverInv, Saved, Credential, AfterSave
    <2>5. CASE pc = "saveEnrolled" BY <2>1, <2>2, <2>5 DEF OverInv, Saved, Credential, AfterSave
    <2> QED BY <1>8, <2>3, <2>4, <2>5 DEF Save
  <1>9. ASSUME SaveFailed PROVE OverInv'
    <2>1. /\ file' \in {file, Saved(pc)} /\ pc' \in {"off", "abortStaged"} /\ pend' = pend
          /\ pc \in DOMAIN AfterSave
      BY <1>9 DEF SaveFailed, managerVars
    <2>2. Saved(pc).pending # None => pend \in {None, Saved(pc).pending}
      BY <2>1 DEF OverInv, Saved, Credential
    <2> QED BY <2>1, <2>2 DEF OverInv
  <1>10. ASSUME Probe \/ Confirm PROVE OverInv'
    <2>1. cred = file /\ cred.pending = id /\ id \in Ids
      BY <1>10 DEF Probe, Confirm, ProcessInv, Staged, TypeOK
    <2>2. Authenticated(cred.pending) => pend = None
      BY <2>1 DEF OverInv, RowInv, Authenticated
    <2>3. /\ pc' \in {"persist", "status", "off"} /\ UNCHANGED <<pend, file>>
          /\ pc' = "persist" => Authenticated(cred.pending)
      BY <1>10 DEF Probe, Confirm, Goto, managerVars
    <2> QED BY <2>2, <2>3 DEF OverInv
  <1>11. ASSUME StatusGone \/ StatusPending \/ StatusExpired PROVE OverInv'
    <2>1. answer' = None BY <1>1, <1>11 DEF StatusGone, StatusPending, StatusExpired
    <2> QED BY <1>11, <2>1 DEF OverInv, StatusGone, StatusPending, StatusExpired, Goto, managerVars
  <1>12. ASSUME NEW m \in {"agent", "rotate", "enroll"}, Start(m) PROVE OverInv'
    BY <1>12 DEF OverInv, Start, managerVars
  <1>13. ASSUME Revoke PROVE OverInv' BY <1>13 DEF OverInv, Revoke
  <1>14. ASSUME Expire \/ Claim \/ Finish PROVE OverInv'
    BY <1>3, <1>14 DEF Expire, Claim, Finish, workerVars
  <1>15. ASSUME TimeOut PROVE OverInv' BY <1>3, <1>15 DEF TimeOut, managerVars
  <1>16. ASSUME Stop \/ Crash PROVE OverInv' BY <1>2, <1>16 DEF Stop, Crash, Goto, managerVars
  <1>17. CASE UNCHANGED vars BY <1>3, <1>17 DEF vars, managerVars, workerVars
  <1> QED
    BY <1>4, <1>5, <1>6, <1>7, <1>8, <1>9, <1>10, <1>11, <1>12, <1>13, <1>14, <1>15, <1>16,
       <1>17, OverHandle DEF Next, Steps

\* While the agent runs no rotation is pending that would close every claim to it, after any
\* crashes, lost answers, failing writes, revocations and re-enrolments, provided that the
\* Manager processes no request after the Worker gave up on it.
THEOREM AgentIsNotBlocked ==
    ASSUME ~Late
    PROVE  Spec => []AgentNotBlocked
  <1>1. Init => NetInv /\ OverInv
    BY NoneNoAnswer DEF Init, NetInv, OverInv, Credential
  <1>2. RotationInv /\ NetInv /\ OverInv /\ [Next]_vars => NetInv' /\ OverInv'
    BY NetStep, OverStep
  <1>3. OverInv => AgentNotBlocked BY DEF OverInv, AgentNotBlocked
  <1> QED BY <1>1, <1>2, <1>3, InitInv, StepInv, PTL DEF Spec

-----------------------------------------------------------------------------
(***************************************************************************)
(* Users.                                                                  *)
(* Proof that an administrator remains and that no session outlives the    *)
(* password and the role it was opened with, for any number of accounts,   *)
(* requests, keys and logins.                                              *)
(*                                                                         *)
(* The fence makes the request behind it the only one that decides or      *)
(* writes, so what it read of its actor and its target still holds when it *)
(* commits (RequestInv).  Its actor is an enabled administrator,           *)
(* and stays one unless the request is about the actor, which is refused:  *)
(* the count of the remaining administrators is not needed.  A row never   *)
(* changes password or role under one token version, so a version that was *)
(* read earlier is either outdated or read with the present ones           *)
(* (LoginOK, TokenInv).                                                    *)
(***************************************************************************)

Holds(p) == req[p].at \in {"fenced", "decided"}

FenceInv == \A p \in Procs : Holds(p) => fence = p

\* A row r of user u that was read or is to be written, and the present row.
Earlier(r, u) ==
    r.tok <= users[u].tok /\ (r.tok = users[u].tok => r.pw = users[u].pw /\ r.role = users[u].role)
Later(r, u) ==
    r.tok >= users[u].tok /\ (r.tok = users[u].tok => r.pw = users[u].pw /\ r.role = users[u].role)

\* A login, and an authenticated request before and behind the fence.
LoginOK(q) == q.at = "verify" => q.target \in Accounts /\ Earlier(q.user, q.target)

CarriedOK(q) ==
    q.at \in {"authenticated", "fenced", "decided"} =>
        /\ q.actor \in Accounts /\ q.target \in Accounts
        /\ q.key \in Accounts \X Keys /\ q.body \in Bodies

HolderOK(q) == q.at \in {"fenced", "decided"} => EnabledAdmin(q.actor)

WriteOK(q) ==
    q.at = "decided" =>
        /\ Later(q.user, q.target)
        /\ q.user.role # "none"
        /\ q.target = q.actor => q.user.role = "admin" /\ ~q.user.disabled

RequestOK(q) == LoginOK(q) /\ CarriedOK(q) /\ HolderOK(q) /\ WriteOK(q)

RequestInv == \A p \in Procs : RequestOK(req[p])

NoRowInv == \A u \in Accounts : users[u].role = "none" => users[u].tok = 0

TokenOK(t) ==
    /\ t.ver <= users[t.user].tok
    /\ t.ver = users[t.user].tok => t.pw = users[t.user].pw /\ t.role = users[t.user].role

TokenInv == \A t \in tokens : TokenOK(t)

UsersInv == UsersTypeOK /\ FenceInv /\ RequestInv /\ NoRowInv /\ TokenInv /\ AdminRemains

-----------------------------------------------------------------------------
\* A decided request of update_user_access, create_user or reset_user_password writes
\* a row of its own token version, or changes neither password nor role.
LEMMA WrittenIsLater ==
    ASSUME UsersTypeOK, NoRowInv,
           NEW q \in UserRequests, q.target \in Accounts, q.actor \in Accounts, q.body \in Bodies,
           EnabledAdmin(q.actor), May(q)
    PROVE  /\ Written(q) \in Rows
           /\ Later(Written(q), q.target)
           /\ Written(q).role # "none"
           /\ q.target = q.actor => Written(q).role = "admin" /\ ~Written(q).disabled
<1> DEFINE u == users[q.target]
<1>0. u \in Rows
  BY DEF UsersTypeOK
<1>1. CASE q.body.op = "create"
  <2>1. q.body.role \in {"admin", "user"} /\ q.body.disabled \in BOOLEAN /\ q.body.pw \in Passwords
    BY <1>1 DEF Bodies
  <2>2. u.role = "none" /\ u.tok = 0
    BY <1>1 DEF May, NoRowInv
  <2>3. Written(q) = [role |-> q.body.role, disabled |-> q.body.disabled, row |-> 1, tok |-> 1,
                      pw |-> q.body.pw]
    BY <1>1 DEF Written
  <2> QED BY <2>1, <2>2, <2>3 DEF Later, EnabledAdmin, Rows
<1>2. CASE q.body.op = "access_update"
  <2>1. q.body.role \in {"admin", "user"} /\ q.body.disabled \in BOOLEAN
    BY <1>2 DEF Bodies
  <2>2. u.role # "none" /\ (Removes(q) => q.target # q.actor)
    BY <1>2 DEF May, MayUpdate
  <2>3. CASE u.role = q.body.role /\ u.disabled = q.body.disabled
    <3>1. Written(q) = u
      BY <1>2, <2>3 DEF Written
    <3> QED BY <1>0, <2>2, <3>1 DEF Later, EnabledAdmin, Rows
  <2>4. CASE ~(u.role = q.body.role /\ u.disabled = q.body.disabled)
    <3>1. Written(q) = [role |-> q.body.role, disabled |-> q.body.disabled, row |-> u.row + 1,
                        tok |-> u.tok + 1, pw |-> u.pw]
      BY <1>2, <2>4 DEF Written
    <3>2. /\ Written(q).role = q.body.role /\ Written(q).disabled = q.body.disabled
          /\ Written(q).tok = u.tok + 1 /\ Written(q) \in Rows
      BY <1>0, <2>1, <3>1 DEF Rows
    <3>3. u.tok \in Nat
      BY <1>0 DEF Rows
    <3>4. Later(Written(q), q.target) /\ Written(q).role # "none"
      BY <2>1, <3>2, <3>3 DEF Later
    <3>5. q.target = q.actor => Written(q).role = "admin" /\ ~Written(q).disabled
      BY <2>2, <3>2 DEF Removes
    <3> QED BY <3>2, <3>4, <3>5
  <2> QED BY <2>3, <2>4
<1>3. CASE q.body.op = "password_reset"
  <2>1. q.body.pw \in Passwords
    BY <1>3 DEF Bodies
  <2>2. u.role # "none"
    BY <1>3 DEF May
  <2>3. Written(q) = [role |-> u.role, disabled |-> u.disabled, row |-> u.row + 1,
                      tok |-> u.tok + 1, pw |-> q.body.pw]
    BY <1>3 DEF Written
  <2>4. /\ Written(q).role = u.role /\ Written(q).disabled = u.disabled
        /\ Written(q).tok = u.tok + 1 /\ Written(q) \in Rows
    BY <1>0, <2>1, <2>3 DEF Rows
  <2>5. u.tok \in Nat
    BY <1>0 DEF Rows
  <2>6. Later(Written(q), q.target) /\ Written(q).role # "none"
    BY <2>2, <2>4, <2>5 DEF Later
  <2> QED BY <2>4, <2>6 DEF EnabledAdmin
<1> QED BY <1>1, <1>2, <1>3 DEF Bodies

LEMMA InitUsersInv == UsersInit => UsersInv
<1> SUFFICES ASSUME UsersInit PROVE UsersInv
  OBVIOUS
<1>1. \A p \in Procs : req[p] = Idle
  BY DEF UsersInit
<1>2. Idle \in UserRequests /\ Idle.at = "idle"
  BY DEF Idle, UserRequests, Operations, NoBody, NoUser, Rows
<1>3. users \in [Accounts -> Rows] /\ NoRowInv
  <2>1. CASE users = [u \in Accounts |-> NoUser]
    BY <2>1 DEF NoUser, Rows, NoRowInv
  <2>2. CASE \E pw \in Passwords : users = [u \in Accounts |-> Administrator(pw)]
    <3>1. PICK pw \in Passwords : users = [u \in Accounts |-> Administrator(pw)]
      BY <2>2
    <3>2. Administrator(pw) \in Rows /\ Administrator(pw).role = "admin"
      BY DEF Administrator, Rows
    <3> QED BY <3>1, <3>2 DEF NoRowInv
  <2> QED BY <2>1, <2>2 DEF UsersInit
<1>4. UsersTypeOK
  BY <1>2, <1>3 DEF UsersInit, UsersTypeOK
<1>5. FenceInv /\ RequestInv
  BY <1>1, <1>2 DEF FenceInv, Holds, RequestInv, RequestOK, LoginOK, CarriedOK, HolderOK, WriteOK
<1>6. TokenInv
  BY DEF UsersInit, TokenInv
<1>7. AdminRemains
  BY DEF UsersInit, AdminRemains, EnabledAdmin, Administrator
<1> QED BY <1>3, <1>4, <1>5, <1>6, <1>7 DEF UsersInv

\* A step of one request that leaves the users alone: the others are as they were.
LEMMA RequestStep ==
    ASSUME UsersInv, NEW p \in Procs, NEW q \in UserRequests,
           req' = [req EXCEPT ![p] = q], RequestOK(q),
           fence' \in Procs \cup {Nothing},
           q.at \in {"fenced", "decided"} => fence' = p,
           \A r \in Procs : r # p /\ Holds(r) => fence' = r,
           UNCHANGED <<users, booted, ops>>
    PROVE  /\ (users \in [Accounts -> Rows])' /\ (booted \in Accounts \cup {Nothing})'
           /\ (fence \in Procs \cup {Nothing})' /\ (ops \in [Accounts \X Keys -> BOOLEAN])'
           /\ (req \in [Procs -> UserRequests])'
           /\ FenceInv' /\ RequestInv' /\ NoRowInv' /\ AdminRemains'
<1> USE DEF UsersInv
<1>1. \A r \in Procs : req'[r] = IF r = p THEN q ELSE req[r]
  BY DEF UsersTypeOK
<1>2. req' \in [Procs -> UserRequests]
  BY DEF UsersTypeOK
<1>3. FenceInv'
  BY <1>1 DEF FenceInv, Holds
<1>4. \A r \in Procs : RequestOK(req'[r])
  BY <1>1 DEF RequestInv
<1>5. RequestInv'
  BY <1>4 DEF RequestInv, RequestOK, LoginOK, CarriedOK, HolderOK, WriteOK, Earlier, Later,
     EnabledAdmin
<1> QED BY <1>2, <1>3, <1>5 DEF UsersTypeOK, NoRowInv, AdminRemains, EnabledAdmin

LEMMA IdleOK == Idle \in UserRequests /\ RequestOK(Idle) /\ Idle.at = "idle"
  BY DEF Idle, UserRequests, Operations, NoBody, NoUser, Rows, RequestOK, LoginOK, CarriedOK,
     HolderOK, WriteOK

LEMMA NoUserOK == NoUser \in Rows
  BY DEF NoUser, Rows

\* A row that is written keeps every session and every login that read it earlier.
LEMMA RowStep ==
    ASSUME UsersTypeOK, NoRowInv, NEW u \in Accounts, NEW w \in Rows, w.role # "none", Later(w, u),
           users' = [users EXCEPT ![u] = w]
    PROVE  /\ users' \in [Accounts -> Rows]
           /\ NoRowInv'
           /\ \A q \in UserRequests : LoginOK(q) => LoginOK(q)'
           /\ \A t \in Tokens : TokenOK(t) => TokenOK(t)'
<1>1. \A v \in Accounts : users'[v] = (IF v = u THEN w ELSE users[v])
  BY DEF UsersTypeOK
<1>2. users' \in [Accounts -> Rows]
  BY DEF UsersTypeOK
<1>3. NoRowInv'
  BY <1>1 DEF NoRowInv
<1>4. \A v \in Accounts : users[v].tok \in Nat
  BY DEF UsersTypeOK, Rows
<1>5. w.tok \in Nat
  BY DEF Rows
<1>6. ASSUME NEW q \in UserRequests, LoginOK(q) PROVE LoginOK(q)'
  <2>1. q.user.tok \in Nat
    BY DEF UserRequests, Rows
  <2>2. CASE q.at = "verify" /\ q.target = u
    BY <1>1, <1>4, <1>5, <1>6, <2>1, <2>2 DEF LoginOK, Earlier, Later
  <2>3. CASE q.at = "verify" /\ q.target # u
    BY <1>1, <1>6, <2>3 DEF LoginOK, Earlier
  <2>4. CASE q.at # "verify"
    BY <2>4 DEF LoginOK
  <2> QED BY <2>2, <2>3, <2>4
<1>7. ASSUME NEW t \in Tokens, TokenOK(t) PROVE TokenOK(t)'
  <2>1. t.ver \in Nat /\ t.user \in Accounts
    BY DEF Tokens
  <2>2. CASE t.user = u
    BY <1>1, <1>4, <1>5, <1>7, <2>1, <2>2 DEF TokenOK, Later
  <2>3. CASE t.user # u
    BY <1>1, <1>7, <2>1, <2>3 DEF TokenOK
  <2> QED BY <2>2, <2>3
<1> QED BY <1>2, <1>3, <1>6, <1>7

-----------------------------------------------------------------------------
\* One step per action.

LEMMA BootstrapStep ==
    ASSUME Nothing \notin Procs, UsersInv, NEW u \in Accounts, NEW pw \in Passwords, Bootstrap(u, pw)
    PROVE  UsersInv'
<1> DEFINE w == Administrator(pw)
<1> USE DEF UsersInv
<1>1. w \in Rows /\ w.role = "admin" /\ ~w.disabled /\ w.tok = 1
  BY DEF Administrator, Rows
<1>2. users[u].role = "none" /\ users[u].tok = 0 /\ users' = [users EXCEPT ![u] = w]
  BY DEF Bootstrap, NoRowInv
<1>3. Later(w, u)
  BY <1>1, <1>2 DEF Later
<1> HIDE DEF w
<1>4. /\ users' \in [Accounts -> Rows] /\ NoRowInv'
      /\ \A q \in UserRequests : LoginOK(q) => LoginOK(q)'
      /\ \A t \in Tokens : TokenOK(t) => TokenOK(t)'
  BY <1>1, <1>2, <1>3, RowStep
<1>5. UsersTypeOK'
  BY <1>4 DEF UsersTypeOK, Bootstrap
<1>6. FenceInv'
  BY DEF FenceInv, Holds, Bootstrap
<1>7. \A p \in Procs : ~Holds(p)
  BY DEF FenceInv, Bootstrap
<1>8. RequestInv'
  <2> SUFFICES ASSUME NEW p \in Procs PROVE RequestOK(req[p])'
    BY DEF RequestInv
  <2>1. RequestOK(req[p]) /\ req[p] \in UserRequests /\ req' = req
    BY DEF RequestInv, UsersTypeOK, Bootstrap
  <2>2. LoginOK(req[p])'
    BY <1>4, <2>1 DEF RequestOK, LoginOK, Earlier
  <2>3. CarriedOK(req[p])'
    BY <2>1 DEF RequestOK, CarriedOK
  <2>4. HolderOK(req[p])' /\ WriteOK(req[p])'
    BY <1>7, <2>1 DEF Holds, HolderOK, WriteOK
  <2> QED BY <2>2, <2>3, <2>4 DEF RequestOK
<1>9. TokenInv'
  BY <1>4 DEF TokenInv, UsersTypeOK, Bootstrap
<1>10. EnabledAdmin(u)'
  BY <1>1, <1>2 DEF EnabledAdmin, UsersTypeOK
<1>11. AdminRemains'
  BY <1>10 DEF AdminRemains
<1> QED BY <1>4, <1>5, <1>6, <1>8, <1>9, <1>11

LEMMA CommitStep ==
    ASSUME Nothing \notin Procs, UsersInv, NEW p \in Procs, Commit(p)
    PROVE  UsersInv'
<1> DEFINE w == req[p].user
           u == req[p].target
           a == req[p].actor
<1> USE DEF UsersInv
<1>1. req[p] \in UserRequests /\ req[p].at = "decided" /\ RequestOK(req[p])
  BY DEF Commit, UsersTypeOK, RequestInv
<1>2. /\ w \in Rows /\ u \in Accounts /\ a \in Accounts /\ req[p].key \in Accounts \X Keys
      /\ Later(w, u) /\ w.role # "none" /\ EnabledAdmin(a)
      /\ u = a => w.role = "admin" /\ ~w.disabled
  BY <1>1 DEF RequestOK, CarriedOK, HolderOK, WriteOK, UserRequests
<1>3. /\ users' = [users EXCEPT ![u] = w]
      /\ req' = [req EXCEPT ![p] = Idle]
      /\ ops' = [ops EXCEPT ![req[p].key] = TRUE]
      /\ fence' = Released(p) /\ UNCHANGED <<booted, tokens, issued>>
  BY DEF Commit
<1> HIDE DEF w, u, a
<1>4. /\ users' \in [Accounts -> Rows] /\ NoRowInv'
      /\ \A q \in UserRequests : LoginOK(q) => LoginOK(q)'
      /\ \A t \in Tokens : TokenOK(t) => TokenOK(t)'
  BY <1>2, <1>3, RowStep
<1>5. /\ fence' \in Procs \cup {Nothing} /\ req' \in [Procs -> UserRequests]
      /\ ops' \in [Accounts \X Keys -> BOOLEAN]
  BY <1>2, <1>3, IdleOK DEF Released, UsersTypeOK
<1>6. UsersTypeOK'
  BY <1>3, <1>4, <1>5 DEF UsersTypeOK
<1>7. \A r \in Procs : req'[r] = (IF r = p THEN Idle ELSE req[r])
  BY <1>3 DEF UsersTypeOK
<1>8. \A r \in Procs : r # p => ~Holds(r)
  BY <1>1 DEF FenceInv, Holds
<1>9. FenceInv'
  BY <1>7, <1>8, IdleOK DEF FenceInv, Holds
<1>10. RequestInv'
  <2> SUFFICES ASSUME NEW r \in Procs PROVE RequestOK(req[r])'
    BY DEF RequestInv
  <2>1. CASE r = p
    BY <1>7, <2>1, IdleOK DEF RequestOK, LoginOK, CarriedOK, HolderOK, WriteOK
  <2>2. CASE r # p
    <3>1. RequestOK(req[r]) /\ req[r] \in UserRequests /\ req'[r] = req[r]
      BY <1>7, <2>2 DEF RequestInv, UsersTypeOK
    <3>2. LoginOK(req[r])'
      BY <1>4, <3>1 DEF RequestOK, LoginOK, Earlier
    <3>3. CarriedOK(req[r])'
      BY <3>1 DEF RequestOK, CarriedOK
    <3>4. HolderOK(req[r])' /\ WriteOK(req[r])'
      BY <1>8, <2>2, <3>1 DEF Holds, HolderOK, WriteOK
    <3> QED BY <3>2, <3>3, <3>4 DEF RequestOK
  <2> QED BY <2>1, <2>2
<1>11. TokenInv'
  BY <1>3, <1>4 DEF TokenInv, UsersTypeOK
<1>12. users'[a] = IF a = u THEN w ELSE users[a]
  BY <1>2, <1>3 DEF UsersTypeOK
<1>13. users'[a].role = "admin" /\ ~users'[a].disabled
  BY <1>2, <1>12 DEF EnabledAdmin
<1>14. \E v \in Accounts : EnabledAdmin(v)'
  BY <1>2, <1>13 DEF EnabledAdmin
<1>15. AdminRemains'
  BY <1>14 DEF AdminRemains
<1> QED BY <1>4, <1>6, <1>9, <1>10, <1>11, <1>15

LEMMA LoginStep ==
    ASSUME UsersInv, NEW p \in Procs, NEW u \in Accounts, Login(p, u)
    PROVE  UsersInv'
<1> DEFINE q == [at |-> "verify", actor |-> Nothing, target |-> u, key |-> Nothing, body |-> NoBody,
                 row |-> 0, user |-> users[u]]
<1>1. users[u] \in Rows
  BY DEF UsersInv, UsersTypeOK
<1>2. q \in UserRequests /\ q.at = "verify" /\ q.target = u /\ q.user = users[u]
  BY <1>1 DEF UserRequests, Operations
<1>3. /\ req' = [req EXCEPT ![p] = q] /\ ~Holds(p)
      /\ UNCHANGED <<users, booted, fence, ops, tokens, issued>>
  BY DEF Login, Holds
<1> HIDE DEF q
<1>4. users[u].tok \in Nat
  BY <1>1 DEF Rows
<1>5. RequestOK(q)
  BY <1>2, <1>4 DEF RequestOK, LoginOK, Earlier, CarriedOK, HolderOK, WriteOK
<1>6. \A r \in Procs : Holds(r) => fence' = r
  BY <1>3 DEF UsersInv, FenceInv
<1>7. fence' \in Procs \cup {Nothing} /\ ~(q.at \in {"fenced", "decided"})
  BY <1>2, <1>3 DEF UsersInv, UsersTypeOK
<1>8. /\ (users \in [Accounts -> Rows])' /\ (booted \in Accounts \cup {Nothing})'
      /\ (fence \in Procs \cup {Nothing})' /\ (ops \in [Accounts \X Keys -> BOOLEAN])'
      /\ (req \in [Procs -> UserRequests])'
      /\ FenceInv' /\ RequestInv' /\ NoRowInv' /\ AdminRemains'
  BY <1>2, <1>3, <1>5, <1>6, <1>7, RequestStep
<1>9. (tokens \subseteq Tokens)' /\ (issued \in Nat)' /\ TokenInv'
  BY <1>3 DEF UsersInv, UsersTypeOK, TokenInv, TokenOK
<1> QED BY <1>8, <1>9 DEF UsersInv, UsersTypeOK

LEMMA IssueTokenStep ==
    ASSUME UsersInv, NEW p \in Procs, IssueToken(p)
    PROVE  UsersInv'
<1> DEFINE t == [user |-> req[p].target, ver |-> req[p].user.tok, jti |-> issued + 1,
                 role |-> req[p].user.role, pw |-> req[p].user.pw]
<1>1. req[p] \in UserRequests /\ LoginOK(req[p]) /\ req[p].at = "verify"
  BY DEF IssueToken, UsersInv, UsersTypeOK, RequestInv, RequestOK
<1>2. req[p].target \in Accounts /\ Earlier(req[p].user, req[p].target) /\ req[p].user \in Rows
  BY <1>1 DEF LoginOK, UserRequests
<1>3. t \in Tokens
  BY <1>2 DEF Tokens, Rows, UsersInv, UsersTypeOK
<1>4. TokenOK(t)
  BY <1>2 DEF TokenOK, Earlier
<1>5. /\ req' = [req EXCEPT ![p] = Idle] /\ ~Holds(p) /\ tokens' = tokens \cup {t}
      /\ issued' = issued + 1 /\ UNCHANGED <<users, booted, fence, ops>>
  BY <1>1 DEF IssueToken, Holds
<1> HIDE DEF t
<1>6. \A r \in Procs : Holds(r) => fence' = r
  BY <1>5 DEF UsersInv, FenceInv
<1>7. fence' \in Procs \cup {Nothing}
  BY <1>5 DEF UsersInv, UsersTypeOK
<1>8. /\ (users \in [Accounts -> Rows])' /\ (booted \in Accounts \cup {Nothing})'
      /\ (fence \in Procs \cup {Nothing})' /\ (ops \in [Accounts \X Keys -> BOOLEAN])'
      /\ (req \in [Procs -> UserRequests])'
      /\ FenceInv' /\ RequestInv' /\ NoRowInv' /\ AdminRemains'
  BY <1>5, <1>6, <1>7, IdleOK, RequestStep
<1>9. (tokens \subseteq Tokens)' /\ (issued \in Nat)'
  BY <1>3, <1>5 DEF UsersInv, UsersTypeOK
<1>10. TokenInv'
  BY <1>4, <1>5 DEF UsersInv, TokenInv, TokenOK
<1> QED BY <1>8, <1>9, <1>10 DEF UsersInv, UsersTypeOK

LEMMA LogoutStep ==
    ASSUME UsersInv, NEW t \in tokens, Logout(t)
    PROVE  UsersInv'
<1>1. tokens' \subseteq tokens /\ UNCHANGED <<users, booted, fence, ops, req, issued>>
  BY DEF Logout
<1>2. UsersTypeOK' /\ TokenInv'
  BY <1>1 DEF UsersInv, UsersTypeOK, TokenInv, TokenOK
<1>3. FenceInv' /\ NoRowInv' /\ AdminRemains'
  BY <1>1 DEF UsersInv, FenceInv, Holds, NoRowInv, AdminRemains, EnabledAdmin
<1>4. RequestInv'
  BY <1>1 DEF UsersInv, RequestInv, RequestOK, LoginOK, CarriedOK, HolderOK, WriteOK, Earlier,
     Later,
              EnabledAdmin
<1> QED BY <1>2, <1>3, <1>4 DEF UsersInv

LEMMA ReceiveStep ==
    ASSUME UsersInv, NEW p \in Procs, NEW t \in tokens, NEW u \in Accounts, NEW k \in Keys,
           NEW body \in Bodies, ReceiveRequest(p, t, u, k, body)
    PROVE  UsersInv'
<1> DEFINE q == [at |-> "authenticated", actor |-> t.user, target |-> u, key |-> <<t.user, k>>,
                 body |-> body, row |-> users[u].row, user |-> NoUser]
<1>1. users[u].row \in Nat /\ t.user \in Accounts
  BY DEF UsersInv, UsersTypeOK, Rows, Tokens
<1>2. /\ q \in UserRequests /\ q.at = "authenticated" /\ q.actor \in Accounts /\ q.target \in Accounts
      /\ q.key \in Accounts \X Keys /\ q.body \in Bodies
  BY <1>1, NoUserOK DEF UserRequests, Operations
<1>3. /\ req' = [req EXCEPT ![p] = q] /\ ~Holds(p)
      /\ UNCHANGED <<users, booted, fence, ops, tokens, issued>>
  BY DEF ReceiveRequest, Holds
<1> HIDE DEF q
<1>5. RequestOK(q)
  BY <1>2 DEF RequestOK, LoginOK, CarriedOK, HolderOK, WriteOK
<1>6. \A r \in Procs : Holds(r) => fence' = r
  BY <1>3 DEF UsersInv, FenceInv
<1>7. fence' \in Procs \cup {Nothing} /\ ~(q.at \in {"fenced", "decided"})
  BY <1>2, <1>3 DEF UsersInv, UsersTypeOK
<1>8. /\ (users \in [Accounts -> Rows])' /\ (booted \in Accounts \cup {Nothing})'
      /\ (fence \in Procs \cup {Nothing})' /\ (ops \in [Accounts \X Keys -> BOOLEAN])'
      /\ (req \in [Procs -> UserRequests])'
      /\ FenceInv' /\ RequestInv' /\ NoRowInv' /\ AdminRemains'
  BY <1>2, <1>3, <1>5, <1>6, <1>7, RequestStep
<1>9. (tokens \subseteq Tokens)' /\ (issued \in Nat)' /\ TokenInv'
  BY <1>3 DEF UsersInv, UsersTypeOK, TokenInv, TokenOK
<1> QED BY <1>8, <1>9 DEF UsersInv, UsersTypeOK

\* The request ends without a write, and gives the fence back when it had it.
LEMMA EndStep ==
    ASSUME Nothing \notin Procs, UsersInv, NEW p \in Procs,
           req' = [req EXCEPT ![p] = Idle], fence' = Released(p),
           UNCHANGED <<users, booted, ops, tokens, issued>>
    PROVE  UsersInv'
<1>3. UNCHANGED <<users, booted, ops, tokens, issued>>
  OBVIOUS
<1>6. \A r \in Procs : r # p /\ Holds(r) => fence' = r
  BY DEF UsersInv, FenceInv, Released
<1>7. fence' \in Procs \cup {Nothing}
  BY DEF UsersInv, UsersTypeOK, Released
<1>8. /\ (users \in [Accounts -> Rows])' /\ (booted \in Accounts \cup {Nothing})'
      /\ (fence \in Procs \cup {Nothing})' /\ (ops \in [Accounts \X Keys -> BOOLEAN])'
      /\ (req \in [Procs -> UserRequests])'
      /\ FenceInv' /\ RequestInv' /\ NoRowInv' /\ AdminRemains'
  BY <1>6, <1>7, IdleOK, RequestStep
<1>9. (tokens \subseteq Tokens)' /\ (issued \in Nat)' /\ TokenInv'
  BY <1>3 DEF UsersInv, UsersTypeOK, TokenInv, TokenOK
<1> QED BY <1>8, <1>9 DEF UsersInv, UsersTypeOK

LEMMA LifecycleFenceStep ==
    ASSUME Nothing \notin Procs, UsersInv, NEW p \in Procs, LifecycleFence(p)
    PROVE  UsersInv'
<1> DEFINE q == Moved(req[p], "fenced", NoUser)
<1>0. req[p] \in UserRequests /\ req[p].at = "authenticated" /\ RequestOK(req[p]) /\ fence = Nothing
  BY DEF LifecycleFence, UsersInv, UsersTypeOK, RequestInv
<1>3. UNCHANGED <<users, booted, ops, tokens, issued>>
  BY DEF LifecycleFence
<1>a. CASE ~EnabledAdmin(req[p].actor)
  <2>1. req' = [req EXCEPT ![p] = Idle] /\ fence' = Released(p)
    BY <1>0, <1>a DEF LifecycleFence, Released
  <2> QED BY <1>3, <2>1, EndStep
<1>b. CASE EnabledAdmin(req[p].actor)
  <2>1. req' = [req EXCEPT ![p] = q] /\ fence' = p
    BY <1>b DEF LifecycleFence
  <2>2. /\ q \in UserRequests /\ q.at = "fenced" /\ q.actor = req[p].actor /\ q.target = req[p].target
        /\ q.key = req[p].key /\ q.body = req[p].body
    BY <1>0, NoUserOK DEF Moved, UserRequests
  <2> HIDE DEF q
  <2>3. RequestOK(q)
    BY <1>0, <1>b, <2>2 DEF RequestOK, LoginOK, CarriedOK, HolderOK, WriteOK
  <2>4. \A r \in Procs : ~Holds(r)
    BY <1>0 DEF UsersInv, FenceInv
  <2>5. fence' \in Procs \cup {Nothing}
    BY <2>1
  <2>8. /\ (users \in [Accounts -> Rows])' /\ (booted \in Accounts \cup {Nothing})'
        /\ (fence \in Procs \cup {Nothing})' /\ (ops \in [Accounts \X Keys -> BOOLEAN])'
        /\ (req \in [Procs -> UserRequests])'
        /\ FenceInv' /\ RequestInv' /\ NoRowInv' /\ AdminRemains'
    BY <1>3, <2>1, <2>2, <2>3, <2>4, <2>5, RequestStep
  <2>9. (tokens \subseteq Tokens)' /\ (issued \in Nat)' /\ TokenInv'
    BY <1>3 DEF UsersInv, UsersTypeOK, TokenInv, TokenOK
  <2> QED BY <2>8, <2>9 DEF UsersInv, UsersTypeOK
<1> QED BY <1>a, <1>b

LEMMA DecideStep ==
    ASSUME Nothing \notin Procs, UsersInv, NEW p \in Procs, Decide(p)
    PROVE  UsersInv'
<1> DEFINE q == Moved(req[p], "decided", Written(req[p]))
<1>0. req[p] \in UserRequests /\ req[p].at = "fenced" /\ RequestOK(req[p]) /\ fence = p
  BY DEF Decide, UsersInv, UsersTypeOK, RequestInv, FenceInv, Holds
<1>3. UNCHANGED <<users, booted, ops, tokens, issued>>
  BY DEF Decide
<1>a. CASE ~May(req[p])
  <2>1. req' = [req EXCEPT ![p] = Idle] /\ fence' = Released(p)
    BY <1>a DEF Decide
  <2> QED BY <1>3, <2>1, EndStep
<1>b. CASE May(req[p])
  <2>1. req' = [req EXCEPT ![p] = q] /\ fence' = p
    BY <1>0, <1>b DEF Decide
  <2>2. /\ req[p].target \in Accounts /\ req[p].actor \in Accounts /\ req[p].body \in Bodies
        /\ req[p].key \in Accounts \X Keys /\ EnabledAdmin(req[p].actor)
    BY <1>0 DEF RequestOK, CarriedOK, HolderOK
  <2>3. /\ Written(req[p]) \in Rows /\ Later(Written(req[p]), req[p].target)
        /\ Written(req[p]).role # "none"
        /\ req[p].target = req[p].actor =>
              Written(req[p]).role = "admin" /\ ~Written(req[p]).disabled
    BY <1>0, <1>b, <2>2, WrittenIsLater DEF UsersInv
  <2>4. /\ q \in UserRequests /\ q.at = "decided" /\ q.actor = req[p].actor /\ q.target = req[p].target
        /\ q.key = req[p].key /\ q.body = req[p].body /\ q.user = Written(req[p])
    BY <1>0, <2>3 DEF Moved, UserRequests
  <2> HIDE DEF q
  <2>5. RequestOK(q)
    BY <2>2, <2>3, <2>4 DEF RequestOK, LoginOK, CarriedOK, HolderOK, WriteOK
  <2>6. \A r \in Procs : r # p => ~Holds(r)
    BY <1>0 DEF UsersInv, FenceInv
  <2>7. fence' \in Procs \cup {Nothing}
    BY <2>1
  <2>8. /\ (users \in [Accounts -> Rows])' /\ (booted \in Accounts \cup {Nothing})'
        /\ (fence \in Procs \cup {Nothing})' /\ (ops \in [Accounts \X Keys -> BOOLEAN])'
        /\ (req \in [Procs -> UserRequests])'
        /\ FenceInv' /\ RequestInv' /\ NoRowInv' /\ AdminRemains'
    BY <1>3, <2>1, <2>4, <2>5, <2>6, <2>7, RequestStep
  <2>9. (tokens \subseteq Tokens)' /\ (issued \in Nat)' /\ TokenInv'
    BY <1>3 DEF UsersInv, UsersTypeOK, TokenInv, TokenOK
  <2> QED BY <2>8, <2>9 DEF UsersInv, UsersTypeOK
<1> QED BY <1>a, <1>b

LEMMA AbortStep ==
    ASSUME Nothing \notin Procs, UsersInv, NEW p \in Procs, Abort(p)
    PROVE  UsersInv'
BY EndStep DEF Abort

-----------------------------------------------------------------------------
LEMMA NextUsersInv ==
    ASSUME Nothing \notin Procs, UsersInv, [UsersNext]_userVars
    PROVE  UsersInv'
<1>1. CASE UNCHANGED userVars
  <2>1. UsersTypeOK' /\ TokenInv' /\ FenceInv' /\ NoRowInv' /\ AdminRemains'
    BY <1>1 DEF userVars, UsersInv, UsersTypeOK, TokenInv, TokenOK, FenceInv, Holds, NoRowInv,
       AdminRemains,
                EnabledAdmin
  <2>2. RequestInv'
    BY <1>1 DEF userVars, UsersInv, RequestInv, RequestOK, LoginOK, CarriedOK, HolderOK, WriteOK,
       Earlier,
                Later, EnabledAdmin
  <2> QED BY <2>1, <2>2 DEF UsersInv
<1>2. ASSUME NEW u \in Accounts, NEW pw \in Passwords, Bootstrap(u, pw) PROVE UsersInv'
  BY <1>2, BootstrapStep
<1>3. ASSUME NEW t \in tokens, Logout(t) PROVE UsersInv'
  BY <1>3, LogoutStep
<1>4. ASSUME NEW p \in Procs, IssueToken(p) \/ LifecycleFence(p) \/ Decide(p) \/ Commit(p) \/ Abort(p)
      PROVE UsersInv'
  BY <1>4, IssueTokenStep, LifecycleFenceStep, DecideStep, CommitStep, AbortStep
<1>5. ASSUME NEW p \in Procs, NEW u \in Accounts, Login(p, u) PROVE UsersInv'
  BY <1>5, LoginStep
<1>6. ASSUME NEW p \in Procs, NEW t \in tokens, NEW u \in Accounts, NEW k \in Keys,
             NEW b \in Bodies, ReceiveRequest(p, t, u, k, b)
      PROVE UsersInv'
  BY <1>6, ReceiveStep
<1> QED BY <1>1, <1>2, <1>3, <1>4, <1>5, <1>6 DEF UsersNext

\* Whatever logins, lifecycle requests and crashes overlap, an enabled administrator
\* remains once there was one, and a session that require_user_auth accepts was opened
\* with the present password and the present role of its user.
THEOREM AuthorityStaysCurrent ==
    ASSUME Nothing \notin Procs
    PROVE  UsersSpec => []AuthorityIsCurrent
<1>1. UsersInv => AuthorityIsCurrent
  BY DEF UsersInv, AuthorityIsCurrent, LiveTokenIsCurrent, Live, TokenInv, TokenOK
<1>2. UsersInv /\ [UsersNext]_userVars => UsersInv'
  BY NextUsersInv
<1> QED BY <1>1, <1>2, InitUsersInv, PTL DEF UsersSpec

-----------------------------------------------------------------------------
(***************************************************************************)
(* SecretProjection: `current` always names a whole generation and a       *)
(* projection is all or nothing, for any number of profiles, runs, failed  *)
(* system calls and kills.  Until the first switch every link is the one   *)
(* the run began with; from then on the links before the profile at hand   *)
(* have one value and those behind it the other, in both directions of     *)
(* travel (TravelOK), and both ends stay whole until the run removes one   *)
(* of them.  What it removes is named by no link: its own generation once  *)
(* every link is back, the previous ones once every link has moved         *)
(* (RemovalOK).  All of this is lost when a switched link could not be     *)
(* read back, hence the condition.                                         *)
(***************************************************************************)

Switching == step \in {"link", "replace", "sync"}

NumbersOK ==
    /\ \A p \in Profiles : link[p] <= run
    /\ step # "off" => outcome = "running" /\ \A p \in Profiles : before[p] < run

StagingOK ==
    step \in {"read", "root", "write"} =>
        /\ ~undoing /\ link = before /\ (step = "read" => at = 1)
        /\ step # "read" =>
            \A p \in Profiles : p < at \/ (p = at /\ step = "write") =>
                prev[p] = before[p] /\ (p < at => run \in whole[p])

EndsWhole ==
    Switching => \A p \in Profiles :
        /\ prev[p] = before[p] /\ run \in whole[p]
        /\ before[p] # NoGeneration => before[p] \in whole[p]

\* The profiles that name the new generation.
Travelled(p) == p < at \/ (p = at /\ (step = "sync") # undoing)

TravelOK == Switching => \A p \in Profiles : link[p] = IF Travelled(p) THEN run ELSE before[p]

RemovalOK ==
    /\ step = "discard" => link = before
    /\ step = "retire" => \A p \in Profiles : link[p] = run /\ prev[p] < run

Good ==
    /\ NumbersOK /\ StagingOK /\ EndsWhole /\ TravelOK /\ RemovalOK
    /\ \A p \in Profiles : CurrentValid(p)
    /\ outcome = "published" => \A p \in Profiles : link[p] = run
    /\ outcome = "undone" => link = before

ProjectionInv == ProjectionTypeOK /\ (~blind => Good)

-----------------------------------------------------------------------------
LEMMA InitProjectionInv == ProjectionInit => ProjectionInv
<1> SUFFICES ASSUME ProjectionInit PROVE ProjectionInv
  OBVIOUS
<1>1. ProjectionTypeOK
  <2>1. 1 \in Profiles /\ 0 \in 0..MaxRuns /\ 0 \in 0..MaxErrors
    BY ProjectionAssumption DEF Profiles
  <2> QED
    BY <2>1 DEF ProjectionInit, ProjectionTypeOK, NoGeneration
<1>2. Good
  BY ProjectionAssumption DEF ProjectionInit, Good, NumbersOK, StagingOK, EndsWhole, TravelOK,
     RemovalOK,
    Switching, CurrentValid, Profiles, NoGeneration
<1> QED
  BY <1>1, <1>2 DEF ProjectionInv

LEMMA TypeStep == ProjectionTypeOK /\ [ProjectionNext]_projectionVars => ProjectionTypeOK'
<1> SUFFICES ASSUME ProjectionTypeOK, [ProjectionNext]_projectionVars PROVE ProjectionTypeOK'
  OBVIOUS
<1> USE ProjectionAssumption DEF ProjectionTypeOK, Profiles, Generations, NoGeneration
<1>1. CASE BeginRun
  <2>1. run' \in 0..MaxRuns /\ run' > 0 /\ at' \in 1..NProfiles
    BY <1>1 DEF BeginRun
  <2> QED
    BY <1>1, <2>1 DEF BeginRun, disk
<1>2. CASE ReadSources
  BY <1>2 DEF ReadSources, disk
<1>3. CASE RefuseSources
  BY <1>3 DEF RefuseSources, disk, End
<1>4. CASE SweepOne
  BY ZenonT(40), <1>4 DEF SweepOne, disk, CurrentValid, Stale
<1>5. CASE MakeGeneration
  BY <1>5 DEF MakeGeneration, disk, CurrentValid
<1>6. CASE WriteGeneration
  BY <1>6 DEF WriteGeneration, disk
<1>7. CASE StagingFails
  BY <1>7 DEF StagingFails, disk, Error
<1>8. CASE LinkTemporary
  BY <1>8 DEF LinkTemporary, disk, Target
<1>9. CASE ReplaceCurrent
  BY <1>9 DEF ReplaceCurrent, disk, Target
<1>10. CASE UnlinkCurrent
  BY <1>10 DEF UnlinkCurrent, disk, Target
<1>11. CASE SyncRoot
  <2>1. at' \in 1..NProfiles
    BY <1>11 DEF SyncRoot
  <2>2. left' \subseteq 1..NProfiles
    BY <1>11 DEF SyncRoot
  <2>3. step' \in {"link", "discard", "retire"} /\ run > 0
    BY <1>11 DEF SyncRoot
  <2> QED
    BY <1>11, <2>1, <2>2, <2>3 DEF SyncRoot, disk
<1>12. CASE ActivationFails
  <2>1. at' \in 1..NProfiles
    BY <1>12 DEF ActivationFails, RollBack
  <2>2. left' \subseteq 1..NProfiles /\ temps' \subseteq 1..NProfiles
    BY <1>12 DEF ActivationFails, RollBack
  <2>3. step' \in {"link", "discard"} /\ run > 0 /\ undoing' = TRUE
    BY <1>12 DEF ActivationFails, RollBack
  <2>4. errors' \in 0..MaxErrors
    BY <1>12 DEF ActivationFails, Error
  <2>5. blind' \in BOOLEAN
    BY <1>12, Zenon DEF ActivationFails
  <2> QED
    BY <1>12, <2>1, <2>2, <2>3, <2>4, <2>5 DEF ActivationFails
<1>13. CASE RollbackFails
  BY <1>13 DEF RollbackFails, disk, Error, End
<1>14. CASE RemoveOne
  BY <1>14 DEF RemoveOne, disk, Doomed
<1>15. CASE RemovalFails
  BY <1>15 DEF RemovalFails, disk, Error, End, Failure, Doomed
<1>16. CASE EndRun
  BY <1>16 DEF EndRun, disk, End
<1>17. CASE KillContainer
  BY <1>17 DEF KillContainer, disk, End, Doomed, Stale, CurrentValid
<1>18. CASE UNCHANGED projectionVars
  BY <1>18 DEF projectionVars
<1> QED
  BY <1>1, <1>2, <1>3, <1>4, <1>5, <1>6, <1>7, <1>8, <1>9, <1>10, <1>11, <1>12, <1>13, <1>14, <1>15,
     <1>16, <1>17, <1>18 DEF ProjectionNext

\* No step of the code makes an unread link readable again.
LEMMA BlindStep == [ProjectionNext]_projectionVars /\ ~blind' /\ ProjectionTypeOK => ~blind
  BY DEF ProjectionNext, projectionVars, ProjectionTypeOK, BeginRun, ReadSources, RefuseSources,
     SweepOne,
    MakeGeneration, WriteGeneration, StagingFails, LinkTemporary, ReplaceCurrent, UnlinkCurrent, SyncRoot,
    ActivationFails, RollbackFails, RemoveOne, RemovalFails, EndRun, KillContainer

LEMMA GoodStep ==
    ProjectionTypeOK /\ ProjectionTypeOK' /\ Good /\ ~blind' /\ [ProjectionNext]_projectionVars => Good'
<1> SUFFICES ASSUME ProjectionTypeOK, ProjectionTypeOK', Good, ~blind', [ProjectionNext]_projectionVars PROVE Good'
  OBVIOUS
<1> USE ProjectionAssumption DEF ProjectionTypeOK, Profiles, Generations, NoGeneration,
      Good, NumbersOK, StagingOK, EndsWhole, TravelOK, RemovalOK, Switching, Travelled, CurrentValid
<1>1. CASE BeginRun
  <2>1. step' = "read" /\ run' = run + 1 /\ before' = link /\ link' = link /\ whole' = whole /\ at' = 1
        /\ outcome' = "running" /\ undoing' = FALSE
    BY <1>1 DEF BeginRun, disk
  <2>2. \A p \in Profiles : link'[p] <= run' /\ before'[p] < run'
    BY SMTT(30), <2>1
  <2> QED
    BY <2>1, <2>2
<1>2. CASE ReadSources
  BY <1>2 DEF ReadSources, disk
<1>3. CASE RefuseSources
  BY <1>3 DEF RefuseSources, disk, End
<1>4. CASE SweepOne
  BY <1>4 DEF SweepOne, disk, Stale
<1>5. CASE MakeGeneration
  BY <1>5 DEF MakeGeneration, disk
<1>6. CASE WriteGeneration
  BY <1>6 DEF WriteGeneration, disk
<1>7. CASE StagingFails
  BY <1>7 DEF StagingFails, disk, Error
<1>8. CASE LinkTemporary
  BY <1>8 DEF LinkTemporary, disk, Target
<1>9. CASE ReplaceCurrent
  BY <1>9 DEF ReplaceCurrent, disk, Target
<1>10. CASE UnlinkCurrent
  BY <1>10 DEF UnlinkCurrent, disk, Target
<1>11. CASE SyncRoot
  BY <1>11 DEF SyncRoot, disk
<1>12. CASE ActivationFails
  BY <1>12 DEF ActivationFails, disk, Error, RollBack
<1>13. CASE RollbackFails
  BY <1>13 DEF RollbackFails, disk, Error, End
<1>14. CASE RemoveOne
  BY <1>14 DEF RemoveOne, disk, Doomed
<1>15. CASE RemovalFails
  BY <1>15 DEF RemovalFails, disk, Error, End, Failure, Doomed
<1>16. CASE EndRun
  BY <1>16 DEF EndRun, disk, End
<1>17. CASE KillContainer
  BY <1>17 DEF KillContainer, disk, End, Doomed, Stale
<1>18. CASE UNCHANGED projectionVars
  BY <1>18 DEF projectionVars
<1> QED
  BY <1>1, <1>2, <1>3, <1>4, <1>5, <1>6, <1>7, <1>8, <1>9, <1>10, <1>11, <1>12, <1>13, <1>14, <1>15,
     <1>16, <1>17, <1>18 DEF ProjectionNext

LEMMA ProjectionInvariant == ProjectionSpec => []ProjectionInv
<1>1. ProjectionInv /\ [ProjectionNext]_projectionVars => ProjectionInv'
  BY TypeStep, BlindStep, GoodStep DEF ProjectionInv
<1> QED
  BY <1>1, InitProjectionInv, PTL DEF ProjectionSpec

\* The services always read a whole generation, for any number of profiles, runs and
\* errors and wherever a run is killed.
THEOREM CurrentStaysWhole == ProjectionSpec => []CurrentIsWhole
<1>1. ProjectionInv => CurrentIsWhole
  BY DEF ProjectionInv, Good, CurrentIsWhole
<1> QED
  BY <1>1, ProjectionInvariant, PTL

\* A projection that reports success has moved every profile to one read of the sources;
\* one that failed and was rolled back has moved none.
THEOREM ProjectionIsAllOrNothing == ProjectionSpec => []AllOrNothing
<1>1. ProjectionInv => AllOrNothing
  BY DEF ProjectionInv, Good, AllOrNothing
<1> QED
  BY <1>1, ProjectionInvariant, PTL
=============================================================================
