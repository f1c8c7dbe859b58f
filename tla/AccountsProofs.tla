----------------------------- MODULE AccountsProofs ------------------------------
(***************************************************************************)
(* Theorems about the operator account, for every number of concurrent     *)
(* requests, every throttle and every bound on sessions, time and faults.  *)
(***************************************************************************)
EXTENDS Accounts, FiniteSetTheorems, TLAPS

SetupLabels == {"setup.token", "setup.create", "setup.spend"}
PatchLabels == {"patch", "patch.revoke", "patch.rotate"}
Labels == {"idle", "login.read", "login.verify", "issue"} \union SetupLabels \union PatchLabels
Handlers == [pc : Labels, pw : 0 .. 1, sid : Nat, at : Nat, now : Nat]
SessionRows == [live : BOOLEAN, pw : 0 .. 1]

(* Session ids are handed out in order: those issued so far are 1 .. n.    *)
IssuedUpTo(n) == n \in 0 .. MaxSessions /\ sessions \in [1 .. n -> SessionRows]

(* The shapes of the account's state.                                      *)
Shapes ==
    /\ users \in Nat
    /\ account \in [pw : 0 .. 1]
    /\ \E n \in Nat : IssuedUpTo(n)
    /\ \A t \in DOMAIN tokens : tokens[t] \in {"live", "revoked"}
    /\ gate \in [done : BOOLEAN, token : BOOLEAN, held : BOOLEAN]
    /\ request \in [AcctRequests -> Handlers]
    /\ acctFaults \in 0 .. MaxFaults

(* setupMu: a request past the gate check holds it, alone; until it has    *)
(* inserted the operator there is none.                                    *)
SetupAlone ==
    /\ users <= 1
    /\ \A r \in AcctRequests : request[r].pc \in SetupLabels =>
         /\ gate.held
         /\ \A q \in AcctRequests : request[q].pc \in SetupLabels => q = r
         /\ request[r].pc # "setup.spend" => users = 0

(* The bucket's arithmetic: the credit of a source and the attempts it has *)
(* made are together within its capacity and what it has earned since.     *)
BucketBalanced ==
    /\ clock \in 0 .. MaxTime
    /\ admitted \in Nat
    /\ throttle \in [eligible : Nat, failures : 0 .. MaxFailures,
                     bucket : [credit : 0 .. Capacity, at : Nat]]
    /\ throttle.eligible <= clock + BackoffCap
    /\ throttle.bucket.at <= clock
    /\ admitted + throttle.bucket.credit <= Capacity + throttle.bucket.at
    /\ \A r \in AcctRequests : request[r].now <= clock

(* The sessions a PATCH has to revoke exist since it was authenticated,    *)
(* and once it goes on to rotate they are revoked.                         *)
PatchRevoked ==
    \A r \in AcctRequests : request[r].pc \in PatchLabels =>
        /\ 1 .. request[r].at \subseteq DOMAIN sessions
        /\ request[r].pc = "patch.rotate" =>
             \A s \in 1 .. request[r].at : sessions[s].live => s = request[r].sid

AcctInv == Shapes /\ SetupAlone /\ BucketBalanced /\ PatchRevoked

--------------------------------------------------------------------------------
LEMMA AcctInitInv == AcctInit => AcctInv
<1> SUFFICES ASSUME AcctInit PROVE AcctInv
    OBVIOUS
<1> USE AccountAssumption DEF AcctInit, Idle
<1>1. Shapes
  <2>1. IssuedUpTo(0)
      BY DEF IssuedUpTo
  <2>2. request \in [AcctRequests -> Handlers] /\ account \in [pw : 0 .. 1]
      BY DEF Handlers, Labels
  <2>3. gate \in [done : BOOLEAN, token : BOOLEAN, held : BOOLEAN]
      OBVIOUS
  <2> QED
      BY <2>1, <2>2, <2>3 DEF Shapes
<1>2. SetupAlone /\ PatchRevoked
    BY DEF SetupAlone, PatchRevoked, SetupLabels, PatchLabels
<1>3. BucketBalanced
    BY DEF BucketBalanced, NewThrottle, FullBucket
<1> QED
    BY <1>1, <1>2, <1>3 DEF AcctInv

--------------------------------------------------------------------------------

(* A request's own entry after each of its steps; the others keep theirs.  *)
Moved(r, pc) ==
    /\ request' \in [AcctRequests -> Handlers]
    /\ request'[r].pc = pc
    /\ \A q \in AcctRequests \ {r} : request'[q] = request[q]

LEMMA GoMoves ==
    ASSUME Shapes, NEW r \in AcctRequests, NEW pc \in Labels, RGo(r, pc)
    PROVE  /\ Moved(r, pc)
           /\ request'[r].at = request[r].at /\ request'[r].sid = request[r].sid
           /\ request'[r].now = request[r].now
BY DEF Shapes, RGo, Handlers, Moved

LEMMA EndMoves ==
    ASSUME Shapes, NEW r \in AcctRequests, REnd(r)
    PROVE  Moved(r, "idle") /\ request'[r].now = 0
BY DEF Shapes, REnd, Handlers, Idle, Labels, Moved

LEMMA PasswordMoves ==
    ASSUME Shapes, NEW r \in AcctRequests, NEW pc \in {"login.verify", "issue"}, NEW w \in 0 .. 1,
           request' = [request EXCEPT ![r].pc = pc, ![r].pw = w]
    PROVE  Moved(r, pc) /\ request'[r].now = request[r].now
<1> DEFINE q == [request[r] EXCEPT !.pc = pc, !.pw = w]
<1>1. request \in [AcctRequests -> Handlers] /\ request[r] \in Handlers
    BY DEF Shapes
<1>2. request' = [request EXCEPT ![r] = q] /\ pc \in Labels
    BY DEF Labels
<1>3. q \in Handlers /\ q.pc = pc /\ q.now = request[r].now
    BY <1>1, <1>2 DEF Handlers
<1> HIDE DEF q
<1> QED
    BY <1>1, <1>2, <1>3 DEF Moved

(* Which label each step of a request leaves it at.                        *)
LEMMA SetupMoves ==
    ASSUME Shapes, NEW r \in AcctRequests
    PROVE  /\ SetupBegin(r) => request' = request \/ (Moved(r, "setup.token") /\ request'[r].now = request[r].now)
           /\ SetupToken(r) => \/ Moved(r, "idle") /\ request'[r].now = 0
                               \/ Moved(r, "setup.create") /\ request'[r].now = request[r].now
           /\ SetupCreate(r) => Moved(r, "setup.spend") /\ request'[r].now = request[r].now
           /\ SetupSpend(r) => Moved(r, "issue") /\ request'[r].now = request[r].now
<1>1. SetupBegin(r) => request' = request \/ (Moved(r, "setup.token") /\ request'[r].now = request[r].now)
    BY GoMoves DEF SetupBegin, Labels, SetupLabels
<1>2. SetupToken(r) => \/ Moved(r, "idle") /\ request'[r].now = 0
                       \/ Moved(r, "setup.create") /\ request'[r].now = request[r].now
    BY GoMoves, EndMoves DEF SetupToken, Labels, SetupLabels
<1>3. SetupCreate(r) => Moved(r, "setup.spend") /\ request'[r].now = request[r].now
    BY GoMoves DEF SetupCreate, Labels, SetupLabels
<1>4. SetupSpend(r) => Moved(r, "issue") /\ request'[r].now = request[r].now
    BY PasswordMoves DEF SetupSpend, Shapes
<1> QED
    BY <1>1, <1>2, <1>3, <1>4

LEMMA LoginMoves ==
    ASSUME Shapes, clock \in Nat, NEW r \in AcctRequests
    PROVE  /\ LoginBegin(r) => request' = request \/ (Moved(r, "login.read") /\ request'[r].now = clock)
           /\ LoginRead(r) => Moved(r, "login.verify") /\ request'[r].now = request[r].now
           /\ LoginVerify(r) => \/ Moved(r, "idle") /\ request'[r].now = 0
                                \/ Moved(r, "issue") /\ request'[r].now = request[r].now
           /\ issueSession(r) => Moved(r, "idle") /\ request'[r].now = 0
<1>1. LoginBegin(r) => request' = request \/ (Moved(r, "login.read") /\ request'[r].now = clock)
    BY DEF LoginBegin, Shapes, Handlers, Labels, Moved
<1>2. LoginRead(r) => Moved(r, "login.verify") /\ request'[r].now = request[r].now
    BY PasswordMoves DEF LoginRead, Shapes
<1>3. LoginVerify(r) => \/ Moved(r, "idle") /\ request'[r].now = 0
                        \/ Moved(r, "issue") /\ request'[r].now = request[r].now
    BY GoMoves, EndMoves DEF LoginVerify, Labels
<1>4. issueSession(r) => Moved(r, "idle") /\ request'[r].now = 0
    BY EndMoves DEF issueSession
<1> QED
    BY <1>1, <1>2, <1>3, <1>4

LEMMA IssuedCount == ASSUME NEW n \in Nat, IssuedUpTo(n) PROVE Cardinality(DOMAIN sessions) = n
<1>1. DOMAIN sessions = 1 .. n
    BY DEF IssuedUpTo
<1> QED
    BY <1>1, FS_Interval

LEMMA PatchMoves ==
    ASSUME Shapes, NEW r \in AcctRequests
    PROVE  /\ \A s \in {0} \union Ids : PatchBegin(r, s) =>
                /\ Moved(r, "patch") /\ request'[r].now = 0
                /\ request'[r].at = Cardinality(DOMAIN sessions)
           /\ PatchProfile(r) =>
                \/ Moved(r, "idle") /\ request'[r].now = 0
                \/ /\ Moved(r, "patch.revoke") /\ request'[r].now = request[r].now
                   /\ request'[r].at = request[r].at
           /\ PatchRevoke(r) =>
                /\ Moved(r, "patch.rotate") /\ request'[r].now = request[r].now
                /\ request'[r].at = request[r].at /\ request'[r].sid = request[r].sid
           /\ PatchRotate(r) => Moved(r, "idle") /\ request'[r].now = 0
<1>1. ASSUME NEW s \in {0} \union Ids, PatchBegin(r, s)
      PROVE  /\ Moved(r, "patch") /\ request'[r].now = 0
             /\ request'[r].at = Cardinality(DOMAIN sessions)
  <2>1. Cardinality(DOMAIN sessions) \in Nat
      BY IssuedCount DEF Shapes
  <2>2. s \in Nat
      BY DEF Ids
  <2>3. Idle \in Handlers /\ Idle.now = 0
      BY DEF Idle, Handlers, Labels
  <2>4. PICK v : v = [Idle EXCEPT !.pc = "patch", !.sid = s, !.at = Cardinality(DOMAIN sessions)]
      OBVIOUS
  <2>5. v \in Handlers /\ v.pc = "patch" /\ v.now = Idle.now /\ v.at = Cardinality(DOMAIN sessions)
      BY <2>1, <2>2, <2>3, <2>4 DEF Handlers, Labels, PatchLabels
  <2>6. request' = [request EXCEPT ![r] = v]
      BY <1>1, <2>4 DEF PatchBegin
  <2> QED
      BY <2>3, <2>5, <2>6 DEF Shapes, Moved
<1>2. PatchProfile(r) =>
        \/ Moved(r, "idle") /\ request'[r].now = 0
        \/ /\ Moved(r, "patch.revoke") /\ request'[r].now = request[r].now
           /\ request'[r].at = request[r].at
    BY GoMoves, EndMoves DEF PatchProfile, Labels, PatchLabels
<1>3. PatchRevoke(r) =>
        /\ Moved(r, "patch.rotate") /\ request'[r].now = request[r].now
        /\ request'[r].at = request[r].at /\ request'[r].sid = request[r].sid
    BY GoMoves DEF PatchRevoke, Labels, PatchLabels
<1>4. PatchRotate(r) => Moved(r, "idle") /\ request'[r].now = 0
    BY EndMoves DEF PatchRotate
<1> QED
    BY <1>1, <1>2, <1>3, <1>4

--------------------------------------------------------------------------------
(* A session is revoked, or the next id is issued; none comes back to      *)
(* life.                                                                   *)
SessionsFollow ==
    /\ \E n \in Nat : IssuedUpTo(n)'
    /\ DOMAIN sessions \subseteq DOMAIN sessions'
    /\ \A s \in DOMAIN sessions : sessions'[s].live => sessions[s].live

LEMMA SameSessions == ASSUME Shapes, UNCHANGED sessions PROVE SessionsFollow
BY DEF Shapes, SessionsFollow, IssuedUpTo

LEMMA IssueFollows ==
    ASSUME Shapes, NEW r \in AcctRequests, issueSession(r)
    PROVE  SessionsFollow
<1>1. PICK n \in Nat : IssuedUpTo(n)
    BY DEF Shapes
<1>2. n < MaxSessions /\ n + 1 \in Ids /\ DOMAIN sessions = 1 .. n
    BY <1>1, IssuedCount, AccountAssumption DEF issueSession, IssuedUpTo, Ids
<1>3. PICK s \in Ids \ DOMAIN sessions :
        /\ \A q \in Ids \ DOMAIN sessions : s <= q
        /\ sessions' = [i \in DOMAIN sessions \union {s} |->
              IF i = s THEN [live |-> TRUE, pw |-> request[r].pw] ELSE sessions[i]]
    BY DEF issueSession
<1>4. s = n + 1
    BY <1>2, <1>3 DEF Ids
<1>5. DOMAIN sessions \union {s} = 1 .. n + 1
    BY <1>2, <1>4
<1>6. request[r].pw \in 0 .. 1
    BY DEF Shapes, Handlers
<1>7. sessions' \in [1 .. n + 1 -> SessionRows]
    BY <1>1, <1>3, <1>5, <1>6 DEF IssuedUpTo, SessionRows
<1>8. IssuedUpTo(n + 1)'
    BY <1>2, <1>7, AccountAssumption DEF IssuedUpTo
<1> QED
    BY <1>2, <1>3, <1>5, <1>8 DEF SessionsFollow

LEMMA LogoutFollows ==
    ASSUME Shapes, NEW s \in {0} \union Ids, handleLogout(s)
    PROVE  SessionsFollow
<1>1. PICK n \in Nat : IssuedUpTo(n)
    BY DEF Shapes
<1>2. CASE s = 0
    BY <1>2, SameSessions DEF handleLogout
<1>3. CASE s # 0
  <2>1. s \in DOMAIN sessions /\ sessions' = [sessions EXCEPT ![s].live = FALSE]
      BY <1>3 DEF handleLogout, resolveIdentity, LiveSession
  <2>2. sessions' \in [1 .. n -> SessionRows]
      BY <1>1, <2>1 DEF IssuedUpTo, SessionRows
  <2> QED
      BY <1>1, <2>1, <2>2 DEF IssuedUpTo, SessionsFollow, SessionRows
<1> QED
    BY <1>2, <1>3

LEMMA RevokeFollows ==
    ASSUME Shapes, NEW r \in AcctRequests, PatchRevoke(r)
    PROVE  SessionsFollow
<1>1. PICK n \in Nat : IssuedUpTo(n)
    BY DEF Shapes
<1>2. sessions' = [s \in DOMAIN sessions |->
         IF s = request[r].sid THEN sessions[s] ELSE [sessions[s] EXCEPT !.live = FALSE]]
    BY DEF PatchRevoke
<1>3. sessions' \in [1 .. n -> SessionRows]
    BY <1>1, <1>2 DEF IssuedUpTo, SessionRows
<1> QED
    BY <1>1, <1>2, <1>3 DEF IssuedUpTo, SessionsFollow, SessionRows

--------------------------------------------------------------------------------
(* Shapes.                                                                 *)

LEMMA ShapesNext == ASSUME AcctInv, AcctNext PROVE Shapes' /\ SessionsFollow
<1> USE DEF AcctInv
<1>a. clock \in Nat
    BY DEF BucketBalanced
<1>b. /\ users \in Nat /\ account \in [pw : 0 .. 1] /\ acctFaults \in 0 .. MaxFaults
      /\ gate \in [done : BOOLEAN, token : BOOLEAN, held : BOOLEAN]
      /\ request \in [AcctRequests -> Handlers]
      /\ \A t \in DOMAIN tokens : tokens[t] \in {"live", "revoked"}
    BY DEF Shapes
<1>c. ASSUME SessionsFollow, users' \in Nat, account' \in [pw : 0 .. 1], acctFaults' \in 0 .. MaxFaults,
             gate' \in [done : BOOLEAN, token : BOOLEAN, held : BOOLEAN],
             request' \in [AcctRequests -> Handlers],
             \A t \in DOMAIN tokens' : tokens'[t] \in {"live", "revoked"}
      PROVE  Shapes' /\ SessionsFollow
    BY <1>c DEF SessionsFollow, Shapes
<1>1. ASSUME NEW r \in AcctRequests,
             SetupBegin(r) \/ SetupToken(r) \/ SetupCreate(r) \/ SetupSpend(r)
      PROVE  Shapes' /\ SessionsFollow
  <2>1. request' \in [AcctRequests -> Handlers]
      BY <1>1, <1>b, SetupMoves DEF Moved
  <2>2. users' \in Nat /\ UNCHANGED <<account, sessions, tokens, acctFaults>>
      BY <1>1, <1>b DEF SetupBegin, SetupToken, SetupCreate, SetupSpend
  <2>3. gate' \in [done : BOOLEAN, token : BOOLEAN, held : BOOLEAN]
    <3>1. CASE SetupBegin(r)
        BY <3>1, <1>b DEF SetupBegin
    <3>2. CASE SetupToken(r)
        BY <3>2, <1>b DEF SetupToken
    <3>3. CASE SetupCreate(r)
        BY <3>3, <1>b DEF SetupCreate
    <3>4. CASE SetupSpend(r)
        BY <3>4 DEF SetupSpend
    <3> QED
        BY <1>1, <3>1, <3>2, <3>3, <3>4
  <2> QED
      BY <1>b, <1>c, <2>1, <2>2, <2>3, SameSessions
<1>2. ASSUME NEW r \in AcctRequests, LoginBegin(r) \/ LoginRead(r) \/ LoginVerify(r)
      PROVE  Shapes' /\ SessionsFollow
  <2>1. request' \in [AcctRequests -> Handlers]
      BY <1>2, <1>a, <1>b, LoginMoves DEF Moved
  <2>2. UNCHANGED <<users, account, sessions, tokens, acctFaults>>
      BY <1>2 DEF LoginBegin, LoginRead, LoginVerify
  <2>3. gate' \in [done : BOOLEAN, token : BOOLEAN, held : BOOLEAN]
      BY <1>2, <1>b DEF LoginBegin, LoginRead, LoginVerify
  <2> QED
      BY <1>b, <1>c, <2>1, <2>2, <2>3, SameSessions
<1>3. ASSUME NEW r \in AcctRequests, issueSession(r)
      PROVE  Shapes' /\ SessionsFollow
  <2>1. request' \in [AcctRequests -> Handlers]
      BY <1>3, <1>a, LoginMoves DEF Moved
  <2>2. UNCHANGED <<users, account, tokens, gate, acctFaults>>
      BY <1>3 DEF issueSession
  <2> QED
      BY <1>3, <1>b, <1>c, <2>1, <2>2, IssueFollows
<1>4. ASSUME NEW r \in AcctRequests,
             \/ \E s \in {0} \union Ids : PatchBegin(r, s)
             \/ PatchProfile(r) \/ PatchRevoke(r) \/ PatchRotate(r)
      PROVE  Shapes' /\ SessionsFollow
  <2>1. request' \in [AcctRequests -> Handlers]
      BY <1>4, PatchMoves DEF Moved
  <2>2. UNCHANGED <<users, tokens, gate, acctFaults>>
      BY <1>4 DEF PatchBegin, PatchProfile, PatchRevoke, PatchRotate
  <2>3. account' = account \/ account' = [account EXCEPT !.pw = 1]
      BY <1>4 DEF PatchBegin, PatchProfile, PatchRevoke, PatchRotate
  <2>4. account' \in [pw : 0 .. 1]
      BY <1>b, <2>3
  <2>5. SessionsFollow
      BY <1>4, RevokeFollows, SameSessions DEF PatchBegin, PatchProfile, PatchRotate
  <2> QED
      BY <1>b, <1>c, <2>1, <2>2, <2>4, <2>5
<1>5. ASSUME NEW r \in AcctRequests, AcctRequestFails(r)
      PROVE  Shapes' /\ SessionsFollow
  <2>1. request' \in [AcctRequests -> Handlers]
      BY <1>5, EndMoves DEF AcctRequestFails, Moved
  <2>2. UNCHANGED <<users, account, sessions, tokens>> /\ acctFaults' \in 0 .. MaxFaults
      BY <1>5, <1>b, AccountAssumption DEF AcctRequestFails
  <2>3. gate' \in [done : BOOLEAN, token : BOOLEAN, held : BOOLEAN]
      BY <1>5, <1>b DEF AcctRequestFails
  <2> QED
      BY <1>b, <1>c, <2>1, <2>2, <2>3, SameSessions
<1>6. ASSUME NEW s \in {0} \union Ids, handleLogout(s)
      PROVE  Shapes' /\ SessionsFollow
    BY <1>6, <1>b, <1>c, LogoutFollows DEF handleLogout
<1>7. ASSUME NEW s \in {0} \union Ids, TokenCreate(s) \/ TokenRevoke(s)
      PROVE  Shapes' /\ SessionsFollow
  <2>1. \A t \in DOMAIN tokens' : tokens'[t] \in {"live", "revoked"}
      BY <1>7, <1>b DEF TokenCreate, TokenRevoke
  <2> QED
      BY <1>7, <1>b, <1>c, <2>1, SameSessions DEF TokenCreate, TokenRevoke
<1>8. CASE sweepLocked \/ AcctTick
    BY <1>8, <1>b, <1>c, SameSessions DEF sweepLocked, AcctTick
<1>9. CASE newAuthService
  <2>1. request' \in [AcctRequests -> Handlers]
      BY <1>9 DEF newAuthService, Idle, Handlers, Labels
  <2>2. UNCHANGED <<users, account, sessions, tokens>> /\ acctFaults' \in 0 .. MaxFaults
      BY <1>9, <1>b, AccountAssumption DEF newAuthService
  <2>3. gate' \in [done : BOOLEAN, token : BOOLEAN, held : BOOLEAN]
      BY <1>9, <1>b DEF newAuthService
  <2> QED
      BY <1>b, <1>c, <2>1, <2>2, <2>3, SameSessions
<1> QED
    BY <1>1, <1>2, <1>3, <1>4, <1>5, <1>6, <1>7, <1>8, <1>9 DEF AcctNext

--------------------------------------------------------------------------------
(* The setup gate.  A step that leaves the setup calls where they are      *)
(* keeps it when it neither adds a user nor drops a lock.                  *)
LEMMA SetupFrame ==
    ASSUME SetupAlone, UNCHANGED users, gate.held => gate'.held,
           \A q \in AcctRequests : request'[q].pc \in SetupLabels => request'[q].pc = request[q].pc
    PROVE  SetupAlone'
BY DEF SetupAlone

LEMMA SetupNext == ASSUME AcctInv, AcctNext PROVE SetupAlone'
<1> USE DEF AcctInv
<1>a. clock \in Nat /\ gate \in [done : BOOLEAN, token : BOOLEAN, held : BOOLEAN] /\ users \in Nat
    BY DEF BucketBalanced, Shapes
<1>1. ASSUME NEW r \in AcctRequests, SetupBegin(r) PROVE SetupAlone'
  <2>1. CASE setupComplete
      BY <1>1, <1>a, <2>1, SetupFrame DEF SetupBegin
  <2>2. CASE ~setupComplete
    <3>1. Moved(r, "setup.token") /\ users = 0 /\ UNCHANGED users /\ gate'.held /\ ~gate.held
        BY <1>1, <1>a, <2>2, GoMoves DEF SetupBegin, setupComplete, Labels, SetupLabels
    <3> QED
        BY <3>1, <1>a DEF SetupAlone, Moved, SetupLabels
  <2> QED
      BY <2>1, <2>2
<1>2. ASSUME NEW r \in AcctRequests, SetupToken(r) PROVE SetupAlone'
  <2>1. request[r].pc = "setup.token" /\ UNCHANGED users
      BY <1>2 DEF SetupToken, RAt
  <2>2. \/ Moved(r, "idle")
        \/ Moved(r, "setup.create") /\ gate' = gate
      BY <1>2, GoMoves, EndMoves DEF SetupToken, Labels, SetupLabels
  <2> QED
      BY <2>1, <2>2 DEF SetupAlone, Moved, SetupLabels
<1>3. ASSUME NEW r \in AcctRequests, SetupCreate(r) PROVE SetupAlone'
  <2>1. request[r].pc = "setup.create" /\ users' = users + 1 /\ gate' = gate /\ Moved(r, "setup.spend")
      BY <1>3, SetupMoves DEF SetupCreate, RAt
  <2> QED
      BY <2>1, <1>a DEF SetupAlone, Moved, SetupLabels
<1>4. ASSUME NEW r \in AcctRequests, SetupSpend(r) PROVE SetupAlone'
  <2>1. request[r].pc = "setup.spend" /\ UNCHANGED users /\ Moved(r, "issue")
      BY <1>4, SetupMoves DEF SetupSpend, RAt
  <2> QED
      BY <2>1 DEF SetupAlone, Moved, SetupLabels
<1>5. ASSUME NEW r \in AcctRequests,
             LoginBegin(r) \/ LoginRead(r) \/ LoginVerify(r) \/ issueSession(r)
      PROVE  SetupAlone'
  <2>1. UNCHANGED users /\ gate'.held = gate.held
      BY <1>5, <1>a DEF LoginBegin, LoginRead, LoginVerify, issueSession
  <2>2. \A q \in AcctRequests : request'[q].pc \in SetupLabels => request'[q].pc = request[q].pc
      BY <1>5, <1>a, LoginMoves DEF Moved, SetupLabels
  <2> QED
      BY <2>1, <2>2, SetupFrame
<1>6. ASSUME NEW r \in AcctRequests,
             \/ \E s \in {0} \union Ids : PatchBegin(r, s)
             \/ PatchProfile(r) \/ PatchRevoke(r) \/ PatchRotate(r)
      PROVE  SetupAlone'
  <2>1. UNCHANGED <<users, gate>>
      BY <1>6 DEF PatchBegin, PatchProfile, PatchRevoke, PatchRotate
  <2>2. \A q \in AcctRequests : request'[q].pc \in SetupLabels => request'[q].pc = request[q].pc
      BY <1>6, PatchMoves DEF Moved, SetupLabels
  <2> QED
      BY <2>1, <2>2, SetupFrame
<1>7. ASSUME NEW r \in AcctRequests, AcctRequestFails(r) PROVE SetupAlone'
  <2>1. UNCHANGED users /\ Moved(r, "idle")
      BY <1>7, EndMoves DEF AcctRequestFails
  <2>2. request[r].pc \in SetupLabels \/ gate' = gate
      BY <1>7 DEF AcctRequestFails, SetupLabels
  <2> QED
      BY <2>1, <2>2 DEF SetupAlone, Moved, SetupLabels
<1>8. CASE newAuthService
    BY <1>8 DEF newAuthService, SetupAlone, Idle, SetupLabels
<1>9. CASE \/ \E s \in {0} \union Ids : handleLogout(s) \/ TokenCreate(s) \/ TokenRevoke(s)
           \/ sweepLocked \/ AcctTick
    BY <1>9, SetupFrame DEF handleLogout, TokenCreate, TokenRevoke, sweepLocked, AcctTick
<1> QED
    BY <1>1, <1>2, <1>3, <1>4, <1>5, <1>6, <1>7, <1>8, <1>9 DEF AcctNext

--------------------------------------------------------------------------------
(* The bucket.  A refill adds no more than the time it stands for.         *)
LEMMA RefillBalanced ==
    ASSUME NEW b \in [credit : 0 .. Capacity, at : Nat], NEW now \in Nat, b.at <= now,
           NEW a \in Nat, a + b.credit <= Capacity + b.at
    PROVE  LET f == Refill(b, now) IN
           /\ f \in [credit : 0 .. Capacity, at : Nat] /\ f.at <= now
           /\ a + f.credit <= Capacity + f.at
<1>1. b.credit \in 0 .. Capacity /\ b.at \in Nat /\ Capacity \in Nat
    BY AccountAssumption
<1>2. CASE now > b.at
  <2> DEFINE n == b.credit + Least(now - b.at, Capacity - b.credit)
  <2>1. n \in 0 .. Capacity /\ n <= b.credit + (now - b.at)
      BY <1>1, <1>2 DEF Least
  <2>2. Refill(b, now) = [credit |-> n, at |-> now]
      BY <1>2 DEF Refill
  <2> HIDE DEF n
  <2>3. a + n <= Capacity + now
      BY <1>1, <2>1
  <2> QED
      BY <2>1, <2>2, <2>3
<1>3. CASE ~(now > b.at)
    BY <1>3 DEF Refill
<1> QED
    BY <1>2, <1>3

LEMMA SpentBalanced ==
    ASSUME BucketBalanced, checkSource(clock)
    PROVE  /\ AttemptSpent(clock) \in [credit : 0 .. Capacity, at : Nat]
           /\ AttemptSpent(clock).at <= clock
           /\ admitted + 1 + AttemptSpent(clock).credit <= Capacity + AttemptSpent(clock).at
<1> DEFINE f == Refill(throttle.bucket, clock)
<1>1. /\ f \in [credit : 0 .. Capacity, at : Nat] /\ f.at <= clock
      /\ admitted + f.credit <= Capacity + f.at /\ f.credit >= 1
    BY RefillBalanced DEF BucketBalanced, checkSource
<1>2. AttemptSpent(clock) = [f EXCEPT !.credit = @ - 1] /\ Capacity \in Nat /\ admitted \in Nat
    BY AccountAssumption DEF AttemptSpent, BucketBalanced
<1> HIDE DEF f
<1> QED
    BY <1>1, <1>2

LEMMA BucketNext == ASSUME AcctInv, AcctNext PROVE BucketBalanced'
<1> USE AccountAssumption DEF AcctInv
<1> DEFINE Buckets == [credit : 0 .. Capacity, at : Nat]
<1>a. /\ clock \in Nat /\ clock <= MaxTime /\ admitted \in Nat
      /\ throttle \in [eligible : Nat, failures : 0 .. MaxFailures, bucket : Buckets]
      /\ throttle.eligible <= clock + BackoffCap /\ throttle.bucket.at <= clock
      /\ admitted + throttle.bucket.credit <= Capacity + throttle.bucket.at
      /\ \A r \in AcctRequests : request[r].now \in Nat /\ request[r].now <= clock
    BY DEF BucketBalanced, Shapes, Handlers
(* The ladder and the bucket each keep their part of the balance.          *)
<1>b. ASSUME NEW b \in Buckets, NEW n \in Nat, b.at <= clock, n + b.credit <= Capacity + b.at,
             NEW e \in Nat, NEW k \in 0 .. MaxFailures, e <= clock + BackoffCap,
             throttle' = [eligible |-> e, failures |-> k, bucket |-> b],
             UNCHANGED clock, admitted' = n,
             \A r \in AcctRequests : request'[r].now <= clock
      PROVE  BucketBalanced'
    BY <1>a, <1>b DEF BucketBalanced
<1>c. throttle = [eligible |-> throttle.eligible, failures |-> throttle.failures, bucket |-> throttle.bucket]
    BY <1>a
<1>d. ASSUME UNCHANGED <<clock, throttle, admitted>>, \A r \in AcctRequests : request'[r].now <= clock
      PROVE  BucketBalanced'
    BY <1>d DEF BucketBalanced
<1>1. ASSUME NEW r \in AcctRequests, SetupBegin(r) \/ SetupCreate(r) \/ SetupSpend(r)
      PROVE  BucketBalanced'
  <2>1. \A q \in AcctRequests : request'[q].now <= clock
      BY <1>1, <1>a, SetupMoves DEF Moved
  <2> QED
      BY <1>1, <1>d, <2>1 DEF SetupBegin, SetupCreate, SetupSpend
<1>2. ASSUME NEW r \in AcctRequests, SetupToken(r)
      PROVE  BucketBalanced'
  <2>1. \A q \in AcctRequests : request'[q].now <= clock
      BY <1>2, <1>a, SetupMoves DEF Moved
  <2>2. CASE checkSource(clock)
    <3>1. /\ throttle' = [eligible |-> throttle.eligible, failures |-> throttle.failures,
                          bucket |-> AttemptSpent(clock)]
          /\ admitted' = admitted + 1 /\ UNCHANGED clock
        BY <1>2, <1>c, <2>2 DEF SetupToken
    <3> QED
        BY <1>a, <1>b, <2>1, <2>2, <3>1, SpentBalanced
  <2>3. CASE ~checkSource(clock)
    <3>1. /\ throttle' = [eligible |-> throttle.eligible, failures |-> throttle.failures,
                          bucket |-> Refill(throttle.bucket, clock)]
          /\ admitted' = admitted /\ UNCHANGED clock
        BY <1>2, <1>c, <2>3 DEF SetupToken
    <3> QED
        BY <1>a, <1>b, <2>1, <3>1, RefillBalanced
  <2> QED
      BY <2>2, <2>3
<1>3. ASSUME NEW r \in AcctRequests, LoginBegin(r)
      PROVE  BucketBalanced'
  <2>1. \A q \in AcctRequests : request'[q].now <= clock
      BY <1>3, <1>a, LoginMoves DEF Moved
  <2>2. CASE ~checkSource(clock)
    <3>1. /\ throttle' = [eligible |-> throttle.eligible, failures |-> throttle.failures,
                          bucket |-> Refill(throttle.bucket, clock)]
          /\ admitted' = admitted /\ UNCHANGED clock
        BY <1>3, <1>c, <2>2 DEF LoginBegin
    <3> QED
        BY <1>a, <1>b, <2>1, <3>1, RefillBalanced
  <2>3. CASE checkSource(clock)
    <3> DEFINE spent == [throttle EXCEPT !.bucket = AttemptSpent(clock)]
    <3>1. admitted' = admitted + 1 /\ UNCHANGED clock
        BY <1>3, <2>3 DEF LoginBegin
    <3>2. throttle' = spent \/ throttle' = [spent EXCEPT !.failures = 0, !.eligible = 0]
        BY <1>3, <2>3 DEF LoginBegin
    <3>3. PICK e \in {throttle.eligible, 0}, k \in {throttle.failures, 0} :
            throttle' = [eligible |-> e, failures |-> k, bucket |-> AttemptSpent(clock)]
        BY <1>c, <3>2
    <3> QED
        BY <1>a, <1>b, <2>1, <2>3, <3>1, <3>3, SpentBalanced
  <2> QED
      BY <2>2, <2>3
<1>4. ASSUME NEW r \in AcctRequests, LoginRead(r) \/ issueSession(r)
      PROVE  BucketBalanced'
  <2>1. \A q \in AcctRequests : request'[q].now <= clock
      BY <1>4, <1>a, LoginMoves DEF Moved
  <2> QED
      BY <1>4, <1>d, <2>1 DEF LoginRead, issueSession
<1>5. ASSUME NEW r \in AcctRequests, LoginVerify(r)
      PROVE  BucketBalanced'
  <2>1. \A q \in AcctRequests : request'[q].now <= clock
      BY <1>5, <1>a, LoginMoves DEF Moved
  <2>2. UNCHANGED <<clock, admitted>>
      BY <1>5 DEF LoginVerify
  <2>3. CASE throttle' = throttleSuccess
    <3>1. throttle' = [eligible |-> 0, failures |-> 0, bucket |-> throttle.bucket]
        BY <1>c, <2>3 DEF throttleSuccess
    <3> QED
        BY <1>a, <1>b, <2>1, <2>2, <3>1
  <2>4. CASE throttle' = throttleFailure(request[r].now)
    <3> DEFINE k == Least(throttle.failures + 1, MaxFailures)
    <3> DEFINE w == Least(2^(k - 1), BackoffCap)
    <3>1. k \in 1 .. MaxFailures
        BY <1>a DEF Least
    <3>2. w \in Nat /\ w <= BackoffCap
      <4>1. k - 1 \in 0 .. MaxFailures
          BY <3>1
      <4>2. 2^(k - 1) \in Nat
          BY <4>1
      <4> HIDE DEF k
      <4> QED
          BY <4>2 DEF Least
    <3>3. throttle' = [eligible |-> request[r].now + w, failures |-> k, bucket |-> throttle.bucket]
        BY <1>c, <2>4 DEF throttleFailure
    <3> HIDE DEF k, w
    <3>4. request[r].now + w \in Nat /\ request[r].now + w <= clock + BackoffCap
        BY <1>a, <3>2
    <3> QED
        BY <1>a, <1>b, <2>1, <2>2, <3>1, <3>3, <3>4
  <2> QED
      BY <1>5, <2>3, <2>4 DEF LoginVerify
<1>6. ASSUME NEW r \in AcctRequests,
             \/ \E s \in {0} \union Ids : PatchBegin(r, s)
             \/ PatchProfile(r) \/ PatchRevoke(r) \/ PatchRotate(r)
      PROVE  BucketBalanced'
  <2>1. \A q \in AcctRequests : request'[q].now <= clock
      BY <1>6, <1>a, PatchMoves DEF Moved
  <2> QED
      BY <1>6, <1>d, <2>1 DEF PatchBegin, PatchProfile, PatchRevoke, PatchRotate
<1>7. ASSUME NEW r \in AcctRequests, AcctRequestFails(r)
      PROVE  BucketBalanced'
  <2>1. \A q \in AcctRequests : request'[q].now <= clock
      BY <1>7, <1>a, EndMoves DEF AcctRequestFails, Moved
  <2> QED
      BY <1>7, <1>d, <2>1 DEF AcctRequestFails
<1>8. ASSUME NEW s \in {0} \union Ids, handleLogout(s) \/ TokenCreate(s) \/ TokenRevoke(s)
      PROVE  BucketBalanced'
    BY <1>8, <1>a, <1>d DEF handleLogout, TokenCreate, TokenRevoke
(* A swept source is forgotten only after it would have refilled anyway.   *)
<1>9. CASE sweepLocked
  <2> DEFINE b == [credit |-> Capacity, at |-> clock]
  <2>1. b \in Buckets /\ admitted + Capacity <= Capacity + clock /\ UNCHANGED <<clock, admitted, request>>
      BY <1>9, <1>a DEF sweepLocked
  <2>2. PICK e \in {throttle.eligible, 0}, k \in {throttle.failures, 0} :
          throttle' = [eligible |-> e, failures |-> k, bucket |-> b]
      BY <1>9, <1>c DEF sweepLocked
  <2> QED
      BY <1>a, <1>b, <2>1, <2>2
<1>10. CASE AcctTick
    BY <1>10, <1>a DEF AcctTick, BucketBalanced
<1>11. CASE newAuthService
  <2>1. throttle' = [eligible |-> 0, failures |-> 0, bucket |-> [credit |-> Capacity, at |-> clock]]
      BY <1>11 DEF newAuthService, NewThrottle, FullBucket
  <2>2. \A r \in AcctRequests : request'[r].now <= clock
      BY <1>11, <1>a DEF newAuthService, Idle
  <2>3. [credit |-> Capacity, at |-> clock] \in Buckets /\ 0 + Capacity <= Capacity + clock
      BY <1>a
  <2>4. admitted' = 0 /\ UNCHANGED clock /\ 0 <= clock + BackoffCap
      BY <1>11, <1>a DEF newAuthService
  <2> QED
      BY <1>a, <1>b, <2>1, <2>2, <2>3, <2>4
<1> QED
    BY <1>1, <1>2, <1>3, <1>4, <1>5, <1>6, <1>7, <1>8, <1>9, <1>10, <1>11 DEF AcctNext

--------------------------------------------------------------------------------
(* PATCH /account.  Sessions come and go under a PATCH in flight, but none *)
(* of those it has revoked lives again.                                    *)
LEMMA PatchFrame ==
    ASSUME Shapes, PatchRevoked, SessionsFollow,
           \A q \in AcctRequests : request'[q].pc \in PatchLabels =>
              /\ request'[q].pc = request[q].pc
              /\ request'[q].at = request[q].at
              /\ request'[q].sid = request[q].sid
    PROVE  PatchRevoked'
BY DEF PatchRevoked, SessionsFollow

LEMMA PatchNext == ASSUME AcctInv, AcctNext PROVE PatchRevoked'
<1> USE DEF AcctInv
<1>a. SessionsFollow /\ Shapes /\ clock \in Nat
    BY ShapesNext DEF BucketBalanced
<1>b. ASSUME NEW r \in AcctRequests, NEW pc \in Labels \ PatchLabels, Moved(r, pc) PROVE PatchRevoked'
    BY <1>a, <1>b, PatchFrame DEF Moved
<1>1. ASSUME NEW r \in AcctRequests,
             SetupBegin(r) \/ SetupToken(r) \/ SetupCreate(r) \/ SetupSpend(r)
      PROVE  PatchRevoked'
  <2>1. request' = request \/ \E pc \in Labels \ PatchLabels : Moved(r, pc)
      BY <1>1, <1>a, SetupMoves DEF Labels, SetupLabels, PatchLabels
  <2> QED
      BY <1>a, <1>b, <2>1, PatchFrame
<1>2. ASSUME NEW r \in AcctRequests,
             LoginBegin(r) \/ LoginRead(r) \/ LoginVerify(r) \/ issueSession(r)
      PROVE  PatchRevoked'
  <2>1. request' = request \/ \E pc \in Labels \ PatchLabels : Moved(r, pc)
      BY <1>2, <1>a, LoginMoves DEF Labels, PatchLabels
  <2> QED
      BY <1>a, <1>b, <2>1, PatchFrame
<1>3. ASSUME NEW r \in AcctRequests, NEW s \in {0} \union Ids, PatchBegin(r, s)
      PROVE  PatchRevoked'
  <2>1. Moved(r, "patch") /\ request'[r].at = Cardinality(DOMAIN sessions) /\ UNCHANGED sessions
      BY <1>3, <1>a, PatchMoves DEF PatchBegin
  <2>2. 1 .. Cardinality(DOMAIN sessions) = DOMAIN sessions
      BY <1>a, IssuedCount DEF Shapes, IssuedUpTo
  <2> QED
      BY <2>1, <2>2 DEF PatchRevoked, Moved
<1>4. ASSUME NEW r \in AcctRequests, PatchProfile(r)
      PROVE  PatchRevoked'
  <2>1. request[r].pc = "patch" /\ UNCHANGED sessions
      BY <1>4 DEF PatchProfile, RAt
  <2>2. \/ Moved(r, "idle")
        \/ Moved(r, "patch.revoke") /\ request'[r].at = request[r].at
      BY <1>4, <1>a, PatchMoves
  <2> QED
      BY <2>1, <2>2 DEF PatchRevoked, Moved, PatchLabels
<1>5. ASSUME NEW r \in AcctRequests, PatchRevoke(r)
      PROVE  PatchRevoked'
  <2>1. /\ request[r].pc = "patch.revoke" /\ DOMAIN sessions' = DOMAIN sessions
        /\ \A s \in DOMAIN sessions : sessions'[s].live => s = request[r].sid
    <3>1. PICK n \in Nat : sessions \in [1 .. n -> SessionRows]
        BY <1>a DEF Shapes, IssuedUpTo
    <3>2. \A s \in DOMAIN sessions : [sessions[s] EXCEPT !.live = FALSE].live = FALSE
        BY <3>1 DEF SessionRows
    <3> QED
        BY <1>5, <3>2 DEF PatchRevoke, RAt
  <2>2. /\ Moved(r, "patch.rotate")
        /\ request'[r].at = request[r].at /\ request'[r].sid = request[r].sid
      BY <1>5, <1>a, PatchMoves
  <2>3. 1 .. request[r].at \subseteq DOMAIN sessions
      BY <2>1 DEF PatchRevoked, PatchLabels
  <2>4. ASSUME NEW q \in AcctRequests, request'[q].pc \in PatchLabels
        PROVE  /\ 1 .. request'[q].at \subseteq DOMAIN sessions'
               /\ request'[q].pc = "patch.rotate" =>
                     \A s \in 1 .. request'[q].at : sessions'[s].live => s = request'[q].sid
    <3>1. CASE q = r
        BY <2>1, <2>2, <2>3, <3>1
    <3>2. CASE q # r
        BY <1>a, <2>2, <2>4, <3>2 DEF PatchRevoked, SessionsFollow, Moved
    <3> QED
        BY <3>1, <3>2
  <2> QED
      BY <2>4 DEF PatchRevoked
<1>6. ASSUME NEW r \in AcctRequests, PatchRotate(r) \/ AcctRequestFails(r)
      PROVE  PatchRevoked'
  <2>1. Moved(r, "idle")
      BY <1>6, <1>a, EndMoves DEF PatchRotate, AcctRequestFails
  <2> QED
      BY <1>b, <2>1 DEF Labels, PatchLabels, SetupLabels
<1>7. CASE \/ \E s \in {0} \union Ids : handleLogout(s) \/ TokenCreate(s) \/ TokenRevoke(s)
           \/ sweepLocked \/ AcctTick
    BY <1>7, <1>a, PatchFrame DEF handleLogout, TokenCreate, TokenRevoke, sweepLocked, AcctTick
<1>8. CASE newAuthService
    BY <1>8, <1>a, PatchFrame DEF newAuthService, Idle, PatchLabels
<1> QED
    BY <1>1, <1>2, <1>3, <1>4, <1>5, <1>6, <1>7, <1>8 DEF AcctNext

--------------------------------------------------------------------------------
LEMMA AcctStutters == AcctInv /\ UNCHANGED acctVars => AcctInv'
BY DEF AcctInv, Shapes, IssuedUpTo, SetupAlone, BucketBalanced, PatchRevoked, acctVars

LEMMA AcctInvariant == AcctSpec => []AcctInv
<1>1. AcctInit => AcctInv
    BY AcctInitInv
<1>2. AcctInv /\ [AcctNext]_acctVars => AcctInv'
    BY ShapesNext, SetupNext, BucketNext, PatchNext, AcctStutters DEF AcctInv
<1> QED
    BY <1>1, <1>2, PTL DEF AcctSpec

LEMMA AcctInvSafe == AcctInv => AcctSafe
<1> SUFFICES ASSUME AcctInv PROVE AcctSafe
    OBVIOUS
<1>1. PICK n \in Nat : IssuedUpTo(n)
    BY DEF AcctInv, Shapes
<1>2. \A s \in DOMAIN sessions : s \in Ids /\ sessions[s] \in [live : BOOLEAN, pw : 0 .. 1]
    BY <1>1, AccountAssumption DEF IssuedUpTo, SessionRows, Ids
<1>3. /\ throttle.bucket.credit \in 0 .. Capacity /\ throttle.bucket.at \in 0 .. clock
      /\ throttle.failures \in 0 .. MaxFailures /\ throttle.eligible \in 0 .. clock + BackoffCap
      /\ clock \in 0 .. MaxTime /\ admitted <= Capacity + clock
    BY AccountAssumption DEF AcctInv, BucketBalanced
<1> QED
    BY <1>2, <1>3 DEF AcctInv, Shapes, SetupAlone, AcctSafe, AcctTypeOK, OneAccount, SourceBudget

(* There is one operator account, and a source gets past checkSource no    *)
(* more often than its capacity and its refills allow, for any number of   *)
(* concurrent setup and login calls, failed statements and restarts        *)
(* (handleSetup, newAuthService, checkSource, sweepLocked).                *)
THEOREM AccountsSafe == AcctSpec => []AcctSafe
BY AcctInvariant, AcctInvSafe, PTL

LEMMA RotateStep ==
    ASSUME AcctInv, [AcctNext]_acctVars, NEW r \in AcctRequests,
           account'.pw # account.pw, request'[r] # request[r],
           NEW s \in 1 .. request[r].at, LiveSession(s)
    PROVE  s = request[r].sid
<1>1. \E q \in AcctRequests : PatchRotate(q)
  <2>1. UNCHANGED account \/ \E q \in AcctRequests : PatchRotate(q)
    <3>1. ASSUME NEW q \in AcctRequests,
                 \/ SetupBegin(q) \/ SetupToken(q) \/ SetupCreate(q) \/ SetupSpend(q)
                 \/ LoginBegin(q) \/ LoginRead(q) \/ LoginVerify(q) \/ issueSession(q)
          PROVE  UNCHANGED account
        BY <3>1 DEF SetupBegin, SetupToken, SetupCreate, SetupSpend, LoginBegin, LoginRead,
           LoginVerify, issueSession
    <3>2. ASSUME NEW q \in AcctRequests,
                 \/ \E i \in {0} \union Ids : PatchBegin(q, i)
                 \/ PatchProfile(q) \/ PatchRevoke(q) \/ AcctRequestFails(q)
          PROVE  UNCHANGED account
        BY <3>2 DEF PatchBegin, PatchProfile, PatchRevoke, AcctRequestFails
    <3>3. ASSUME \/ \E i \in {0} \union Ids : handleLogout(i) \/ TokenCreate(i) \/ TokenRevoke(i)
                 \/ sweepLocked \/ AcctTick \/ newAuthService \/ UNCHANGED acctVars
          PROVE  UNCHANGED account
        BY <3>3 DEF handleLogout, TokenCreate, TokenRevoke, sweepLocked, AcctTick, newAuthService, acctVars
    <3> QED
        BY <3>1, <3>2, <3>3 DEF AcctNext
  <2> QED
      BY <2>1
<1>2. PatchRotate(r)
    BY <1>1, EndMoves DEF PatchRotate, AcctInv, Moved
<1> QED
    BY <1>2 DEF PatchRotate, RAt, AcctInv, PatchRevoked, PatchLabels, LiveSession

(* A password change leaves no session alive that lived when the PATCH was *)
(* authenticated, but the caller's own, whatever logins, logouts, tokens,  *)
(* other PATCHes, failures and restarts come between its statements        *)
(* (PatchAccount, revoke before rotate).                                   *)
THEOREM RotationLocksOut == AcctSpec => RotationRevokes
<1>1. AcctInv /\ [AcctNext]_acctVars =>
        [\A r \in AcctRequests :
           account'.pw # account.pw /\ request'[r] # request[r]
             => \A s \in 1 .. request[r].at : LiveSession(s) => s = request[r].sid]_acctVars
    BY RotateStep
<1> QED
    BY <1>1, AcctInvariant, PTL DEF AcctSpec, RotationRevokes
================================================================================
