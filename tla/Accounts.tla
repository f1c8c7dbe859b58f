-------------------------------- MODULE Accounts --------------------------------
(***************************************************************************)
(* The operator account: first-run setup, login with its two throttles,    *)
(* sessions, API tokens and PATCH /account (internal/api/auth.go,          *)
(* account.go and tokens.go over internal/store/users.go).                 *)
(*                                                                         *)
(* A request is a handler goroutine: its identity is resolved first, and   *)
(* each database statement after that is a step of its own, so two         *)
(* requests interleave between any two statements.  Passwords are numbers; *)
(* profile columns, hashing and token minting are left out.                *)
(***************************************************************************)
EXTENDS Naturals, FiniteSets

CONSTANTS
    AcctRequests,          \* request handlers that may run at once
    Capacity,          \* throttleSourceCapacity (10 in the code)
    BackoffCap,        \* throttleBackoffCap, in units of the clock
    MaxTime,           \* bound: the clock, one unit = attemptCost
    MaxFailures,       \* throttleBackoffMaxShift + 1 (11 in the code)
    MaxSessions,       \* bound: sessions ever issued
    MaxFaults          \* bound: failed statements and crashes

ASSUME AccountAssumption ==
    /\ Capacity \in Nat \ {0} /\ BackoffCap \in Nat \ {0}
    /\ MaxTime \in Nat /\ MaxSessions \in Nat /\ MaxFaults \in Nat
    /\ MaxFailures \in Nat \ {0} /\ \A n \in 0 .. MaxFailures : 2^n \in Nat

VARIABLES
    users,       \* rows of the users table
    account,     \* the operator's row
    sessions,    \* id -> the row, or absent
    tokens,      \* id -> "live" or "revoked"
    gate,        \* setupDone, the in-memory setup token, setupMu
    throttle,    \* the two ladders of loginThrottle
    request,     \* the handlers
    clock,
    admitted,    \* attempts checkSource let through since the start
    acctFaults

acctVars == <<users, account, sessions, tokens, gate, throttle, request, clock, admitted, acctFaults>>

Idle == [pc |-> "idle", pw |-> 0, sid |-> 0, at |-> 0, now |-> 0]
Ids == 1 .. MaxSessions

(* attemptCost is one unit of the clock, throttleSourceWindow Capacity.    *)
FullBucket == [credit |-> Capacity, at |-> 0]
NewThrottle == [eligible |-> 0, failures |-> 0, bucket |-> FullBucket]

AcctInit ==
    /\ users = 0
    /\ account = [pw |-> 0]
    /\ sessions = [s \in {} |-> 0]
    /\ tokens = [s \in {} |-> "live"]
    /\ gate = [done |-> FALSE, token |-> TRUE, held |-> FALSE]
    /\ throttle = NewThrottle
    /\ request = [r \in AcctRequests |-> Idle]
    /\ clock = 0
    /\ admitted = 0
    /\ acctFaults = MaxFaults

RGo(r, pc) == request' = [request EXCEPT ![r].pc = pc]
REnd(r) == request' = [request EXCEPT ![r] = Idle]
RAt(r, pc) == request[r].pc = pc

--------------------------------------------------------------------------------
(* loginThrottle.                                                          *)

Least(a, b) == IF a < b THEN a ELSE b

(* checkSource: refill, then take one attempt or refuse.                   *)
Refill(b, now) ==
    IF now > b.at
    THEN [credit |-> b.credit + Least(now - b.at, Capacity - b.credit), at |-> now]
    ELSE b
checkSource(now) == Refill(throttle.bucket, now).credit >= 1
AttemptSpent(now) == LET b == Refill(throttle.bucket, now) IN [b EXCEPT !.credit = @ - 1]

(* checkAccount: an elapsed wait admits; a long one also forgets.          *)
checkAccount(now) == now >= throttle.eligible
Forgets(now) == throttle.failures > 0 /\ now >= throttle.eligible + BackoffCap

(* recordFailure stamps from the time the request came in.                 *)
throttleFailure(now) ==
    LET n == Least(throttle.failures + 1, MaxFailures) IN
    [throttle EXCEPT !.failures = n, !.eligible = now + Least(2^(n - 1), BackoffCap)]
throttleSuccess == [throttle EXCEPT !.failures = 0, !.eligible = 0]

(* sweepLocked runs once a map has outgrown its floor; a dropped source    *)
(* starts again with a full bucket.                                        *)
sweepLocked ==
    /\ clock >= throttle.bucket.at + Capacity
    /\ throttle' = [throttle EXCEPT
         !.bucket = [credit |-> Capacity, at |-> clock],
         !.failures = IF clock >= throttle.eligible + BackoffCap THEN 0 ELSE @,
         !.eligible = IF clock >= throttle.eligible + BackoffCap THEN 0 ELSE @]
    /\ UNCHANGED <<users, account, sessions, tokens, gate, request, clock, admitted, acctFaults>>

AcctTick ==
    /\ clock < MaxTime
    /\ clock' = clock + 1
    /\ UNCHANGED <<users, account, sessions, tokens, gate, throttle, request, admitted, acctFaults>>

--------------------------------------------------------------------------------
(* Setup, one caller at a time under setupMu.                              *)

setupComplete == gate.done \/ users > 0

(* The gate check of handleSetup, after setupMu is taken.                  *)
(* Mutant: the lock is not taken.                                          *)
SetupBeginUnlocked(r) ==
    /\ RAt(r, "idle")
    /\ IF setupComplete THEN gate' = [gate EXCEPT !.done = TRUE] /\ request' = request
       ELSE gate' = gate /\ RGo(r, "setup.token")
    /\ UNCHANGED <<users, account, sessions, tokens, throttle, clock, admitted, acctFaults>>
SetupBegin(r) ==
    /\ RAt(r, "idle")
    /\ ~gate.held
    /\ IF setupComplete THEN gate' = [gate EXCEPT !.done = TRUE] /\ request' = request
       ELSE gate' = [gate EXCEPT !.held = TRUE] /\ RGo(r, "setup.token")
    /\ UNCHANGED <<users, account, sessions, tokens, throttle, clock, admitted, acctFaults>>

(* The source budget, then the token: refused, wrong, or right.            *)
SetupToken(r) ==
    /\ RAt(r, "setup.token")
    /\ \/ ~checkSource(clock) /\ REnd(r) /\ gate' = [gate EXCEPT !.held = FALSE]
          /\ throttle' = [throttle EXCEPT !.bucket = Refill(@, clock)]
          /\ admitted' = admitted
       \/ /\ checkSource(clock)
          /\ throttle' = [throttle EXCEPT !.bucket = AttemptSpent(clock)]
          /\ admitted' = admitted + 1
          /\ \/ REnd(r) /\ gate' = [gate EXCEPT !.held = FALSE]
             \/ gate.token /\ RGo(r, "setup.create") /\ gate' = gate
    /\ UNCHANGED <<users, account, sessions, tokens, clock, acctFaults>>

SetupCreate(r) ==
    /\ RAt(r, "setup.create")
    /\ users' = users + 1
    /\ RGo(r, "setup.spend")
    /\ UNCHANGED <<account, sessions, tokens, gate, throttle, clock, admitted, acctFaults>>

(* The file goes first; only then is the token forgotten and the gate     *)
(* shut.  With done set, setupMu has nothing left to protect: it is        *)
(* dropped here rather than after the session.                             *)
SetupSpend(r) ==
    /\ RAt(r, "setup.spend")
    /\ gate' = [done |-> TRUE, token |-> FALSE, held |-> FALSE]
    /\ request' = [request EXCEPT ![r].pc = "issue", ![r].pw = account.pw]
    /\ UNCHANGED <<users, account, sessions, tokens, throttle, clock, admitted, acctFaults>>

--------------------------------------------------------------------------------
(* Login: both throttles in turn, the row as it is now, the verdict.       *)

LoginBegin(r) ==
    /\ RAt(r, "idle")
    /\ setupComplete
    /\ gate' = [gate EXCEPT !.done = TRUE]
    /\ LET spent == [throttle EXCEPT !.bucket = AttemptSpent(clock)] IN
         \/ ~checkSource(clock) /\ throttle' = [throttle EXCEPT !.bucket = Refill(@, clock)]
            /\ UNCHANGED <<admitted, request>>
         \/ checkSource(clock) /\ ~checkAccount(clock) /\ throttle' = spent
            /\ admitted' = admitted + 1 /\ request' = request
         \/ /\ checkSource(clock)
            /\ checkAccount(clock)
            /\ throttle' = IF Forgets(clock) THEN [spent EXCEPT !.failures = 0, !.eligible = 0] ELSE spent
            /\ admitted' = admitted + 1
            /\ request' = [request EXCEPT ![r].pc = "login.read", ![r].now = clock]
    /\ UNCHANGED <<users, account, sessions, tokens, clock, acctFaults>>

LoginRead(r) ==
    /\ RAt(r, "login.read")
    /\ request' = [request EXCEPT ![r].pc = "login.verify", ![r].pw = account.pw]
    /\ UNCHANGED <<users, account, sessions, tokens, gate, throttle, clock, admitted, acctFaults>>

(* The password matches the row that was read, or it does not.             *)
LoginVerify(r) ==
    /\ RAt(r, "login.verify")
    /\ \/ throttle' = throttleSuccess /\ RGo(r, "issue")
       \/ throttle' = throttleFailure(request[r].now) /\ REnd(r)
    /\ UNCHANGED <<users, account, sessions, tokens, gate, clock, admitted, acctFaults>>

(* issueSession, for both.  The row records the password it was minted on. *)
issueSession(r) ==
    /\ RAt(r, "issue")
    /\ Cardinality(DOMAIN sessions) < MaxSessions
    /\ \E s \in Ids \ DOMAIN sessions :
         /\ \A q \in Ids \ DOMAIN sessions : s <= q
         /\ sessions' = [i \in DOMAIN sessions \union {s} |->
              IF i = s THEN [live |-> TRUE, pw |-> request[r].pw] ELSE sessions[i]]
    /\ REnd(r)
    /\ UNCHANGED <<users, account, tokens, gate, throttle, clock, admitted, acctFaults>>

--------------------------------------------------------------------------------
(* Authenticated requests.                                                 *)

LiveSession(s) == s \in DOMAIN sessions /\ sessions[s].live

(* SessionByTokenHash joins the live session to the account; the row read  *)
(* here is the one the whole handler works from.  0 is a bearer token.     *)
resolveIdentity(s) == IF s = 0 THEN \E t \in DOMAIN tokens : tokens[t] = "live" ELSE LiveSession(s)

handleLogout(s) ==
    /\ resolveIdentity(s)
    /\ sessions' = IF s = 0 THEN sessions ELSE [sessions EXCEPT ![s].live = FALSE]
    /\ UNCHANGED <<users, account, tokens, gate, throttle, request, clock, admitted, acctFaults>>

TokenCreate(s) ==
    /\ resolveIdentity(s)
    /\ DOMAIN tokens = {}
    /\ tokens' = [t \in {1} |-> "live"]
    /\ UNCHANGED <<users, account, sessions, gate, throttle, request, clock, admitted, acctFaults>>

TokenRevoke(s) ==
    /\ resolveIdentity(s)
    /\ \E t \in DOMAIN tokens : tokens' = [tokens EXCEPT ![t] = "revoked"]
    /\ UNCHANGED <<users, account, sessions, gate, throttle, request, clock, admitted, acctFaults>>

PatchBegin(r, s) ==
    /\ RAt(r, "idle")
    /\ resolveIdentity(s)
    /\ request' = [request EXCEPT ![r] = [Idle EXCEPT !.pc = "patch", !.sid = s, !.at = Cardinality(DOMAIN sessions)]]
    /\ UNCHANGED <<users, account, sessions, tokens, gate, throttle, clock, admitted, acctFaults>>

(* PatchAccount.  current_password is checked against the row read with    *)
(* the identity; a mismatch or an empty field writes nothing.  The profile *)
(* columns are written first; a new password goes on to the next steps.    *)
PatchProfile(r) ==
    /\ RAt(r, "patch")
    /\ REnd(r) \/ RGo(r, "patch.revoke")
    /\ UNCHANGED <<users, account, sessions, tokens, gate, throttle, clock, admitted, acctFaults>>

(* Revoke before rotating, each its own statement.                         *)
(* Mutant: rotate first.                                                   *)
PatchRevokeLast(r) ==
    /\ RAt(r, "patch.revoke")
    /\ account' = [account EXCEPT !.pw = 1]
    /\ RGo(r, "patch.rotate")
    /\ UNCHANGED <<users, sessions, tokens, gate, throttle, clock, admitted, acctFaults>>
PatchRevoke(r) ==
    /\ RAt(r, "patch.revoke")
    /\ sessions' = [s \in DOMAIN sessions |->
         IF s = request[r].sid THEN sessions[s]
         ELSE [sessions[s] EXCEPT !.live = FALSE]]
    /\ RGo(r, "patch.rotate")
    /\ UNCHANGED <<users, account, tokens, gate, throttle, clock, admitted, acctFaults>>

PatchRotate(r) ==
    /\ RAt(r, "patch.rotate")
    /\ account' = [account EXCEPT !.pw = 1]
    /\ REnd(r)
    /\ UNCHANGED <<users, sessions, tokens, gate, throttle, clock, admitted, acctFaults>>

(* Any statement may fail: the handler answers 500, setupMu is released.   *)
AcctRequestFails(r) ==
    /\ request[r].pc # "idle"
    /\ acctFaults > 0
    /\ acctFaults' = acctFaults - 1
    /\ REnd(r)
    /\ gate' = IF request[r].pc \in {"setup.token", "setup.create", "setup.spend"}
               THEN [gate EXCEPT !.held = FALSE] ELSE gate
    /\ UNCHANGED <<users, account, sessions, tokens, throttle, clock, admitted>>

(* The process dies; the next one counts the users, and mints a setup      *)
(* token only while there is none.                                         *)
newAuthService ==
    /\ acctFaults > 0
    /\ acctFaults' = acctFaults - 1
    /\ request' = [r \in AcctRequests |-> Idle]
    /\ gate' = [done |-> users > 0, token |-> users = 0, held |-> FALSE]
    /\ throttle' = [NewThrottle EXCEPT !.bucket.at = clock]
    /\ admitted' = 0
    /\ UNCHANGED <<users, account, sessions, tokens, clock>>

AcctNext ==
    \/ \E r \in AcctRequests :
         \/ SetupBegin(r) \/ SetupToken(r) \/ SetupCreate(r) \/ SetupSpend(r)
         \/ LoginBegin(r) \/ LoginRead(r) \/ LoginVerify(r) \/ issueSession(r)
         \/ \E s \in {0} \union Ids : PatchBegin(r, s)
         \/ PatchProfile(r) \/ PatchRevoke(r) \/ PatchRotate(r)
         \/ AcctRequestFails(r)
    \/ \E s \in {0} \union Ids : handleLogout(s) \/ TokenCreate(s) \/ TokenRevoke(s)
    \/ sweepLocked \/ AcctTick \/ newAuthService

AcctSpec == AcctInit /\ [][AcctNext]_acctVars

--------------------------------------------------------------------------------
(* The columns and counters keep their ranges; a bucket never holds more   *)
(* than the window's attempts.                                             *)
AcctTypeOK ==
    /\ users \in Nat
    /\ account \in [pw : 0 .. 1]
    /\ \A s \in DOMAIN sessions : s \in Ids /\ sessions[s] \in [live : BOOLEAN, pw : 0 .. 1]
    /\ \A t \in DOMAIN tokens : tokens[t] \in {"live", "revoked"}
    /\ gate \in [done : BOOLEAN, token : BOOLEAN, held : BOOLEAN]
    /\ throttle.bucket.credit \in 0 .. Capacity /\ throttle.bucket.at \in 0 .. clock
    /\ throttle.failures \in 0 .. MaxFailures /\ throttle.eligible \in 0 .. clock + BackoffCap
    /\ clock \in 0 .. MaxTime /\ acctFaults \in 0 .. MaxFaults

(* There is one operator account: concurrent setup calls, a failed removal *)
(* of the token file, a crash after the insert and the restart that        *)
(* follows never create a second (handleSetup, newAuthService).            *)
OneAccount == users <= 1

(* A source never gets past checkSource more often than its capacity plus  *)
(* one attempt per refill interval, whatever concurrent requests, refusals *)
(* and sweeps of the map come in between.                                  *)
SourceBudget == admitted <= Capacity + clock

(* When the password hash changes, every session that lived when the       *)
(* PATCH was authenticated is revoked, the caller's own excepted: the two  *)
(* writes are separate statements and either may fail.  (A login that read *)
(* the old row before the rotation may still issue its session after it.)  *)
RotationRevokes ==
    [][\A r \in AcctRequests :
         account'.pw # account.pw /\ request'[r] # request[r]
           => \A s \in 1 .. request[r].at : LiveSession(s) => s = request[r].sid]_acctVars

(* The accounts' safety: one operator, and a bounded number of attempts    *)
(* per source (handleSetup, checkSource).                                  *)
AcctSafe == AcctTypeOK /\ OneAccount /\ SourceBudget
================================================================================
