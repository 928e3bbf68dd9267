---- MODULE FailureLimit ----
(***************************************************************************)
(* The limit on failed second factors (POST /api/auth/mfa/verify,          *)
(* mfaFailIncrementAndCheckRevoke). An attempt that fails is counted for   *)
(* its account and for the address it came from, in the window of its      *)
(* arrival; each count is raised by one statement and read by the next, and *)
(* other attempts, of other server processes too, come between. When a     *)
(* count it has read reaches the limit, its answer clears the session.     *)
(*                                                                         *)
(* What makes an attempt right is MfaSecurity's; here it is a free choice. *)
(***************************************************************************)
EXTENDS Naturals, FiniteSets

CONSTANTS
  Attempts,   \* the requests to verify a second factor
  Accounts,
  Addresses,  \* what clientIp makes of the headers; "unknown" is one of them
  MaxFail,    \* MFA_RATE_MAX_FAIL
  WindowSec,  \* MFA_RATE_WINDOW_SEC
  MaxNow      \* bound of the clock

ASSUME LimitAssumption == /\ MaxFail \in Nat \ {0}
                          /\ WindowSec \in Nat \ {0}
                          /\ MaxNow \in Nat

VARIABLES
  clock,    \* the time of day, in seconds
  bucket,   \* RateLimitBucket: the count of a key and a window (0: no row)
  attempt   \* the handlers

limitVars == <<clock, bucket, attempt>>

Times == 0..MaxNow

\* Mutant: one window for all times.
OneWindow(t) == 0

\* rateLimitBucketStart
BucketStart(t) == (t \div WindowSec) * WindowSec

Starts == {BucketStart(t) : t \in Times}

\* An account is counted under `mfa:user:...`, an address under `mfa:ip:...` and its digest.
Keys == ({"user"} \X Accounts) \cup ({"ip"} \X Addresses)

\* Ends of an attempt: it passed, failed and kept its session, failed and lost it, or
\* broke off (a refusal that is not counted, an exception, a crash).
AttemptEnds == {"passed", "kept", "revoked", "broken"}
CountingPcs == {"raiseUser", "readUser", "raiseIp", "readIp"}

\* count: as read for the key; place (history): the count that its own raise made.
NoCounts == [user |-> 0, ip |-> 0]
NoAttempt(u, a) == [pc |-> "idle", user |-> u, ip |-> a, nowSec |-> 0,
                    count |-> NoCounts, place |-> NoCounts]

Counts == [user: Nat, ip: Nat]
AttemptRecords == [pc: {"idle", "check"} \cup CountingPcs \cup AttemptEnds,
                   user: Accounts, ip: Addresses, nowSec: Times, count: Counts, place: Counts]

LimitTypeOK ==
  /\ clock \in Times
  /\ bucket \in [Keys \X Starts -> Nat]
  /\ attempt \in [Attempts -> AttemptRecords]

LimitInit ==
  /\ clock \in Times
  /\ bucket = [row \in Keys \X Starts |-> 0]
  /\ \E u \in [Attempts -> Accounts], a \in [Attempts -> Addresses] :
       attempt = [x \in Attempts |-> NoAttempt(u[x], a[x])]

----
\* The key of an attempt: "user" or "ip", and the row it names.
KeyOf(x, kind) == <<kind, attempt[x][kind]>>
RowOf(x, kind) == <<KeyOf(x, kind), BucketStart(attempt[x].nowSec)>>

TickClock ==
  /\ clock < MaxNow
  /\ clock' = clock + 1
  /\ UNCHANGED <<bucket, attempt>>

\* The gate, the CSRF token and the account's row are in order; nowSec is read.
Arrives(x) ==
  /\ attempt[x].pc = "idle"
  /\ attempt' = [attempt EXCEPT ![x].pc = "check", ![x].nowSec = clock]
  /\ UNCHANGED <<clock, bucket>>

Passes(x) ==
  /\ attempt[x].pc = "check"
  /\ attempt' = [attempt EXCEPT ![x].pc = "passed"]
  /\ UNCHANGED <<clock, bucket>>

\* onFail
Fails(x) ==
  /\ attempt[x].pc = "check"
  /\ attempt' = [attempt EXCEPT ![x].pc = "raiseUser"]
  /\ UNCHANGED <<clock, bucket>>

\* bump, first statement: INSERT ... ON CONFLICT DO UPDATE SET count = count + 1.
Raise(x, kind, next) ==
  /\ bucket' = [bucket EXCEPT ![RowOf(x, kind)] = @ + 1]
  /\ attempt' = [attempt EXCEPT ![x].pc = next,
                                ![x].place[kind] = bucket[RowOf(x, kind)] + 1]
  /\ UNCHANGED clock

RaiseUser(x) == attempt[x].pc = "raiseUser" /\ Raise(x, "user", "readUser")

\* bump, second statement: SELECT count.
ReadUser(x) ==
  /\ attempt[x].pc = "readUser"
  /\ attempt' = [attempt EXCEPT ![x].pc = "raiseIp", ![x].count.user = bucket[RowOf(x, "user")]]
  /\ UNCHANGED <<clock, bucket>>

RaiseIp(x) == attempt[x].pc = "raiseIp" /\ Raise(x, "ip", "readIp")

\* Mutant: only the account's count decides.
RevokesByUser(userCount, ipCount) == userCount >= MaxFail

Revokes(userCount, ipCount) == userCount >= MaxFail \/ ipCount >= MaxFail

\* The last SELECT, and the answer: 400, with the session's cookie cleared or not.
ReadIp(x) ==
  LET ipCount == bucket[RowOf(x, "ip")] IN
  /\ attempt[x].pc = "readIp"
  /\ attempt' = [attempt EXCEPT
       ![x].pc = IF Revokes(attempt[x].count.user, ipCount) THEN "revoked" ELSE "kept",
       ![x].count.ip = ipCount]
  /\ UNCHANGED <<clock, bucket>>

\* An answer that is not counted, or an error in any statement: the session is kept.
Breaks(x) ==
  /\ attempt[x].pc \in {"check"} \cup CountingPcs
  /\ attempt' = [attempt EXCEPT ![x].pc = "broken"]
  /\ UNCHANGED <<clock, bucket>>

LimitStep(x) ==
  \/ Arrives(x) \/ Passes(x) \/ Fails(x) \/ Breaks(x)
  \/ RaiseUser(x) \/ ReadUser(x) \/ RaiseIp(x) \/ ReadIp(x)

LimitNext == TickClock \/ \E x \in Attempts : LimitStep(x)

LimitSpec == LimitInit /\ [][LimitNext]_limitVars

----
\* The attempts on an account, or from an address, that arrived in a window.
Within(x, key, w) ==
  /\ attempt[x].nowSec \div WindowSec = w
  /\ key = KeyOf(x, key[1])

\* Those that failed and were not cut off from the session.
Kept(key, w) == {x \in Attempts : attempt[x].pc = "kept" /\ Within(x, key, w)}

\* Those that were counted, if only for the account.
Counted(key, w) == {x \in Attempts : attempt[x].place[key[1]] # 0 /\ Within(x, key, w)}

\* At most MaxFail - 1 failed attempts of one window keep their session, on each account and
\* from each address, however their statements interleave: whoever raises a count to the limit
\* or beyond it reads no less than he made of it. (mfaFailIncrementAndCheckRevoke)
FailuresAreLimited ==
  \A key \in Keys, w \in Times : IsFiniteSet(Kept(key, w)) /\ Cardinality(Kept(key, w)) < MaxFail

\* A session is cleared only after MaxFail failures in its window, on its account or from its
\* address; another window's, another account's elsewhere, do not add to them.
RevokedForCause ==
  \A x \in Attempts : attempt[x].pc = "revoked" =>
    \E kind \in {"user", "ip"} :
      Cardinality(Counted(KeyOf(x, kind), attempt[x].nowSec \div WindowSec)) >= MaxFail

====
