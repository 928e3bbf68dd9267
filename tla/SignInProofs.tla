---------------------------- MODULE SignInProofs ----------------------------
(***************************************************************************)
(* Proofs about signing in. FailureLimit: how many failed second factors   *)
(* keep their session, and why one loses it. PasskeyCounter: when a        *)
(* counter falls, and when it refuses. SignIn: that a tab stays on its     *)
(* way, and that redirects come to an end.                                 *)
(***************************************************************************)
EXTENDS FailureLimit, PasskeyCounter, SignIn, FiniteSetTheorems, TLAPS

-----------------------------------------------------------------------------
(* The failure limit. *)

KeyKinds == {"user", "ip"}

Row(x, kind) == RowOf(x, kind)
Place(x, kind) == attempt[x].place[kind]

\* What an attempt has not counted yet.
Uncounted(x) ==
  /\ attempt[x].pc \in {"idle", "check", "raiseUser"} => Place(x, "user") = 0
  /\ attempt[x].pc \in {"idle", "check", "raiseUser", "readUser", "raiseIp"}
       => Place(x, "ip") = 0

\* What it has counted, and read: no less than its own raise made, no more than there is now.
HasCounted(x) ==
  /\ attempt[x].pc \in {"readUser", "raiseIp", "readIp", "kept", "revoked"}
       => Place(x, "user") # 0
  /\ attempt[x].pc \in {"readIp", "kept", "revoked"} => Place(x, "ip") # 0
  /\ attempt[x].pc \in {"raiseIp", "readIp", "kept", "revoked"} =>
       attempt[x].count.user \in Place(x, "user")..bucket[Row(x, "user")]
  /\ attempt[x].pc \in {"kept", "revoked"} =>
       attempt[x].count.ip \in Place(x, "ip")..bucket[Row(x, "ip")]

\* How its answer follows from the counts.
Decided(x) ==
  /\ attempt[x].pc = "kept" => attempt[x].count.user < MaxFail /\ attempt[x].count.ip < MaxFail
  /\ attempt[x].pc = "revoked" =>
       attempt[x].count.user >= MaxFail \/ attempt[x].count.ip >= MaxFail

\* The places of a row's attempts are the numbers from 1 to its count, each taken once.
PlacesWithin ==
  \A x \in Attempts, kind \in KeyKinds : Place(x, kind) <= bucket[Row(x, kind)]

PlacesDistinct ==
  \A x, y \in Attempts, kind \in KeyKinds :
    Place(x, kind) # 0 /\ Place(x, kind) = Place(y, kind) /\ Row(x, kind) = Row(y, kind)
      => x = y

PlacesTaken ==
  \A key \in Keys, start \in Starts : \A n \in 1..bucket[<<key, start>>] :
    \E x \in Attempts : Place(x, key[1]) = n /\ Row(x, key[1]) = <<key, start>>

LimitInv ==
  /\ LimitTypeOK
  /\ \A x \in Attempts : Uncounted(x) /\ HasCounted(x) /\ Decided(x)
  /\ PlacesWithin /\ PlacesDistinct /\ PlacesTaken

\* Rows and keys are what the tables are indexed with.
LEMMA RowType ==
  ASSUME LimitTypeOK, NEW x \in Attempts, NEW kind \in KeyKinds
  PROVE  /\ Row(x, kind) \in Keys \X Starts
         /\ Row(x, kind) = <<KeyOf(x, kind), BucketStart(attempt[x].nowSec)>>
         /\ KeyOf(x, kind) \in Keys /\ KeyOf(x, kind)[1] = kind
         /\ BucketStart(attempt[x].nowSec) \in Starts
         /\ bucket[Row(x, kind)] \in Nat
         /\ Place(x, kind) \in Nat
<1>1. attempt[x] \in AttemptRecords BY DEF LimitTypeOK
<1>2. attempt[x].user \in Accounts /\ attempt[x].ip \in Addresses /\ attempt[x].nowSec \in Times
  BY <1>1 DEF AttemptRecords
<1>3. KeyOf(x, kind) \in Keys /\ KeyOf(x, kind)[1] = kind
  <2>1. CASE kind = "user" BY <2>1, <1>2 DEF KeyOf, Keys
  <2>2. CASE kind = "ip" BY <2>2, <1>2 DEF KeyOf, Keys
  <2> QED BY <2>1, <2>2 DEF KeyKinds
<1>4. BucketStart(attempt[x].nowSec) \in Starts BY <1>2 DEF Starts
<1>5. Row(x, kind) = <<KeyOf(x, kind), BucketStart(attempt[x].nowSec)>> BY DEF Row, RowOf
<1>6. bucket[Row(x, kind)] \in Nat BY <1>3, <1>4, <1>5 DEF LimitTypeOK
<1>7. Place(x, kind) \in Nat BY <1>1 DEF AttemptRecords, Counts, Place, KeyKinds
<1> QED BY <1>3, <1>4, <1>5, <1>6, <1>7

LEMMA LimitInitInv == LimitInit => LimitInv
<1> SUFFICES ASSUME LimitInit PROVE LimitInv OBVIOUS
<1>1. PICK u \in [Attempts -> Accounts], a \in [Attempts -> Addresses] :
        attempt = [x \in Attempts |-> NoAttempt(u[x], a[x])]
  BY DEF LimitInit
<1>2. LimitTypeOK
  <2>1. attempt \in [Attempts -> AttemptRecords]
    <3> SUFFICES ASSUME NEW x \in Attempts PROVE NoAttempt(u[x], a[x]) \in AttemptRecords
      BY <1>1
    <3>1. 0 \in Times BY LimitAssumption DEF Times
    <3> QED BY <3>1 DEF NoAttempt, AttemptRecords, NoCounts, Counts
  <2> QED BY <2>1 DEF LimitInit, LimitTypeOK
<1>3. \A x \in Attempts, kind \in KeyKinds : attempt[x].pc = "idle" /\ Place(x, kind) = 0
  BY <1>1 DEF NoAttempt, NoCounts, Place, KeyKinds
<1>4. \A x \in Attempts : Uncounted(x) /\ HasCounted(x) /\ Decided(x)
  BY <1>3 DEF Uncounted, HasCounted, Decided, KeyKinds
<1>5. PlacesWithin
  <2> SUFFICES ASSUME NEW x \in Attempts, NEW kind \in KeyKinds
               PROVE  Place(x, kind) <= bucket[Row(x, kind)]
    BY DEF PlacesWithin
  <2> QED BY <1>2, <1>3, RowType
<1>6. PlacesDistinct BY <1>3 DEF PlacesDistinct
<1>7. PlacesTaken
  <2>1. \A key \in Keys, start \in Starts : bucket[<<key, start>>] = 0 BY DEF LimitInit
  <2> QED BY <2>1 DEF PlacesTaken
<1> QED BY <1>2, <1>4, <1>5, <1>6, <1>7 DEF LimitInv

-----------------------------------------------------------------------------

\* A step that counts nothing, and moves no attempt that is counted to another row.
LEMMA PlacesKept ==
  ASSUME LimitInv, LimitTypeOK', bucket' = bucket,
         \A y \in Attempts, kind \in KeyKinds :
           /\ Place(y, kind)' = Place(y, kind)
           /\ Place(y, kind) # 0 => Row(y, kind)' = Row(y, kind)
  PROVE  PlacesWithin' /\ PlacesDistinct' /\ PlacesTaken'
<1>1. PlacesWithin'
  <2> SUFFICES ASSUME NEW x \in Attempts, NEW kind \in KeyKinds
               PROVE  Place(x, kind)' <= bucket'[Row(x, kind)']
    BY DEF PlacesWithin
  <2>1. CASE Place(x, kind) = 0
    <3>1. attempt'[x] \in AttemptRecords BY DEF LimitTypeOK
    <3>2. /\ attempt'[x].user \in Accounts /\ attempt'[x].ip \in Addresses
          /\ BucketStart(attempt'[x].nowSec) \in Starts
      BY <3>1 DEF AttemptRecords, Starts
    <3>3. <<kind, attempt'[x][kind]>> \in Keys BY <3>2 DEF Keys, KeyKinds
    <3>4. Row(x, kind)' \in Keys \X Starts BY <3>2, <3>3 DEF Row, RowOf, KeyOf
    <3>5. bucket'[Row(x, kind)'] \in Nat BY <3>4 DEF LimitTypeOK
    <3> QED BY <2>1, <3>5
  <2>2. CASE Place(x, kind) # 0 BY <2>2 DEF LimitInv, PlacesWithin
  <2> QED BY <2>1, <2>2
<1>2. PlacesDistinct' BY DEF LimitInv, PlacesDistinct
<1>3. PlacesTaken'
  <2> SUFFICES ASSUME NEW key \in Keys, NEW start \in Starts, NEW n \in 1..bucket[<<key, start>>]
               PROVE  \E x \in Attempts :
                        Place(x, key[1])' = n /\ Row(x, key[1])' = <<key, start>>
    BY DEF PlacesTaken
  <2>1. PICK x \in Attempts : Place(x, key[1]) = n /\ Row(x, key[1]) = <<key, start>>
    BY DEF LimitInv, PlacesTaken
  <2>2. key[1] \in KeyKinds BY DEF Keys, KeyKinds
  <2>3. n # 0 OBVIOUS
  <2> QED BY <2>1, <2>2, <2>3
<1> QED BY <1>1, <1>2, <1>3

\* The statement that counts an attempt.
LEMMA PlacesRaised ==
  ASSUME LimitInv, LimitTypeOK', NEW x \in Attempts, NEW kind \in KeyKinds, NEW next,
         Raise(x, kind, next), Place(x, kind) = 0
  PROVE  /\ PlacesWithin' /\ PlacesDistinct' /\ PlacesTaken'
         /\ Place(x, kind)' = bucket[Row(x, kind)] + 1
         /\ Row(x, kind)' = Row(x, kind)
         /\ bucket'[Row(x, kind)] = bucket[Row(x, kind)] + 1
         /\ \A y \in Attempts, k \in KeyKinds :
              /\ bucket'[Row(y, k)] >= bucket[Row(y, k)]
              /\ Row(y, k)' = Row(y, k)
              /\ y # x \/ k # kind => Place(y, k)' = Place(y, k)
<1>0. LimitTypeOK /\ attempt \in [Attempts -> AttemptRecords] BY DEF LimitInv, LimitTypeOK
<1>1. \A y \in Attempts, k \in KeyKinds :
        /\ Row(y, k) \in Keys \X Starts /\ bucket[Row(y, k)] \in Nat /\ Place(y, k) \in Nat
  BY <1>0, RowType
<1> DEFINE row == Row(x, kind)
<1>2. bucket' = [bucket EXCEPT ![row] = bucket[row] + 1] BY DEF Raise, Row
<1>3. bucket'[row] = bucket[row] + 1 BY <1>0, <1>1, <1>2 DEF LimitTypeOK
<1>4. \A y \in Attempts :
        /\ attempt'[y].user = attempt[y].user /\ attempt'[y].ip = attempt[y].ip
        /\ attempt'[y].nowSec = attempt[y].nowSec
  BY <1>0 DEF Raise, AttemptRecords
<1>5. ASSUME NEW y \in Attempts, NEW k \in KeyKinds PROVE Row(y, k)' = Row(y, k)
  BY <1>4 DEF KeyKinds, Row, RowOf, KeyOf
<1>6. attempt'[x].place = [attempt[x].place EXCEPT ![kind] = bucket[row] + 1]
  BY <1>0 DEF Raise, AttemptRecords, Row
<1>7. attempt[x].place \in Counts BY <1>0 DEF AttemptRecords
<1>8. Place(x, kind)' = bucket[row] + 1 BY <1>6, <1>7 DEF Place, Counts, KeyKinds
<1>9. ASSUME NEW y \in Attempts, NEW k \in KeyKinds, y # x \/ k # kind
      PROVE  Place(y, k)' = Place(y, k)
  <2>1. CASE y # x
    <3>1. attempt'[y] = attempt[y] BY <2>1, <1>0 DEF Raise
    <3> QED BY <3>1 DEF Place
  <2>2. CASE y = x /\ k # kind BY <2>2, <1>6, <1>7 DEF Place, Counts, KeyKinds
  <2> QED BY <1>9, <2>1, <2>2
<1>10. ASSUME NEW y \in Attempts, NEW k \in KeyKinds
       PROVE  bucket'[Row(y, k)] >= bucket[Row(y, k)]
  BY <1>0, <1>1, <1>2 DEF LimitTypeOK
<1> HIDE DEF row
<1>11. PlacesWithin'
  <2> SUFFICES ASSUME NEW y \in Attempts, NEW k \in KeyKinds
               PROVE  Place(y, k)' <= bucket'[Row(y, k)']
    BY DEF PlacesWithin
  <2>1. CASE y = x /\ k = kind BY <2>1, <1>1, <1>3, <1>5, <1>8 DEF row
  <2>2. CASE y # x \/ k # kind
    <3>1. Place(y, k) <= bucket[Row(y, k)] BY DEF LimitInv, PlacesWithin
    <3>2. bucket'[Row(y, k)] \in Nat BY <1>0, <1>1 DEF LimitTypeOK
    <3> QED BY <2>2, <3>1, <3>2, <1>1, <1>5, <1>9, <1>10
  <2> QED BY <2>1, <2>2
<1>12. PlacesDistinct'
  <2> SUFFICES ASSUME NEW y \in Attempts, NEW z \in Attempts, NEW k \in KeyKinds,
                      Place(y, k)' # 0, Place(y, k)' = Place(z, k)', Row(y, k)' = Row(z, k)'
               PROVE  y = z
    BY DEF PlacesDistinct
  <2>1. CASE k # kind \/ (y # x /\ z # x)
    <3>1. Place(y, k) = Place(z, k) /\ Place(y, k) # 0 /\ Row(y, k) = Row(z, k)
      BY <2>1, <1>5, <1>9
    <3> QED BY <3>1 DEF LimitInv, PlacesDistinct
  <2>2. ASSUME NEW q \in Attempts, q # x, k = kind,
               Place(q, kind)' = Place(x, kind)', Row(q, kind)' = Row(x, kind)'
        PROVE  FALSE
    <3>1. Place(q, kind) <= bucket[row]
      BY <2>2, <1>5 DEF LimitInv, PlacesWithin, row
    <3>2. Place(q, kind) = bucket[row] + 1 BY <2>2, <1>8, <1>9
    <3>3. bucket[row] \in Nat BY <1>1 DEF row
    <3> QED BY <3>1, <3>2, <3>3
  <2> QED BY <2>1, <2>2
<1>13. PlacesTaken'
  <2> SUFFICES ASSUME NEW key \in Keys, NEW start \in Starts, NEW n \in 1..bucket'[<<key, start>>]
               PROVE  \E y \in Attempts :
                        Place(y, key[1])' = n /\ Row(y, key[1])' = <<key, start>>
    BY DEF PlacesTaken
  <2>1. key[1] \in KeyKinds BY DEF Keys, KeyKinds
  <2>2. CASE n \in 1..bucket[<<key, start>>]
    <3>1. PICK y \in Attempts : Place(y, key[1]) = n /\ Row(y, key[1]) = <<key, start>>
      BY <2>2 DEF LimitInv, PlacesTaken
    <3>2. n # 0 BY <2>2
    <3>3. ~(y = x /\ key[1] = kind) BY <3>1, <3>2
    <3> QED BY <2>1, <3>1, <3>3, <1>5, <1>9
  <2>3. CASE n \notin 1..bucket[<<key, start>>]
    <3>1. <<key, start>> = row /\ n = bucket[row] + 1
      BY <2>3, <1>0, <1>1, <1>2 DEF LimitTypeOK, row
    <3>2. key[1] = kind
      <4>1. row = <<KeyOf(x, kind), BucketStart(attempt[x].nowSec)>> /\ KeyOf(x, kind)[1] = kind
        BY <1>0, RowType DEF row
      <4> QED BY <3>1, <4>1
    <3> QED BY <3>1, <3>2, <1>5, <1>8 DEF row
  <2> QED BY <2>2, <2>3
<1> QED BY <1>3, <1>5, <1>8, <1>9, <1>10, <1>11, <1>12, <1>13 DEF row

-----------------------------------------------------------------------------

LEMMA RaiseType ==
  ASSUME LimitTypeOK, NEW x \in Attempts, NEW kind \in KeyKinds,
         NEW next \in CountingPcs, Raise(x, kind, next)
  PROVE  LimitTypeOK'
<1>1. attempt \in [Attempts -> AttemptRecords] /\ bucket \in [Keys \X Starts -> Nat]
  BY DEF LimitTypeOK
<1>2. RowOf(x, kind) \in Keys \X Starts /\ bucket[RowOf(x, kind)] \in Nat BY RowType DEF Row
<1>3. bucket' \in [Keys \X Starts -> Nat] BY <1>1, <1>2 DEF Raise
<1>4. attempt[x].place \in Counts BY <1>1 DEF AttemptRecords
<1> DEFINE place == [attempt[x].place EXCEPT ![kind] = bucket[RowOf(x, kind)] + 1]
<1>5. place \in Counts BY <1>2, <1>4 DEF Counts, KeyKinds
<1>6. attempt' = [attempt EXCEPT ![x] = [attempt[x] EXCEPT !.pc = next, !.place = place]]
  BY <1>1 DEF Raise, AttemptRecords
<1> HIDE DEF place
<1>7. attempt' \in [Attempts -> AttemptRecords] BY <1>1, <1>5, <1>6 DEF AttemptRecords
<1> QED BY <1>3, <1>7 DEF LimitTypeOK, Raise

LEMMA LimitTypeStep ==
  ASSUME LimitTypeOK, [LimitNext]_limitVars
  PROVE  LimitTypeOK'
<1>1. attempt \in [Attempts -> AttemptRecords] /\ clock \in Times BY DEF LimitTypeOK
<1>2. CASE TickClock
  <2>1. clock' \in Times BY <1>2, <1>1, LimitAssumption DEF TickClock, Times
  <2> QED BY <1>2, <2>1 DEF TickClock, LimitTypeOK
<1>3. ASSUME NEW x \in Attempts, Arrives(x) PROVE LimitTypeOK'
  <2>1. attempt' \in [Attempts -> AttemptRecords] BY <1>1, <1>3 DEF Arrives, AttemptRecords
  <2> QED BY <1>3, <2>1 DEF Arrives, LimitTypeOK
<1>4. ASSUME NEW x \in Attempts, Passes(x) \/ Fails(x) \/ Breaks(x) PROVE LimitTypeOK'
  <2>1. attempt' \in [Attempts -> AttemptRecords]
    BY <1>1, <1>4 DEF Passes, Fails, Breaks, AttemptRecords, AttemptEnds, CountingPcs
  <2> QED BY <1>4, <2>1 DEF Passes, Fails, Breaks, LimitTypeOK
<1>5. ASSUME NEW x \in Attempts, RaiseUser(x) PROVE LimitTypeOK'
  BY <1>5, RaiseType DEF RaiseUser, KeyKinds, CountingPcs
<1>6. ASSUME NEW x \in Attempts, RaiseIp(x) PROVE LimitTypeOK'
  BY <1>6, RaiseType DEF RaiseIp, KeyKinds, CountingPcs
<1>7. ASSUME NEW x \in Attempts, ReadUser(x) PROVE LimitTypeOK'
  <2>1. bucket[RowOf(x, "user")] \in Nat BY RowType DEF Row, KeyKinds
  <2> DEFINE count == [attempt[x].count EXCEPT !.user = bucket[RowOf(x, "user")]]
  <2>3. attempt[x].count \in Counts BY <1>1 DEF AttemptRecords
  <2>4. count \in Counts BY <2>1, <2>3 DEF Counts
  <2>5. attempt' = [attempt EXCEPT ![x] = [attempt[x] EXCEPT !.pc = "raiseIp", !.count = count]]
    BY <1>1, <1>7 DEF ReadUser, AttemptRecords
  <2> HIDE DEF count
  <2>2. attempt' \in [Attempts -> AttemptRecords]
    BY <1>1, <2>4, <2>5 DEF AttemptRecords, CountingPcs
  <2> QED BY <1>7, <2>2 DEF ReadUser, LimitTypeOK
<1>8. ASSUME NEW x \in Attempts, ReadIp(x) PROVE LimitTypeOK'
  <2>1. bucket[RowOf(x, "ip")] \in Nat BY RowType DEF Row, KeyKinds
  <2> DEFINE count == [attempt[x].count EXCEPT !.ip = bucket[RowOf(x, "ip")]]
             end == IF Revokes(attempt[x].count.user, bucket[RowOf(x, "ip")])
                      THEN "revoked" ELSE "kept"
  <2>3. attempt[x].count \in Counts BY <1>1 DEF AttemptRecords
  <2>4. count \in Counts BY <2>1, <2>3 DEF Counts
  <2>5. end \in AttemptEnds BY DEF AttemptEnds
  <2>6. attempt' = [attempt EXCEPT ![x] = [attempt[x] EXCEPT !.pc = end, !.count = count]]
    BY <1>1, <1>8 DEF ReadIp, AttemptRecords
  <2> HIDE DEF count, end
  <2>2. attempt' \in [Attempts -> AttemptRecords]
    BY <1>1, <2>4, <2>5, <2>6 DEF AttemptRecords
  <2> QED BY <1>8, <2>2 DEF ReadIp, LimitTypeOK
<1>9. CASE UNCHANGED limitVars BY <1>9 DEF limitVars, LimitTypeOK
<1> QED BY <1>2, <1>3, <1>4, <1>5, <1>6, <1>7, <1>8, <1>9 DEF LimitNext, LimitStep

\* What is said of one attempt lasts while it rests and its counts only grow.
LEMMA RestingAttempt ==
  ASSUME LimitInv, NEW y \in Attempts, attempt'[y] = attempt[y],
         \A k \in KeyKinds : /\ Row(y, k)' = Row(y, k) /\ bucket'[Row(y, k)] \in Nat
                             /\ bucket'[Row(y, k)] >= bucket[Row(y, k)]
  PROVE  Uncounted(y)' /\ HasCounted(y)' /\ Decided(y)'
<1>1. Uncounted(y) /\ HasCounted(y) /\ Decided(y) BY DEF LimitInv
<1>2. \A k \in KeyKinds : Place(y, k)' = Place(y, k) BY DEF Place
<1>3. \A k \in KeyKinds : bucket[Row(y, k)] \in Nat BY RowType DEF LimitInv
<1>4. Uncounted(y)' BY <1>1, <1>2 DEF Uncounted, KeyKinds
<1>5. Decided(y)' BY <1>1 DEF Decided
<1>6. HasCounted(y)'
  <2>1. attempt[y].count \in Counts BY DEF LimitInv, LimitTypeOK, AttemptRecords
  <2>2. ASSUME NEW k \in KeyKinds, NEW c \in Nat, c \in Place(y, k)..bucket[Row(y, k)]
        PROVE  c \in Place(y, k)'..bucket'[Row(y, k)']
    <3>1. Place(y, k) \in Nat BY RowType DEF LimitInv
    <3> QED BY <2>2, <3>1, <1>2, <1>3
  <2>3. attempt[y].count.user \in Nat /\ attempt[y].count.ip \in Nat BY <2>1 DEF Counts
  <2> QED BY <1>1, <1>2, <2>2, <2>3 DEF HasCounted, KeyKinds
<1> QED BY <1>4, <1>5, <1>6

\* An attempt's step, as its record changes.
Becomes(x, pc, count, place) ==
  /\ attempt'[x].pc = pc /\ attempt'[x].count = count /\ attempt'[x].place = place
  /\ attempt'[x].user = attempt[x].user /\ attempt'[x].ip = attempt[x].ip
  /\ \A y \in Attempts \ {x} : attempt'[y] = attempt[y]

\* A step of x that counts nothing.
LEMMA QuietAttempt ==
  ASSUME LimitInv, LimitTypeOK', NEW x \in Attempts, NEW pc, NEW count,
         Becomes(x, pc, count, attempt[x].place), bucket' = bucket,
         attempt'[x].nowSec = attempt[x].nowSec \/ attempt[x].pc = "idle",
         Uncounted(x)' /\ HasCounted(x)' /\ Decided(x)'
  PROVE  LimitInv'
<1>1. attempt \in [Attempts -> AttemptRecords] BY DEF LimitInv, LimitTypeOK
<1>2. ASSUME NEW y \in Attempts, NEW k \in KeyKinds PROVE Place(y, k)' = Place(y, k)
  BY DEF Becomes, Place
<1>3. ASSUME NEW y \in Attempts, NEW k \in KeyKinds, y # x \/ attempt[x].pc # "idle"
      PROVE  Row(y, k)' = Row(y, k)
  <2>1. attempt'[y].user = attempt[y].user /\ attempt'[y].ip = attempt[y].ip
        /\ attempt'[y].nowSec = attempt[y].nowSec
    BY <1>3 DEF Becomes
  <2> QED BY <2>1 DEF Row, RowOf, KeyOf, KeyKinds
<1>4. attempt[x].pc = "idle" => \A k \in KeyKinds : Place(x, k) = 0
  BY DEF LimitInv, Uncounted, KeyKinds
<1>5. PlacesWithin' /\ PlacesDistinct' /\ PlacesTaken'
  BY <1>2, <1>3, <1>4, PlacesKept
<1>6. ASSUME NEW y \in Attempts PROVE Uncounted(y)' /\ HasCounted(y)' /\ Decided(y)'
  <2>1. CASE y = x BY <2>1
  <2>2. CASE y # x
    <3>1. attempt'[y] = attempt[y] BY <2>2 DEF Becomes
    <3>2. \A k \in KeyKinds : bucket[Row(y, k)] \in Nat BY RowType DEF LimitInv
    <3> QED BY <2>2, <3>1, <3>2, <1>3, RestingAttempt
  <2> QED BY <2>1, <2>2
<1> QED BY <1>5, <1>6 DEF LimitInv

\* The step of x that counts it.
LEMMA CountingAttempt ==
  ASSUME LimitInv, LimitTypeOK', NEW x \in Attempts, NEW kind \in KeyKinds, NEW next,
         Raise(x, kind, next), Place(x, kind) = 0,
         Uncounted(x)' /\ HasCounted(x)' /\ Decided(x)'
  PROVE  LimitInv'
<1>1. attempt \in [Attempts -> AttemptRecords] BY DEF LimitInv, LimitTypeOK
<1>2. PlacesWithin' /\ PlacesDistinct' /\ PlacesTaken' BY PlacesRaised
<1>3. ASSUME NEW y \in Attempts, y # x PROVE Uncounted(y)' /\ HasCounted(y)' /\ Decided(y)'
  <2>1. attempt'[y] = attempt[y] BY <1>1, <1>3 DEF Raise
  <2>2. ASSUME NEW k \in KeyKinds
        PROVE  /\ Row(y, k)' = Row(y, k) /\ bucket'[Row(y, k)] \in Nat
               /\ bucket'[Row(y, k)] >= bucket[Row(y, k)]
    <3>1. Row(y, k) \in Keys \X Starts BY RowType DEF LimitInv
    <3> QED BY <3>1, PlacesRaised DEF LimitTypeOK
  <2> QED BY <2>1, <2>2, RestingAttempt
<1> QED BY <1>2, <1>3 DEF LimitInv

LEMMA LimitStepInv ==
  ASSUME LimitInv, [LimitNext]_limitVars
  PROVE  LimitInv'
<1>0. LimitTypeOK' /\ attempt \in [Attempts -> AttemptRecords]
  BY LimitTypeStep DEF LimitInv, LimitTypeOK
<1>1. \A x \in Attempts : Uncounted(x) /\ HasCounted(x) /\ Decided(x) BY DEF LimitInv
<1>2. \A x \in Attempts, k \in KeyKinds : bucket[Row(x, k)] \in Nat /\ Place(x, k) \in Nat
  BY RowType DEF LimitInv
<1>3. CASE UNCHANGED <<bucket, attempt>>
  <2>1. \A x \in Attempts : Uncounted(x)' /\ HasCounted(x)' /\ Decided(x)'
    BY <1>1, <1>3 DEF Uncounted, HasCounted, Decided, Place, Row, RowOf, KeyOf
  <2>2. PlacesWithin' /\ PlacesDistinct' /\ PlacesTaken'
    BY <1>3 DEF LimitInv, PlacesWithin, PlacesDistinct, PlacesTaken, Place, Row, RowOf, KeyOf
  <2> QED BY <1>0, <2>1, <2>2 DEF LimitInv
<1>4. ASSUME NEW x \in Attempts, Arrives(x) PROVE LimitInv'
  <2>1. Becomes(x, "check", attempt[x].count, attempt[x].place) /\ bucket' = bucket
    BY <1>0, <1>4 DEF Arrives, Becomes, AttemptRecords
  <2>2. Uncounted(x)' /\ HasCounted(x)' /\ Decided(x)'
    BY <1>1, <1>4, <2>1 DEF Arrives, Becomes, Uncounted, HasCounted, Decided, Place
  <2> QED BY <1>0, <1>4, <2>1, <2>2, QuietAttempt DEF Arrives
<1>5. ASSUME NEW x \in Attempts, NEW pc \in {"passed", "broken", "raiseUser"},
             attempt' = [attempt EXCEPT ![x].pc = pc], bucket' = bucket,
             pc = "raiseUser" => attempt[x].pc = "check"
      PROVE  LimitInv'
  <2>1. Becomes(x, pc, attempt[x].count, attempt[x].place)
        /\ attempt'[x].nowSec = attempt[x].nowSec
    BY <1>0, <1>5 DEF Becomes, AttemptRecords
  <2>2. Uncounted(x)' /\ HasCounted(x)' /\ Decided(x)'
    BY <1>1, <1>5, <2>1 DEF Becomes, Uncounted, HasCounted, Decided, Place
  <2> QED BY <1>0, <1>5, <2>1, <2>2, QuietAttempt
<1>6. ASSUME NEW x \in Attempts, RaiseUser(x) PROVE LimitInv'
  <2>1. Place(x, "user") = 0 /\ Place(x, "ip") = 0 BY <1>1, <1>6 DEF RaiseUser, Uncounted
  <2>2. attempt'[x].pc = "readUser" BY <1>0, <1>6 DEF RaiseUser, Raise, AttemptRecords
  <2>3. Raise(x, "user", "readUser") /\ "user" \in KeyKinds /\ "ip" \in KeyKinds
    BY <1>6 DEF RaiseUser, KeyKinds
  <2>4. Place(x, "user")' = bucket[Row(x, "user")] + 1 /\ Place(x, "ip")' = Place(x, "ip")
    BY <1>0, <2>1, <2>3, PlacesRaised
  <2>5. Uncounted(x)' /\ HasCounted(x)' /\ Decided(x)'
    BY <1>2, <2>1, <2>2, <2>3, <2>4 DEF Uncounted, HasCounted, Decided
  <2> QED BY <1>0, <2>1, <2>3, <2>5, CountingAttempt
<1>7. ASSUME NEW x \in Attempts, ReadUser(x) PROVE LimitInv'
  <2> DEFINE count == [attempt[x].count EXCEPT !.user = bucket[RowOf(x, "user")]]
  <2>1. attempt' = [attempt EXCEPT ![x] = [attempt[x] EXCEPT !.pc = "raiseIp", !.count = count]]
        /\ bucket' = bucket /\ attempt[x].pc = "readUser"
    BY <1>0, <1>7 DEF ReadUser, AttemptRecords
  <2>2. count.user = bucket[Row(x, "user")]
    BY <1>0 DEF Row, AttemptRecords, Counts
  <2> HIDE DEF count
  <2>3. Becomes(x, "raiseIp", count, attempt[x].place) /\ attempt'[x].nowSec = attempt[x].nowSec
    BY <1>0, <2>1 DEF Becomes, AttemptRecords
  <2>4. \A k \in KeyKinds : Place(x, k)' = Place(x, k) /\ Row(x, k)' = Row(x, k)
    BY <2>3 DEF Becomes, Place, Row, RowOf, KeyOf, KeyKinds
  <2>5. Place(x, "user") <= bucket[Row(x, "user")]
    BY DEF LimitInv, PlacesWithin, KeyKinds
  <2>6. attempt'[x].count.user \in Place(x, "user")'..bucket'[Row(x, "user")']
    BY <1>2, <2>1, <2>2, <2>3, <2>4, <2>5 DEF Becomes, KeyKinds
  <2>7. Uncounted(x)' /\ HasCounted(x)' /\ Decided(x)'
    BY <1>1, <2>1, <2>3, <2>4, <2>6 DEF Becomes, Uncounted, HasCounted, Decided, KeyKinds
  <2> QED BY <1>0, <2>1, <2>3, <2>7, QuietAttempt
<1>8. ASSUME NEW x \in Attempts, RaiseIp(x) PROVE LimitInv'
  <2>1. /\ Place(x, "ip") = 0 /\ Place(x, "user") # 0
        /\ attempt[x].count.user \in Place(x, "user")..bucket[Row(x, "user")]
    BY <1>1, <1>8 DEF RaiseIp, Uncounted, HasCounted
  <2>2. attempt'[x].pc = "readIp" /\ attempt'[x].count = attempt[x].count
    BY <1>0, <1>8 DEF RaiseIp, Raise, AttemptRecords
  <2>3. Raise(x, "ip", "readIp") /\ "user" \in KeyKinds /\ "ip" \in KeyKinds
    BY <1>8 DEF RaiseIp, KeyKinds
  <2>4. /\ Place(x, "ip")' = bucket[Row(x, "ip")] + 1 /\ Place(x, "user")' = Place(x, "user")
        /\ bucket'[Row(x, "user")] >= bucket[Row(x, "user")] /\ Row(x, "user")' = Row(x, "user")
    BY <1>0, <2>1, <2>3, PlacesRaised
  <2>5. bucket'[Row(x, "user")] \in Nat
    <3>1. Row(x, "user") \in Keys \X Starts BY <2>3, RowType DEF LimitInv
    <3> QED BY <3>1, <1>0 DEF LimitTypeOK
  <2>6. attempt[x].count.user \in Place(x, "user")'..bucket'[Row(x, "user")']
    BY <1>2, <2>1, <2>3, <2>4, <2>5
  <2>7. Uncounted(x)' /\ HasCounted(x)' /\ Decided(x)'
    BY <1>2, <2>1, <2>2, <2>3, <2>4, <2>6 DEF Uncounted, HasCounted, Decided
  <2> QED BY <1>0, <2>1, <2>3, <2>7, CountingAttempt
<1>9. ASSUME NEW x \in Attempts, ReadIp(x) PROVE LimitInv'
  <2> DEFINE count == [attempt[x].count EXCEPT !.ip = bucket[RowOf(x, "ip")]]
             end == IF Revokes(attempt[x].count.user, bucket[RowOf(x, "ip")])
                      THEN "revoked" ELSE "kept"
  <2>1. attempt' = [attempt EXCEPT ![x] = [attempt[x] EXCEPT !.pc = end, !.count = count]]
        /\ bucket' = bucket /\ attempt[x].pc = "readIp"
    BY <1>0, <1>9 DEF ReadIp, AttemptRecords
  <2>2. count.ip = bucket[Row(x, "ip")] /\ count.user = attempt[x].count.user
        /\ count.user \in Nat
    BY <1>0 DEF Row, AttemptRecords, Counts
  <2>3. /\ end \in {"kept", "revoked"}
        /\ end = "kept" => count.user < MaxFail /\ count.ip < MaxFail
        /\ end = "revoked" => count.user >= MaxFail \/ count.ip >= MaxFail
    BY <2>2, <1>2, LimitAssumption DEF Row, Revokes, KeyKinds
  <2> HIDE DEF count, end
  <2>4. Becomes(x, end, count, attempt[x].place) /\ attempt'[x].nowSec = attempt[x].nowSec
    BY <1>0, <2>1 DEF Becomes, AttemptRecords
  <2>5. \A k \in KeyKinds : Place(x, k)' = Place(x, k) /\ Row(x, k)' = Row(x, k)
    BY <2>4 DEF Becomes, Place, Row, RowOf, KeyOf, KeyKinds
  <2>6. Place(x, "ip") <= bucket[Row(x, "ip")]
    BY DEF LimitInv, PlacesWithin, KeyKinds
  <2>7. attempt'[x].count.ip \in Place(x, "ip")'..bucket'[Row(x, "ip")']
    BY <1>2, <2>1, <2>2, <2>4, <2>5, <2>6 DEF Becomes, KeyKinds
  <2>8. /\ Place(x, "user") # 0 /\ Place(x, "ip") # 0
        /\ attempt[x].count.user \in Place(x, "user")..bucket[Row(x, "user")]
    BY <1>1, <2>1 DEF HasCounted
  <2>9. attempt'[x].count.user \in Place(x, "user")'..bucket'[Row(x, "user")']
    BY <2>1, <2>2, <2>4, <2>5, <2>8 DEF Becomes, KeyKinds
  <2>10. Uncounted(x)' BY <2>3, <2>4 DEF Becomes, Uncounted
  <2>11. HasCounted(x)' BY <2>4, <2>5, <2>7, <2>8, <2>9 DEF Becomes, HasCounted, KeyKinds
  <2>12. Decided(x)' BY <2>3, <2>4 DEF Becomes, Decided
  <2> QED BY <1>0, <2>1, <2>4, <2>10, <2>11, <2>12, QuietAttempt
<1>10. CASE TickClock BY <1>3, <1>10 DEF TickClock
<1>11. CASE UNCHANGED limitVars BY <1>3, <1>11 DEF limitVars
<1>12. ASSUME NEW x \in Attempts, Passes(x) \/ Fails(x) \/ Breaks(x) PROVE LimitInv'
  BY <1>5, <1>12 DEF Passes, Fails, Breaks
<1> QED BY <1>4, <1>6, <1>7, <1>8, <1>9, <1>10, <1>11, <1>12 DEF LimitNext, LimitStep

-----------------------------------------------------------------------------

\* Windows with one start are one window.
LEMMA SameWindow ==
  ASSUME NEW p \in Nat, NEW q \in Nat, p * WindowSec = q * WindowSec
  PROVE  p = q
<1>1. ASSUME NEW i \in Nat, NEW j \in Nat, i < j PROVE i * WindowSec < j * WindowSec
  <2>1. j - i \in Nat /\ j = i + (j - i) /\ j - i >= 1 BY <1>1
  <2>2. j * WindowSec = i * WindowSec + (j - i) * WindowSec BY <2>1, LimitAssumption
  <2>3. (j - i) * WindowSec >= WindowSec BY <2>1, LimitAssumption
  <2>4. i * WindowSec \in Nat /\ j * WindowSec \in Nat /\ (j - i) * WindowSec \in Nat
    BY <2>1, LimitAssumption
  <2> QED BY <2>2, <2>3, <2>4, LimitAssumption
<1>2. p * WindowSec \in Nat /\ q * WindowSec \in Nat BY LimitAssumption
<1> QED BY <1>1, <1>2

LEMMA WindowType ==
  ASSUME LimitTypeOK, NEW x \in Attempts
  PROVE  attempt[x].nowSec \div WindowSec \in Nat
<1>1. attempt[x].nowSec \in Nat
  BY LimitAssumption DEF LimitTypeOK, AttemptRecords, Times
<1> QED BY <1>1, LimitAssumption

\* The attempts of a key and a window are those of its row.
LEMMA WithinRow ==
  ASSUME LimitTypeOK, NEW x \in Attempts, NEW key \in Keys, NEW w \in Nat
  PROVE  Within(x, key, w) <=> Row(x, key[1]) = <<key, w * WindowSec>>
<1>1. key[1] \in KeyKinds BY DEF Keys, KeyKinds
<1>2. Row(x, key[1]) = <<KeyOf(x, key[1]), (attempt[x].nowSec \div WindowSec) * WindowSec>>
  BY <1>1, RowType DEF BucketStart
<1>3. attempt[x].nowSec \div WindowSec \in Nat BY WindowType
<1>4. (attempt[x].nowSec \div WindowSec) * WindowSec = w * WindowSec
        => attempt[x].nowSec \div WindowSec = w
  BY <1>3, SameWindow
<1> QED BY <1>2, <1>4 DEF Within

LEMMA LimitFailures ==
  ASSUME LimitInv
  PROVE  FailuresAreLimited
<1>0. LimitTypeOK BY DEF LimitInv
<1> SUFFICES ASSUME NEW key \in Keys, NEW w \in Times
             PROVE  IsFiniteSet(Kept(key, w)) /\ Cardinality(Kept(key, w)) < MaxFail
  BY DEF FailuresAreLimited
<1>1. key[1] \in KeyKinds /\ w \in Nat BY LimitAssumption DEF Keys, KeyKinds, Times
<1> DEFINE S == Kept(key, w)
           f == [x \in S |-> Place(x, key[1])]
<1>2. ASSUME NEW x \in S PROVE x \in Attempts /\ Row(x, key[1]) = <<key, w * WindowSec>>
  BY <1>0, <1>1, WithinRow DEF Kept
<1>3. ASSUME NEW x \in S PROVE f[x] \in 1..(MaxFail - 1)
  <2>1. x \in Attempts /\ attempt[x].pc = "kept" BY DEF Kept
  <2>2. HasCounted(x) /\ Decided(x) BY <2>1 DEF LimitInv
  <2>3. Place(x, key[1]) \in Nat BY <1>0, <1>1, <2>1, RowType
  <2>4. CASE key[1] = "user"
    <3>1. attempt[x].count.user \in Nat BY <1>0, <2>1 DEF LimitTypeOK, AttemptRecords, Counts
    <3> QED BY <2>1, <2>2, <2>3, <2>4, <3>1, LimitAssumption DEF HasCounted, Decided
  <2>5. CASE key[1] = "ip"
    <3>1. attempt[x].count.ip \in Nat BY <1>0, <2>1 DEF LimitTypeOK, AttemptRecords, Counts
    <3> QED BY <2>1, <2>2, <2>3, <2>5, <3>1, LimitAssumption DEF HasCounted, Decided
  <2> QED BY <1>1, <2>4, <2>5 DEF KeyKinds
<1>4. ASSUME NEW x \in S, NEW y \in S, f[x] = f[y] PROVE x = y
  <2>1. f[x] # 0 BY <1>3
  <2> QED BY <1>1, <1>2, <1>4, <2>1 DEF LimitInv, PlacesDistinct
<1> HIDE DEF S
<1>5. f \in Injection(S, 1..(MaxFail - 1)) BY <1>3, <1>4 DEF Injection, IsInjective
<1>6. /\ IsFiniteSet(1..(MaxFail - 1))
      /\ Cardinality(1..(MaxFail - 1)) = IF 1 > MaxFail - 1 THEN 0 ELSE MaxFail - 1 - 1 + 1
  BY FS_Interval, LimitAssumption
<1> HIDE DEF f
<1>7. IsFiniteSet(S) /\ Cardinality(S) <= Cardinality(1..(MaxFail - 1))
  BY <1>5, <1>6, FS_Injection
<1>8. Cardinality(S) \in Nat BY <1>7, FS_CardinalityType
<1> QED BY <1>6, <1>7, <1>8, LimitAssumption DEF S

LEMMA LimitCauses ==
  ASSUME LimitInv
  PROVE  RevokedForCause
<1>0. LimitTypeOK BY DEF LimitInv
<1>1. ASSUME NEW x \in Attempts, NEW kind \in KeyKinds
      PROVE  LET n == Cardinality(Counted(KeyOf(x, kind), attempt[x].nowSec \div WindowSec))
             IN  n \in Nat /\ n >= bucket[Row(x, kind)]
  <2> DEFINE key == KeyOf(x, kind)
             w == attempt[x].nowSec \div WindowSec
             S == Counted(key, w)
             m == bucket[Row(x, kind)]
             f == [y \in S |-> Place(y, kind)]
  <2>1. /\ key \in Keys /\ key[1] = kind /\ w \in Nat /\ m \in Nat
        /\ Row(x, kind) = <<key, w * WindowSec>> /\ w * WindowSec \in Starts
    BY <1>0, RowType, WindowType DEF BucketStart
  <2> HIDE DEF key, w
  <2>2. \A y \in Attempts : Within(y, key, w) <=> Row(y, kind) = Row(x, kind)
    BY <1>0, <2>1, WithinRow
  <2>3. S = {y \in Attempts : Place(y, kind) # 0 /\ Row(y, kind) = Row(x, kind)}
    BY <2>1, <2>2 DEF Counted, Place
  <2> HIDE DEF S
  <2>4. ASSUME NEW y \in S PROVE Place(y, kind) \in 1..m
    <3>1. y \in Attempts /\ Place(y, kind) # 0 /\ Row(y, kind) = Row(x, kind) BY <2>3
    <3>2. Place(y, kind) \in Nat BY <1>0, <3>1, RowType
    <3>3. Place(y, kind) <= m BY <3>1 DEF LimitInv, PlacesWithin
    <3> QED BY <2>1, <3>1, <3>2, <3>3
  <2>5. ASSUME NEW y \in S, NEW z \in S, f[y] = f[z] PROVE y = z
    BY <2>3, <2>5 DEF LimitInv, PlacesDistinct
  <2>6. ASSUME NEW n \in 1..m PROVE \E y \in S : f[y] = n
    <3>1. PICK y \in Attempts : Place(y, kind) = n /\ Row(y, kind) = Row(x, kind)
      BY <2>1 DEF LimitInv, PlacesTaken
    <3>2. n # 0 BY <2>1
    <3> QED BY <3>1, <3>2, <2>3
  <2>7. f \in Injection(S, 1..m) BY <2>4, <2>5 DEF Injection, IsInjective
  <2>8. f \in Surjection(S, 1..m) BY <2>4, <2>6 DEF Surjection
  <2> HIDE DEF f, m
  <2>9. IsFiniteSet(1..m) /\ Cardinality(1..m) = m
    <3>1. IsFiniteSet(1..m) /\ Cardinality(1..m) = IF 1 > m THEN 0 ELSE m - 1 + 1
      BY <2>1, FS_Interval
    <3> QED BY <3>1, <2>1
  <2>10. IsFiniteSet(S) BY <2>7, <2>9, FS_Injection
  <2>11. Cardinality(1..m) <= Cardinality(S) BY <2>8, <2>10, FS_Surjection
  <2>12. Cardinality(S) \in Nat BY <2>10, FS_CardinalityType
  <2> QED BY <2>1, <2>9, <2>11, <2>12 DEF S, key, w, m
<1> SUFFICES ASSUME NEW x \in Attempts, attempt[x].pc = "revoked"
             PROVE  \E kind \in KeyKinds :
                      Cardinality(Counted(KeyOf(x, kind), attempt[x].nowSec \div WindowSec))
                        >= MaxFail
  BY DEF RevokedForCause, KeyKinds
<1>2. HasCounted(x) /\ Decided(x) BY DEF LimitInv
<1>3. \A kind \in KeyKinds : bucket[Row(x, kind)] \in Nat BY <1>0, RowType
<1>4. attempt[x].count.user \in Nat /\ attempt[x].count.ip \in Nat
  BY <1>0 DEF LimitTypeOK, AttemptRecords, Counts
<1>5. PICK kind \in KeyKinds : bucket[Row(x, kind)] >= MaxFail
  <2>1. /\ attempt[x].count.user <= bucket[Row(x, "user")]
        /\ attempt[x].count.ip <= bucket[Row(x, "ip")]
    BY <1>2, <1>3, <1>4 DEF HasCounted, KeyKinds
  <2>2. attempt[x].count.user >= MaxFail \/ attempt[x].count.ip >= MaxFail
    BY <1>2 DEF Decided
  <2> QED BY <2>1, <2>2, <1>3, <1>4, LimitAssumption DEF KeyKinds
<1> DEFINE card == Cardinality(Counted(KeyOf(x, kind), attempt[x].nowSec \div WindowSec))
<1>6. card \in Nat /\ card >= bucket[Row(x, kind)] BY <1>1
<1> HIDE DEF card
<1>7. card >= MaxFail BY <1>3, <1>5, <1>6, LimitAssumption
<1> QED BY <1>7 DEF card

LEMMA LimitInvariance == LimitSpec => []LimitInv
<1>1. LimitInv /\ [LimitNext]_limitVars => LimitInv' BY LimitStepInv
<1> QED BY <1>1, LimitInitInv, PTL DEF LimitSpec

\* Types of the limiter's tables and handlers.
THEOREM LimitTyped == LimitSpec => []LimitTypeOK
<1>1. LimitInv => LimitTypeOK BY DEF LimitInv
<1> QED BY <1>1, LimitInvariance, PTL

\* However many attempts there are and however their statements interleave, fewer than
\* MaxFail of a window's failures keep their session, on an account and from an address: each
\* raises the count to a number of its own, and reads no less.
THEOREM LimitHolds == LimitSpec => []FailuresAreLimited
<1>1. LimitInv => FailuresAreLimited BY LimitFailures
<1> QED BY <1>1, LimitInvariance, PTL

\* Whoever loses the session had MaxFail failures on the account, or from the address, in
\* that window: a count is never ahead of the attempts that raised it.
THEOREM LimitJustified == LimitSpec => []RevokedForCause
<1>1. LimitInv => RevokedForCause BY LimitCauses
<1> QED BY <1>1, LimitInvariance, PTL

-----------------------------------------------------------------------------
(* The counter of a passkey. *)

\* Who has begun carries a signature that was made.
Brought == \A a \in Answers : answer[a].pc # "fresh" =>
  answer[a].of \in Signatures /\ signature[answer[a].of].state # "none"

AnswersMet == \A a, b \in Underway : a # b => b \in answer[a].with

\* Who is about to set the counter back met whoever stored it.
Overtaken == \A a \in Answers :
  answer[a].pc = "storeCounter" /\ CountOf(a) < passkey.counter => passkey.by \in answer[a].with

\* What does not count signs with 0; what counts has counted on since it was registered.
Counting ==
  /\ ~passkey.counts => device = 0 /\ \A s \in Signatures : signature[s].count = 0
  /\ passkey.counts /\ passkey.by = Nobody =>
       /\ passkey.counter <= device
       /\ \A s \in Signatures : signature[s].state # "none" => passkey.counter < signature[s].count

\* The stored counter is that of the registration, or of the answer accepted last.
StoredBy ==
  /\ passkey.by = Nobody /\ ~passkey.counts => passkey.counter = 0
  /\ passkey.by # Nobody => answer[passkey.by].pc = "accepted" /\ CountOf(passkey.by) = passkey.counter

CounterInv ==
  /\ CounterTypeOK
  /\ Brought
  /\ AnswersMet
  /\ Overtaken
  /\ Counting
  /\ StoredBy
  /\ RefusedForLater

LEMMA CounterInitInv == CounterInit => CounterInv
<1> SUFFICES ASSUME CounterInit PROVE CounterInv OBVIOUS
<1>1. PICK b \in BOOLEAN : passkey = [counts |-> b, counter |-> device, by |-> Nobody] /\ (b \/ device = 0)
  BY DEF CounterInit
<1>2. device \in Nat /\ passkey.counts \in BOOLEAN /\ passkey.counter = device /\ passkey.by = Nobody
      /\ (~passkey.counts => device = 0)
  BY <1>1, CounterAssumption DEF CounterInit
<1>3. \A a \in Answers : answer[a] = NoAnswer /\ answer[a].pc = "fresh" BY DEF CounterInit, NoAnswer
<1>4. \A s \in Signatures : signature[s].state = "none" /\ signature[s].count = 0 BY DEF CounterInit
<1>5. CounterTypeOK
  <2>1. answer \in [Answers -> AnswerRecords]
    BY DEF CounterInit, NoAnswer, AnswerRecords
  <2>2. signature \in [Signatures -> [state: {"none", "open", "gone"}, count: Nat]]
    BY DEF CounterInit
  <2>3. passkey \in [counts: BOOLEAN, counter: Nat, by: Answers \cup {Nobody}] BY <1>1, <1>2
  <2> QED BY <1>2, <2>1, <2>2, <2>3 DEF CounterTypeOK
<1> QED BY <1>2, <1>3, <1>4, <1>5
    DEF CounterInv, Brought, AnswersMet, Underway, AnswerPcs, Overtaken, Counting, StoredBy, RefusedForLater

\* A handler's move leaves the others, and what it brought, alone.
LEMMA AnswerMoved ==
  ASSUME CounterTypeOK, NEW a \in Answers, NEW pc \in AnswerPcs \cup AnswerEnds, MovesTo(a, pc)
  PROVE  /\ answer' \in [Answers -> AnswerRecords]
         /\ \A b \in Answers : b # a => answer'[b] = answer[b]
         /\ answer'[a].pc = pc /\ answer'[a].of = answer[a].of /\ answer'[a].with = answer[a].with
<1>1. answer \in [Answers -> AnswerRecords] BY DEF CounterTypeOK
<1>2. pc \in {"fresh"} \cup AnswerPcs \cup AnswerEnds OBVIOUS
<1>3. answer[a] \in AnswerRecords BY <1>1
<1>4. [answer[a] EXCEPT !.pc = pc] \in AnswerRecords BY <1>2, <1>3 DEF AnswerRecords
<1>5. answer' = [answer EXCEPT ![a] = [answer[a] EXCEPT !.pc = pc]] BY <1>1 DEF MovesTo
<1> QED BY <1>1, <1>3, <1>4, <1>5 DEF AnswerRecords

\* What a handler's move needs to keep the invariant, when the row stays.
LEMMA QuietMove ==
  ASSUME CounterInv, NEW a \in Answers, NEW pc \in AnswerPcs \cup AnswerEnds, MovesTo(a, pc),
         a \in Underway, UNCHANGED <<device, passkey>>,
         signature' \in [Signatures -> [state: {"none", "open", "gone"}, count: Nat]],
         \A s \in Signatures : /\ signature'[s].count = signature[s].count
                               /\ signature'[s].state = "none" <=> signature[s].state = "none",
         pc = "storeCounter" => ~(CountOf(a) < passkey.counter),
         pc = "refused" => passkey.counts /\ \E b \in Answers : answer[b].pc = "accepted" /\ CountOf(b) >= CountOf(a)
  PROVE  CounterInv'
<1>1. CounterTypeOK /\ a \in Underway BY DEF CounterInv
<1>2. /\ answer' \in [Answers -> AnswerRecords]
      /\ \A b \in Answers : b # a => answer'[b] = answer[b]
      /\ answer'[a].pc = pc /\ answer'[a].of = answer[a].of /\ answer'[a].with = answer[a].with
  BY <1>1, AnswerMoved
<1>3. answer[a].pc # "fresh" /\ answer[a].pc # "accepted" /\ answer[a].pc # "refused"
  BY <1>1 DEF Underway, AnswerPcs
<1>4. pc # "fresh" BY DEF AnswerPcs, AnswerEnds
<1>5. CounterTypeOK' BY <1>1, <1>2 DEF CounterTypeOK
<1>6. Brought' BY <1>2, <1>3 DEF CounterInv, Brought
<1>7. \A b \in Answers : answer[b].pc # "fresh" => answer'[b].of = answer[b].of /\ CountOf(b)' = CountOf(b)
  BY <1>2 DEF CountOf, CounterInv, Brought
<1>8. AnswersMet'
  <2>1. \A b \in Underway' : b \in Underway /\ answer'[b].with = answer[b].with
    BY <1>1, <1>2 DEF Underway
  <2> QED BY <2>1 DEF CounterInv, AnswersMet
<1>9. Overtaken'
  <2> SUFFICES ASSUME NEW b \in Answers, answer'[b].pc = "storeCounter", CountOf(b)' < passkey.counter
               PROVE  passkey.by \in answer'[b].with
    BY DEF Overtaken
  <2>1. CASE b = a BY <2>1, <1>2, <1>3, <1>7
  <2>2. CASE b # a
    <3>1. answer[b].pc = "storeCounter" /\ answer'[b].with = answer[b].with BY <2>2, <1>2
    <3>2. CountOf(b)' = CountOf(b) BY <3>1, <1>7
    <3> QED BY <3>1, <3>2 DEF CounterInv, Overtaken
  <2> QED BY <2>1, <2>2
<1>10. Counting' BY DEF CounterInv, Counting
<1>11. StoredBy'
  <2>1. passkey.by # Nobody => passkey.by \in Answers BY <1>1 DEF CounterTypeOK
  <2>2. passkey.by # a \/ passkey.by = Nobody BY <1>3 DEF CounterInv, StoredBy
  <2>3. passkey.by # Nobody => answer'[passkey.by].pc = "accepted" /\ CountOf(passkey.by)' = passkey.counter
    BY <2>1, <2>2, <1>2, <1>7 DEF CounterInv, StoredBy
  <2> QED BY <2>3 DEF CounterInv, StoredBy
<1>12. RefusedForLater'
  <2> SUFFICES ASSUME NEW b \in Answers, answer'[b].pc = "refused"
               PROVE  passkey.counts /\ \E c \in Answers : answer'[c].pc = "accepted" /\ CountOf(c)' >= CountOf(b)'
    BY DEF RefusedForLater
  <2>1. passkey.counts /\ \E c \in Answers : answer[c].pc = "accepted" /\ CountOf(c) >= CountOf(b)
    <3>1. CASE b = a BY <3>1, <1>2
    <3>2. CASE b # a BY <3>2, <1>2 DEF CounterInv, RefusedForLater
    <3> QED BY <3>1, <3>2
  <2>2. PICK c \in Answers : answer[c].pc = "accepted" /\ CountOf(c) >= CountOf(b) BY <2>1
  <2>3. c # a /\ answer'[c].pc = "accepted" /\ CountOf(c)' = CountOf(c) BY <2>2, <1>2, <1>3, <1>7
  <2>4. answer[b].pc # "fresh" BY <1>2, <1>3
  <2>5. CountOf(b)' = CountOf(b) BY <2>4, <1>7
  <2> QED BY <2>1, <2>2, <2>3, <2>5
<1> QED BY <1>5, <1>6, <1>8, <1>9, <1>10, <1>11, <1>12 DEF CounterInv

\* Signatures come and lapse beside the handlers.
LEMMA SignatureStep ==
  ASSUME CounterInv, NEW s \in Signatures, Sign(s) \/ Lapses(s)
  PROVE  CounterInv'
<1>1. CounterTypeOK /\ UNCHANGED <<passkey, answer>> BY DEF CounterInv, Sign, Lapses
<1>2. signature \in [Signatures -> [state: {"none", "open", "gone"}, count: Nat]] /\ device \in Nat
      /\ passkey.counter \in Nat
  BY <1>1 DEF CounterTypeOK
<1>3. /\ device' \in Nat /\ device <= device' /\ (~passkey.counts => device' = device)
      /\ signature' \in [Signatures -> [state: {"none", "open", "gone"}, count: Nat]]
      /\ signature'[s].state # "none"
      /\ signature[s].state # "none" => signature'[s].count = signature[s].count
      /\ signature[s].state = "none" => signature'[s].count = device' /\ (passkey.counts => device < device')
      /\ \A x \in Signatures : x # s => signature'[x] = signature[x]
  <2>1. CASE Sign(s)
    <3>1. device' \in Nat /\ device <= device' /\ (~passkey.counts => device' = device)
          /\ (passkey.counts => device < device')
      <4>1. CASE passkey.counts
        <5>1. device' \in (device + 1)..MaxCount BY <2>1, <4>1 DEF Sign
        <5> QED BY <5>1, <4>1, <1>2, CounterAssumption
      <4>2. CASE ~passkey.counts BY <2>1, <4>2, <1>2 DEF Sign
      <4> QED BY <4>1, <4>2
    <3>2. signature' = [signature EXCEPT ![s] = [state |-> "open", count |-> device']] /\ signature[s].state = "none"
      BY <2>1 DEF Sign
    <3> QED BY <3>1, <3>2, <1>2
  <2>2. CASE Lapses(s)
    <3>1. signature' = [signature EXCEPT ![s] = [signature[s] EXCEPT !.state = "gone"]] /\ device' = device
          /\ signature[s].state = "open"
      BY <2>2, <1>2 DEF Lapses
    <3>2. [signature[s] EXCEPT !.state = "gone"] \in [state: {"none", "open", "gone"}, count: Nat] BY <1>2
    <3> QED BY <3>1, <3>2, <1>2
  <2> QED BY <2>1, <2>2
<1>4. \A a \in Answers : answer[a].pc # "fresh" => CountOf(a)' = CountOf(a)
  <2>1. \A a \in Answers : answer[a].pc # "fresh" =>
          answer[a].of \in Signatures /\ signature[answer[a].of].state # "none"
    BY DEF CounterInv, Brought
  <2> QED BY <2>1, <1>1, <1>3 DEF CountOf
<1>5. CounterTypeOK' BY <1>1, <1>3 DEF CounterTypeOK
<1>6. Brought' BY <1>1, <1>3 DEF CounterInv, Brought
<1>7. AnswersMet' BY <1>1 DEF CounterInv, AnswersMet, Underway
<1>8. Overtaken' BY <1>1, <1>4 DEF CounterInv, Overtaken
<1>9. Counting'
  <2>1. ~passkey.counts => device' = 0 /\ \A x \in Signatures : signature'[x].count = 0
    BY <1>3 DEF CounterInv, Counting
  <2>2. ASSUME passkey.counts, passkey.by = Nobody
        PROVE  /\ passkey.counter <= device'
               /\ \A x \in Signatures : signature'[x].state # "none" => passkey.counter < signature'[x].count
    <3>1. passkey.counter <= device BY <2>2 DEF CounterInv, Counting
    <3>2. \A x \in Signatures : signature[x].state # "none" => passkey.counter < signature[x].count
      BY <2>2 DEF CounterInv, Counting
    <3>3. passkey.counter < signature'[s].count
      BY <3>1, <3>2, <1>2, <1>3, <2>2
    <3> QED BY <3>1, <3>2, <3>3, <1>2, <1>3
  <2> QED BY <2>1, <2>2, <1>1 DEF Counting
<1>10. StoredBy'
  <2>1. passkey.by # Nobody => passkey.by \in Answers BY <1>1 DEF CounterTypeOK
  <2> QED BY <2>1, <1>1, <1>4 DEF CounterInv, StoredBy
<1>11. RefusedForLater' BY <1>1, <1>4 DEF CounterInv, RefusedForLater
<1> QED BY <1>5, <1>6, <1>7, <1>8, <1>9, <1>10, <1>11 DEF CounterInv

LEMMA DeliveredStep ==
  ASSUME CounterInv, NEW a \in Answers, NEW s \in Signatures, Delivered(a, s)
  PROVE  CounterInv'
<1>1. CounterTypeOK /\ UNCHANGED <<device, passkey, signature>> /\ answer \in [Answers -> AnswerRecords]
  BY DEF CounterInv, CounterTypeOK, Delivered
<1>2. Underway \subseteq Answers /\ a \notin Underway BY DEF Underway, Delivered, AnswerPcs
<1>3. /\ answer'[a].pc = "takeChallenge" /\ answer'[a].of = s /\ answer'[a].with = Underway
      /\ \A b \in Answers : b # a =>
           /\ answer'[b].pc = answer[b].pc /\ answer'[b].of = answer[b].of
           /\ answer[b].with \subseteq answer'[b].with
           /\ b \in Underway => a \in answer'[b].with
  <2>1. answer'[a] = [pc |-> "takeChallenge", of |-> s, with |-> Underway] BY DEF Delivered
  <2>2. ASSUME NEW b \in Answers, b # a
        PROVE  /\ answer'[b].pc = answer[b].pc /\ answer'[b].of = answer[b].of
               /\ answer[b].with \subseteq answer'[b].with
               /\ b \in Underway => a \in answer'[b].with
    <3>1. answer[b] \in AnswerRecords BY <1>1
    <3>2. CASE b \in Underway
      <4>1. answer'[b] = [answer[b] EXCEPT !.with = answer[b].with \cup {a}] BY <2>2, <3>2 DEF Delivered
      <4> QED BY <4>1, <3>1 DEF AnswerRecords
    <3>3. CASE b \notin Underway
      <4>1. answer'[b] = answer[b] BY <2>2, <3>3 DEF Delivered
      <4> QED BY <4>1, <3>3
    <3> QED BY <3>2, <3>3
  <2> QED BY <2>1, <2>2
<1>4. CounterTypeOK'
  <2>1. ASSUME NEW b \in Answers PROVE answer'[b] \in AnswerRecords
    <3>1. answer[b] \in AnswerRecords BY <1>1
    <3>2. CASE b = a
      <4>1. answer'[b] = [pc |-> "takeChallenge", of |-> s, with |-> Underway] BY <3>2 DEF Delivered
      <4> QED BY <4>1, <1>2 DEF AnswerRecords, AnswerPcs
    <3>3. CASE b # a /\ b \in Underway
      <4>1. answer'[b] = [answer[b] EXCEPT !.with = answer[b].with \cup {a}] BY <3>3 DEF Delivered
      <4> QED BY <4>1, <3>1 DEF AnswerRecords
    <3>4. CASE b # a /\ b \notin Underway
      <4>1. answer'[b] = answer[b] BY <3>4 DEF Delivered
      <4> QED BY <4>1, <3>1
    <3> QED BY <3>2, <3>3, <3>4
  <2>2. answer' = [b \in Answers |-> answer'[b]] BY DEF Delivered
  <2> QED BY <1>1, <2>1, <2>2 DEF CounterTypeOK
<1>5. answer[a].pc = "fresh" /\ signature[s].state # "none" BY DEF Delivered
<1>6. Brought' BY <1>1, <1>3, <1>5 DEF CounterInv, Brought
<1>7. \A b \in Answers : b # a => CountOf(b)' = CountOf(b) BY <1>1, <1>3 DEF CountOf
<1>8. AnswersMet'
  <2>1. \A b \in Underway' : b = a \/ b \in Underway BY <1>3 DEF Underway
  <2>2. Underway' \subseteq Answers BY DEF Underway
  <2> QED BY <2>1, <2>2, <1>2, <1>3 DEF CounterInv, AnswersMet
<1>9. Overtaken' BY <1>1, <1>3, <1>7 DEF CounterInv, Overtaken
<1>10. Counting' BY <1>1 DEF CounterInv, Counting
<1>11. StoredBy'
  <2>1. passkey.by # Nobody => passkey.by \in Answers /\ passkey.by # a
    BY <1>1, <1>5 DEF CounterTypeOK, CounterInv, StoredBy
  <2> QED BY <2>1, <1>1, <1>3, <1>7 DEF CounterInv, StoredBy
<1>12. RefusedForLater'
  <2> SUFFICES ASSUME NEW b \in Answers, answer'[b].pc = "refused"
               PROVE  passkey.counts /\ \E c \in Answers : answer'[c].pc = "accepted" /\ CountOf(c)' >= CountOf(b)'
    BY <1>1 DEF RefusedForLater
  <2>1. b # a /\ answer[b].pc = "refused" /\ CountOf(b)' = CountOf(b) BY <1>3, <1>7
  <2>2. PICK c \in Answers : answer[c].pc = "accepted" /\ CountOf(c) >= CountOf(b)
    BY <2>1 DEF CounterInv, RefusedForLater
  <2>3. c # a /\ answer'[c].pc = "accepted" /\ CountOf(c)' = CountOf(c) BY <2>2, <1>3, <1>5, <1>7
  <2> QED BY <2>1, <2>2, <2>3 DEF CounterInv, RefusedForLater
<1> QED BY <1>4, <1>6, <1>8, <1>9, <1>10, <1>11, <1>12 DEF CounterInv

LEMMA StoresStep ==
  ASSUME CounterInv, NEW a \in Answers, StoresCounter(a)
  PROVE  CounterInv' /\ (passkey'.counter < passkey.counter => passkey.by \in answer[passkey'.by].with)
<1>1. CounterTypeOK /\ UNCHANGED <<device, signature>> /\ answer[a].pc = "storeCounter"
  BY DEF CounterInv, StoresCounter
<1>2. /\ answer' \in [Answers -> AnswerRecords]
      /\ \A b \in Answers : b # a => answer'[b] = answer[b]
      /\ answer'[a].pc = "accepted" /\ answer'[a].of = answer[a].of /\ answer'[a].with = answer[a].with
  <2>1. "accepted" \in AnswerPcs \cup AnswerEnds BY DEF AnswerEnds
  <2>2. MovesTo(a, "accepted") BY DEF StoresCounter
  <2> QED BY <1>1, <2>1, <2>2, AnswerMoved
<1>3. answer[a].of \in Signatures /\ signature[answer[a].of].state # "none" /\ CountOf(a) \in Nat
  BY <1>1 DEF CounterInv, Brought, CountOf, CounterTypeOK
<1>4. passkey \in [counts: BOOLEAN, counter: Nat, by: Answers \cup {Nobody}] BY <1>1 DEF CounterTypeOK
<1>5. /\ passkey'.counter = CountOf(a) /\ passkey'.by = a /\ passkey'.counts = passkey.counts
      /\ passkey' \in [counts: BOOLEAN, counter: Nat, by: Answers \cup {Nobody}]
  BY <1>3, <1>4 DEF StoresCounter, NewCounter
<1>6. a # Nobody BY CounterAssumption
<1>7. \A b \in Answers : CountOf(b)' = CountOf(b)
  BY <1>1, <1>2 DEF CountOf
<1>8. CounterTypeOK' BY <1>1, <1>2, <1>5 DEF CounterTypeOK
<1>9. Brought' BY <1>1, <1>2, <1>3 DEF CounterInv, Brought
<1>10. AnswersMet'
  <2>1. \A b \in Underway' : b \in Underway /\ b # a /\ answer'[b].with = answer[b].with
    BY <1>2 DEF Underway, AnswerPcs
  <2> QED BY <2>1 DEF CounterInv, AnswersMet
<1>11. Overtaken'
  <2> SUFFICES ASSUME NEW b \in Answers, answer'[b].pc = "storeCounter"
               PROVE  passkey'.by \in answer'[b].with
    BY DEF Overtaken
  <2>1. b # a /\ answer[b].pc = "storeCounter" /\ answer'[b].with = answer[b].with BY <1>2
  <2>2. a \in Underway /\ b \in Underway BY <2>1, <1>1 DEF Underway, AnswerPcs
  <2> QED BY <2>1, <2>2, <1>5 DEF CounterInv, AnswersMet
<1>12. Counting' BY <1>1, <1>5, <1>6 DEF CounterInv, Counting
<1>13. StoredBy' BY <1>2, <1>5, <1>6, <1>7 DEF StoredBy
<1>14. RefusedForLater'
  <2> SUFFICES ASSUME NEW b \in Answers, answer'[b].pc = "refused"
               PROVE  passkey'.counts /\ \E c \in Answers : answer'[c].pc = "accepted" /\ CountOf(c)' >= CountOf(b)'
    BY DEF RefusedForLater
  <2>1. b # a /\ answer[b].pc = "refused" BY <1>2
  <2>2. PICK c \in Answers : answer[c].pc = "accepted" /\ CountOf(c) >= CountOf(b)
    BY <2>1 DEF CounterInv, RefusedForLater
  <2>3. c # a /\ answer'[c].pc = "accepted" BY <2>2, <1>1, <1>2
  <2> QED BY <2>1, <2>2, <2>3, <1>5, <1>7 DEF CounterInv, RefusedForLater
<1>15. passkey'.counter < passkey.counter => passkey.by \in answer[passkey'.by].with
  BY <1>1, <1>5 DEF CounterInv, Overtaken
<1> QED BY <1>8, <1>9, <1>10, <1>11, <1>12, <1>13, <1>14, <1>15 DEF CounterInv

\* The look at the counter: whoever fits is not behind it, and who does not is behind an
\* answer that was accepted.
LEMMA ReadsStep ==
  ASSUME CounterInv, NEW a \in Answers, ReadsCounter(a)
  PROVE  CounterInv'
<1> DEFINE fits == Fits(CountOf(a), passkey.counter)
           pc == IF fits THEN "storeCounter" ELSE "refused"
<1>1. CounterTypeOK /\ answer[a].pc = "readCounter" /\ UNCHANGED <<device, passkey, signature>> /\ MovesTo(a, pc)
  BY DEF CounterInv, ReadsCounter
<1>2. /\ answer[a].of \in Signatures /\ signature[answer[a].of].state # "none" /\ CountOf(a) \in Nat
      /\ passkey.counter \in Nat
      /\ signature \in [Signatures -> [state: {"none", "open", "gone"}, count: Nat]]
  BY <1>1 DEF CounterInv, Brought, CountOf, CounterTypeOK
<1>3. a \in Underway /\ pc \in AnswerPcs \cup AnswerEnds BY <1>1 DEF Underway, AnswerPcs, AnswerEnds
<1>4. fits => ~(CountOf(a) < passkey.counter) BY <1>2 DEF Fits
<1>5. ASSUME ~fits
      PROVE  passkey.counts /\ \E b \in Answers : answer[b].pc = "accepted" /\ CountOf(b) >= CountOf(a)
  <2>1. passkey.counter >= CountOf(a) /\ ~(CountOf(a) = 0 /\ passkey.counter = 0) BY <1>5, <1>2 DEF Fits
  <2>2. passkey.by # Nobody => /\ passkey.by \in Answers /\ answer[passkey.by].pc = "accepted"
                               /\ CountOf(passkey.by) = passkey.counter
    BY <1>1 DEF CounterTypeOK, CounterInv, StoredBy
  <2>3. ~passkey.counts => \A b \in Answers : answer[b].pc # "fresh" => CountOf(b) = 0
    BY DEF CounterInv, Counting, Brought, CountOf
  <2>4. passkey.counts
    <3>1. ASSUME ~passkey.counts PROVE FALSE
      <4>1. CountOf(a) = 0 BY <3>1, <2>3, <1>1
      <4>2. passkey.counter = 0
        <5>1. CASE passkey.by = Nobody BY <5>1, <3>1 DEF CounterInv, StoredBy
        <5>2. CASE passkey.by # Nobody BY <5>2, <2>2, <2>3, <3>1
        <5> QED BY <5>1, <5>2
      <4> QED BY <4>1, <4>2, <2>1
    <3> QED BY <3>1
  <2>5. passkey.by # Nobody
    <3>1. ASSUME passkey.by = Nobody PROVE FALSE
      <4>1. passkey.counter < CountOf(a) BY <3>1, <2>4, <1>2 DEF CounterInv, Counting, CountOf
      <4> QED BY <4>1, <2>1, <1>2
    <3> QED BY <3>1
  <2> QED BY <2>1, <2>2, <2>4, <2>5
<1>6. /\ signature' = signature
      /\ \A s \in Signatures : /\ signature'[s].count = signature[s].count
                               /\ signature'[s].state = "none" <=> signature[s].state = "none"
  BY <1>1
<1>7. (pc = "storeCounter" => fits) /\ (pc = "refused" => ~fits) OBVIOUS
<1> HIDE DEF pc, fits
<1> QED BY <1>1, <1>2, <1>3, <1>4, <1>5, <1>6, <1>7, QuietMove

LEMMA CounterStep ==
  ASSUME CounterInv, [CounterNext]_counterVars
  PROVE  CounterInv' /\ (passkey'.counter < passkey.counter => passkey.by \in answer[passkey'.by].with)
<1>0. /\ CounterTypeOK /\ passkey.counter \in Nat
      /\ signature \in [Signatures -> [state: {"none", "open", "gone"}, count: Nat]]
  BY DEF CounterInv, CounterTypeOK
<1>1. ASSUME NEW s \in Signatures, Sign(s) \/ Lapses(s)
      PROVE  CounterInv' /\ passkey' = passkey
  BY <1>1, SignatureStep DEF Sign, Lapses
<1>2. ASSUME NEW a \in Answers, NEW s \in Signatures, Delivered(a, s)
      PROVE  CounterInv' /\ passkey' = passkey
  BY <1>2, DeliveredStep DEF Delivered
<1>3. ASSUME NEW a \in Answers, BreaksOff(a)
      PROVE  CounterInv' /\ passkey' = passkey
  <2>1. /\ MovesTo(a, "broken") /\ a \in Underway /\ UNCHANGED <<device, passkey, signature>>
        /\ "broken" \in AnswerPcs \cup AnswerEnds
    BY <1>3 DEF BreaksOff, AnswerEnds
  <2> QED BY <1>0, <2>1, QuietMove
<1>4. ASSUME NEW a \in Answers, TakesChallenge(a)
      PROVE  CounterInv' /\ passkey' = passkey
  <2>1. /\ MovesTo(a, "dropChallenge") /\ a \in Underway /\ UNCHANGED <<device, passkey, signature>>
        /\ "dropChallenge" \in AnswerPcs \cup AnswerEnds
    BY <1>4 DEF TakesChallenge, Underway, AnswerPcs
  <2> QED BY <1>0, <2>1, QuietMove
<1>5. ASSUME NEW a \in Answers, DropsChallenge(a)
      PROVE  CounterInv' /\ passkey' = passkey
  <2>1. /\ MovesTo(a, "readCounter") /\ a \in Underway /\ UNCHANGED <<device, passkey>>
        /\ "readCounter" \in AnswerPcs \cup AnswerEnds
        /\ signature' = [signature EXCEPT ![answer[a].of].state = "gone"]
    BY <1>5 DEF DropsChallenge, Underway, AnswerPcs
  <2>2. answer[a].of \in Signatures /\ signature[answer[a].of].state # "none"
    BY <1>5 DEF CounterInv, Brought, DropsChallenge
  <2>3. [signature[answer[a].of] EXCEPT !.state = "gone"] \in [state: {"none", "open", "gone"}, count: Nat]
    BY <1>0, <2>2
  <2>4. /\ signature' \in [Signatures -> [state: {"none", "open", "gone"}, count: Nat]]
        /\ \A s \in Signatures : /\ signature'[s].count = signature[s].count
                                 /\ signature'[s].state = "none" <=> signature[s].state = "none"
    BY <1>0, <2>1, <2>2, <2>3
  <2> QED BY <2>1, <2>4, QuietMove
<1>6. ASSUME NEW a \in Answers, ReadsCounter(a)
      PROVE  CounterInv' /\ passkey' = passkey
  BY <1>6, ReadsStep DEF ReadsCounter
<1>7. CASE UNCHANGED counterVars
  BY <1>7, <1>0 DEF counterVars, CounterInv, CounterTypeOK, Brought, AnswersMet, Underway, Overtaken, CountOf,
     Counting, StoredBy, RefusedForLater
<1>8. passkey' = passkey => ~(passkey'.counter < passkey.counter) BY <1>0
<1> QED BY <1>1, <1>2, <1>3, <1>4, <1>5, <1>6, <1>7, <1>8, StoresStep DEF CounterNext, counterVars

LEMMA CounterInvariance == CounterSpec => []CounterInv
<1>1. CounterInv /\ [CounterNext]_counterVars => CounterInv' BY CounterStep
<1> QED BY <1>1, CounterInitInv, PTL DEF CounterSpec

\* However many answers there are and in whatever order they come, the stored counter is set
\* back only by one in flight together with the one that stored it.
THEOREM CounterFalls == CounterSpec => CounterFallsOnlyTogether
<1>1. CounterInv /\ [CounterNext]_counterVars =>
        [passkey'.counter < passkey.counter => passkey.by \in answer[passkey'.by].with]_counterVars
  BY CounterStep
<1> QED BY <1>1, CounterInvariance, PTL DEF CounterSpec, CounterFallsOnlyTogether

\* A signature is refused for its counter only behind one accepted that is at least as late,
\* and never if the passkey does not count.
THEOREM NoLockOut == CounterSpec => []RefusedForLater
<1>1. CounterInv => RefusedForLater BY DEF CounterInv
<1> QED BY <1>1, CounterInvariance, PTL

-----------------------------------------------------------------------------
(* Signing in: URLs. *)

\* The URLs there are: only the pages that send the user on have a callbackUrl, and none
\* leads back to the login page.
GoodUrl(url) ==
  /\ url \in Urls
  /\ \A i \in 1..Len(url) : i # Len(url) => url[i] \in {"login", "mfa"}
  /\ \A i \in 1..Len(url) : i # 1 => url[i] # "login"

Last1(url) == url[Len(url)]

LEMMA UrlFacts ==
  ASSUME NEW url \in Urls
  PROVE  /\ Len(url) \in Nat /\ Len(url) > 0
         /\ \A i \in 1..Len(url) : url[i] \in Paths
         /\ url[1] \in Paths /\ Last1(url) \in Paths
<1>1. url \in Seq(Paths) /\ url # <<>> BY DEF Urls
<1>2. Len(url) \in Nat /\ Len(url) # 0 BY <1>1
<1>3. \A i \in 1..Len(url) : url[i] \in Paths BY <1>1
<1>4. 1 \in 1..Len(url) /\ Len(url) \in 1..Len(url) BY <1>2
<1> QED BY <1>2, <1>3, <1>4 DEF Last1

LEMMA UrlSingle ==
  ASSUME NEW p \in Paths
  PROVE  GoodUrl(<<p>>) /\ Last1(<<p>>) = p /\ Len(<<p>>) = 1
<1>1. <<p>> \in Seq(Paths) /\ <<p>> # <<>> /\ Len(<<p>>) = 1 OBVIOUS
<1> QED BY <1>1 DEF GoodUrl, Urls, Last1

LEMMA UrlPrefixed ==
  ASSUME NEW url, GoodUrl(url), NEW p \in {"login", "mfa"}, url[1] # "login"
  PROVE  /\ GoodUrl(<<p>> \o url) /\ Last1(<<p>> \o url) = Last1(url)
         /\ (<<p>> \o url)[1] = p
<1> DEFINE long == <<p>> \o url
<1>1. url \in Seq(Paths) /\ Len(url) \in Nat /\ Len(url) > 0 BY UrlFacts DEF GoodUrl, Urls
<1>2. p \in Paths BY DEF Paths
<1>3. long \in Seq(Paths) /\ Len(long) = Len(url) + 1 BY <1>1, <1>2
<1>4. long[1] = p BY <1>1
<1>5. \A i \in 1..Len(long) : i # 1 => i - 1 \in 1..Len(url) /\ long[i] = url[i - 1]
  BY <1>1, <1>3
<1> HIDE DEF long
<1>6. long # <<>> BY <1>1, <1>3
<1>7. Last1(long) = Last1(url)
  <2>1. Len(long) \in 1..Len(long) /\ Len(long) # 1 /\ Len(long) - 1 = Len(url) BY <1>1, <1>3
  <2> QED BY <2>1, <1>5 DEF Last1
<1>8. ASSUME NEW i \in 1..Len(long), i # Len(long) PROVE long[i] \in {"login", "mfa"}
  <2>1. CASE i = 1 BY <2>1, <1>4
  <2>2. CASE i # 1
    <3>1. i - 1 \in 1..Len(url) /\ i - 1 # Len(url) BY <2>2, <1>1, <1>3, <1>5, <1>8
    <3> QED BY <2>2, <3>1, <1>5 DEF GoodUrl
  <2> QED BY <2>1, <2>2
<1>9. ASSUME NEW i \in 1..Len(long), i # 1 PROVE long[i] # "login"
  <2>1. i - 1 \in 1..Len(url) /\ long[i] = url[i - 1] BY <1>5, <1>9
  <2> QED BY <2>1 DEF GoodUrl
<1> QED BY <1>3, <1>4, <1>6, <1>7, <1>8, <1>9 DEF GoodUrl, Urls, long

LEMMA UrlTail ==
  ASSUME NEW url, GoodUrl(url), Len(url) # 1
  PROVE  /\ GoodUrl(Tail(url)) /\ Last1(Tail(url)) = Last1(url)
         /\ Tail(url)[1] # "login"
<1> DEFINE rest == Tail(url)
<1>0. Len(url) \in Nat /\ Len(url) > 0 BY UrlFacts DEF GoodUrl
<1>1. url \in Seq(Paths) /\ Len(url) \in Nat /\ Len(url) > 1
  <2>1. \A n \in Nat : n > 0 /\ n # 1 => n > 1 OBVIOUS
  <2>2. url \in Seq(Paths) BY DEF GoodUrl, Urls
  <2> QED BY <1>0, <2>1, <2>2, Zenon
<1>2. rest \in Seq(Paths) /\ Len(rest) = Len(url) - 1 BY <1>1
<1>3. \A i \in 1..Len(rest) : i + 1 \in 1..Len(url) /\ i + 1 # 1 /\ rest[i] = url[i + 1]
  BY <1>1, <1>2
<1> HIDE DEF rest
<1>4. rest # <<>> BY <1>1, <1>2
<1>5. 1 \in 1..Len(rest) /\ Len(rest) \in 1..Len(rest) /\ Len(rest) + 1 = Len(url)
  BY <1>1, <1>2
<1>6. \A i \in 1..Len(rest) : rest[i] # "login" BY <1>3 DEF GoodUrl
<1>7. \A i \in 1..Len(rest) : i # Len(rest) => rest[i] \in {"login", "mfa"}
  BY <1>1, <1>2, <1>3 DEF GoodUrl
<1>8. Last1(rest) = Last1(url) BY <1>3, <1>5 DEF Last1
<1> QED BY <1>2, <1>4, <1>5, <1>6, <1>7, <1>8 DEF GoodUrl, Urls, rest

\* A page that sends nobody on comes without a callbackUrl.
LEMMA UrlAlone ==
  ASSUME NEW url, GoodUrl(url), url[1] \notin {"login", "mfa"}
  PROVE  Last1(url) = url[1]
<1>1. Len(url) \in Nat /\ Len(url) > 0 BY UrlFacts DEF GoodUrl
<1>2. 1 \in 1..Len(url) BY <1>1
<1>3. Len(url) = 1 BY <1>2 DEF GoodUrl
<1> QED BY <1>3 DEF Last1

\* Where the login page and the second factor send the user on.
LEMMA CallbackGood ==
  ASSUME NEW url, GoodUrl(url), url[1] \in {"login", "mfa"}
  PROVE  /\ GoodUrl(Callback(url)) /\ Callback(url)[1] # "login"
         /\ LeadsTo(Callback(url)) = LeadsTo(url)
<1>1. CASE Len(url) = 1
  <2>1. Callback(url) = <<"home">> BY <1>1 DEF Callback
  <2>2. "home" \in Paths BY DEF Paths, ConsolePages, TenantPages
  <2>3. LeadsTo(url) = "home" BY <1>1 DEF LeadsTo, Destination
  <2>4. LeadsTo(<<"home">>) = "home" BY DEF LeadsTo, Destination
  <2> QED BY <2>1, <2>2, <2>3, <2>4, UrlSingle
<1>2. CASE Len(url) # 1
  <2>1. Callback(url) = Tail(url) BY <1>2 DEF Callback
  <2> QED BY <1>2, <2>1, UrlTail DEF LeadsTo, Last1
<1> QED BY <1>1, <1>2

-----------------------------------------------------------------------------
(* Signing in: the redirects. *)

\* How many redirects a page is away from one that is shown, for a session.
Rank(path, kind, admin) ==
  IF kind = "none" THEN (IF path = "login" THEN 0 ELSE 1)
  ELSE IF path = "login" THEN 3
  ELSE IF kind = "fullAlone"
    THEN (IF path = "platform" /\ ~admin THEN 2
          ELSE IF path \in {"home", "users", "mfa", "recover", "authorize"} THEN 1
          ELSE 0)
    ELSE (IF path \in {"noTenant", "platform"} THEN 2
          ELSE IF path \in {"home", "users", "profile", "authorize"} THEN 1
          ELSE 0)

\* An address and the sessions met are those of a place on its way.
Bound(url, goal, seen) ==
  LeadsTo(url) = Destination(goal) \/ seen \cap Excuses(goal) # {}

\* A redirect leads to a URL of the kind there are, to a page nearer to one that is shown,
\* and keeps the way or has an excuse.
LEMMA Redirected ==
  ASSUME NEW url, GoodUrl(url), NEW kind \in Kinds, NEW goal \in Paths, NEW seen \in SUBSET Meetings,
         user \in Users, NextUrl(url, kind) # url
  PROVE  /\ GoodUrl(NextUrl(url, kind))
         /\ kind # "waitingAlone" => Rank(NextUrl(url, kind)[1], kind, user.admin) < Rank(url[1], kind, user.admin)
         /\ Bound(url, goal, seen) => Bound(NextUrl(url, kind), goal, seen \cup {kind})
<1> DEFINE next == NextUrl(url, kind)
<1>1. url[1] \in Paths BY UrlFacts DEF GoodUrl
<1>2. user.admin \in BOOLEAN BY DEF Users
<1>3. \A p, k : Rank(p, k, user.admin) \in Nat
  BY <1>2 DEF Rank
<1> HIDE DEF next
<1>4. ASSUME NEW p \in Paths, next = <<p>>, p # "login",
             kind # "waitingAlone" => Rank(p, kind, user.admin) < Rank(url[1], kind, user.admin),
             Bound(url, goal, seen) => Destination(p) = Destination(goal) \/ kind \in Excuses(goal)
                                         \/ seen \cap Excuses(goal) # {}
      PROVE  /\ GoodUrl(next)
             /\ kind # "waitingAlone" => Rank(next[1], kind, user.admin) < Rank(url[1], kind, user.admin)
             /\ Bound(url, goal, seen) => Bound(next, goal, seen \cup {kind})
  <2>1. GoodUrl(<<p>>) /\ LeadsTo(<<p>>) = Destination(p) BY UrlSingle DEF LeadsTo
  <2> QED BY <1>4, <2>1 DEF Bound
<1>5. ASSUME GoodUrl(next), LeadsTo(next) = LeadsTo(url),
             kind # "waitingAlone" => Rank(next[1], kind, user.admin) < Rank(url[1], kind, user.admin)
      PROVE  /\ GoodUrl(next)
             /\ kind # "waitingAlone" => Rank(next[1], kind, user.admin) < Rank(url[1], kind, user.admin)
             /\ Bound(url, goal, seen) => Bound(next, goal, seen \cup {kind})
  BY <1>5 DEF Bound
<1>6. CASE kind = "none" /\ url[1] # "login"
  <2>1. next = <<"login">> \o url
    <3>1. Proxy(url, kind) = <<"login">> \o url BY <1>6 DEF Proxy, HasTenant, NeedsTenant, TenantPages
    <3>2. (<<"login">> \o url)[1] = "login" BY <1>6, UrlPrefixed
    <3> QED BY <1>6, <3>1, <3>2 DEF next, NextUrl
  <2>2. GoodUrl(next) /\ Last1(next) = Last1(url) /\ next[1] = "login"
    BY <1>6, <2>1, UrlPrefixed
  <2>3. Rank(next[1], kind, user.admin) < Rank(url[1], kind, user.admin) BY <1>6, <2>2 DEF Rank
  <2> QED BY <1>5, <2>2, <2>3 DEF LeadsTo, Last1, next
<1>7. CASE kind # "none" /\ url[1] = "login"
  <2>1. GoodUrl(Callback(url)) /\ Callback(url)[1] # "login"
        /\ LeadsTo(Callback(url)) = LeadsTo(url)
    BY <1>7, CallbackGood
  <2>2. next = Callback(url)
    BY <1>7, <2>1 DEF next, NextUrl, Proxy, SafeCallback, HasTenant, NeedsTenant, TenantPages
  <2>3. next[1] \in Paths BY <2>1, <2>2, UrlFacts DEF GoodUrl
  <2>4. Rank(next[1], kind, user.admin) < Rank(url[1], kind, user.admin) BY <1>2, <1>7, <2>1, <2>2, <2>3 DEF Rank
  <2> QED BY <1>5, <2>1, <2>2, <2>4 DEF next
<1> DEFINE rest == ~(kind = "none" /\ url[1] # "login") /\ ~(kind # "none" /\ url[1] = "login")
<1>8. CASE rest /\ NeedsTenant(url[1]) /\ ~HasTenant(kind) /\ kind # "none"
  <2> DEFINE p == IF user.admin THEN "platform" ELSE "noTenant"
  <2>1. next = <<p>>
    <3>1. Proxy(url, kind) = <<p>> BY <1>8 DEF Proxy, HasTenant, NeedsTenant, TenantPages
    <3>2. <<p>> # url BY <1>8 DEF NeedsTenant, TenantPages
    <3> QED BY <3>1, <3>2 DEF next, NextUrl
  <2>2. p \in Paths /\ p # "login" BY DEF Paths, ConsolePages
  <2>3. kind \in {"waitingAlone", "fullAlone"} BY <1>8 DEF HasTenant, Kinds
  <2>4. kind # "waitingAlone" => Rank(p, kind, user.admin) < Rank(url[1], kind, user.admin)
    BY <1>2, <1>8, <2>3 DEF Rank, NeedsTenant, TenantPages
  <2>5. kind \in Excuses(goal) BY <2>3 DEF Excuses
  <2> HIDE DEF p
  <2> QED BY <1>4, <2>1, <2>2, <2>4, <2>5 DEF next
<1>9. "home" \in Paths /\ "consent" \in Paths /\ "mfa" \in Paths
  BY DEF Paths, ConsolePages, TenantPages
\* The goal of a page reached without an excuse, if the page comes without a callbackUrl.
<1>10. url[1] \notin {"login", "mfa", "consent"} /\ Bound(url, goal, seen) =>
         \/ Destination(goal) = url[1]
         \/ seen \cap Excuses(goal) # {}
  BY UrlAlone DEF Bound, LeadsTo, Last1, Destination
<1>11. CASE rest /\ url[1] = "noTenant" /\ HasTenant(kind)
  <2>1. next = <<"home">>
    <3>1. Proxy(url, kind) = <<"home">>
      BY <1>11 DEF Proxy, HasTenant, NeedsTenant, TenantPages
    <3>2. <<"home">> # url BY <1>11
    <3> QED BY <3>1, <3>2 DEF next, NextUrl
  <2>2. Rank("home", kind, user.admin) < Rank(url[1], kind, user.admin) BY <1>11 DEF Rank, HasTenant
  <2>3. Destination(goal) = "noTenant" => kind \in Excuses(goal)
    BY <1>11 DEF Destination, Excuses, HasTenant
  <2> QED BY <1>4, <1>9, <1>10, <1>11, <2>1, <2>2, <2>3 DEF next
<1>12. CASE rest /\ url[1] = "platform" /\ kind # "none" /\ ~user.admin
  <2>1. next = <<"home">>
    <3>1. Proxy(url, kind) = <<"home">>
      BY <1>12 DEF Proxy, HasTenant, NeedsTenant, TenantPages
    <3>2. <<"home">> # url BY <1>12
    <3> QED BY <3>1, <3>2 DEF next, NextUrl
  <2>2. Rank("home", kind, user.admin) < Rank(url[1], kind, user.admin) BY <1>12 DEF Rank
  <2>3. Destination(goal) = "platform" => kind \in Excuses(goal)
    BY <1>12 DEF Destination, Excuses, Kinds
  <2> QED BY <1>4, <1>9, <1>10, <1>12, <2>1, <2>2, <2>3 DEF next
<1> DEFINE passed ==
      /\ rest /\ ~(NeedsTenant(url[1]) /\ ~HasTenant(kind) /\ kind # "none")
      /\ ~(url[1] = "noTenant" /\ HasTenant(kind))
      /\ ~(url[1] = "platform" /\ kind # "none" /\ ~user.admin)
<1>13. passed => Proxy(url, kind) = url /\ next = Page(url, kind)
  BY DEF Proxy, next, NextUrl
<1>14. CASE passed /\ url[1] = "authorize" /\ IsWaiting(kind)
  <2>1. next = <<"mfa">> \o url BY <1>13, <1>14 DEF Page, ConsolePages, TenantPages
  <2>2. GoodUrl(next) /\ Last1(next) = Last1(url) /\ next[1] = "mfa"
    BY <1>14, <2>1, UrlPrefixed
  <2>3. kind # "waitingAlone" => Rank("mfa", kind, user.admin) < Rank(url[1], kind, user.admin)
    BY <1>14 DEF Rank, IsWaiting
  <2> QED BY <1>5, <2>2, <2>3 DEF LeadsTo, Last1, next
<1>15. CASE passed /\ url[1] = "authorize" /\ ~IsWaiting(kind)
  <2>1. next = <<"consent">> BY <1>13, <1>15 DEF Page, ConsolePages, TenantPages
  <2>2. kind \in {"full", "fullAlone"} BY <1>15 DEF IsWaiting, Kinds
  <2>3. Rank("consent", kind, user.admin) < Rank(url[1], kind, user.admin) BY <1>15, <2>2 DEF Rank
  <2>4. Destination("consent") = "authorize" BY DEF Destination
  <2> QED BY <1>4, <1>9, <1>10, <1>15, <2>1, <2>3, <2>4 DEF next
<1>16. CASE passed /\ url[1] \in ConsolePages /\ IsWaiting(kind)
  <2>1. next = <<"mfa">>
    <3>1. url[1] # "authorize" BY <1>16 DEF ConsolePages, TenantPages
    <3> QED BY <1>13, <1>16, <3>1 DEF Page
  <2>2. kind # "waitingAlone" => Rank("mfa", kind, user.admin) < Rank(url[1], kind, user.admin)
    BY <1>16 DEF Rank, IsWaiting, ConsolePages, TenantPages
  <2>3. Destination("mfa") = "home" BY DEF Destination
  <2>4. Destination(goal) = url[1] => url[1] = "home" \/ kind \in Excuses(goal)
    BY <1>16 DEF Destination, Excuses, IsWaiting, ConsolePages, TenantPages
  <2>5. url[1] \notin {"login", "mfa", "consent"} BY <1>16 DEF ConsolePages, TenantPages
  <2> QED BY <1>4, <1>9, <1>10, <2>1, <2>2, <2>3, <2>4, <2>5 DEF next
<1>17. ~passed \/ url[1] = "authorize" \/ (url[1] \in ConsolePages /\ IsWaiting(kind))
  <2> SUFFICES ASSUME passed, url[1] # "authorize", ~(url[1] \in ConsolePages /\ IsWaiting(kind))
               PROVE  FALSE
    OBVIOUS
  <2>1. Page(url, kind) = url BY DEF Page
  <2> QED BY <1>13, <2>1 DEF next
<1> QED BY <1>6, <1>7, <1>8, <1>11, <1>12, <1>14, <1>15, <1>16, <1>17 DEF next

-----------------------------------------------------------------------------
(* Signing in: the invariant. *)

\* A place with a URL of the kind there are, on its way.
GoodPlace(place) ==
  /\ place \in Places
  /\ GoodUrl(place.url)
  /\ Bound(place.url, place.goal, place.seen)

\* While all requests of the way met one session, few redirects are left.
NearlyThere(rec, admin) ==
  \A k \in Kinds \ {"waitingAlone"} :
    rec.met \subseteq {k} => rec.hops + Rank(rec.going.url[1], k, admin) <= 3

\* The click a page waits for is one it offers.
WorksOn(work, path) ==
  /\ work \in {"password", "passkey"} => path = "login"
  /\ work = "verify" => path = "mfa"

Ended(rec) == rec.gaveUp # {} =>
  "waitingAlone" \in rec.gaveUp \/ \E j, k \in rec.gaveUp : j # k

GoodTab(rec, admin) ==
  /\ rec \in TabRecords
  /\ GoodPlace(rec.at)
  /\ WorksOn(rec.work, rec.at.url[1])
  /\ Ended(rec)
  /\ rec.going # Nowhere => GoodPlace(rec.going) /\ NearlyThere(rec, admin)

SignInInv == SignInTypeOK /\ \A t \in Tabs : GoodTab(tab[t], user.admin)

LEMMA RankRange ==
  ASSUME NEW path, NEW kind, NEW admin
  PROVE  Rank(path, kind, admin) \in 0..3
BY DEF Rank

LEMMA KindType == ASSUME NEW token PROVE Kind(token) \in Kinds
BY DEF Kind, Kinds

\* A path alone is a place on its way to itself.
LEMMA PlaceOfPath ==
  ASSUME NEW p \in Paths, NEW goal \in Paths, NEW seen \in SUBSET Meetings,
         Destination(p) = Destination(goal)
  PROVE  GoodPlace([url |-> <<p>>, goal |-> goal, seen |-> seen])
<1>1. GoodUrl(<<p>>) /\ LeadsTo(<<p>>) = Destination(p) BY UrlSingle DEF LeadsTo
<1> QED BY <1>1 DEF GoodPlace, GoodUrl, Places, Bound

\* A tab that loads a place.
LEMMA LoadGood ==
  ASSUME NEW rec, rec \in TabRecords, GoodPlace(rec.at), WorksOn(rec.work, rec.at.url[1]),
         Ended(rec), NEW place, GoodPlace(place), NEW cookie \in SessionTokens \cup {NoToken},
         NEW admin
  PROVE  GoodTab(Load(rec, place, cookie), admin)
<1> DEFINE new == Load(rec, place, cookie)
<1>1. /\ new \in TabRecords /\ new.at = rec.at /\ new.work = rec.work /\ new.gaveUp = rec.gaveUp
      /\ new.going = place /\ new.hops = 0 /\ new.met = {}
  <2>1. place \in Places BY DEF GoodPlace
  <2>2. 0 \in 0..MaxRedirects BY SignInAssumption
  <2> QED BY <2>1, <2>2 DEF Load, TabRecords
<1> HIDE DEF new
<1>2. NearlyThere(new, admin) BY <1>1, RankRange DEF NearlyThere
<1> QED BY <1>1, <1>2 DEF GoodTab, Ended, new

LEMMA FirstTabGood ==
  ASSUME NEW admin
  PROVE  /\ GoodTab(NewTab, admin)
         /\ NewTab \in TabRecords /\ NewTab.going = Nowhere /\ NewTab.work = "idle"
<1>1. "login" \in Paths BY DEF Paths
<1>2. GoodPlace(FirstPlace) BY <1>1, PlaceOfPath DEF FirstPlace
<1>3. 0 \in 0..MaxRedirects BY SignInAssumption
<1>4. NewTab \in TabRecords BY <1>2, <1>3 DEF NewTab, TabRecords, Submits, GoodPlace
<1>5. /\ NewTab.at = FirstPlace /\ NewTab.going = Nowhere /\ NewTab.gaveUp = {}
      /\ NewTab.work = "idle"
  BY DEF NewTab
<1> QED BY <1>2, <1>4, <1>5 DEF GoodTab, Ended, WorksOn

\* A tab at rest at a place.
LEMMA RestingTabGood ==
  ASSUME NEW place, GoodPlace(place), NEW gaveUp \in SUBSET Meetings,
         gaveUp # {} => "waitingAlone" \in gaveUp \/ \E j, k \in gaveUp : j # k,
         NEW admin
  PROVE  GoodTab([NewTab EXCEPT !.at = place, !.gaveUp = gaveUp], admin)
<1> DEFINE new == [NewTab EXCEPT !.at = place, !.gaveUp = gaveUp]
<1>1. /\ new \in TabRecords /\ new.at = place /\ new.gaveUp = gaveUp
      /\ new.going = Nowhere /\ new.work = "idle"
  BY FirstTabGood DEF TabRecords, GoodPlace
<1> HIDE DEF new
<1> QED BY <1>1 DEF GoodTab, Ended, WorksOn, new

LEMMA SignInInitInv == SignInInit => SignInInv
<1> SUFFICES ASSUME SignInInit PROVE SignInInv OBVIOUS
<1>1. tab \in [Tabs -> TabRecords] /\ \A t \in Tabs : GoodTab(tab[t], user.admin)
  BY FirstTabGood DEF SignInInit
<1>2. user \in Users /\ jar \in SessionTokens \cup {NoToken} BY DEF SignInInit, Users
<1> QED BY <1>1, <1>2 DEF SignInInv, SignInTypeOK

-----------------------------------------------------------------------------
(* Signing in: the steps. *)

Tokens == SessionTokens \cup {NoToken}

\* A step of one tab.
LEMMA TabChanged ==
  ASSUME SignInInv, NEW t \in Tabs, NEW new, GoodTab(new, user.admin),
         tab' = [tab EXCEPT ![t] = new], user' \in Users, user'.admin = user.admin,
         jar' \in Tokens
  PROVE  SignInInv'
<1>1. tab \in [Tabs -> TabRecords] BY DEF SignInInv, SignInTypeOK
<1>2. new \in TabRecords BY DEF GoodTab
<1>3. tab' \in [Tabs -> TabRecords] BY <1>1, <1>2
<1>4. \A u \in Tabs : GoodTab(tab[u], user.admin) BY DEF SignInInv
<1>5. \A u \in Tabs : tab'[u] = tab[u] \/ tab'[u] = new BY <1>1
<1>6. \A u \in Tabs : GoodTab(tab'[u], user'.admin) BY <1>4, <1>5
<1> QED BY <1>3, <1>6 DEF SignInInv, SignInTypeOK, Tokens

LEMMA RefreshedType ==
  ASSUME NEW token \in Tokens, jar \in Tokens
  PROVE  Refreshed(token) \in Tokens
BY DEF Refreshed, Tokens

\* What else changes of the account.
LEMMA UserChanged ==
  ASSUME user \in Users
  PROVE  /\ \A b \in BOOLEAN : LET u == [user EXCEPT !.factor = b]
                               IN  u \in Users /\ u.admin = user.admin
         /\ \A b \in BOOLEAN : LET u == [user EXCEPT !.tenant = b]
                               IN  u \in Users /\ u.admin = user.admin
         /\ Reset \in Users /\ Reset.admin = user.admin
<1>1. user.version + 1 \in Nat BY DEF Users
<1> QED BY <1>1 DEF Users, Reset

\* A place after an answer.
LEMMA OnToGood ==
  ASSUME NEW place, GoodPlace(place), NEW kinds \in SUBSET Meetings, NEW url, GoodUrl(url),
         Bound(url, place.goal, place.seen \cup kinds)
  PROVE  GoodPlace(OnTo(place, url, kinds)) /\ OnTo(place, url, kinds).url = url
<1> DEFINE new == OnTo(place, url, kinds)
<1>1. place \in Places BY DEF GoodPlace
<1>2. url \in Urls BY DEF GoodUrl
<1>3. /\ new \in Places /\ new.url = url /\ new.goal = place.goal
      /\ new.seen = place.seen \cup kinds
  BY <1>1, <1>2 DEF Places, OnTo
<1> HIDE DEF new
<1>4. GoodPlace(new) BY <1>3 DEF GoodPlace
<1> QED BY <1>3, <1>4 DEF new

\* What a redirect may be: it keeps the way or has an excuse, and is nearer to its end for who
\* meets one session.
Onward(t, url, kinds) ==
  LET place == tab[t].going IN
  /\ kinds \in SUBSET Meetings /\ kinds \cap Kinds # {}
  /\ GoodUrl(url) /\ Bound(url, place.goal, place.seen \cup kinds)
  /\ \A k \in Kinds \ {"waitingAlone"} : kinds \subseteq {k} =>
       Rank(url[1], k, user.admin) < Rank(place.url[1], k, user.admin)

\* The page is shown.
LEMMA ShownGood ==
  ASSUME NEW place, GoodPlace(place), NEW admin
  PROVE  GoodTab([NewTab EXCEPT !.at = place], admin)
<1> DEFINE new == [NewTab EXCEPT !.at = place]
<1>1. NewTab.gaveUp = {} BY DEF NewTab
<1>2. /\ new \in TabRecords /\ new.at = place /\ new.gaveUp = {}
      /\ new.going = Nowhere /\ new.work = "idle"
  BY <1>1, FirstTabGood DEF TabRecords, GoodPlace
<1> HIDE DEF new
<1> QED BY <1>2 DEF GoodTab, Ended, WorksOn, new

LEMMA FollowsGood ==
  ASSUME SignInInv, NEW t \in Tabs, tab[t].going # Nowhere, jar' \in Tokens,
         NEW url, NEW kinds, Onward(t, url, kinds), Follows(t, url, kinds)
  PROVE  \E new : GoodTab(new, user.admin) /\ tab' = [tab EXCEPT ![t] = new]
<1> DEFINE rec == tab[t]
           place == OnTo(rec.going, url, kinds)
           new == [rec EXCEPT !.going = place, !.sent = jar', !.hops = rec.hops + 1,
                              !.met = rec.met \cup kinds]
<1>1. rec \in TabRecords BY DEF SignInInv, SignInTypeOK
<1>2. /\ GoodPlace(rec.at) /\ WorksOn(rec.work, rec.at.url[1]) /\ Ended(rec)
      /\ GoodPlace(rec.going) /\ NearlyThere(rec, user.admin)
  BY DEF SignInInv, GoodTab
<1>3. rec.hops + 1 < MaxRedirects /\ kinds \in SUBSET Meetings /\ kinds # {}
  BY DEF Follows, Onward
<1>4. GoodPlace(place) /\ place.url = url BY <1>2, OnToGood DEF Onward
<1>6. tab' = [tab EXCEPT ![t] = new] BY DEF Follows
<1> HIDE DEF place
<1>7. rec.hops + 1 \in 0..MaxRedirects /\ rec.hops \in Nat
  BY <1>1, <1>3, SignInAssumption DEF TabRecords
<1>8. /\ new \in TabRecords /\ new.at = rec.at /\ new.work = rec.work /\ new.gaveUp = rec.gaveUp
      /\ new.going = place /\ new.hops = rec.hops + 1 /\ new.met = rec.met \cup kinds
  BY <1>1, <1>3, <1>4, <1>7 DEF TabRecords, GoodPlace, Tokens
<1> HIDE DEF new
<1>9. NearlyThere(new, user.admin)
  <2> SUFFICES ASSUME NEW k \in Kinds \ {"waitingAlone"}, new.met \subseteq {k}
               PROVE  new.hops + Rank(url[1], k, user.admin) <= 3
    BY <1>4, <1>8 DEF NearlyThere
  <2>1. kinds \subseteq {k} /\ rec.met \subseteq {k} BY <1>8
  <2>2. rec.hops + Rank(rec.going.url[1], k, user.admin) <= 3 BY <1>2, <2>1 DEF NearlyThere
  <2>4. Rank(url[1], k, user.admin) < Rank(rec.going.url[1], k, user.admin)
    BY <2>1 DEF Onward
  <2>5. Rank(url[1], k, user.admin) \in 0..3 /\ Rank(rec.going.url[1], k, user.admin) \in 0..3
    BY RankRange
  <2> QED BY <1>7, <1>8, <2>2, <2>4, <2>5
<1>10. GoodTab(new, user.admin) BY <1>2, <1>4, <1>8, <1>9 DEF GoodTab, Ended
<1> QED BY <1>6, <1>10

LEMMA GivesUpGood ==
  ASSUME SignInInv, NEW t \in Tabs, tab[t].going # Nowhere,
         NEW url, NEW kinds, Onward(t, url, kinds), GivesUp(t, url, kinds)
  PROVE  \E new : GoodTab(new, user.admin) /\ tab' = [tab EXCEPT ![t] = new]
<1> DEFINE rec == tab[t]
           place == OnTo(rec.going, url, kinds)
           gaveUp == rec.met \cup kinds
<1>1. rec \in TabRecords BY DEF SignInInv, SignInTypeOK
<1>2. GoodPlace(rec.going) /\ NearlyThere(rec, user.admin) BY DEF SignInInv, GoodTab
<1>3. rec.hops + 1 = MaxRedirects /\ kinds \in SUBSET Meetings /\ kinds # {}
  BY DEF GivesUp, Onward
<1>4. GoodPlace(place) BY <1>2, OnToGood DEF Onward
<1>5. gaveUp \in SUBSET Meetings BY <1>1, <1>3 DEF TabRecords
<1>6. "waitingAlone" \in gaveUp \/ \E j, k \in gaveUp : j # k
  <2> SUFFICES ASSUME "waitingAlone" \notin gaveUp, \A j, k \in gaveUp : j = k PROVE FALSE
    OBVIOUS
  <2>0. PICK k \in kinds : TRUE BY <1>3
  <2>1. kinds \subseteq {k} /\ rec.met \subseteq {k} /\ k # "waitingAlone" BY <2>0
  <2> HIDE DEF gaveUp
  <2>2. CASE k \in Kinds
    <3>1. rec.hops + Rank(rec.going.url[1], k, user.admin) <= 3
      BY <1>2, <2>1, <2>2 DEF NearlyThere
    <3>2. Rank(url[1], k, user.admin) < Rank(rec.going.url[1], k, user.admin)
      BY <2>1, <2>2 DEF Onward
    <3>3. Rank(url[1], k, user.admin) \in 0..3 /\ Rank(rec.going.url[1], k, user.admin) \in 0..3
      BY RankRange
    <3>4. rec.hops \in Nat BY <1>1, SignInAssumption DEF TabRecords
    <3> QED BY <1>3, <3>1, <3>2, <3>3, <3>4, SignInAssumption
  <2>3. CASE k \notin Kinds
    <3>1. \E j \in kinds : j \in Kinds BY DEF Onward
    <3> QED BY <2>1, <2>3, <3>1
  <2> QED BY <2>2, <2>3
<1>7. tab' = [tab EXCEPT ![t] = [NewTab EXCEPT !.at = place, !.gaveUp = gaveUp]] BY DEF GivesUp
<1> HIDE DEF place, gaveUp
<1>8. GoodTab([NewTab EXCEPT !.at = place, !.gaveUp = gaveUp], user.admin)
  BY <1>4, <1>5, <1>6, RestingTabGood
<1> QED BY <1>7, <1>8

LEMMA AnsweredStep ==
  ASSUME SignInInv, NEW t \in Tabs, Answered(t)
  PROVE  SignInInv'
<1> DEFINE kind == Kind(tab[t].sent)
           place == tab[t].going
           next == NextUrl(place.url, kind)
<1>1. /\ place # Nowhere /\ jar' = Refreshed(tab[t].sent) /\ user' = user
      /\ \/ next = place.url /\ ShowsPage(t, {kind})
         \/ next # place.url /\ (Follows(t, next, {kind}) \/ GivesUp(t, next, {kind}))
  BY DEF Answered
<1>2. user \in Users /\ jar \in Tokens /\ tab[t] \in TabRecords /\ GoodPlace(place)
  BY <1>1 DEF SignInInv, SignInTypeOK, Tokens, GoodTab
<1>3. kind \in Kinds /\ {kind} \in SUBSET Meetings BY KindType DEF Meetings
<1>4. jar' \in Tokens
  <2>1. tab[t].sent \in Tokens BY <1>2 DEF TabRecords, Tokens
  <2> QED BY <1>1, <1>2, <2>1, RefreshedType
<1>5. /\ place.goal \in Paths /\ place.seen \in SUBSET Meetings /\ GoodUrl(place.url)
      /\ Bound(place.url, place.goal, place.seen)
  BY <1>2 DEF GoodPlace, Places
<1> HIDE DEF kind, next
<1>6. CASE next = place.url /\ ShowsPage(t, {kind})
  <2> DEFINE shown == OnTo(place, place.url, {kind})
  <2>1. Bound(place.url, place.goal, place.seen \cup {kind}) BY <1>5 DEF Bound
  <2>2. GoodPlace(shown) BY <1>2, <1>3, <1>5, <2>1, OnToGood
  <2>3. tab' = [tab EXCEPT ![t] = [NewTab EXCEPT !.at = shown]] BY <1>6 DEF ShowsPage
  <2> HIDE DEF shown
  <2> QED BY <1>1, <1>2, <1>4, <2>2, <2>3, ShownGood, TabChanged
<1>7. ASSUME next # place.url PROVE Onward(t, next, {kind})
  <2>1. /\ GoodUrl(next)
        /\ kind # "waitingAlone" =>
             Rank(next[1], kind, user.admin) < Rank(place.url[1], kind, user.admin)
        /\ Bound(next, place.goal, place.seen \cup {kind})
    BY <1>2, <1>3, <1>5, <1>7, Redirected DEF next
  <2> QED BY <1>3, <2>1 DEF Onward
<1>8. CASE next # place.url /\ Follows(t, next, {kind})
  BY <1>1, <1>2, <1>4, <1>7, <1>8, FollowsGood, TabChanged
<1>9. CASE next # place.url /\ GivesUp(t, next, {kind})
  BY <1>1, <1>2, <1>4, <1>7, <1>9, GivesUpGood, TabChanged
<1> QED BY <1>1, <1>6, <1>8, <1>9

LEMMA CutOffStep ==
  ASSUME SignInInv, NEW t \in Tabs, CutOff(t)
  PROVE  SignInInv'
<1> DEFINE kind == Kind(tab[t].sent)
           place == tab[t].going
           next == PageLogin(place.url)
           kinds == {kind, "cut"}
<1>1. /\ place # Nowhere /\ user' = Reset /\ jar' = tab[t].sent
      /\ place.url[1] \in ConsolePages \cup {"authorize"}
      /\ Follows(t, next, kinds) \/ GivesUp(t, next, kinds)
  BY DEF CutOff
<1>2. user \in Users /\ jar \in Tokens /\ tab[t] \in TabRecords /\ GoodPlace(place)
  BY <1>1 DEF SignInInv, SignInTypeOK, Tokens, GoodTab
<1>3. kind \in Kinds /\ kind # "cut" /\ kinds \in SUBSET Meetings /\ kinds \cap Kinds # {}
  BY KindType DEF Meetings, Kinds
<1>4. jar' \in Tokens /\ user' \in Users /\ user'.admin = user.admin
  BY <1>1, <1>2, UserChanged DEF TabRecords, Tokens, Reset
<1>5. /\ place.goal \in Paths /\ GoodUrl(place.url)
      /\ Bound(place.url, place.goal, place.seen)
  BY <1>2 DEF GoodPlace, Places
<1>6. Onward(t, next, kinds)
  <2>1. GoodUrl(next) /\ Bound(next, place.goal, place.seen \cup kinds)
    <3>1. CASE place.url[1] = "authorize"
      <4>1. GoodUrl(next) /\ Last1(next) = Last1(place.url)
        BY <1>5, <3>1, UrlPrefixed DEF PageLogin
      <4> QED BY <1>5, <4>1 DEF Bound, LeadsTo, Last1
    <3>2. CASE place.url[1] # "authorize"
      <4>1. next = <<"login">> \o <<"home">> BY <3>2 DEF PageLogin
      <4>2. GoodUrl(<<"home">>) /\ Last1(<<"home">>) = "home"
        BY UrlSingle DEF Paths, ConsolePages, TenantPages
      <4>3. GoodUrl(next) /\ Last1(next) = "home" BY <4>1, <4>2, UrlPrefixed
      <4>4. place.url[1] \in ConsolePages /\ place.url[1] \notin {"login", "mfa"}
        BY <1>1, <3>2 DEF ConsolePages, TenantPages
      <4>5. LeadsTo(place.url) = place.url[1]
        <5>1. Last1(place.url) = place.url[1] BY <1>5, <4>4, UrlAlone
        <5> QED BY <4>4, <5>1 DEF LeadsTo, Last1, Destination, ConsolePages, TenantPages
      <4>6. Destination(place.goal) = place.url[1] =>
              place.url[1] = "home" \/ "cut" \in Excuses(place.goal)
        BY <4>4 DEF Destination, Excuses, ConsolePages, TenantPages
      <4>7. LeadsTo(next) = "home" BY <4>3 DEF LeadsTo, Last1, Destination
      <4> QED BY <1>5, <4>3, <4>5, <4>6, <4>7 DEF Bound
    <3> QED BY <3>1, <3>2
  <2>2. \A k \in Kinds : ~(kinds \subseteq {k}) BY <1>3 DEF Kinds
  <2> QED BY <1>3, <2>1, <2>2 DEF Onward
<1> HIDE DEF kind, next, kinds
<1>7. CASE Follows(t, next, kinds)
  BY <1>1, <1>2, <1>4, <1>6, <1>7, FollowsGood, TabChanged
<1>8. CASE GivesUp(t, next, kinds)
  BY <1>1, <1>2, <1>4, <1>6, <1>8, GivesUpGood, TabChanged
<1> QED BY <1>1, <1>7, <1>8

\* The answer to a click, and what the page loads then.
LEMMA GoesOnGood ==
  ASSUME SignInInv, NEW t \in Tabs, NEW url, NEW goal, GoesOn(t, url, goal),
         GoodPlace([url |-> url, goal |-> goal, seen |-> tab[t].at.seen]),
         jar' \in Tokens, user' \in Users, user'.admin = user.admin
  PROVE  SignInInv'
<1> DEFINE rec == tab[t]
           place == [url |-> url, goal |-> goal, seen |-> rec.at.seen]
           loaded == Load(rec, place, jar')
           new == [loaded EXCEPT !.work = "idle", !.lent = NoToken]
<1>1. /\ rec \in TabRecords /\ GoodPlace(rec.at) /\ WorksOn(rec.work, rec.at.url[1])
      /\ Ended(rec)
  BY DEF SignInInv, SignInTypeOK, GoodTab
<1>2. tab' = [tab EXCEPT ![t] = new] BY DEF GoesOn
<1>3. GoodPlace(place) OBVIOUS
<1> HIDE DEF place
<1>4. GoodTab(loaded, user.admin) BY <1>1, <1>3, LoadGood DEF Tokens
<1> HIDE DEF loaded
<1>5. /\ new \in TabRecords /\ new.at = loaded.at /\ new.gaveUp = loaded.gaveUp
      /\ new.going = loaded.going /\ new.hops = loaded.hops /\ new.met = loaded.met
      /\ new.work = "idle"
  BY <1>4 DEF GoodTab, TabRecords, Submits
<1> HIDE DEF new
<1>6. GoodTab(new, user.admin)
  <2>1. GoodPlace(new.at) /\ Ended(new) BY <1>4, <1>5 DEF GoodTab, Ended
  <2>2. WorksOn(new.work, new.at.url[1]) BY <1>5 DEF WorksOn
  <2>3. new.going # Nowhere => GoodPlace(new.going) /\ NearlyThere(new, user.admin)
    BY <1>4, <1>5 DEF GoodTab, NearlyThere
  <2> QED BY <1>5, <2>1, <2>2, <2>3 DEF GoodTab
<1> QED BY <1>2, <1>6, TabChanged

\* The address a page hands on leads where its own does.
LEMMA HandedOn ==
  ASSUME NEW place, GoodPlace(place), place.url[1] \in {"login", "mfa"}, NEW url,
         url \in {Callback(place.url), <<"mfa">> \o Callback(place.url)}
  PROVE  GoodPlace([url |-> url, goal |-> place.goal, seen |-> place.seen])
<1>1. /\ place \in Places /\ GoodUrl(place.url)
      /\ Bound(place.url, place.goal, place.seen)
  BY DEF GoodPlace
<1>2. /\ GoodUrl(Callback(place.url)) /\ Callback(place.url)[1] # "login"
      /\ LeadsTo(Callback(place.url)) = LeadsTo(place.url)
  BY <1>1, CallbackGood
<1>3. GoodUrl(url) /\ LeadsTo(url) = LeadsTo(place.url)
  <2>1. CASE url = Callback(place.url) BY <2>1, <1>2
  <2>2. CASE url = <<"mfa">> \o Callback(place.url)
    <3>1. GoodUrl(url) /\ Last1(url) = Last1(Callback(place.url)) BY <2>2, <1>2, UrlPrefixed
    <3> QED BY <3>1, <1>2 DEF LeadsTo, Last1
  <2> QED BY <2>1, <2>2
<1>4. Bound(url, place.goal, place.seen) BY <1>1, <1>3 DEF Bound
<1>5. url \in Urls BY <1>3 DEF GoodUrl
<1>6. [url |-> url, goal |-> place.goal, seen |-> place.seen] \in Places
  BY <1>1, <1>5 DEF Places
<1> QED BY <1>3, <1>4, <1>6 DEF GoodPlace

LEMMA TokenForType ==
  ASSUME user \in Users, NEW waiting \in BOOLEAN
  PROVE  TokenFor(waiting) \in Tokens
BY DEF TokenFor, Users, SessionTokens, Tokens

LEMMA BusyStep ==
  ASSUME SignInInv, NEW t \in Tabs, NEW what \in Submits, SubmitForm(t, what)
  PROVE  SignInInv'
<1> DEFINE rec == tab[t]
           new == [rec EXCEPT !.work = what, !.lent = jar]
<1>1. /\ rec \in TabRecords /\ GoodTab(rec, user.admin) /\ jar \in Tokens /\ user \in Users
      /\ tab \in [Tabs -> TabRecords]
  BY DEF SignInInv, SignInTypeOK, Tokens
<1>2. tab' = [tab EXCEPT ![t] = new] /\ user' = user /\ jar' = jar
  BY <1>1 DEF SubmitForm, TabRecords
<1>3. what \in SubmitsOn(rec.at.url[1]) BY DEF SubmitForm
<1>4. /\ new \in TabRecords /\ new.at = rec.at /\ new.gaveUp = rec.gaveUp
      /\ new.going = rec.going /\ new.hops = rec.hops /\ new.met = rec.met /\ new.work = what
  BY <1>1 DEF TabRecords, Tokens
<1> HIDE DEF new, rec
<1>5. WorksOn(what, rec.at.url[1]) BY <1>3 DEF WorksOn, SubmitsOn
<1>6. GoodTab(new, user.admin) BY <1>1, <1>4, <1>5 DEF GoodTab, Ended, NearlyThere
<1> QED BY <1>1, <1>2, <1>6, TabChanged

LEMMA RefusedStep ==
  ASSUME SignInInv, NEW t \in Tabs, Refused(t)
  PROVE  SignInInv'
<1> DEFINE rec == tab[t]
           new == [rec EXCEPT !.work = "idle", !.lent = NoToken]
<1>1. /\ rec \in TabRecords /\ GoodTab(rec, user.admin) /\ jar \in Tokens /\ user \in Users
      /\ tab \in [Tabs -> TabRecords]
  BY DEF SignInInv, SignInTypeOK, Tokens
<1>2. tab' = [tab EXCEPT ![t] = new] /\ user' = user
  BY <1>1 DEF Refused, TabRecords
<1>3. jar' \in Tokens
  <2>1. rec.lent \in Tokens BY <1>1 DEF TabRecords, Tokens
  <2> QED BY <1>1, <2>1, RefreshedType DEF Refused, Tokens
<1>4. /\ new \in TabRecords /\ new.at = rec.at /\ new.gaveUp = rec.gaveUp
      /\ new.going = rec.going /\ new.hops = rec.hops /\ new.met = rec.met /\ new.work = "idle"
  BY <1>1 DEF TabRecords, Submits
<1> HIDE DEF new, rec
<1>5. WorksOn("idle", rec.at.url[1]) BY DEF WorksOn
<1>6. GoodTab(new, user.admin) BY <1>1, <1>4, <1>5 DEF GoodTab, Ended, NearlyThere
<1> QED BY <1>1, <1>2, <1>3, <1>6, TabChanged

LEMMA SignInStepInv == SignInInv /\ [SignInNext]_signInVars => SignInInv'
<1> SUFFICES ASSUME SignInInv, [SignInNext]_signInVars PROVE SignInInv' OBVIOUS
<1>0. /\ user \in Users /\ jar \in Tokens /\ tab \in [Tabs -> TabRecords]
      /\ \A t \in Tabs : tab[t] \in TabRecords /\ GoodTab(tab[t], user.admin)
  BY DEF SignInInv, SignInTypeOK, Tokens
<1>1. ASSUME NEW t \in Tabs, NEW place, GoodPlace(place),
             tab' = [tab EXCEPT ![t] = Load(tab[t], place, jar)], UNCHANGED <<user, jar>>
      PROVE  SignInInv'
  <2>1. GoodTab(Load(tab[t], place, jar), user.admin) BY <1>0, <1>1, LoadGood DEF GoodTab, Tokens
  <2> QED BY <1>0, <1>1, <2>1, TabChanged
<1>2. ASSUME NEW t \in Tabs, NEW path \in Paths, Visit(t, path) PROVE SignInInv'
  <2> DEFINE place == [url |-> <<path>>, goal |-> path, seen |-> {}]
  <2>1. GoodPlace(place) BY PlaceOfPath
  <2>2. tab' = [tab EXCEPT ![t] = Load(tab[t], place, jar)] /\ UNCHANGED <<user, jar>>
    BY <1>0, <1>2 DEF Visit
  <2> HIDE DEF place
  <2> QED BY <1>1, <2>1, <2>2
<1>3. ASSUME NEW t \in Tabs, Reopen(t) PROVE SignInInv'
  <2>1. tab' = [tab EXCEPT ![t] = Load(tab[t], tab[t].at, jar)] /\ UNCHANGED <<user, jar>>
    BY <1>0, <1>3 DEF Reopen
  <2> QED BY <1>0, <1>1, <2>1 DEF GoodTab
<1>4. ASSUME NEW t \in Tabs, SignedIn(t) PROVE SignInInv'
  <2>1. tab[t].at.url[1] = "login" /\ GoodPlace(tab[t].at)
    BY <1>0, <1>4 DEF SignedIn, GoodTab, WorksOn
  <2>2. jar' \in Tokens /\ user' = user BY <1>0, <1>4, TokenForType DEF SignedIn, Users
  <2>3. GoodPlace([url |-> Callback(tab[t].at.url), goal |-> tab[t].at.goal,
                   seen |-> tab[t].at.seen])
    BY <2>1, HandedOn
  <2> QED BY <1>0, <1>4, <2>2, <2>3, GoesOnGood DEF SignedIn
<1>5. ASSUME NEW t \in Tabs, SignedInByPasskey(t) PROVE SignInInv'
  <2>1. tab[t].at.url[1] = "login" /\ GoodPlace(tab[t].at)
    BY <1>0, <1>5 DEF SignedInByPasskey, GoodTab, WorksOn
  <2>2. jar' \in Tokens /\ user' = user BY <1>0, <1>5, TokenForType DEF SignedInByPasskey, Users
  <2>3. GoodPlace([url |-> AfterPasskey(tab[t].at.url), goal |-> tab[t].at.goal,
                   seen |-> tab[t].at.seen])
    BY <2>1, HandedOn DEF AfterPasskey
  <2> QED BY <1>0, <1>5, <2>2, <2>3, GoesOnGood DEF SignedInByPasskey
<1>6. ASSUME NEW t \in Tabs, Verified(t) PROVE SignInInv'
  <2>1. tab[t].at.url[1] = "mfa" /\ GoodPlace(tab[t].at)
    BY <1>0, <1>6 DEF Verified, GoodTab, WorksOn
  <2>2. jar' \in Tokens /\ user' = user BY <1>0, <1>6, TokenForType DEF Verified
  <2>3. GoodPlace([url |-> Callback(tab[t].at.url), goal |-> tab[t].at.goal,
                   seen |-> tab[t].at.seen])
    BY <2>1, HandedOn
  <2> QED BY <1>0, <1>6, <2>2, <2>3, GoesOnGood DEF Verified
<1>7. ASSUME NEW t \in Tabs
      PROVE  GoodPlace([url |-> <<"login">>, goal |-> "login", seen |-> tab[t].at.seen])
  <2>1. tab[t].at.seen \in SUBSET Meetings BY <1>0 DEF GoodTab, GoodPlace, Places
  <2>2. "login" \in Paths BY DEF Paths
  <2> QED BY <2>1, <2>2, PlaceOfPath
<1>8. ASSUME NEW t \in Tabs, Recovered(t) PROVE SignInInv'
  <2>1. user' \in Users /\ user'.admin = user.admin /\ jar' \in Tokens
    BY <1>0, <1>8, UserChanged DEF Recovered, Tokens
  <2> QED BY <1>7, <1>8, <2>1, GoesOnGood DEF Recovered
<1>9. ASSUME NEW t \in Tabs, SignOut(t) PROVE SignInInv'
  <2>1. user' \in Users /\ user'.admin = user.admin /\ jar' \in Tokens
    BY <1>0, <1>9 DEF SignOut, Tokens
  <2> QED BY <1>7, <1>9, <2>1, GoesOnGood DEF SignOut
<1>10. ASSUME tab' = tab, user' \in Users, user'.admin = user.admin, jar' \in Tokens
       PROVE  SignInInv'
  BY <1>10 DEF SignInInv, SignInTypeOK, Tokens
<1>11. CASE Expires BY <1>0, <1>10, <1>11 DEF Expires, Tokens
<1>12. CASE Elsewhere
  <2>1. user' \in Users /\ user'.admin = user.admin BY <1>0, <1>12, UserChanged DEF Elsewhere
  <2> QED BY <1>0, <1>10, <1>12, <2>1 DEF Elsewhere
<1>13. CASE UNCHANGED signInVars BY <1>0, <1>10, <1>13 DEF signInVars
<1> QED
  BY <1>2, <1>3, <1>4, <1>5, <1>6, <1>8, <1>9, <1>11, <1>12, <1>13,
     AnsweredStep, CutOffStep, BusyStep, RefusedStep DEF SignInNext, TabStep

LEMMA SignInInvariance == SignInSpec => []SignInInv
<1>1. SignInInit => SignInInv BY SignInInitInv
<1>2. SignInInv /\ [SignInNext]_signInVars => SignInInv' BY SignInStepInv
<1> QED BY <1>1, <1>2, PTL DEF SignInSpec

\* The account, the cookie and the tabs keep their types.
THEOREM SignInTyped == SignInSpec => []SignInTypeOK
<1>1. SignInInv => SignInTypeOK BY DEF SignInInv
<1> QED BY <1>1, SignInInvariance, PTL

\* Whatever tabs, sessions and administrators do, a tab stays on its way to the address its
\* user set out for, except for want of a tenant, or of the second factor of a console page.
THEOREM GoalsKept == SignInSpec => []GoalKept
<1>1. SignInInv => GoalKept
  <2> SUFFICES ASSUME SignInInv, NEW t \in Tabs
               PROVE  OnTheWay(tab[t].at) /\ (tab[t].going # Nowhere => OnTheWay(tab[t].going))
    BY DEF GoalKept
  <2> QED BY DEF SignInInv, GoodTab, GoodPlace, Bound, OnTheWay
<1> QED BY <1>1, SignInInvariance, PTL

\* A browser that gives up on redirects has met two sessions on the way, or one that waits for
\* its second factor and has no tenant: three redirects are the most that one session meets.
THEOREM RedirectsEnded == SignInSpec => []RedirectsEnd
<1>1. SignInInv => RedirectsEnd BY DEF SignInInv, GoodTab, Ended, RedirectsEnd
<1> QED BY <1>1, SignInInvariance, PTL

=============================================================================
