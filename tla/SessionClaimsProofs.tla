------------------------- MODULE SessionClaimsProofs -------------------------
(***************************************************************************)
(* Proofs about SessionClaims: types, that codes in a session were held,   *)
(* and that roles outlive a membership only where a removal and an         *)
(* assignment met.                                                         *)
(***************************************************************************)
EXTENDS SessionClaims, TLAPS

-----------------------------------------------------------------------------
(* The inductive invariant. *)

TablesOK ==
  /\ account \in [Users -> {"unborn", "open", "deleted"}]
  /\ member \subseteq Users \X Tenants /\ holds \subseteq Users \X Roles
  /\ \A e \in member : account[e[1]] = "open"
  /\ \A e \in holds : account[e[1]] = "open"
  /\ gives \in [Roles -> SUBSET PermCodes]
  /\ ever \subseteq Users \X Tenants \X PermCodes /\ raced \subseteq Users \X Tenants

HeldEver == \A u \in Users, n \in Tenants : \A c \in Held(u, n) : <<u, n, c>> \in ever

CookiesOK == cookie \in [Users -> Claims] /\ \A u \in Users : WereHeld(u, cookie[u])

\* The assignments that have checked the membership, or have made it.
Assigned == {"assignClear", "assignNext", "assignInsert"}

\* What a handler under way has chosen, and what it still knows of the tables.
RowOK(h) ==
  /\ h.pc # "none" => h.user \in Users /\ WereHeld(h.user, h.claims)
  /\ h.pc \in AssignPCs \cup RemovalPCs \cup {"codesRead"} => h.tenant \in Tenants
  /\ h.pc = "fillRead" => h.claims.tenant \in Tenants
  /\ h.pc = "assignInsert" => h.current \in Roles /\ RoleTenant[h.current] = h.tenant
  /\ h.pc \in Assigned /\ ~h.late =>
       <<h.user, h.tenant>> \in member \/ account[h.user] = "deleted"
  /\ h.pc = "removalMember" =>
       \A ro \in Roles : RoleTenant[ro] = h.tenant /\ <<h.user, ro>> \in holds =>
         <<h.user, h.tenant>> \in raced

ClaimsInv ==
  /\ TablesOK /\ HeldEver /\ RolesFollowMembership /\ CookiesOK
  /\ job \in [Jobs -> Job] /\ \A j \in Jobs : RowOK(job[j])

\* A step after which all other handlers know what they knew.
Steady ==
  /\ ever \subseteq ever' /\ raced \subseteq raced' /\ holds' \subseteq holds
  /\ \A u \in Users : account[u] = "deleted" => account'[u] = "deleted"
  /\ \A u \in Users, n \in Tenants :
       <<u, n>> \in member => <<u, n>> \in member' \/ account'[u] = "deleted"

LEMMA NilApart == Nil \notin Users /\ Nil \notin Tenants /\ Nil \notin Roles
  BY NilAssumption

LEMMA HeldMore ==
  ASSUME ever \subseteq ever', NEW u, NEW claims, WereHeld(u, claims)
  PROVE  WereHeld(u, claims)'
  BY DEF WereHeld

LEMMA RowStays ==
  ASSUME Steady, NEW h \in Job, RowOK(h)
  PROVE  RowOK(h)'
<1>1. h.pc # "none" => h.user \in Users /\ WereHeld(h.user, h.claims)'
  BY HeldMore DEF Steady, RowOK
<1>2. h.pc \in Assigned /\ ~h.late =>
        <<h.user, h.tenant>> \in member' \/ account'[h.user] = "deleted"
  <2>1. h.pc \in Assigned => h.user \in Users /\ h.tenant \in Tenants
    BY DEF RowOK, Assigned, AssignPCs
  <2> QED BY <2>1 DEF Steady, RowOK
<1>3. h.pc = "removalMember" =>
        \A ro \in Roles : RoleTenant[ro] = h.tenant /\ <<h.user, ro>> \in holds' =>
          <<h.user, h.tenant>> \in raced'
  BY DEF Steady, RowOK
<1> QED BY <1>1, <1>2, <1>3 DEF RowOK

\* One handler changes, the others stay.
LEMMA OneRow ==
  ASSUME ClaimsInv, NEW j \in Jobs, NEW h \in Job, job' = [job EXCEPT ![j] = h], RowOK(h)',
         Steady, TablesOK', HeldEver', RolesFollowMembership', CookiesOK'
  PROVE  ClaimsInv'
<1>1. job' \in [Jobs -> Job] /\ job'[j] = h /\ \A i \in Jobs \ {j} : job'[i] = job[i]
  BY DEF ClaimsInv
<1>2. ASSUME NEW i \in Jobs PROVE RowOK(job[i])'
  <2>1. CASE i = j BY <1>1, <2>1 DEF RowOK, WereHeld
  <2>2. CASE i # j
    <3>1. PICK g \in Job : g = job[i] BY DEF ClaimsInv
    <3>2. RowOK(g) BY <3>1 DEF ClaimsInv
    <3>3. RowOK(g)' BY <3>2, RowStays
    <3>4. job'[i] = g BY <1>1, <2>2, <3>1
    <3> QED BY <3>3, <3>4 DEF RowOK, WereHeld
  <2> QED BY <2>1, <2>2
<1> QED BY <1>1, <1>2 DEF ClaimsInv

LEMMA NoJobOK ==
  NoJob \in Job /\ NoJob.pc = "none"
  BY DEF NoJob, NoClaims, Job, JobPCs, Claims

LEMMA TablesRest ==
  ASSUME ClaimsInv, UNCHANGED <<account, member, holds, gives, ever, raced>>
  PROVE  /\ TablesOK' /\ HeldEver' /\ RolesFollowMembership' /\ Steady
         /\ cookie' = cookie => CookiesOK'
         /\ \A h \in Job : RowOK(h) => RowOK(h)'
<1>1. TablesOK' /\ Steady BY DEF ClaimsInv, TablesOK, Steady
<1>2. HeldEver' BY DEF ClaimsInv, HeldEver, Held
<1>3. RolesFollowMembership' BY DEF ClaimsInv, RolesFollowMembership
<1>4. cookie' = cookie => CookiesOK' BY DEF ClaimsInv, CookiesOK, WereHeld
<1> QED BY <1>1, <1>2, <1>3, <1>4, RowStays

\* A handler reads, and goes on as h.
LEMMA Reading ==
  ASSUME ClaimsInv, UNCHANGED <<rows, cookie, claimsHistory>>, NEW j \in Jobs, NEW h \in Job,
         job' = [job EXCEPT ![j] = h], RowOK(h)
  PROVE  ClaimsInv'
<1>1. UNCHANGED <<account, member, holds, gives, ever, raced>> /\ cookie' = cookie
  BY DEF rows, claimsHistory
<1> QED BY <1>1, TablesRest, OneRow

LEMMA Ending ==
  ASSUME ClaimsInv, UNCHANGED <<rows, cookie, claimsHistory>>, NEW j \in Jobs, JobEnd(j)
  PROVE  ClaimsInv'
<1>1. job' = [job EXCEPT ![j] = NoJob] BY DEF JobEnd
<1>2. RowOK(NoJob) BY NoJobOK DEF RowOK, AssignPCs, RemovalPCs, Assigned
<1> QED BY <1>1, <1>2, NoJobOK, Reading

-----------------------------------------------------------------------------
(* The token. *)

\* A handler begins, with the cookie of its user.
LEMMA Starting ==
  ASSUME ClaimsInv, NEW j \in Jobs, NEW pc \in JobPCs, NEW u \in Users,
         NEW n \in Tenants \cup {Nil}, NEW W \in SUBSET Roles, StartJob(j, pc, u, n, W),
         pc \in {"assignCheck", "removalRoles", "loginRead", "fillRead", "switchRead", "codesRead",
                "answer"},
         pc \in {"assignCheck", "removalRoles", "codesRead"} => n \in Tenants,
         pc = "fillRead" => Lacking(cookie[u])
  PROVE  ClaimsInv'
<1> DEFINE h == [pc |-> pc, user |-> u, tenant |-> n, claims |-> cookie[u], todo |-> W,
                 current |-> Nil, late |-> FALSE]
<1>1. job' = [job EXCEPT ![j] = h] /\ UNCHANGED <<rows, cookie, claimsHistory>> BY DEF StartJob
<1>2. cookie[u] \in Claims /\ WereHeld(u, cookie[u]) BY DEF ClaimsInv, CookiesOK
<1>3. h \in Job BY <1>2 DEF Job
<1>4. Lacking(cookie[u]) => cookie[u].tenant \in Tenants BY <1>2 DEF Lacking, Claims
<1>5. RowOK(h) BY <1>2, <1>4 DEF RowOK, AssignPCs, RemovalPCs, Assigned
<1> QED BY <1>1, <1>3, <1>5, Reading

LEMMA Arrivals ==
  ASSUME ClaimsInv, NEW j \in Jobs, NEW u \in Users,
         \/ Login(j, u) \/ Visit(j, u) \/ SwitchTenant(j, u, Nil)
         \/ \E n \in Tenants :
              \/ SwitchTenant(j, u, n) \/ Remove(j, u, n)
              \/ \E W \in SUBSET Roles : Assign(j, u, n, W)
  PROVE  ClaimsInv'
<1>1. {} \in SUBSET Roles /\ Nil \in Tenants \cup {Nil} OBVIOUS
<1>2. /\ "loginRead" \in JobPCs /\ "fillRead" \in JobPCs /\ "switchRead" \in JobPCs
      /\ "codesRead" \in JobPCs /\ "answer" \in JobPCs /\ "assignCheck" \in JobPCs
      /\ "removalRoles" \in JobPCs
  BY DEF JobPCs, TokenPCs, AssignPCs, RemovalPCs
<1>3. CASE Login(j, u) BY <1>1, <1>2, <1>3, Starting DEF Login
<1>4. CASE Visit(j, u)
  <2>1. CASE Lacking(cookie[u])
    <3>1. StartJob(j, "codesRead", u, cookie[u].tenant, {}) BY <1>4, <2>1 DEF Visit
    <3>2. cookie[u].tenant \in Tenants BY <2>1 DEF Lacking, ClaimsInv, CookiesOK, Claims
    <3> QED BY <1>1, <1>2, <3>1, <3>2, Starting
  <2>2. CASE ~Lacking(cookie[u])
    <3>1. StartJob(j, "answer", u, Nil, {}) BY <1>4, <2>2 DEF Visit
    <3> QED BY <1>1, <1>2, <3>1, Starting
  <2> QED BY <2>1, <2>2
<1>5. ASSUME NEW n \in Tenants \cup {Nil}, SwitchTenant(j, u, n) PROVE ClaimsInv'
  <2>1. CASE Lacking(cookie[u])
    <3>1. StartJob(j, "fillRead", u, n, {}) BY <1>5, <2>1 DEF SwitchTenant
    <3> QED BY <1>1, <1>2, <2>1, <3>1, Starting
  <2>2. CASE ~Lacking(cookie[u])
    <3>1. StartJob(j, "switchRead", u, n, {}) BY <1>5, <2>2 DEF SwitchTenant
    <3> QED BY <1>1, <1>2, <3>1, Starting
  <2> QED BY <2>1, <2>2
<1>6. ASSUME NEW n \in Tenants, Remove(j, u, n) PROVE ClaimsInv'
  BY <1>1, <1>2, <1>6, Starting DEF Remove
<1>7. ASSUME NEW n \in Tenants, NEW W \in SUBSET Roles, Assign(j, u, n, W) PROVE ClaimsInv'
  BY <1>2, <1>7, Starting DEF Assign
<1> QED BY <1>3, <1>4, <1>5, <1>6, <1>7

\* The row of a handler that goes on to `pc`, with other fields as given.
LEMMA RowFacts ==
  ASSUME ClaimsInv, NEW j \in Jobs
  PROVE  job[j] \in Job /\ RowOK(job[j])
  BY DEF ClaimsInv

LEMMA NoClaimsOK ==
  NoClaims \in Claims /\ NoClaims.tenant = Nil /\ \A u : WereHeld(u, NoClaims)
  BY DEF NoClaims, Claims, WereHeld

LEMMA ReadMembershipsStep ==
  ASSUME ClaimsInv, NEW j \in Jobs, ReadMemberships(j)
  PROVE  ClaimsInv'
<1> DEFINE g == job[j]
<1>1. g \in Job /\ RowOK(g) /\ g.pc = "loginRead" BY RowFacts DEF ReadMemberships, JobAt
<1>2. UNCHANGED <<rows, cookie, claimsHistory>> BY DEF ReadMemberships
<1>3. CASE \E n \in Tenants : job' = [job EXCEPT ![j].pc = "codesRead", ![j].tenant = n]
  <2>1. PICK n \in Tenants : job' = [job EXCEPT ![j] = [g EXCEPT !.pc = "codesRead", !.tenant = n]]
    BY <1>3
  <2> DEFINE h == [g EXCEPT !.pc = "codesRead", !.tenant = n]
  <2>2. h \in Job BY <1>1 DEF Job, JobPCs, TokenPCs
  <2>3. RowOK(h) BY <1>1 DEF RowOK, Job, AssignPCs, RemovalPCs, Assigned
  <2> QED BY <1>2, <2>1, <2>2, <2>3, Reading
<1>4. CASE job' = [job EXCEPT ![j].pc = "answer", ![j].claims = NoClaims]
  <2> DEFINE h == [g EXCEPT !.pc = "answer", !.claims = NoClaims]
  <2>1. h \in Job BY <1>1, NoClaimsOK DEF Job, JobPCs, TokenPCs
  <2>2. RowOK(h) BY <1>1, NoClaimsOK DEF RowOK, Job, AssignPCs, RemovalPCs, Assigned
  <2>3. job' = [job EXCEPT ![j] = h] BY <1>4
  <2> QED BY <1>2, <2>1, <2>2, <2>3, Reading
<1> QED BY <1>3, <1>4 DEF ReadMemberships

LEMMA ReadCodesStep ==
  ASSUME ClaimsInv, NEW j \in Jobs, ReadCodes(j)
  PROVE  ClaimsInv'
<1> DEFINE g == job[j]
           cl == [tenant |-> g.tenant, codes |-> CodesOf(j)]
           h == [g EXCEPT !.pc = "answer", !.claims = cl]
<1>1. g \in Job /\ RowOK(g) /\ g.pc = "codesRead" BY RowFacts DEF ReadCodes, JobAt
<1>2. UNCHANGED <<rows, cookie, claimsHistory>> BY DEF ReadCodes
<1>3. job' = [job EXCEPT ![j] = h] BY DEF ReadCodes
<1>4. g.user \in Users /\ g.tenant \in Tenants BY <1>1 DEF RowOK
<1>5. cl \in Claims BY <1>4 DEF CodesOf, Held, Claims
<1>6. WereHeld(g.user, cl)
  <2>1. cl.tenant = g.tenant /\ cl.codes = Held(g.user, g.tenant) BY DEF CodesOf
  <2>2. g.tenant # Nil BY <1>4, NilApart
  <2> QED BY <1>4, <2>1, <2>2 DEF WereHeld, ClaimsInv, HeldEver
<1> HIDE DEF cl
<1>7. h \in Job BY <1>1, <1>5 DEF Job, JobPCs, TokenPCs
<1>8. RowOK(h) BY <1>1, <1>4, <1>6 DEF RowOK, Job, AssignPCs, RemovalPCs, Assigned
<1> QED BY <1>2, <1>3, <1>7, <1>8, Reading

LEMMA FillCodesStep ==
  ASSUME ClaimsInv, NEW j \in Jobs, FillCodes(j)
  PROVE  ClaimsInv'
<1> DEFINE g == job[j]
           cl == [g.claims EXCEPT !.codes = Held(g.user, g.claims.tenant)]
           h == [g EXCEPT !.pc = "switchRead", !.claims = cl]
<1>1. g \in Job /\ RowOK(g) /\ g.pc = "fillRead" BY RowFacts DEF FillCodes, JobAt
<1>2. UNCHANGED <<rows, cookie, claimsHistory>> BY DEF FillCodes
<1>3. job' = [job EXCEPT ![j] = h] BY DEF FillCodes
<1>4. g.user \in Users /\ g.claims.tenant \in Tenants /\ g.claims \in Claims
  BY <1>1 DEF RowOK, Job
<1>5. cl \in Claims BY <1>4 DEF Held, Claims
<1>6. WereHeld(g.user, cl)
  <2>1. cl.tenant = g.claims.tenant /\ cl.codes = Held(g.user, g.claims.tenant) BY <1>4 DEF Claims
  <2>2. g.claims.tenant # Nil BY <1>4, NilApart
  <2> QED BY <1>4, <2>1, <2>2 DEF WereHeld, ClaimsInv, HeldEver
<1> HIDE DEF cl
<1>7. h \in Job BY <1>1, <1>5 DEF Job, JobPCs, TokenPCs
<1>8. RowOK(h) BY <1>1, <1>4, <1>6 DEF RowOK, Job, AssignPCs, RemovalPCs, Assigned
<1> QED BY <1>2, <1>3, <1>7, <1>8, Reading

LEMMA ReadMembershipStep ==
  ASSUME ClaimsInv, NEW j \in Jobs, ReadMembership(j)
  PROVE  ClaimsInv'
<1> DEFINE g == job[j]
<1>1. g \in Job /\ RowOK(g) /\ g.pc = "switchRead" BY RowFacts DEF ReadMembership, JobAt
<1>2. UNCHANGED <<rows, cookie, claimsHistory>> BY DEF ReadMembership
<1>3. CASE g.tenant = Nil
  <2> DEFINE h == [g EXCEPT !.pc = "answer", !.claims = NoClaims]
  <2>1. h \in Job BY <1>1, NoClaimsOK DEF Job, JobPCs, TokenPCs
  <2>2. RowOK(h) BY <1>1, NoClaimsOK DEF RowOK, Job, AssignPCs, RemovalPCs, Assigned
  <2>3. job' = [job EXCEPT ![j] = h] BY <1>3 DEF ReadMembership
  <2> QED BY <1>2, <2>1, <2>2, <2>3, Reading
<1>4. CASE g.tenant # Nil
  <2>1. PICK pc \in {"codesRead", "answer"} : job' = [job EXCEPT ![j] = [g EXCEPT !.pc = pc]]
    BY <1>4 DEF ReadMembership, JobGoto
  <2> DEFINE h == [g EXCEPT !.pc = pc]
  <2>2. h \in Job BY <1>1 DEF Job, JobPCs, TokenPCs
  <2>3. g.tenant \in Tenants BY <1>1, <1>4 DEF Job
  <2>4. RowOK(h) BY <1>1, <2>3 DEF RowOK, Job, AssignPCs, RemovalPCs, Assigned
  <2> QED BY <1>2, <2>1, <2>2, <2>4, Reading
<1> QED BY <1>3, <1>4

\* The late answer replaces the cookie by the claims its handler has made.
LEMMA SetCookieStep ==
  ASSUME ClaimsInv, NEW j \in Jobs, SetCookie(j)
  PROVE  ClaimsInv'
<1> DEFINE g == job[j]
<1>1. g \in Job /\ RowOK(g) /\ g.pc = "answer" BY RowFacts DEF SetCookie, JobAt
<1>2. /\ UNCHANGED <<account, member, holds, gives, ever, raced>>
      /\ cookie' = [cookie EXCEPT ![g.user] = g.claims] /\ job' = [job EXCEPT ![j] = NoJob]
  BY DEF SetCookie, JobEnd, rows, claimsHistory
<1>3. g.user \in Users /\ g.claims \in Claims /\ WereHeld(g.user, g.claims)
  BY <1>1 DEF RowOK, Job
<1>4. CookiesOK'
  <2>1. \A u \in Users : cookie'[u] = IF u = g.user THEN g.claims ELSE cookie[u]
    BY <1>2 DEF ClaimsInv, CookiesOK
  <2>2. \A u \in Users : cookie'[u] \in Claims /\ WereHeld(u, cookie'[u])
    BY <1>3, <2>1 DEF ClaimsInv, CookiesOK
  <2>3. \A u \in Users : WereHeld(u, cookie[u])' BY <1>2, <2>2 DEF WereHeld
  <2>4. cookie' \in [Users -> Claims] BY <1>2, <1>3 DEF ClaimsInv, CookiesOK
  <2> QED BY <2>3, <2>4 DEF CookiesOK
<1>5. RowOK(NoJob) BY NoJobOK DEF RowOK, AssignPCs, RemovalPCs, Assigned
<1> QED BY <1>2, <1>4, <1>5, NoJobOK, TablesRest, OneRow

-----------------------------------------------------------------------------
(* The tables. *)

\* Where nobody gains a role, whatever is held was held before.
LEMMA HeldLess ==
  ASSUME ClaimsInv, holds' \subseteq holds, gives' = gives, ever \subseteq ever'
  PROVE  HeldEver'
<1>1. ASSUME NEW u \in Users, NEW n \in Tenants, NEW c \in Held(u, n)' PROVE <<u, n, c>> \in ever'
  <2>1. c \in Held(u, n) BY DEF Held
  <2> QED BY <2>1 DEF ClaimsInv, HeldEver
<1> QED BY <1>1 DEF HeldEver

LEMMA RememberAll ==
  ASSUME Remember
  PROVE  HeldEver' /\ ever \subseteq ever'
<1>1. ASSUME NEW u \in Users, NEW n \in Tenants, NEW c \in Held(u, n)' PROVE <<u, n, c>> \in ever'
  <2>1. c \in PermCodes BY DEF Held
  <2> DEFINE t == <<u, n, c>>
  <2>2. t \in Users \X Tenants \X PermCodes BY <2>1
  <2>3. t[3] \in Held(t[1], t[2])' OBVIOUS
  <2> QED BY <2>2, <2>3 DEF Remember
<1> QED BY <1>1 DEF HeldEver, Remember

LEMMA CookiesRest ==
  ASSUME ClaimsInv, cookie' = cookie, ever \subseteq ever'
  PROVE  CookiesOK'
<1>1. ASSUME NEW u \in Users PROVE WereHeld(u, cookie[u])'
  BY HeldMore DEF ClaimsInv, CookiesOK, WereHeld
<1> QED BY <1>1 DEF ClaimsInv, CookiesOK

LEMMA CreateUserStep ==
  ASSUME ClaimsInv, NEW j \in Jobs, NEW u \in Users, NEW n \in Tenants, NEW W \in SUBSET Roles,
         CreateUser(j, u, n, W)
  PROVE  ClaimsInv'
<1> DEFINE h == [NoJob EXCEPT !.pc = "createMember", !.user = u, !.tenant = n, !.todo = W]
<1>1. /\ account[u] = "unborn" /\ account' = [account EXCEPT ![u] = "open"]
      /\ job' = [job EXCEPT ![j] = h]
      /\ UNCHANGED <<member, holds, gives, cookie, ever, raced>>
  BY DEF CreateUser, claimsHistory
<1>2. h \in Job /\ h.pc = "createMember" /\ h.user = u /\ h.tenant = n /\ h.claims = NoClaims
  BY NoClaimsOK DEF NoJob, Job, JobPCs, AssignPCs
<1> HIDE DEF h
<1>3. \A x \in Users : account'[x] = IF x = u THEN "open" ELSE account[x]
  BY <1>1 DEF ClaimsInv, TablesOK
<1>4. \A x \in Users : account[x] = "open" => account'[x] = "open" BY <1>3
<1>5. TablesOK'
  <2>1. account' \in [Users -> {"unborn", "open", "deleted"}] BY <1>1 DEF ClaimsInv, TablesOK
  <2>2. \A e \in member : account'[e[1]] = "open" BY <1>4 DEF ClaimsInv, TablesOK
  <2>3. \A e \in holds : account'[e[1]] = "open" BY <1>4 DEF ClaimsInv, TablesOK
  <2> QED BY <1>1, <2>1, <2>2, <2>3 DEF ClaimsInv, TablesOK
<1>6. Steady BY <1>1, <1>3 DEF Steady
<1>7. HeldEver' /\ CookiesOK' BY <1>1, HeldLess, CookiesRest
<1>8. RolesFollowMembership' BY <1>1 DEF ClaimsInv, RolesFollowMembership
<1>9. RowOK(h)'
  <2>1. WereHeld(u, NoClaims)' BY DEF NoClaims, WereHeld
  <2> QED BY <1>2, <2>1 DEF RowOK, WereHeld, Assigned
<1> QED BY <1>1, <1>2, <1>5, <1>6, <1>7, <1>8, <1>9, OneRow

LEMMA InsertMemberStep ==
  ASSUME ClaimsInv, NEW j \in Jobs, InsertMember(j)
  PROVE  ClaimsInv'
<1>1. PICK g \in Job : g = job[j] /\ RowOK(g) /\ g.pc = "createMember"
  BY RowFacts DEF InsertMember, JobAt
<1>2. UNCHANGED <<account, holds, gives, cookie, ever, raced>> BY DEF InsertMember, claimsHistory
<1>3. CASE account[g.user] # "open"
  <2>1. JobEnd(j) /\ member' = member BY <1>1, <1>3 DEF InsertMember
  <2> QED BY <1>2, <2>1, Ending DEF rows, claimsHistory
<1>4. CASE account[g.user] = "open"
  <2> DEFINE h == [g EXCEPT !.pc = "assignNext"]
  <2>1. member' = member \cup {<<g.user, g.tenant>>} /\ job' = [job EXCEPT ![j] = h]
    BY <1>1, <1>4 DEF InsertMember, JobGoto
  <2>2. /\ h \in Job /\ h.pc = "assignNext" /\ h.user = g.user /\ h.tenant = g.tenant
        /\ h.claims = g.claims
    BY <1>1 DEF Job, JobPCs, AssignPCs
  <2> HIDE DEF h
  <2>3. g.user \in Users /\ g.tenant \in Tenants /\ WereHeld(g.user, g.claims)
    BY <1>1 DEF RowOK, AssignPCs
  <2>4. TablesOK' BY <1>2, <1>4, <2>1, <2>3 DEF ClaimsInv, TablesOK
  <2>5. Steady BY <1>2, <2>1 DEF Steady
  <2>6. HeldEver' /\ CookiesOK' BY <1>2, HeldLess, CookiesRest
  <2>7. RolesFollowMembership' BY <1>2, <2>1 DEF ClaimsInv, RolesFollowMembership
  <2>8. RowOK(h)' BY <1>2, <2>1, <2>2, <2>3 DEF RowOK, WereHeld
  <2> QED BY <2>1, <2>2, <2>4, <2>5, <2>6, <2>7, <2>8, OneRow
<1> QED BY <1>3, <1>4

LEMMA CheckMemberStep ==
  ASSUME ClaimsInv, NEW j \in Jobs, CheckMember(j)
  PROVE  ClaimsInv'
<1>1. PICK g \in Job : g = job[j] /\ RowOK(g) /\ g.pc = "assignCheck"
  BY RowFacts DEF CheckMember, JobAt
<1>2. UNCHANGED <<rows, cookie, claimsHistory>> BY DEF CheckMember
<1>3. CASE <<g.user, g.tenant>> \notin member BY <1>1, <1>2, <1>3, Ending DEF CheckMember
<1>4. CASE <<g.user, g.tenant>> \in member
  <2> DEFINE h == [g EXCEPT !.pc = "assignClear"]
  <2>1. job' = [job EXCEPT ![j] = h] BY <1>1, <1>4 DEF CheckMember, JobGoto
  <2>2. h \in Job BY <1>1 DEF Job, JobPCs, AssignPCs
  <2>3. RowOK(h) BY <1>1, <1>4 DEF RowOK, Job, AssignPCs, RemovalPCs, Assigned
  <2> QED BY <1>2, <2>1, <2>2, <2>3, Reading
<1> QED BY <1>3, <1>4

\* Some roles are deleted, and the handler goes on as h.
LEMMA RolesGo ==
  ASSUME ClaimsInv, NEW j \in Jobs, NEW h \in Job, job' = [job EXCEPT ![j] = h], RowOK(h)',
         holds' \subseteq holds, UNCHANGED <<account, member, gives, cookie, claimsHistory>>
  PROVE  ClaimsInv'
<1>1. UNCHANGED <<account, member, gives, cookie, ever, raced>> BY DEF claimsHistory
<1>2. TablesOK' BY <1>1 DEF ClaimsInv, TablesOK
<1>3. Steady BY <1>1 DEF Steady
<1>4. HeldEver' /\ CookiesOK' BY <1>1, HeldLess, CookiesRest
<1>5. RolesFollowMembership' BY <1>1 DEF ClaimsInv, RolesFollowMembership
<1> QED BY <1>2, <1>3, <1>4, <1>5, OneRow

LEMMA ClearRolesStep ==
  ASSUME ClaimsInv, NEW j \in Jobs, ClearRoles(j)
  PROVE  ClaimsInv'
<1>1. PICK g \in Job : g = job[j] /\ RowOK(g) /\ g.pc = "assignClear"
  BY RowFacts DEF ClearRoles, JobAt
<1> DEFINE h == [g EXCEPT !.pc = "assignNext"]
<1>2. /\ job' = [job EXCEPT ![j] = h] /\ holds' \subseteq holds
      /\ UNCHANGED <<account, member, gives, cookie, claimsHistory>>
  BY <1>1 DEF ClearRoles, JobGoto, WithoutRolesIn
<1>3. /\ h \in Job /\ h.pc = "assignNext" /\ h.user = g.user /\ h.tenant = g.tenant
      /\ h.claims = g.claims /\ h.late = g.late
  BY <1>1 DEF Job, JobPCs, AssignPCs
<1> HIDE DEF h
<1>4. RowOK(h)'
  BY <1>1, <1>2, <1>3 DEF RowOK, WereHeld, Assigned, AssignPCs, claimsHistory
<1> QED BY <1>2, <1>3, <1>4, RolesGo

LEMMA DeleteRolesStep ==
  ASSUME ClaimsInv, NEW j \in Jobs, DeleteRoles(j)
  PROVE  ClaimsInv'
<1>1. PICK g \in Job : g = job[j] /\ RowOK(g) /\ g.pc = "removalRoles"
  BY RowFacts DEF DeleteRoles, JobAt
<1> DEFINE h == [g EXCEPT !.pc = "removalMember"]
<1>2. /\ job' = [job EXCEPT ![j] = h]
      /\ holds' = {e \in holds : e[1] # g.user \/ e[2] \notin RolesIn(g.tenant)}
      /\ UNCHANGED <<account, member, gives, cookie, claimsHistory>>
  BY <1>1 DEF DeleteRoles, JobGoto, RolesDeleted, WithoutRolesIn
<1>3. /\ h \in Job /\ h.pc = "removalMember" /\ h.user = g.user /\ h.tenant = g.tenant
      /\ h.claims = g.claims
  BY <1>1 DEF Job, JobPCs, RemovalPCs
<1> HIDE DEF h
<1>4. \A ro \in Roles : RoleTenant[ro] = g.tenant => <<g.user, ro>> \notin holds'
  <2>1. \A ro : <<g.user, ro>>[1] = g.user /\ <<g.user, ro>>[2] = ro OBVIOUS
  <2> QED BY <1>2, <2>1 DEF RolesIn
<1>5. g.user \in Users /\ g.tenant \in Tenants /\ WereHeld(g.user, g.claims)'
  BY <1>1, <1>2 DEF RowOK, RemovalPCs, WereHeld, claimsHistory
<1>6. RowOK(h)' BY <1>3, <1>4, <1>5 DEF RowOK, WereHeld, Assigned
<1>7. holds' \subseteq holds BY <1>2
<1> QED BY <1>2, <1>3, <1>6, <1>7, RolesGo

LEMMA NextRoleStep ==
  ASSUME ClaimsInv, NEW j \in Jobs, NextRole(j)
  PROVE  ClaimsInv'
<1>1. PICK g \in Job : g = job[j] /\ RowOK(g) /\ g.pc = "assignNext"
  BY RowFacts DEF NextRole, JobAt
<1>2. UNCHANGED <<rows, cookie, claimsHistory>> BY DEF NextRole
<1>3. CASE JobEnd(j) BY <1>2, <1>3, Ending
<1>4. CASE ~JobEnd(j)
  <2>1. PICK ro \in g.todo :
          job' = [job EXCEPT ![j].todo = @ \ {ro},
                    ![j].current = IF ro \in RolesIn(g.tenant) THEN ro ELSE Nil,
                    ![j].pc = IF ro \in RolesIn(g.tenant) THEN "assignInsert" ELSE @]
    BY <1>1, <1>4 DEF NextRole
  <2> DEFINE own == ro \in RolesIn(g.tenant)
             h == [g EXCEPT !.todo = @ \ {ro}, !.current = IF own THEN ro ELSE Nil,
                            !.pc = IF own THEN "assignInsert" ELSE "assignNext"]
  <2>2. job' = [job EXCEPT ![j] = h] BY <1>1, <2>1
  <2>3. own => ro \in Roles /\ RoleTenant[ro] = g.tenant BY DEF RolesIn
  <2> HIDE DEF own
  <2>4. /\ h \in Job /\ h.user = g.user /\ h.tenant = g.tenant /\ h.claims = g.claims
        /\ h.late = g.late /\ h.pc = (IF own THEN "assignInsert" ELSE "assignNext")
        /\ h.current = (IF own THEN ro ELSE Nil)
    BY <1>1, <2>3 DEF Job, JobPCs, AssignPCs
  <2> HIDE DEF h
  <2>5. RowOK(h) BY <1>1, <2>3, <2>4 DEF RowOK, Assigned, AssignPCs, RemovalPCs
  <2> QED BY <1>2, <2>2, <2>4, <2>5, Reading
<1> QED BY <1>3, <1>4

\* The role is inserted: its membership stands, or the race is on record.
LEMMA InsertRoleStep ==
  ASSUME ClaimsInv, NEW j \in Jobs, InsertRole(j)
  PROVE  ClaimsInv'
<1>1. PICK g, u, n, ro : /\ g \in Job /\ g = job[j] /\ RowOK(g) /\ g.pc = "assignInsert"
                         /\ u = g.user /\ n = g.tenant /\ ro = g.current
  BY RowFacts DEF InsertRole, JobAt
<1>2. UNCHANGED <<account, member, gives, cookie>> BY DEF InsertRole
<1>3. u \in Users /\ n \in Tenants /\ ro \in Roles /\ RoleTenant[ro] = n
      /\ WereHeld(u, g.claims)
  BY <1>1 DEF RowOK, AssignPCs
<1>4. CASE <<u, ro>> \in holds \/ account[u] # "open"
  <2>1. JobEnd(j) /\ UNCHANGED <<holds, claimsHistory>> BY <1>1, <1>4 DEF InsertRole
  <2> QED BY <1>2, <2>1, Ending DEF rows
<1>5. CASE ~(<<u, ro>> \in holds \/ account[u] # "open")
  <2> DEFINE h == [g EXCEPT !.pc = "assignNext"]
             race == g.late \/ BetweenDeletes(u, n) # {}
  <2>1. /\ holds' = holds \cup {<<u, ro>>} /\ job' = [job EXCEPT ![j] = h] /\ Remember
        /\ raced' = IF race THEN raced \cup {<<u, n>>} ELSE raced
    BY <1>1, <1>5 DEF InsertRole, JobGoto
  <2>2. /\ h \in Job /\ h.pc = "assignNext" /\ h.user = u /\ h.tenant = n
        /\ h.claims = g.claims /\ h.late = g.late
    BY <1>1 DEF Job, JobPCs, AssignPCs
  <2> HIDE DEF h
  <2>3. HeldEver' /\ ever \subseteq ever' BY <2>1, RememberAll
  <2>4. CookiesOK' BY <1>2, <2>3, CookiesRest
  <2>5. ever' \subseteq Users \X Tenants \X PermCodes
    BY <2>1 DEF Remember, ClaimsInv, TablesOK
  <2>6. raced \subseteq raced' /\ raced' \subseteq Users \X Tenants
    BY <1>3, <2>1 DEF ClaimsInv, TablesOK
  <2>7. TablesOK'
    <3>1. \A e \in holds' : account[e[1]] = "open" BY <1>5, <2>1 DEF ClaimsInv, TablesOK
    <3> QED BY <1>2, <1>3, <2>1, <2>5, <2>6, <3>1 DEF ClaimsInv, TablesOK
  <2>8. <<u, n>> \in member \/ <<u, n>> \in raced'
    <3>1. CASE g.late BY <2>1, <3>1
    <3>2. CASE ~g.late
      <4>1. <<u, n>> \in member \/ account[u] = "deleted"
        BY <1>1, <3>2 DEF RowOK, Assigned
      <4> QED BY <1>5, <4>1
    <3> QED BY <3>1, <3>2
  <2>9. RolesFollowMembership'
    <3>1. ASSUME NEW e \in holds' PROVE <<e[1], RoleTenant[e[2]]>> \in member \cup raced'
      <4>1. CASE e \in holds BY <2>6, <4>1 DEF ClaimsInv, RolesFollowMembership
      <4>2. CASE e = <<u, ro>> BY <1>3, <2>8, <4>2
      <4> QED BY <2>1, <4>1, <4>2
    <3> QED BY <1>2, <3>1 DEF RolesFollowMembership
  <2>10. job' \in [Jobs -> Job] /\ job'[j] = h /\ \A i \in Jobs \ {j} : job'[i] = job[i]
    BY <2>1, <2>2 DEF ClaimsInv
  <2>11. ASSUME NEW i \in Jobs PROVE RowOK(job[i])'
    <3>1. PICK k \in Job : k = job'[i] BY <2>10
    <3> SUFFICES RowOK(k)' BY <3>1 DEF RowOK, WereHeld
    <3>2. CASE i = j
      <4>1. k = h BY <2>10, <3>1, <3>2
      <4>2. WereHeld(u, g.claims)' BY <1>3, <2>3, HeldMore
      <4>3. k.pc \in Assigned /\ ~k.late => <<u, n>> \in member' \/ account'[u] = "deleted"
        BY <1>1, <1>2, <2>2, <4>1 DEF RowOK, Assigned
      <4> QED BY <1>3, <2>2, <4>1, <4>2, <4>3 DEF RowOK, WereHeld
    <3>3. CASE i # j
      <4>1. k = job[i] /\ RowOK(k) BY <2>10, <3>1, <3>3 DEF ClaimsInv
      <4>2. k.pc # "none" => k.user \in Users /\ WereHeld(k.user, k.claims)'
        BY <2>3, <4>1, HeldMore DEF RowOK
      <4>3. k.pc = "removalMember" =>
              \A x \in Roles : RoleTenant[x] = k.tenant /\ <<k.user, x>> \in holds' =>
                <<k.user, k.tenant>> \in raced'
        <5> SUFFICES ASSUME k.pc = "removalMember", NEW x \in Roles, RoleTenant[x] = k.tenant,
                            <<k.user, x>> \in holds'
                     PROVE  <<k.user, k.tenant>> \in raced'
          OBVIOUS
        <5>1. CASE <<k.user, x>> \in holds BY <2>6, <4>1, <5>1 DEF RowOK
        <5>2. CASE <<k.user, x>> = <<u, ro>>
          <6>1. k.user = u /\ k.tenant = n BY <1>3, <5>2
          <6>2. i \in BetweenDeletes(u, n) BY <4>1, <6>1 DEF BetweenDeletes, JobAt
          <6> QED BY <2>1, <6>1, <6>2
        <5> QED BY <2>1, <5>1, <5>2
      <4>4. k.pc \in Assigned /\ ~k.late =>
              <<k.user, k.tenant>> \in member' \/ account'[k.user] = "deleted"
        BY <1>2, <4>1 DEF RowOK
      <4> QED BY <4>1, <4>2, <4>3, <4>4 DEF RowOK
    <3> QED BY <3>2, <3>3
  <2> QED BY <2>3, <2>4, <2>7, <2>9, <2>10, <2>11 DEF ClaimsInv
<1> QED BY <1>4, <1>5

\* The membership goes; the assignments that had checked it are late.
LEMMA DeleteMembershipStep ==
  ASSUME ClaimsInv, NEW j \in Jobs, DeleteMembership(j)
  PROVE  ClaimsInv'
<1>1. PICK g, u, n : /\ g \in Job /\ g = job[j] /\ RowOK(g) /\ g.pc = "removalMember"
                     /\ u = g.user /\ n = g.tenant
  BY RowFacts DEF DeleteMembership, JobAt
<1>2. /\ member' = member \ {<<u, n>>}
      /\ UNCHANGED <<account, holds, gives, cookie, ever, raced>>
  BY <1>1 DEF DeleteMembership, claimsHistory
<1>3. u \in Users /\ n \in Tenants BY <1>1 DEF RowOK, RemovalPCs
<1>4. TablesOK' BY <1>2 DEF ClaimsInv, TablesOK
<1>5. HeldEver' /\ CookiesOK' BY <1>2, HeldLess, CookiesRest
<1>6. RolesFollowMembership'
  <2>1. ASSUME NEW e \in holds PROVE <<e[1], RoleTenant[e[2]]>> \in member' \cup raced
    <3>1. e[1] \in Users /\ e[2] \in Roles /\ e = <<e[1], e[2]>> BY DEF ClaimsInv, TablesOK
    <3>2. <<e[1], RoleTenant[e[2]]>> \in member \cup raced
      BY DEF ClaimsInv, RolesFollowMembership
    <3>3. CASE <<e[1], RoleTenant[e[2]]>> = <<u, n>>
      <4>1. e[1] = u /\ RoleTenant[e[2]] = n BY <3>3
      <4>2. <<u, n>> \in raced BY <1>1, <3>1, <4>1 DEF RowOK
      <4> QED BY <3>3, <4>2
    <3>4. CASE <<e[1], RoleTenant[e[2]]>> # <<u, n>> BY <1>2, <3>2, <3>4
    <3> QED BY <3>3, <3>4
  <2> QED BY <1>2, <2>1 DEF RolesFollowMembership
<1>7. job' = [i \in Jobs |-> IF i = j THEN [job[i] EXCEPT !.pc = "removalCount"]
                            ELSE IF i \in Assigning(u, n) THEN [job[i] EXCEPT !.late = TRUE]
                            ELSE job[i]]
  BY <1>1 DEF DeleteMembership
<1>8. ASSUME NEW i \in Jobs PROVE job'[i] \in Job /\ RowOK(job[i])'
  <2>1. PICK k \in Job : k = job[i] /\ RowOK(k) BY RowFacts
  <2>2. WereHeld(k.user, k.claims) => WereHeld(k.user, k.claims)' BY <1>2, HeldMore
  <2>3. CASE i = j
    <3> DEFINE h == [k EXCEPT !.pc = "removalCount"]
    <3>1. h \in Job /\ h.pc = "removalCount" /\ h.user = k.user /\ h.tenant = k.tenant
          /\ h.claims = k.claims
      BY <2>1 DEF Job, JobPCs, RemovalPCs
    <3>2. job'[i] = h BY <1>7, <2>1, <2>3
    <3> HIDE DEF h
    <3>3. k.pc = "removalMember" BY <1>1, <2>1, <2>3
    <3> QED BY <1>3, <2>1, <2>2, <3>1, <3>2, <3>3 DEF RowOK, WereHeld, Assigned, RemovalPCs
  <2>4. CASE i # j /\ i \in Assigning(u, n)
    <3> DEFINE h == [k EXCEPT !.late = TRUE]
    <3>1. h \in Job /\ h.pc = k.pc /\ h.user = k.user /\ h.tenant = k.tenant
          /\ h.claims = k.claims /\ h.current = k.current /\ h.late
      BY <2>1 DEF Job
    <3>2. job'[i] = h BY <1>7, <2>1, <2>4
    <3>3. k.pc \in AssignPCs BY <2>1, <2>4 DEF Assigning
    <3> HIDE DEF h
    <3> QED BY <2>1, <2>2, <3>1, <3>2, <3>3 DEF RowOK, WereHeld, AssignPCs
  <2>5. CASE i # j /\ i \notin Assigning(u, n)
    <3>1. job'[i] = k BY <1>7, <2>1, <2>5
    <3>2. k.pc \in Assigned => <<k.user, k.tenant>> # <<u, n>>
      BY <2>1, <2>5 DEF Assigning, Assigned, AssignPCs
    <3>3. k.pc \in Assigned /\ ~k.late =>
            <<k.user, k.tenant>> \in member' \/ account'[k.user] = "deleted"
      BY <1>2, <2>1, <3>2 DEF RowOK
    <3>4. RowOK(k)' BY <1>2, <2>1, <2>2, <3>3 DEF RowOK
    <3> QED BY <3>1, <3>4 DEF RowOK, WereHeld
  <2> QED BY <2>3, <2>4, <2>5
<1>9. job' \in [Jobs -> Job] BY <1>7, <1>8
<1> QED BY <1>4, <1>5, <1>6, <1>8, <1>9 DEF ClaimsInv

LEMMA CountMembershipsStep ==
  ASSUME ClaimsInv, NEW j \in Jobs, CountMemberships(j)
  PROVE  ClaimsInv'
<1>1. PICK g \in Job : g = job[j] /\ RowOK(g) /\ g.pc = "removalCount"
  BY RowFacts DEF CountMemberships, JobAt
<1>2. UNCHANGED <<rows, cookie, claimsHistory>> BY DEF CountMemberships
<1>3. CASE JobEnd(j) BY <1>2, <1>3, Ending
<1>4. CASE ~JobEnd(j)
  <2> DEFINE h == [g EXCEPT !.pc = "removalAccount"]
  <2>1. job' = [job EXCEPT ![j] = h] BY <1>1, <1>4 DEF CountMemberships, JobGoto
  <2>2. h \in Job BY <1>1 DEF Job, JobPCs, RemovalPCs
  <2>3. RowOK(h) BY <1>1 DEF RowOK, Job, AssignPCs, RemovalPCs, Assigned
  <2> QED BY <1>2, <2>1, <2>2, <2>3, Reading
<1> QED BY <1>3, <1>4

\* The cascade of an account.
LEMMA DropAccountStays ==
  ASSUME ClaimsInv, NEW u \in Users, DropAccount(u)
  PROVE  TablesOK' /\ HeldEver' /\ CookiesOK' /\ RolesFollowMembership' /\ Steady
<1>1. /\ account' = [account EXCEPT ![u] = "deleted"]
      /\ member' = {e \in member : e[1] # u} /\ holds' = {e \in holds : e[1] # u}
      /\ UNCHANGED <<gives, cookie, ever, raced>>
  BY DEF DropAccount, RolesOfOthers, claimsHistory
<1>2. \A x \in Users : account'[x] = IF x = u THEN "deleted" ELSE account[x]
  BY <1>1 DEF ClaimsInv, TablesOK
<1>3. TablesOK'
  <2>1. account' \in [Users -> {"unborn", "open", "deleted"}] BY <1>1 DEF ClaimsInv, TablesOK
  <2>2. ASSUME NEW e \in member' PROVE account'[e[1]] = "open"
    BY <1>1, <1>2 DEF ClaimsInv, TablesOK
  <2>3. ASSUME NEW e \in holds' PROVE account'[e[1]] = "open"
    BY <1>1, <1>2 DEF ClaimsInv, TablesOK
  <2> QED BY <1>1, <2>1, <2>2, <2>3 DEF ClaimsInv, TablesOK
<1>4. HeldEver' /\ CookiesOK' BY <1>1, HeldLess, CookiesRest
<1>5. RolesFollowMembership'
  <2>1. ASSUME NEW e \in holds' PROVE <<e[1], RoleTenant[e[2]]>> \in member' \cup raced'
    <3>1. e \in holds /\ e[1] # u BY <1>1
    <3>2. <<e[1], RoleTenant[e[2]]>> \in member \cup raced
      BY <3>1 DEF ClaimsInv, RolesFollowMembership
    <3>3. <<e[1], RoleTenant[e[2]]>>[1] = e[1] OBVIOUS
    <3> QED BY <1>1, <3>1, <3>2, <3>3
  <2> QED BY <2>1 DEF RolesFollowMembership
<1>6. Steady
  <2>1. \A x \in Users, n \in Tenants :
          <<x, n>> \in member => <<x, n>> \in member' \/ account'[x] = "deleted"
    <3>1. \A x, n : <<x, n>>[1] = x OBVIOUS
    <3> QED BY <1>1, <1>2, <3>1
  <2> QED BY <1>1, <1>2, <2>1 DEF Steady
<1> QED BY <1>3, <1>4, <1>5, <1>6

\* A step of no handler.
LEMMA NoRow ==
  ASSUME ClaimsInv, Steady, TablesOK', HeldEver', RolesFollowMembership', CookiesOK', job' = job
  PROVE  ClaimsInv'
<1>1. ASSUME NEW i \in Jobs PROVE RowOK(job[i])'
  <2>1. PICK k \in Job : k = job[i] /\ RowOK(k) BY RowFacts
  <2>2. RowOK(k)' BY <2>1, RowStays
  <2> QED BY <2>1, <2>2 DEF RowOK, WereHeld
<1> QED BY <1>1 DEF ClaimsInv

LEMMA DeleteAccountStep ==
  ASSUME ClaimsInv, NEW j \in Jobs, DeleteAccount(j)
  PROVE  ClaimsInv'
<1>1. PICK g, u : g \in Job /\ g = job[j] /\ RowOK(g) /\ g.pc = "removalAccount" /\ u = g.user
  BY RowFacts DEF DeleteAccount, JobAt
<1>2. DropAccount(u) /\ job' = [job EXCEPT ![j] = NoJob] BY <1>1 DEF DeleteAccount, JobEnd
<1>3. u \in Users BY <1>1 DEF RowOK
<1>4. RowOK(NoJob)' BY NoJobOK DEF RowOK, AssignPCs, RemovalPCs, Assigned
<1>5. TablesOK' /\ HeldEver' /\ CookiesOK' /\ RolesFollowMembership' /\ Steady
  BY <1>2, <1>3, DropAccountStays
<1> QED BY <1>2, <1>4, <1>5, NoJobOK, OneRow

LEMMA CloseAccountStep ==
  ASSUME ClaimsInv, NEW u \in Users, CloseAccount(u)
  PROVE  ClaimsInv'
<1>1. DropAccount(u) /\ job' = job BY DEF CloseAccount
<1> QED BY <1>1, DropAccountStays, NoRow

LEMMA JoinStep ==
  ASSUME ClaimsInv, NEW u \in Users, NEW n \in Tenants, Join(u, n)
  PROVE  ClaimsInv'
<1>1. /\ account[u] = "open" /\ member' = member \cup {<<u, n>>} /\ job' = job
      /\ UNCHANGED <<account, holds, gives, cookie, ever, raced>>
  BY DEF Join, claimsHistory
<1>2. TablesOK' BY <1>1 DEF ClaimsInv, TablesOK
<1>3. Steady BY <1>1 DEF Steady
<1>4. HeldEver' /\ CookiesOK' BY <1>1, HeldLess, CookiesRest
<1>5. RolesFollowMembership' BY <1>1 DEF ClaimsInv, RolesFollowMembership
<1> QED BY <1>1, <1>2, <1>3, <1>4, <1>5, NoRow

LEMMA EditRoleStep ==
  ASSUME ClaimsInv, NEW ro \in Roles, NEW S \in SUBSET PermCodes, EditRole(ro, S)
  PROVE  ClaimsInv'
<1>1. /\ gives' = [gives EXCEPT ![ro] = S] /\ Remember /\ job' = job
      /\ UNCHANGED <<account, member, holds, cookie, raced>>
  BY DEF EditRole
<1>2. HeldEver' /\ ever \subseteq ever' BY <1>1, RememberAll
<1>3. ever' \subseteq Users \X Tenants \X PermCodes BY <1>1 DEF Remember, ClaimsInv, TablesOK
<1>4. TablesOK' BY <1>1, <1>3 DEF ClaimsInv, TablesOK
<1>5. Steady BY <1>1, <1>2 DEF Steady
<1>6. CookiesOK' BY <1>1, <1>2, CookiesRest
<1>7. RolesFollowMembership' BY <1>1 DEF ClaimsInv, RolesFollowMembership
<1> QED BY <1>1, <1>2, <1>4, <1>5, <1>6, <1>7, NoRow

-----------------------------------------------------------------------------
(* The theorems. *)

LEMMA ClaimsStart == ClaimsInit => ClaimsInv
<1> SUFFICES ASSUME ClaimsInit PROVE ClaimsInv OBVIOUS
<1>1. account \in [Users -> {"unborn", "open", "deleted"}] BY DEF ClaimsInit
<1>2. \A e \in member : account[e[1]] = "open" /\ e \in Users \X Tenants BY DEF ClaimsInit
<1>3. ASSUME NEW e \in holds PROVE e \in Users \X Roles /\ account[e[1]] = "open"
  <2>1. e \in Users \X Roles /\ <<e[1], RoleTenant[e[2]]>> \in member BY DEF ClaimsInit
  <2>2. <<e[1], RoleTenant[e[2]]>>[1] = e[1] OBVIOUS
  <2> QED BY <1>2, <2>1, <2>2
<1>4. ever \subseteq Users \X Tenants \X PermCodes /\ raced = {} BY DEF ClaimsInit
<1>5. TablesOK BY <1>1, <1>2, <1>3, <1>4 DEF TablesOK, ClaimsInit
<1>6. HeldEver
  <2>1. ASSUME NEW u \in Users, NEW n \in Tenants, NEW c \in Held(u, n) PROVE <<u, n, c>> \in ever
    <3>1. c \in PermCodes BY DEF Held
    <3> DEFINE t == <<u, n, c>>
    <3>2. t \in Users \X Tenants \X PermCodes /\ t[3] \in Held(t[1], t[2]) BY <3>1
    <3> QED BY <3>2 DEF ClaimsInit
  <2> QED BY <2>1 DEF HeldEver
<1>7. RolesFollowMembership BY DEF ClaimsInit, RolesFollowMembership
<1>8. CookiesOK BY DEF ClaimsInit, CookiesOK, WereHeld, Claims
<1>9. job \in [Jobs -> Job] /\ \A j \in Jobs : RowOK(job[j])
  BY NoJobOK DEF ClaimsInit, RowOK, AssignPCs, RemovalPCs, Assigned
<1> QED BY <1>5, <1>6, <1>7, <1>8, <1>9 DEF ClaimsInv

LEMMA ClaimsStep == ClaimsInv /\ [ClaimsNext]_claimsVars => ClaimsInv'
<1> SUFFICES ASSUME ClaimsInv, [ClaimsNext]_claimsVars PROVE ClaimsInv' OBVIOUS
<1>1. CASE UNCHANGED claimsVars
  <2>1. /\ UNCHANGED <<account, member, holds, gives, ever, raced>> /\ cookie' = cookie
        /\ job' = job
    BY <1>1 DEF claimsVars, rows, claimsHistory
  <2> QED BY <2>1, TablesRest, NoRow
<1>2. ASSUME NEW j \in Jobs, NEW u \in Users,
             \/ Login(j, u) \/ Visit(j, u) \/ SwitchTenant(j, u, Nil)
             \/ \E n \in Tenants :
                  \/ SwitchTenant(j, u, n) \/ Remove(j, u, n)
                  \/ \E W \in SUBSET Roles : Assign(j, u, n, W) \/ CreateUser(j, u, n, W)
      PROVE  ClaimsInv'
  BY <1>2, Arrivals, CreateUserStep
<1>3. ASSUME NEW j \in Jobs,
             \/ ReadMemberships(j) \/ ReadCodes(j) \/ FillCodes(j) \/ ReadMembership(j)
             \/ SetCookie(j)
      PROVE  ClaimsInv'
  BY <1>3, ReadMembershipsStep, ReadCodesStep, FillCodesStep, ReadMembershipStep, SetCookieStep
<1>4. ASSUME NEW j \in Jobs,
             \/ InsertMember(j) \/ CheckMember(j) \/ ClearRoles(j) \/ NextRole(j)
             \/ InsertRole(j) \/ DeleteRoles(j) \/ DeleteMembership(j) \/ CountMemberships(j)
             \/ DeleteAccount(j)
      PROVE  ClaimsInv'
  BY <1>4, InsertMemberStep, CheckMemberStep, ClearRolesStep, NextRoleStep, InsertRoleStep,
     DeleteRolesStep, DeleteMembershipStep, CountMembershipsStep, DeleteAccountStep
<1>5. ASSUME NEW j \in Jobs, LoseJob(j) PROVE ClaimsInv' BY <1>5, Ending DEF LoseJob
<1>6. ASSUME NEW u \in Users, CloseAccount(u) \/ \E n \in Tenants : Join(u, n) PROVE ClaimsInv'
  BY <1>6, CloseAccountStep, JoinStep
<1>7. ASSUME NEW ro \in Roles, NEW S \in SUBSET PermCodes, EditRole(ro, S) PROVE ClaimsInv'
  BY <1>7, EditRoleStep
<1> QED BY <1>1, <1>2, <1>3, <1>4, <1>5, <1>6, <1>7 DEF ClaimsNext

\* The inductive invariant holds for any number of users, tenants, roles and handlers.
THEOREM ClaimsInvariance == ClaimsSpec => []ClaimsInv
  BY ClaimsStart, ClaimsStep, PTL DEF ClaimsSpec

\* Members, and whoever holds a role, have an account; claims and handlers keep their types.
THEOREM ClaimsTypeCorrect == ClaimsSpec => []ClaimsTypeOK
<1>1. ClaimsInv => ClaimsTypeOK BY DEF ClaimsInv, TablesOK, CookiesOK, ClaimsTypeOK
<1> QED BY <1>1, ClaimsInvariance, PTL

\* Roles follow the membership, but where a removal and an assignment of roles met
\* (data-access.ts, removeUserFromTenant and updateUser).
THEOREM RolesFollow == ClaimsSpec => []RolesFollowMembership
<1>1. ClaimsInv => RolesFollowMembership BY DEF ClaimsInv
<1> QED BY <1>1, ClaimsInvariance, PTL

\* The codes of a session were its user's in the tenant it names, however late its answers
\* are and however roles and memberships changed meanwhile (auth-token-mutations.ts:38).
THEOREM SessionCodesWereHeld == ClaimsSpec => []CodesWereHeld
<1>1. ClaimsInv => CodesWereHeld BY DEF ClaimsInv, CookiesOK, RowOK, CodesWereHeld, JobAt
<1> QED BY <1>1, ClaimsInvariance, PTL
=============================================================================
