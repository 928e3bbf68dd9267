--------------------------- MODULE SessionClaims ---------------------------
(***************************************************************************)
(* Which business roles a member holds, and the snapshot of tenant and     *)
(* permission codes that the session's cookie carries.                     *)
(*                                                                         *)
(* A handler is a job with a program counter; one action is one database   *)
(* statement, or the arrival of the answer that sets the cookie.  The      *)
(* answer replaces the whole cookie by the token the handler decoded and   *)
(* changed, so a late answer can bring an older token back.                *)
(***************************************************************************)
CONSTANTS
  Users, Tenants, Roles, PermCodes,
  RoleTenant,   \* the tenant of each row of Role
  Jobs,         \* handlers that may be in flight together
  Nil

ASSUME RoleTenantAssumption == RoleTenant \in [Roles -> Tenants]
ASSUME NilAssumption == Nil \notin Users \cup Tenants \cup Roles

VARIABLES
  account,  \* table User: each account is not made yet, open or deleted
  member,   \* table UserTenant, the pairs
  holds,    \* table UserRole, the pairs
  gives,    \* the permission codes of each role, through RolePermission
  cookie,   \* the claims in each user's browser; tenant Nil: no tenant chosen
  ever,     \* history: which codes a user has held in a tenant at some time
  raced,    \* history: memberships whose removal overlapped an assignment of roles
  job       \* the handlers in flight

rows == <<account, member, holds, gives>>
claimsHistory == <<ever, raced>>
claimsVars == <<rows, cookie, claimsHistory, job>>

\* codes Nil: a token signed before the claim existed.
Claims == [tenant: Tenants \cup {Nil}, codes: (SUBSET PermCodes) \cup {Nil}]
NoClaims == [tenant |-> Nil, codes |-> Nil]

AssignPCs == {"createMember", "assignCheck", "assignClear", "assignNext", "assignInsert"}
RemovalPCs == {"removalRoles", "removalMember", "removalCount", "removalAccount"}
TokenPCs == {"loginRead", "fillRead", "switchRead", "codesRead", "answer"}
JobPCs == {"none"} \cup AssignPCs \cup RemovalPCs \cup TokenPCs

\* `late` is history: the membership went after this assignment had checked it.
Job == [pc: JobPCs, user: Users \cup {Nil}, tenant: Tenants \cup {Nil}, claims: Claims,
        todo: SUBSET Roles, current: Roles \cup {Nil}, late: BOOLEAN]
NoJob == [pc |-> "none", user |-> Nil, tenant |-> Nil, claims |-> NoClaims, todo |-> {},
          current |-> Nil, late |-> FALSE]

Held(u, n) == {c \in PermCodes : \E ro \in Roles :
                 <<u, ro>> \in holds /\ RoleTenant[ro] = n /\ c \in gives[ro]}

ClaimsInit ==
  /\ account \in [Users -> {"unborn", "open"}]
  /\ member \in SUBSET ({u \in Users : account[u] = "open"} \X Tenants)
  /\ holds \in SUBSET {e \in Users \X Roles : <<e[1], RoleTenant[e[2]]>> \in member}
  /\ gives \in [Roles -> SUBSET PermCodes]
  /\ ever = {t \in Users \X Tenants \X PermCodes : t[3] \in Held(t[1], t[2])}
  /\ cookie \in [Users -> [tenant: Tenants \cup {Nil}, codes: {Nil}]]
  /\ raced = {}
  /\ job = [j \in Jobs |-> NoJob]

-----------------------------------------------------------------------------
(* Control of a job. *)

JobAt(j, pc) == job[j].pc = pc
JobGoto(j, pc) == job' = [job EXCEPT ![j].pc = pc]
JobEnd(j) == job' = [job EXCEPT ![j] = NoJob]

\* Every request brings the cookie of its browser along.
StartJob(j, pc, u, n, W) ==
  /\ JobAt(j, "none")
  /\ job' = [job EXCEPT ![j] = [pc |-> pc, user |-> u, tenant |-> n, claims |-> cookie[u],
                                todo |-> W, current |-> Nil, late |-> FALSE]]
  /\ UNCHANGED <<rows, cookie, claimsHistory>>

\* What users hold after this step, added to what they ever held.
Remember == ever' = ever \cup {t \in Users \X Tenants \X PermCodes : t[3] \in Held(t[1], t[2])'}

-----------------------------------------------------------------------------
(* The token: resolveJwtTenantClaims, the jwt callback and applyTenantSwitch. *)

Login(j, u) == account[u] = "open" /\ StartJob(j, "loginRead", u, Nil, {})

\* SELECT of the memberships: the first one becomes the current tenant.
ReadMemberships(j) ==
  LET own == {n \in Tenants : <<job[j].user, n>> \in member} IN
  /\ JobAt(j, "loginRead")
  /\ \/ \E n \in own : job' = [job EXCEPT ![j].pc = "codesRead", ![j].tenant = n]
     \/ own = {} /\ job' = [job EXCEPT ![j].pc = "answer", ![j].claims = NoClaims]
  /\ UNCHANGED <<rows, cookie, claimsHistory>>

\* Mutant: the switch changes the tenant and keeps the codes of the old one.
CodesKept(j) == IF job[j].claims.codes = Nil THEN Held(job[j].user, job[j].tenant)
                                              ELSE job[j].claims.codes

CodesOf(j) == Held(job[j].user, job[j].tenant)

\* SELECT of the codes held in the chosen tenant, whatever the membership is by now.
ReadCodes(j) ==
  /\ JobAt(j, "codesRead")
  /\ job' = [job EXCEPT ![j].pc = "answer",
                        ![j].claims = [tenant |-> job[j].tenant, codes |-> CodesOf(j)]]
  /\ UNCHANGED <<rows, cookie, claimsHistory>>

\* A token of before the codes were part of it.
Lacking(claims) == claims.tenant # Nil /\ claims.codes = Nil

\* update({ currentTenantId }): a tenant, or none; the codes the token lacks come first.
SwitchTenant(j, u, n) ==
  StartJob(j, IF Lacking(cookie[u]) THEN "fillRead" ELSE "switchRead", u, n, {})

FillCodes(j) ==
  /\ JobAt(j, "fillRead")
  /\ job' = [job EXCEPT ![j].pc = "switchRead",
                        ![j].claims.codes = Held(job[j].user, job[j].claims.tenant)]
  /\ UNCHANGED <<rows, cookie, claimsHistory>>

\* A tenant the user is no member of leaves the claims as they were.
ReadMembership(j) ==
  /\ JobAt(j, "switchRead")
  /\ IF job[j].tenant = Nil
       THEN job' = [job EXCEPT ![j].pc = "answer", ![j].claims = NoClaims]
       ELSE JobGoto(j, IF <<job[j].user, job[j].tenant>> \in member
                         THEN "codesRead" ELSE "answer")
  /\ UNCHANGED <<rows, cookie, claimsHistory>>

\* Any other request: the token goes back as it came, after the codes it lacks are filled in.
Visit(j, u) ==
  IF Lacking(cookie[u])
    THEN StartJob(j, "codesRead", u, cookie[u].tenant, {})
    ELSE StartJob(j, "answer", u, Nil, {})

SetCookie(j) ==
  /\ JobAt(j, "answer")
  /\ cookie' = [cookie EXCEPT ![job[j].user] = job[j].claims]
  /\ JobEnd(j)
  /\ UNCHANGED <<rows, claimsHistory>>

-----------------------------------------------------------------------------
(* updateUser: the roles of a member are deleted and inserted one by one.  createUser makes *)
(* the account and its membership first, and then goes through the same loop.               *)

CreateUser(j, u, n, W) ==
  /\ JobAt(j, "none")
  /\ account[u] = "unborn"
  /\ account' = [account EXCEPT ![u] = "open"]
  /\ job' = [job EXCEPT ![j] = [NoJob EXCEPT !.pc = "createMember", !.user = u, !.tenant = n,
                                            !.todo = W]]
  /\ UNCHANGED <<member, holds, gives, cookie, claimsHistory>>

InsertMember(j) ==
  /\ JobAt(j, "createMember")
  /\ IF account[job[j].user] = "open"
       THEN /\ member' = member \cup {<<job[j].user, job[j].tenant>>}
            /\ JobGoto(j, "assignNext")
       ELSE JobEnd(j) /\ UNCHANGED member
  /\ UNCHANGED <<account, holds, gives, cookie, claimsHistory>>

Assign(j, u, n, W) == StartJob(j, "assignCheck", u, n, W)

CheckMember(j) ==
  /\ JobAt(j, "assignCheck")
  /\ IF <<job[j].user, job[j].tenant>> \in member THEN JobGoto(j, "assignClear") ELSE JobEnd(j)
  /\ UNCHANGED <<rows, cookie, claimsHistory>>

RolesIn(n) == {ro \in Roles : RoleTenant[ro] = n}
WithoutRolesIn(u, n) == {e \in holds : e[1] # u \/ e[2] \notin RolesIn(n)}

ClearRoles(j) ==
  /\ JobAt(j, "assignClear")
  /\ holds' = WithoutRolesIn(job[j].user, job[j].tenant)
  /\ JobGoto(j, "assignNext")
  /\ UNCHANGED <<account, member, gives, cookie, claimsHistory>>

\* A role of the body that is not the tenant's is skipped.
NextRole(j) ==
  /\ JobAt(j, "assignNext")
  /\ \/ \E ro \in job[j].todo :
          job' = [job EXCEPT ![j].todo = @ \ {ro},
                    ![j].current = IF ro \in RolesIn(job[j].tenant) THEN ro ELSE Nil,
                    ![j].pc = IF ro \in RolesIn(job[j].tenant) THEN "assignInsert" ELSE @]
     \/ job[j].todo = {} /\ JobEnd(j)
  /\ UNCHANGED <<rows, cookie, claimsHistory>>

\* The removals of this member that have deleted the roles and not yet the membership.
BetweenDeletes(u, n) == {j \in Jobs : JobAt(j, "removalMember") /\ job[j].user = u
                                                                 /\ job[j].tenant = n}

\* UserRole references User and Role, not UserTenant: the membership is not looked at again.
InsertRole(j) ==
  LET u == job[j].user
      n == job[j].tenant
      e == <<u, job[j].current>> IN
  /\ JobAt(j, "assignInsert")
  /\ UNCHANGED <<account, member, gives, cookie>>
  /\ IF e \in holds \/ account[u] # "open"
       THEN JobEnd(j) /\ UNCHANGED <<holds, claimsHistory>>
       ELSE /\ holds' = holds \cup {e}
            /\ JobGoto(j, "assignNext")
            /\ raced' = IF job[j].late \/ BetweenDeletes(u, n) # {}
                          THEN raced \cup {<<u, n>>} ELSE raced
            /\ Remember

-----------------------------------------------------------------------------
(* removeUserFromTenant: the roles, the membership, and the account if it was the last. *)

Remove(j, u, n) == <<u, n>> \in member /\ StartJob(j, "removalRoles", u, n, {})

\* Mutant: only the membership is deleted.
RolesStay(u, n) == holds

RolesDeleted(u, n) == WithoutRolesIn(u, n)

DeleteRoles(j) ==
  /\ JobAt(j, "removalRoles")
  /\ holds' = RolesDeleted(job[j].user, job[j].tenant)
  /\ JobGoto(j, "removalMember")
  /\ UNCHANGED <<account, member, gives, cookie, claimsHistory>>

\* The assignments to member u of tenant n that have checked the membership.
Assigning(u, n) == {j \in Jobs : /\ job[j].pc \in AssignPCs \ {"assignCheck", "createMember"}
                                 /\ job[j].user = u /\ job[j].tenant = n}

DeleteMembership(j) ==
  LET u == job[j].user
      n == job[j].tenant IN
  /\ JobAt(j, "removalMember")
  /\ member' = member \ {<<u, n>>}
  /\ job' = [i \in Jobs |-> IF i = j THEN [job[i] EXCEPT !.pc = "removalCount"]
                            ELSE IF i \in Assigning(u, n) THEN [job[i] EXCEPT !.late = TRUE]
                            ELSE job[i]]
  /\ UNCHANGED <<account, holds, gives, cookie, claimsHistory>>

CountMemberships(j) ==
  /\ JobAt(j, "removalCount")
  /\ IF \E n \in Tenants : <<job[j].user, n>> \in member
       THEN JobEnd(j) ELSE JobGoto(j, "removalAccount")
  /\ UNCHANGED <<rows, cookie, claimsHistory>>

\* Mutant: UserRole does not reference User.
RolesOutlive(u) == holds

RolesOfOthers(u) == {e \in holds : e[1] # u}

\* The cascade takes the memberships and the roles.
DropAccount(u) ==
  /\ account' = [account EXCEPT ![u] = "deleted"]
  /\ member' = {e \in member : e[1] # u}
  /\ holds' = RolesOfOthers(u)
  /\ UNCHANGED <<gives, cookie, claimsHistory>>

DeleteAccount(j) == JobAt(j, "removalAccount") /\ DropAccount(job[j].user) /\ JobEnd(j)

CloseAccount(u) == account[u] = "open" /\ DropAccount(u) /\ UNCHANGED job

\* An invitation is accepted: a member again, without roles of its own making.
Join(u, n) ==
  /\ account[u] = "open"
  /\ member' = member \cup {<<u, n>>}
  /\ UNCHANGED <<account, holds, gives, cookie, claimsHistory, job>>

\* A role is saved, by the handlers of RbacCatalog.
EditRole(ro, S) ==
  /\ gives' = [gives EXCEPT ![ro] = S]
  /\ UNCHANGED <<account, member, holds, cookie, raced, job>>
  /\ Remember

-----------------------------------------------------------------------------

\* The process dies, the database refuses, or the answer is lost.
LoseJob(j) == ~JobAt(j, "none") /\ JobEnd(j) /\ UNCHANGED <<rows, cookie, claimsHistory>>

ClaimsNext ==
  \/ \E j \in Jobs, u \in Users :
       \/ Login(j, u) \/ Visit(j, u) \/ SwitchTenant(j, u, Nil)
       \/ \E n \in Tenants :
            \/ SwitchTenant(j, u, n) \/ Remove(j, u, n)
            \/ \E W \in SUBSET Roles : Assign(j, u, n, W) \/ CreateUser(j, u, n, W)
  \/ \E j \in Jobs :
       \/ ReadMemberships(j) \/ ReadCodes(j) \/ FillCodes(j) \/ ReadMembership(j) \/ SetCookie(j)
       \/ InsertMember(j) \/ CheckMember(j) \/ ClearRoles(j) \/ NextRole(j) \/ InsertRole(j)
       \/ DeleteRoles(j) \/ DeleteMembership(j) \/ CountMemberships(j) \/ DeleteAccount(j)
       \/ LoseJob(j)
  \/ \E u \in Users : CloseAccount(u) \/ \E n \in Tenants : Join(u, n)
  \/ \E ro \in Roles, S \in SUBSET PermCodes : EditRole(ro, S)

ClaimsSpec == ClaimsInit /\ [][ClaimsNext]_claimsVars

-----------------------------------------------------------------------------
(* Properties. *)

\* Types; members, and whoever holds a role, have an account.
ClaimsTypeOK ==
  /\ account \in [Users -> {"unborn", "open", "deleted"}]
  /\ member \subseteq Users \X Tenants /\ holds \subseteq Users \X Roles
  /\ \A e \in member \cup holds : account[e[1]] = "open"
  /\ gives \in [Roles -> SUBSET PermCodes]
  /\ cookie \in [Users -> Claims]
  /\ ever \subseteq Users \X Tenants \X PermCodes /\ raced \subseteq Users \X Tenants
  /\ job \in [Jobs -> Job]

\* Who is not a member of a tenant holds no role there, so that a removed member whose
\* session still names the tenant (auth.ts:102) is stopped by the permission guard; unless
\* the removal and an assignment of roles met, and then the role outlives the membership and
\* even works again after a new invitation.
RolesFollowMembership ==
  \A e \in holds : <<e[1], RoleTenant[e[2]]>> \in member \cup raced

WereHeld(u, claims) ==
  claims.codes # Nil =>
    claims.tenant # Nil /\ \A c \in claims.codes : <<u, claims.tenant, c>> \in ever

\* The codes in a session are codes its user held in the very tenant it names, through any
\* order of logins, switches, removals, saves of roles and late answers; without a tenant
\* there are none (lib/auth-token-mutations.ts:38).
CodesWereHeld ==
  /\ \A u \in Users : WereHeld(u, cookie[u])
  /\ \A j \in Jobs : ~JobAt(j, "none") => WereHeld(job[j].user, job[j].claims)
=============================================================================
