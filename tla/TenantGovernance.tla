-------------------------- MODULE TenantGovernance --------------------------
(***************************************************************************)
(* Tenants and who governs them: memberships and their owner/admin/member  *)
(* roles, invitations, the two-phase transfer of ownership, suspension and *)
(* archival, and the accounts behind the memberships.                      *)
(*                                                                         *)
(* A request handler is a process with a program counter.  One action is   *)
(* one database statement of the handler (or one write transaction); what  *)
(* it read may be stale by the time it writes.  An input that nothing      *)
(* looks at before the write is chosen at the write.                       *)
(***************************************************************************)
EXTENDS Naturals

CONSTANTS
  Users,
  Tenants,
  Emails,        \* addresses, as they compare: without blanks around them, in lower case
  Invitations,   \* supply of invitation rows: bounds how many are ever made
  Transfers,     \* supply of transfer requests, which bounds the changes of owner
  Requests,      \* handlers that may be in flight together
  None

ASSUME NoneAssumption == None \notin Users \cup Tenants \cup Emails \cup Invitations

VARIABLES
  user,        \* each account: free (never created), present, gone
  born,        \* the tenants that exist; no code deletes one
  lock,        \* which of suspendedAt and archivedAt each tenant has set
  role,        \* table UserTenant: the tenantRole of each user in each tenant, or "none"
  invitations, \* table Invitation
  transfers,   \* table OwnerTransferRequest
  joined,      \* history: the users each invitation has admitted, the addresses they came with,
               \* and whether a handler died before it marked the invitation as used
  tenure,      \* history: how many owners each tenant has had
  req          \* the handlers in flight

vars == <<user, born, lock, role, invitations, transfers, joined, tenure, req>>
tables == <<user, born, lock, role, invitations, transfers, joined, tenure>>

Roles == {"owner", "admin", "member", "none"}
Locks == {"suspended", "archived"}

InvitationRow == [status: {"free", "open", "spent", "gone"}, tenant: Tenants \cup {None},
                  inviter: Users \cup {None}, bound: Emails \cup {None}, expired: BOOLEAN]

\* `tenure` is history: the tenure of the tenant in which the row was inserted.
TransferRow == [status: {"free", "pending", "completed", "cancelled", "gone"},
                tenant: Tenants \cup {None}, from: Users \cup {None}, to: Users \cup {None},
                expired: BOOLEAN, tenure: Nat]

\* What `joined` remembers of an invitation.
Admissions == [who: SUBSET Users, addresses: SUBSET Emails, died: BOOLEAN]
NoAdmission == [who |-> {}, addresses |-> {}, died |-> FALSE]

FreeInvitation == [status |-> "free", tenant |-> None, inviter |-> None, bound |-> None,
                   expired |-> FALSE]
FreeTransfer == [status |-> "free", tenant |-> None, from |-> None, to |-> None,
                 expired |-> FALSE, tenure |-> 0]

(***************************************************************************)
(* pc names the next statement of a handler.  `stale` is history: what has *)
(* happened since the handler started that a check of its own would have   *)
(* refused ("lock": the tenant was locked, "owner": the target became the  *)
(* tenant's owner, "spent": the invitation was used, "joined": the target  *)
(* joined a tenant).                                                       *)
(***************************************************************************)
CreatePCs == {"createGuard", "createUser", "createMember"}
RolePCs == {"roleGuard", "roleTarget", "roleSelect", "roleUpdate"}
RemovePCs == {"removeTarget", "removeGuard", "removeMember", "removeCount", "removeUser"}
InvitePCs == {"inviteGuard", "inviteInsert"}
AcceptPCs == {"acceptExisting", "acceptJoin", "acceptSpend"}
TransferPCs == {"transferFrom", "transferTo", "transferInsert"}
PCs == {"idle", "patchWrite", "tenantOwner"}
         \cup CreatePCs \cup RolePCs \cup RemovePCs \cup InvitePCs \cup AcceptPCs \cup TransferPCs

Request == [pc: PCs, actor: Users \cup {None}, tenant: Tenants \cup {None},
            target: Users \cup {None}, item: Invitations \cup {None},
            email: Emails \cup {None},
            stale: SUBSET {"lock", "owner", "spent", "joined"}]

IdleRequest == [pc |-> "idle", actor |-> None, tenant |-> None, target |-> None,
                item |-> None, email |-> None, stale |-> {}]

\* Tenants made by the seed or by earlier requests: each has its owner and any members.
Init ==
  /\ user \in [Users -> {"free", "present"}]
  /\ born \in SUBSET Tenants
  /\ role \in [Users -> [Tenants -> Roles]]
  /\ \A u \in Users, n \in Tenants :
       role[u][n] # "none" => user[u] = "present" /\ n \in born
  /\ \A n \in born : \E u \in Users :
       role[u][n] = "owner" /\ \A v \in Users \ {u} : role[v][n] # "owner"
  /\ tenure = [n \in Tenants |-> IF n \in born THEN 1 ELSE 0]
  /\ lock = [n \in Tenants |-> {}]
  /\ invitations = [i \in Invitations |-> FreeInvitation]
  /\ transfers = [x \in Transfers |-> FreeTransfer]
  /\ joined = [i \in Invitations |-> NoAdmission]
  /\ req = [r \in Requests |-> IdleRequest]

-----------------------------------------------------------------------------
(* Control of a handler. *)

At(r, pc) == req[r].pc = pc
Goto(r, pc) == req' = [req EXCEPT ![r].pc = pc]
Finish(r) == req' = [req EXCEPT ![r] = IdleRequest]

\* The handlers as they were, with `what` added to the history of those in S.
Marked(S, what) ==
  [r \in Requests |-> IF r \in S THEN [req[r] EXCEPT !.stale = @ \cup {what}] ELSE req[r]]

Locked(n) == lock[n] # {}
Manages(u, n) == role[u][n] \in {"owner", "admin"}

\* The first statement of a handler reads the role of the session's user; the answer to a
\* user who lacks it changes nothing.
Begin(r, pc, actor, n, target) ==
  /\ At(r, "idle")
  /\ req' = [req EXCEPT ![r] = [IdleRequest EXCEPT !.pc = pc, !.actor = actor, !.tenant = n,
                                                   !.target = target]]
  /\ UNCHANGED tables

\* Mutant: the guard looks at the permission only.
GuardPermission(r, from, to) ==
  /\ At(r, from)
  /\ Goto(r, to) \/ Finish(r)
  /\ UNCHANGED tables

\* The tenant's lifecycle, then the permission, which the role's owner may or may not have.
Guard(r, from, to) ==
  /\ At(r, from)
  /\ \/ ~Locked(req[r].tenant) /\ Goto(r, to)
     \/ Finish(r)
  /\ UNCHANGED tables

\* Mutant: the owner's row is a target like any other.
AnyMember(ro) == ro # "none"

\* Neither the removal nor the change of role applies to the owner.
NotOwner(ro) == ro \in {"admin", "member"}

CheckTarget(r, from, to) ==
  /\ At(r, from)
  /\ IF NotOwner(role[req[r].target][req[r].tenant]) THEN Goto(r, to) ELSE Finish(r)
  /\ UNCHANGED tables

\* INSERT INTO UserTenant: the foreign key wants the account, the primary key a new pair.
CanInsertMember(u, n) == user[u] = "present" /\ role[u][n] = "none"

InsertMember(u, n, ro) == role' = [role EXCEPT ![u][n] = ro]

Targeting(u) == {r \in Requests : req[r].target = u}

-----------------------------------------------------------------------------
(* Accounts. *)

MembershipsWithout(u) == [role EXCEPT ![u] = [n \in Tenants |-> "none"]]

\* DELETE FROM User, with what the foreign keys delete.
DeleteUserRow(u) ==
  /\ user' = [user EXCEPT ![u] = "gone"]
  /\ role' = MembershipsWithout(u)
  /\ invitations' = [i \in Invitations |->
       IF invitations[i].inviter = u THEN [FreeInvitation EXCEPT !.status = "gone"]
                                     ELSE invitations[i]]
  /\ transfers' = [x \in Transfers |->
       IF u \in {transfers[x].from, transfers[x].to}
         THEN [FreeTransfer EXCEPT !.status = "gone"]
         ELSE transfers[x]]
  /\ UNCHANGED <<born, lock, joined, tenure>>

SignUp(u) ==
  /\ user[u] = "free"
  /\ user' = [user EXCEPT ![u] = "present"]
  /\ UNCHANGED <<born, lock, role, invitations, transfers, joined, tenure, req>>

\* A user closes the account; nothing asks whether a tenant is left without its owner.
DeleteAccount(u) ==
  /\ user[u] = "present"
  /\ DeleteUserRow(u)
  /\ UNCHANGED req

-----------------------------------------------------------------------------
(* POST /api/users *)

BeginCreateUser(r, actor, n) ==
  /\ Manages(actor, n)
  /\ Begin(r, "createGuard", actor, n, None)

CreateGuard(r) == Guard(r, "createGuard", "createUser")

CreateUserRow(r) ==
  /\ At(r, "createUser")
  /\ \E u \in Users :
       /\ user[u] = "free"
       /\ user' = [user EXCEPT ![u] = "present"]
       /\ req' = [req EXCEPT ![r] = [req[r] EXCEPT !.pc = "createMember", !.target = u]]
  /\ UNCHANGED <<born, lock, role, invitations, transfers, joined, tenure>>

CreateMembership(r) ==
  LET u == req[r].target IN
  /\ At(r, "createMember")
  /\ IF CanInsertMember(u, req[r].tenant)
       THEN /\ InsertMember(u, req[r].tenant, "member")
            /\ req' = [Marked(Targeting(u), "joined") EXCEPT ![r] = IdleRequest]
       ELSE UNCHANGED role /\ Finish(r)
  /\ UNCHANGED <<user, born, lock, invitations, transfers, joined, tenure>>

-----------------------------------------------------------------------------
(* PUT /api/users/[id] with a tenantRole *)

BeginSetRole(r, actor, n, u) ==
  /\ Manages(actor, n)
  /\ Begin(r, "roleGuard", actor, n, u)

RoleGuard(r) == Guard(r, "roleGuard", "roleTarget")
RoleTarget(r) == CheckTarget(r, "roleTarget", "roleSelect")
RoleSelect(r) == CheckTarget(r, "roleSelect", "roleUpdate")

\* The UPDATE names the row by its key and not by the role that was read.
RoleUpdate(r) ==
  LET u == req[r].target
      n == req[r].tenant IN
  /\ At(r, "roleUpdate")
  /\ IF role[u][n] = "none"
       THEN UNCHANGED role
       ELSE \E next \in {"admin", "member"} : role' = [role EXCEPT ![u][n] = next]
  /\ Finish(r)
  /\ UNCHANGED <<user, born, lock, invitations, transfers, joined, tenure>>

-----------------------------------------------------------------------------
(* DELETE /api/users/[id] *)

BeginRemove(r, actor, n, u) ==
  /\ Manages(actor, n)
  /\ Begin(r, "removeTarget", actor, n, u)

RemoveTarget(r) == CheckTarget(r, "removeTarget", "removeGuard")
RemoveGuard(r) == Guard(r, "removeGuard", "removeMember")

RemoveMember(r) ==
  /\ At(r, "removeMember")
  /\ role' = [role EXCEPT ![req[r].target][req[r].tenant] = "none"]
  /\ Goto(r, "removeCount")
  /\ UNCHANGED <<user, born, lock, invitations, transfers, joined, tenure>>

\* Mutant: the memberships that are left are not counted.
NoMembershipCounts(u) == FALSE

HasMembership(u) == \E n \in Tenants : role[u][n] # "none"

RemoveCount(r) ==
  /\ At(r, "removeCount")
  /\ IF HasMembership(req[r].target) THEN Finish(r) ELSE Goto(r, "removeUser")
  /\ UNCHANGED tables

\* An account that is gone already is no row to delete.
RemoveUser(r) ==
  /\ At(r, "removeUser")
  /\ DeleteUserRow(req[r].target)
  /\ Finish(r)

-----------------------------------------------------------------------------
(* Invitations. *)

BeginInvite(r, actor, n) ==
  /\ Manages(actor, n)
  /\ Begin(r, "inviteGuard", actor, n, None)

InviteGuard(r) == Guard(r, "inviteGuard", "inviteInsert")

InsertInvitation(r) ==
  /\ At(r, "inviteInsert")
  /\ \/ /\ user[req[r].actor] = "present"
        /\ \E i \in Invitations, bound \in Emails \cup {None} :
             /\ invitations[i].status = "free"
             /\ invitations' = [invitations EXCEPT ![i] =
                  [status |-> "open", tenant |-> req[r].tenant, inviter |-> req[r].actor,
                   bound |-> bound, expired |-> FALSE]]
     \/ /\ user[req[r].actor] # "present"
        /\ UNCHANGED invitations
  /\ Finish(r)
  /\ UNCHANGED <<user, born, lock, role, transfers, joined, tenure>>

\* Mutant: the e-mail constraint is not compared.
AcceptableByAnyone(i, email) ==
  /\ invitations[i].status = "open" /\ ~invitations[i].expired
  /\ ~Locked(invitations[i].tenant)

Acceptable(i, email) ==
  /\ invitations[i].status = "open" /\ ~invitations[i].expired
  /\ ~Locked(invitations[i].tenant)
  /\ invitations[i].bound \in {email, None}

\* The invitation and its tenant are read by one SELECT; no tenant context is needed.  The address
\* compared is the session's, which takes the one that its update hands it (auth.ts:144): any
\* address goes with any account.
LookupInvitation(r, actor, email, i) ==
  /\ user[actor] # "free"
  /\ At(r, "idle")
  /\ Acceptable(i, email)
  /\ req' = [req EXCEPT ![r] =
       [IdleRequest EXCEPT !.pc = "acceptExisting", !.actor = actor,
                           !.tenant = invitations[i].tenant, !.item = i, !.email = email]]
  /\ UNCHANGED tables

AcceptExisting(r) ==
  /\ At(r, "acceptExisting")
  /\ IF role[req[r].actor][req[r].tenant] = "none" THEN Goto(r, "acceptJoin") ELSE Finish(r)
  /\ UNCHANGED tables

Admitting(a, u, email) ==
  [a EXCEPT !.who = @ \cup {u}, !.addresses = @ \cup {email}]

\* An invitation carries the role member: nothing writes another targetRole.
AcceptJoin(r) ==
  LET u == req[r].actor IN
  /\ At(r, "acceptJoin")
  /\ IF CanInsertMember(u, req[r].tenant)
       THEN /\ InsertMember(u, req[r].tenant, "member")
            /\ joined' = [joined EXCEPT ![req[r].item] = Admitting(@, u, req[r].email)]
            /\ req' = [Marked(Targeting(u), "joined") EXCEPT ![r].pc = "acceptSpend"]
       ELSE UNCHANGED <<role, joined>> /\ Finish(r)
  /\ UNCHANGED <<user, born, lock, invitations, transfers, tenure>>

Accepting(i) == {r \in Requests : req[r].pc \in AcceptPCs /\ req[r].item = i}

AcceptSpend(r) ==
  LET i == req[r].item IN
  /\ At(r, "acceptSpend")
  /\ invitations' = IF invitations[i].status = "gone"
                      THEN invitations
                      ELSE [invitations EXCEPT ![i].status = "spent"]
  /\ req' = [Marked(Accepting(i), "spent") EXCEPT ![r] = IdleRequest]
  /\ UNCHANGED <<user, born, lock, role, transfers, joined, tenure>>

ExpireInvitation(i) ==
  /\ invitations[i].status = "open" /\ ~invitations[i].expired
  /\ invitations' = [invitations EXCEPT ![i].expired = TRUE]
  /\ UNCHANGED <<user, born, lock, role, transfers, joined, tenure, req>>

-----------------------------------------------------------------------------
(* The transfer of ownership; neither of its routes looks at the tenant's lifecycle. *)

BeginTransfer(r, actor, n, u) ==
  /\ role[actor][n] = "owner"
  /\ Begin(r, "transferFrom", actor, n, u)

TransferFrom(r) ==
  /\ At(r, "transferFrom")
  /\ IF role[req[r].actor][req[r].tenant] = "owner" THEN Goto(r, "transferTo") ELSE Finish(r)
  /\ UNCHANGED tables

TransferTo(r) ==
  /\ At(r, "transferTo")
  /\ IF NotOwner(role[req[r].target][req[r].tenant]) /\ req[r].target # req[r].actor
       THEN Goto(r, "transferInsert")
       ELSE Finish(r)
  /\ UNCHANGED tables

InsertTransfer(r) ==
  LET ends == {req[r].actor, req[r].target} IN
  /\ At(r, "transferInsert")
  /\ \/ /\ \A u \in ends : user[u] = "present"
        /\ \E x \in Transfers :
             /\ transfers[x].status = "free"
             /\ transfers' = [transfers EXCEPT ![x] =
                  [status |-> "pending", tenant |-> req[r].tenant, from |-> req[r].actor,
                   to |-> req[r].target, expired |-> FALSE, tenure |-> tenure[req[r].tenant]]]
     \/ /\ \E u \in ends : user[u] # "present"
        /\ UNCHANGED transfers
  /\ Finish(r)
  /\ UNCHANGED <<user, born, lock, role, invitations, joined, tenure>>

\* Mutant: the request's status is not read.
ConfirmableAgain(x) ==
  /\ transfers[x].status \in {"pending", "completed"} /\ ~transfers[x].expired
  /\ role[transfers[x].from][transfers[x].tenant] = "owner"
  /\ NotOwner(role[transfers[x].to][transfers[x].tenant])

\* What the transaction reads before it writes.
Confirmable(x) ==
  /\ transfers[x].status = "pending" /\ ~transfers[x].expired
  /\ role[transfers[x].from][transfers[x].tenant] = "owner"
  /\ NotOwner(role[transfers[x].to][transfers[x].tenant])

\* Mutant: only the requests of the owner who steps down are cancelled.
SettledForFrom(x) ==
  [y \in Transfers |->
    IF y = x THEN [transfers[y] EXCEPT !.status = "completed"]
    ELSE IF /\ transfers[y].status = "pending" /\ transfers[y].tenant = transfers[x].tenant
            /\ transfers[y].from = transfers[x].from
      THEN [transfers[y] EXCEPT !.status = "cancelled"]
      ELSE transfers[y]]

\* The request is completed and every pending one of the tenant is cancelled.
Settled(x) ==
  [y \in Transfers |->
    IF y = x THEN [transfers[y] EXCEPT !.status = "completed"]
    ELSE IF transfers[y].status = "pending" /\ transfers[y].tenant = transfers[x].tenant
      THEN [transfers[y] EXCEPT !.status = "cancelled"]
      ELSE transfers[y]]

\* Mutant: the owner does not step down.
PassedOnTo(x) == [role EXCEPT ![transfers[x].to][transfers[x].tenant] = "owner"]

\* The owner steps down to admin, the recipient becomes the owner.
PassedOn(x) ==
  [role EXCEPT ![transfers[x].from][transfers[x].tenant] = "admin",
               ![transfers[x].to][transfers[x].tenant] = "owner"]

\* One write transaction, confirmed by the user the request names.
ConfirmTransfer(x) ==
  LET n == transfers[x].tenant IN
  /\ Confirmable(x)
  /\ role' = PassedOn(x)
  /\ transfers' = Settled(x)
  /\ tenure' = [tenure EXCEPT ![n] = @ + 1]
  /\ req' = Marked({r \in Targeting(transfers[x].to) : req[r].tenant = n}, "owner")
  /\ UNCHANGED <<user, born, lock, invitations, joined>>

ExpireTransfer(x) ==
  /\ transfers[x].status = "pending" /\ ~transfers[x].expired
  /\ transfers' = [transfers EXCEPT ![x].expired = TRUE]
  /\ UNCHANGED <<user, born, lock, role, invitations, joined, tenure, req>>

-----------------------------------------------------------------------------
(* Tenants: founding, suspension and archival. *)

\* The identifier is new, and the unique index wants a new slug.
FreshTenant(n) == n \notin born

\* Any session may found a tenant, that of a deleted account too.
InsertTenant(r, actor, n) ==
  /\ user[actor] # "free"
  /\ At(r, "idle")
  /\ FreshTenant(n)
  /\ born' = born \cup {n}
  /\ req' = [req EXCEPT ![r] = [IdleRequest EXCEPT !.pc = "tenantOwner", !.actor = actor,
                                                   !.tenant = n]]
  /\ UNCHANGED <<user, lock, role, invitations, transfers, joined, tenure>>

InsertOwner(r) ==
  LET u == req[r].actor
      n == req[r].tenant IN
  /\ At(r, "tenantOwner")
  /\ IF CanInsertMember(u, n)
       THEN /\ InsertMember(u, n, "owner")
            /\ tenure' = [tenure EXCEPT ![n] = @ + 1]
            /\ req' = [Marked(Targeting(u), "joined") EXCEPT ![r] = IdleRequest]
       ELSE UNCHANGED <<role, tenure>> /\ Finish(r)
  /\ UNCHANGED <<user, born, lock, invitations, transfers, joined>>

\* The request body may set or clear either field, or both.
LockAfter(n, set, clear) == (lock[n] \cup set) \ clear

\* The handlers after tenant n got the locks L.
AfterLocking(n, L) ==
  Marked({r \in Requests : L # {} /\ ~At(r, "idle") /\ req[r].tenant = n}, "lock")

BeginPatch(r, actor, n) ==
  /\ role[actor][n] = "owner"
  /\ Begin(r, "patchWrite", actor, n, None)

PatchLifecycle(r) ==
  LET n == req[r].tenant IN
  /\ At(r, "patchWrite")
  /\ \E set, clear \in SUBSET Locks :
       /\ set \cap clear = {} /\ set \cup clear # {}
       /\ lock' = [lock EXCEPT ![n] = LockAfter(n, set, clear)]
       /\ req' = [AfterLocking(n, LockAfter(n, set, clear)) EXCEPT ![r] = IdleRequest]
  /\ UNCHANGED <<user, born, role, invitations, transfers, joined, tenure>>

\* A platform administrator cannot clear archivedAt.
PlatformPatch(n) ==
  /\ n \in born
  /\ \E set \in SUBSET Locks, clear \in SUBSET {"suspended"} :
       /\ set \cap clear = {} /\ set \cup clear # {}
       /\ lock' = [lock EXCEPT ![n] = LockAfter(n, set, clear)]
       /\ req' = AfterLocking(n, LockAfter(n, set, clear))
  /\ UNCHANGED <<user, born, role, invitations, transfers, joined, tenure>>

-----------------------------------------------------------------------------

\* The process dies, or the database call throws: the handler never resumes.
Crash(r) ==
  /\ ~At(r, "idle")
  /\ joined' = IF At(r, "acceptSpend") THEN [joined EXCEPT ![req[r].item].died = TRUE] ELSE joined
  /\ Finish(r)
  /\ UNCHANGED <<user, born, lock, role, invitations, transfers, tenure>>

Arrive(r) ==
  \E actor \in Users :
    \/ \E n \in Tenants :
         \/ BeginCreateUser(r, actor, n)
         \/ BeginInvite(r, actor, n)
         \/ BeginPatch(r, actor, n)
         \/ InsertTenant(r, actor, n)
         \/ \E u \in Users :
              BeginSetRole(r, actor, n, u) \/ BeginRemove(r, actor, n, u)
                \/ BeginTransfer(r, actor, n, u)
    \/ \E i \in Invitations, email \in Emails : LookupInvitation(r, actor, email, i)

Resume(r) ==
  \/ CreateGuard(r) \/ CreateUserRow(r) \/ CreateMembership(r)
  \/ RoleGuard(r) \/ RoleTarget(r) \/ RoleSelect(r) \/ RoleUpdate(r)
  \/ RemoveTarget(r) \/ RemoveGuard(r) \/ RemoveMember(r) \/ RemoveCount(r) \/ RemoveUser(r)
  \/ InviteGuard(r) \/ InsertInvitation(r)
  \/ AcceptExisting(r) \/ AcceptJoin(r) \/ AcceptSpend(r)
  \/ TransferFrom(r) \/ TransferTo(r) \/ InsertTransfer(r)
  \/ InsertOwner(r) \/ PatchLifecycle(r)

Next ==
  \/ \E r \in Requests : Arrive(r) \/ Resume(r) \/ Crash(r)
  \/ \E u \in Users : SignUp(u) \/ DeleteAccount(u)
  \/ \E i \in Invitations : ExpireInvitation(i)
  \/ \E x \in Transfers : ConfirmTransfer(x) \/ ExpireTransfer(x)
  \/ \E n \in Tenants : PlatformPatch(n)

Spec == Init /\ [][Next]_vars

-----------------------------------------------------------------------------
(* Properties. *)

Owned(n) == \E u \in Users : role[u][n] = "owner"

\* Every row has its columns' types, and names accounts and tenants that exist: the
\* foreign keys of sql/schema.sql:64-72.
TypeOK ==
  /\ user \in [Users -> {"free", "present", "gone"}]
  /\ born \subseteq Tenants
  /\ lock \in [Tenants -> SUBSET Locks]
  /\ role \in [Users -> [Tenants -> Roles]]
  /\ \A u \in Users, n \in Tenants :
       role[u][n] # "none" => user[u] = "present" /\ n \in born
  /\ invitations \in [Invitations -> InvitationRow]
  /\ transfers \in [Transfers -> TransferRow]
  /\ joined \in [Invitations -> Admissions]
  /\ tenure \in [Tenants -> Nat]
  /\ req \in [Requests -> Request]

\* A tenant never has two owners (CONTEXT.md:15), and does not need the partial unique
\* index for it: however transfers, their requests and role changes interleave, no write
\* that the index would have to refuse is ever attempted.
AtMostOneOwner ==
  \A n \in Tenants, u, v \in Users : role[u][n] = "owner" /\ role[v][n] = "owner" => u = v

\* A request for transfer that its owner could still see confirmed was made in the
\* present tenure: one made, or still being inserted, before the ownership moved away does
\* not come back to life when the ownership returns (data-access.ts:1472).
RequestsDieWithTenure ==
  \A x \in Transfers :
    LET n == transfers[x].tenant IN
    transfers[x].status = "pending" /\ role[transfers[x].from][n] = "owner"
      => transfers[x].tenure = tenure[n]

\* The statements of each handler that follow its check of the lifecycle.
Unlocked(r) == req[r].pc \in {"createUser", "createMember", "roleTarget", "roleSelect",
  "roleUpdate", "removeMember", "removeCount", "removeUser", "inviteInsert",
  "acceptExisting", "acceptJoin"}

\* What a handler acts on is as it read it, or was changed by somebody else in between: a
\* locked tenant, an owner as the target, a used invitation or an account that is somebody's
\* member reaches a write only in a handler that overlapped the change.
StaleOnlyByRace ==
  \A r \in Requests :
    LET ro == role[req[r].target][req[r].tenant] IN
    /\ Unlocked(r) /\ Locked(req[r].tenant) => "lock" \in req[r].stale
    /\ req[r].pc \in {"roleSelect", "roleUpdate", "removeGuard", "removeMember"} /\ ro = "owner"
         => "owner" \in req[r].stale
    /\ req[r].pc \in {"acceptExisting", "acceptJoin"} /\ invitations[req[r].item].status = "spent"
         => "spent" \in req[r].stale
    /\ At(r, "removeUser") /\ HasMembership(req[r].target) => "joined" \in req[r].stale

\* A tenant loses its owner only when the owner closes the account, or to a handler that
\* checked its target before the target became an owner.
OwnerLostOnlyByRace ==
  [][\A n \in Tenants, u \in Users : role[u][n] = "owner" /\ ~Owned(n)' =>
       \/ user'[u] = "gone" /\ req' = req
       \/ \E r \in Requests :
            /\ req'[r] # req[r] /\ req[r].target = u
            /\ req[r].stale \cap {"owner", "joined"} # {}]_vars

\* An invitation that has admitted somebody is used up: it is marked so, unless a handler is
\* about to, or died between the two statements (data-access.ts:1399-1406); none is marked that
\* admitted nobody.  And it admits only with the address it is bound to, which the handler
\* compared before it looked for a membership.
AdmissionUsesInvitation ==
  \A i \in Invitations :
    /\ invitations[i].status = "open" /\ joined[i].who # {} =>
         joined[i].died \/ \E r \in Requests : At(r, "acceptSpend") /\ req[r].item = i
    /\ invitations[i].status = "spent" => joined[i].who # {}
    /\ invitations[i].bound # None => joined[i].addresses \subseteq {invitations[i].bound}

-----------------------------------------------------------------------------
(* The inductive invariant behind the properties of ownership. *)

\* What a handler has established by the time it reaches a statement.
HandlerShape(r) ==
  /\ ~At(r, "idle") => req[r].actor \in Users /\ req[r].tenant \in born
  /\ req[r].pc \in {"createMember"} \cup RolePCs \cup RemovePCs \cup TransferPCs =>
       req[r].target \in Users
  /\ req[r].pc \in AcceptPCs => req[r].item \in Invitations /\ req[r].email \in Emails
  /\ req[r].pc \in TransferPCs => tenure[req[r].tenant] > 0
  /\ At(r, "tenantOwner") => tenure[req[r].tenant] = 0

\* A tenant is founded by one handler, and has had no owner until that handler is done.
FounderAlone ==
  /\ \A r, s \in Requests :
       At(r, "tenantOwner") /\ At(s, "tenantOwner") /\ req[r].tenant = req[s].tenant => r = s
  /\ \A n \in Tenants : n \notin born => tenure[n] = 0
  /\ \A n \in Tenants, u \in Users : role[u][n] = "owner" => tenure[n] > 0

InvitationShape ==
  \A i \in Invitations : invitations[i].status = "open" => invitations[i].tenant \in born

TransferShape ==
  \A x \in Transfers : transfers[x].status = "pending" =>
    /\ transfers[x].tenant \in born /\ tenure[transfers[x].tenant] > 0
    /\ transfers[x].from \in Users /\ transfers[x].to \in Users

\* Holds initially and is preserved by every step; implies TypeOK, AtMostOneOwner and
\* RequestsDieWithTenure.
GovInv ==
  /\ TypeOK /\ \A r \in Requests : HandlerShape(r)
  /\ FounderAlone /\ InvitationShape /\ TransferShape
  /\ AtMostOneOwner /\ RequestsDieWithTenure

-----------------------------------------------------------------------------
(* Promises of the documents and comments that the code does not keep. *)

\* docs/governance-matrix.md:33: the removal of a member cannot delete the owner.
RemovalSparesOwner ==
  [][\A r \in Requests : RemoveMember(r) => role[req[r].target][req[r].tenant] # "owner"]_vars

\* tests/collaboration-flow.test.ts:50: an invitation is single-use.
SingleUse == \A i \in Invitations : \A u, v \in joined[i].who : u = v

\* data-access.ts:988: removal deletes the account if no membership is left.
RemovalDeletesOnlyTheHomeless ==
  [][\A r \in Requests : RemoveUser(r) => ~HasMembership(req[r].target)]_vars

\* CONTEXT.md:45: the changing APIs of a suspended or archived tenant are refused.
NoTransferWhileLocked ==
  [][\A x \in Transfers :
       transfers[x].status = "pending" /\ transfers'[x].status = "completed"
         => ~Locked(transfers[x].tenant)]_vars

-----------------------------------------------------------------------------
(* The ownership of tenants as an outside observer sees it. *)

Phase(n) ==
  CASE n \notin born -> "unborn"
    [] n \in born /\ tenure[n] = 0 -> "founding"
    [] Owned(n) -> "owned"
    [] OTHER -> "lost"

Holder(n) == {u \in Users : role[u][n] = "owner"}

\* To whom the present owner has offered the tenant.
Offers(n) ==
  {u \in Users : \E x \in Transfers :
     /\ transfers[x].status = "pending" /\ transfers[x].tenant = n
     /\ transfers[x].from \in Holder(n) /\ transfers[x].to = u}

Ownership == INSTANCE TenantOwnership WITH
  phase <- [n \in Tenants |-> Phase(n)],
  holder <- [n \in Tenants |-> Holder(n)],
  offers <- [n \in Tenants |-> Offers(n)]

\* The handlers implement the ownership of tenants: it passes from its one holder to a user
\* the holder offered it to, every other offer ends with that, and once lost it stays lost.
ImplementsOwnership == Ownership!Spec
=============================================================================
