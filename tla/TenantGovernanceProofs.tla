----------------------- MODULE TenantGovernanceProofs -----------------------
(***************************************************************************)
(* Proofs about TenantGovernance for every set of users, tenants,          *)
(* invitations, transfers and requests: GovInv is an invariant, hence so   *)
(* are its conjuncts; what handlers act on is stale only by a race; an     *)
(* invitation that admits is used up and goes by the address it is bound   *)
(* to; and the handlers implement TenantOwnership.                         *)
(*                                                                         *)
(* GovInv is split into what it says of the tables and what it says of the *)
(* handlers.  Few actions change a table, and in few ways: one lemma each. *)
(***************************************************************************)
EXTENDS TenantGovernance, TLAPS

\* The types of the tables.
TableTypes ==
  /\ user \in [Users -> {"free", "present", "gone"}]
  /\ born \subseteq Tenants
  /\ lock \in [Tenants -> SUBSET Locks]
  /\ role \in [Users -> [Tenants -> Roles]]
  /\ invitations \in [Invitations -> InvitationRow]
  /\ transfers \in [Transfers -> TransferRow]
  /\ joined \in [Invitations -> Admissions]
  /\ tenure \in [Tenants -> Nat]

\* Memberships are of accounts and tenants that exist.
ForeignKeys ==
  \A u \in Users, n \in Tenants : role[u][n] # "none" => user[u] = "present" /\ n \in born

\* A tenant has had an owner if it has one, and none before it exists.
TenureShape ==
  /\ \A n \in Tenants : n \notin born => tenure[n] = 0
  /\ \A n \in Tenants, u \in Users : role[u][n] = "owner" => tenure[n] > 0

TablesInv ==
  /\ TableTypes /\ ForeignKeys /\ TenureShape /\ InvitationShape /\ TransferShape
  /\ AtMostOneOwner /\ RequestsDieWithTenure

OneFounder ==
  \A r, s \in Requests :
    At(r, "tenantOwner") /\ At(s, "tenantOwner") /\ req[r].tenant = req[s].tenant => r = s

HandlersInv ==
  /\ req \in [Requests -> Request]
  /\ \A r \in Requests : HandlerShape(r)
  /\ OneFounder

\* The two halves make up GovInv.
LEMMA Halves == GovInv <=> TablesInv /\ HandlersInv
  BY DEF GovInv, TypeOK, FounderAlone, TablesInv, TableTypes, ForeignKeys, TenureShape,
         HandlersInv, OneFounder

\* The same of the next state.
LEMMA HalvesNext == TablesInv' /\ HandlersInv' => GovInv'
  BY DEF GovInv, TypeOK, FounderAlone, TablesInv, TableTypes, ForeignKeys, TenureShape,
         HandlersInv, OneFounder, HandlerShape, At

\* Unused rows are rows, an idle request is a request.
LEMMA RowsTyped ==
  /\ FreeInvitation \in InvitationRow /\ FreeTransfer \in TransferRow
  /\ NoAdmission \in Admissions /\ IdleRequest \in Request
  BY DEF FreeInvitation, InvitationRow, FreeTransfer, TransferRow, NoAdmission, Admissions,
         IdleRequest, Request, PCs

-----------------------------------------------------------------------------
(* Initial states. *)

\* GovInv holds initially.
LEMMA InitInv == Init => GovInv
<1> SUFFICES ASSUME Init PROVE GovInv
  OBVIOUS
<1>1. TableTypes
  BY RowsTyped DEF Init, TableTypes, Locks
<1>2. ForeignKeys /\ InvitationShape /\ TransferShape /\ RequestsDieWithTenure
  BY DEF Init, ForeignKeys, InvitationShape, TransferShape, RequestsDieWithTenure,
         FreeInvitation, FreeTransfer
<1>3. TenureShape
  BY DEF Init, TenureShape
<1>4. AtMostOneOwner
  <2> SUFFICES ASSUME NEW n \in Tenants, NEW u \in Users, NEW v \in Users,
                      role[u][n] = "owner", role[v][n] = "owner"
               PROVE  u = v
    BY DEF AtMostOneOwner
  <2>1. n \in born
    BY DEF Init
  <2>2. PICK w \in Users : \A z \in Users \ {w} : role[z][n] # "owner"
    BY <2>1 DEF Init
  <2> QED
    BY <2>2
<1>5. HandlersInv
  BY RowsTyped DEF Init, HandlersInv, OneFounder, HandlerShape, At, IdleRequest,
     RolePCs, RemovePCs, TransferPCs, AcceptPCs
<1> QED
  BY <1>1, <1>2, <1>3, <1>4, <1>5, Halves DEF TablesInv

-----------------------------------------------------------------------------
(* The tables. *)

\* Nothing changes: the invariant of the tables stays.
LEMMA TablesUnchanged ==
  ASSUME TablesInv, UNCHANGED tables
  PROVE  TablesInv'
  BY DEF TablesInv, tables, TableTypes, ForeignKeys, TenureShape, InvitationShape,
         TransferShape, AtMostOneOwner, RequestsDieWithTenure

\* A new account, or new locks, matter to no membership.
LEMMA AccountOrLock ==
  ASSUME TablesInv, UNCHANGED <<born, role, invitations, transfers, joined, tenure>>,
         user' \in [Users -> {"free", "present", "gone"}], lock' \in [Tenants -> SUBSET Locks],
         \A u \in Users : user[u] = "present" => user'[u] = "present"
  PROVE  TablesInv'
  BY DEF TablesInv, TableTypes, ForeignKeys, TenureShape, InvitationShape,
         TransferShape, AtMostOneOwner, RequestsDieWithTenure

\* What a write to one membership leaves in the others.
LEMMA RoleWritten ==
  ASSUME role \in [Users -> [Tenants -> Roles]], NEW u \in Users, NEW n \in Tenants,
         NEW ro \in Roles, role' = [role EXCEPT ![u][n] = ro]
  PROVE  /\ role' \in [Users -> [Tenants -> Roles]]
         /\ \A v \in Users, m \in Tenants :
              role'[v][m] = IF v = u /\ m = n THEN ro ELSE role[v][m]
  OBVIOUS

\* One membership is added, changed or removed, and nobody becomes an owner.
LEMMA MembershipWritten ==
  ASSUME TablesInv, NEW u \in Users, NEW n \in Tenants, NEW ro \in Roles \ {"owner"},
         ro # "none" => user[u] = "present" /\ n \in born,
         role' = [role EXCEPT ![u][n] = ro],
         joined' \in [Invitations -> Admissions],
         UNCHANGED <<user, born, lock, invitations, transfers, tenure>>
  PROVE  TablesInv'
<1>1. /\ role' \in [Users -> [Tenants -> Roles]]
      /\ \A v \in Users, m \in Tenants :
           role'[v][m] = IF v = u /\ m = n THEN ro ELSE role[v][m]
  BY RoleWritten DEF TablesInv, TableTypes
<1>2. \A v \in Users, m \in Tenants : role'[v][m] = "owner" => role[v][m] = "owner"
  BY <1>1
<1>3. TableTypes'
  BY <1>1 DEF TablesInv, TableTypes
<1>4. ForeignKeys'
  BY <1>1 DEF TablesInv, ForeignKeys
<1>5. TenureShape' /\ InvitationShape' /\ TransferShape' /\ AtMostOneOwner'
  BY <1>2 DEF TablesInv, TenureShape, InvitationShape, TransferShape, AtMostOneOwner
<1>6. RequestsDieWithTenure'
  BY <1>2, <1>3 DEF TablesInv, TableTypes, RequestsDieWithTenure, TransferShape
<1> QED
  BY <1>3, <1>4, <1>5, <1>6 DEF TablesInv

\* The deletion of an account takes its memberships, invitations and transfers along.
LEMMA AccountDeleted ==
  ASSUME TablesInv, NEW u \in Users, DeleteUserRow(u)
  PROVE  TablesInv'
<1> USE DEF DeleteUserRow
<1>1. /\ role' \in [Users -> [Tenants -> Roles]]
      /\ \A v \in Users, m \in Tenants : role'[v][m] = IF v = u THEN "none" ELSE role[v][m]
  BY DEF TablesInv, TableTypes, MembershipsWithout, Roles
<1>2. \A v \in Users, m \in Tenants : role'[v][m] = "owner" => role[v][m] = "owner"
  BY <1>1
<1>3. /\ invitations' \in [Invitations -> InvitationRow]
      /\ \A i \in Invitations : invitations'[i].status = "open" => invitations'[i] = invitations[i]
  BY DEF TablesInv, TableTypes, FreeInvitation, InvitationRow
<1>4. /\ transfers' \in [Transfers -> TransferRow]
      /\ \A x \in Transfers : transfers'[x].status = "pending" => transfers'[x] = transfers[x]
  BY DEF TablesInv, TableTypes, FreeTransfer, TransferRow
<1>5. TableTypes'
  BY <1>1, <1>3, <1>4 DEF TablesInv, TableTypes
<1>6. ForeignKeys'
  BY <1>1 DEF TablesInv, TableTypes, ForeignKeys
<1>7. TenureShape' /\ AtMostOneOwner'
  BY <1>2 DEF TablesInv, TenureShape, AtMostOneOwner
<1>8. InvitationShape' /\ TransferShape'
  BY <1>3, <1>4 DEF TablesInv, InvitationShape, TransferShape
<1>9. RequestsDieWithTenure'
  BY <1>2, <1>4 DEF TablesInv, TableTypes, RequestsDieWithTenure, TransferShape
<1> QED
  BY <1>5, <1>6, <1>7, <1>8, <1>9 DEF TablesInv

\* A write to the table of invitations opens none but those of existing tenants.
LEMMA InvitationsWritten ==
  ASSUME TablesInv, UNCHANGED <<user, born, lock, role, transfers, joined, tenure>>,
         invitations' \in [Invitations -> InvitationRow], InvitationShape'
  PROVE  TablesInv'
  BY DEF TablesInv, TableTypes, ForeignKeys, TenureShape, TransferShape, AtMostOneOwner,
         RequestsDieWithTenure

\* A write to the table of transfers that keeps what the invariant says of it.
LEMMA TransfersWritten ==
  ASSUME TablesInv, UNCHANGED <<user, born, lock, role, invitations, joined, tenure>>,
         transfers' \in [Transfers -> TransferRow], TransferShape', RequestsDieWithTenure'
  PROVE  TablesInv'
  BY DEF TablesInv, TableTypes, ForeignKeys, TenureShape, InvitationShape, AtMostOneOwner

\* A tenant is founded: it has no members and no history yet.
LEMMA TenantInserted ==
  ASSUME TablesInv, NEW n \in Tenants, born' = born \cup {n},
         UNCHANGED <<user, lock, role, invitations, transfers, joined, tenure>>
  PROVE  TablesInv'
  BY DEF TablesInv, TableTypes, ForeignKeys, TenureShape, InvitationShape, TransferShape,
         AtMostOneOwner, RequestsDieWithTenure

\* The founder becomes the first owner.
LEMMA OwnerInserted ==
  ASSUME TablesInv, NEW u \in Users, NEW n \in born, tenure[n] = 0, user[u] = "present",
         role' = [role EXCEPT ![u][n] = "owner"], tenure' = [tenure EXCEPT ![n] = @ + 1],
         UNCHANGED <<user, born, lock, invitations, transfers, joined>>
  PROVE  TablesInv'
<1>1. n \in Tenants
  BY DEF TablesInv, TableTypes
<1>2. /\ role' \in [Users -> [Tenants -> Roles]]
      /\ \A v \in Users, m \in Tenants :
           role'[v][m] = IF v = u /\ m = n THEN "owner" ELSE role[v][m]
  <2> "owner" \in Roles
    BY DEF Roles
  <2> QED
    BY <1>1, RoleWritten DEF TablesInv, TableTypes
<1>3. /\ tenure' \in [Tenants -> Nat]
      /\ \A m \in Tenants : tenure'[m] = IF m = n THEN 1 ELSE tenure[m]
  BY <1>1 DEF TablesInv, TableTypes
<1>4. \A v \in Users : role[v][n] # "owner"
  BY <1>1 DEF TablesInv, TenureShape
<1>5. \A x \in Transfers : transfers[x].status = "pending" => transfers[x].tenant # n
  BY DEF TablesInv, TransferShape
<1>6. TableTypes'
  BY <1>2, <1>3 DEF TablesInv, TableTypes
<1>7. ForeignKeys' /\ TenureShape'
  BY <1>2, <1>3 DEF TablesInv, ForeignKeys, TenureShape
<1>8. InvitationShape'
  BY DEF TablesInv, InvitationShape
<1>9. AtMostOneOwner'
  BY <1>2, <1>4 DEF TablesInv, AtMostOneOwner
<1>10. TransferShape' /\ RequestsDieWithTenure'
  BY <1>2, <1>3, <1>5 DEF TablesInv, TableTypes, TransferShape, RequestsDieWithTenure
<1> QED
  BY <1>6, <1>7, <1>8, <1>9, <1>10 DEF TablesInv

\* What the confirmation of a request leaves in the table of transfers: no pending one of
\* its tenant.
LEMMA SettledRows ==
  ASSUME TablesInv, NEW x \in Transfers
  PROVE  /\ Settled(x) \in [Transfers -> TransferRow]
         /\ \A y \in Transfers : Settled(x)[y].status = "pending" =>
              Settled(x)[y] = transfers[y] /\ transfers[y].tenant # transfers[x].tenant
<1>1. ASSUME NEW y \in Transfers, NEW st \in {"completed", "cancelled"}
      PROVE  /\ [transfers[y] EXCEPT !.status = st] \in TransferRow
             /\ [transfers[y] EXCEPT !.status = st].status # "pending"
  BY DEF TablesInv, TableTypes, TransferRow
<1>2. \A y \in Transfers : transfers[y] \in TransferRow
  BY DEF TablesInv, TableTypes
<1>3. ASSUME NEW y \in Transfers
      PROVE  /\ Settled(x)[y] \in TransferRow
             /\ Settled(x)[y].status = "pending" =>
                  Settled(x)[y] = transfers[y] /\ transfers[y].tenant # transfers[x].tenant
  <2>1. CASE y = x
    BY <2>1, <1>1 DEF Settled
  <2>2. CASE y # x /\ transfers[y].status = "pending" /\ transfers[y].tenant = transfers[x].tenant
    BY <2>2, <1>1 DEF Settled
  <2>3. CASE y # x /\ ~(transfers[y].status = "pending" /\ transfers[y].tenant = transfers[x].tenant)
    BY <2>3, <1>2 DEF Settled
  <2> QED
    BY <2>1, <2>2, <2>3
<1> QED
  BY <1>3 DEF Settled

\* The ownership passes on: the tenure ends and every request made in it.
LEMMA Confirmed ==
  ASSUME TablesInv, NEW x \in Transfers, ConfirmTransfer(x)
  PROVE  TablesInv'
<1> DEFINE n == transfers[x].tenant
           from == transfers[x].from
           to == transfers[x].to
<1>1. n \in born /\ n \in Tenants /\ from \in Users /\ to \in Users
  BY DEF TablesInv, TableTypes, TransferShape, ConfirmTransfer, Confirmable
<1>2. role[from][n] = "owner" /\ role[to][n] \in {"admin", "member"} /\ from # to
  BY DEF ConfirmTransfer, Confirmable, NotOwner
<1>3. UNCHANGED <<user, born, lock, invitations, joined>>
  BY DEF ConfirmTransfer
<1>4. role' = [role EXCEPT ![from][n] = "admin", ![to][n] = "owner"]
  BY DEF ConfirmTransfer, PassedOn
<1>5. transfers' = Settled(x) /\ tenure' = [tenure EXCEPT ![n] = @ + 1]
  BY DEF ConfirmTransfer
<1> HIDE DEF n, from, to
<1>6. /\ role' \in [Users -> [Tenants -> Roles]]
      /\ \A v \in Users, m \in Tenants :
           role'[v][m] = IF v = to /\ m = n THEN "owner"
                         ELSE IF v = from /\ m = n THEN "admin" ELSE role[v][m]
  BY <1>1, <1>2, <1>4 DEF TablesInv, TableTypes, Roles
<1>7. /\ tenure' \in [Tenants -> Nat]
      /\ \A m \in Tenants : tenure'[m] = IF m = n THEN tenure[m] + 1 ELSE tenure[m]
  BY <1>1, <1>5 DEF TablesInv, TableTypes
<1>8. /\ transfers' \in [Transfers -> TransferRow]
      /\ \A y \in Transfers : transfers'[y].status = "pending" =>
           transfers'[y] = transfers[y] /\ transfers[y].tenant # n
  BY <1>5, SettledRows DEF n
<1>9. TableTypes'
  BY <1>3, <1>6, <1>7, <1>8 DEF TablesInv, TableTypes
<1>10. ForeignKeys'
  BY <1>1, <1>2, <1>3, <1>6 DEF TablesInv, ForeignKeys
<1>11. TenureShape' /\ InvitationShape'
  BY <1>1, <1>3, <1>6, <1>7 DEF TablesInv, TableTypes, TenureShape, InvitationShape
<1>12. AtMostOneOwner'
  BY <1>1, <1>2, <1>6 DEF TablesInv, AtMostOneOwner
<1>13. TransferShape'
  BY <1>3, <1>7, <1>8 DEF TablesInv, TableTypes, TransferShape
<1>14. RequestsDieWithTenure'
  <2> SUFFICES ASSUME NEW y \in Transfers, transfers'[y].status = "pending",
                      role'[transfers'[y].from][transfers'[y].tenant] = "owner"
               PROVE  transfers'[y].tenure = tenure'[transfers'[y].tenant]
    BY DEF RequestsDieWithTenure
  <2>1. transfers'[y] = transfers[y] /\ transfers[y].tenant # n
    BY <1>8
  <2>2. transfers[y].tenant \in Tenants /\ transfers[y].from \in Users
    BY <2>1 DEF TablesInv, TableTypes, TransferShape
  <2>3. role[transfers[y].from][transfers[y].tenant] = "owner"
    BY <1>6, <2>1, <2>2
  <2> QED
    BY <1>7, <2>1, <2>2, <2>3 DEF TablesInv, RequestsDieWithTenure
<1> QED
  BY <1>9, <1>10, <1>11, <1>12, <1>13, <1>14 DEF TablesInv

-----------------------------------------------------------------------------
(* The handlers. *)

\* A handler goes on with the statement it was about to make, for what it was asked.
Same(s) ==
  /\ req'[s].pc = req[s].pc /\ req'[s].actor = req[s].actor /\ req'[s].tenant = req[s].tenant
  /\ req'[s].target = req[s].target /\ req'[s].item = req[s].item
  /\ req'[s].email = req[s].email

\* The handlers of R take their step, the others do not; no tenant loses its history, and
\* none is given one behind its founder's back.
LEMMA HandlersMove ==
  ASSUME TablesInv, HandlersInv, NEW R \in SUBSET Requests,
         req' \in [Requests -> Request],
         \A s \in Requests \ R : Same(s),
         \A r \in R : HandlerShape(r)' /\ req'[r].pc # "tenantOwner",
         born \subseteq born',
         \A n \in Tenants : tenure[n] > 0 => tenure'[n] > 0,
         \A s \in Requests \ R : At(s, "tenantOwner") => tenure'[req[s].tenant] = 0
  PROVE  HandlersInv'
<1>1. ASSUME NEW s \in Requests PROVE HandlerShape(s)'
  <2>1. CASE s \in R
    BY <2>1
  <2>2. CASE s \notin R
    <3>1. Same(s) /\ HandlerShape(s) /\ born \subseteq Tenants
      BY <2>2 DEF HandlersInv, TablesInv, TableTypes
    <3>2. req[s].pc # "idle" => req[s].tenant \in Tenants
      BY <3>1 DEF HandlerShape, At
    <3> QED
      BY <2>2, <3>1, <3>2 DEF HandlerShape, At, Same, TransferPCs
  <2> QED
    BY <2>1, <2>2
<1>2. OneFounder'
  BY DEF HandlersInv, OneFounder, Same, At
<1> QED
  BY <1>1, <1>2 DEF HandlersInv

\* An ended handler has established nothing.
LEMMA IdleShape ==
  ASSUME NEW r, req'[r] = IdleRequest
  PROVE  HandlerShape(r)' /\ req'[r].pc # "tenantOwner"
  BY DEF HandlerShape, At, IdleRequest, RolePCs, RemovePCs, TransferPCs, AcceptPCs

\* Adding to the history changes nothing a handler goes by.
LEMMA MarkedRows ==
  ASSUME HandlersInv, NEW S, NEW what \in {"lock", "owner", "spent", "joined"}
  PROVE  /\ Marked(S, what) \in [Requests -> Request]
         /\ \A s \in Requests :
              /\ Marked(S, what)[s].pc = req[s].pc
              /\ Marked(S, what)[s].actor = req[s].actor
              /\ Marked(S, what)[s].tenant = req[s].tenant
              /\ Marked(S, what)[s].target = req[s].target
              /\ Marked(S, what)[s].item = req[s].item
              /\ Marked(S, what)[s].email = req[s].email
<1>1. ASSUME NEW s \in Requests
      PROVE  /\ Marked(S, what)[s] \in Request
             /\ Marked(S, what)[s].pc = req[s].pc
             /\ Marked(S, what)[s].actor = req[s].actor
             /\ Marked(S, what)[s].tenant = req[s].tenant
             /\ Marked(S, what)[s].target = req[s].target
             /\ Marked(S, what)[s].item = req[s].item
             /\ Marked(S, what)[s].email = req[s].email
  <2>1. req[s] \in Request
    BY DEF HandlersInv
  <2>2. CASE s \in S
    BY <2>1, <2>2 DEF Marked, Request
  <2>3. CASE s \notin S
    BY <2>1, <2>3 DEF Marked
  <2> QED
    BY <2>2, <2>3
<1>2. Marked(S, what) = [s \in Requests |-> Marked(S, what)[s]]
  BY DEF Marked
<1> QED
  BY <1>1, <1>2

\* A step of no handler, that may be noted in their histories.
LEMMA NobodyMoves ==
  ASSUME TablesInv, HandlersInv, NEW S, NEW what \in {"lock", "owner", "spent", "joined"},
         req' = req \/ req' = Marked(S, what),
         UNCHANGED born,
         \A n \in Tenants : tenure[n] > 0 => tenure'[n] > 0,
         \A n \in Tenants : tenure[n] = 0 => tenure'[n] = 0
  PROVE  HandlersInv'
<1>1. req' \in [Requests -> Request] /\ \A s \in Requests : Same(s)
  BY MarkedRows DEF HandlersInv, Same
<1>2. ASSUME NEW s \in Requests, At(s, "tenantOwner")
      PROVE  tenure'[req[s].tenant] = 0
  BY <1>2 DEF HandlersInv, HandlerShape, At, TablesInv, TableTypes
<1> QED
  BY <1>1, <1>2, HandlersMove, {} \in SUBSET Requests

\* A handler ends, its last statement noted in the histories of others or not; a tenant
\* whose history begins is the handler's own.
LEMMA HandlerEnds ==
  ASSUME TablesInv, HandlersInv, NEW r \in Requests, NEW S,
         NEW what \in {"lock", "owner", "spent", "joined"},
         Finish(r) \/ req' = [Marked(S, what) EXCEPT ![r] = IdleRequest],
         UNCHANGED born,
         \A n \in Tenants : tenure[n] > 0 => tenure'[n] > 0,
         \A n \in Tenants : tenure[n] = 0 =>
           tenure'[n] = 0 \/ (At(r, "tenantOwner") /\ req[r].tenant = n)
  PROVE  HandlersInv'
<1>1. /\ req' \in [Requests -> Request] /\ req'[r] = IdleRequest
      /\ \A s \in Requests \ {r} : Same(s)
  BY MarkedRows, RowsTyped DEF HandlersInv, Same, Finish
<1>2. ASSUME NEW s \in Requests \ {r}, At(s, "tenantOwner")
      PROVE  tenure'[req[s].tenant] = 0
  <2>1. req[s].tenant \in Tenants /\ tenure[req[s].tenant] = 0
    BY <1>2 DEF HandlersInv, HandlerShape, At, TablesInv, TableTypes
  <2> QED
    BY <1>2, <2>1 DEF HandlersInv, OneFounder
<1> QED
  BY <1>1, <1>2, IdleShape, HandlersMove, {r} \in SUBSET Requests

\* A handler goes on to another statement, for whose target or item it has a value; what
\* it did may be noted in the histories of others.
LEMMA HandlerGoes ==
  ASSUME TablesInv, HandlersInv, NEW r \in Requests, NEW to \in PCs \ {"tenantOwner"},
         NEW S, NEW what \in {"lock", "owner", "spent", "joined"},
         ~At(r, "idle"),
         Goto(r, to) \/ req' = [Marked(S, what) EXCEPT ![r].pc = to],
         to \in {"createMember"} \cup RolePCs \cup RemovePCs \cup TransferPCs =>
           req[r].target \in Users,
         to \in AcceptPCs => req[r].item \in Invitations /\ req[r].email \in Emails,
         to \in TransferPCs => req[r].pc \in TransferPCs,
         UNCHANGED <<born, tenure>>
  PROVE  HandlersInv'
<1>1. \A s \in Requests : req[s] \in Request /\ Marked(S, what)[s] \in Request
  BY MarkedRows DEF HandlersInv
<1>2. /\ req' \in [Requests -> Request]
      /\ req'[r].pc = to /\ req'[r].actor = req[r].actor /\ req'[r].tenant = req[r].tenant
      /\ req'[r].target = req[r].target /\ req'[r].item = req[r].item
      /\ req'[r].email = req[r].email
      /\ \A s \in Requests \ {r} : Same(s)
  <2>1. CASE Goto(r, to)
    BY <1>1, <2>1 DEF Goto, Request, HandlersInv, Same
  <2>2. CASE req' = [Marked(S, what) EXCEPT ![r].pc = to]
    <3>1. Marked(S, what) \in [Requests -> Request]
      BY MarkedRows
    <3>2. [Marked(S, what)[r] EXCEPT !.pc = to] \in Request
      BY <1>1 DEF Request
    <3>3. req' = [Marked(S, what) EXCEPT ![r] = [Marked(S, what)[r] EXCEPT !.pc = to]]
      BY <2>2, <3>1
    <3>4. req' \in [Requests -> Request] /\ req'[r] = [Marked(S, what)[r] EXCEPT !.pc = to]
      BY <3>1, <3>2, <3>3
    <3>5. \A s \in Requests \ {r} : req'[s] = Marked(S, what)[s]
      BY <3>1, <3>3
    <3>6. /\ req'[r].pc = to /\ req'[r].actor = req[r].actor /\ req'[r].tenant = req[r].tenant
          /\ req'[r].target = req[r].target /\ req'[r].item = req[r].item
          /\ req'[r].email = req[r].email
      BY <1>1, <3>4, MarkedRows DEF Request
    <3> QED
      BY <3>4, <3>5, <3>6, MarkedRows DEF Same
  <2> QED
    BY <2>1, <2>2
<1>3. HandlerShape(r)'
  BY <1>2 DEF HandlersInv, HandlerShape, At
<1>4. \A s \in Requests \ {r} : At(s, "tenantOwner") => tenure'[req[s].tenant] = 0
  BY DEF HandlersInv, HandlerShape
<1> QED
  BY <1>2, <1>3, <1>4, HandlersMove, {r} \in SUBSET Requests

\* A handler starts in a tenant that exists, for somebody.
LEMMA HandlerStarts ==
  ASSUME TablesInv, HandlersInv, NEW r \in Requests, NEW q \in Request,
         q.pc \notin {"idle", "tenantOwner"}, q.actor \in Users, q.tenant \in born,
         q.pc \in {"createMember"} \cup RolePCs \cup RemovePCs \cup TransferPCs =>
           q.target \in Users,
         q.pc \in AcceptPCs => q.item \in Invitations /\ q.email \in Emails,
         q.pc \in TransferPCs => tenure[q.tenant] > 0,
         req' = [req EXCEPT ![r] = q], UNCHANGED tables
  PROVE  GovInv'
<1>1. /\ req' \in [Requests -> Request] /\ req'[r] = q
      /\ \A s \in Requests \ {r} : Same(s)
  BY DEF HandlersInv, Same
<1>2. HandlerShape(r)'
  BY <1>1 DEF HandlerShape, At, tables
<1>3. \A s \in Requests \ {r} : At(s, "tenantOwner") => tenure'[req[s].tenant] = 0
  BY DEF HandlersInv, HandlerShape, tables
<1>4. HandlersInv'
  BY <1>1, <1>2, <1>3, HandlersMove, {r} \in SUBSET Requests DEF tables
<1> QED
  BY <1>4, TablesUnchanged, HalvesNext

-----------------------------------------------------------------------------
(* Statements that only read. *)

\* The first statement finds the actor a member, and an owner where it asks for one.
LEMMA BeginStep ==
  ASSUME GovInv, NEW r \in Requests, NEW pc \in PCs \ ({"idle", "tenantOwner"} \cup AcceptPCs),
         NEW actor \in Users, NEW n \in Tenants, NEW u \in Users \cup {None},
         role[actor][n] # "none", Begin(r, pc, actor, n, u),
         pc \in {"createMember"} \cup RolePCs \cup RemovePCs \cup TransferPCs => u \in Users,
         pc \in TransferPCs => role[actor][n] = "owner"
  PROVE  GovInv'
<1> DEFINE q == [IdleRequest EXCEPT !.pc = pc, !.actor = actor, !.tenant = n, !.target = u]
<1>1. /\ q \in Request /\ q.pc = pc /\ q.actor = actor /\ q.tenant = n /\ q.target = u
  BY RowsTyped DEF Request
<1>2. n \in born
  BY Halves DEF TablesInv, ForeignKeys
<1>3. pc \in TransferPCs => tenure[n] > 0
  BY Halves DEF TablesInv, TenureShape
<1>4. req' = [req EXCEPT ![r] = q] /\ UNCHANGED tables
  BY DEF Begin
<1> HIDE DEF q
<1> QED
  BY <1>1, <1>2, <1>3, <1>4, HandlerStarts, Halves

\* A handler that ends without a write.
LEMMA QuietEnd ==
  ASSUME GovInv, NEW r \in Requests, Finish(r), UNCHANGED tables
  PROVE  GovInv'
<1>1. HandlersInv'
  BY Halves, HandlerEnds DEF tables
<1> QED
  BY <1>1, Halves, TablesUnchanged, HalvesNext

\* A handler that goes on without a write, having already what the next statement needs.
LEMMA QuietGo ==
  ASSUME GovInv, NEW r \in Requests, NEW to \in PCs \ {"tenantOwner"}, Goto(r, to),
         ~At(r, "idle"), UNCHANGED tables,
         to \in {"createMember"} \cup RolePCs \cup RemovePCs \cup TransferPCs =>
           req[r].target \in Users,
         to \in AcceptPCs => req[r].item \in Invitations /\ req[r].email \in Emails,
         to \in TransferPCs => req[r].pc \in TransferPCs
  PROVE  GovInv'
<1>1. HandlersInv'
  BY Halves, HandlerGoes DEF tables
<1> QED
  BY <1>1, Halves, TablesUnchanged, HalvesNext

\* The targets and items that a handler has by its statement.
LEMMA Established ==
  ASSUME GovInv, NEW r \in Requests
  PROVE  /\ ~At(r, "idle") => req[r].actor \in Users /\ req[r].tenant \in born \cap Tenants
         /\ req[r].pc \in {"createMember"} \cup RolePCs \cup RemovePCs \cup TransferPCs =>
              req[r].target \in Users
         /\ req[r].pc \in AcceptPCs => req[r].item \in Invitations /\ req[r].email \in Emails
         /\ req[r] \in Request
  BY Halves DEF HandlersInv, HandlerShape, TablesInv, TableTypes

\* Every statement that only reads keeps GovInv.
LEMMA ReadingSteps ==
  ASSUME GovInv, NEW r \in Requests,
         \/ CreateGuard(r) \/ RoleGuard(r) \/ RoleTarget(r) \/ RoleSelect(r)
         \/ RemoveTarget(r) \/ RemoveGuard(r) \/ RemoveCount(r) \/ InviteGuard(r)
         \/ AcceptExisting(r) \/ TransferFrom(r) \/ TransferTo(r)
  PROVE  GovInv'
<1>1. UNCHANGED tables
  BY DEF CreateGuard, RoleGuard, RoleTarget, RoleSelect, RemoveTarget, RemoveGuard,
         RemoveCount, InviteGuard, AcceptExisting, TransferFrom, TransferTo, Guard, CheckTarget
<1>2. \/ Finish(r)
      \/ At(r, "createGuard") /\ Goto(r, "createUser")
      \/ At(r, "roleGuard") /\ Goto(r, "roleTarget")
      \/ At(r, "roleTarget") /\ Goto(r, "roleSelect")
      \/ At(r, "roleSelect") /\ Goto(r, "roleUpdate")
      \/ At(r, "removeTarget") /\ Goto(r, "removeGuard")
      \/ At(r, "removeGuard") /\ Goto(r, "removeMember")
      \/ At(r, "removeCount") /\ Goto(r, "removeUser")
      \/ At(r, "inviteGuard") /\ Goto(r, "inviteInsert")
      \/ At(r, "acceptExisting") /\ Goto(r, "acceptJoin")
      \/ At(r, "transferFrom") /\ Goto(r, "transferTo")
      \/ At(r, "transferTo") /\ Goto(r, "transferInsert")
  BY DEF CreateGuard, RoleGuard, RoleTarget, RoleSelect, RemoveTarget, RemoveGuard,
         RemoveCount, InviteGuard, AcceptExisting, TransferFrom, TransferTo, Guard, CheckTarget
<1>3. Finish(r) \/ \E to \in PCs \ {"tenantOwner"} :
        /\ Goto(r, to) /\ ~At(r, "idle")
        /\ to \in {"createMember"} \cup RolePCs \cup RemovePCs \cup TransferPCs =>
             req[r].pc \in RolePCs \cup RemovePCs \cup TransferPCs
        /\ to \in AcceptPCs => req[r].pc \in AcceptPCs
        /\ to \in TransferPCs => req[r].pc \in TransferPCs
  BY <1>2 DEF At, PCs, CreatePCs, RolePCs, RemovePCs, InvitePCs, AcceptPCs, TransferPCs
<1> QED
  BY <1>1, <1>3, QuietEnd, QuietGo, Established

\* Every first statement keeps GovInv, but for the founding of a tenant.
LEMMA Beginnings ==
  ASSUME GovInv, NEW r \in Requests, NEW actor \in Users, NEW n \in Tenants,
         \/ BeginCreateUser(r, actor, n) \/ BeginInvite(r, actor, n) \/ BeginPatch(r, actor, n)
         \/ \E u \in Users :
              BeginSetRole(r, actor, n, u) \/ BeginRemove(r, actor, n, u)
                \/ BeginTransfer(r, actor, n, u)
  PROVE  GovInv'
<1> USE DEF PCs, CreatePCs, RolePCs, RemovePCs, InvitePCs, AcceptPCs, TransferPCs, Manages
<1>1. CASE BeginCreateUser(r, actor, n)
  BY <1>1, BeginStep DEF BeginCreateUser
<1>2. CASE BeginInvite(r, actor, n)
  BY <1>2, BeginStep DEF BeginInvite
<1>3. CASE BeginPatch(r, actor, n)
  BY <1>3, BeginStep DEF BeginPatch
<1>4. ASSUME NEW u \in Users,
             BeginSetRole(r, actor, n, u) \/ BeginRemove(r, actor, n, u)
               \/ BeginTransfer(r, actor, n, u)
      PROVE  GovInv'
  <2>1. CASE BeginSetRole(r, actor, n, u)
    BY <2>1, BeginStep DEF BeginSetRole
  <2>2. CASE BeginRemove(r, actor, n, u)
    BY <2>2, BeginStep DEF BeginRemove
  <2>3. CASE BeginTransfer(r, actor, n, u)
    BY <2>3, BeginStep DEF BeginTransfer
  <2> QED
    BY <1>4, <2>1, <2>2, <2>3
<1> QED
  BY <1>1, <1>2, <1>3, <1>4

\* An open invitation leads to a tenant that exists.
LEMMA Lookup ==
  ASSUME GovInv, NEW r \in Requests, NEW actor \in Users, NEW email \in Emails,
         NEW i \in Invitations, LookupInvitation(r, actor, email, i)
  PROVE  GovInv'
<1> DEFINE n == invitations[i].tenant
           q == [IdleRequest EXCEPT !.pc = "acceptExisting", !.actor = actor, !.tenant = n,
                                    !.item = i, !.email = email]
<1>1. n \in born /\ n \in Tenants
  BY Halves DEF LookupInvitation, Acceptable, TablesInv, TableTypes, InvitationShape
<1>2. req' = [req EXCEPT ![r] = q] /\ UNCHANGED tables
  BY DEF LookupInvitation
<1> HIDE DEF n
<1>3. /\ q \in Request /\ q.pc = "acceptExisting" /\ q.actor = actor /\ q.tenant = n
      /\ q.item = i /\ q.email = email
  BY <1>1, RowsTyped DEF Request, PCs, AcceptPCs
<1>4. "acceptExisting" \notin {"idle", "tenantOwner", "createMember"} \cup RolePCs \cup RemovePCs
                               \cup TransferPCs
  BY DEF RolePCs, RemovePCs, TransferPCs
<1> HIDE DEF q
<1> QED
  BY <1>1, <1>2, <1>3, <1>4, HandlerStarts, Halves

-----------------------------------------------------------------------------
(* Statements that write. *)

\* A new account is inserted, and the handler remembers it as its target.
LEMMA CreateUserRowStep ==
  ASSUME GovInv, NEW r \in Requests, CreateUserRow(r)
  PROVE  GovInv'
<1>1. PICK u \in Users :
        /\ user[u] = "free" /\ user' = [user EXCEPT ![u] = "present"]
        /\ req' = [req EXCEPT ![r] = [req[r] EXCEPT !.pc = "createMember", !.target = u]]
  BY DEF CreateUserRow
<1>2. UNCHANGED <<born, lock, role, invitations, transfers, joined, tenure>> /\ At(r, "createUser")
  BY DEF CreateUserRow
<1>3. TablesInv'
  BY <1>1, <1>2, Halves, AccountOrLock DEF TablesInv, TableTypes
<1> DEFINE q == [req[r] EXCEPT !.pc = "createMember", !.target = u]
<1>4. /\ q \in Request /\ q.pc = "createMember" /\ q.target = u
      /\ q.actor = req[r].actor /\ q.tenant = req[r].tenant
  BY Established DEF Request, PCs, CreatePCs
<1>5. /\ req' \in [Requests -> Request] /\ req'[r] = q
      /\ \A s \in Requests \ {r} : Same(s)
  BY <1>1, <1>4, Halves DEF HandlersInv, Same
<1> HIDE DEF q
<1>6. HandlerShape(r)'
  BY <1>2, <1>4, <1>5, Established DEF HandlerShape, At, RolePCs, RemovePCs, TransferPCs, AcceptPCs
<1>7. \A s \in Requests \ {r} : At(s, "tenantOwner") => tenure'[req[s].tenant] = 0
  BY <1>2, Halves DEF HandlersInv, HandlerShape
<1>8. HandlersInv'
  BY <1>2, <1>4, <1>5, <1>6, <1>7, Halves, HandlersMove, {r} \in SUBSET Requests
<1> QED
  BY <1>3, <1>8, HalvesNext

\* The new account becomes a member.
LEMMA CreateMembershipStep ==
  ASSUME GovInv, NEW r \in Requests, CreateMembership(r)
  PROVE  GovInv'
<1> DEFINE u == req[r].target
           n == req[r].tenant
<1>1. u \in Users /\ n \in born /\ n \in Tenants
  BY Established DEF CreateMembership, At
<1>2. UNCHANGED <<user, born, lock, invitations, transfers, joined, tenure>>
  BY DEF CreateMembership
<1>3. TablesInv'
  <2>1. CASE CanInsertMember(u, n)
    <3>1. role' = [role EXCEPT ![u][n] = "member"] /\ user[u] = "present"
      BY <2>1 DEF CreateMembership, CanInsertMember, InsertMember
    <3>2. "member" \in Roles \ {"owner"} /\ joined' \in [Invitations -> Admissions]
      BY <1>2, Halves DEF Roles, TablesInv, TableTypes
    <3> QED
      BY <3>1, <3>2, <1>1, <1>2, Halves, MembershipWritten
  <2>2. CASE ~CanInsertMember(u, n)
    BY <2>2, <1>2, Halves, TablesUnchanged DEF CreateMembership, tables
  <2> QED
    BY <2>1, <2>2
<1>4. Finish(r) \/ req' = [Marked(Targeting(u), "joined") EXCEPT ![r] = IdleRequest]
  BY DEF CreateMembership
<1>5. HandlersInv'
  BY <1>2, <1>4, Halves, HandlerEnds
<1> QED
  BY <1>3, <1>5, HalvesNext

\* The change of role never makes an owner.
LEMMA RoleUpdateStep ==
  ASSUME GovInv, NEW r \in Requests, RoleUpdate(r)
  PROVE  GovInv'
<1> DEFINE u == req[r].target
           n == req[r].tenant
<1>1. u \in Users /\ n \in born /\ n \in Tenants
  BY Established DEF RoleUpdate, At, RolePCs
<1>2. UNCHANGED <<user, born, lock, invitations, transfers, joined, tenure>>
  BY DEF RoleUpdate
<1>3. TablesInv'
  <2>1. CASE role[u][n] = "none"
    BY <2>1, <1>2, Halves, TablesUnchanged DEF RoleUpdate, tables
  <2>2. CASE role[u][n] # "none"
    <3>1. PICK next \in {"admin", "member"} : role' = [role EXCEPT ![u][n] = next]
      BY <2>2 DEF RoleUpdate
    <3>2. next \in Roles \ {"owner"}
      BY DEF Roles
    <3>3. user[u] = "present" /\ joined' \in [Invitations -> Admissions]
      BY <2>2, <1>1, <1>2, Halves DEF TablesInv, TableTypes, ForeignKeys
    <3> QED
      BY <3>1, <3>2, <3>3, <1>1, <1>2, Halves, MembershipWritten
  <2> QED
    BY <2>1, <2>2
<1>4. HandlersInv'
  BY <1>2, Halves, HandlerEnds DEF RoleUpdate
<1> QED
  BY <1>3, <1>4, HalvesNext

\* The removal of a membership, and the deletion of its account.
LEMMA RemovalSteps ==
  ASSUME GovInv, NEW r \in Requests, RemoveMember(r) \/ RemoveUser(r)
  PROVE  GovInv'
<1>1. CASE RemoveMember(r)
  <2>1. req[r].target \in Users /\ req[r].tenant \in Tenants
    BY <1>1, Established DEF RemoveMember, At, RemovePCs
  <2>2. TablesInv'
    <3>1. "none" \in Roles \ {"owner"} /\ joined' \in [Invitations -> Admissions]
      BY <1>1, Halves DEF RemoveMember, Roles, TablesInv, TableTypes
    <3> QED
      BY <1>1, <2>1, <3>1, Halves, MembershipWritten DEF RemoveMember
  <2>3. HandlersInv'
    BY <1>1, <2>1, Halves, HandlerGoes
       DEF RemoveMember, At, PCs, RemovePCs, AcceptPCs, TransferPCs
  <2> QED
    BY <2>2, <2>3, HalvesNext
<1>2. CASE RemoveUser(r)
  <2>1. req[r].target \in Users
    BY <1>2, Established DEF RemoveUser, At, RemovePCs
  <2>2. TablesInv'
    BY <1>2, <2>1, Halves, AccountDeleted DEF RemoveUser
  <2>3. HandlersInv'
    BY <1>2, Halves, HandlerEnds DEF RemoveUser, DeleteUserRow
  <2> QED
    BY <2>2, <2>3, HalvesNext
<1> QED
  BY <1>1, <1>2

\* An invitation is made, accepted, marked as used.
LEMMA InsertInvitationStep ==
  ASSUME GovInv, NEW r \in Requests, InsertInvitation(r)
  PROVE  GovInv'
<1>1. req[r].tenant \in born /\ req[r].tenant \in Tenants /\ req[r].actor \in Users
  BY Established DEF InsertInvitation, At
<1>2. UNCHANGED <<user, born, lock, role, transfers, joined, tenure>>
  BY DEF InsertInvitation
<1>3. invitations' \in [Invitations -> InvitationRow] /\ InvitationShape'
  <2>1. CASE UNCHANGED invitations
    BY <2>1, <1>2, Halves DEF TablesInv, TableTypes, InvitationShape
  <2>2. ASSUME NEW i \in Invitations, NEW bound \in Emails \cup {None},
               invitations' = [invitations EXCEPT ![i] =
                 [status |-> "open", tenant |-> req[r].tenant, inviter |-> req[r].actor,
                  bound |-> bound, expired |-> FALSE]]
        PROVE  invitations' \in [Invitations -> InvitationRow] /\ InvitationShape'
    <3> DEFINE row == [status |-> "open", tenant |-> req[r].tenant, inviter |-> req[r].actor,
                       bound |-> bound, expired |-> FALSE]
    <3>1. row \in InvitationRow /\ row.tenant \in born
      BY <1>1 DEF InvitationRow
    <3> HIDE DEF row
    <3>2. /\ invitations' \in [Invitations -> InvitationRow] /\ invitations'[i] = row
          /\ \A j \in Invitations \ {i} : invitations'[j] = invitations[j]
      BY <2>2, <3>1, Halves DEF TablesInv, TableTypes, row
    <3> QED
      BY <3>1, <3>2, <1>2, Halves DEF TablesInv, InvitationShape
  <2> QED
    BY <2>1, <2>2 DEF InsertInvitation
<1>4. TablesInv'
  BY <1>2, <1>3, Halves, InvitationsWritten
<1>5. HandlersInv'
  BY <1>2, Halves, HandlerEnds DEF InsertInvitation
<1> QED
  BY <1>4, <1>5, HalvesNext

\* The one who accepts becomes a member.
LEMMA AcceptJoinStep ==
  ASSUME GovInv, NEW r \in Requests, AcceptJoin(r)
  PROVE  GovInv'
<1> DEFINE u == req[r].actor
           n == req[r].tenant
<1>1. /\ u \in Users /\ n \in born /\ n \in Tenants /\ req[r].item \in Invitations
      /\ req[r].email \in Emails
  BY Established DEF AcceptJoin, At, AcceptPCs
<1>2. UNCHANGED <<user, born, lock, invitations, transfers, tenure>> /\ At(r, "acceptJoin")
  BY DEF AcceptJoin
<1>3. CASE CanInsertMember(u, n)
  <2>1. /\ role' = [role EXCEPT ![u][n] = "member"]
        /\ joined' = [joined EXCEPT ![req[r].item] = Admitting(@, u, req[r].email)]
        /\ req' = [Marked(Targeting(u), "joined") EXCEPT ![r].pc = "acceptSpend"]
    BY <1>3 DEF AcceptJoin, InsertMember
  <2>2. joined' \in [Invitations -> Admissions]
    BY <1>1, <2>1, Halves DEF TablesInv, TableTypes, Admissions, Admitting
  <2>3. TablesInv'
    <3>1. "member" \in Roles \ {"owner"} /\ user[u] = "present"
      BY <1>3 DEF CanInsertMember, Roles
    <3>2. role' = [role EXCEPT ![u][n] = "member"]
      BY <2>1
    <3> QED
      BY <1>1, <1>2, <2>2, <3>1, <3>2, Halves, MembershipWritten
  <2>4. HandlersInv'
    BY <1>1, <1>2, <2>1, Halves, HandlerGoes
       DEF At, PCs, AcceptPCs, RolePCs, RemovePCs, TransferPCs
  <2> QED
    BY <2>3, <2>4, HalvesNext
<1>4. CASE ~CanInsertMember(u, n)
  BY <1>2, <1>4, QuietEnd DEF AcceptJoin, tables
<1> QED
  BY <1>3, <1>4

\* Marking an invitation, as used or expired, does not open it.
LEMMA InvitationMarked ==
  ASSUME TablesInv, NEW i \in Invitations,
         UNCHANGED <<user, born, lock, role, transfers, joined, tenure>>,
         \/ invitations' = invitations
         \/ invitations' = [invitations EXCEPT ![i].status = "spent"]
         \/ invitations' = [invitations EXCEPT ![i].expired = TRUE]
  PROVE  TablesInv'
<1>1. invitations \in [Invitations -> InvitationRow]
  BY DEF TablesInv, TableTypes
<1>2. /\ invitations' \in [Invitations -> InvitationRow]
      /\ \A j \in Invitations : /\ invitations'[j].tenant = invitations[j].tenant
                                /\ invitations'[j].status \in {invitations[j].status, "spent"}
  <2>1. invitations[i] \in InvitationRow
    BY <1>1
  <2>2. CASE invitations' = invitations
    BY <1>1, <2>2
  <2>3. CASE invitations' = [invitations EXCEPT ![i].status = "spent"]
    BY <1>1, <2>1, <2>3 DEF InvitationRow
  <2>4. CASE invitations' = [invitations EXCEPT ![i].expired = TRUE]
    BY <1>1, <2>1, <2>4 DEF InvitationRow
  <2> QED
    BY <2>2, <2>3, <2>4
<1>3. InvitationShape'
  BY <1>2 DEF TablesInv, InvitationShape
<1> QED
  BY <1>2, <1>3, InvitationsWritten

\* The invitation is marked as used.
LEMMA AcceptSpendStep ==
  ASSUME GovInv, NEW r \in Requests, AcceptSpend(r)
  PROVE  GovInv'
<1>1. req[r].item \in Invitations
  BY Established DEF AcceptSpend, At, AcceptPCs
<1>2. TablesInv'
  BY <1>1, Halves, InvitationMarked DEF AcceptSpend
<1>3. HandlersInv'
  BY Halves, HandlerEnds DEF AcceptSpend
<1> QED
  BY <1>2, <1>3, HalvesNext

\* A handler dies; what it may leave behind is noted of its invitation.
LEMMA CrashStep ==
  ASSUME GovInv, NEW r \in Requests, Crash(r)
  PROVE  GovInv'
<1>1. UNCHANGED <<user, born, lock, role, invitations, transfers, tenure>>
  BY DEF Crash
<1>2. joined' \in [Invitations -> Admissions]
  <2>1. joined \in [Invitations -> Admissions]
    BY Halves DEF TablesInv, TableTypes
  <2>2. CASE At(r, "acceptSpend")
    <3>1. req[r].item \in Invitations
      BY <2>2, Established DEF At, AcceptPCs
    <3>2. [joined[req[r].item] EXCEPT !.died = TRUE] \in Admissions
      BY <2>1, <3>1 DEF Admissions
    <3> QED
      BY <2>1, <2>2, <3>1, <3>2 DEF Crash
  <2> QED
    BY <2>1, <2>2 DEF Crash
<1>3. TablesInv'
  BY <1>1, <1>2, Halves
     DEF TablesInv, TableTypes, ForeignKeys, TenureShape, InvitationShape, TransferShape,
         AtMostOneOwner, RequestsDieWithTenure
<1>4. HandlersInv'
  BY <1>1, Halves, HandlerEnds DEF Crash
<1> QED
  BY <1>3, <1>4, HalvesNext

\* A request for transfer belongs to the tenure in which its row is inserted.
LEMMA InsertTransferStep ==
  ASSUME GovInv, NEW r \in Requests, InsertTransfer(r)
  PROVE  GovInv'
<1> DEFINE n == req[r].tenant
<1>1. /\ n \in born /\ n \in Tenants /\ tenure[n] > 0 /\ tenure[n] \in Nat
      /\ req[r].actor \in Users /\ req[r].target \in Users
  BY Established, Halves
     DEF InsertTransfer, At, TransferPCs, HandlersInv, HandlerShape, TablesInv, TableTypes
<1>2. UNCHANGED <<user, born, lock, role, invitations, joined, tenure>>
  BY DEF InsertTransfer
<1>3. /\ transfers' \in [Transfers -> TransferRow]
      /\ TransferShape' /\ RequestsDieWithTenure'
  <2>1. CASE UNCHANGED transfers
    BY <2>1, <1>2, Halves DEF TablesInv, TableTypes, TransferShape, RequestsDieWithTenure
  <2>2. ASSUME NEW x \in Transfers,
               transfers' = [transfers EXCEPT ![x] =
                 [status |-> "pending", tenant |-> n, from |-> req[r].actor,
                  to |-> req[r].target, expired |-> FALSE, tenure |-> tenure[n]]]
        PROVE  /\ transfers' \in [Transfers -> TransferRow]
               /\ TransferShape' /\ RequestsDieWithTenure'
    <3> DEFINE row == [status |-> "pending", tenant |-> n, from |-> req[r].actor,
                       to |-> req[r].target, expired |-> FALSE, tenure |-> tenure[n]]
    <3>1. /\ row \in TransferRow /\ row.tenant = n /\ row.tenure = tenure[n]
          /\ row.from \in Users /\ row.to \in Users
      BY <1>1 DEF TransferRow
    <3>2. transfers' = [transfers EXCEPT ![x] = row]
      BY <2>2
    <3> HIDE DEF row
    <3>3. /\ transfers' \in [Transfers -> TransferRow] /\ transfers'[x] = row
          /\ \A y \in Transfers \ {x} : transfers'[y] = transfers[y]
      BY <3>1, <3>2, Halves DEF TablesInv, TableTypes
    <3>4. TransferShape'
      BY <1>1, <1>2, <3>1, <3>3, Halves DEF TablesInv, TransferShape
    <3>5. RequestsDieWithTenure'
      BY <1>2, <3>1, <3>3, Halves DEF TablesInv, RequestsDieWithTenure
    <3> QED
      BY <3>3, <3>4, <3>5
  <2> QED
    BY <2>1, <2>2 DEF InsertTransfer
<1>4. TablesInv'
  BY <1>2, <1>3, Halves, TransfersWritten
<1>5. HandlersInv'
  BY <1>2, Halves, HandlerEnds DEF InsertTransfer
<1> QED
  BY <1>4, <1>5, HalvesNext

\* A tenant is founded: it is nobody else's, for every handler's tenant existed before.
LEMMA InsertTenantStep ==
  ASSUME GovInv, NEW r \in Requests, NEW actor \in Users, NEW n \in Tenants,
         InsertTenant(r, actor, n)
  PROVE  GovInv'
<1> DEFINE q == [IdleRequest EXCEPT !.pc = "tenantOwner", !.actor = actor, !.tenant = n]
<1>1. /\ n \notin born /\ born' = born \cup {n} /\ req' = [req EXCEPT ![r] = q]
      /\ UNCHANGED <<user, lock, role, invitations, transfers, joined, tenure>>
  BY DEF InsertTenant, FreshTenant
<1>2. q \in Request /\ q.pc = "tenantOwner" /\ q.actor = actor /\ q.tenant = n
  BY RowsTyped DEF Request, PCs
<1> HIDE DEF q
<1>3. TablesInv'
  BY <1>1, Halves, TenantInserted
<1>4. /\ req' \in [Requests -> Request] /\ req'[r] = q
      /\ \A s \in Requests \ {r} : Same(s)
  BY <1>1, <1>2, Halves DEF HandlersInv, Same
<1>5. tenure[n] = 0
  BY <1>1, Halves DEF TablesInv, TenureShape
<1>6. ASSUME NEW s \in Requests PROVE HandlerShape(s)'
  <2>1. CASE s = r
    BY <2>1, <1>1, <1>2, <1>4, <1>5
       DEF HandlerShape, At, RolePCs, RemovePCs, TransferPCs, AcceptPCs
  <2>2. CASE s # r
    <3>1. Same(s) /\ HandlerShape(s)
      BY <2>2, <1>4, Halves DEF HandlersInv
    <3> QED
      BY <3>1, <1>1 DEF HandlerShape, At, Same
  <2> QED
    BY <2>1, <2>2
<1>7. \A s \in Requests \ {r} : At(s, "tenantOwner") => req[s].tenant # n
  BY <1>1, Halves DEF HandlersInv, HandlerShape, At
<1>8. OneFounder'
  BY <1>2, <1>4, <1>7, Halves DEF HandlersInv, OneFounder, Same, At
<1> QED
  BY <1>3, <1>4, <1>6, <1>8, HalvesNext DEF HandlersInv

\* The founder becomes the tenant's first owner, or the tenant stays without one.
LEMMA InsertOwnerStep ==
  ASSUME GovInv, NEW r \in Requests, InsertOwner(r)
  PROVE  GovInv'
<1> DEFINE u == req[r].actor
           n == req[r].tenant
<1>1. /\ u \in Users /\ n \in born /\ n \in Tenants /\ tenure[n] = 0 /\ At(r, "tenantOwner")
  BY Established, Halves DEF InsertOwner, At, HandlersInv, HandlerShape
<1>2. UNCHANGED <<user, born, lock, invitations, transfers, joined>>
  BY DEF InsertOwner
<1>3. CASE CanInsertMember(u, n)
  <2>1. /\ role' = [role EXCEPT ![u][n] = "owner"]
        /\ tenure' = [tenure EXCEPT ![n] = @ + 1]
        /\ req' = [Marked(Targeting(u), "joined") EXCEPT ![r] = IdleRequest]
    BY <1>3 DEF InsertOwner, InsertMember
  <2>2. TablesInv'
    BY <1>1, <1>2, <1>3, <2>1, Halves, OwnerInserted DEF CanInsertMember
  <2>3. \A m \in Tenants : tenure'[m] = IF m = n THEN 1 ELSE tenure[m]
    BY <1>1, <2>1, Halves DEF TablesInv, TableTypes
  <2>4. HandlersInv'
    <3>1. \A m \in Tenants :
            /\ tenure[m] > 0 => tenure'[m] > 0
            /\ tenure[m] = 0 => tenure'[m] = 0 \/ (At(r, "tenantOwner") /\ n = m)
      BY <1>1, <2>3
    <3>2. req' = [Marked(Targeting(u), "joined") EXCEPT ![r] = IdleRequest]
      BY <2>1
    <3> QED
      BY <1>2, <3>1, <3>2, Halves, HandlerEnds
  <2> QED
    BY <2>2, <2>4, HalvesNext
<1>4. CASE ~CanInsertMember(u, n)
  BY <1>2, <1>4, QuietEnd DEF InsertOwner, tables
<1> QED
  BY <1>3, <1>4

\* The locks are columns that nothing else in GovInv speaks of.
LEMMA LockSteps ==
  ASSUME GovInv,
         \/ \E r \in Requests : PatchLifecycle(r)
         \/ \E n \in Tenants : PlatformPatch(n)
  PROVE  GovInv'
<1>1. ASSUME NEW n \in Tenants, NEW set \in SUBSET Locks, NEW clear \in SUBSET Locks,
             lock' = [lock EXCEPT ![n] = LockAfter(n, set, clear)],
             UNCHANGED <<user, born, role, invitations, transfers, joined, tenure>>
      PROVE  TablesInv'
  <2>1. lock' \in [Tenants -> SUBSET Locks]
    BY <1>1, Halves DEF LockAfter, TablesInv, TableTypes
  <2>2. user' \in [Users -> {"free", "present", "gone"}]
    BY <1>1, Halves DEF TablesInv, TableTypes
  <2> QED
    BY <1>1, <2>1, <2>2, Halves, AccountOrLock
<1>2. ASSUME NEW r \in Requests, PatchLifecycle(r) PROVE GovInv'
  <2>1. req[r].tenant \in Tenants
    BY <1>2, Established DEF PatchLifecycle, At
  <2>2. PICK set \in SUBSET Locks, clear \in SUBSET Locks :
          /\ lock' = [lock EXCEPT ![req[r].tenant] = LockAfter(req[r].tenant, set, clear)]
          /\ req' = [AfterLocking(req[r].tenant, LockAfter(req[r].tenant, set, clear))
                        EXCEPT ![r] = IdleRequest]
    BY <1>2 DEF PatchLifecycle
  <2>3. UNCHANGED <<user, born, role, invitations, transfers, joined, tenure>>
    BY <1>2 DEF PatchLifecycle
  <2>4. TablesInv'
    BY <1>1, <2>1, <2>2, <2>3
  <2>5. HandlersInv'
    BY <2>2, <2>3, Halves, HandlerEnds DEF AfterLocking
  <2> QED
    BY <2>4, <2>5, HalvesNext
<1>3. ASSUME NEW n \in Tenants, PlatformPatch(n) PROVE GovInv'
  <2>1. PICK set \in SUBSET Locks, clear \in SUBSET {"suspended"} :
          /\ lock' = [lock EXCEPT ![n] = LockAfter(n, set, clear)]
          /\ req' = AfterLocking(n, LockAfter(n, set, clear))
    BY <1>3 DEF PlatformPatch
  <2>2. UNCHANGED <<user, born, role, invitations, transfers, joined, tenure>>
    BY <1>3 DEF PlatformPatch
  <2>3. clear \in SUBSET Locks
    BY DEF Locks
  <2>4. TablesInv'
    BY <1>1, <2>1, <2>2, <2>3
  <2>5. HandlersInv'
    BY <2>1, <2>2, Halves, NobodyMoves DEF AfterLocking
  <2> QED
    BY <2>4, <2>5, HalvesNext
<1> QED
  BY <1>2, <1>3

\* What happens without a handler: accounts come and go, time passes, a transfer is
\* confirmed.
LEMMA OtherSteps ==
  ASSUME GovInv,
         \/ \E u \in Users : SignUp(u) \/ DeleteAccount(u)
         \/ \E i \in Invitations : ExpireInvitation(i)
         \/ \E x \in Transfers : ConfirmTransfer(x) \/ ExpireTransfer(x)
  PROVE  GovInv'
<1>1. ASSUME NEW u \in Users, SignUp(u) PROVE GovInv'
  <2>1. TablesInv'
    BY <1>1, Halves, AccountOrLock DEF SignUp, TablesInv, TableTypes
  <2>2. HandlersInv'
    BY <1>1, Halves, NobodyMoves DEF SignUp
  <2> QED
    BY <2>1, <2>2, HalvesNext
<1>2. ASSUME NEW u \in Users, DeleteAccount(u) PROVE GovInv'
  <2>1. TablesInv'
    BY <1>2, Halves, AccountDeleted DEF DeleteAccount
  <2>2. HandlersInv'
    BY <1>2, Halves, NobodyMoves DEF DeleteAccount, DeleteUserRow
  <2> QED
    BY <2>1, <2>2, HalvesNext
<1>3. ASSUME NEW i \in Invitations, ExpireInvitation(i) PROVE GovInv'
  <2>1. TablesInv'
    BY <1>3, Halves, InvitationMarked DEF ExpireInvitation
  <2>2. HandlersInv'
    BY <1>3, Halves, NobodyMoves DEF ExpireInvitation
  <2> QED
    BY <2>1, <2>2, HalvesNext
<1>4. ASSUME NEW x \in Transfers, ConfirmTransfer(x) PROVE GovInv'
  <2>1. TablesInv'
    BY <1>4, Halves, Confirmed
  <2>2. transfers[x].tenant \in Tenants /\ tenure[transfers[x].tenant] > 0
    BY <1>4, Halves DEF ConfirmTransfer, Confirmable, TablesInv, TableTypes, TransferShape
  <2>3. tenure' = [tenure EXCEPT ![transfers[x].tenant] = @ + 1] /\ UNCHANGED born
    BY <1>4 DEF ConfirmTransfer
  <2>4. \A n \in Tenants : /\ tenure[n] > 0 => tenure'[n] > 0
                           /\ tenure[n] = 0 => tenure'[n] = 0
    BY <2>2, <2>3, Halves DEF TablesInv, TableTypes
  <2>5. HandlersInv'
    BY <1>4, <2>3, <2>4, Halves, NobodyMoves DEF ConfirmTransfer
  <2> QED
    BY <2>1, <2>5, HalvesNext
<1>5. ASSUME NEW x \in Transfers, ExpireTransfer(x) PROVE GovInv'
  <2>1. transfers' = [transfers EXCEPT ![x].expired = TRUE]
        /\ UNCHANGED <<user, born, lock, role, invitations, joined, tenure, req>>
    BY <1>5 DEF ExpireTransfer
  <2>2. transfers \in [Transfers -> TransferRow]
    BY Halves DEF TablesInv, TableTypes
  <2>3. /\ transfers' \in [Transfers -> TransferRow]
        /\ \A y \in Transfers :
             /\ transfers'[y].status = transfers[y].status
             /\ transfers'[y].tenant = transfers[y].tenant
             /\ transfers'[y].from = transfers[y].from /\ transfers'[y].to = transfers[y].to
             /\ transfers'[y].tenure = transfers[y].tenure
    BY <2>1, <2>2 DEF TransferRow
  <2>4. TransferShape' /\ RequestsDieWithTenure'
    BY <2>1, <2>3, Halves DEF TablesInv, TransferShape, RequestsDieWithTenure
  <2>5. TablesInv'
    BY <2>1, <2>3, <2>4, Halves, TransfersWritten
  <2>6. HandlersInv'
    BY <2>1, Halves, NobodyMoves
  <2> QED
    BY <2>5, <2>6, HalvesNext
<1> QED
  BY <1>1, <1>2, <1>3, <1>4, <1>5

-----------------------------------------------------------------------------
(* The theorems. *)

\* GovInv is an invariant of the handlers, whatever their number and order.
THEOREM Invariance == Spec => []GovInv
<1>1. Init => GovInv
  BY InitInv
<1>2. GovInv /\ [Next]_vars => GovInv'
  <2> SUFFICES ASSUME GovInv, [Next]_vars PROVE GovInv'
    OBVIOUS
  <2>1. CASE UNCHANGED vars
    <3>1. UNCHANGED tables /\ UNCHANGED req
      BY <2>1 DEF vars, tables
    <3>2. HandlersInv'
      BY <3>1, Halves, NobodyMoves DEF tables
    <3> QED
      BY <3>1, <3>2, Halves, TablesUnchanged, HalvesNext
  <2>2. ASSUME NEW r \in Requests, Arrive(r) PROVE GovInv'
    BY <2>2, Beginnings, Lookup, InsertTenantStep DEF Arrive
  <2>3. ASSUME NEW r \in Requests, Resume(r) \/ Crash(r) PROVE GovInv'
    BY <2>3, ReadingSteps, CrashStep, CreateUserRowStep, CreateMembershipStep, RoleUpdateStep,
       RemovalSteps, InsertInvitationStep, AcceptJoinStep, AcceptSpendStep,
       InsertTransferStep, InsertOwnerStep, LockSteps DEF Resume
  <2> QED
    BY <2>1, <2>2, <2>3, OtherSteps, LockSteps DEF Next
<1> QED
  BY <1>1, <1>2, PTL DEF Spec

\* The tables keep their types and foreign keys.
THEOREM TypeCorrect == Spec => []TypeOK
<1>1. GovInv => TypeOK
  BY DEF GovInv
<1> QED
  BY <1>1, Invariance, PTL

\* A tenant never has two owners, and no write needs the unique index to ensure it.
THEOREM OneOwner == Spec => []AtMostOneOwner
<1>1. GovInv => AtMostOneOwner
  BY DEF GovInv
<1> QED
  BY <1>1, Invariance, PTL

\* A request for transfer cannot be confirmed after the tenure in which it was made.
THEOREM RequestsDie == Spec => []RequestsDieWithTenure
<1>1. GovInv => RequestsDieWithTenure
  BY DEF GovInv
<1> QED
  BY <1>1, Invariance, PTL

-----------------------------------------------------------------------------
(* What a step does to the handlers, for the properties of their histories. *)

\* The tables, without the history of admissions.
rows == <<user, born, lock, role, invitations, transfers, tenure>>

\* A handler that takes no step may have noted one.
Grows(s) == Same(s) /\ req[s].stale \subseteq req'[s].stale

\* A handler comes from one statement to another, for what it was asked.
Moves(r, from, to) ==
  /\ At(r, from) /\ req'[r].pc = to
  /\ req'[r].actor = req[r].actor /\ req'[r].tenant = req[r].tenant
  /\ req'[r].target = req[r].target /\ req'[r].item = req[r].item
  /\ req'[r].email = req[r].email /\ req[r].stale \subseteq req'[r].stale

\* What Marked does to a history.
LEMMA MarkedHistories ==
  ASSUME HandlersInv, NEW S, NEW what \in {"lock", "owner", "spent", "joined"}, NEW s \in Requests
  PROVE  /\ req[s].stale \subseteq Marked(S, what)[s].stale
         /\ s \in S => what \in Marked(S, what)[s].stale
<1>1. req[s] \in Request
  BY DEF HandlersInv
<1>2. CASE s \in S
  BY <1>1, <1>2 DEF Marked, Request
<1>3. CASE s \notin S
  BY <1>3 DEF Marked
<1> QED
  BY <1>2, <1>3

\* A step of nobody, noted or not.
LEMMA NobodyGrows ==
  ASSUME HandlersInv, NEW S, NEW what \in {"lock", "owner", "spent", "joined"},
         req' = req \/ req' = Marked(S, what), NEW s \in Requests
  PROVE  Grows(s)
  BY MarkedRows, MarkedHistories DEF Grows, Same

\* A handler takes a step; the others, at most, note it.
LEMMA OneGrows ==
  ASSUME HandlersInv, NEW S, NEW what \in {"lock", "owner", "spent", "joined"},
         NEW r \in Requests, NEW q,
         req' = [req EXCEPT ![r] = q] \/ req' = [Marked(S, what) EXCEPT ![r] = q]
  PROVE  /\ req'[r] = q
         /\ \A s \in Requests \ {r} : Grows(s)
<1>1. req \in [Requests -> Request] /\ Marked(S, what) \in [Requests -> Request]
  BY MarkedRows DEF HandlersInv
<1>2. CASE req' = [req EXCEPT ![r] = q]
  BY <1>1, <1>2 DEF Grows, Same
<1>3. CASE req' = [Marked(S, what) EXCEPT ![r] = q]
  <2>1. req'[r] = q /\ \A s \in Requests \ {r} : req'[s] = Marked(S, what)[s]
    BY <1>1, <1>3
  <2> QED
    BY <2>1, MarkedRows, MarkedHistories DEF Grows, Same
<1> QED
  BY <1>2, <1>3

\* A handler ends.
LEMMA EndGrows ==
  ASSUME HandlersInv, NEW S, NEW what \in {"lock", "owner", "spent", "joined"},
         NEW r \in Requests,
         Finish(r) \/ req' = [Marked(S, what) EXCEPT ![r] = IdleRequest]
  PROVE  /\ req'[r] = IdleRequest
         /\ \A s \in Requests \ {r} : Grows(s)
  BY OneGrows DEF Finish

\* A handler goes on.
LEMMA GoGrows ==
  ASSUME HandlersInv, NEW S, NEW what \in {"lock", "owner", "spent", "joined"},
         NEW r \in Requests, NEW from, NEW to, At(r, from),
         Goto(r, to) \/ req' = [Marked(S, what) EXCEPT ![r].pc = to]
  PROVE  /\ Moves(r, from, to)
         /\ \A s \in Requests \ {r} : Grows(s)
<1>1. CASE Goto(r, to)
  <2> DEFINE q == [req[r] EXCEPT !.pc = to]
  <2>1. /\ q.pc = to /\ q.actor = req[r].actor /\ q.tenant = req[r].tenant
        /\ q.target = req[r].target /\ q.item = req[r].item /\ q.email = req[r].email
        /\ q.stale = req[r].stale
    BY DEF HandlersInv, Request
  <2>2. req' = [req EXCEPT ![r] = q]
    BY <1>1 DEF Goto
  <2> HIDE DEF q
  <2> QED
    BY <2>1, <2>2, OneGrows DEF Moves
<1>2. CASE req' = [Marked(S, what) EXCEPT ![r].pc = to]
  <2> DEFINE q == [Marked(S, what)[r] EXCEPT !.pc = to]
  <2>1. Marked(S, what)[r] \in Request
    BY MarkedRows
  <2>2. /\ q.pc = to /\ q.actor = req[r].actor /\ q.tenant = req[r].tenant
        /\ q.target = req[r].target /\ q.item = req[r].item /\ q.email = req[r].email
        /\ req[r].stale \subseteq q.stale
    BY <2>1, MarkedRows, MarkedHistories DEF Request
  <2>3. req' = [Marked(S, what) EXCEPT ![r] = q]
    BY <1>2
  <2> HIDE DEF q
  <2>4. req'[r] = q /\ \A s \in Requests \ {r} : Grows(s)
    BY <2>3, OneGrows
  <2> QED
    BY <2>2, <2>4 DEF Moves
<1> QED
  BY <1>1, <1>2

\* What the statements that only read go by; a handler that dies writes no table either.
LEMMA Readings ==
  ASSUME GovInv, NEW r \in Requests,
         \/ CreateGuard(r) \/ RoleGuard(r) \/ RoleTarget(r) \/ RoleSelect(r)
         \/ RemoveTarget(r) \/ RemoveGuard(r) \/ RemoveCount(r) \/ InviteGuard(r)
         \/ AcceptExisting(r) \/ TransferFrom(r) \/ TransferTo(r) \/ Crash(r)
  PROVE  /\ UNCHANGED rows
         /\ \A s \in Requests \ {r} : Grows(s)
         /\ \/ req'[r] = IdleRequest
            \/ /\ ~Locked(req[r].tenant)
               /\ \/ Moves(r, "createGuard", "createUser") \/ Moves(r, "roleGuard", "roleTarget")
                  \/ Moves(r, "removeGuard", "removeMember")
                  \/ Moves(r, "inviteGuard", "inviteInsert")
            \/ /\ role[req[r].target][req[r].tenant] # "owner"
               /\ \/ Moves(r, "roleTarget", "roleSelect") \/ Moves(r, "roleSelect", "roleUpdate")
                  \/ Moves(r, "removeTarget", "removeGuard")
            \/ ~HasMembership(req[r].target) /\ Moves(r, "removeCount", "removeUser")
            \/ Moves(r, "acceptExisting", "acceptJoin")
            \/ Moves(r, "transferFrom", "transferTo")
            \/ req[r].target # req[r].actor /\ Moves(r, "transferTo", "transferInsert")
<1>1. UNCHANGED rows
  BY DEF CreateGuard, RoleGuard, RoleTarget, RoleSelect, RemoveTarget, RemoveGuard,
         RemoveCount, InviteGuard, AcceptExisting, TransferFrom, TransferTo, Crash,
         Guard, CheckTarget, tables, rows
<1>2. \/ Finish(r)
      \/ /\ ~Locked(req[r].tenant)
         /\ \/ At(r, "createGuard") /\ Goto(r, "createUser")
            \/ At(r, "roleGuard") /\ Goto(r, "roleTarget")
            \/ At(r, "removeGuard") /\ Goto(r, "removeMember")
            \/ At(r, "inviteGuard") /\ Goto(r, "inviteInsert")
      \/ /\ role[req[r].target][req[r].tenant] # "owner"
         /\ \/ At(r, "roleTarget") /\ Goto(r, "roleSelect")
            \/ At(r, "roleSelect") /\ Goto(r, "roleUpdate")
            \/ At(r, "removeTarget") /\ Goto(r, "removeGuard")
      \/ ~HasMembership(req[r].target) /\ At(r, "removeCount") /\ Goto(r, "removeUser")
      \/ At(r, "acceptExisting") /\ Goto(r, "acceptJoin")
      \/ At(r, "transferFrom") /\ Goto(r, "transferTo")
      \/ req[r].target # req[r].actor /\ At(r, "transferTo") /\ Goto(r, "transferInsert")
  BY DEF CreateGuard, RoleGuard, RoleTarget, RoleSelect, RemoveTarget, RemoveGuard,
         RemoveCount, InviteGuard, AcceptExisting, TransferFrom, TransferTo, Crash,
         Guard, CheckTarget, NotOwner
<1>3. ASSUME NEW from, NEW to, At(r, from), Goto(r, to)
      PROVE  Moves(r, from, to) /\ \A s \in Requests \ {r} : Grows(s)
  BY <1>3, Halves, GoGrows
<1>4. Finish(r) => req'[r] = IdleRequest /\ \A s \in Requests \ {r} : Grows(s)
  BY Halves, EndGrows
<1> QED
  BY <1>1, <1>2, <1>3, <1>4

\* A handler starts at its first statement, in its tenant.
LEMMA Starts ==
  ASSUME GovInv, NEW r \in Requests, NEW actor \in Users, NEW n \in Tenants,
         \/ BeginCreateUser(r, actor, n) \/ BeginInvite(r, actor, n) \/ BeginPatch(r, actor, n)
         \/ \E u \in Users :
              BeginSetRole(r, actor, n, u) \/ BeginRemove(r, actor, n, u)
                \/ BeginTransfer(r, actor, n, u)
  PROVE  /\ UNCHANGED tables
         /\ \A s \in Requests \ {r} : Grows(s)
         /\ req'[r].pc \in {"createGuard", "inviteGuard", "patchWrite", "roleGuard",
                            "removeTarget", "transferFrom"}
         /\ req'[r].tenant = n /\ role[actor][n] # "none" /\ At(r, "idle")
<1>1. PICK pc \in {"createGuard", "inviteGuard", "patchWrite", "roleGuard", "removeTarget",
                   "transferFrom"}, u \in Users \cup {None} :
        Begin(r, pc, actor, n, u) /\ role[actor][n] # "none"
  BY DEF BeginCreateUser, BeginInvite, BeginPatch, BeginSetRole, BeginRemove, BeginTransfer,
         Manages
<1> DEFINE q == [IdleRequest EXCEPT !.pc = pc, !.actor = actor, !.tenant = n, !.target = u]
<1>2. q.pc = pc /\ q.tenant = n
  BY DEF IdleRequest
<1>3. req' = [req EXCEPT ![r] = q] /\ UNCHANGED tables /\ At(r, "idle")
  BY <1>1 DEF Begin
<1> HIDE DEF q
<1>4. req'[r] = q /\ \A s \in Requests \ {r} : Grows(s)
  BY <1>3, Halves, OneGrows
<1> QED
  BY <1>1, <1>2, <1>3, <1>4

\* The founding of a tenant.
LEMMA Founding ==
  ASSUME GovInv, NEW r \in Requests, NEW actor \in Users, NEW n \in Tenants,
         InsertTenant(r, actor, n)
  PROVE  At(r, "idle") /\ req'[r].pc = "tenantOwner" /\ \A s \in Requests \ {r} : Grows(s)
<1> DEFINE q == [IdleRequest EXCEPT !.pc = "tenantOwner", !.actor = actor, !.tenant = n]
<1>1. q.pc = "tenantOwner"
  BY DEF IdleRequest
<1>2. req' = [req EXCEPT ![r] = q] /\ At(r, "idle")
  BY DEF InsertTenant
<1> HIDE DEF q
<1> QED
  BY <1>1, <1>2, Halves, OneGrows

\* The look at an invitation.
LEMMA LookedUp ==
  ASSUME GovInv, NEW r \in Requests, NEW actor \in Users, NEW email \in Emails,
         NEW i \in Invitations, LookupInvitation(r, actor, email, i)
  PROVE  /\ UNCHANGED tables /\ Acceptable(i, email) /\ invitations[i].status = "open"
         /\ At(r, "idle") /\ req'[r].pc = "acceptExisting" /\ req'[r].actor = actor
         /\ req'[r].item = i /\ req'[r].email = email /\ req'[r].tenant = invitations[i].tenant
         /\ \A s \in Requests \ {r} : Grows(s)
<1> DEFINE q == [IdleRequest EXCEPT !.pc = "acceptExisting", !.actor = actor,
                                    !.tenant = invitations[i].tenant, !.item = i,
                                    !.email = email]
<1>1. /\ q.pc = "acceptExisting" /\ q.actor = actor /\ q.item = i /\ q.email = email
      /\ q.tenant = invitations[i].tenant
  BY DEF IdleRequest
<1>2. req' = [req EXCEPT ![r] = q] /\ UNCHANGED tables /\ Acceptable(i, email) /\ At(r, "idle")
  BY DEF LookupInvitation
<1> HIDE DEF q
<1> QED
  BY <1>1, <1>2, Halves, OneGrows DEF Acceptable

-----------------------------------------------------------------------------
(* An invitation that admits is used up, and goes by the address it is bound to. *)

\* What the row of an invitation says of those it has admitted.
AdmissionRow(i) ==
  /\ invitations[i].status = "spent" => joined[i].who # {}
  /\ invitations[i].status = "free" => joined[i] = NoAdmission
  /\ invitations[i].bound # None => joined[i].addresses \subseteq {invitations[i].bound}

\* An open invitation that has admitted is about to be marked, or its handler died.
AdmissionMarked(i) ==
  invitations[i].status = "open" /\ joined[i].who # {} =>
    joined[i].died \/ \E r \in Requests : At(r, "acceptSpend") /\ req[r].item = i

\* A handler accepts an invitation that was made, with the address it is bound to, and marks
\* it as used after it has admitted somebody.
AdmissionHandler(r) ==
  req[r].pc \in AcceptPCs =>
    /\ invitations[req[r].item].status # "free"
    /\ invitations[req[r].item].bound \in {req[r].email, None}
    /\ At(r, "acceptSpend") => joined[req[r].item].who # {}

AdmissionInv ==
  /\ \A i \in Invitations : AdmissionRow(i) /\ AdmissionMarked(i)
  /\ \A r \in Requests : AdmissionHandler(r)

\* A handler that accepts after a step did so before, the same invitation with the same
\* address, and is about to mark it if and only if it was.
StillAccepts(s) ==
  /\ req'[s].pc \in AcceptPCs =>
       /\ req[s].pc \in AcceptPCs
       /\ req'[s].item = req[s].item /\ req'[s].email = req[s].email
  /\ At(s, "acceptSpend") <=> req'[s].pc = "acceptSpend"

\* An invitation is as it was, or its inviter's account is deleted.
StaysOrGoes(i) ==
  \/ invitations'[i].status = invitations[i].status /\ invitations'[i].bound = invitations[i].bound
  \/ invitations'[i].status = "gone" /\ invitations'[i].bound = None

\* The deletion of an account takes along the invitations it made.
LEMMA InvitationsGo ==
  ASSUME NEW u, DeleteUserRow(u)
  PROVE  UNCHANGED joined /\ \A i \in Invitations : StaysOrGoes(i)
  BY DEF DeleteUserRow, StaysOrGoes, FreeInvitation

\* Nobody starts to accept, nobody is admitted, no invitation is made or used.
LEMMA AdmissionKept ==
  ASSUME GovInv, AdmissionInv, UNCHANGED joined,
         \A s \in Requests : StillAccepts(s), \A i \in Invitations : StaysOrGoes(i)
  PROVE  AdmissionInv'
<1>1. ASSUME NEW i \in Invitations PROVE AdmissionRow(i)'
  BY DEF AdmissionInv, AdmissionRow, StaysOrGoes
<1>2. ASSUME NEW i \in Invitations PROVE AdmissionMarked(i)'
  <2> SUFFICES ASSUME invitations'[i].status = "open", joined[i].who # {}, ~joined[i].died
               PROVE  \E s \in Requests : req'[s].pc = "acceptSpend" /\ req'[s].item = i
    BY DEF AdmissionMarked, At
  <2>1. invitations[i].status = "open"
    BY DEF StaysOrGoes
  <2>2. PICK s \in Requests : At(s, "acceptSpend") /\ req[s].item = i
    BY <2>1 DEF AdmissionInv, AdmissionMarked
  <2> QED
    BY <2>2 DEF StillAccepts, AcceptPCs
<1>3. ASSUME NEW s \in Requests PROVE AdmissionHandler(s)'
  <2> SUFFICES ASSUME req'[s].pc \in AcceptPCs PROVE AdmissionHandler(s)'
    BY DEF AdmissionHandler
  <2>1. StillAccepts(s) /\ req[s].pc \in AcceptPCs /\ req[s].item \in Invitations
    BY Established DEF StillAccepts
  <2>2. AdmissionHandler(s) /\ StaysOrGoes(req[s].item)
    BY <2>1 DEF AdmissionInv
  <2> QED
    BY <2>1, <2>2 DEF AdmissionHandler, StillAccepts, StaysOrGoes, At
<1> QED
  BY <1>1, <1>2, <1>3 DEF AdmissionInv

\* A step of nobody, or of a handler that neither leaves nor comes to the statements of an
\* acceptance.
LEMMA GrowsStillAccepts ==
  ASSUME NEW s, Grows(s) \/ (~At(s, "acceptSpend") /\ req'[s].pc \notin AcceptPCs)
  PROVE  StillAccepts(s)
  BY DEF Grows, Same, StillAccepts, At, AcceptPCs

\* The handlers that are about to mark an invitation stay so when others take their step.
LEMMA MarkersStay ==
  ASSUME AdmissionInv, NEW r \in Requests, \A s \in Requests \ {r} : Grows(s),
         NEW j \in Invitations, invitations[j].status = "open", joined[j].who # {},
         ~(At(r, "acceptSpend") /\ req[r].item = j)
  PROVE  joined[j].died \/ \E s \in Requests : (At(s, "acceptSpend") /\ req[s].item = j)'
  BY DEF AdmissionInv, AdmissionMarked, Grows, Same, At

\* The invitation is read: it is open, and bound to no other address.
LEMMA AdmissionLookup ==
  ASSUME GovInv, AdmissionInv, NEW r \in Requests, NEW actor \in Users, NEW email \in Emails,
         NEW i \in Invitations, LookupInvitation(r, actor, email, i)
  PROVE  AdmissionInv'
<1>1. /\ UNCHANGED tables /\ Acceptable(i, email) /\ invitations[i].status = "open"
      /\ At(r, "idle") /\ req'[r].email = email /\ req'[r].item = i
      /\ req'[r].pc = "acceptExisting"
      /\ \A s \in Requests \ {r} : Grows(s)
  BY LookedUp
<1>2. \A j \in Invitations : AdmissionRow(j)'
  BY <1>1 DEF AdmissionInv, AdmissionRow, tables
<1>3. \A j \in Invitations : AdmissionMarked(j)'
  BY <1>1, MarkersStay DEF AdmissionMarked, At, tables
<1>4. AdmissionHandler(r)'
  BY <1>1 DEF AdmissionHandler, At, Acceptable, tables
<1>5. ASSUME NEW s \in Requests \ {r} PROVE AdmissionHandler(s)'
  BY <1>1 DEF AdmissionInv, AdmissionHandler, At, Grows, Same, tables
<1> QED
  BY <1>2, <1>3, <1>4, <1>5 DEF AdmissionInv

\* An invitation is made: nobody accepts it yet.
LEMMA AdmissionMade ==
  ASSUME GovInv, AdmissionInv, NEW r \in Requests, InsertInvitation(r)
  PROVE  AdmissionInv'
<1>1. /\ req'[r] = IdleRequest /\ (\A s \in Requests \ {r} : Grows(s)) /\ UNCHANGED joined
      /\ At(r, "inviteInsert")
  BY Halves, EndGrows DEF InsertInvitation
<1>2. \A s \in Requests : StillAccepts(s)
  BY <1>1, GrowsStillAccepts DEF IdleRequest, AcceptPCs, At
<1>3. CASE UNCHANGED invitations
  BY <1>1, <1>2, <1>3, AdmissionKept DEF StaysOrGoes
<1>4. ASSUME NEW i \in Invitations, NEW bound \in Emails \cup {None},
             invitations[i].status = "free",
             invitations' = [invitations EXCEPT ![i] =
               [status |-> "open", tenant |-> req[r].tenant, inviter |-> req[r].actor,
                bound |-> bound, expired |-> FALSE]]
      PROVE  AdmissionInv'
  <2>1. /\ invitations'[i].status = "open"
        /\ \A j \in Invitations \ {i} : invitations'[j] = invitations[j]
    BY <1>4, Halves DEF TablesInv, TableTypes
  <2>2. joined[i].who = {} /\ joined[i].addresses = {}
    BY <1>4 DEF AdmissionInv, AdmissionRow, NoAdmission
  <2>3. \A j \in Invitations : AdmissionRow(j)'
    BY <1>1, <2>1, <2>2 DEF AdmissionInv, AdmissionRow
  <2>4. \A j \in Invitations : AdmissionMarked(j)'
    BY <1>1, <2>1, <2>2, MarkersStay DEF AdmissionMarked, At
  <2>5. ASSUME NEW s \in Requests, req'[s].pc \in AcceptPCs PROVE AdmissionHandler(s)'
    <3>1. StillAccepts(s) /\ req[s].pc \in AcceptPCs /\ req[s].item \in Invitations
      BY <2>5, <1>2, Established DEF StillAccepts
    <3>2. AdmissionHandler(s) /\ req[s].item # i
      BY <3>1, <1>4 DEF AdmissionInv, AdmissionHandler
    <3> QED
      BY <1>1, <2>1, <3>1, <3>2 DEF AdmissionHandler, StillAccepts, At
  <2> QED
    BY <2>3, <2>4, <2>5 DEF AdmissionInv, AdmissionHandler
<1> QED
  BY <1>3, <1>4 DEF InsertInvitation

\* The caller is admitted with the address compared, and the handler is about to mark that.
LEMMA AdmissionJoin ==
  ASSUME GovInv, AdmissionInv, NEW r \in Requests, AcceptJoin(r)
  PROVE  AdmissionInv'
<1> DEFINE u == req[r].actor
           i == req[r].item
           email == req[r].email
<1>1. /\ At(r, "acceptJoin") /\ UNCHANGED invitations
      /\ i \in Invitations /\ AdmissionHandler(r) /\ AdmissionRow(i)
  BY Established DEF AcceptJoin, At, AcceptPCs, AdmissionInv
<1>2. CASE CanInsertMember(u, req[r].tenant)
  <2>1. /\ joined' = [joined EXCEPT ![i] = Admitting(@, u, email)]
        /\ req' = [Marked(Targeting(u), "joined") EXCEPT ![r].pc = "acceptSpend"]
    BY <1>2 DEF AcceptJoin
  <2>2. Moves(r, "acceptJoin", "acceptSpend") /\ \A s \in Requests \ {r} : Grows(s)
    BY <1>1, <2>1, Halves, GoGrows
  <2>3. /\ joined'[i].who = joined[i].who \cup {u}
        /\ joined'[i].addresses = joined[i].addresses \cup {email}
        /\ \A j \in Invitations \ {i} : joined'[j] = joined[j]
    BY <1>1, <2>1, Halves DEF TablesInv, TableTypes, Admissions, Admitting
  <2>4. invitations[i].status # "free" /\ invitations[i].bound \in {email, None}
    BY <1>1 DEF AdmissionHandler, At, AcceptPCs
  <2>5. \A j \in Invitations : AdmissionRow(j)'
    BY <1>1, <2>3, <2>4 DEF AdmissionInv, AdmissionRow
  <2>6. ASSUME NEW j \in Invitations PROVE AdmissionMarked(j)'
    <3>1. CASE j = i
      BY <3>1, <2>2 DEF AdmissionMarked, Moves, At
    <3>2. CASE j # i
      BY <3>2, <1>1, <2>2, <2>3, MarkersStay DEF AdmissionMarked, At
    <3> QED
      BY <3>1, <3>2
  <2>7. AdmissionHandler(r)'
    BY <1>1, <2>2, <2>3, <2>4 DEF AdmissionHandler, Moves
  <2>8. ASSUME NEW s \in Requests \ {r} PROVE AdmissionHandler(s)'
    <3>1. AdmissionHandler(s) /\ Same(s)
      BY <2>2 DEF AdmissionInv, Grows
    <3>2. req[s].pc \in AcceptPCs => req[s].item \in Invitations
      BY Established
    <3> QED
      BY <1>1, <2>3, <3>1, <3>2 DEF AdmissionHandler, Same, At
  <2> QED
    BY <2>5, <2>6, <2>7, <2>8 DEF AdmissionInv
<1>3. CASE ~CanInsertMember(u, req[r].tenant)
  <2>1. req'[r] = IdleRequest /\ (\A s \in Requests \ {r} : Grows(s)) /\ UNCHANGED joined
    BY <1>3, Halves, EndGrows DEF AcceptJoin
  <2>2. \A s \in Requests : StillAccepts(s)
    BY <1>1, <2>1, GrowsStillAccepts DEF IdleRequest, AcceptPCs, At
  <2> QED
    BY <1>1, <2>1, <2>2, AdmissionKept DEF StaysOrGoes
<1> QED
  BY <1>2, <1>3

\* The invitation that has admitted somebody is marked as used.
LEMMA AdmissionSpent ==
  ASSUME GovInv, AdmissionInv, NEW r \in Requests, AcceptSpend(r)
  PROVE  AdmissionInv'
<1> DEFINE i == req[r].item
<1>1. i \in Invitations /\ joined[i].who # {} /\ UNCHANGED joined
  BY Established DEF AcceptSpend, At, AcceptPCs, AdmissionInv, AdmissionHandler
<1>2. req'[r] = IdleRequest /\ \A s \in Requests \ {r} : Grows(s)
  BY Halves, EndGrows DEF AcceptSpend
<1>3. /\ \A j \in Invitations :
           /\ invitations'[j].bound = invitations[j].bound
           /\ invitations'[j].status = invitations[j].status
                \/ (j = i /\ invitations'[j].status = "spent")
      /\ invitations'[i].status # "open"
  <2>1. invitations \in [Invitations -> InvitationRow]
    BY Halves DEF TablesInv, TableTypes
  <2>2. \/ invitations' = invitations /\ invitations[i].status = "gone"
        \/ invitations' = [invitations EXCEPT ![i].status = "spent"]
    BY DEF AcceptSpend
  <2> QED
    BY <1>1, <2>1, <2>2 DEF InvitationRow
<1>4. \A j \in Invitations : AdmissionRow(j)'
  BY <1>1, <1>3 DEF AdmissionInv, AdmissionRow
<1>5. \A j \in Invitations : AdmissionMarked(j)'
  BY <1>1, <1>2, <1>3, MarkersStay DEF AdmissionMarked
<1>6. ASSUME NEW s \in Requests, req'[s].pc \in AcceptPCs PROVE AdmissionHandler(s)'
  <2>1. s # r /\ Same(s)
    BY <1>2, <1>6 DEF IdleRequest, AcceptPCs, Grows
  <2>2. AdmissionHandler(s) /\ req[s].item \in Invitations
    BY <1>6, <2>1, Established DEF AdmissionInv, Same
  <2> QED
    BY <1>1, <1>3, <2>1, <2>2 DEF AdmissionHandler, Same, At
<1> QED
  BY <1>4, <1>5, <1>6 DEF AdmissionInv, AdmissionHandler

\* A handler that dies before it marks its invitation leaves a note of that.
LEMMA AdmissionCrash ==
  ASSUME GovInv, AdmissionInv, NEW r \in Requests, Crash(r)
  PROVE  AdmissionInv'
<1>1. /\ req'[r] = IdleRequest /\ (\A s \in Requests \ {r} : Grows(s)) /\ UNCHANGED invitations
  BY Halves, EndGrows DEF Crash
<1>2. CASE ~At(r, "acceptSpend")
  BY <1>1, <1>2, GrowsStillAccepts, AdmissionKept DEF Crash, StaysOrGoes, IdleRequest, AcceptPCs
<1>3. CASE At(r, "acceptSpend")
  <2> DEFINE i == req[r].item
  <2>1. i \in Invitations /\ invitations[i].status # "free" /\ joined[i].who # {}
    BY <1>3, Established DEF At, AcceptPCs, AdmissionInv, AdmissionHandler
  <2>2. /\ joined'[i].who = joined[i].who /\ joined'[i].addresses = joined[i].addresses
        /\ joined'[i].died /\ \A j \in Invitations \ {i} : joined'[j] = joined[j]
    BY <1>3, <2>1, Halves DEF Crash, TablesInv, TableTypes, Admissions
  <2>3. \A j \in Invitations : AdmissionRow(j)'
    BY <1>1, <2>1, <2>2 DEF AdmissionInv, AdmissionRow
  <2>4. ASSUME NEW j \in Invitations PROVE AdmissionMarked(j)'
    <3>1. CASE j = i
      BY <3>1, <2>2 DEF AdmissionMarked
    <3>2. CASE j # i
      BY <3>2, <1>1, <2>2, MarkersStay DEF AdmissionMarked
    <3> QED
      BY <3>1, <3>2
  <2>5. ASSUME NEW s \in Requests, req'[s].pc \in AcceptPCs PROVE AdmissionHandler(s)'
    <3>1. s # r /\ Same(s)
      BY <1>1, <2>5 DEF IdleRequest, AcceptPCs, Grows
    <3>2. AdmissionHandler(s) /\ req[s].item \in Invitations
      BY <2>5, <3>1, Established DEF AdmissionInv, Same
    <3> QED
      BY <1>1, <2>2, <3>1, <3>2 DEF AdmissionHandler, Same, At
  <2> QED
    BY <2>3, <2>4, <2>5 DEF AdmissionInv, AdmissionHandler
<1> QED
  BY <1>2, <1>3

\* The other statements of a handler neither make an invitation nor admit by one.
LEMMA AdmissionHandlerSteps ==
  ASSUME GovInv, AdmissionInv, NEW r \in Requests, Resume(r) \/ Crash(r)
  PROVE  AdmissionInv'
<1>1. CASE \/ CreateGuard(r) \/ RoleGuard(r) \/ RoleTarget(r) \/ RoleSelect(r)
           \/ RemoveTarget(r) \/ RemoveGuard(r) \/ RemoveCount(r) \/ InviteGuard(r)
           \/ AcceptExisting(r) \/ TransferFrom(r) \/ TransferTo(r)
  <2>1. UNCHANGED <<invitations, joined>> /\ ~At(r, "acceptSpend")
    BY <1>1
       DEF CreateGuard, RoleGuard, RoleTarget, RoleSelect, RemoveTarget, RemoveGuard, RemoveCount,
           InviteGuard, AcceptExisting, TransferFrom, TransferTo, Guard, CheckTarget, tables, At
  <2>2. StillAccepts(r) /\ \A s \in Requests \ {r} : Grows(s)
    BY <1>1, <2>1, Readings DEF StillAccepts, Moves, IdleRequest, AcceptPCs, At
  <2> QED
    BY <2>1, <2>2, GrowsStillAccepts, AdmissionKept DEF StaysOrGoes
<1>2. CASE CreateUserRow(r)
  <2>1. PICK u \in Users :
          req' = [req EXCEPT ![r] = [req[r] EXCEPT !.pc = "createMember", !.target = u]]
    BY <1>2 DEF CreateUserRow
  <2>2. [req[r] EXCEPT !.pc = "createMember", !.target = u].pc = "createMember"
    BY Established DEF Request
  <2>3. req'[r].pc = "createMember" /\ \A s \in Requests \ {r} : Grows(s)
    BY <2>1, <2>2, Halves, OneGrows
  <2>4. UNCHANGED <<invitations, joined>> /\ ~At(r, "acceptSpend")
    BY <1>2 DEF CreateUserRow, At
  <2> QED
    BY <2>3, <2>4, GrowsStillAccepts, AdmissionKept DEF StaysOrGoes, AcceptPCs
<1>3. CASE \/ CreateMembership(r) \/ RoleUpdate(r) \/ InsertTransfer(r) \/ InsertOwner(r)
           \/ PatchLifecycle(r)
  <2>1. \/ Finish(r)
        \/ \E S \in SUBSET Requests, what \in {"lock", "owner", "spent", "joined"} :
             req' = [Marked(S, what) EXCEPT ![r] = IdleRequest]
    BY <1>3 DEF CreateMembership, RoleUpdate, InsertTransfer, InsertOwner, PatchLifecycle,
                AfterLocking, Targeting
  <2>2. req'[r] = IdleRequest /\ \A s \in Requests \ {r} : Grows(s)
    BY <2>1, Halves, EndGrows
  <2>3. UNCHANGED <<invitations, joined>> /\ ~At(r, "acceptSpend")
    BY <1>3 DEF CreateMembership, RoleUpdate, InsertTransfer, InsertOwner, PatchLifecycle, At
  <2> QED
    BY <2>2, <2>3, GrowsStillAccepts, AdmissionKept DEF StaysOrGoes, IdleRequest, AcceptPCs
<1>4. CASE RemoveMember(r)
  <2>1. Moves(r, "removeMember", "removeCount") /\ \A s \in Requests \ {r} : Grows(s)
    BY <1>4, Halves, GoGrows DEF RemoveMember
  <2>2. UNCHANGED <<invitations, joined>>
    BY <1>4 DEF RemoveMember
  <2> QED
    BY <2>1, <2>2, GrowsStillAccepts, AdmissionKept DEF StaysOrGoes, Moves, AcceptPCs, At
<1>5. CASE RemoveUser(r)
  <2>1. req'[r] = IdleRequest /\ \A s \in Requests \ {r} : Grows(s)
    BY <1>5, Halves, EndGrows DEF RemoveUser
  <2>2. UNCHANGED joined /\ ~At(r, "acceptSpend") /\ \A i \in Invitations : StaysOrGoes(i)
    BY <1>5, InvitationsGo DEF RemoveUser, At
  <2> QED
    BY <2>1, <2>2, GrowsStillAccepts, AdmissionKept DEF IdleRequest, AcceptPCs
<1> QED
  BY <1>1, <1>2, <1>3, <1>4, <1>5, AdmissionMade, AdmissionJoin, AdmissionSpent, AdmissionCrash
     DEF Resume

\* What happens without a handler.
LEMMA AdmissionOtherSteps ==
  ASSUME GovInv, AdmissionInv,
         \/ UNCHANGED vars
         \/ \E u \in Users : SignUp(u) \/ DeleteAccount(u)
         \/ \E i \in Invitations : ExpireInvitation(i)
         \/ \E x \in Transfers : ConfirmTransfer(x) \/ ExpireTransfer(x)
         \/ \E n \in Tenants : PlatformPatch(n)
  PROVE  AdmissionInv'
<1>1. ASSUME NEW s \in Requests PROVE StillAccepts(s)
  <2>1. \/ req' = req
        \/ \E S \in SUBSET Requests, what \in {"lock", "owner", "spent", "joined"} :
             req' = Marked(S, what)
    BY DEF vars, SignUp, DeleteAccount, ExpireInvitation, ConfirmTransfer, ExpireTransfer,
           PlatformPatch, AfterLocking, Targeting
  <2> QED
    BY <2>1, Halves, NobodyGrows, GrowsStillAccepts
<1>2. UNCHANGED joined
  BY DEF vars, SignUp, DeleteAccount, DeleteUserRow, ExpireInvitation, ConfirmTransfer,
         ExpireTransfer, PlatformPatch
<1>3. \A i \in Invitations : StaysOrGoes(i)
  <2>1. CASE UNCHANGED invitations
    BY <2>1 DEF StaysOrGoes
  <2>2. ASSUME NEW u \in Users, DeleteAccount(u) PROVE \A i \in Invitations : StaysOrGoes(i)
    BY <2>2, InvitationsGo DEF DeleteAccount
  <2>3. ASSUME NEW i \in Invitations, ExpireInvitation(i)
        PROVE  \A j \in Invitations : StaysOrGoes(j)
    BY <2>3, Halves DEF ExpireInvitation, StaysOrGoes, TablesInv, TableTypes, InvitationRow
  <2> QED
    BY <2>1, <2>2, <2>3 DEF vars, SignUp, ConfirmTransfer, ExpireTransfer, PlatformPatch
<1> QED
  BY <1>1, <1>2, <1>3, AdmissionKept

\* A handler starts: only the look at an invitation leads to its acceptance.
LEMMA AdmissionStarts ==
  ASSUME GovInv, AdmissionInv, NEW r \in Requests, Arrive(r)
  PROVE  AdmissionInv'
<1>1. PICK actor \in Users :
        \/ \E n \in Tenants :
             \/ BeginCreateUser(r, actor, n) \/ BeginInvite(r, actor, n)
             \/ BeginPatch(r, actor, n) \/ InsertTenant(r, actor, n)
             \/ \E u \in Users :
                  BeginSetRole(r, actor, n, u) \/ BeginRemove(r, actor, n, u)
                    \/ BeginTransfer(r, actor, n, u)
        \/ \E i \in Invitations, email \in Emails : LookupInvitation(r, actor, email, i)
  BY DEF Arrive
<1>2. ASSUME NEW n \in Tenants,
             \/ BeginCreateUser(r, actor, n) \/ BeginInvite(r, actor, n)
             \/ BeginPatch(r, actor, n)
             \/ \E u \in Users :
                  BeginSetRole(r, actor, n, u) \/ BeginRemove(r, actor, n, u)
                    \/ BeginTransfer(r, actor, n, u)
      PROVE  AdmissionInv'
  <2>1. /\ UNCHANGED tables /\ \A s \in Requests \ {r} : Grows(s)
        /\ req'[r].pc \notin AcceptPCs /\ ~At(r, "acceptSpend")
    BY <1>2, Starts DEF AcceptPCs, At
  <2> QED
    BY <2>1, GrowsStillAccepts, AdmissionKept DEF StaysOrGoes, tables
<1>3. ASSUME NEW n \in Tenants, InsertTenant(r, actor, n) PROVE AdmissionInv'
  <2>1. /\ req'[r].pc = "tenantOwner" /\ ~At(r, "acceptSpend")
        /\ \A s \in Requests \ {r} : Grows(s)
    BY <1>3, Founding DEF At
  <2>2. UNCHANGED <<invitations, joined>>
    BY <1>3 DEF InsertTenant
  <2> QED
    BY <2>1, <2>2, GrowsStillAccepts, AdmissionKept DEF StaysOrGoes, AcceptPCs
<1> QED
  BY <1>1, <1>2, <1>3, AdmissionLookup

\* AdmissionInv holds initially, and every step keeps it.
LEMMA AdmissionInvariance == Spec => []AdmissionInv
<1>1. Init => AdmissionInv
  BY DEF Init, AdmissionInv, AdmissionRow, AdmissionMarked, AdmissionHandler, FreeInvitation,
         NoAdmission, IdleRequest, AcceptPCs
<1>2. GovInv /\ AdmissionInv /\ [Next]_vars => AdmissionInv'
  BY AdmissionStarts, AdmissionHandlerSteps, AdmissionOtherSteps DEF Next
<1> QED
  BY <1>1, <1>2, Invariance, PTL DEF Spec

\* However handlers interleave and die, an invitation that has admitted somebody is marked as
\* used, or about to be, or was left open by a handler that died; none is marked that admitted
\* nobody; and a bound one admits only callers whose session showed its address.
THEOREM InvitationsUsedUp == Spec => []AdmissionUsesInvitation
<1>1. AdmissionInv => AdmissionUsesInvitation
  BY DEF AdmissionInv, AdmissionRow, AdmissionMarked, AdmissionUsesInvitation
<1> QED
  BY <1>1, AdmissionInvariance, PTL

-----------------------------------------------------------------------------
(* Nobody is in a tenant before its founder owns it. *)

\* A tenant has had an owner when somebody is a member, is invited or acts in it.
Started ==
  /\ \A u \in Users, n \in Tenants : role[u][n] # "none" => tenure[n] > 0
  /\ \A i \in Invitations :
       invitations[i].status = "open" => tenure[invitations[i].tenant] > 0
  /\ \A r \in Requests :
       req[r].pc \notin {"idle", "tenantOwner"} => tenure[req[r].tenant] > 0

\* A handler that acts in a tenant after a step did so before, or may start to.
StillActs(s) ==
  req'[s].pc \notin {"idle", "tenantOwner"} =>
    \/ req[s].pc \notin {"idle", "tenantOwner"} /\ req'[s].tenant = req[s].tenant
    \/ req'[s].tenant \in Tenants /\ tenure[req'[s].tenant] > 0

\* Members, open invitations and handlers of a started tenant may be added.
LEMMA StartedKept ==
  ASSUME GovInv, Started,
         \A n \in Tenants : tenure[n] > 0 => tenure'[n] > 0,
         \A u \in Users, n \in Tenants :
           role'[u][n] # "none" => role[u][n] # "none" \/ tenure'[n] > 0,
         \A i \in Invitations : invitations'[i].status = "open" =>
           \/ invitations[i].status = "open" /\ invitations'[i].tenant = invitations[i].tenant
           \/ invitations'[i].tenant \in Tenants /\ tenure[invitations'[i].tenant] > 0,
         \A s \in Requests : StillActs(s)
  PROVE  Started'
<1>1. \A u \in Users, n \in Tenants : role'[u][n] # "none" => tenure'[n] > 0
  BY DEF Started
<1>2. \A i \in Invitations :
        invitations'[i].status = "open" => tenure'[invitations'[i].tenant] > 0
  BY Halves DEF Started, TablesInv, TableTypes, InvitationShape
<1>3. ASSUME NEW s \in Requests, req'[s].pc \notin {"idle", "tenantOwner"}
      PROVE  tenure'[req'[s].tenant] > 0
  <2>1. CASE req[s].pc \notin {"idle", "tenantOwner"} /\ req'[s].tenant = req[s].tenant
    BY <2>1, Established DEF Started, At
  <2>2. CASE req'[s].tenant \in Tenants /\ tenure[req'[s].tenant] > 0
    BY <2>2
  <2> QED
    BY <1>3, <2>1, <2>2 DEF StillActs
<1> QED
  BY <1>1, <1>2, <1>3 DEF Started

\* A step of nobody, or of a handler that comes from elsewhere in its tenant or ends.
LEMMA GrowsStillActs ==
  ASSUME NEW s,
         \/ Grows(s)
         \/ req'[s].pc \in {"idle", "tenantOwner"}
         \/ req[s].pc \notin {"idle", "tenantOwner"} /\ req'[s].tenant = req[s].tenant
  PROVE  StillActs(s)
  BY DEF Grows, Same, StillActs

\* The handlers of a tenant that has started.
LEMMA ActsInStarted ==
  ASSUME GovInv, Started, NEW r \in Requests, req[r].pc \notin {"idle", "tenantOwner"}
  PROVE  req[r].tenant \in Tenants /\ tenure[req[r].tenant] > 0
  BY Established DEF Started, At

\* A statement that writes at most one membership.
LEMMA OneMembership ==
  ASSUME GovInv, NEW u \in Users, NEW n \in Tenants,
         UNCHANGED role \/ \E ro \in Roles : role' = [role EXCEPT ![u][n] = ro]
  PROVE  \A v \in Users, m \in Tenants : role'[v][m] = role[v][m] \/ (v = u /\ m = n)
<1>1. ASSUME NEW ro \in Roles, role' = [role EXCEPT ![u][n] = ro]
      PROVE  \A v \in Users, m \in Tenants : role'[v][m] = role[v][m] \/ (v = u /\ m = n)
  BY <1>1, Halves, RoleWritten DEF TablesInv, TableTypes
<1> QED
  BY <1>1

\* The transfer of ownership changes who owns, and not who is a member.
LEMMA OwnershipPasses ==
  ASSUME GovInv, NEW x \in Transfers, ConfirmTransfer(x)
  PROVE  /\ transfers[x].to \in Users /\ transfers[x].tenant \in Tenants
         /\ \A u \in Users, n \in Tenants :
              /\ role'[u][n] # "none" => role[u][n] # "none"
              /\ role'[u][n] = "owner" =>
                   role[u][n] = "owner" \/ (u = transfers[x].to /\ n = transfers[x].tenant)
         /\ role'[transfers[x].to][transfers[x].tenant] = "owner"
         /\ \A u \in Users, n \in Tenants :
              n # transfers[x].tenant => role'[u][n] = role[u][n]
<1> DEFINE n == transfers[x].tenant
           from == transfers[x].from
           to == transfers[x].to
<1>1. n \in Tenants /\ from \in Users /\ to \in Users
  BY Halves DEF TablesInv, TableTypes, TransferShape, ConfirmTransfer, Confirmable
<1>2. role[from][n] = "owner" /\ role[to][n] \in {"admin", "member"}
  BY DEF ConfirmTransfer, Confirmable, NotOwner
<1>3. role' = [role EXCEPT ![from][n] = "admin", ![to][n] = "owner"]
  BY DEF ConfirmTransfer, PassedOn
<1> HIDE DEF n, from, to
<1>4. \A v \in Users, m \in Tenants :
        role'[v][m] = IF v = to /\ m = n THEN "owner"
                      ELSE IF v = from /\ m = n THEN "admin" ELSE role[v][m]
  BY <1>1, <1>2, <1>3, Halves DEF TablesInv, TableTypes, Roles
<1> QED
  BY <1>1, <1>2, <1>4 DEF n, from, to

\* What a removal leaves of the memberships.
LEMMA MemberRemoved ==
  ASSUME GovInv, NEW r \in Requests, RemoveMember(r)
  PROVE  \A u \in Users, n \in Tenants :
           role'[u][n] # "none" => role'[u][n] = role[u][n]
<1>1. req[r].target \in Users /\ req[r].tenant \in Tenants
  BY Established DEF RemoveMember, At, RemovePCs
<1>2. "none" \in Roles
  BY DEF Roles
<1> QED
  BY <1>1, <1>2, Halves, RoleWritten DEF RemoveMember, TablesInv, TableTypes

\* What the deletion of an account leaves of memberships and invitations.
LEMMA AccountGone ==
  ASSUME GovInv, NEW v \in Users, DeleteUserRow(v)
  PROVE  /\ UNCHANGED <<lock, tenure>>
         /\ \A u \in Users, n \in Tenants :
              role'[u][n] # "none" => role'[u][n] = role[u][n] /\ u # v
         /\ \A i \in Invitations : invitations'[i].status # "gone" =>
              invitations'[i] = invitations[i]
  BY Halves DEF DeleteUserRow, MembershipsWithout, FreeInvitation, TablesInv, TableTypes

\* The statements of a handler.
LEMMA StartedHandlerSteps ==
  ASSUME GovInv, Started, NEW r \in Requests, Resume(r) \/ Crash(r)
  PROVE  Started'
<1>1. CASE \/ CreateGuard(r) \/ RoleGuard(r) \/ RoleTarget(r) \/ RoleSelect(r)
           \/ RemoveTarget(r) \/ RemoveGuard(r) \/ RemoveCount(r) \/ InviteGuard(r)
           \/ AcceptExisting(r) \/ TransferFrom(r) \/ TransferTo(r) \/ Crash(r)
  <2>1. UNCHANGED <<role, invitations, tenure>> /\ \A s \in Requests \ {r} : Grows(s)
    BY <1>1, Readings DEF rows
  <2>2. StillActs(r)
    BY <1>1, Readings, GrowsStillActs DEF Moves, IdleRequest, At
  <2> QED
    BY <2>1, <2>2, GrowsStillActs, StartedKept
<1>2. CASE CreateUserRow(r)
  <2>1. PICK u \in Users :
          req' = [req EXCEPT ![r] = [req[r] EXCEPT !.pc = "createMember", !.target = u]]
    BY <1>2 DEF CreateUserRow
  <2>2. [req[r] EXCEPT !.pc = "createMember", !.target = u].tenant = req[r].tenant
    BY Established DEF Request
  <2>3. req'[r].tenant = req[r].tenant /\ \A s \in Requests \ {r} : Grows(s)
    BY <2>1, <2>2, Halves, OneGrows
  <2>4. UNCHANGED <<role, invitations, tenure>> /\ At(r, "createUser")
    BY <1>2 DEF CreateUserRow
  <2> QED
    BY <2>3, <2>4, GrowsStillActs, StartedKept DEF At
<1>3. CASE CreateMembership(r) \/ RoleUpdate(r) \/ InsertTransfer(r) \/ PatchLifecycle(r)
  <2>1. \/ Finish(r)
        \/ \E S \in SUBSET Requests, what \in {"lock", "owner", "spent", "joined"} :
             req' = [Marked(S, what) EXCEPT ![r] = IdleRequest]
    BY <1>3 DEF CreateMembership, RoleUpdate, InsertTransfer, PatchLifecycle,
                AfterLocking, Targeting
  <2>2. req'[r] = IdleRequest /\ \A s \in Requests \ {r} : Grows(s)
    BY <2>1, Halves, EndGrows
  <2>3. UNCHANGED <<invitations, tenure>>
    BY <1>3 DEF CreateMembership, RoleUpdate, InsertTransfer, PatchLifecycle
  <2>4. req[r].tenant \in Tenants /\ tenure[req[r].tenant] > 0
    BY <1>3, ActsInStarted DEF CreateMembership, RoleUpdate, InsertTransfer, PatchLifecycle, At
  <2>5. \A u \in Users, n \in Tenants :
          role'[u][n] # "none" => role[u][n] # "none" \/ n = req[r].tenant
    <3>1. \/ UNCHANGED role
          \/ /\ req[r].target \in Users
             /\ \E ro \in Roles : role' = [role EXCEPT ![req[r].target][req[r].tenant] = ro]
      BY <1>3, Established
         DEF CreateMembership, RoleUpdate, InsertTransfer, PatchLifecycle, InsertMember, At,
             RolePCs, Roles
    <3>2. CASE UNCHANGED role
      BY <3>2
    <3>3. CASE /\ req[r].target \in Users
               /\ \E ro \in Roles : role' = [role EXCEPT ![req[r].target][req[r].tenant] = ro]
      BY <3>3, <2>4, OneMembership
    <3> QED
      BY <3>1, <3>2, <3>3
  <2> QED
    BY <2>2, <2>3, <2>4, <2>5, GrowsStillActs, StartedKept DEF IdleRequest
<1>4. CASE RemoveMember(r)
  <2>1. Moves(r, "removeMember", "removeCount") /\ \A s \in Requests \ {r} : Grows(s)
    BY <1>4, Halves, GoGrows DEF RemoveMember
  <2>2. UNCHANGED <<invitations, tenure>>
    BY <1>4 DEF RemoveMember
  <2>3. \A u \in Users, n \in Tenants : role'[u][n] # "none" => role[u][n] # "none"
    BY <1>4, MemberRemoved
  <2> QED
    BY <2>1, <2>2, <2>3, GrowsStillActs, StartedKept DEF Moves, At
<1>5. CASE RemoveUser(r)
  <2>1. req'[r] = IdleRequest /\ \A s \in Requests \ {r} : Grows(s)
    BY <1>5, Halves, EndGrows DEF RemoveUser
  <2>2. req[r].target \in Users
    BY <1>5, Established DEF RemoveUser, At, RemovePCs
  <2> QED
    BY <1>5, <2>1, <2>2, AccountGone, GrowsStillActs, StartedKept DEF RemoveUser, IdleRequest
<1>6. CASE InsertInvitation(r)
  <2>1. req'[r] = IdleRequest /\ \A s \in Requests \ {r} : Grows(s)
    BY <1>6, Halves, EndGrows DEF InsertInvitation
  <2>2. UNCHANGED <<role, tenure>>
    BY <1>6 DEF InsertInvitation
  <2>3. req[r].tenant \in Tenants /\ tenure[req[r].tenant] > 0
    BY <1>6, ActsInStarted DEF InsertInvitation, At
  <2>4. \A i \in Invitations :
          invitations'[i] = invitations[i] \/ invitations'[i].tenant = req[r].tenant
    BY <1>6, Halves DEF InsertInvitation, TablesInv, TableTypes
  <2> QED
    BY <2>1, <2>2, <2>3, <2>4, GrowsStillActs, StartedKept DEF IdleRequest
<1>7. CASE AcceptJoin(r)
  <2>1. UNCHANGED <<invitations, tenure>> /\ At(r, "acceptJoin")
    BY <1>7 DEF AcceptJoin
  <2>2. req[r].tenant \in Tenants /\ tenure[req[r].tenant] > 0 /\ req[r].actor \in Users
    BY <2>1, ActsInStarted, Established DEF At
  <2>3. StillActs(r) /\ \A s \in Requests \ {r} : Grows(s)
    <3>1. \/ Finish(r)
          \/ req' = [Marked(Targeting(req[r].actor), "joined") EXCEPT ![r].pc = "acceptSpend"]
      BY <1>7 DEF AcceptJoin
    <3>2. CASE Finish(r)
      BY <3>2, Halves, EndGrows, GrowsStillActs DEF IdleRequest
    <3>3. CASE req' = [Marked(Targeting(req[r].actor), "joined") EXCEPT ![r].pc = "acceptSpend"]
      <4>1. Moves(r, "acceptJoin", "acceptSpend") /\ \A s \in Requests \ {r} : Grows(s)
        BY <2>1, <3>3, Halves, GoGrows
      <4> QED
        BY <4>1, GrowsStillActs DEF Moves, At
    <3> QED
      BY <3>1, <3>2, <3>3
  <2>4. \A u \in Users, n \in Tenants :
          role'[u][n] # "none" => role[u][n] # "none" \/ n = req[r].tenant
    <3>1. "member" \in Roles
      BY DEF Roles
    <3>2. UNCHANGED role \/ role' = [role EXCEPT ![req[r].actor][req[r].tenant] = "member"]
      BY <1>7 DEF AcceptJoin, InsertMember
    <3> QED
      BY <3>1, <3>2, <2>2, OneMembership
  <2> QED
    BY <2>1, <2>2, <2>3, <2>4, GrowsStillActs, StartedKept
<1>8. CASE AcceptSpend(r)
  <2>1. req'[r] = IdleRequest /\ \A s \in Requests \ {r} : Grows(s)
    BY <1>8, Halves, EndGrows DEF AcceptSpend
  <2>2. UNCHANGED <<role, tenure>>
    BY <1>8 DEF AcceptSpend
  <2>3. \A i \in Invitations : invitations'[i].status = "open" =>
          invitations[i].status = "open" /\ invitations'[i].tenant = invitations[i].tenant
    <3>1. invitations \in [Invitations -> InvitationRow] /\ req[r].item \in Invitations
      BY <1>8, Halves, Established DEF TablesInv, TableTypes, AcceptSpend, At, AcceptPCs
    <3>2. \/ invitations' = invitations
          \/ invitations' = [invitations EXCEPT ![req[r].item].status = "spent"]
      BY <1>8 DEF AcceptSpend
    <3> QED
      BY <3>1, <3>2 DEF InvitationRow
  <2> QED
    BY <2>1, <2>2, <2>3, GrowsStillActs, StartedKept DEF IdleRequest
<1>9. CASE InsertOwner(r)
  <2>1. req'[r] = IdleRequest /\ \A s \in Requests \ {r} : Grows(s)
    BY <1>9, Halves, EndGrows DEF InsertOwner
  <2>2. UNCHANGED invitations /\ req[r].tenant \in Tenants /\ req[r].actor \in Users
    BY <1>9, Established DEF InsertOwner, At
  <2>3. \/ UNCHANGED <<role, tenure>>
        \/ /\ role' = [role EXCEPT ![req[r].actor][req[r].tenant] = "owner"]
           /\ tenure' = [tenure EXCEPT ![req[r].tenant] = @ + 1]
    BY <1>9 DEF InsertOwner, InsertMember
  <2>4. \A n \in Tenants : tenure[n] > 0 => tenure'[n] > 0
    BY <2>2, <2>3, Halves DEF TablesInv, TableTypes
  <2>5. \A u \in Users, n \in Tenants :
          role'[u][n] # "none" => role[u][n] # "none" \/ tenure'[n] > 0
    <3>1. CASE UNCHANGED <<role, tenure>>
      BY <3>1
    <3>2. CASE /\ role' = [role EXCEPT ![req[r].actor][req[r].tenant] = "owner"]
               /\ tenure' = [tenure EXCEPT ![req[r].tenant] = @ + 1]
      <4>1. tenure'[req[r].tenant] > 0
        BY <2>2, <3>2, Halves DEF TablesInv, TableTypes
      <4>2. "owner" \in Roles
        BY DEF Roles
      <4> QED
        BY <2>2, <3>2, <4>1, <4>2, Halves, RoleWritten DEF TablesInv, TableTypes
    <3> QED
      BY <2>3, <3>1, <3>2
  <2> QED
    BY <2>1, <2>2, <2>4, <2>5, GrowsStillActs, StartedKept DEF IdleRequest
<1> QED
  BY <1>1, <1>2, <1>3, <1>4, <1>5, <1>6, <1>7, <1>8, <1>9 DEF Resume


\* What happens without a handler.
LEMMA StartedOtherSteps ==
  ASSUME GovInv, Started,
         \/ UNCHANGED vars
         \/ \E u \in Users : SignUp(u) \/ DeleteAccount(u)
         \/ \E i \in Invitations : ExpireInvitation(i)
         \/ \E x \in Transfers : ConfirmTransfer(x) \/ ExpireTransfer(x)
         \/ \E n \in Tenants : PlatformPatch(n)
  PROVE  Started'
<1>1. ASSUME NEW s \in Requests PROVE StillActs(s)
  <2>1. \/ req' = req
        \/ \E S \in SUBSET Requests, what \in {"lock", "owner", "spent", "joined"} :
             req' = Marked(S, what)
    BY DEF vars, SignUp, DeleteAccount, ExpireInvitation, ConfirmTransfer, ExpireTransfer,
           PlatformPatch, AfterLocking, Targeting
  <2> QED
    BY <2>1, Halves, NobodyGrows, GrowsStillActs
<1>2. CASE UNCHANGED <<role, invitations, tenure>>
  BY <1>1, <1>2, StartedKept
<1>3. ASSUME NEW u \in Users, DeleteAccount(u) PROVE Started'
  BY <1>1, <1>3, AccountGone, StartedKept DEF DeleteAccount
<1>4. ASSUME NEW i \in Invitations, ExpireInvitation(i) PROVE Started'
  <2>1. UNCHANGED <<role, tenure>> /\ invitations' = [invitations EXCEPT ![i].expired = TRUE]
    BY <1>4 DEF ExpireInvitation
  <2>2. \A j \in Invitations : /\ invitations'[j].status = invitations[j].status
                               /\ invitations'[j].tenant = invitations[j].tenant
    BY <2>1, Halves DEF TablesInv, TableTypes, InvitationRow
  <2> QED
    BY <1>1, <2>1, <2>2, StartedKept
<1>5. ASSUME NEW x \in Transfers, ConfirmTransfer(x) PROVE Started'
  <2>1. \A u \in Users, n \in Tenants : role'[u][n] # "none" => role[u][n] # "none"
    BY <1>5, OwnershipPasses
  <2>2. \A n \in Tenants : tenure[n] > 0 => tenure'[n] > 0
    BY <1>5, Halves DEF ConfirmTransfer, TablesInv, TableTypes
  <2> QED
    BY <1>1, <1>5, <2>1, <2>2, StartedKept DEF ConfirmTransfer
<1> QED
  BY <1>2, <1>3, <1>4, <1>5 DEF vars, SignUp, ExpireTransfer, PlatformPatch

\* A handler starts for a member, or with an open invitation.
LEMMA StartedStarts ==
  ASSUME GovInv, Started, NEW r \in Requests, Arrive(r)
  PROVE  Started'
<1>1. PICK actor \in Users :
        \/ \E n \in Tenants :
             \/ BeginCreateUser(r, actor, n) \/ BeginInvite(r, actor, n)
             \/ BeginPatch(r, actor, n) \/ InsertTenant(r, actor, n)
             \/ \E u \in Users :
                  BeginSetRole(r, actor, n, u) \/ BeginRemove(r, actor, n, u)
                    \/ BeginTransfer(r, actor, n, u)
        \/ \E i \in Invitations, email \in Emails : LookupInvitation(r, actor, email, i)
  BY DEF Arrive
<1>2. ASSUME NEW n \in Tenants,
             \/ BeginCreateUser(r, actor, n) \/ BeginInvite(r, actor, n)
             \/ BeginPatch(r, actor, n)
             \/ \E u \in Users :
                  BeginSetRole(r, actor, n, u) \/ BeginRemove(r, actor, n, u)
                    \/ BeginTransfer(r, actor, n, u)
      PROVE  Started'
  <2>1. /\ UNCHANGED tables /\ \A s \in Requests \ {r} : Grows(s)
        /\ req'[r].tenant = n /\ role[actor][n] # "none"
    BY <1>2, Starts
  <2>2. StillActs(r)
    BY <2>1 DEF Started, StillActs
  <2> QED
    BY <2>1, <2>2, GrowsStillActs, StartedKept DEF tables
<1>3. ASSUME NEW n \in Tenants, InsertTenant(r, actor, n) PROVE Started'
  <2>1. req'[r].pc = "tenantOwner" /\ \A s \in Requests \ {r} : Grows(s)
    BY <1>3, Founding
  <2>2. UNCHANGED <<role, invitations, tenure>>
    BY <1>3 DEF InsertTenant
  <2> QED
    BY <2>1, <2>2, GrowsStillActs, StartedKept
<1>4. ASSUME NEW i \in Invitations, NEW email \in Emails, LookupInvitation(r, actor, email, i)
      PROVE  Started'
  <2>1. /\ UNCHANGED tables /\ \A s \in Requests \ {r} : Grows(s)
        /\ req'[r].tenant = invitations[i].tenant /\ invitations[i].status = "open"
    BY <1>4, LookedUp
  <2>2. StillActs(r)
    BY <2>1, Halves DEF Started, StillActs, TablesInv, TableTypes, InvitationShape
  <2> QED
    BY <2>1, <2>2, GrowsStillActs, StartedKept DEF tables
<1> QED
  BY <1>1, <1>2, <1>3, <1>4

\* Started holds initially, and every step keeps it.
LEMMA StartedInvariance == Spec => []Started
<1>1. Init => Started
  BY DEF Init, Started, FreeInvitation, IdleRequest
<1>2. GovInv /\ Started /\ [Next]_vars => Started'
  BY StartedStarts, StartedHandlerSteps, StartedOtherSteps DEF Next
<1> QED
  BY <1>1, <1>2, Invariance, PTL DEF Spec

-----------------------------------------------------------------------------
(* Who acts on what has changed was overtaken by the change. *)

\* The statements that follow a look at the target's role, or at the invitation.
TargetRead(r) == req[r].pc \in {"roleSelect", "roleUpdate", "removeGuard", "removeMember"}
InvitationRead(r) == req[r].pc \in {"acceptExisting", "acceptJoin"}

TargetOwns(r) == role[req[r].target][req[r].tenant] = "owner"
ItemSpent(r) == invitations[req[r].item].status = "spent"

\* StaleOnlyByRace, of one handler.
Current(r) ==
  /\ Unlocked(r) /\ Locked(req[r].tenant) => "lock" \in req[r].stale
  /\ TargetRead(r) /\ TargetOwns(r) => "owner" \in req[r].stale
  /\ InvitationRead(r) /\ ItemSpent(r) => "spent" \in req[r].stale
  /\ At(r, "removeUser") /\ HasMembership(req[r].target) => "joined" \in req[r].stale

CurrentInv == \A r \in Requests : Current(r)

\* A handler that takes no step is told of each change that bears on what it has read.
Told(s) ==
  /\ ~At(s, "idle") /\ Locked(req[s].tenant)' =>
       Locked(req[s].tenant) \/ "lock" \in req'[s].stale
  /\ TargetRead(s) /\ TargetOwns(s)' => TargetOwns(s) \/ "owner" \in req'[s].stale
  /\ InvitationRead(s) /\ ItemSpent(s)' => ItemSpent(s) \/ "spent" \in req'[s].stale
  /\ At(s, "removeUser") /\ HasMembership(req[s].target)' =>
       HasMembership(req[s].target) \/ "joined" \in req'[s].stale

\* Nothing happens that a handler would have to be told of.
Calm ==
  /\ \A n \in Tenants : Locked(n)' => Locked(n)
  /\ \A u \in Users, n \in Tenants :
       /\ role'[u][n] # "none" => role[u][n] # "none"
       /\ role'[u][n] = "owner" => role[u][n] = "owner"
  /\ \A i \in Invitations : invitations'[i].status = "spent" => invitations[i].status = "spent"

\* A handler that is told of what happens stays current.
LEMMA ToldStaysCurrent ==
  ASSUME NEW s \in Requests, Current(s), Grows(s), Told(s)
  PROVE  Current(s)'
<1>1. Same(s) /\ req[s].stale \subseteq req'[s].stale
  BY DEF Grows
<1>2. Unlocked(s)' => Unlocked(s) /\ ~At(s, "idle")
  BY <1>1 DEF Same, Unlocked, At
<1>3. (Unlocked(s) /\ Locked(req[s].tenant))' => "lock" \in req'[s].stale
  BY <1>1, <1>2 DEF Same, Current, Told, Locked
<1>4. (TargetRead(s) /\ TargetOwns(s))' => "owner" \in req'[s].stale
  BY <1>1 DEF Same, Current, Told, TargetRead
<1>5. (InvitationRead(s) /\ ItemSpent(s))' => "spent" \in req'[s].stale
  BY <1>1 DEF Same, Current, Told, InvitationRead
<1>6. (At(s, "removeUser") /\ HasMembership(req[s].target))' => "joined" \in req'[s].stale
  BY <1>1 DEF Same, Current, Told, At, HasMembership
<1> QED
  BY <1>3, <1>4, <1>5, <1>6 DEF Current


\* The statements before which a handler has read nothing it relies on.
Neutral == {"idle", "createGuard", "inviteGuard", "patchWrite", "roleGuard", "removeTarget",
            "transferFrom", "transferTo", "transferInsert", "tenantOwner", "acceptSpend"}

\* There a handler is current, whatever happened.
LEMMA NeutralCurrent ==
  ASSUME NEW r, req'[r].pc \in Neutral
  PROVE  Current(r)'
  BY DEF Neutral, Current, Unlocked, TargetRead, InvitationRead, At

\* Every handler that takes no step is told of what happens, or nothing happens.
LEMMA CurrentKept ==
  ASSUME GovInv, CurrentInv,
         \A s \in Requests : Current(s)' \/ (Grows(s) /\ (Calm \/ Told(s)))
  PROVE  CurrentInv'
<1>1. ASSUME NEW s \in Requests, Grows(s), Calm PROVE Told(s)
  <2>1. ~At(s, "idle") => req[s].tenant \in Tenants
    BY Established
  <2>2. TargetRead(s) \/ At(s, "removeUser") =>
          req[s].target \in Users /\ req[s].tenant \in Tenants
    BY Established DEF TargetRead, At, RolePCs, RemovePCs
  <2>3. InvitationRead(s) => req[s].item \in Invitations
    BY Established DEF InvitationRead, AcceptPCs
  <2> QED
    BY <1>1, <2>1, <2>2, <2>3
       DEF Told, Grows, Same, Calm, Locked, TargetOwns, ItemSpent, HasMembership
<1> QED
  BY <1>1, ToldStaysCurrent DEF CurrentInv

\* A change of an account, or of what no handler relies on.
LEMMA CalmTables ==
  ASSUME UNCHANGED <<lock, role, invitations>>
  PROVE  Calm
  BY DEF Calm, Locked

\* A statement that only reads is followed by one that relies on what it read.
LEMMA CurrentReadings ==
  ASSUME GovInv, CurrentInv, NEW r \in Requests,
         \/ CreateGuard(r) \/ RoleGuard(r) \/ RoleTarget(r) \/ RoleSelect(r)
         \/ RemoveTarget(r) \/ RemoveGuard(r) \/ RemoveCount(r) \/ InviteGuard(r)
         \/ AcceptExisting(r) \/ TransferFrom(r) \/ TransferTo(r) \/ Crash(r)
  PROVE  CurrentInv'
<1>1. /\ UNCHANGED <<lock, role, invitations>>
      /\ \A s \in Requests \ {r} : Grows(s)
      /\ Current(r)
  BY Readings DEF rows, CurrentInv
<1>2. Current(r)'
  <2>1. CASE req'[r] = IdleRequest
    BY <2>1, NeutralCurrent DEF IdleRequest, Neutral
  <2>2. CASE /\ ~Locked(req[r].tenant)
             /\ \/ Moves(r, "createGuard", "createUser") \/ Moves(r, "roleGuard", "roleTarget")
                \/ Moves(r, "inviteGuard", "inviteInsert")
    BY <2>2, <1>1 DEF Moves, Current, Unlocked, Locked, TargetRead, InvitationRead, At
  <2>3. CASE ~Locked(req[r].tenant) /\ Moves(r, "removeGuard", "removeMember")
    <3>1. TargetRead(r)
      BY <2>3 DEF Moves, TargetRead, At
    <3> QED
      BY <2>3, <1>1, <3>1
         DEF Moves, Current, Unlocked, Locked, TargetRead, TargetOwns, InvitationRead, At
  <2>4. CASE /\ role[req[r].target][req[r].tenant] # "owner"
             /\ \/ Moves(r, "roleTarget", "roleSelect") \/ Moves(r, "roleSelect", "roleUpdate")
    <3>1. Unlocked(r)
      BY <2>4 DEF Moves, Unlocked, At
    <3> QED
      BY <2>4, <1>1, <3>1
         DEF Moves, Current, Locked, TargetRead, TargetOwns, InvitationRead, At
  <2>5. CASE /\ role[req[r].target][req[r].tenant] # "owner"
             /\ Moves(r, "removeTarget", "removeGuard")
    BY <2>5, <1>1 DEF Moves, Current, Unlocked, TargetOwns, InvitationRead, At
  <2>6. CASE ~HasMembership(req[r].target) /\ Moves(r, "removeCount", "removeUser")
    <3>1. Unlocked(r)
      BY <2>6 DEF Moves, Unlocked, At
    <3> QED
      BY <2>6, <1>1, <3>1
         DEF Moves, Current, Locked, TargetRead, InvitationRead, HasMembership, At
  <2>7. CASE Moves(r, "acceptExisting", "acceptJoin")
    <3>1. Unlocked(r) /\ InvitationRead(r)
      BY <2>7 DEF Moves, Unlocked, InvitationRead, At
    <3> QED
      BY <2>7, <1>1, <3>1
         DEF Moves, Current, Locked, TargetRead, ItemSpent, At
  <2>8. CASE Moves(r, "transferFrom", "transferTo") \/ Moves(r, "transferTo", "transferInsert")
    BY <2>8, NeutralCurrent DEF Moves, Neutral
  <2> QED
    BY Readings, <2>1, <2>2, <2>3, <2>4, <2>5, <2>6, <2>7, <2>8
<1> QED
  BY <1>1, <1>2, CalmTables, CurrentKept

\* Somebody becomes a member: the handlers that have this user as their target are told.
LEMMA JoinTold ==
  ASSUME GovInv, Started, NEW u \in Users, NEW n \in Tenants, NEW ro \in {"member", "owner"},
         role' = [role EXCEPT ![u][n] = ro], ro = "owner" => tenure[n] = 0,
         UNCHANGED <<lock, invitations>>, NEW s \in Requests,
         Grows(s), u = req[s].target => "joined" \in req'[s].stale
  PROVE  Told(s)
<1>1. \A v \in Users, m \in Tenants :
        role'[v][m] = IF v = u /\ m = n THEN ro ELSE role[v][m]
  <2> ro \in Roles
    BY DEF Roles
  <2> QED
    BY Halves, RoleWritten DEF TablesInv, TableTypes
<1>2. TargetRead(s) /\ role'[req[s].target][req[s].tenant] = "owner" => TargetOwns(s)
  <2> SUFFICES ASSUME TargetRead(s), role'[req[s].target][req[s].tenant] = "owner"
               PROVE  TargetOwns(s)
    OBVIOUS
  <2>1. req[s].target \in Users /\ req[s].tenant \in Tenants /\ tenure[req[s].tenant] > 0
    BY Established, ActsInStarted DEF TargetRead, RolePCs, RemovePCs
  <2> QED
    BY <1>1, <2>1 DEF TargetOwns
<1>3. At(s, "removeUser") /\ req[s].target # u =>
        \A m \in Tenants :
          role'[req[s].target][m] # "none" => HasMembership(req[s].target)
  BY <1>1, Established DEF HasMembership, At, RemovePCs
<1> QED
  BY <1>2, <1>3 DEF Told, Grows, Same, Locked, TargetOwns, ItemSpent, HasMembership


\* A user becomes a member, or stays one, and the handler ends or goes on to spend.
LEMMA CurrentJoins ==
  ASSUME GovInv, Started, CurrentInv, NEW r \in Requests,
         CreateMembership(r) \/ AcceptJoin(r) \/ InsertOwner(r)
  PROVE  CurrentInv'
<1> DEFINE u == IF CreateMembership(r) THEN req[r].target ELSE req[r].actor
           n == req[r].tenant
<1>1. u \in Users /\ n \in Tenants
  BY Established DEF CreateMembership, AcceptJoin, InsertOwner, At
<1>2. UNCHANGED <<lock, invitations>>
  BY DEF CreateMembership, AcceptJoin, InsertOwner
<1>3. InsertOwner(r) => tenure[n] = 0
  BY Halves DEF InsertOwner, HandlersInv, HandlerShape
<1>4. \/ UNCHANGED role /\ Finish(r)
      \/ /\ \E ro \in {"member", "owner"} :
              role' = [role EXCEPT ![u][n] = ro] /\ (ro = "owner" => tenure[n] = 0)
         /\ \/ req' = [Marked(Targeting(u), "joined") EXCEPT ![r] = IdleRequest]
            \/ /\ At(r, "acceptJoin")
               /\ req' = [Marked(Targeting(u), "joined") EXCEPT ![r].pc = "acceptSpend"]
  <2>1. CASE CreateMembership(r)
    BY <2>1 DEF CreateMembership, InsertMember
  <2>2. CASE AcceptJoin(r)
    <3>1. u = req[r].actor
      BY <2>2 DEF AcceptJoin, CreateMembership, At
    <3> QED
      BY <2>2, <3>1 DEF AcceptJoin, InsertMember
  <2>3. CASE InsertOwner(r)
    <3>1. u = req[r].actor
      BY <2>3 DEF InsertOwner, CreateMembership, At
    <3> QED
      BY <2>3, <1>3, <3>1 DEF InsertOwner, InsertMember
  <2> QED
    BY <2>1, <2>2, <2>3
<1> HIDE DEF u, n
<1>5. CASE UNCHANGED role /\ Finish(r)
  BY <1>2, <1>5, Halves, EndGrows, NeutralCurrent, CalmTables, CurrentKept
     DEF IdleRequest, Neutral
<1>6. ASSUME NEW ro \in {"member", "owner"}, role' = [role EXCEPT ![u][n] = ro],
             ro = "owner" => tenure[n] = 0,
             \/ req' = [Marked(Targeting(u), "joined") EXCEPT ![r] = IdleRequest]
             \/ /\ At(r, "acceptJoin")
                /\ req' = [Marked(Targeting(u), "joined") EXCEPT ![r].pc = "acceptSpend"]
      PROVE  CurrentInv'
  <2>1. req'[r].pc \in Neutral /\ \A s \in Requests \ {r} : Grows(s)
    <3>1. CASE req' = [Marked(Targeting(u), "joined") EXCEPT ![r] = IdleRequest]
      BY <3>1, Halves, EndGrows DEF IdleRequest, Neutral
    <3>2. CASE /\ At(r, "acceptJoin")
               /\ req' = [Marked(Targeting(u), "joined") EXCEPT ![r].pc = "acceptSpend"]
      <4>1. Moves(r, "acceptJoin", "acceptSpend") /\ \A s \in Requests \ {r} : Grows(s)
        BY <3>2, Halves, GoGrows
      <4> QED
        BY <4>1 DEF Moves, Neutral
    <3> QED
      BY <1>6, <3>1, <3>2
  <2>2. ASSUME NEW s \in Requests \ {r} PROVE Told(s)
    <3>1. u = req[s].target => "joined" \in req'[s].stale
      <4>1. req'[s] = Marked(Targeting(u), "joined")[s]
        BY <1>6, Halves, MarkedRows
      <4> QED
        BY <4>1, Halves, MarkedHistories DEF Targeting
    <3> QED
      BY <1>1, <1>2, <1>6, <2>1, <3>1, JoinTold
  <2> QED
    BY <2>1, <2>2, NeutralCurrent, CurrentKept
<1> QED
  BY <1>4, <1>5, <1>6

\* The other statements of a handler take memberships away, or use an invitation.
LEMMA CurrentWrites ==
  ASSUME GovInv, CurrentInv, NEW r \in Requests,
         \/ RoleUpdate(r) \/ RemoveMember(r) \/ RemoveUser(r) \/ InsertTransfer(r)
         \/ InsertInvitation(r) \/ AcceptSpend(r) \/ CreateUserRow(r)
  PROVE  CurrentInv'
<1>1. CASE RoleUpdate(r)
  <2>1. req'[r] = IdleRequest /\ \A s \in Requests \ {r} : Grows(s)
    BY <1>1, Halves, EndGrows DEF RoleUpdate
  <2>2. Calm
    <3>1. req[r].target \in Users /\ req[r].tenant \in Tenants /\ UNCHANGED <<lock, invitations>>
      BY <1>1, Established DEF RoleUpdate, At, RolePCs
    <3>2. CASE UNCHANGED role
      BY <3>1, <3>2, CalmTables
    <3>3. ASSUME NEW next \in {"admin", "member"}, role[req[r].target][req[r].tenant] # "none",
                 role' = [role EXCEPT ![req[r].target][req[r].tenant] = next]
          PROVE  Calm
      <4>1. next \in Roles
        BY DEF Roles
      <4> QED
        BY <3>1, <3>3, <4>1, Halves, RoleWritten DEF Calm, Locked, TablesInv, TableTypes
    <3> QED
      BY <1>1, <3>2, <3>3 DEF RoleUpdate
  <2> QED
    BY <2>1, <2>2, NeutralCurrent, CurrentKept DEF IdleRequest, Neutral
<1>2. CASE RemoveMember(r)
  <2>1. Moves(r, "removeMember", "removeCount") /\ \A s \in Requests \ {r} : Grows(s)
    BY <1>2, Halves, GoGrows DEF RemoveMember
  <2>2. UNCHANGED <<lock, invitations>>
    BY <1>2 DEF RemoveMember
  <2>3. Calm
    BY <1>2, <2>2, MemberRemoved DEF Calm, Locked
  <2>4. Current(r)'
    <3>1. Unlocked(r) /\ Current(r)
      BY <2>1 DEF Moves, Unlocked, At, CurrentInv
    <3> QED
      BY <2>1, <2>2, <3>1 DEF Moves, Current, Locked, TargetRead, InvitationRead, At
  <2> QED
    BY <2>1, <2>3, <2>4, CurrentKept
<1>3. CASE RemoveUser(r)
  <2>1. req'[r] = IdleRequest /\ \A s \in Requests \ {r} : Grows(s)
    BY <1>3, Halves, EndGrows DEF RemoveUser
  <2>2. req[r].target \in Users
    BY <1>3, Established DEF RemoveUser, At, RemovePCs
  <2>3. Calm
    BY <1>3, <2>2, AccountGone DEF RemoveUser, Calm, Locked
  <2> QED
    BY <2>1, <2>3, NeutralCurrent, CurrentKept DEF IdleRequest, Neutral
<1>4. CASE InsertTransfer(r)
  <2>1. req'[r] = IdleRequest /\ \A s \in Requests \ {r} : Grows(s)
    BY <1>4, Halves, EndGrows DEF InsertTransfer
  <2>2. Calm
    BY <1>4, CalmTables DEF InsertTransfer
  <2> QED
    BY <2>1, <2>2, NeutralCurrent, CurrentKept DEF IdleRequest, Neutral
<1>5. CASE InsertInvitation(r)
  <2>1. req'[r] = IdleRequest /\ \A s \in Requests \ {r} : Grows(s)
    BY <1>5, Halves, EndGrows DEF InsertInvitation
  <2>2. UNCHANGED <<lock, role>>
    BY <1>5 DEF InsertInvitation
  <2>3. \A i \in Invitations :
          invitations'[i] = invitations[i] \/ invitations'[i].status = "open"
    BY <1>5, Halves DEF InsertInvitation, TablesInv, TableTypes
  <2>4. Calm
    BY <2>2, <2>3 DEF Calm, Locked
  <2> QED
    BY <2>1, <2>4, NeutralCurrent, CurrentKept DEF IdleRequest, Neutral
<1>6. CASE AcceptSpend(r)
  <2> DEFINE i == req[r].item
  <2>1. req'[r] = IdleRequest /\ \A s \in Requests \ {r} : Grows(s)
    BY <1>6, Halves, EndGrows DEF AcceptSpend
  <2>2. UNCHANGED <<lock, role>> /\ i \in Invitations
    BY <1>6, Established DEF AcceptSpend, At, AcceptPCs
  <2>3. \A j \in Invitations : j # i => invitations'[j] = invitations[j]
    BY <1>6, Halves DEF AcceptSpend, TablesInv, TableTypes
  <2>4. ASSUME NEW s \in Requests \ {r} PROVE Told(s)
    <3>1. req'[s] = Marked(Accepting(i), "spent")[s]
      BY <1>6, Halves, MarkedRows DEF AcceptSpend
    <3>2. InvitationRead(s) /\ req[s].item = i => "spent" \in req'[s].stale
      BY <3>1, Halves, MarkedHistories DEF Accepting, InvitationRead, AcceptPCs
    <3>3. InvitationRead(s) => req[s].item \in Invitations
      BY Established DEF InvitationRead, AcceptPCs
    <3>4. Same(s)
      BY <2>1 DEF Grows
    <3> QED
      BY <2>2, <2>3, <3>2, <3>3, <3>4
         DEF Told, Same, Locked, TargetOwns, ItemSpent, HasMembership
  <2> QED
    BY <2>1, <2>4, NeutralCurrent, CurrentKept DEF IdleRequest, Neutral
<1>7. CASE CreateUserRow(r)
  <2>1. PICK u \in Users :
          req' = [req EXCEPT ![r] = [req[r] EXCEPT !.pc = "createMember", !.target = u]]
    BY <1>7 DEF CreateUserRow
  <2> DEFINE q == [req[r] EXCEPT !.pc = "createMember", !.target = u]
  <2>2. q.pc = "createMember" /\ q.tenant = req[r].tenant /\ q.stale = req[r].stale
    BY Established DEF Request
  <2> HIDE DEF q
  <2>3. req'[r] = q /\ \A s \in Requests \ {r} : Grows(s)
    BY <2>1, Halves, OneGrows DEF q
  <2>4. UNCHANGED <<lock, role, invitations>> /\ Unlocked(r) /\ Current(r)
    BY <1>7 DEF CreateUserRow, At, Unlocked, CurrentInv
  <2>5. Current(r)'
    BY <2>2, <2>3, <2>4 DEF Current, Locked, TargetRead, InvitationRead, At
  <2> QED
    BY <2>3, <2>4, <2>5, CalmTables, CurrentKept
<1> QED
  BY <1>1, <1>2, <1>3, <1>4, <1>5, <1>6, <1>7


\* The handlers that act in a tenant are told that it is locked.
LEMMA LockTold ==
  ASSUME GovInv, NEW n \in Tenants, NEW L,
         lock' = [lock EXCEPT ![n] = L], UNCHANGED <<role, invitations>>,
         NEW s \in Requests, Grows(s), req'[s] = AfterLocking(n, L)[s]
  PROVE  Told(s)
<1> DEFINE S == {r \in Requests : L # {} /\ ~At(r, "idle") /\ req[r].tenant = n}
<1>1. s \in S => "lock" \in req'[s].stale
  BY Halves, MarkedHistories DEF AfterLocking
<1>2. ~At(s, "idle") /\ lock'[req[s].tenant] # {} => Locked(req[s].tenant) \/ s \in S
  <2>1. \A m \in Tenants : lock'[m] = IF m = n THEN L ELSE lock[m]
    BY Halves DEF TablesInv, TableTypes
  <2> QED
    BY <2>1, Established DEF Locked
<1> HIDE DEF S
<1> QED
  BY <1>1, <1>2 DEF Told, Grows, Same, Locked, TargetOwns, ItemSpent, HasMembership

\* The locks are set or cleared.
LEMMA CurrentLocks ==
  ASSUME GovInv, CurrentInv,
         \/ \E r \in Requests : PatchLifecycle(r)
         \/ \E n \in Tenants : PlatformPatch(n)
  PROVE  CurrentInv'
<1>1. ASSUME NEW r \in Requests, PatchLifecycle(r) PROVE CurrentInv'
  <2>1. req[r].tenant \in Tenants
    BY <1>1, Established DEF PatchLifecycle, At
  <2>2. PICK L :
          /\ lock' = [lock EXCEPT ![req[r].tenant] = L]
          /\ req' = [AfterLocking(req[r].tenant, L) EXCEPT ![r] = IdleRequest]
    BY <1>1 DEF PatchLifecycle
  <2>3. req'[r] = IdleRequest /\ \A s \in Requests \ {r} : Grows(s)
    BY <2>2, Halves, EndGrows DEF AfterLocking
  <2>4. \A s \in Requests \ {r} : req'[s] = AfterLocking(req[r].tenant, L)[s]
    BY <2>2, Halves, MarkedRows DEF AfterLocking
  <2>5. \A s \in Requests \ {r} : Told(s)
    BY <1>1, <2>1, <2>2, <2>3, <2>4, LockTold DEF PatchLifecycle
  <2> QED
    BY <2>3, <2>5, NeutralCurrent, CurrentKept DEF IdleRequest, Neutral
<1>2. ASSUME NEW n \in Tenants, PlatformPatch(n) PROVE CurrentInv'
  <2>1. PICK L : lock' = [lock EXCEPT ![n] = L] /\ req' = AfterLocking(n, L)
    BY <1>2 DEF PlatformPatch
  <2>2. \A s \in Requests : Grows(s)
    BY <2>1, Halves, NobodyGrows DEF AfterLocking
  <2>3. \A s \in Requests : Told(s)
    BY <1>2, <2>1, <2>2, LockTold DEF PlatformPatch
  <2> QED
    BY <2>2, <2>3, CurrentKept
<1> QED
  BY <1>1, <1>2

\* The transfer is confirmed: the handlers that aim at the new owner are told.
LEMMA CurrentConfirmed ==
  ASSUME GovInv, CurrentInv, NEW x \in Transfers, ConfirmTransfer(x)
  PROVE  CurrentInv'
<1> DEFINE S == {r \in Targeting(transfers[x].to) : req[r].tenant = transfers[x].tenant}
<1>1. req' = Marked(S, "owner") /\ UNCHANGED <<lock, invitations>>
  BY DEF ConfirmTransfer
<1>2. \A s \in Requests : Grows(s) /\ (s \in S => "owner" \in req'[s].stale)
  BY <1>1, Halves, NobodyGrows, MarkedHistories
<1>3. ASSUME NEW s \in Requests PROVE Told(s)
  <2>1. Same(s)
    BY <1>2 DEF Grows
  <2>2. TargetRead(s) /\ role'[req[s].target][req[s].tenant] = "owner" => TargetOwns(s) \/ s \in S
    <3>1. TargetRead(s) => req[s].target \in Users /\ req[s].tenant \in Tenants
      BY Established DEF TargetRead, At, RolePCs, RemovePCs
    <3> QED
      BY <3>1, OwnershipPasses DEF TargetOwns, Targeting
  <2>3. At(s, "removeUser") /\ (\E m \in Tenants : role'[req[s].target][m] # "none")
          => HasMembership(req[s].target)
    <3>1. At(s, "removeUser") => req[s].target \in Users
      BY Established DEF At, RemovePCs
    <3> QED
      BY <3>1, OwnershipPasses DEF HasMembership
  <2> HIDE DEF S
  <2> QED
    BY <1>1, <1>2, <2>1, <2>2, <2>3 DEF Told, Same, Locked, TargetOwns, ItemSpent, HasMembership
<1> QED
  BY <1>2, <1>3, CurrentKept

\* What else happens without a handler.
LEMMA CurrentOtherSteps ==
  ASSUME GovInv, CurrentInv,
         \/ UNCHANGED vars
         \/ \E u \in Users : SignUp(u) \/ DeleteAccount(u)
         \/ \E i \in Invitations : ExpireInvitation(i)
         \/ \E x \in Transfers : ExpireTransfer(x)
  PROVE  CurrentInv'
<1>1. \A s \in Requests : Grows(s)
  BY DEF vars, SignUp, DeleteAccount, ExpireInvitation, ExpireTransfer, Grows, Same
<1>2. Calm
  <2>1. CASE UNCHANGED <<lock, role, invitations>>
    BY <2>1, CalmTables
  <2>2. ASSUME NEW u \in Users, DeleteAccount(u) PROVE Calm
    BY <2>2, AccountGone DEF DeleteAccount, Calm, Locked
  <2>3. ASSUME NEW i \in Invitations, ExpireInvitation(i) PROVE Calm
    <3>1. \A j \in Invitations : invitations'[j].status = invitations[j].status
      BY <2>3, Halves DEF ExpireInvitation, TablesInv, TableTypes, InvitationRow
    <3> QED
      BY <2>3, <3>1 DEF ExpireInvitation, Calm, Locked
  <2> QED
    BY <2>1, <2>2, <2>3 DEF vars, SignUp, ExpireTransfer
<1> QED
  BY <1>1, <1>2, CurrentKept

\* A handler starts: the look at an invitation finds it open and its tenant not locked.
LEMMA CurrentStarts ==
  ASSUME GovInv, CurrentInv, NEW r \in Requests, Arrive(r)
  PROVE  CurrentInv'
<1>1. PICK actor \in Users :
        \/ \E n \in Tenants :
             \/ BeginCreateUser(r, actor, n) \/ BeginInvite(r, actor, n)
             \/ BeginPatch(r, actor, n) \/ InsertTenant(r, actor, n)
             \/ \E u \in Users :
                  BeginSetRole(r, actor, n, u) \/ BeginRemove(r, actor, n, u)
                    \/ BeginTransfer(r, actor, n, u)
        \/ \E i \in Invitations, email \in Emails : LookupInvitation(r, actor, email, i)
  BY DEF Arrive
<1>2. ASSUME NEW n \in Tenants,
             \/ BeginCreateUser(r, actor, n) \/ BeginInvite(r, actor, n)
             \/ BeginPatch(r, actor, n)
             \/ \E u \in Users :
                  BeginSetRole(r, actor, n, u) \/ BeginRemove(r, actor, n, u)
                    \/ BeginTransfer(r, actor, n, u)
      PROVE  CurrentInv'
  <2>1. /\ UNCHANGED tables /\ \A s \in Requests \ {r} : Grows(s)
        /\ req'[r].pc \in Neutral
    BY <1>2, Starts DEF Neutral
  <2> QED
    BY <2>1, NeutralCurrent, CalmTables, CurrentKept DEF tables
<1>3. ASSUME NEW n \in Tenants, InsertTenant(r, actor, n) PROVE CurrentInv'
  <2>1. req'[r].pc \in Neutral /\ \A s \in Requests \ {r} : Grows(s)
    BY <1>3, Founding DEF Neutral
  <2>2. UNCHANGED <<lock, role, invitations>>
    BY <1>3 DEF InsertTenant
  <2> QED
    BY <2>1, <2>2, NeutralCurrent, CalmTables, CurrentKept
<1>4. ASSUME NEW i \in Invitations, NEW email \in Emails, LookupInvitation(r, actor, email, i)
      PROVE  CurrentInv'
  <2>1. /\ UNCHANGED tables /\ \A s \in Requests \ {r} : Grows(s)
        /\ req'[r].pc = "acceptExisting" /\ req'[r].tenant = invitations[i].tenant
        /\ req'[r].item = i /\ invitations[i].status = "open" /\ ~Locked(invitations[i].tenant)
    BY <1>4, LookedUp DEF Acceptable
  <2>2. Current(r)'
    BY <2>1 DEF Current, Locked, TargetRead, ItemSpent, At, tables
  <2> QED
    BY <2>1, <2>2, CalmTables, CurrentKept DEF tables
<1> QED
  BY <1>1, <1>2, <1>3, <1>4

\* CurrentInv holds initially, and every step keeps it.
LEMMA CurrentInvariance == Spec => []CurrentInv
<1>1. Init => CurrentInv
  BY DEF Init, CurrentInv, Current, Unlocked, TargetRead, InvitationRead, At, IdleRequest
<1>2. GovInv /\ Started /\ CurrentInv /\ [Next]_vars => CurrentInv'
  BY CurrentStarts, CurrentReadings, CurrentJoins, CurrentWrites, CurrentLocks,
     CurrentConfirmed, CurrentOtherSteps DEF Next, Resume
<1> QED
  BY <1>1, <1>2, Invariance, StartedInvariance, PTL DEF Spec

\* A handler acts on a locked tenant, an owner, a used invitation or somebody's member only
\* if it overlapped the change.
THEOREM OnlyRacesAreStale == Spec => []StaleOnlyByRace
<1>1. CurrentInv => StaleOnlyByRace
  BY DEF CurrentInv, Current, StaleOnlyByRace, TargetRead, TargetOwns, InvitationRead, ItemSpent
<1> QED
  BY <1>1, CurrentInvariance, PTL

-----------------------------------------------------------------------------
(* How a tenant loses its owner. *)

\* The closing of the account, or an overtaken handler.
LosesOwner(u) ==
  \/ user'[u] = "gone" /\ req' = req
  \/ \E r \in Requests :
       /\ req'[r] # req[r] /\ req[r].target = u
       /\ req[r].stale \cap {"owner", "joined"} # {}

\* The statements that take a membership away, or change it.
LEMMA OwnerWritten ==
  ASSUME GovInv, CurrentInv, NEW r \in Requests,
         RoleUpdate(r) \/ RemoveMember(r) \/ RemoveUser(r),
         NEW u \in Users, NEW n \in Tenants,
         role[u][n] = "owner", role'[u][n] # "owner"
  PROVE  LosesOwner(u)
<1>1. req'[r] # req[r]
  <2>1. CASE RoleUpdate(r) \/ RemoveUser(r)
    BY <2>1, Halves, EndGrows DEF RoleUpdate, RemoveUser, At, IdleRequest
  <2>2. CASE RemoveMember(r)
    BY <2>2, Halves, GoGrows DEF RemoveMember, Moves, At
  <2> QED
    BY <2>1, <2>2
<1>2. req[r].target \in Users /\ req[r].tenant \in Tenants
  BY Established DEF RoleUpdate, RemoveMember, RemoveUser, At, RolePCs, RemovePCs
<1>3. CASE RoleUpdate(r) \/ RemoveMember(r)
  <2>1. u = req[r].target /\ n = req[r].tenant
    <3>1. PICK ro \in Roles : role' = [role EXCEPT ![req[r].target][req[r].tenant] = ro]
      <4>1. UNCHANGED role => FALSE
        OBVIOUS
      <4> QED
        BY <1>3, <4>1 DEF RoleUpdate, RemoveMember, Roles
    <3>2. \A v \in Users, m \in Tenants :
            role'[v][m] = role[v][m] \/ (v = req[r].target /\ m = req[r].tenant)
      BY <1>2, <3>1, OneMembership
    <3> QED
      BY <3>2
  <2>2. TargetRead(r) /\ TargetOwns(r)
    BY <1>3, <2>1 DEF RoleUpdate, RemoveMember, At, TargetRead, TargetOwns
  <2> QED
    BY <1>1, <2>1, <2>2 DEF CurrentInv, Current, LosesOwner
<1>4. CASE RemoveUser(r)
  <2>1. u = req[r].target
    BY <1>2, <1>4, Halves DEF RemoveUser, DeleteUserRow, MembershipsWithout, TablesInv, TableTypes
  <2>2. At(r, "removeUser") /\ HasMembership(u)
    BY <1>4 DEF RemoveUser, HasMembership
  <2> QED
    BY <1>1, <2>1, <2>2 DEF CurrentInv, Current, LosesOwner
<1> QED
  BY <1>3, <1>4

\* A tenant loses its owner to the owner, who closes the account, or to a race.
THEOREM OwnersLostByRace == Spec => OwnerLostOnlyByRace
<1>1. GovInv /\ CurrentInv /\ [Next]_vars =>
        [\A n \in Tenants, u \in Users : role[u][n] = "owner" /\ ~Owned(n)' =>
           \/ user'[u] = "gone" /\ req' = req
           \/ \E r \in Requests :
                /\ req'[r] # req[r] /\ req[r].target = u
                /\ req[r].stale \cap {"owner", "joined"} # {}]_vars
  <2> SUFFICES ASSUME GovInv, CurrentInv, Next, NEW n \in Tenants, NEW u \in Users,
                      role[u][n] = "owner", ~Owned(n)'
               PROVE  LosesOwner(u)
    BY DEF LosesOwner
  <2>1. \A v \in Users : role'[v][n] # "owner"
    BY DEF Owned
  <2>2. ASSUME UNCHANGED role PROVE FALSE
    BY <2>1, <2>2
  <2>3. ASSUME NEW r \in Requests, Arrive(r) PROVE FALSE
    BY <2>2, <2>3 DEF Arrive, BeginCreateUser, BeginInvite, BeginPatch, InsertTenant,
       BeginSetRole, BeginRemove, BeginTransfer, LookupInvitation, Begin, tables
  <2>4. ASSUME NEW r \in Requests,
               \/ CreateGuard(r) \/ RoleGuard(r) \/ RoleTarget(r) \/ RoleSelect(r)
               \/ RemoveTarget(r) \/ RemoveGuard(r) \/ RemoveCount(r) \/ InviteGuard(r)
               \/ AcceptExisting(r) \/ TransferFrom(r) \/ TransferTo(r) \/ Crash(r)
        PROVE  FALSE
    BY <2>2, <2>4, Readings DEF rows
  <2>5. ASSUME NEW r \in Requests,
               \/ CreateUserRow(r) \/ InsertInvitation(r) \/ AcceptSpend(r)
               \/ InsertTransfer(r) \/ PatchLifecycle(r)
        PROVE  FALSE
    BY <2>2, <2>5
       DEF CreateUserRow, InsertInvitation, AcceptSpend, InsertTransfer, PatchLifecycle
  <2>6. ASSUME NEW r \in Requests, CreateMembership(r) \/ AcceptJoin(r) \/ InsertOwner(r)
        PROVE  FALSE
    <3>1. \/ UNCHANGED role
          \/ \E v \in Users, m \in Tenants, ro \in Roles :
               role[v][m] = "none" /\ role' = [role EXCEPT ![v][m] = ro]
      BY <2>6, Established
         DEF CreateMembership, AcceptJoin, InsertOwner, CanInsertMember, InsertMember, At, Roles
    <3>2. ASSUME NEW v \in Users, NEW m \in Tenants, NEW ro \in Roles,
                 role[v][m] = "none", role' = [role EXCEPT ![v][m] = ro]
          PROVE  role'[u][n] = "owner"
      BY <3>2, OneMembership
    <3> QED
      BY <2>1, <3>1, <3>2
  <2>7. ASSUME NEW x \in Transfers, ConfirmTransfer(x) PROVE FALSE
    BY <2>1, <2>7, OwnershipPasses
  <2>8. ASSUME NEW v \in Users, DeleteAccount(v) PROVE LosesOwner(u)
    <3>1. u = v
      BY <2>1, <2>8, Halves
         DEF DeleteAccount, DeleteUserRow, MembershipsWithout, TablesInv, TableTypes
    <3>2. user' = [user EXCEPT ![v] = "gone"] /\ UNCHANGED req
      BY <2>8 DEF DeleteAccount, DeleteUserRow
    <3> QED
      BY <3>1, <3>2, Halves DEF LosesOwner, TablesInv, TableTypes
  <2>9. ASSUME \/ \E v \in Users : SignUp(v)
               \/ \E i \in Invitations : ExpireInvitation(i)
               \/ \E x \in Transfers : ExpireTransfer(x)
               \/ \E m \in Tenants : PlatformPatch(m)
        PROVE  FALSE
    BY <2>2, <2>9 DEF SignUp, ExpireInvitation, ExpireTransfer, PlatformPatch
  <2>10. ASSUME NEW r \in Requests, RoleUpdate(r) \/ RemoveMember(r) \/ RemoveUser(r)
         PROVE  LosesOwner(u)
    BY <2>1, <2>10, OwnerWritten
  <2> QED
    BY <2>3, <2>4, <2>5, <2>6, <2>7, <2>8, <2>9, <2>10 DEF Next, Resume
<1> QED
  BY <1>1, Invariance, CurrentInvariance, PTL DEF Spec, OwnerLostOnlyByRace

-----------------------------------------------------------------------------
(* The handlers implement the ownership of tenants. *)

\* A statement that writes leads a handler to its end, or to one of three statements.
LEMMA Writings ==
  ASSUME GovInv, NEW r \in Requests,
         \/ CreateUserRow(r) \/ CreateMembership(r) \/ RoleUpdate(r) \/ RemoveMember(r)
         \/ RemoveUser(r) \/ InsertInvitation(r) \/ AcceptJoin(r) \/ AcceptSpend(r)
         \/ InsertTransfer(r) \/ InsertOwner(r) \/ PatchLifecycle(r)
  PROVE  /\ \A s \in Requests \ {r} : Grows(s)
         /\ req'[r].pc \in {"idle", "createMember", "removeCount", "acceptSpend"}
<1>1. CASE \/ Finish(r)
           \/ \E S \in SUBSET Requests, what \in {"lock", "owner", "spent", "joined"} :
                req' = [Marked(S, what) EXCEPT ![r] = IdleRequest]
  BY <1>1, Halves, EndGrows DEF IdleRequest
<1>2. CASE RemoveMember(r)
  BY <1>2, Halves, GoGrows DEF RemoveMember, Moves
<1>3. CASE CreateUserRow(r)
  <2>1. PICK u \in Users :
          req' = [req EXCEPT ![r] = [req[r] EXCEPT !.pc = "createMember", !.target = u]]
    BY <1>3 DEF CreateUserRow
  <2>2. [req[r] EXCEPT !.pc = "createMember", !.target = u].pc = "createMember"
    BY Established DEF Request
  <2> QED
    BY <2>1, <2>2, Halves, OneGrows
<1>4. ASSUME AcceptJoin(r), ~Finish(r)
      PROVE  Moves(r, "acceptJoin", "acceptSpend") /\ \A s \in Requests \ {r} : Grows(s)
  <2>1. /\ At(r, "acceptJoin")
        /\ req' = [Marked(Targeting(req[r].actor), "joined") EXCEPT ![r].pc = "acceptSpend"]
    BY <1>4 DEF AcceptJoin
  <2> QED
    BY <2>1, Halves, GoGrows
<1>5. CASE \/ CreateMembership(r) \/ RoleUpdate(r) \/ RemoveUser(r) \/ InsertInvitation(r)
           \/ AcceptSpend(r) \/ InsertTransfer(r) \/ InsertOwner(r) \/ PatchLifecycle(r)
  BY <1>1, <1>5
     DEF CreateMembership, RoleUpdate, RemoveUser, InsertInvitation, AcceptSpend,
         InsertTransfer, InsertOwner, PatchLifecycle, AfterLocking, Targeting, Accepting
<1> QED
  BY <1>1, <1>2, <1>3, <1>4, <1>5 DEF Moves

\* Nobody is about to ask for a transfer to himself.
EndsDiffer == \A r \in Requests : At(r, "transferInsert") => req[r].target # req[r].actor

LEMMA EndsDifferInvariance == Spec => []EndsDiffer
<1>1. Init => EndsDiffer
  BY DEF Init, EndsDiffer, At, IdleRequest
<1>2. GovInv /\ EndsDiffer /\ [Next]_vars => EndsDiffer'
  <2> SUFFICES ASSUME GovInv, EndsDiffer, [Next]_vars, NEW s \in Requests,
                      req'[s].pc = "transferInsert"
               PROVE  req'[s].target # req'[s].actor
    BY DEF EndsDiffer, At
  <2>1. CASE Grows(s)
    BY <2>1 DEF EndsDiffer, At, Grows, Same
  <2>2. ASSUME NEW r \in Requests, Arrive(r)
        PROVE  Grows(s)
    <3>1. (\A q \in Requests \ {r} : Grows(q)) /\ req'[r].pc # "transferInsert"
      BY <2>2, Starts, Founding, LookedUp DEF Arrive
    <3> QED
      BY <3>1
  <2>3. ASSUME NEW r \in Requests,
               \/ CreateUserRow(r) \/ CreateMembership(r) \/ RoleUpdate(r) \/ RemoveMember(r)
               \/ RemoveUser(r) \/ InsertInvitation(r) \/ AcceptJoin(r) \/ AcceptSpend(r)
               \/ InsertTransfer(r) \/ InsertOwner(r) \/ PatchLifecycle(r)
        PROVE  Grows(s)
    <3>1. (\A q \in Requests \ {r} : Grows(q)) /\ req'[r].pc # "transferInsert"
      BY <2>3, Writings
    <3> QED
      BY <3>1
  <2>4. ASSUME NEW r \in Requests,
               \/ CreateGuard(r) \/ RoleGuard(r) \/ RoleTarget(r) \/ RoleSelect(r)
               \/ RemoveTarget(r) \/ RemoveGuard(r) \/ RemoveCount(r) \/ InviteGuard(r)
               \/ AcceptExisting(r) \/ TransferFrom(r) \/ TransferTo(r) \/ Crash(r)
        PROVE  Grows(s) \/ req'[s].target # req'[s].actor
    BY <2>4, Readings DEF Moves, IdleRequest
  <2>5. CASE \/ UNCHANGED vars
             \/ \E u \in Users : SignUp(u) \/ DeleteAccount(u)
             \/ \E i \in Invitations : ExpireInvitation(i)
             \/ \E x \in Transfers : ConfirmTransfer(x) \/ ExpireTransfer(x)
             \/ \E n \in Tenants : PlatformPatch(n)
    <3>1. \/ req' = req
          \/ \E S \in SUBSET Requests, what \in {"lock", "owner", "spent", "joined"} :
               req' = Marked(S, what)
      BY <2>5 DEF vars, SignUp, DeleteAccount, ExpireInvitation, ConfirmTransfer,
                  ExpireTransfer, PlatformPatch, AfterLocking, Targeting
    <3> QED
      BY <2>1, <3>1, Halves, NobodyGrows
  <2> QED
    BY <2>1, <2>2, <2>3, <2>4, <2>5 DEF Next, Resume
<1> QED
  BY <1>1, <1>2, Invariance, PTL DEF Spec

\* What an outside observer sees of a tenant does not change.
SameOwnership(n) ==
  Phase(n)' = Phase(n) /\ Holder(n)' = Holder(n) /\ Offers(n)' = Offers(n)

\* A tenant that does not exist yet, or is being founded, is nobody's: the phases exclude
\* one another.
LEMMA Phases ==
  ASSUME GovInv, NEW n \in Tenants
  PROVE  /\ n \notin born => Phase(n) = "unborn"
         /\ n \in born /\ tenure[n] = 0 => Phase(n) = "founding"
         /\ n \in born /\ tenure[n] # 0 /\ Owned(n) => Phase(n) = "owned"
         /\ n \in born /\ tenure[n] # 0 /\ ~Owned(n) => Phase(n) = "lost"
<1>1. (n \notin born => ~Owned(n)) /\ (tenure[n] = 0 => ~Owned(n))
  BY Halves DEF TablesInv, ForeignKeys, TenureShape, Owned
<1> QED
  BY <1>1 DEF Phase

\* The same after a step.
LEMMA PhasesNext ==
  ASSUME GovInv', NEW n \in Tenants
  PROVE  /\ n \notin born' => Phase(n)' = "unborn"
         /\ n \in born' /\ tenure'[n] = 0 => Phase(n)' = "founding"
         /\ n \in born' /\ tenure'[n] # 0 /\ Owned(n)' => Phase(n)' = "owned"
         /\ n \in born' /\ tenure'[n] # 0 /\ ~Owned(n)' => Phase(n)' = "lost"
<1>1. (n \notin born' => ~Owned(n)') /\ (tenure'[n] = 0 => ~Owned(n)')
  BY DEF GovInv, TypeOK, FounderAlone, Owned
<1> QED
  BY <1>1 DEF Phase

\* The steps of the abstract specification, in terms of the tables.
LEMMA FoundMaps ==
  ASSUME NEW n \in Tenants, Phase(n) = "unborn", Phase(n)' = "founding",
         Holder(n)' = Holder(n), Offers(n)' = Offers(n),
         \A m \in Tenants \ {n} : SameOwnership(m)
  PROVE  Ownership!Found(n)
  BY DEF Ownership!Found, SameOwnership

\* A handler gives the tenant its first holder.
LEMMA SettleMaps ==
  ASSUME NEW n \in Tenants, NEW u \in Users, Phase(n) = "founding", Phase(n)' = "owned",
         Holder(n)' = {u}, Offers(n)' = Offers(n),
         \A m \in Tenants \ {n} : SameOwnership(m)
  PROVE  Ownership!Settle(n, u)
  BY DEF Ownership!Settle, SameOwnership

\* The holder offers the tenant to one more user.
LEMMA OfferMaps ==
  ASSUME NEW n \in Tenants, NEW u \in Users, Phase(n) = "owned", u \notin Holder(n),
         Phase(n)' = Phase(n), Holder(n)' = Holder(n), Offers(n)' = Offers(n) \cup {u},
         \A m \in Tenants \ {n} : SameOwnership(m)
  PROVE  Ownership!Offer(n, u)
  BY DEF Ownership!Offer, SameOwnership

\* The tenant passes to one it was offered to.
LEMMA PassMaps ==
  ASSUME NEW n \in Tenants, NEW u \in Users, Phase(n) = "owned", u \in Offers(n),
         Phase(n)' = Phase(n), Holder(n)' = {u}, Offers(n)' = {},
         \A m \in Tenants \ {n} : SameOwnership(m)
  PROVE  Ownership!Pass(n, u)
  BY DEF Ownership!Pass, SameOwnership

\* The tenants in S lose their holder, and the offers to those who go end.
LEMMA DepartMaps ==
  ASSUME NEW S \in SUBSET Tenants, NEW gone,
         \A n \in S :
           Phase(n) = "owned" /\ Phase(n)' = "lost" /\ Holder(n)' = {} /\ Offers(n)' = {},
         \A n \in Tenants \ S :
           Phase(n)' = Phase(n) /\ Holder(n)' = Holder(n) /\ Offers(n)' = Offers(n) \ gone
  PROVE  Ownership!Depart(S, gone)
  BY DEF Ownership!Depart

\* The request of row x is pending for tenant n after a step if it was before.
SameRequest(x, n) ==
  LET pending == transfers[x].status = "pending" /\ transfers[x].tenant = n IN
  /\ pending' <=> pending
  /\ pending => transfers'[x].from = transfers[x].from /\ transfers'[x].to = transfers[x].to

\* A step that leaves alone the owner, the tenure and the pending requests of a tenant.
LEMMA OwnershipKept ==
  ASSUME GovInv, GovInv', NEW n \in Tenants,
         n \in born' <=> n \in born, tenure'[n] = tenure[n],
         \A u \in Users : role'[u][n] = "owner" <=> role[u][n] = "owner",
         \A x \in Transfers : SameRequest(x, n)
  PROVE  SameOwnership(n)
<1>1. Owned(n)' <=> Owned(n)
  BY DEF Owned
<1>2. Phase(n)' = Phase(n)
  BY <1>1, Phases, PhasesNext
<1>3. Holder(n)' = Holder(n)
  BY DEF Holder
<1>4. Offers(n)' = Offers(n)
  BY <1>3 DEF Offers, SameRequest
<1> QED
  BY <1>2, <1>3, <1>4 DEF SameOwnership

\* A step that leaves every tenant alone stutters.
LEMMA OwnershipStutters ==
  ASSUME \A n \in Tenants : SameOwnership(n)
  PROVE  UNCHANGED Ownership!ovars
  BY DEF Ownership!ovars, SameOwnership

\* Most steps change no ownership, no tenure and no request.
LEMMA MostStutter ==
  ASSUME GovInv, GovInv', UNCHANGED <<born, tenure, transfers>>,
         \A u \in Users, n \in Tenants : role'[u][n] = "owner" <=> role[u][n] = "owner"
  PROVE  UNCHANGED Ownership!ovars
<1>1. \A x \in Transfers, n \in Tenants : SameRequest(x, n)
  BY DEF SameRequest
<1> QED
  BY <1>1, OwnershipKept, OwnershipStutters

\* A tenant is founded.
LEMMA FoundingMaps ==
  ASSUME GovInv, GovInv', NEW r \in Requests, NEW actor \in Users, NEW n \in Tenants,
         InsertTenant(r, actor, n)
  PROVE  Ownership!Found(n)
<1>1. /\ n \notin born /\ born' = born \cup {n} /\ tenure[n] = 0
      /\ UNCHANGED <<role, transfers, tenure>>
  BY Halves DEF InsertTenant, FreshTenant, TablesInv, TenureShape
<1>2. \A x \in Transfers, m \in Tenants : SameRequest(x, m)
  BY <1>1 DEF SameRequest
<1>3. \A m \in Tenants \ {n} : SameOwnership(m)
  BY <1>1, <1>2, OwnershipKept
<1>4. Phase(n) = "unborn" /\ Phase(n)' = "founding"
  BY <1>1, Phases, PhasesNext
<1>5. Holder(n)' = Holder(n) /\ Offers(n)' = Offers(n)
  BY <1>1 DEF Holder, Offers
<1> QED
  BY <1>3, <1>4, <1>5, FoundMaps

\* The founder becomes the owner of a tenant for which nothing is pending.
LEMMA SettlingMaps ==
  ASSUME GovInv, GovInv', NEW r \in Requests, InsertOwner(r)
  PROVE  \/ UNCHANGED Ownership!ovars
         \/ \E n \in Tenants, u \in Users : Ownership!Settle(n, u)
<1>1. PICK u \in Users, n \in Tenants :
        /\ u = req[r].actor /\ n = req[r].tenant
        /\ n \in born /\ tenure[n] = 0 /\ UNCHANGED <<born, transfers>>
  BY Established, Halves DEF InsertOwner, At, HandlersInv, HandlerShape
<1>2. CASE UNCHANGED <<role, tenure>>
  BY <1>1, <1>2, MostStutter
<1>3. CASE role' = [role EXCEPT ![u][n] = "owner"] /\ tenure' = [tenure EXCEPT ![n] = @ + 1]
  <2>1. \A v \in Users, m \in Tenants :
          role'[v][m] = IF v = u /\ m = n THEN "owner" ELSE role[v][m]
    <3>1. "owner" \in Roles
      BY DEF Roles
    <3> QED
      BY <1>1, <1>3, <3>1, Halves, RoleWritten DEF TablesInv, TableTypes
  <2>2. \A m \in Tenants : tenure'[m] = IF m = n THEN 1 ELSE tenure[m]
    BY <1>1, <1>3, Halves DEF TablesInv, TableTypes
  <2>3. \A m \in Tenants \ {n} : SameOwnership(m)
    <3>1. \A x \in Transfers, m \in Tenants : SameRequest(x, m)
      BY <1>1 DEF SameRequest
    <3> QED
      BY <1>1, <2>1, <2>2, <3>1, OwnershipKept
  <2>4. Holder(n)' = {u}
    <3>1. \A v \in Users : role[v][n] # "owner"
      BY <1>1, Halves DEF TablesInv, TenureShape
    <3> QED
      BY <1>1, <2>1, <3>1 DEF Holder
  <2>5. Offers(n)' = Offers(n)
    <3>1. \A x \in Transfers : ~(transfers[x].status = "pending" /\ transfers[x].tenant = n)
      BY <1>1, Halves DEF TablesInv, TransferShape
    <3> QED
      BY <1>1, <3>1 DEF Offers
  <2>6. Phase(n) = "founding" /\ Phase(n)' = "owned"
    <3>1. Owned(n)'
      BY <1>1, <2>1 DEF Owned
    <3> QED
      BY <1>1, <2>2, <3>1, Phases, PhasesNext
  <2> QED
    BY <1>1, <2>3, <2>4, <2>5, <2>6, SettleMaps
<1> QED
  BY <1>1, <1>2, <1>3 DEF InsertOwner, InsertMember

\* A request for transfer is an offer, if the one who makes it still owns the tenant.
LEMMA OfferingMaps ==
  ASSUME GovInv, GovInv', EndsDiffer, NEW r \in Requests, InsertTransfer(r)
  PROVE  \/ UNCHANGED Ownership!ovars
         \/ \E n \in Tenants, u \in Users : Ownership!Offer(n, u)
<1>1. PICK n \in Tenants, from \in Users, to \in Users :
        /\ n = req[r].tenant /\ from = req[r].actor /\ to = req[r].target
        /\ n \in born /\ tenure[n] # 0 /\ to # from /\ UNCHANGED <<born, role, tenure>>
  <2>1. /\ req[r].tenant \in Tenants /\ req[r].actor \in Users /\ req[r].target \in Users
        /\ req[r].tenant \in born /\ tenure[req[r].tenant] # 0
    BY Established, Halves
       DEF InsertTransfer, At, TransferPCs, HandlersInv, HandlerShape, TablesInv, TableTypes
  <2>2. req[r].target # req[r].actor /\ UNCHANGED <<born, role, tenure>>
    BY DEF InsertTransfer, EndsDiffer
  <2> QED
    BY <2>1, <2>2
<1>2. CASE UNCHANGED transfers
  BY <1>1, <1>2, MostStutter
<1>3. ASSUME NEW x \in Transfers, transfers[x].status = "free",
             transfers' = [transfers EXCEPT ![x] =
               [status |-> "pending", tenant |-> n, from |-> from,
                to |-> to, expired |-> FALSE, tenure |-> tenure[n]]]
      PROVE  \/ UNCHANGED Ownership!ovars
             \/ \E m \in Tenants, u \in Users : Ownership!Offer(m, u)
  <2>1. /\ transfers'[x].status = "pending" /\ transfers'[x].tenant = n
        /\ transfers'[x].from = from /\ transfers'[x].to = to
        /\ \A y \in Transfers \ {x} : transfers'[y] = transfers[y]
    BY <1>3, Halves DEF TablesInv, TableTypes
  <2>2. \A m \in Tenants \ {n} : SameOwnership(m)
    <3>1. \A m \in Tenants \ {n}, y \in Transfers : SameRequest(y, m)
      BY <1>3, <2>1 DEF SameRequest
    <3> QED
      BY <1>1, <3>1, OwnershipKept
  <2>3. Holder(n)' = Holder(n) /\ Owned(n)' = Owned(n)
    BY <1>1 DEF Holder, Owned
  <2>4. Phase(n)' = Phase(n)
    BY <1>1, <2>3, Phases, PhasesNext
  <2>5. Offers(n)' = IF from \in Holder(n) THEN Offers(n) \cup {to} ELSE Offers(n)
    <3>1. \A u \in Users : u \in Offers(n)' <=>
            u \in Offers(n) \/ (from \in Holder(n) /\ u = to)
      BY <1>3, <2>1, <2>3 DEF Offers
    <3> QED
      BY <1>1, <3>1 DEF Offers
  <2>6. CASE from \in Holder(n)
    <3>1. to \notin Holder(n)
      BY <1>1, <2>6, Halves DEF Holder, TablesInv, AtMostOneOwner
    <3>2. Phase(n) = "owned"
      BY <1>1, <2>6, Phases DEF Holder, Owned
    <3> QED
      BY <1>1, <2>2, <2>3, <2>4, <2>5, <2>6, <3>1, <3>2, OfferMaps
  <2>7. CASE from \notin Holder(n)
    BY <2>2, <2>3, <2>4, <2>5, <2>7, OwnershipStutters DEF SameOwnership
  <2> QED
    BY <2>6, <2>7
<1> QED
  BY <1>1, <1>2, <1>3 DEF InsertTransfer

\* The confirmation of a request passes the ownership to the one it was offered to.
LEMMA PassingMaps ==
  ASSUME GovInv, GovInv', NEW x \in Transfers, ConfirmTransfer(x)
  PROVE  \E n \in Tenants, u \in Users : Ownership!Pass(n, u)
<1>1. PICK n \in Tenants, from \in Users, to \in Users :
        /\ n = transfers[x].tenant /\ from = transfers[x].from /\ to = transfers[x].to
        /\ transfers[x].status = "pending" /\ role[from][n] = "owner" /\ n \in born
  BY Halves DEF TablesInv, TableTypes, TransferShape, ConfirmTransfer, Confirmable
<1>2. /\ tenure' = [tenure EXCEPT ![n] = @ + 1] /\ transfers' = Settled(x)
      /\ born' = born
  BY <1>1 DEF ConfirmTransfer
<1>3. /\ role'[to][n] = "owner"
      /\ \A u \in Users, m \in Tenants \ {n} : role'[u][m] = role[u][m]
  BY <1>1, OwnershipPasses
<1>4. \A y \in Transfers : transfers'[y].status = "pending" =>
        transfers'[y] = transfers[y] /\ transfers[y].tenant # n
  BY <1>1, <1>2, Halves, SettledRows
<1>5. \A y \in Transfers : transfers[y].tenant # n => transfers'[y] = transfers[y]
  BY <1>1, <1>2 DEF Settled
<1>6. /\ \A m \in Tenants \ {n} : tenure'[m] = tenure[m]
      /\ tenure[n] # 0 /\ tenure'[n] # 0
  BY <1>1, <1>2, Halves DEF TablesInv, TableTypes, TenureShape
<1>7. \A m \in Tenants \ {n} : SameOwnership(m)
  <2>1. \A y \in Transfers, m \in Tenants \ {n} : SameRequest(y, m)
    BY <1>4, <1>5 DEF SameRequest
  <2> QED
    BY <1>2, <1>3, <1>6, <2>1, OwnershipKept
<1>8. Holder(n)' = {to}
  BY <1>3 DEF GovInv, AtMostOneOwner, Holder
<1>9. Offers(n)' = {}
  BY <1>4 DEF Offers
<1>10. to \in Offers(n)
  BY <1>1 DEF Offers, Holder
<1>11. Phase(n) = "owned" /\ Phase(n)' = "owned"
  <2>1. Owned(n) /\ Owned(n)'
    BY <1>1, <1>3 DEF Owned
  <2> QED
    BY <1>1, <1>2, <1>6, <2>1, Phases, PhasesNext
<1> QED
  BY <1>7, <1>8, <1>9, <1>10, <1>11, PassMaps

\* A request that expires is still pending.
LEMMA ExpiringStutters ==
  ASSUME GovInv, GovInv', NEW x \in Transfers, ExpireTransfer(x)
  PROVE  UNCHANGED Ownership!ovars
<1>1. transfers[x] \in TransferRow /\ transfers' = [transfers EXCEPT ![x].expired = TRUE]
  BY Halves DEF TablesInv, TableTypes, ExpireTransfer
<1>2. /\ transfers'[x].status = transfers[x].status
      /\ transfers'[x].tenant = transfers[x].tenant
      /\ transfers'[x].from = transfers[x].from /\ transfers'[x].to = transfers[x].to
      /\ \A y \in Transfers \ {x} : transfers'[y] = transfers[y]
  BY <1>1, Halves DEF TablesInv, TableTypes, TransferRow
<1>3. \A y \in Transfers, n \in Tenants : SameRequest(y, n)
  BY <1>2 DEF SameRequest
<1>4. UNCHANGED <<born, tenure, role>>
  BY DEF ExpireTransfer
<1> QED
  BY <1>3, <1>4, OwnershipKept, OwnershipStutters

\* A tenant whose owner's membership goes is lost, with the offers made by the owner.
LEMMA OwnerGone ==
  ASSUME GovInv, GovInv', NEW n \in Tenants, NEW u \in Users, role[u][n] = "owner",
         n \in born' <=> n \in born, tenure'[n] = tenure[n],
         \A v \in Users : role'[v][n] = "owner" => v # u /\ role[v][n] = "owner"
  PROVE  Phase(n) = "owned" /\ Phase(n)' = "lost" /\ Holder(n)' = {} /\ Offers(n)' = {}
<1>1. n \in born /\ tenure[n] # 0 /\ Owned(n)
  BY Halves DEF TablesInv, ForeignKeys, TenureShape, Owned
<1>2. \A v \in Users : role'[v][n] # "owner"
  BY Halves DEF TablesInv, AtMostOneOwner
<1>3. ~Owned(n)'
  BY <1>2 DEF Owned
<1>4. Holder(n)' = {}
  BY <1>2 DEF Holder
<1>5. Offers(n)' = {}
  BY <1>4 DEF Offers
<1> QED
  BY <1>1, <1>3, <1>4, <1>5, Phases, PhasesNext

\* A handler that changes or removes the membership of an owner takes the tenant's owner.
LEMMA LosingMaps ==
  ASSUME GovInv, GovInv', NEW r \in Requests, RoleUpdate(r) \/ RemoveMember(r)
  PROVE  \/ UNCHANGED Ownership!ovars
         \/ \E S \in SUBSET Tenants : Ownership!Depart(S, {})
<1>1. PICK u \in Users, n \in Tenants : u = req[r].target /\ n = req[r].tenant
  BY Established DEF RoleUpdate, RemoveMember, At, RolePCs, RemovePCs
<1>2. UNCHANGED <<born, tenure, transfers>>
  BY DEF RoleUpdate, RemoveMember
<1>3. CASE UNCHANGED role
  BY <1>2, <1>3, MostStutter
<1>4. ASSUME NEW ro \in {"admin", "member", "none"}, role' = [role EXCEPT ![u][n] = ro]
      PROVE  \/ UNCHANGED Ownership!ovars
             \/ \E S \in SUBSET Tenants : Ownership!Depart(S, {})
  <2>1. \A v \in Users, m \in Tenants :
          role'[v][m] = IF v = u /\ m = n THEN ro ELSE role[v][m]
    BY <1>4, Halves, RoleWritten DEF TablesInv, TableTypes, Roles
  <2>2. CASE role[u][n] # "owner"
    BY <1>2, <2>1, <2>2, MostStutter
  <2>3. CASE role[u][n] = "owner"
    <3>1. Phase(n) = "owned" /\ Phase(n)' = "lost" /\ Holder(n)' = {} /\ Offers(n)' = {}
      BY <1>2, <2>1, <2>3, OwnerGone
    <3>2. \A x \in Transfers, m \in Tenants : SameRequest(x, m)
      BY <1>2 DEF SameRequest
    <3>3. \A m \in Tenants \ {n} : SameOwnership(m)
      BY <1>2, <2>1, <3>2, OwnershipKept
    <3>4. Ownership!Depart({n}, {})
      BY <3>1, <3>3, DepartMaps DEF SameOwnership
    <3> QED
      BY <3>4
  <2> QED
    BY <2>2, <2>3
<1> QED
  BY <1>1, <1>3, <1>4 DEF RoleUpdate, RemoveMember

\* An account that goes leaves the tenants it owned, and every offer made to it.
LEMMA LeavingMaps ==
  ASSUME GovInv, GovInv', NEW u \in Users, DeleteUserRow(u)
  PROVE  \E S \in SUBSET Tenants : Ownership!Depart(S, {u})
<1> DEFINE S == {n \in Tenants : role[u][n] = "owner"}
<1>1. \A v \in Users, m \in Tenants :
        role'[v][m] = IF v = u THEN "none" ELSE role[v][m]
  BY Halves DEF DeleteUserRow, MembershipsWithout, TablesInv, TableTypes
<1>2. UNCHANGED <<born, tenure>>
  BY DEF DeleteUserRow
<1>3. ASSUME NEW n \in S
      PROVE  Phase(n) = "owned" /\ Phase(n)' = "lost" /\ Holder(n)' = {} /\ Offers(n)' = {}
  BY <1>1, <1>2, OwnerGone
<1>4. ASSUME NEW n \in Tenants \ S
      PROVE  Phase(n)' = Phase(n) /\ Holder(n)' = Holder(n) /\ Offers(n)' = Offers(n) \ {u}
  <2>1. \A v \in Users : role'[v][n] = "owner" <=> role[v][n] = "owner"
    BY <1>1
  <2>2. Holder(n)' = Holder(n) /\ (Owned(n)' <=> Owned(n)) /\ u \notin Holder(n)
    BY <2>1 DEF Holder, Owned
  <2>3. \A x \in Transfers :
          transfers'[x] = IF u \in {transfers[x].from, transfers[x].to}
                            THEN [FreeTransfer EXCEPT !.status = "gone"] ELSE transfers[x]
    BY DEF DeleteUserRow
  <2>4. [FreeTransfer EXCEPT !.status = "gone"].status # "pending"
    BY DEF FreeTransfer
  <2>5. \A v \in Users : v \in Offers(n)' <=> v \in Offers(n) /\ v # u
    BY <2>2, <2>3, <2>4 DEF Offers
  <2>6. Offers(n)' = Offers(n) \ {u}
    BY <2>5 DEF Offers
  <2> QED
    BY <1>2, <2>2, <2>6, Phases, PhasesNext
<1>5. Ownership!Depart(S, {u})
  BY <1>3, <1>4, DepartMaps
<1> QED
  BY <1>5

\* The statements that write, of a handler.
LEMMA WritingsMap ==
  ASSUME GovInv, GovInv', EndsDiffer, NEW r \in Requests, Resume(r)
  PROVE  [Ownership!Next]_(Ownership!ovars)
<1>1. CASE \/ CreateGuard(r) \/ RoleGuard(r) \/ RoleTarget(r) \/ RoleSelect(r)
           \/ RemoveTarget(r) \/ RemoveGuard(r) \/ RemoveCount(r) \/ InviteGuard(r)
           \/ AcceptExisting(r) \/ TransferFrom(r) \/ TransferTo(r)
  BY <1>1, Readings, MostStutter DEF rows
<1>2. CASE CreateUserRow(r) \/ InsertInvitation(r) \/ AcceptSpend(r) \/ PatchLifecycle(r)
  BY <1>2, MostStutter DEF CreateUserRow, InsertInvitation, AcceptSpend, PatchLifecycle
<1>3. CASE CreateMembership(r) \/ AcceptJoin(r)
  <2>1. UNCHANGED <<born, tenure, transfers>>
    BY <1>3 DEF CreateMembership, AcceptJoin
  <2>2. PICK u \in Users, n \in Tenants :
          UNCHANGED role \/ (role[u][n] = "none" /\ role' = [role EXCEPT ![u][n] = "member"])
    BY <1>3, Established
       DEF CreateMembership, AcceptJoin, At, AcceptPCs, CanInsertMember, InsertMember
  <2>3. CASE role[u][n] = "none" /\ role' = [role EXCEPT ![u][n] = "member"]
    <3>1. \A v \in Users, m \in Tenants :
            role'[v][m] = IF v = u /\ m = n THEN "member" ELSE role[v][m]
      BY <2>3, Halves, RoleWritten DEF TablesInv, TableTypes, Roles
    <3> QED
      BY <2>1, <2>3, <3>1, MostStutter
  <2> QED
    BY <2>1, <2>2, <2>3, MostStutter
<1>4. CASE RoleUpdate(r) \/ RemoveMember(r)
  BY <1>4, LosingMaps DEF Ownership!Next
<1>5. CASE RemoveUser(r)
  <2>1. req[r].target \in Users /\ DeleteUserRow(req[r].target)
    BY <1>5, Established DEF RemoveUser, At, RemovePCs
  <2> QED
    BY <2>1, LeavingMaps DEF Ownership!Next
<1>6. CASE InsertTransfer(r)
  BY <1>6, OfferingMaps DEF Ownership!Next
<1>7. CASE InsertOwner(r)
  BY <1>7, SettlingMaps DEF Ownership!Next
<1> QED
  BY <1>1, <1>2, <1>3, <1>4, <1>5, <1>6, <1>7 DEF Resume

\* The initial tenants are unborn or have their owner.
LEMMA OwnershipStarts == Init => Ownership!Init
<1> SUFFICES ASSUME Init PROVE Ownership!Init
  OBVIOUS
<1>1. GovInv
  BY InitInv
<1>2. ASSUME NEW n \in Tenants
      PROVE  /\ Phase(n) \in {"unborn", "owned"} /\ Holder(n) \in SUBSET Users
             /\ IF Phase(n) = "owned" THEN \E u \in Users : Holder(n) = {u} ELSE Holder(n) = {}
             /\ Offers(n) = {}
  <2>1. Offers(n) = {}
    BY DEF Init, FreeTransfer, Offers
  <2>2. CASE n \in born
    <3>1. PICK u \in Users :
            role[u][n] = "owner" /\ \A v \in Users \ {u} : role[v][n] # "owner"
      BY <2>2 DEF Init
    <3>2. Holder(n) = {u} /\ Owned(n) /\ tenure[n] # 0
      BY <2>2, <3>1 DEF Init, Holder, Owned
    <3> QED
      BY <1>1, <2>1, <2>2, <3>2, Phases
  <2>3. CASE n \notin born
    <3>1. Holder(n) = {}
      BY <2>3 DEF Init, Holder
    <3> QED
      BY <1>1, <2>1, <2>3, <3>1, Phases
  <2> QED
    BY <2>2, <2>3
<1> QED
  BY <1>2 DEF Ownership!Init

\* The handlers implement the ownership of tenants: it has one holder, passes only to
\* whom the holder offered it, and once lost it stays lost.
THEOREM OwnershipImplemented == Spec => ImplementsOwnership
<1>1. Init => Ownership!Init
  BY OwnershipStarts
<1>2. GovInv /\ GovInv' /\ EndsDiffer /\ [Next]_vars => [Ownership!Next]_(Ownership!ovars)
  <2> SUFFICES ASSUME GovInv, GovInv', EndsDiffer, [Next]_vars
               PROVE  [Ownership!Next]_(Ownership!ovars)
    OBVIOUS
  <2>1. ASSUME NEW r \in Requests, Arrive(r) PROVE [Ownership!Next]_(Ownership!ovars)
    <3>1. CASE \E actor \in Users, n \in Tenants : InsertTenant(r, actor, n)
      BY <3>1, FoundingMaps DEF Ownership!Next
    <3>2. CASE UNCHANGED tables
      BY <3>2, MostStutter DEF tables
    <3> QED
      BY <2>1, <3>1, <3>2 DEF Arrive, BeginCreateUser, BeginInvite, BeginPatch,
         BeginSetRole, BeginRemove, BeginTransfer, LookupInvitation, Begin
  <2>2. ASSUME NEW x \in Transfers, ConfirmTransfer(x)
        PROVE  [Ownership!Next]_(Ownership!ovars)
    BY <2>2, PassingMaps DEF Ownership!Next
  <2>3. ASSUME NEW u \in Users, DeleteAccount(u) PROVE [Ownership!Next]_(Ownership!ovars)
    BY <2>3, LeavingMaps DEF DeleteAccount, Ownership!Next
  <2>4. CASE \/ UNCHANGED vars
             \/ \E r \in Requests : Crash(r)
             \/ \E u \in Users : SignUp(u)
             \/ \E i \in Invitations : ExpireInvitation(i)
             \/ \E n \in Tenants : PlatformPatch(n)
    BY <2>4, MostStutter
       DEF vars, Crash, SignUp, ExpireInvitation, PlatformPatch
  <2> QED
    BY <2>1, <2>2, <2>3, <2>4, WritingsMap, ExpiringStutters DEF Next
<1> QED
  BY <1>1, <1>2, Invariance, EndsDifferInvariance, PTL
     DEF Spec, ImplementsOwnership, Ownership!Spec
=============================================================================
