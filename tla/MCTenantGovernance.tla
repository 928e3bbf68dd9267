------------------------- MODULE MCTenantGovernance -------------------------
(***************************************************************************)
(* Instances of TenantGovernance for TLC.                                  *)
(***************************************************************************)
EXTENDS TenantGovernance, FiniteSets, TLC

CONSTANTS u1, u2, u3, n1, n2, a1, a2, i1, x1, x2, x3, r1, r2

TwoUsers == {u1, u2}
ThreeUsers == {u1, u2, u3}
OneTenant == {n1}
TwoTenants == {n1, n2}
OneAddress == {a1}
TwoAddresses == {a1, a2}
OneInvitation == {i1}
OneTransfer == {x1}
ThreeTransfers == {x1, x2, x3}
TwoTransfers == {x1, x2}
OneRequest == {r1}
TwoRequests == {r1, r2}
Nothing == {}

\* All identities are interchangeable.
Symmetry == Permutations(Users) \cup Permutations(Tenants) \cup Permutations(Transfers)
              \cup Permutations(Requests) \cup Permutations(Emails)

(***************************************************************************)
(* Init chooses the focus and no step changes it:                          *)
(*  all        every action, one handler at a time in one tenant;          *)
(*  members    the handlers that add and remove members, beside the        *)
(*             founding of tenants by the same people, and the accounts;   *)
(*  ownership  the handlers that bear on who owns a tenant, and the        *)
(*             accounts: no invitation, no new member, no suspension.      *)
(***************************************************************************)
VARIABLE focus

AllPresent == user = [u \in Users |-> "present"]

\* The bounds of the focus "all".
SmallInstance ==
  /\ Cardinality(born') <= 1
  /\ \E r \in Requests : \A q \in Requests \ {r} : req'[q] = IdleRequest

MembersNext ==
  \/ \E r \in Requests, actor \in Users :
       \/ \E n \in Tenants :
            BeginInvite(r, actor, n) \/ InsertTenant(r, actor, n)
              \/ \E u \in Users : BeginRemove(r, actor, n, u)
       \/ \E i \in Invitations, email \in Emails : LookupInvitation(r, actor, email, i)
  \/ \E r \in Requests : Resume(r) \/ Crash(r)
  \/ \E u \in Users : DeleteAccount(u)

OwnershipNext ==
  \/ \E r \in Requests, actor, u \in Users, n \in Tenants :
       BeginSetRole(r, actor, n, u) \/ BeginRemove(r, actor, n, u)
         \/ BeginTransfer(r, actor, n, u)
  \/ \E r \in Requests : Resume(r) \/ Crash(r)
  \/ \E u \in Users : DeleteAccount(u)
  \/ \E x \in Transfers : ConfirmTransfer(x)

MCInit ==
  /\ Init
  /\ \/ focus = "all" /\ Cardinality(born) <= 1
     \/ focus = "members" /\ AllPresent /\ born # {}

MCNext ==
  /\ \/ focus = "all" /\ Next /\ SmallInstance
     \/ focus = "members" /\ MembersNext
  /\ UNCHANGED focus

MCSpec == MCInit /\ [][MCNext]_<<vars, focus>>

OwnershipInit == Init /\ AllPresent /\ born = Tenants /\ focus = "ownership"
OwnershipSpec == OwnershipInit /\ [][OwnershipNext /\ UNCHANGED focus]_<<vars, focus>>
=============================================================================
