--------------------------- MODULE TenantOwnership ---------------------------
(***************************************************************************)
(* What the server promises about the ownership of a tenant: the tenant is *)
(* founded and gets one holder; the holder may offer the tenant to others, *)
(* and it passes to one of them, which ends the other offers.  A tenant    *)
(* that lost its holder does not get another one.                          *)
(***************************************************************************)
CONSTANTS Users, Tenants

VARIABLES
  phase,    \* unborn -> founding -> owned -> lost
  holder,   \* the owner, as a set of at most one
  offers    \* the users to whom the present owner offers the tenant

ovars == <<phase, holder, offers>>

\* The tenants that exist at the start have their owner and no offer yet.
Init ==
  /\ phase \in [Tenants -> {"unborn", "owned"}]
  /\ holder \in [Tenants -> SUBSET Users]
  /\ \A n \in Tenants :
       IF phase[n] = "owned" THEN \E u \in Users : holder[n] = {u} ELSE holder[n] = {}
  /\ offers = [n \in Tenants |-> {}]

Found(n) ==
  /\ phase[n] = "unborn"
  /\ phase' = [phase EXCEPT ![n] = "founding"]
  /\ UNCHANGED <<holder, offers>>

Settle(n, u) ==
  /\ phase[n] = "founding"
  /\ phase' = [phase EXCEPT ![n] = "owned"]
  /\ holder' = [holder EXCEPT ![n] = {u}]
  /\ UNCHANGED offers

Offer(n, u) ==
  /\ phase[n] = "owned" /\ u \notin holder[n]
  /\ offers' = [offers EXCEPT ![n] = @ \cup {u}]
  /\ UNCHANGED <<phase, holder>>

Pass(n, u) ==
  /\ phase[n] = "owned" /\ u \in offers[n]
  /\ holder' = [holder EXCEPT ![n] = {u}]
  /\ offers' = [offers EXCEPT ![n] = {}]
  /\ UNCHANGED phase

\* The tenants in S lose their holder, who may stay as a user; an account that goes takes
\* the offers made to it along, in any tenant.
Depart(S, gone) ==
  /\ \A n \in S : phase[n] = "owned"
  /\ phase' = [n \in Tenants |-> IF n \in S THEN "lost" ELSE phase[n]]
  /\ holder' = [n \in Tenants |-> IF n \in S THEN {} ELSE holder[n]]
  /\ offers' = [n \in Tenants |-> IF n \in S THEN {} ELSE offers[n] \ gone]

Next ==
  \/ \E n \in Tenants :
       Found(n) \/ \E u \in Users : Settle(n, u) \/ Offer(n, u) \/ Pass(n, u)
  \/ \E S \in SUBSET Tenants, gone \in {{}} \cup {{u} : u \in Users} : Depart(S, gone)

Spec == Init /\ [][Next]_ovars
=============================================================================
