----------------------------- MODULE MCCatalog -----------------------------
(***************************************************************************)
(* Small instances of RbacCatalog and OAuthClientAdmin for TLC.  They      *)
(* share nothing but the name of an application, so a behaviour runs one   *)
(* of them: `focus` names it.                                              *)
(*                                                                         *)
(* The catalogue: two tenants, each with an application of its own, and at *)
(* first a feature of n1, and handlers of which at most two run together:  *)
(* saves of roles, changes of the tree, or one of each.  About the former  *)
(* two, deletions of applications may come at any time.  "client": two     *)
(* browser tabs at the form of one application.                            *)
(***************************************************************************)
EXTENDS RbacCatalog, OAuthClientAdmin, TLC

CONSTANTS n1, n2, a1, a2, f1, f2, p1, p2, ro1, r1, r2, e1, e2, MaxSecrets

TwoTenants == {n1, n2}
TwoApps == {a1, a2}
TwoFeatures == {f1, f2}
TwoPermissions == {p1, p2}
OneRole == {ro1}
TwoRequests == {r1, r2}
TwoEditors == {e1, e2}

VARIABLE focus

ClientAtRest ==
  /\ site = [app |-> TRUE, client |-> FALSE, secret |-> 0]
  /\ minted = 0
  /\ form = [e \in Editors |-> NewForm(0)] /\ call = [e \in Editors |-> IdleCall]
  /\ secrets = [known |-> {}, retired |-> {}]

CatalogAtRest ==
  /\ fresh = Ids /\ app = [a \in Apps |-> None] /\ feature = [f \in Features |-> None]
  /\ perm = [p \in Permissions |-> None] /\ owner = [ro \in Roles |-> None]
  /\ grants = {} /\ wish = [ro \in Roles |-> {}] /\ torn = {} /\ moved = {}
  /\ req = [r \in Requests |-> IdleRequest]

\* Bounds: about the tree, at most one row is still to be made; about both, none, and the
\* applications stay.  At most three rows, about both two, move to another tenant.
CatalogFocus ==
  /\ Init
  /\ app = (a1 :> n1 @@ a2 :> n2)
  /\ feature[f1] = a1 /\ feature[f2] \in {a2, None}
  /\ \/ focus = "saves" /\ owner[ro1] \in {n1, None}
     \/ focus = "tree" /\ owner[ro1] = n1 /\ Cardinality(fresh) <= 1
     \/ focus = "both" /\ fresh = {} /\ owner[ro1] = n1 /\ wish[ro1] = {}

MCInit ==
  \/ CatalogFocus /\ ClientAtRest
  \/ focus = "client" /\ ClientInit /\ CatalogAtRest

OneSave(r) == (\A q \in Requests : req[q].pc \notin SavePCs) /\ ArriveSave(r)
OneChange(r) == (\A q \in Requests : req[q].pc \in SavePCs \cup {"idle"}) /\ ArriveTree(r)

CatalogStep ==
  \/ \E r \in Requests : Resume(r)
  \/ \E n \in Tenants, a \in Apps : CreateApplication(n, a) \/ DeleteApplication(n, a)
  \/ /\ focus = "saves"
     /\ \/ \E r \in Requests : ArriveSave(r) \/ Abort(r)
        \/ \E n \in Tenants, ro \in Roles : DeleteRole(n, ro)
  \/ focus = "tree" /\ \E r \in Requests : ArriveTree(r)
  \/ focus = "both" /\ \E r \in Requests : OneSave(r) \/ OneChange(r)

\* Bounds: MaxSecrets secrets, of which only a new client's are typed, at e1; no client is
\* removed after the last of them; and the tab e2 stays at the form.
SmallClient ==
  /\ minted' <= MaxSecrets
  /\ form'[e1].typed > minted => form[e1].mode = "create"
  /\ form'[e2].typed = 0
  /\ minted = MaxSecrets /\ site.client => site'.client
  /\ form[e2].mode # "away" /\ form'[e2].mode = "away" => ~site.app

MCNext ==
  /\ \/ focus # "client" /\ CatalogStep /\ UNCHANGED clientVars
        /\ Cardinality(moved') <= (IF focus = "both" THEN 2 ELSE 3)
        /\ (focus = "both" => app' = app)
     \/ focus = "client" /\ ClientNext /\ SmallClient /\ UNCHANGED vars
  /\ UNCHANGED focus

MCSpec == MCInit /\ [][MCNext]_<<vars, clientVars, focus>>

Symmetry ==
  Permutations(Requests) \cup Permutations(Permissions)
=============================================================================
