---------------------------- MODULE RbacCatalog ----------------------------
(***************************************************************************)
(* The catalogue of a tenant: applications with their features, features   *)
(* with their permissions, and roles with the permissions they grant.      *)
(*                                                                         *)
(* A request handler is a process with a program counter; one action is    *)
(* one database statement.  Every handler works for the tenant of its      *)
(* session.  Names, codes and descriptions are left out: a value that a    *)
(* unique index refuses is one of the failures of Abort.                   *)
(***************************************************************************)
EXTENDS FiniteSets

CONSTANTS
  Tenants,
  Apps, Features, Permissions, Roles,  \* supplies of row identifiers, never used twice
  Requests,                            \* handlers that may be in flight together
  None

ASSUME NoneAssumption ==
  None \notin Tenants \cup Apps \cup Features \cup Permissions \cup Roles

\* The identifiers of the four tables are random and never meet.
ASSUME DisjointAssumption ==
  /\ Features \cap Permissions = {} /\ Features \cap Roles = {} /\ Features \cap Apps = {}
  /\ Permissions \cap Roles = {} /\ Permissions \cap Apps = {} /\ Roles \cap Apps = {}

VARIABLES
  fresh,    \* the identifiers no row has used yet
  app,      \* table Application: the tenant of each row, None where there is no row
  feature,  \* table Feature: the application of each row
  perm,     \* table Permission: the feature of each row
  owner,    \* table Role: the tenant of each row
  grants,   \* table RolePermission
  wish,     \* history: the permissions the last save of each role asked for
  torn,     \* history: roles whose last save overlapped another one, or failed half-way
  moved,    \* history: features and permissions moved from one tenant to another
  req       \* the handlers in flight

tables == <<fresh, app, feature, perm, owner, grants>>
history == <<wish, torn, moved>>
vars == <<tables, history, req>>

Ids == Apps \cup Features \cup Permissions \cup Roles

(***************************************************************************)
(* pc names the next statement of a handler.  `item` is the row it is      *)
(* about, `target` the parent it shall have, `wish` the permissions the    *)
(* body lists, `todo` those the loop has not come to, `current` the one it *)
(* inserts next.  `alone` is history: no other save of this role has       *)
(* written since this one began to write.                                  *)
(***************************************************************************)
SavePCs == {"roleSelect", "roleDelete", "roleNext", "roleInsert"}
PCs == SavePCs \cup {"idle", "featureInsert", "featureUpdate", "featureDelete",
                     "permInsert", "permUpdate", "permDelete"}

Request == [pc: PCs, tenant: Tenants \cup {None}, item: Ids \cup {None},
            target: Apps \cup Features \cup {None}, wish: SUBSET Permissions,
            todo: SUBSET Permissions, current: Permissions \cup {None}, alone: BOOLEAN]

IdleRequest == [pc |-> "idle", tenant |-> None, item |-> None, target |-> None, wish |-> {},
                todo |-> {}, current |-> None, alone |-> FALSE]

Exists(table, x) == table[x] # None

\* The joins Permission - Feature - Application of every tenant check.
FeatureTenant(f) == IF Exists(feature, f) THEN app[feature[f]] ELSE None
PermTenant(p) == IF Exists(perm, p) THEN FeatureTenant(perm[p]) ELSE None

Granted(ro) == {p \in Permissions : <<ro, p>> \in grants}

\* Rows made by the seed or by earlier requests.
Init ==
  /\ fresh \in SUBSET Ids
  /\ app \in [Apps -> Tenants \cup {None}] /\ feature \in [Features -> Apps \cup {None}]
  /\ perm \in [Permissions -> Features \cup {None}] /\ owner \in [Roles -> Tenants \cup {None}]
  /\ \A a \in Apps : Exists(app, a) <=> a \notin fresh
  /\ \A f \in Features : /\ Exists(feature, f) <=> f \notin fresh
                         /\ Exists(feature, f) => Exists(app, feature[f])
  /\ \A p \in Permissions : /\ Exists(perm, p) <=> p \notin fresh
                            /\ Exists(perm, p) => Exists(feature, perm[p])
  /\ \A ro \in Roles : Exists(owner, ro) <=> ro \notin fresh
  /\ wish \in [Roles -> SUBSET Permissions]
  /\ \A ro \in Roles : \A p \in wish[ro] : Exists(owner, ro) /\ PermTenant(p) = owner[ro]
  /\ grants = {e \in Roles \X Permissions : e[2] \in wish[e[1]]}
  /\ torn = {} /\ moved = {}
  /\ req = [r \in Requests |-> IdleRequest]

-----------------------------------------------------------------------------
(* Control of a handler. *)

At(r, pc) == req[r].pc = pc
Finish(r) == req' = [req EXCEPT ![r] = IdleRequest]

\* The guard of each route lets the session act in its tenant; then the first statement is due.
Begin(r, pc, n, item, target, permissions) ==
  /\ At(r, "idle")
  /\ req' = [req EXCEPT ![r] =
       [IdleRequest EXCEPT !.pc = pc, !.tenant = n, !.item = item, !.target = target,
                           !.wish = permissions, !.todo = permissions]]
  /\ UNCHANGED <<tables, history>>

\* A SELECT that looks for the row the handler needs: go on or answer that it is missing.
Check(r, from, found, to) ==
  /\ At(r, from)
  /\ req' = [req EXCEPT ![r] = IF found THEN [req[r] EXCEPT !.pc = to] ELSE IdleRequest]

-----------------------------------------------------------------------------
(* The foreign keys: a row takes with it the rows that hang on it. *)

KeepPermissions(S) == perm' = [p \in Permissions |-> IF p \in S THEN perm[p] ELSE None]

\* Mutant: RolePermission does not reference Permission.
GrantsOutlive(S) == grants

GrantsWithin(S) == {e \in grants : e[2] \in S}

DropPermissions(S) ==
  /\ KeepPermissions(Permissions \ S)
  /\ grants' = GrantsWithin(Permissions \ S)

DropFeatures(S) ==
  /\ feature' = [f \in Features |-> IF f \in S THEN None ELSE feature[f]]
  /\ DropPermissions({p \in Permissions : perm[p] \in S})

-----------------------------------------------------------------------------
(* /api/applications *)

CreateApplication(n, a) ==
  /\ a \in fresh
  /\ fresh' = fresh \ {a}
  /\ app' = [app EXCEPT ![a] = n]
  /\ UNCHANGED <<feature, perm, owner, grants, history, req>>

\* One statement, scoped by the tenant; the update of an application changes no column kept here.
DeleteApplication(n, a) ==
  /\ Exists(app, a) /\ app[a] = n
  /\ app' = [app EXCEPT ![a] = None]
  /\ DropFeatures({f \in Features : feature[f] = a})
  /\ UNCHANGED <<fresh, owner, history, req>>

-----------------------------------------------------------------------------
(* /api/features: the tenant is asked about the application, the row is written by its id. *)

CreateFeature(r, n, a) ==
  /\ app[a] = n /\ Features \cap fresh # {}
  /\ Begin(r, "featureInsert", n, None, a, {})

\* The foreign key refuses an application that was deleted since.
InsertFeature(r) ==
  /\ At(r, "featureInsert")
  /\ \/ /\ Exists(app, req[r].target)
        /\ \E f \in Features \cap fresh :
             fresh' = fresh \ {f} /\ feature' = [feature EXCEPT ![f] = req[r].target]
     \/ ~Exists(app, req[r].target) /\ UNCHANGED <<fresh, feature>>
  /\ Finish(r)
  /\ UNCHANGED <<app, perm, owner, grants, history>>

UpdateFeature(r, n, f, a) ==
  /\ app[a] = n /\ f \notin fresh
  /\ Begin(r, "featureUpdate", n, f, a, {})

\* What belongs to another tenant once feature f hangs on application a.
MovedWith(f, a) ==
  IF app[a] = FeatureTenant(f) THEN {} ELSE {f} \cup {p \in Permissions : perm[p] = f}

WriteFeature(r) ==
  LET f == req[r].item
      a == req[r].target IN
  /\ At(r, "featureUpdate")
  /\ IF Exists(feature, f) /\ Exists(app, a)
       THEN feature' = [feature EXCEPT ![f] = a] /\ moved' = moved \cup MovedWith(f, a)
       ELSE UNCHANGED <<feature, moved>>
  /\ Finish(r)
  /\ UNCHANGED <<fresh, app, perm, owner, grants, wish, torn>>

\* Mutant: the row is looked up without its tenant.
FeatureOfAny(f, n) == Exists(feature, f)

FeatureOf(f, n) == Exists(feature, f) /\ FeatureTenant(f) = n

DeleteFeature(r, n, f) ==
  /\ FeatureOf(f, n)
  /\ Begin(r, "featureDelete", n, f, None, {})

RemoveFeature(r) ==
  /\ At(r, "featureDelete")
  /\ DropFeatures({req[r].item})
  /\ Finish(r)
  /\ UNCHANGED <<fresh, app, owner, history>>

-----------------------------------------------------------------------------
(* /api/permissions, in the same form. *)

CreatePermission(r, n, f) ==
  /\ FeatureOf(f, n) /\ Permissions \cap fresh # {}
  /\ Begin(r, "permInsert", n, None, f, {})

InsertPermission(r) ==
  /\ At(r, "permInsert")
  /\ \/ /\ Exists(feature, req[r].target)
        /\ \E p \in Permissions \cap fresh :
             fresh' = fresh \ {p} /\ perm' = [perm EXCEPT ![p] = req[r].target]
     \/ ~Exists(feature, req[r].target) /\ UNCHANGED <<fresh, perm>>
  /\ Finish(r)
  /\ UNCHANGED <<app, feature, owner, grants, history>>

UpdatePermission(r, n, p, f) ==
  /\ FeatureOf(f, n) /\ p \notin fresh
  /\ Begin(r, "permUpdate", n, p, f, {})

WritePermission(r) ==
  LET p == req[r].item
      f == req[r].target IN
  /\ At(r, "permUpdate")
  /\ IF Exists(perm, p) /\ Exists(feature, f)
       THEN /\ perm' = [perm EXCEPT ![p] = f]
            /\ moved' = IF FeatureTenant(f) = PermTenant(p) THEN moved ELSE moved \cup {p}
       ELSE UNCHANGED <<perm, moved>>
  /\ Finish(r)
  /\ UNCHANGED <<fresh, app, feature, owner, grants, wish, torn>>

\* Mutant: the permission is looked up without its tenant.
PermissionOfAny(p, n) == Exists(perm, p)

\* getPermissionById
PermissionOf(p, n) == Exists(perm, p) /\ PermTenant(p) = n

DeletePermission(r, n, p) ==
  /\ PermissionOf(p, n)
  /\ Begin(r, "permDelete", n, p, None, {})

RemovePermission(r) ==
  /\ At(r, "permDelete")
  /\ DropPermissions({req[r].item})
  /\ Finish(r)
  /\ UNCHANGED <<fresh, app, feature, owner, history>>

-----------------------------------------------------------------------------
(* /api/roles: a save deletes the permissions of the role and inserts those of the body one *)
(* by one, each after a look at its tenant.                                                 *)

Saving(ro) == {r \in Requests : req[r].pc \in {"roleNext", "roleInsert"} /\ req[r].item = ro}

\* Mutant: the save inserts without deleting first.
UnionWith(ro) == grants

WithoutGrantsOf(ro) == {e \in grants : e[1] # ro}

\* INSERT INTO Role, then the loop.
CreateRole(r, n, ro, W) ==
  /\ At(r, "idle")
  /\ ro \in fresh
  /\ fresh' = fresh \ {ro}
  /\ owner' = [owner EXCEPT ![ro] = n]
  /\ req' = [req EXCEPT ![r] = [IdleRequest EXCEPT !.pc = "roleNext", !.tenant = n,
               !.item = ro, !.wish = W, !.todo = W, !.alone = TRUE]]
  /\ UNCHANGED <<app, feature, perm, grants, history>>

UpdateRole(r, n, ro, W) == ro \notin fresh /\ Begin(r, "roleSelect", n, ro, None, W)

RoleOf(ro, n) == Exists(owner, ro) /\ owner[ro] = n

\* The SELECT; the UPDATE of name and description that follows changes nothing kept here.
SelectRole(r) ==
  /\ Check(r, "roleSelect", RoleOf(req[r].item, req[r].tenant), "roleDelete")
  /\ UNCHANGED <<tables, history>>

\* DELETE FROM RolePermission, by the role's id.  The saves that have begun to write the
\* role are not alone any more.
ClearRole(r) ==
  LET others == Saving(req[r].item) IN
  /\ At(r, "roleDelete")
  /\ grants' = WithoutGrantsOf(req[r].item)
  /\ req' = [q \in Requests |->
       IF q = r THEN [req[r] EXCEPT !.pc = "roleNext", !.alone = (others = {})]
       ELSE IF q \in others THEN [req[q] EXCEPT !.alone = FALSE] ELSE req[q]]
  /\ UNCHANGED <<fresh, app, feature, perm, owner, history>>

\* The next permission of the list: inserted if it is the tenant's, skipped if not.
NextPermission(r) ==
  /\ At(r, "roleNext")
  /\ \E p \in req[r].todo :
       req' = [req EXCEPT ![r] =
         IF PermissionOf(p, req[r].tenant)
           THEN [req[r] EXCEPT !.pc = "roleInsert", !.todo = @ \ {p}, !.current = p]
           ELSE [req[r] EXCEPT !.todo = @ \ {p}]]
  /\ UNCHANGED <<tables, history>>

\* The keys RolePermission puts up: a pair not there yet, of rows that are.
Insertable(ro, p) == <<ro, p>> \notin grants /\ Exists(owner, ro) /\ Exists(perm, p)

\* A save that failed after its first write, or was not alone, leaves the role torn.
Fail(r) == Finish(r) /\ torn' = torn \cup {req[r].item} /\ UNCHANGED <<wish, moved>>

InsertGrant(r) ==
  LET e == <<req[r].item, req[r].current>> IN
  /\ At(r, "roleInsert")
  /\ IF Insertable(e[1], e[2])
       THEN /\ grants' = grants \cup {e}
            /\ req' = [req EXCEPT ![r].pc = "roleNext", ![r].current = None]
            /\ UNCHANGED history
       ELSE UNCHANGED grants /\ Fail(r)
  /\ UNCHANGED <<fresh, app, feature, perm, owner>>

RoleSaved(r) ==
  /\ At(r, "roleNext") /\ req[r].todo = {}
  /\ Finish(r)
  /\ wish' = [wish EXCEPT ![req[r].item] = req[r].wish]
  /\ torn' = IF req[r].alone THEN torn \ {req[r].item} ELSE torn \cup {req[r].item}
  /\ UNCHANGED <<tables, moved>>

DeleteRole(n, ro) ==
  /\ RoleOf(ro, n)
  /\ owner' = [owner EXCEPT ![ro] = None]
  /\ grants' = WithoutGrantsOf(ro)
  /\ UNCHANGED <<fresh, app, feature, perm, history, req>>

-----------------------------------------------------------------------------

\* The process dies, or the database refuses or loses a statement.
Abort(r) ==
  /\ ~At(r, "idle")
  /\ IF req[r].pc \in {"roleNext", "roleInsert"} THEN Fail(r)
                                                  ELSE Finish(r) /\ UNCHANGED history
  /\ UNCHANGED tables

ArriveTree(r) ==
  \E n \in Tenants :
    \/ \E a \in Apps : CreateFeature(r, n, a) \/ \E f \in Features : UpdateFeature(r, n, f, a)
    \/ \E f \in Features :
         \/ DeleteFeature(r, n, f) \/ CreatePermission(r, n, f)
         \/ \E p \in Permissions : UpdatePermission(r, n, p, f)
    \/ \E p \in Permissions : DeletePermission(r, n, p)

\* The form offers the permissions there are.
ArriveSave(r) ==
  \E n \in Tenants, ro \in Roles, W \in SUBSET (Permissions \ fresh) :
    CreateRole(r, n, ro, W) \/ UpdateRole(r, n, ro, W)

Resume(r) ==
  \/ InsertFeature(r) \/ WriteFeature(r) \/ RemoveFeature(r)
  \/ InsertPermission(r) \/ WritePermission(r) \/ RemovePermission(r)
  \/ SelectRole(r) \/ ClearRole(r) \/ NextPermission(r) \/ InsertGrant(r) \/ RoleSaved(r)

Next ==
  \/ \E r \in Requests : ArriveTree(r) \/ ArriveSave(r) \/ Resume(r) \/ Abort(r)
  \/ \E n \in Tenants :
       \/ \E a \in Apps : CreateApplication(n, a) \/ DeleteApplication(n, a)
       \/ \E ro \in Roles : DeleteRole(n, ro)

Spec == Init /\ [][Next]_vars

-----------------------------------------------------------------------------
(* Properties. *)

\* The tables keep their types, and the foreign keys of sql/schema.sql:107-194 hold: every
\* row hangs on a row that exists.
CatalogTypeOK ==
  /\ fresh \subseteq Ids
  /\ app \in [Apps -> Tenants \cup {None}]
  /\ feature \in [Features -> Apps \cup {None}]
  /\ perm \in [Permissions -> Features \cup {None}]
  /\ owner \in [Roles -> Tenants \cup {None}]
  /\ grants \subseteq Roles \X Permissions
  /\ \A f \in Features : Exists(feature, f) => Exists(app, feature[f])
  /\ \A p \in Permissions : Exists(perm, p) => Exists(feature, perm[p])
  /\ \A e \in grants : Exists(owner, e[1]) /\ Exists(perm, e[2])
  /\ wish \in [Roles -> SUBSET Permissions]
  /\ torn \subseteq Roles /\ moved \subseteq Features \cup Permissions
  /\ req \in [Requests -> Request]

\* At rest a role grants what its last save asked for, of the permissions that still exist
\* in its tenant, and nothing else; unless that save failed half-way or overlapped another
\* one, and then the next save that runs alone repairs it (data-access.ts:754).
RolesAsSaved ==
  \A ro \in Roles : Exists(owner, ro) /\ ro \notin torn /\ Saving(ro) = {} =>
    /\ Granted(ro) \subseteq wish[ro]
    /\ \A p \in wish[ro] \ moved : PermTenant(p) = owner[ro] => p \in Granted(ro)

\* Nobody holds a permission of another tenant, whatever identifiers a body lists and
\* however rows are deleted meanwhile, except one that was moved there after the look at it:
\* updateFeature and updatePermission write by id (data-access.ts:467, :603).
ForeignGrantOnlyByMove ==
  \A e \in grants : PermTenant(e[2]) # owner[e[1]] => e[2] \in moved

\* The tenants whose handlers act in this step.
Acting == {req[r].tenant : r \in {q \in Requests : req'[q] # req[q]}}

\* A permission changes its tenant or goes only by a handler of its tenant, by one that moves
\* it into its own, or where it, its feature or its new feature was moved while a handler was
\* at work on it.
OnlyMovesCrossTenants ==
  [][\A p \in Permissions :
       Exists(perm, p) /\ PermTenant(p)' # PermTenant(p) /\ Acting # {} =>
         \/ PermTenant(p) \in Acting
         \/ p \in moved' /\ PermTenant(p)' \in Acting
         \/ {p, perm[p], perm'[p]} \cap moved # {}]_vars
=============================================================================
