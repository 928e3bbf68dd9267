-------------------------- MODULE RbacCatalogProofs --------------------------
(***************************************************************************)
(* Proofs about RbacCatalog: types and foreign keys, that foreign          *)
(* permissions are held only after a move, that a role at rest is what its *)
(* last save asked for, and who may change the tree.                       *)
(***************************************************************************)
EXTENDS RbacCatalog, TLAPS

-----------------------------------------------------------------------------
(* The tables: types, foreign keys, and identifiers that are used once. *)

TableTypes ==
  /\ fresh \subseteq Ids
  /\ app \in [Apps -> Tenants \cup {None}]
  /\ feature \in [Features -> Apps \cup {None}]
  /\ perm \in [Permissions -> Features \cup {None}]
  /\ owner \in [Roles -> Tenants \cup {None}]
  /\ grants \subseteq Roles \X Permissions

Keys ==
  /\ \A f \in Features : Exists(feature, f) => Exists(app, feature[f])
  /\ \A p \in Permissions : Exists(perm, p) => Exists(feature, perm[p])
  /\ \A e \in grants : Exists(owner, e[1]) /\ Exists(perm, e[2])

FreshUnused ==
  /\ \A a \in Apps \cap fresh : app[a] = None
  /\ \A f \in Features \cap fresh : feature[f] = None
  /\ \A p \in Permissions \cap fresh : perm[p] = None
  /\ \A ro \in Roles \cap fresh : owner[ro] = None

TableInv == TableTypes /\ Keys /\ FreshUnused

(***************************************************************************)
(* What a step may do to rows that have been made: they keep their tenant, *)
(* are deleted, or are recorded as moved.                                  *)
(***************************************************************************)
Drift ==
  /\ fresh' \subseteq fresh
  /\ \A a \in Apps \ fresh : app'[a] \in {None, app[a]}
  /\ \A ro \in Roles \ fresh : owner'[ro] \in {None, owner[ro]}
  /\ \A f \in Features \ fresh :
       FeatureTenant(f)' \in {None, FeatureTenant(f)} \/ f \in moved'
  /\ \A p \in Permissions \ fresh : PermTenant(p)' \in {None, PermTenant(p)} \/ p \in moved'

LEMMA Foreign == None \notin Tenants /\ None \notin Apps /\ None \notin Features
                 /\ None \notin Permissions /\ None \notin Roles
  BY NoneAssumption

\* With the foreign keys, a row without a tenant is no row.
LEMMA TenantOfRow ==
  ASSUME TableInv
  PROVE  /\ \A f \in Features : FeatureTenant(f) \in Tenants \cup {None}
         /\ \A f \in Features : FeatureTenant(f) = None <=> feature[f] = None
         /\ \A p \in Permissions : PermTenant(p) \in Tenants \cup {None}
         /\ \A p \in Permissions : PermTenant(p) = None <=> perm[p] = None
<1>1. ASSUME NEW f \in Features
      PROVE  /\ FeatureTenant(f) \in Tenants \cup {None}
             /\ FeatureTenant(f) = None <=> feature[f] = None
  BY DEF TableInv, TableTypes, Keys, FeatureTenant, Exists
<1>2. ASSUME NEW p \in Permissions
      PROVE  /\ PermTenant(p) \in Tenants \cup {None}
             /\ PermTenant(p) = None <=> perm[p] = None
  <2>1. CASE perm[p] = None BY <2>1 DEF PermTenant, Exists
  <2>2. CASE perm[p] # None
    <3>1. perm[p] \in Features /\ feature[perm[p]] # None
      BY <2>2 DEF TableInv, TableTypes, Keys, Exists
    <3> QED BY <1>1, <2>2, <3>1 DEF PermTenant, Exists
  <2> QED BY <2>1, <2>2
<1> QED BY <1>1, <1>2

\* The tree rests.
LEMMA TreeRests ==
  ASSUME UNCHANGED <<app, feature, perm>>
  PROVE  /\ \A f \in Features : FeatureTenant(f)' = FeatureTenant(f)
         /\ \A p \in Permissions : PermTenant(p)' = PermTenant(p)
  BY DEF FeatureTenant, PermTenant, Exists

LEMMA TablesRest ==
  ASSUME TableInv, UNCHANGED <<fresh, app, feature, perm, owner, grants>>
  PROVE  TableInv' /\ Drift
<1>1. TableInv' BY DEF TableInv, TableTypes, Keys, FreshUnused, Exists
<1> QED BY <1>1, TreeRests DEF Drift

\* Roles and grants change, and the tree rests.
LEMMA GrantsChange ==
  ASSUME TableInv, UNCHANGED <<app, feature, perm>>, fresh' \subseteq fresh,
         owner' \in [Roles -> Tenants \cup {None}],
         grants' \subseteq Roles \X Permissions,
         \A ro \in Roles \ fresh : owner'[ro] \in {None, owner[ro]},
         \A ro \in Roles \cap fresh' : owner'[ro] = None,
         \A e \in grants' : owner'[e[1]] # None /\ perm[e[2]] # None
  PROVE  TableInv' /\ Drift
<1>1. TableTypes' /\ Keys' /\ FreshUnused'
  BY DEF TableInv, TableTypes, Keys, FreshUnused, Exists
<1> QED BY <1>1, TreeRests DEF TableInv, Drift

\* Rows of the tree are dropped, from the roots of S down.
LEMMA DropFeaturesDrift ==
  ASSUME TableInv, NEW S \in SUBSET Features, DropFeatures(S),
         UNCHANGED <<fresh, owner>>,
         app' \in [Apps -> Tenants \cup {None}],
         \A a \in Apps : app'[a] \in {None, app[a]},
         \A f \in Features \ S : feature[f] # None => app'[feature[f]] = app[feature[f]]
  PROVE  TableInv' /\ Drift
<1> DEFINE G == {p \in Permissions : perm[p] \in S}
<1>1. feature' = [f \in Features |-> IF f \in S THEN None ELSE feature[f]]
  BY DEF DropFeatures
<1>2. perm' = [p \in Permissions |-> IF p \in Permissions \ G THEN perm[p] ELSE None]
  BY DEF DropFeatures, DropPermissions, KeepPermissions
<1>3. grants' = {e \in grants : e[2] \in Permissions \ G}
  BY DEF DropFeatures, DropPermissions, GrantsWithin
<1>4. \A p \in Permissions : p \in G <=> perm[p] \in S OBVIOUS
<1> HIDE DEF G
<1>5. TableTypes' BY <1>1, <1>2, <1>3 DEF TableInv, TableTypes
<1>6. \A f \in Features : feature'[f] = IF f \in S THEN None ELSE feature[f] BY <1>1
<1>7. \A p \in Permissions : perm'[p] = IF perm[p] \in S THEN None ELSE perm[p]
  BY <1>2, <1>4
<1>8. Keys'
  <2>1. ASSUME NEW f \in Features, feature'[f] # None
        PROVE  app'[feature'[f]] # None
    BY <1>6, <2>1 DEF TableInv, Keys, Exists
  <2>2. ASSUME NEW p \in Permissions, perm'[p] # None
        PROVE  feature'[perm'[p]] # None
    <3>1. perm'[p] = perm[p] /\ perm[p] \notin S BY <1>7, <2>2
    <3>2. perm[p] \in Features /\ feature[perm[p]] # None
      BY <2>2, <3>1 DEF TableInv, TableTypes, Keys, Exists
    <3> QED BY <1>6, <3>1, <3>2
  <2>3. ASSUME NEW e \in grants' PROVE owner'[e[1]] # None /\ perm'[e[2]] # None
    <3>1. e \in grants /\ e[2] \in Permissions /\ e[2] \notin G BY <1>3
    <3>2. owner[e[1]] # None /\ perm[e[2]] # None BY <3>1 DEF TableInv, Keys, Exists
    <3>3. perm'[e[2]] = perm[e[2]] BY <1>4, <1>7, <3>1
    <3> QED BY <3>2, <3>3
  <2> QED BY <2>1, <2>2, <2>3 DEF Keys, Exists
<1>9. FreshUnused'
  BY <1>6, <1>7 DEF TableInv, FreshUnused
<1>10. ASSUME NEW f \in Features PROVE FeatureTenant(f)' \in {None, FeatureTenant(f)}
  <2>1. CASE feature'[f] = None BY <2>1 DEF FeatureTenant, Exists
  <2>2. CASE feature'[f] # None
    <3>1. f \notin S /\ feature'[f] = feature[f] /\ feature[f] # None BY <1>6, <2>2
    <3>2. app'[feature[f]] = app[feature[f]] BY <3>1
    <3> QED BY <3>1, <3>2 DEF FeatureTenant, Exists
  <2> QED BY <2>1, <2>2
<1>11. ASSUME NEW p \in Permissions PROVE PermTenant(p)' \in {None, PermTenant(p)}
  <2>1. CASE perm'[p] = None BY <2>1 DEF PermTenant, Exists
  <2>2. CASE perm'[p] # None
    <3>1. perm'[p] = perm[p] BY <1>7, <2>2
    <3>2. PICK f \in Features : f = perm[p]
      BY <2>2, <3>1 DEF TableInv, TableTypes
    <3>3. PermTenant(p) = FeatureTenant(f) BY <2>2, <3>1, <3>2 DEF PermTenant, Exists
    <3>4. PermTenant(p)' = FeatureTenant(f)'
      BY <2>2, <3>1, <3>2 DEF PermTenant, FeatureTenant, Exists
    <3> QED BY <1>10, <3>3, <3>4
  <2> QED BY <2>1, <2>2
<1>12. Drift BY <1>10, <1>11 DEF Drift
<1> QED BY <1>5, <1>8, <1>9, <1>12 DEF TableInv

LEMMA DropPermissionsDrift ==
  ASSUME TableInv, NEW S \in SUBSET Permissions, DropPermissions(S),
         UNCHANGED <<fresh, app, feature, owner>>
  PROVE  TableInv' /\ Drift
<1>1. perm' = [p \in Permissions |-> IF p \in Permissions \ S THEN perm[p] ELSE None]
  BY DEF DropPermissions, KeepPermissions
<1>2. grants' = {e \in grants : e[2] \in Permissions \ S}
  BY DEF DropPermissions, GrantsWithin
<1>3. \A p \in Permissions : perm'[p] = IF p \in S THEN None ELSE perm[p] BY <1>1
<1>4. TableTypes' BY <1>1, <1>2 DEF TableInv, TableTypes
<1>5. Keys' BY <1>2, <1>3 DEF TableInv, TableTypes, Keys, Exists
<1>6. FreshUnused' BY <1>3 DEF TableInv, FreshUnused
<1>7. ASSUME NEW p \in Permissions PROVE PermTenant(p)' \in {None, PermTenant(p)}
  BY <1>3 DEF PermTenant, FeatureTenant, Exists
<1>8. ASSUME NEW f \in Features PROVE FeatureTenant(f)' = FeatureTenant(f)
  BY DEF FeatureTenant, Exists
<1>9. Drift BY <1>7, <1>8 DEF Drift
<1> QED BY <1>4, <1>5, <1>6, <1>9 DEF TableInv

-----------------------------------------------------------------------------
(* The actions on the tree. *)

LEMMA CreateApplicationDrift ==
  ASSUME TableInv, NEW n \in Tenants, NEW a \in Apps, CreateApplication(n, a)
  PROVE  TableInv' /\ Drift
<1>1. /\ a \in fresh /\ fresh' = fresh \ {a} /\ app' = [app EXCEPT ![a] = n]
      /\ UNCHANGED <<feature, perm, owner, grants>>
  BY DEF CreateApplication
<1>2. app[a] = None BY <1>1 DEF TableInv, FreshUnused
<1>3. \A b \in Apps : app'[b] = IF b = a THEN n ELSE app[b]
  BY <1>1 DEF TableInv, TableTypes
<1>4. \A f \in Features : feature[f] # None => feature[f] # a /\ feature[f] \in Apps
  BY <1>2 DEF TableInv, TableTypes, Keys, Exists
<1>5. \A f \in Features : FeatureTenant(f)' = FeatureTenant(f)
  BY <1>1, <1>3, <1>4 DEF FeatureTenant, Exists
<1>6. \A p \in Permissions : PermTenant(p)' = PermTenant(p)
  <2> SUFFICES ASSUME NEW p \in Permissions, perm[p] # None
               PROVE  FeatureTenant(perm[p])' = FeatureTenant(perm[p])
    BY <1>1 DEF PermTenant, Exists, FeatureTenant
  <2>1. PICK f \in Features : f = perm[p] BY DEF TableInv, TableTypes
  <2> QED BY <1>1, <1>5, <2>1 DEF FeatureTenant
<1>7. TableTypes' BY <1>1 DEF TableInv, TableTypes
<1>8. Keys' BY <1>1, <1>3, <1>4, Foreign DEF TableInv, Keys, Exists
<1>9. FreshUnused' BY <1>1, <1>3 DEF TableInv, FreshUnused
<1>10. Drift BY <1>1, <1>3, <1>5, <1>6 DEF Drift
<1> QED BY <1>7, <1>8, <1>9, <1>10 DEF TableInv

LEMMA DeleteApplicationDrift ==
  ASSUME TableInv, NEW n \in Tenants, NEW a \in Apps, DeleteApplication(n, a)
  PROVE  TableInv' /\ Drift
<1> DEFINE S == {f \in Features : feature[f] = a}
<1>1. /\ app' = [app EXCEPT ![a] = None] /\ DropFeatures(S) /\ UNCHANGED <<fresh, owner>>
  BY DEF DeleteApplication
<1>2. S \in SUBSET Features /\ \A f \in Features \ S : feature[f] # a OBVIOUS
<1> HIDE DEF S
<1>3. \A b \in Apps : app'[b] = IF b = a THEN None ELSE app[b]
  BY <1>1 DEF TableInv, TableTypes
<1>4. \A f \in Features : feature[f] # None => feature[f] \in Apps
  BY DEF TableInv, TableTypes
<1>5. app' \in [Apps -> Tenants \cup {None}] BY <1>1 DEF TableInv, TableTypes
<1> QED BY <1>1, <1>2, <1>3, <1>4, <1>5, DropFeaturesDrift

LEMMA InsertFeatureDrift ==
  ASSUME TableInv, NEW r \in Requests, InsertFeature(r), req[r].target \in Apps
  PROVE  TableInv' /\ Drift
<1>1. UNCHANGED <<app, perm, owner, grants>> BY DEF InsertFeature
<1>2. CASE UNCHANGED <<fresh, feature>> BY <1>1, <1>2, TablesRest
<1>3. CASE ~UNCHANGED <<fresh, feature>>
  <2> DEFINE a == req[r].target
  <2>1. PICK f \in Features \cap fresh :
          fresh' = fresh \ {f} /\ feature' = [feature EXCEPT ![f] = a]
    BY <1>3 DEF InsertFeature
  <2>2. app[a] # None BY <1>3 DEF InsertFeature, Exists
  <2> HIDE DEF a
  <2>3. feature[f] = None BY DEF TableInv, FreshUnused
  <2>4. a \in Apps BY DEF a
  <2>5. \A g \in Features : feature'[g] = IF g = f THEN a ELSE feature[g]
    BY <2>1 DEF TableInv, TableTypes
  <2>6. \A p \in Permissions : perm[p] # None => perm[p] # f /\ perm[p] \in Features
    BY <2>3 DEF TableInv, TableTypes, Keys, Exists
  <2>7. \A g \in Features : g # f => FeatureTenant(g)' = FeatureTenant(g)
    BY <1>1, <2>5 DEF FeatureTenant, Exists
  <2>8. \A p \in Permissions : PermTenant(p)' = PermTenant(p)
    BY <1>1, <2>5, <2>6 DEF PermTenant, FeatureTenant, Exists
  <2>9. TableTypes' BY <1>1, <2>1, <2>4 DEF TableInv, TableTypes
  <2>10. Keys' BY <1>1, <2>2, <2>5, <2>6 DEF TableInv, Keys, Exists
  <2>11. FreshUnused' BY <1>1, <2>1, <2>5 DEF TableInv, FreshUnused
  <2>12. Drift BY <1>1, <2>1, <2>7, <2>8 DEF Drift
  <2> QED BY <2>9, <2>10, <2>11, <2>12 DEF TableInv
<1> QED BY <1>2, <1>3

LEMMA WriteFeatureDrift ==
  ASSUME TableInv, NEW r \in Requests, WriteFeature(r),
         req[r].item \in Features, req[r].target \in Apps
  PROVE  TableInv' /\ Drift
<1>0. PICK f \in Features, a \in Apps : f = req[r].item /\ a = req[r].target OBVIOUS
<1>1. UNCHANGED <<fresh, app, perm, owner, grants>> BY DEF WriteFeature
<1>2. CASE UNCHANGED <<feature, moved>> BY <1>1, <1>2, TablesRest
<1>3. CASE ~UNCHANGED <<feature, moved>>
  <2>1. /\ feature' = [feature EXCEPT ![f] = a] /\ moved' = moved \cup MovedWith(f, a)
        /\ feature[f] # None /\ app[a] # None
    BY <1>0, <1>3 DEF WriteFeature, Exists
  <2>2. f \in Features /\ a \in Apps OBVIOUS
  <2>3. \A g \in Features : feature'[g] = IF g = f THEN a ELSE feature[g]
    BY <2>1 DEF TableInv, TableTypes
  <2>4. \A g \in Features : g # f => FeatureTenant(g)' = FeatureTenant(g)
    BY <1>1, <2>3 DEF FeatureTenant, Exists
  <2>5. FeatureTenant(f)' = app[a]
    BY <1>1, <2>2, <2>3, Foreign DEF FeatureTenant, Exists
  <2>6. FeatureTenant(f)' = FeatureTenant(f) \/ f \in moved'
    BY <2>1, <2>5 DEF MovedWith
  <2>7. ASSUME NEW p \in Permissions PROVE PermTenant(p)' = PermTenant(p) \/ p \in moved'
    <3>1. CASE perm[p] = f
      <4>1. PermTenant(p) = FeatureTenant(f) /\ PermTenant(p)' = FeatureTenant(f)'
        BY <1>1, <2>2, <3>1, Foreign DEF PermTenant, FeatureTenant, Exists
      <4> QED BY <2>1, <2>5, <3>1, <4>1 DEF MovedWith
    <3>2. CASE perm[p] # f
      BY <1>1, <2>3, <3>2 DEF PermTenant, FeatureTenant, Exists, TableInv, TableTypes
    <3> QED BY <3>1, <3>2
  <2>8. TableTypes' BY <1>1, <2>1, <2>2 DEF TableInv, TableTypes
  <2>9. Keys' BY <1>1, <2>1, <2>2, <2>3, Foreign DEF TableInv, TableTypes, Keys, Exists
  <2>10. FreshUnused' BY <1>1, <2>1, <2>3 DEF TableInv, FreshUnused
  <2>11. Drift BY <1>1, <2>4, <2>6, <2>7 DEF Drift
  <2> QED BY <2>8, <2>9, <2>10, <2>11 DEF TableInv
<1> QED BY <1>2, <1>3

LEMMA RemoveFeatureDrift ==
  ASSUME TableInv, NEW r \in Requests, RemoveFeature(r), req[r].item \in Features
  PROVE  TableInv' /\ Drift
<1> DEFINE S == {req[r].item}
<1>1. DropFeatures(S) /\ UNCHANGED <<fresh, app, owner>> BY DEF RemoveFeature
<1>2. S \in SUBSET Features OBVIOUS
<1> HIDE DEF S
<1>3. app' \in [Apps -> Tenants \cup {None}] BY <1>1 DEF TableInv, TableTypes
<1> QED BY <1>1, <1>2, <1>3, DropFeaturesDrift

LEMMA InsertPermissionDrift ==
  ASSUME TableInv, NEW r \in Requests, InsertPermission(r), req[r].target \in Features
  PROVE  TableInv' /\ Drift
<1>1. UNCHANGED <<app, feature, owner, grants>> BY DEF InsertPermission
<1>2. CASE UNCHANGED <<fresh, perm>> BY <1>1, <1>2, TablesRest
<1>3. CASE ~UNCHANGED <<fresh, perm>>
  <2> DEFINE f == req[r].target
  <2>1. PICK p \in Permissions \cap fresh :
          fresh' = fresh \ {p} /\ perm' = [perm EXCEPT ![p] = f]
    BY <1>3 DEF InsertPermission
  <2>2. feature[f] # None BY <1>3 DEF InsertPermission, Exists
  <2>3. f \in Features OBVIOUS
  <2> HIDE DEF f
  <2>4. perm[p] = None BY DEF TableInv, FreshUnused
  <2>5. \A q \in Permissions : perm'[q] = IF q = p THEN f ELSE perm[q]
    BY <2>1 DEF TableInv, TableTypes
  <2>6. \A g \in Features : FeatureTenant(g)' = FeatureTenant(g)
    BY <1>1 DEF FeatureTenant, Exists
  <2>7. \A q \in Permissions : q # p => PermTenant(q)' = PermTenant(q)
    BY <1>1, <2>5 DEF PermTenant, FeatureTenant, Exists
  <2>8. TableTypes' BY <1>1, <2>1, <2>3 DEF TableInv, TableTypes
  <2>9. Keys'
    BY <1>1, <2>2, <2>3, <2>5, Foreign DEF TableInv, TableTypes, Keys, Exists
  <2>10. FreshUnused' BY <1>1, <2>1, <2>5 DEF TableInv, FreshUnused
  <2>11. Drift BY <1>1, <2>1, <2>6, <2>7 DEF Drift
  <2> QED BY <2>8, <2>9, <2>10, <2>11 DEF TableInv
<1> QED BY <1>2, <1>3

LEMMA WritePermissionDrift ==
  ASSUME TableInv, NEW r \in Requests, WritePermission(r),
         req[r].item \in Permissions, req[r].target \in Features
  PROVE  TableInv' /\ Drift
<1>0. PICK p \in Permissions, f \in Features : p = req[r].item /\ f = req[r].target OBVIOUS
<1>1. UNCHANGED <<fresh, app, feature, owner, grants>> BY DEF WritePermission
<1>2. CASE UNCHANGED <<perm, moved>> BY <1>1, <1>2, TablesRest
<1>3. CASE ~UNCHANGED <<perm, moved>>
  <2>1. /\ perm' = [perm EXCEPT ![p] = f]
        /\ moved' = IF FeatureTenant(f) = PermTenant(p) THEN moved ELSE moved \cup {p}
        /\ perm[p] # None /\ feature[f] # None
    BY <1>0, <1>3 DEF WritePermission, Exists
  <2>2. p \in Permissions /\ f \in Features OBVIOUS
  <2>3. \A q \in Permissions : perm'[q] = IF q = p THEN f ELSE perm[q]
    BY <2>1 DEF TableInv, TableTypes
  <2>4. \A g \in Features : FeatureTenant(g)' = FeatureTenant(g)
    BY <1>1 DEF FeatureTenant, Exists
  <2>5. \A q \in Permissions : q # p => PermTenant(q)' = PermTenant(q)
    BY <1>1, <2>3 DEF PermTenant, FeatureTenant, Exists
  <2>6. PermTenant(p)' = FeatureTenant(f)
    BY <1>1, <2>2, <2>3, Foreign DEF PermTenant, FeatureTenant, Exists
  <2>7. PermTenant(p)' = PermTenant(p) \/ p \in moved' BY <2>1, <2>6
  <2>8. TableTypes' BY <1>1, <2>1, <2>2 DEF TableInv, TableTypes
  <2>9. Keys' BY <1>1, <2>1, <2>2, <2>3, Foreign DEF TableInv, TableTypes, Keys, Exists
  <2>10. FreshUnused' BY <1>1, <2>1, <2>3 DEF TableInv, FreshUnused
  <2>11. Drift BY <1>1, <2>4, <2>5, <2>7 DEF Drift
  <2> QED BY <2>8, <2>9, <2>10, <2>11 DEF TableInv
<1> QED BY <1>2, <1>3

LEMMA RemovePermissionDrift ==
  ASSUME TableInv, NEW r \in Requests, RemovePermission(r), req[r].item \in Permissions
  PROVE  TableInv' /\ Drift
<1> DEFINE S == {req[r].item}
<1>1. DropPermissions(S) /\ UNCHANGED <<fresh, app, feature, owner>> BY DEF RemovePermission
<1>2. S \in SUBSET Permissions OBVIOUS
<1> HIDE DEF S
<1> QED BY <1>1, <1>2, DropPermissionsDrift

-----------------------------------------------------------------------------
(* The actions on roles. *)

LEMMA CreateRoleDrift ==
  ASSUME TableInv, NEW r \in Requests, NEW n \in Tenants, NEW ro \in Roles,
         NEW W \in SUBSET Permissions, CreateRole(r, n, ro, W)
  PROVE  TableInv' /\ Drift
<1>1. /\ ro \in fresh /\ fresh' = fresh \ {ro} /\ owner' = [owner EXCEPT ![ro] = n]
      /\ UNCHANGED <<app, feature, perm, grants>>
  BY DEF CreateRole
<1>2. owner[ro] = None BY <1>1 DEF TableInv, FreshUnused
<1>3. \A x \in Roles : owner'[x] = IF x = ro THEN n ELSE owner[x]
  BY <1>1 DEF TableInv, TableTypes
<1>4. owner' \in [Roles -> Tenants \cup {None}] BY <1>1 DEF TableInv, TableTypes
<1>5. \A e \in grants' : owner'[e[1]] # None /\ perm[e[2]] # None
  <2> SUFFICES ASSUME NEW e \in grants PROVE owner'[e[1]] # None /\ perm[e[2]] # None
    BY <1>1
  <2>1. owner[e[1]] # None /\ perm[e[2]] # None /\ e[1] \in Roles
    BY DEF TableInv, TableTypes, Keys, Exists
  <2> QED BY <1>3, <2>1, Foreign
<1>6. \A x \in Roles \cap fresh' : owner'[x] = None
  BY <1>1, <1>3 DEF TableInv, FreshUnused
<1>7. grants' \subseteq Roles \X Permissions BY <1>1 DEF TableInv, TableTypes
<1> QED BY <1>1, <1>3, <1>4, <1>5, <1>6, <1>7, GrantsChange

LEMMA DeleteRoleDrift ==
  ASSUME TableInv, NEW n \in Tenants, NEW ro \in Roles, DeleteRole(n, ro)
  PROVE  TableInv' /\ Drift
<1>1. /\ owner' = [owner EXCEPT ![ro] = None] /\ grants' = {e \in grants : e[1] # ro}
      /\ UNCHANGED <<fresh, app, feature, perm>>
  BY DEF DeleteRole, WithoutGrantsOf
<1>2. \A x \in Roles : owner'[x] = IF x = ro THEN None ELSE owner[x]
  BY <1>1 DEF TableInv, TableTypes
<1>3. owner' \in [Roles -> Tenants \cup {None}] BY <1>1 DEF TableInv, TableTypes
<1>4. \A e \in grants' : owner'[e[1]] # None /\ perm[e[2]] # None
  BY <1>1, <1>2 DEF TableInv, TableTypes, Keys, Exists
<1>5. \A x \in Roles \cap fresh' : owner'[x] = None
  BY <1>1, <1>2 DEF TableInv, FreshUnused
<1>6. grants' \subseteq Roles \X Permissions BY <1>1 DEF TableInv, TableTypes
<1> QED BY <1>1, <1>2, <1>3, <1>4, <1>5, <1>6, GrantsChange

LEMMA ClearRoleDrift ==
  ASSUME TableInv, NEW r \in Requests, ClearRole(r)
  PROVE  TableInv' /\ Drift
<1>1. /\ grants' \subseteq grants /\ UNCHANGED <<fresh, app, feature, perm, owner>>
  BY DEF ClearRole, WithoutGrantsOf
<1>2. \A e \in grants' : owner[e[1]] # None /\ perm[e[2]] # None
  BY <1>1 DEF TableInv, Keys, Exists
<1>3. grants' \subseteq Roles \X Permissions BY <1>1 DEF TableInv, TableTypes
<1>4. \A x \in Roles \cap fresh : owner[x] = None BY DEF TableInv, FreshUnused
<1>5. owner \in [Roles -> Tenants \cup {None}] BY DEF TableInv, TableTypes
<1> QED BY <1>1, <1>2, <1>3, <1>4, <1>5, GrantsChange

LEMMA InsertGrantDrift ==
  ASSUME TableInv, NEW r \in Requests, InsertGrant(r),
         req[r].item \in Roles, req[r].current \in Permissions
  PROVE  TableInv' /\ Drift
<1>1. UNCHANGED <<fresh, app, feature, perm, owner>> BY DEF InsertGrant
<1>2. CASE grants' = grants BY <1>1, <1>2, TablesRest
<1>3. CASE grants' # grants
  <2> DEFINE ro == req[r].item
             p == req[r].current
  <2>1. owner[ro] # None /\ perm[p] # None /\ grants' = grants \cup {<<ro, p>>}
    BY <1>3 DEF InsertGrant, Insertable, Exists
  <2>2. ro \in Roles /\ p \in Permissions OBVIOUS
  <2> HIDE DEF ro, p
  <2>3. \A e \in grants' : owner[e[1]] # None /\ perm[e[2]] # None
    BY <2>1 DEF TableInv, Keys, Exists
  <2>4. grants' \subseteq Roles \X Permissions BY <2>1, <2>2 DEF TableInv, TableTypes
  <2>5. \A x \in Roles \cap fresh : owner[x] = None BY DEF TableInv, FreshUnused
  <2>6. owner \in [Roles -> Tenants \cup {None}] BY DEF TableInv, TableTypes
  <2> QED BY <1>1, <2>3, <2>4, <2>5, <2>6, GrantsChange
<1> QED BY <1>2, <1>3

-----------------------------------------------------------------------------
(* The handlers: what they still know of the rows they looked at. *)

WritePCs == {"roleNext", "roleInsert"}

\* A row that was looked at: of the tenant, gone, or moved since.
PermSeen(p, n) == p \in Permissions \ fresh /\ (PermTenant(p) \in {n, None} \/ p \in moved)
FeatureSeen(f, n) == f \in Features \ fresh /\ (FeatureTenant(f) \in {n, None} \/ f \in moved)
AppSeen(a, n) == a \in Apps \ fresh /\ app[a] \in {n, None}
RoleSeen(ro, n) == ro \in Roles \ fresh /\ owner[ro] \in {n, None}

HandlerOK(r) ==
  LET h == req[r] IN
  /\ h \in Request
  /\ h.pc # "idle" => h.tenant \in Tenants
  /\ h.pc \in SavePCs => /\ h.item \in Roles \ fresh
                         /\ h.wish \subseteq Permissions \ fresh /\ h.todo \subseteq h.wish
  /\ h.pc \in {"roleSelect", "roleDelete"} => h.todo = h.wish
  /\ h.pc \in {"roleDelete"} \cup WritePCs => RoleSeen(h.item, h.tenant)
  /\ h.pc = "roleInsert" => PermSeen(h.current, h.tenant) /\ h.current \in h.wish
  /\ h.pc \in {"featureInsert", "featureUpdate"} => AppSeen(h.target, h.tenant)
  /\ h.pc = "featureUpdate" => h.item \in Features \ fresh
  /\ h.pc = "featureDelete" => FeatureSeen(h.item, h.tenant)
  /\ h.pc \in {"permInsert", "permUpdate"} => FeatureSeen(h.target, h.tenant)
  /\ h.pc = "permUpdate" => h.item \in Permissions \ fresh
  /\ h.pc = "permDelete" => PermSeen(h.item, h.tenant)

\* All fields but `alone`.
SameBut(h, g) ==
  /\ h.pc = g.pc /\ h.tenant = g.tenant /\ h.item = g.item /\ h.target = g.target
  /\ h.wish = g.wish /\ h.todo = g.todo /\ h.current = g.current

LEMMA SeenStays ==
  ASSUME TableInv, Drift, moved \subseteq moved', NEW n \in Tenants
  PROVE  /\ \A p : PermSeen(p, n) => PermSeen(p, n)'
         /\ \A f : FeatureSeen(f, n) => FeatureSeen(f, n)'
         /\ \A a : AppSeen(a, n) => AppSeen(a, n)'
         /\ \A ro : RoleSeen(ro, n) => RoleSeen(ro, n)'
<1>1. ASSUME NEW p, PermSeen(p, n) PROVE PermSeen(p, n)' BY <1>1 DEF PermSeen, Drift
<1>2. ASSUME NEW f, FeatureSeen(f, n) PROVE FeatureSeen(f, n)' BY <1>2 DEF FeatureSeen, Drift
<1>3. ASSUME NEW a, AppSeen(a, n) PROVE AppSeen(a, n)' BY <1>3 DEF AppSeen, Drift
<1>4. ASSUME NEW ro, RoleSeen(ro, n) PROVE RoleSeen(ro, n)' BY <1>4 DEF RoleSeen, Drift
<1> QED BY <1>1, <1>2, <1>3, <1>4

LEMMA HandlerStays ==
  ASSUME TableInv, Drift, moved \subseteq moved', NEW r \in Requests, HandlerOK(r),
         req'[r] \in Request, SameBut(req'[r], req[r])
  PROVE  HandlerOK(r)'
<1>1. CASE req[r].pc = "idle" BY <1>1 DEF HandlerOK, SameBut, SavePCs, WritePCs
<1>2. CASE req[r].pc # "idle"
  <2>1. PICK n \in Tenants : n = req[r].tenant BY <1>2 DEF HandlerOK
  <2>2. fresh' \subseteq fresh BY DEF Drift
  <2>3. req'[r].pc \in SavePCs => /\ req'[r].item \in Roles \ fresh'
                                  /\ req'[r].wish \subseteq Permissions \ fresh'
                                  /\ req'[r].todo \subseteq req'[r].wish
    BY <2>2 DEF HandlerOK, SameBut
  <2>4. req'[r].pc \in {"roleDelete"} \cup WritePCs => RoleSeen(req[r].item, req[r].tenant)'
    <3> SUFFICES ASSUME req'[r].pc \in {"roleDelete"} \cup WritePCs
                 PROVE  RoleSeen(req[r].item, req[r].tenant)'
      OBVIOUS
    <3>1. PICK x : x = req[r].item OBVIOUS
    <3>2. RoleSeen(x, n) BY <2>1, <3>1 DEF HandlerOK, SameBut
    <3>3. RoleSeen(x, n)' BY <3>2, SeenStays
    <3>4. req'[r].item = x /\ req'[r].tenant = n BY <2>1, <3>1 DEF SameBut
    <3> QED BY <3>3, <3>4 DEF RoleSeen
  <2>5. req'[r].pc = "roleInsert" => /\ PermSeen(req[r].current, req[r].tenant)'
                                     /\ req'[r].current \in req'[r].wish
    <3> SUFFICES ASSUME req'[r].pc = "roleInsert"
                 PROVE  /\ PermSeen(req[r].current, req[r].tenant)'
                        /\ req'[r].current \in req'[r].wish
      OBVIOUS
    <3>1. PICK x : x = req[r].current OBVIOUS
    <3>2. PermSeen(x, n) /\ x \in req[r].wish BY <2>1, <3>1 DEF HandlerOK, SameBut
    <3>3. PermSeen(x, n)' BY <3>2, SeenStays
    <3>4. req'[r].current = x /\ req'[r].tenant = n /\ req'[r].wish = req[r].wish
      BY <2>1, <3>1 DEF SameBut
    <3> QED BY <3>2, <3>3, <3>4 DEF PermSeen, PermTenant, FeatureTenant
  <2>6. req'[r].pc \in {"featureInsert", "featureUpdate"} =>
          AppSeen(req[r].target, req[r].tenant)'
    <3> SUFFICES ASSUME req'[r].pc \in {"featureInsert", "featureUpdate"}
                 PROVE  AppSeen(req[r].target, req[r].tenant)'
      OBVIOUS
    <3>1. PICK x : x = req[r].target OBVIOUS
    <3>2. AppSeen(x, n) BY <2>1, <3>1 DEF HandlerOK, SameBut
    <3>3. AppSeen(x, n)' BY <3>2, SeenStays
    <3>4. req'[r].target = x /\ req'[r].tenant = n BY <2>1, <3>1 DEF SameBut
    <3> QED BY <3>3, <3>4 DEF AppSeen
  <2>7. req'[r].pc = "featureDelete" => FeatureSeen(req[r].item, req[r].tenant)'
    <3> SUFFICES ASSUME req'[r].pc = "featureDelete"
                 PROVE  FeatureSeen(req[r].item, req[r].tenant)'
      OBVIOUS
    <3>1. PICK x : x = req[r].item OBVIOUS
    <3>2. FeatureSeen(x, n) BY <2>1, <3>1 DEF HandlerOK, SameBut
    <3>3. FeatureSeen(x, n)' BY <3>2, SeenStays
    <3>4. req'[r].item = x /\ req'[r].tenant = n BY <2>1, <3>1 DEF SameBut
    <3> QED BY <3>3, <3>4 DEF FeatureSeen, FeatureTenant
  <2>8. req'[r].pc \in {"permInsert", "permUpdate"} =>
          FeatureSeen(req[r].target, req[r].tenant)'
    <3> SUFFICES ASSUME req'[r].pc \in {"permInsert", "permUpdate"}
                 PROVE  FeatureSeen(req[r].target, req[r].tenant)'
      OBVIOUS
    <3>1. PICK x : x = req[r].target OBVIOUS
    <3>2. FeatureSeen(x, n) BY <2>1, <3>1 DEF HandlerOK, SameBut
    <3>3. FeatureSeen(x, n)' BY <3>2, SeenStays
    <3>4. req'[r].target = x /\ req'[r].tenant = n BY <2>1, <3>1 DEF SameBut
    <3> QED BY <3>3, <3>4 DEF FeatureSeen, FeatureTenant
  <2>9. req'[r].pc = "permDelete" => PermSeen(req[r].item, req[r].tenant)'
    <3> SUFFICES ASSUME req'[r].pc = "permDelete"
                 PROVE  PermSeen(req[r].item, req[r].tenant)'
      OBVIOUS
    <3>1. PICK x : x = req[r].item OBVIOUS
    <3>2. PermSeen(x, n) BY <2>1, <3>1 DEF HandlerOK, SameBut
    <3>3. PermSeen(x, n)' BY <3>2, SeenStays
    <3>4. req'[r].item = x /\ req'[r].tenant = n BY <2>1, <3>1 DEF SameBut
    <3> QED BY <3>3, <3>4 DEF PermSeen, PermTenant, FeatureTenant
  <2>10. /\ req'[r].pc # "idle" => req'[r].tenant \in Tenants
         /\ req'[r].pc \in {"roleSelect", "roleDelete"} => req'[r].todo = req'[r].wish
         /\ req'[r].pc = "featureUpdate" => req'[r].item \in Features \ fresh'
         /\ req'[r].pc = "permUpdate" => req'[r].item \in Permissions \ fresh'
    BY <2>2 DEF HandlerOK, SameBut
  <2> QED BY <2>3, <2>4, <2>5, <2>6, <2>7, <2>8, <2>9, <2>10 DEF HandlerOK
<1> QED BY <1>1, <1>2

HistoryTypes ==
  /\ wish \in [Roles -> SUBSET Permissions]
  /\ torn \subseteq Roles /\ moved \subseteq Features \cup Permissions

CatalogInv ==
  /\ TableInv /\ HistoryTypes
  /\ req \in [Requests -> Request] /\ \A r \in Requests : HandlerOK(r)

\* What a step does to the tables and to the other handlers.
StepOf(r) ==
  /\ TableInv' /\ Drift /\ HistoryTypes' /\ moved \subseteq moved'
  /\ req' \in [Requests -> Request]
  /\ \A q \in Requests \ {r} : SameBut(req'[q], req[q])
  /\ HandlerOK(r)'

LEMMA StepKeeps ==
  ASSUME CatalogInv, NEW r \in Requests, StepOf(r)
  PROVE  CatalogInv'
<1>1. ASSUME NEW q \in Requests PROVE HandlerOK(q)'
  <2>1. CASE q = r BY <2>1 DEF StepOf
  <2>2. CASE q # r
    <3>1. req'[q] \in Request /\ SameBut(req'[q], req[q]) BY <2>2 DEF StepOf
    <3> QED BY <3>1, HandlerStays DEF CatalogInv, StepOf
  <2> QED BY <2>1, <2>2
<1> QED BY <1>1 DEF CatalogInv, StepOf

LEMMA IdleRow ==
  IdleRequest \in Request /\ IdleRequest.pc = "idle"
  BY DEF IdleRequest, Request, PCs

LEMMA ReqRow ==
  ASSUME CatalogInv, NEW r \in Requests, NEW h \in Request, req' = [req EXCEPT ![r] = h]
  PROVE  /\ req' \in [Requests -> Request] /\ req'[r] = h
         /\ \A q \in Requests \ {r} : req'[q] = req[q] /\ SameBut(req'[q], req[q])
  BY DEF CatalogInv, SameBut

\* A handler ends, whatever it did.
LEMMA FinishOK ==
  ASSUME CatalogInv, NEW r \in Requests, Finish(r)
  PROVE  /\ req' \in [Requests -> Request] /\ req'[r] = IdleRequest /\ HandlerOK(r)'
         /\ \A q \in Requests \ {r} : req'[q] = req[q] /\ SameBut(req'[q], req[q])
<1>1. /\ req' \in [Requests -> Request] /\ req'[r] = IdleRequest
      /\ \A q \in Requests \ {r} : req'[q] = req[q] /\ SameBut(req'[q], req[q])
  BY IdleRow, ReqRow DEF Finish
<1>2. HandlerOK(r)' BY <1>1, IdleRow DEF HandlerOK, SavePCs, WritePCs
<1> QED BY <1>1, <1>2

\* A handler begins.
LEMMA BeginOK ==
  ASSUME CatalogInv, NEW r \in Requests, NEW pc \in PCs, NEW n \in Tenants,
         NEW item \in Ids \cup {None}, NEW target \in Apps \cup Features \cup {None},
         NEW W \in SUBSET Permissions, Begin(r, pc, n, item, target, W)
  PROVE  /\ TableInv' /\ Drift /\ HistoryTypes' /\ moved' = moved /\ fresh' = fresh
         /\ app' = app /\ feature' = feature /\ perm' = perm /\ owner' = owner
         /\ req' \in [Requests -> Request]
         /\ \A q \in Requests \ {r} : req'[q] = req[q] /\ SameBut(req'[q], req[q])
         /\ req'[r].pc = pc /\ req'[r].tenant = n /\ req'[r].item = item
         /\ req'[r].target = target /\ req'[r].wish = W /\ req'[r].todo = W
<1> DEFINE h == [IdleRequest EXCEPT !.pc = pc, !.tenant = n, !.item = item, !.target = target,
                                    !.wish = W, !.todo = W]
<1>1. /\ h \in Request /\ h.pc = pc /\ h.tenant = n /\ h.item = item /\ h.target = target
      /\ h.wish = W /\ h.todo = W
  BY DEF IdleRequest, Request
<1>2. req' = [req EXCEPT ![r] = h] /\ UNCHANGED <<tables, history>> BY DEF Begin
<1> HIDE DEF h
<1>3. /\ req' \in [Requests -> Request] /\ req'[r] = h
      /\ \A q \in Requests \ {r} : req'[q] = req[q] /\ SameBut(req'[q], req[q])
  BY <1>1, <1>2, ReqRow
<1>4. UNCHANGED <<fresh, app, feature, perm, owner, grants>> /\ UNCHANGED <<wish, torn, moved>>
  BY <1>2 DEF tables, history
<1>5. TableInv' /\ Drift BY <1>4, TablesRest DEF CatalogInv
<1>6. HistoryTypes' BY <1>4 DEF CatalogInv, HistoryTypes
<1> QED BY <1>1, <1>3, <1>4, <1>5, <1>6

-----------------------------------------------------------------------------
(* The arrivals. *)

LEMMA CreateFeatureStep ==
  ASSUME CatalogInv, NEW r \in Requests, NEW n \in Tenants, NEW a \in Apps,
         CreateFeature(r, n, a)
  PROVE  StepOf(r)
<1>1. Begin(r, "featureInsert", n, None, a, {}) /\ app[a] = n BY DEF CreateFeature
<1> /\ "featureInsert" \in PCs /\ None \in Ids \cup {None}
      /\ a \in Apps \cup Features \cup {None} /\ {} \in SUBSET Permissions
  BY DEF PCs, Ids
<1>2. /\ TableInv' /\ Drift /\ HistoryTypes' /\ moved' = moved /\ fresh' = fresh /\ app' = app
      /\ req' \in [Requests -> Request]
      /\ \A q \in Requests \ {r} : SameBut(req'[q], req[q])
      /\ req'[r].pc = "featureInsert" /\ req'[r].tenant = n /\ req'[r].target = a
  BY <1>1, BeginOK
<1>3. a \notin fresh BY <1>1, Foreign DEF CatalogInv, TableInv, FreshUnused
<1>4. HandlerOK(r)' BY <1>1, <1>2, <1>3 DEF HandlerOK, AppSeen, SavePCs, WritePCs
<1> QED BY <1>2, <1>4 DEF StepOf

LEMMA UpdateFeatureStep ==
  ASSUME CatalogInv, NEW r \in Requests, NEW n \in Tenants, NEW f \in Features,
         NEW a \in Apps, UpdateFeature(r, n, f, a)
  PROVE  StepOf(r)
<1>1. Begin(r, "featureUpdate", n, f, a, {}) /\ app[a] = n /\ f \notin fresh
  BY DEF UpdateFeature
<1> /\ "featureUpdate" \in PCs /\ f \in Ids \cup {None}
      /\ a \in Apps \cup Features \cup {None} /\ {} \in SUBSET Permissions
  BY DEF PCs, Ids
<1>2. /\ TableInv' /\ Drift /\ HistoryTypes' /\ moved' = moved /\ fresh' = fresh /\ app' = app
      /\ req' \in [Requests -> Request]
      /\ \A q \in Requests \ {r} : SameBut(req'[q], req[q])
      /\ req'[r].pc = "featureUpdate" /\ req'[r].tenant = n /\ req'[r].target = a
      /\ req'[r].item = f
  BY <1>1, BeginOK
<1>3. a \notin fresh BY <1>1, Foreign DEF CatalogInv, TableInv, FreshUnused
<1>4. HandlerOK(r)' BY <1>1, <1>2, <1>3 DEF HandlerOK, AppSeen, SavePCs, WritePCs
<1> QED BY <1>2, <1>4 DEF StepOf

\* A row that a tenant check found is none of the identifiers that are left.
LEMMA Found ==
  ASSUME CatalogInv, NEW n \in Tenants
  PROVE  /\ \A f \in Features : FeatureOf(f, n) => f \notin fresh /\ FeatureTenant(f) = n
         /\ \A p \in Permissions : PermissionOf(p, n) => p \notin fresh /\ PermTenant(p) = n
         /\ \A ro \in Roles : RoleOf(ro, n) => ro \notin fresh /\ owner[ro] = n
  BY Foreign DEF CatalogInv, TableInv, FreshUnused, FeatureOf, PermissionOf, RoleOf, Exists

LEMMA DeleteFeatureStep ==
  ASSUME CatalogInv, NEW r \in Requests, NEW n \in Tenants, NEW f \in Features,
         DeleteFeature(r, n, f)
  PROVE  StepOf(r)
<1>1. Begin(r, "featureDelete", n, f, None, {}) /\ FeatureOf(f, n) BY DEF DeleteFeature
<1> /\ "featureDelete" \in PCs /\ f \in Ids \cup {None}
      /\ None \in Apps \cup Features \cup {None} /\ {} \in SUBSET Permissions
  BY DEF PCs, Ids
<1>2. /\ TableInv' /\ Drift /\ HistoryTypes' /\ moved' = moved /\ fresh' = fresh
      /\ app' = app /\ feature' = feature /\ perm' = perm
      /\ req' \in [Requests -> Request]
      /\ \A q \in Requests \ {r} : SameBut(req'[q], req[q])
      /\ req'[r].pc = "featureDelete" /\ req'[r].tenant = n /\ req'[r].item = f
  BY <1>1, BeginOK
<1>3. f \notin fresh /\ FeatureTenant(f)' = n BY <1>1, <1>2, Found, TreeRests
<1>4. FeatureSeen(req[r].item, req[r].tenant)'
  BY <1>2, <1>3 DEF FeatureSeen, FeatureTenant
<1>5. HandlerOK(r)' BY <1>2, <1>4 DEF HandlerOK, SavePCs, WritePCs
<1> QED BY <1>2, <1>5 DEF StepOf

LEMMA CreatePermissionStep ==
  ASSUME CatalogInv, NEW r \in Requests, NEW n \in Tenants, NEW f \in Features,
         CreatePermission(r, n, f)
  PROVE  StepOf(r)
<1>1. Begin(r, "permInsert", n, None, f, {}) /\ FeatureOf(f, n) BY DEF CreatePermission
<1> /\ "permInsert" \in PCs /\ None \in Ids \cup {None}
      /\ f \in Apps \cup Features \cup {None} /\ {} \in SUBSET Permissions
  BY DEF PCs, Ids
<1>2. /\ TableInv' /\ Drift /\ HistoryTypes' /\ moved' = moved /\ fresh' = fresh
      /\ app' = app /\ feature' = feature /\ perm' = perm
      /\ req' \in [Requests -> Request]
      /\ \A q \in Requests \ {r} : SameBut(req'[q], req[q])
      /\ req'[r].pc = "permInsert" /\ req'[r].tenant = n /\ req'[r].target = f
  BY <1>1, BeginOK
<1>3. f \notin fresh /\ FeatureTenant(f)' = n BY <1>1, <1>2, Found, TreeRests
<1>4. FeatureSeen(req[r].target, req[r].tenant)'
  BY <1>2, <1>3 DEF FeatureSeen, FeatureTenant
<1>5. HandlerOK(r)' BY <1>2, <1>4 DEF HandlerOK, SavePCs, WritePCs
<1> QED BY <1>2, <1>5 DEF StepOf

LEMMA UpdatePermissionStep ==
  ASSUME CatalogInv, NEW r \in Requests, NEW n \in Tenants, NEW p \in Permissions,
         NEW f \in Features, UpdatePermission(r, n, p, f)
  PROVE  StepOf(r)
<1>1. Begin(r, "permUpdate", n, p, f, {}) /\ FeatureOf(f, n) /\ p \notin fresh
  BY DEF UpdatePermission
<1> /\ "permUpdate" \in PCs /\ p \in Ids \cup {None}
      /\ f \in Apps \cup Features \cup {None} /\ {} \in SUBSET Permissions
  BY DEF PCs, Ids
<1>2. /\ TableInv' /\ Drift /\ HistoryTypes' /\ moved' = moved /\ fresh' = fresh
      /\ app' = app /\ feature' = feature /\ perm' = perm
      /\ req' \in [Requests -> Request]
      /\ \A q \in Requests \ {r} : SameBut(req'[q], req[q])
      /\ req'[r].pc = "permUpdate" /\ req'[r].tenant = n /\ req'[r].target = f
      /\ req'[r].item = p
  BY <1>1, BeginOK
<1>3. f \notin fresh /\ FeatureTenant(f)' = n BY <1>1, <1>2, Found, TreeRests
<1>4. FeatureSeen(req[r].target, req[r].tenant)'
  BY <1>2, <1>3 DEF FeatureSeen, FeatureTenant
<1>5. HandlerOK(r)' BY <1>1, <1>2, <1>4 DEF HandlerOK, SavePCs, WritePCs
<1> QED BY <1>2, <1>5 DEF StepOf

LEMMA DeletePermissionStep ==
  ASSUME CatalogInv, NEW r \in Requests, NEW n \in Tenants, NEW p \in Permissions,
         DeletePermission(r, n, p)
  PROVE  StepOf(r)
<1>1. Begin(r, "permDelete", n, p, None, {}) /\ PermissionOf(p, n) BY DEF DeletePermission
<1> /\ "permDelete" \in PCs /\ p \in Ids \cup {None}
      /\ None \in Apps \cup Features \cup {None} /\ {} \in SUBSET Permissions
  BY DEF PCs, Ids
<1>2. /\ TableInv' /\ Drift /\ HistoryTypes' /\ moved' = moved /\ fresh' = fresh
      /\ app' = app /\ feature' = feature /\ perm' = perm
      /\ req' \in [Requests -> Request]
      /\ \A q \in Requests \ {r} : SameBut(req'[q], req[q])
      /\ req'[r].pc = "permDelete" /\ req'[r].tenant = n /\ req'[r].item = p
  BY <1>1, BeginOK
<1>3. p \notin fresh /\ PermTenant(p)' = n BY <1>1, <1>2, Found, TreeRests
<1>4. PermSeen(req[r].item, req[r].tenant)'
  BY <1>2, <1>3 DEF PermSeen, PermTenant, FeatureTenant
<1>5. HandlerOK(r)' BY <1>2, <1>4 DEF HandlerOK, SavePCs, WritePCs
<1> QED BY <1>2, <1>5 DEF StepOf

LEMMA UpdateRoleStep ==
  ASSUME CatalogInv, NEW r \in Requests, NEW n \in Tenants, NEW ro \in Roles,
         NEW W \in SUBSET (Permissions \ fresh), UpdateRole(r, n, ro, W)
  PROVE  StepOf(r)
<1>1. Begin(r, "roleSelect", n, ro, None, W) /\ ro \notin fresh BY DEF UpdateRole
<1>2. W \in SUBSET Permissions OBVIOUS
<1>3. /\ TableInv' /\ Drift /\ HistoryTypes' /\ moved' = moved /\ fresh' = fresh
      /\ req' \in [Requests -> Request]
      /\ \A q \in Requests \ {r} : SameBut(req'[q], req[q])
      /\ req'[r].pc = "roleSelect" /\ req'[r].tenant = n /\ req'[r].item = ro
      /\ req'[r].wish = W /\ req'[r].todo = W
  BY <1>1, <1>2, BeginOK DEF PCs, SavePCs, Ids
<1>4. HandlerOK(r)' BY <1>1, <1>3 DEF HandlerOK, SavePCs, WritePCs
<1> QED BY <1>3, <1>4 DEF StepOf

LEMMA CreateRoleStep ==
  ASSUME CatalogInv, NEW r \in Requests, NEW n \in Tenants, NEW ro \in Roles,
         NEW W \in SUBSET (Permissions \ fresh), CreateRole(r, n, ro, W)
  PROVE  /\ StepOf(r)
         /\ req'[r].pc = "roleNext" /\ req'[r].item = ro /\ req'[r].wish = W
         /\ req'[r].todo = W /\ req'[r].alone
<1> DEFINE h == [IdleRequest EXCEPT !.pc = "roleNext", !.tenant = n, !.item = ro,
                                    !.wish = W, !.todo = W, !.alone = TRUE]
<1>1. /\ h \in Request /\ h.pc = "roleNext" /\ h.tenant = n /\ h.item = ro
      /\ h.wish = W /\ h.todo = W /\ h.alone
  BY DEF IdleRequest, Request, PCs, SavePCs, Ids
<1>2. req' = [req EXCEPT ![r] = h] BY DEF CreateRole
<1> HIDE DEF h
<1>3. /\ req' \in [Requests -> Request] /\ req'[r] = h
      /\ \A q \in Requests \ {r} : SameBut(req'[q], req[q])
  BY <1>1, <1>2, ReqRow
<1>4. /\ fresh' = fresh \ {ro} /\ owner' = [owner EXCEPT ![ro] = n]
      /\ UNCHANGED <<wish, torn, moved>>
  BY DEF CreateRole, history
<1>5. TableInv' /\ Drift
  <2>1. W \in SUBSET Permissions OBVIOUS
  <2> QED BY <2>1, CreateRoleDrift DEF CatalogInv
<1>6. HistoryTypes' BY <1>4 DEF CatalogInv, HistoryTypes
<1>7. owner'[ro] = n BY <1>4 DEF CatalogInv, TableInv, TableTypes
<1>8. HandlerOK(r)'
  BY <1>1, <1>3, <1>4, <1>7 DEF HandlerOK, RoleSeen, SavePCs, WritePCs
<1> QED BY <1>1, <1>3, <1>4, <1>5, <1>6, <1>8 DEF StepOf

-----------------------------------------------------------------------------
(* The statements. *)

LEMMA TreeStatement ==
  ASSUME CatalogInv, NEW r \in Requests,
         \/ InsertFeature(r) \/ WriteFeature(r) \/ RemoveFeature(r)
         \/ InsertPermission(r) \/ WritePermission(r) \/ RemovePermission(r)
  PROVE  /\ StepOf(r) /\ Finish(r) /\ req[r].pc \notin SavePCs \cup {"idle"}
         /\ wish' = wish /\ torn' = torn
<1>1. /\ Finish(r) /\ wish' = wish /\ torn' = torn /\ HandlerOK(r) /\ TableInv
      /\ req[r].pc \notin SavePCs \cup {"idle"}
  BY DEF InsertFeature, WriteFeature, RemoveFeature, InsertPermission, WritePermission,
         RemovePermission, At, SavePCs, history, CatalogInv
<1>2. TableInv' /\ Drift
  <2>1. CASE InsertFeature(r)
    <3>1. req[r].pc = "featureInsert" BY <2>1 DEF InsertFeature, At
    <3>2. req[r].target \in Apps BY <1>1, <3>1 DEF HandlerOK, AppSeen
    <3> QED BY <1>1, <2>1, <3>2, InsertFeatureDrift
  <2>2. CASE WriteFeature(r)
    <3>1. req[r].pc = "featureUpdate" BY <2>2 DEF WriteFeature, At
    <3>2. req[r].target \in Apps /\ req[r].item \in Features
      BY <1>1, <3>1 DEF HandlerOK, AppSeen
    <3> QED BY <1>1, <2>2, <3>2, WriteFeatureDrift
  <2>3. CASE RemoveFeature(r)
    <3>1. req[r].pc = "featureDelete" BY <2>3 DEF RemoveFeature, At
    <3>2. req[r].item \in Features BY <1>1, <3>1 DEF HandlerOK, FeatureSeen
    <3> QED BY <1>1, <2>3, <3>2, RemoveFeatureDrift
  <2>4. CASE InsertPermission(r)
    <3>1. req[r].pc = "permInsert" BY <2>4 DEF InsertPermission, At
    <3>2. req[r].target \in Features BY <1>1, <3>1 DEF HandlerOK, FeatureSeen
    <3> QED BY <1>1, <2>4, <3>2, InsertPermissionDrift
  <2>5. CASE WritePermission(r)
    <3>1. req[r].pc = "permUpdate" BY <2>5 DEF WritePermission, At
    <3>2. req[r].target \in Features /\ req[r].item \in Permissions
      BY <1>1, <3>1 DEF HandlerOK, FeatureSeen
    <3> QED BY <1>1, <2>5, <3>2, WritePermissionDrift
  <2>6. CASE RemovePermission(r)
    <3>1. req[r].pc = "permDelete" BY <2>6 DEF RemovePermission, At
    <3>2. req[r].item \in Permissions BY <1>1, <3>1 DEF HandlerOK, PermSeen
    <3> QED BY <1>1, <2>6, <3>2, RemovePermissionDrift
  <2> QED BY <2>1, <2>2, <2>3, <2>4, <2>5, <2>6
<1>3. moved \subseteq moved' /\ moved' \subseteq Features \cup Permissions
  <2>1. moved \subseteq Features \cup Permissions BY DEF CatalogInv, HistoryTypes
  <2>2. CASE WriteFeature(r)
    <3>1. req[r].pc = "featureUpdate" BY <2>2 DEF WriteFeature, At
    <3>2. req[r].item \in Features BY <1>1, <3>1 DEF HandlerOK
    <3> QED BY <2>1, <2>2, <3>2 DEF WriteFeature, MovedWith
  <2>3. CASE WritePermission(r)
    <3>1. req[r].pc = "permUpdate" BY <2>3 DEF WritePermission, At
    <3>2. req[r].item \in Permissions BY <1>1, <3>1 DEF HandlerOK
    <3> QED BY <2>1, <2>3, <3>2 DEF WritePermission
  <2>4. CASE InsertFeature(r) \/ RemoveFeature(r) \/ InsertPermission(r) \/ RemovePermission(r)
    BY <2>1, <2>4 DEF InsertFeature, RemoveFeature, InsertPermission, RemovePermission, history
  <2> QED BY <2>2, <2>3, <2>4
<1>4. HistoryTypes' BY <1>1, <1>3 DEF CatalogInv, HistoryTypes
<1> QED BY <1>1, <1>2, <1>3, <1>4, FinishOK DEF StepOf

LEMMA SelectRoleStep ==
  ASSUME CatalogInv, NEW r \in Requests, SelectRole(r)
  PROVE  /\ StepOf(r) /\ req[r].pc = "roleSelect" /\ req'[r].pc \in {"roleDelete", "idle"}
         /\ \A q \in Requests \ {r} : req'[q] = req[q]
<1>1. /\ req[r].pc = "roleSelect" /\ UNCHANGED <<tables, history>> /\ HandlerOK(r)
      /\ Check(r, "roleSelect", RoleOf(req[r].item, req[r].tenant), "roleDelete")
  BY DEF SelectRole, Check, At, CatalogInv
<1>2. UNCHANGED <<fresh, app, feature, perm, owner, grants>> /\ UNCHANGED <<wish, torn, moved>>
  BY <1>1 DEF tables, history
<1>3. TableInv' /\ Drift BY <1>2, TablesRest DEF CatalogInv
<1>4. HistoryTypes' BY <1>2 DEF CatalogInv, HistoryTypes
<1>5. CASE RoleOf(req[r].item, req[r].tenant)
  <2> DEFINE h == [req[r] EXCEPT !.pc = "roleDelete"]
  <2>1. /\ h \in Request /\ h.pc = "roleDelete" /\ h.tenant = req[r].tenant
        /\ h.item = req[r].item /\ h.wish = req[r].wish /\ h.todo = req[r].todo
    BY <1>1 DEF HandlerOK, Request, PCs, SavePCs
  <2>2. req' = [req EXCEPT ![r] = h] BY <1>1, <1>5 DEF Check
  <2> HIDE DEF h
  <2>3. /\ req' \in [Requests -> Request] /\ req'[r] = h
        /\ \A q \in Requests \ {r} : req'[q] = req[q] /\ SameBut(req'[q], req[q])
    BY <2>1, <2>2, ReqRow
  <2>4. req[r].item \in Roles \ fresh /\ owner[req[r].item] = req[r].tenant
        /\ req[r].tenant \in Tenants
        /\ req[r].wish \subseteq Permissions \ fresh /\ req[r].todo = req[r].wish
    BY <1>1, <1>5 DEF HandlerOK, RoleOf, SavePCs
  <2>5. HandlerOK(r)'
    BY <1>2, <2>1, <2>3, <2>4 DEF HandlerOK, RoleSeen, SavePCs, WritePCs
  <2> QED BY <1>1, <1>2, <1>3, <1>4, <2>1, <2>3, <2>5 DEF StepOf
<1>6. CASE ~RoleOf(req[r].item, req[r].tenant)
  <2>1. Finish(r) BY <1>1, <1>6 DEF Check, Finish
  <2> QED BY <1>1, <1>2, <1>3, <1>4, <2>1, FinishOK, IdleRow DEF StepOf
<1> QED BY <1>5, <1>6

LEMMA ClearRoleStep ==
  ASSUME CatalogInv, NEW r \in Requests, ClearRole(r)
  PROVE  /\ StepOf(r) /\ req[r].pc = "roleDelete" /\ req'[r].pc = "roleNext"
         /\ req'[r].item = req[r].item /\ req'[r].wish = req[r].wish /\ req'[r].todo = req[r].wish
         /\ req'[r].alone <=> Saving(req[r].item) = {}
         /\ \A q \in Requests \ {r} :
              IF q \in Saving(req[r].item) THEN ~req'[q].alone ELSE req'[q] = req[q]
<1> DEFINE others == Saving(req[r].item)
           h == [req[r] EXCEPT !.pc = "roleNext", !.alone = (others = {})]
<1>1. /\ req[r].pc = "roleDelete" /\ HandlerOK(r) /\ UNCHANGED <<wish, torn, moved>>
      /\ UNCHANGED <<fresh, owner>>
  BY DEF ClearRole, At, CatalogInv, history
<1>2. req' = [q \in Requests |-> IF q = r THEN h
                                 ELSE IF q \in others THEN [req[q] EXCEPT !.alone = FALSE]
                                 ELSE req[q]]
  BY DEF ClearRole
<1>3. /\ h \in Request /\ h.pc = "roleNext" /\ h.tenant = req[r].tenant /\ h.item = req[r].item
      /\ h.wish = req[r].wish /\ h.todo = req[r].todo
  BY <1>1 DEF HandlerOK, Request, PCs, SavePCs
<1>4. h.alone <=> others = {} BY <1>1 DEF HandlerOK, Request
<1> HIDE DEF h, others
<1>5. \A q \in Requests : req[q] \in Request BY DEF CatalogInv
<1>6. ASSUME NEW q \in Requests
      PROVE  /\ [req[q] EXCEPT !.alone = FALSE] \in Request
             /\ ~[req[q] EXCEPT !.alone = FALSE].alone
             /\ SameBut([req[q] EXCEPT !.alone = FALSE], req[q])
  BY <1>5 DEF Request, SameBut
<1>7. req' \in [Requests -> Request] BY <1>2, <1>3, <1>5, <1>6
<1>8. req'[r] = h BY <1>2
<1>9. \A q \in Requests \ {r} : /\ SameBut(req'[q], req[q])
                                /\ IF q \in others THEN ~req'[q].alone ELSE req'[q] = req[q]
  BY <1>2, <1>6 DEF SameBut
<1>10. HandlerOK(r)'
  <2>1. /\ req[r].item \in Roles \ fresh /\ req[r].tenant \in Tenants
        /\ owner[req[r].item] \in {req[r].tenant, None}
        /\ req[r].wish \subseteq Permissions \ fresh /\ req[r].todo = req[r].wish
    BY <1>1 DEF HandlerOK, RoleSeen, SavePCs
  <2> QED BY <1>1, <1>3, <1>8, <2>1 DEF HandlerOK, RoleSeen, SavePCs, WritePCs
<1>11. TableInv' /\ Drift BY ClearRoleDrift DEF CatalogInv
<1>12. HistoryTypes' BY <1>1 DEF CatalogInv, HistoryTypes
<1>13. StepOf(r) BY <1>1, <1>7, <1>9, <1>10, <1>11, <1>12 DEF StepOf
<1>14. req[r].todo = req[r].wish BY <1>1 DEF HandlerOK
<1> QED BY <1>1, <1>3, <1>4, <1>8, <1>9, <1>13, <1>14 DEF others

LEMMA NextPermissionStep ==
  ASSUME CatalogInv, NEW r \in Requests, NextPermission(r)
  PROVE  /\ StepOf(r) /\ req[r].pc = "roleNext"
         /\ UNCHANGED <<app, feature, perm, owner, grants>> /\ UNCHANGED <<wish, torn, moved>>
         /\ \A q \in Requests \ {r} : req'[q] = req[q]
         /\ req'[r].item = req[r].item /\ req'[r].wish = req[r].wish
         /\ req'[r].alone = req[r].alone
         /\ \E p \in req[r].todo :
              /\ req'[r].todo = req[r].todo \ {p}
              /\ \/ req'[r].pc = "roleInsert" /\ req'[r].current = p
                 \/ req'[r].pc = "roleNext" /\ ~PermissionOf(p, req[r].tenant)
<1>1. /\ req[r].pc = "roleNext" /\ HandlerOK(r) /\ UNCHANGED <<tables, history>>
  BY DEF NextPermission, At, CatalogInv
<1>2. PICK p \in req[r].todo :
        req' = [req EXCEPT ![r] = IF PermissionOf(p, req[r].tenant)
                 THEN [req[r] EXCEPT !.pc = "roleInsert", !.todo = @ \ {p}, !.current = p]
                 ELSE [req[r] EXCEPT !.todo = @ \ {p}]]
  BY DEF NextPermission
<1>3. UNCHANGED <<fresh, app, feature, perm, owner, grants>> /\ UNCHANGED <<wish, torn, moved>>
  BY <1>1 DEF tables, history
<1>4. TableInv' /\ Drift BY <1>3, TablesRest DEF CatalogInv
<1>5. HistoryTypes' BY <1>3 DEF CatalogInv, HistoryTypes
<1>6. /\ req[r].item \in Roles \ fresh /\ req[r].tenant \in Tenants
      /\ owner[req[r].item] \in {req[r].tenant, None}
      /\ req[r].wish \subseteq Permissions \ fresh /\ req[r].todo \subseteq req[r].wish
      /\ req[r] \in Request
  BY <1>1 DEF HandlerOK, RoleSeen, SavePCs, WritePCs
<1>7. p \in Permissions \ fresh /\ p \in req[r].wish BY <1>6
<1>8. CASE PermissionOf(p, req[r].tenant)
  <2> DEFINE h == [req[r] EXCEPT !.pc = "roleInsert", !.todo = @ \ {p}, !.current = p]
  <2>1. /\ h \in Request /\ h.pc = "roleInsert" /\ h.tenant = req[r].tenant
        /\ h.item = req[r].item /\ h.wish = req[r].wish /\ h.todo = req[r].todo \ {p}
        /\ h.current = p /\ h.alone = req[r].alone
    BY <1>6, <1>7 DEF Request, PCs, SavePCs
  <2>2. req' = [req EXCEPT ![r] = h] BY <1>2, <1>8
  <2> HIDE DEF h
  <2>3. /\ req' \in [Requests -> Request] /\ req'[r] = h
        /\ \A q \in Requests \ {r} : req'[q] = req[q] /\ SameBut(req'[q], req[q])
    BY <2>1, <2>2, ReqRow
  <2>4. PermTenant(p)' = req[r].tenant
    BY <1>3, <1>7, <1>8, TreeRests DEF PermissionOf
  <2>5. PermSeen(req[r].current, req[r].tenant)'
    BY <1>3, <1>7, <2>1, <2>3, <2>4 DEF PermSeen, PermTenant, FeatureTenant
  <2>6. RoleSeen(req[r].item, req[r].tenant)'
    BY <1>3, <1>6, <2>1, <2>3 DEF RoleSeen
  <2>7. HandlerOK(r)'
    BY <1>3, <1>6, <1>7, <2>1, <2>3, <2>5, <2>6 DEF HandlerOK, SavePCs, WritePCs
  <2> QED BY <1>1, <1>3, <1>4, <1>5, <2>1, <2>3, <2>7 DEF StepOf
<1>9. CASE ~PermissionOf(p, req[r].tenant)
  <2> DEFINE h == [req[r] EXCEPT !.todo = @ \ {p}]
  <2>1. /\ h \in Request /\ h.pc = "roleNext" /\ h.tenant = req[r].tenant
        /\ h.item = req[r].item /\ h.wish = req[r].wish /\ h.todo = req[r].todo \ {p}
        /\ h.alone = req[r].alone
    BY <1>1, <1>6 DEF Request
  <2>2. req' = [req EXCEPT ![r] = h] BY <1>2, <1>9
  <2> HIDE DEF h
  <2>3. /\ req' \in [Requests -> Request] /\ req'[r] = h
        /\ \A q \in Requests \ {r} : req'[q] = req[q] /\ SameBut(req'[q], req[q])
    BY <2>1, <2>2, ReqRow
  <2>4. RoleSeen(req[r].item, req[r].tenant)'
    BY <1>3, <1>6, <2>1, <2>3 DEF RoleSeen
  <2>5. HandlerOK(r)'
    BY <1>3, <1>6, <2>1, <2>3, <2>4 DEF HandlerOK, SavePCs, WritePCs
  <2> QED BY <1>1, <1>3, <1>4, <1>5, <1>9, <2>1, <2>3, <2>5 DEF StepOf
<1> QED BY <1>8, <1>9

\* A save that wrote and failed.
Failed(r) == /\ Finish(r) /\ req[r].pc \in WritePCs
             /\ torn' = torn \cup {req[r].item} /\ wish' = wish /\ moved' = moved

LEMMA FailedStep ==
  ASSUME CatalogInv, NEW r \in Requests, Failed(r),
         UNCHANGED <<fresh, app, feature, perm, owner, grants>>
  PROVE  StepOf(r)
<1>1. TableInv' /\ Drift BY TablesRest DEF CatalogInv
<1>2. req[r].item \in Roles BY DEF Failed, CatalogInv, HandlerOK, RoleSeen, WritePCs
<1>3. HistoryTypes' BY <1>2 DEF Failed, CatalogInv, HistoryTypes
<1> QED BY <1>1, <1>3, FinishOK DEF Failed, StepOf

LEMMA InsertGrantStep ==
  ASSUME CatalogInv, NEW r \in Requests, InsertGrant(r)
  PROVE  /\ StepOf(r) /\ req[r].pc = "roleInsert"
         /\ UNCHANGED <<app, feature, perm, owner>>
         /\ \/ Failed(r) /\ grants' = grants
            \/ /\ grants' = grants \cup {<<req[r].item, req[r].current>>}
               /\ Insertable(req[r].item, req[r].current)
               /\ UNCHANGED <<wish, torn, moved>>
               /\ req'[r].pc = "roleNext" /\ req'[r].item = req[r].item
               /\ req'[r].wish = req[r].wish /\ req'[r].todo = req[r].todo
               /\ req'[r].alone = req[r].alone
               /\ \A q \in Requests \ {r} : req'[q] = req[q]
<1>1. /\ req[r].pc = "roleInsert" /\ HandlerOK(r)
      /\ UNCHANGED <<fresh, app, feature, perm, owner>>
  BY DEF InsertGrant, At, CatalogInv
<1>2. /\ req[r].item \in Roles \ fresh /\ req[r].tenant \in Tenants
      /\ owner[req[r].item] \in {req[r].tenant, None}
      /\ req[r].current \in Permissions
      /\ req[r].wish \subseteq Permissions \ fresh /\ req[r].todo \subseteq req[r].wish
      /\ req[r] \in Request
  BY <1>1 DEF HandlerOK, RoleSeen, PermSeen, SavePCs, WritePCs
<1>3. CASE ~Insertable(req[r].item, req[r].current)
  <2>1. Failed(r) /\ grants' = grants
    BY <1>1, <1>3 DEF InsertGrant, Fail, Failed, WritePCs
  <2> QED BY <1>1, <2>1, FailedStep
<1>4. CASE Insertable(req[r].item, req[r].current)
  <2> DEFINE h == [req[r] EXCEPT !.pc = "roleNext", !.current = None]
  <2>1. /\ h \in Request /\ h.pc = "roleNext" /\ h.tenant = req[r].tenant
        /\ h.item = req[r].item /\ h.wish = req[r].wish /\ h.todo = req[r].todo
        /\ h.alone = req[r].alone
    BY <1>2 DEF Request, PCs, SavePCs
  <2>2. /\ req' = [req EXCEPT ![r] = h]
        /\ grants' = grants \cup {<<req[r].item, req[r].current>>}
        /\ UNCHANGED <<wish, torn, moved>>
    BY <1>4 DEF InsertGrant, history
  <2> HIDE DEF h
  <2>3. /\ req' \in [Requests -> Request] /\ req'[r] = h
        /\ \A q \in Requests \ {r} : req'[q] = req[q] /\ SameBut(req'[q], req[q])
    BY <2>1, <2>2, ReqRow
  <2>4. TableInv' /\ Drift BY <1>2, InsertGrantDrift DEF CatalogInv
  <2>5. RoleSeen(req[r].item, req[r].tenant)' BY <1>1, <1>2, <2>1, <2>3 DEF RoleSeen
  <2>6. HandlerOK(r)'
    BY <1>1, <1>2, <2>1, <2>3, <2>5 DEF HandlerOK, SavePCs, WritePCs
  <2>7. HistoryTypes' BY <2>2 DEF CatalogInv, HistoryTypes
  <2>8. StepOf(r) BY <2>2, <2>3, <2>4, <2>6, <2>7 DEF StepOf
  <2> QED BY <1>1, <1>4, <2>1, <2>2, <2>3, <2>8
<1> QED BY <1>3, <1>4

LEMMA RoleSavedStep ==
  ASSUME CatalogInv, NEW r \in Requests, RoleSaved(r)
  PROVE  /\ StepOf(r) /\ Finish(r) /\ req[r].pc = "roleNext" /\ req[r].todo = {}
         /\ UNCHANGED <<app, feature, perm, owner, grants>> /\ moved' = moved
         /\ wish' = [wish EXCEPT ![req[r].item] = req[r].wish]
         /\ torn' = IF req[r].alone THEN torn \ {req[r].item} ELSE torn \cup {req[r].item}
<1>1. /\ Finish(r) /\ req[r].pc = "roleNext" /\ req[r].todo = {} /\ moved' = moved
      /\ UNCHANGED <<fresh, app, feature, perm, owner, grants>>
      /\ wish' = [wish EXCEPT ![req[r].item] = req[r].wish]
      /\ torn' = IF req[r].alone THEN torn \ {req[r].item} ELSE torn \cup {req[r].item}
  BY DEF RoleSaved, At, tables
<1>2. req[r].item \in Roles /\ req[r].wish \subseteq Permissions
  BY <1>1 DEF CatalogInv, HandlerOK, RoleSeen, SavePCs, WritePCs
<1>3. TableInv' /\ Drift BY <1>1, TablesRest DEF CatalogInv
<1>4. HistoryTypes' BY <1>1, <1>2 DEF CatalogInv, HistoryTypes
<1> QED BY <1>1, <1>3, <1>4, FinishOK DEF StepOf

LEMMA AbortStep ==
  ASSUME CatalogInv, NEW r \in Requests, Abort(r)
  PROVE  /\ StepOf(r) /\ UNCHANGED <<app, feature, perm, owner, grants>>
         /\ \/ Failed(r)
            \/ Finish(r) /\ req[r].pc \notin WritePCs /\ UNCHANGED <<wish, torn, moved>>
<1>1. UNCHANGED <<fresh, app, feature, perm, owner, grants>> BY DEF Abort, tables
<1>2. CASE req[r].pc \in WritePCs
  <2>1. Failed(r) BY <1>2 DEF Abort, Fail, Failed, WritePCs
  <2> QED BY <1>1, <2>1, FailedStep
<1>3. CASE req[r].pc \notin WritePCs
  <2>1. Finish(r) /\ UNCHANGED <<wish, torn, moved>> BY <1>3 DEF Abort, history, WritePCs
  <2>2. TableInv' /\ Drift BY <1>1, TablesRest DEF CatalogInv
  <2>3. HistoryTypes' BY <2>1 DEF CatalogInv, HistoryTypes
  <2> QED BY <1>1, <1>3, <2>1, <2>2, <2>3, FinishOK DEF StepOf
<1> QED BY <1>2, <1>3

\* The actions of one statement.
Alone(n) ==
  \/ \E a \in Apps : CreateApplication(n, a) \/ DeleteApplication(n, a)
  \/ \E ro \in Roles : DeleteRole(n, ro)

LEMMA AloneStep ==
  ASSUME CatalogInv, NEW n \in Tenants, Alone(n)
  PROVE  CatalogInv' /\ Drift /\ UNCHANGED <<wish, torn, moved>> /\ req' = req
<1>1. UNCHANGED <<wish, torn, moved>> /\ req' = req
  BY DEF Alone, CreateApplication, DeleteApplication, DeleteRole, history
<1>2. TableInv' /\ Drift
  BY CreateApplicationDrift, DeleteApplicationDrift, DeleteRoleDrift DEF Alone, CatalogInv
<1>3. HistoryTypes' BY <1>1 DEF CatalogInv, HistoryTypes
<1>4. ASSUME NEW r \in Requests PROVE HandlerOK(r)'
  <2>1. req'[r] \in Request /\ SameBut(req'[r], req[r]) BY <1>1 DEF CatalogInv, SameBut
  <2> QED BY <1>1, <1>2, <2>1, HandlerStays DEF CatalogInv
<1> QED BY <1>1, <1>2, <1>3, <1>4 DEF CatalogInv

LEMMA RequestStep ==
  ASSUME CatalogInv, NEW r \in Requests,
         ArriveTree(r) \/ ArriveSave(r) \/ Resume(r) \/ Abort(r)
  PROVE  StepOf(r)
<1>1. CASE ArriveTree(r)
  BY <1>1, CreateFeatureStep, UpdateFeatureStep, DeleteFeatureStep, CreatePermissionStep,
     UpdatePermissionStep, DeletePermissionStep
  DEF ArriveTree
<1>2. CASE ArriveSave(r) BY <1>2, CreateRoleStep, UpdateRoleStep DEF ArriveSave
<1>3. CASE Resume(r)
  BY <1>3, TreeStatement, SelectRoleStep, ClearRoleStep, NextPermissionStep, InsertGrantStep,
     RoleSavedStep
  DEF Resume
<1>4. CASE Abort(r) BY <1>4, AbortStep
<1> QED BY <1>1, <1>2, <1>3, <1>4

LEMMA CatalogStart == Init => CatalogInv
<1> SUFFICES ASSUME Init PROVE CatalogInv OBVIOUS
<1>1. TableTypes BY DEF Init, TableTypes
<1>2. FreshUnused BY DEF Init, FreshUnused, Exists
<1>3. \A f \in Features : Exists(feature, f) => Exists(app, feature[f]) BY DEF Init
<1>4. \A p \in Permissions : Exists(perm, p) => Exists(feature, perm[p]) BY DEF Init
<1>5. ASSUME NEW e \in grants PROVE Exists(owner, e[1]) /\ Exists(perm, e[2])
  <2>1. e[1] \in Roles /\ e[2] \in Permissions /\ e[2] \in wish[e[1]] BY DEF Init
  <2>2. Exists(owner, e[1]) /\ PermTenant(e[2]) = owner[e[1]] BY <2>1 DEF Init
  <2> QED BY <2>2 DEF PermTenant, Exists
<1>6. TableInv BY <1>1, <1>2, <1>3, <1>4, <1>5 DEF TableInv, Keys
<1>7. HistoryTypes BY DEF Init, HistoryTypes
<1>8. req \in [Requests -> Request] /\ \A r \in Requests : req[r] = IdleRequest
  BY IdleRow DEF Init
<1>9. ASSUME NEW r \in Requests PROVE HandlerOK(r)
  BY <1>8, IdleRow DEF HandlerOK, SavePCs, WritePCs
<1> QED BY <1>6, <1>7, <1>8, <1>9 DEF CatalogInv

LEMMA CatalogStep == CatalogInv /\ [Next]_vars => CatalogInv'
<1> SUFFICES ASSUME CatalogInv, [Next]_vars PROVE CatalogInv' OBVIOUS
<1>1. CASE UNCHANGED vars
  <2>1. /\ UNCHANGED <<fresh, app, feature, perm, owner, grants>>
        /\ UNCHANGED <<wish, torn, moved>> /\ req' = req
    BY <1>1 DEF vars, tables, history
  <2>2. TableInv' /\ Drift BY <2>1, TablesRest DEF CatalogInv
  <2>3. ASSUME NEW r \in Requests PROVE HandlerOK(r)'
    <3>1. req'[r] \in Request /\ SameBut(req'[r], req[r]) BY <2>1 DEF CatalogInv, SameBut
    <3> QED BY <2>1, <2>2, <3>1, HandlerStays DEF CatalogInv
  <2> QED BY <2>1, <2>2, <2>3 DEF CatalogInv, HistoryTypes
<1>2. ASSUME NEW r \in Requests, ArriveTree(r) \/ ArriveSave(r) \/ Resume(r) \/ Abort(r)
      PROVE  CatalogInv'
  BY <1>2, RequestStep, StepKeeps
<1>3. ASSUME NEW n \in Tenants, Alone(n) PROVE CatalogInv' BY <1>3, AloneStep
<1> QED BY <1>1, <1>2, <1>3 DEF Next, Alone

\* The tables keep their types and their foreign keys, for any number of tenants, rows and
\* handlers; and every handler still knows what it saw of the rows it looked at.
THEOREM CatalogInvariance == Spec => []CatalogInv
  BY CatalogStart, CatalogStep, PTL DEF Spec

\* The foreign keys of sql/schema.sql:107-194 follow from the statements of the handlers and
\* the cascades alone.
THEOREM CatalogTypeCorrect == Spec => []CatalogTypeOK
<1>1. CatalogInv => CatalogTypeOK
  BY DEF CatalogInv, TableInv, TableTypes, Keys, HistoryTypes, CatalogTypeOK
<1> QED BY <1>1, CatalogInvariance, PTL

-----------------------------------------------------------------------------
(* Grants of other tenants' permissions. *)

LEMMA ForeignKept ==
  ASSUME CatalogInv, Drift, moved \subseteq moved', TableInv', ForeignGrantOnlyByMove,
         NEW e \in grants, e \in grants', PermTenant(e[2])' # owner'[e[1]]
  PROVE  e[2] \in moved'
<1>1. e[1] \in Roles /\ e[2] \in Permissions BY DEF CatalogInv, TableInv, TableTypes
<1>2. owner[e[1]] # None /\ perm[e[2]] # None BY DEF CatalogInv, TableInv, Keys, Exists
<1>3. owner'[e[1]] # None /\ perm'[e[2]] # None BY DEF TableInv, Keys, Exists
<1>4. e[1] \notin fresh /\ e[2] \notin fresh
  BY <1>1, <1>2 DEF CatalogInv, TableInv, FreshUnused
<1>5. owner'[e[1]] = owner[e[1]] BY <1>1, <1>3, <1>4 DEF Drift
<1>6. PICK p \in Permissions : p = e[2] BY <1>1
<1>7. PermTenant(p)' # None
  <2>1. /\ perm'[p] \in Features /\ feature'[perm'[p]] \in Apps
        /\ perm'[p] # None /\ feature'[perm'[p]] # None /\ app'[feature'[perm'[p]]] # None
    BY <1>3, <1>6 DEF TableInv, TableTypes, Keys, Exists
  <2> QED BY <2>1 DEF PermTenant, FeatureTenant, Exists
<1>8. CASE p \in moved' BY <1>6, <1>8
<1>9. CASE p \notin moved'
  <2>1. PermTenant(p)' = PermTenant(p) BY <1>4, <1>6, <1>7, <1>9 DEF Drift
  <2>2. p \notin moved BY <1>9
  <2>3. PermTenant(p) = owner[e[1]] BY <1>6, <2>2 DEF ForeignGrantOnlyByMove
  <2>4. PermTenant(p)' = owner'[e[1]] BY <1>5, <2>1, <2>3
  <2> QED BY <1>6, <2>4
<1> QED BY <1>8, <1>9

\* A step that adds grants inserts the one permission its handler has just looked at.
Granting(r) ==
  /\ HandlerOK(r) /\ req[r].pc = "roleInsert" /\ Insertable(req[r].item, req[r].current)
  /\ grants' = grants \cup {<<req[r].item, req[r].current>>}
  /\ UNCHANGED <<app, feature, perm, owner>> /\ moved' = moved

LEMMA GrantsGrow ==
  ASSUME CatalogInv, [Next]_vars
  PROVE  grants' \subseteq grants \/ \E r \in Requests : Granting(r)
<1>1. CASE UNCHANGED vars BY <1>1 DEF vars, tables
<1>2. ASSUME NEW r \in Requests, ArriveTree(r) \/ ArriveSave(r) \/ Abort(r)
      PROVE  grants' = grants
  BY <1>2 DEF ArriveTree, ArriveSave, Abort, CreateFeature, UpdateFeature, DeleteFeature,
     CreatePermission, UpdatePermission, DeletePermission, CreateRole, UpdateRole, Begin, tables
<1>3. ASSUME NEW r \in Requests, Resume(r)
      PROVE  grants' \subseteq grants \/ Granting(r)
  <2>1. CASE InsertGrant(r)
    <3>1. HandlerOK(r) BY DEF CatalogInv
    <3> QED BY <2>1, <3>1, InsertGrantStep DEF Granting
  <2>2. CASE \/ InsertFeature(r) \/ WriteFeature(r) \/ InsertPermission(r)
             \/ WritePermission(r) \/ SelectRole(r) \/ NextPermission(r) \/ RoleSaved(r)
    BY <2>2 DEF InsertFeature, WriteFeature, InsertPermission, WritePermission, SelectRole,
                NextPermission, RoleSaved, tables
  <2>3. CASE RemoveFeature(r) \/ RemovePermission(r) \/ ClearRole(r)
    BY <2>3 DEF RemoveFeature, RemovePermission, ClearRole, DropFeatures, DropPermissions,
                GrantsWithin, WithoutGrantsOf
  <2> QED BY <1>3, <2>1, <2>2, <2>3 DEF Resume
<1>4. ASSUME NEW n \in Tenants, Alone(n) PROVE grants' \subseteq grants
  BY <1>4 DEF Alone, CreateApplication, DeleteApplication, DeleteRole, DropFeatures,
     DropPermissions, GrantsWithin, WithoutGrantsOf
<1> QED BY <1>1, <1>2, <1>3, <1>4 DEF Next, Alone

\* What every step does to the rows there are.
LEMMA StepDrifts ==
  ASSUME CatalogInv, [Next]_vars
  PROVE  TableInv' /\ Drift /\ moved \subseteq moved'
<1>1. CASE UNCHANGED vars
  <2>1. UNCHANGED <<fresh, app, feature, perm, owner, grants>> /\ moved' = moved
    BY <1>1 DEF vars, tables, history
  <2> QED BY <2>1, TablesRest DEF CatalogInv
<1>2. ASSUME NEW r \in Requests, ArriveTree(r) \/ ArriveSave(r) \/ Resume(r) \/ Abort(r)
      PROVE  TableInv' /\ Drift /\ moved \subseteq moved'
  BY <1>2, RequestStep DEF StepOf
<1>3. ASSUME NEW n \in Tenants, Alone(n) PROVE TableInv' /\ Drift /\ moved \subseteq moved'
  BY <1>3, AloneStep DEF CatalogInv
<1> QED BY <1>1, <1>2, <1>3 DEF Next, Alone

LEMMA GrantingIsOwn ==
  ASSUME CatalogInv, NEW r \in Requests, Granting(r), ForeignGrantOnlyByMove
  PROVE  ForeignGrantOnlyByMove'
<1>1. PICK ro, p, n : ro = req[r].item /\ p = req[r].current /\ n = req[r].tenant OBVIOUS
<1>2. /\ owner[ro] \in {n, None} /\ PermSeen(p, n)
  BY <1>1 DEF Granting, HandlerOK, RoleSeen, WritePCs
<1>3. owner[ro] = n /\ perm[p] # None
  BY <1>1, <1>2 DEF Granting, Insertable, Exists
<1>4. p \in Permissions BY <1>2 DEF PermSeen
<1>5. PermTenant(p) # None BY <1>3, <1>4, TenantOfRow DEF CatalogInv
<1>6. PermTenant(p) = owner[ro] \/ p \in moved BY <1>2, <1>3, <1>5 DEF PermSeen
<1>7. grants' = grants \cup {<<ro, p>>} BY <1>1 DEF Granting
<1>8. /\ owner' = owner /\ moved' = moved
      /\ \A q : PermTenant(q)' = PermTenant(q)
  BY DEF Granting, PermTenant, FeatureTenant, Exists
<1>9. ASSUME NEW e \in grants', PermTenant(e[2])' # owner'[e[1]] PROVE e[2] \in moved'
  <2>1. PermTenant(e[2])' = PermTenant(e[2])
    BY <1>8 DEF Granting, PermTenant, FeatureTenant, Exists
  <2>2. CASE e \in grants BY <1>8, <1>9, <2>1, <2>2 DEF ForeignGrantOnlyByMove
  <2>3. CASE e = <<ro, p>> BY <1>6, <1>8, <1>9, <2>1, <2>3
  <2> QED BY <1>7, <2>2, <2>3
<1> QED BY <1>9 DEF ForeignGrantOnlyByMove

\* Nobody holds a permission of another tenant, for any number of tenants and handlers,
\* unless the permission or its feature was moved to that other tenant after the look at it
\* (data-access.ts:467, :603, :754).
THEOREM ForeignGrantsWereMoved == Spec => []ForeignGrantOnlyByMove
<1>1. Init => ForeignGrantOnlyByMove BY DEF Init, ForeignGrantOnlyByMove
<1>2. ASSUME CatalogInv, ForeignGrantOnlyByMove, [Next]_vars PROVE ForeignGrantOnlyByMove'
  <2>1. TableInv' /\ Drift /\ moved \subseteq moved' BY <1>2, StepDrifts
  <2>2. CASE grants' \subseteq grants
    <3>1. ASSUME NEW e \in grants', PermTenant(e[2])' # owner'[e[1]] PROVE e[2] \in moved'
      <4>1. e \in grants BY <2>2
      <4> QED BY <1>2, <2>1, <3>1, <4>1, ForeignKept
    <3> QED BY <3>1 DEF ForeignGrantOnlyByMove
  <2>3. ASSUME NEW r \in Requests, Granting(r) PROVE ForeignGrantOnlyByMove'
    BY <1>2, <2>3, GrantingIsOwn
  <2> QED BY <1>2, <2>2, <2>3, GrantsGrow
<1> QED BY <1>1, <1>2, CatalogInvariance, PTL DEF Spec

-----------------------------------------------------------------------------
(* Roles at rest, and roles a single save is writing. *)

\* The role grants some of W, and all of W that is its tenant's but for T and what was moved.
Filled(ro, W, T) ==
  /\ Granted(ro) \subseteq W
  /\ \A p \in (W \ T) \ moved : PermTenant(p) = owner[ro] => p \in Granted(ro)

Pending(r) == IF req[r].pc = "roleInsert" THEN req[r].todo \cup {req[r].current} ELSE req[r].todo

RestOK(ro) == owner[ro] # None /\ ro \notin torn /\ Saving(ro) = {} => Filled(ro, wish[ro], {})

WorkOK(r) ==
  req[r].pc \in WritePCs /\ req[r].alone =>
    /\ Saving(req[r].item) = {r}
    /\ owner[req[r].item] # None => Filled(req[r].item, req[r].wish, Pending(r))

WishOld == \A ro \in Roles : wish[ro] \subseteq Permissions \ fresh

SaveInv == WishOld /\ (\A ro \in Roles : RestOK(ro)) /\ (\A r \in Requests : WorkOK(r))

\* The grants of the role change only where a row is gone.
GrantsKept(ro) ==
  /\ Granted(ro)' \subseteq Granted(ro)
  /\ \A p \in Granted(ro) : perm'[p] # None /\ owner'[ro] # None => p \in Granted(ro)'

LEMMA FilledStays ==
  ASSUME CatalogInv, TableInv', Drift, moved \subseteq moved', NEW ro \in Roles \ fresh,
         NEW W \in SUBSET (Permissions \ fresh), NEW T, Filled(ro, W, T),
         GrantsKept(ro), owner'[ro] # None
  PROVE  Filled(ro, W, T)'
<1>1. Granted(ro)' \subseteq W BY DEF Filled, GrantsKept
<1>2. ASSUME NEW p \in (W \ T) \ moved', PermTenant(p)' = owner'[ro]
      PROVE  p \in Granted(ro)'
  <2>1. owner'[ro] = owner[ro] BY DEF Drift
  <2>2. p \in Permissions \ fresh /\ p \notin moved OBVIOUS
  <2>3. PermTenant(p) = owner[ro] BY <1>2, <2>1, <2>2 DEF Drift
  <2>4. p \in Granted(ro) BY <2>2, <2>3 DEF Filled
  <2>5. perm'[p] # None BY <1>2 DEF PermTenant, Exists
  <2> QED BY <2>4, <2>5 DEF GrantsKept
<1> QED BY <1>1, <1>2 DEF Filled

LEMMA RestStays ==
  ASSUME CatalogInv, TableInv', Drift, moved \subseteq moved', WishOld, NEW ro \in Roles,
         RestOK(ro), ro \notin fresh \/ owner'[ro] = None,
         wish'[ro] = wish[ro], ro \in torn => ro \in torn',
         Saving(ro)' = {} => Saving(ro) = {}, GrantsKept(ro)
  PROVE  RestOK(ro)'
<1> SUFFICES ASSUME owner'[ro] # None, ro \notin torn', Saving(ro)' = {}
             PROVE  Filled(ro, wish[ro], {})'
  BY DEF RestOK
<1>1. ro \notin fresh /\ owner[ro] # None BY DEF Drift
<1>2. Filled(ro, wish[ro], {}) BY <1>1 DEF RestOK
<1>3. PICK W \in SUBSET (Permissions \ fresh) : W = wish[ro] BY DEF WishOld
<1>4. Filled(ro, W, {}) BY <1>2, <1>3
<1>5. Filled(ro, W, {})' BY <1>1, <1>4, FilledStays
<1> QED BY <1>3, <1>5 DEF Filled

LEMMA WorkStays ==
  ASSUME CatalogInv, TableInv', Drift, moved \subseteq moved', NEW r \in Requests,
         WorkOK(r), req'[r] = req[r],
         req[r].pc \in WritePCs /\ req[r].alone =>
           \A ro \in Roles : ro = req[r].item => Saving(ro)' = Saving(ro) /\ GrantsKept(ro)
  PROVE  WorkOK(r)'
<1> SUFFICES ASSUME req[r].pc \in WritePCs, req[r].alone
             PROVE  /\ Saving(req[r].item)' = {r}
                    /\ owner'[req'[r].item] # None => Filled(req[r].item, req[r].wish, Pending(r))'
  BY DEF WorkOK
<1>1. req[r].item \in Roles \ fresh /\ req[r].wish \in SUBSET (Permissions \ fresh)
  BY DEF CatalogInv, HandlerOK, WritePCs, SavePCs
<1>2. PICK ro, W, T : /\ ro \in Roles \ fresh /\ W \in SUBSET (Permissions \ fresh)
                      /\ ro = req[r].item /\ W = req[r].wish /\ T = Pending(r)
  BY <1>1
<1>3. Saving(ro)' = {r} BY <1>2 DEF WorkOK
<1>4. Saving(req[r].item)' = {r} BY <1>2, <1>3 DEF Saving
<1>5. Pending(r)' = T BY <1>2 DEF Pending
<1>6. ASSUME owner'[ro] # None PROVE Filled(ro, W, T)'
  <2>1. owner[ro] # None BY <1>2, <1>6 DEF Drift
  <2>2. Filled(ro, W, T) BY <1>2, <2>1 DEF WorkOK
  <2> QED BY <1>2, <1>6, <2>2, FilledStays
<1> QED BY <1>2, <1>4, <1>5, <1>6 DEF Filled

\* Neither the cascades nor a step away from the roles touch the grants of a row that stays.
Cascade ==
  /\ grants' \subseteq grants
  /\ \A e \in grants : perm'[e[2]] # None /\ owner'[e[1]] # None => e \in grants'

LEMMA CascadeKeeps ==
  ASSUME Cascade, NEW ro \in Roles
  PROVE  GrantsKept(ro)
<1>1. \A p \in Permissions : <<ro, p>>[1] = ro /\ <<ro, p>>[2] = p OBVIOUS
<1> QED BY <1>1 DEF Cascade, GrantsKept, Granted

\* A step of no save that writes.
Quiet ==
  /\ TableInv' /\ Drift /\ moved \subseteq moved' /\ Cascade
  /\ wish' = wish /\ torn' = torn
  /\ \A ro \in Roles \cap fresh : owner'[ro] = None
  /\ \A q \in Requests : \/ req'[q] = req[q]
                         \/ req[q].pc \notin WritePCs /\ req'[q].pc \notin WritePCs

LEMMA OldStays ==
  ASSUME WishOld, fresh' \subseteq fresh, wish' = wish
  PROVE  WishOld'
  BY DEF WishOld

LEMMA QuietStep ==
  ASSUME CatalogInv, SaveInv, Quiet
  PROVE  SaveInv'
<1>1. \A ro : Saving(ro)' = Saving(ro) BY DEF Quiet, Saving, WritePCs
<1>2. WishOld' BY OldStays DEF Quiet, SaveInv, Drift
<1>3. ASSUME NEW ro \in Roles PROVE RestOK(ro)'
  <2>1. GrantsKept(ro) BY CascadeKeeps DEF Quiet
  <2>2. Saving(ro)' = {} => Saving(ro) = {} BY <1>1
  <2> QED BY <2>1, <2>2, RestStays DEF Quiet, SaveInv
<1>4. ASSUME NEW r \in Requests PROVE WorkOK(r)'
  <2>1. CASE req'[r] = req[r]
    <3>1. \A ro \in Roles : Saving(ro)' = Saving(ro) /\ GrantsKept(ro)
      BY <1>1, CascadeKeeps DEF Quiet
    <3> QED BY <2>1, <3>1, WorkStays DEF Quiet, SaveInv
  <2>2. CASE req'[r] # req[r] BY <2>2 DEF Quiet, WorkOK
  <2> QED BY <2>1, <2>2
<1> QED BY <1>2, <1>3, <1>4 DEF SaveInv

LEMMA CascadeOf ==
  ASSUME CatalogInv
  PROVE  /\ grants' = grants => Cascade
         /\ \A S \in SUBSET Features : DropFeatures(S) => Cascade
         /\ \A S \in SUBSET Permissions : DropPermissions(S) => Cascade
<1>1. grants' = grants => Cascade BY DEF Cascade
<1>2. ASSUME NEW S \in SUBSET Permissions, DropPermissions(S) PROVE Cascade
  <2>1. \A p \in Permissions : perm'[p] # None => p \notin S
    BY <1>2 DEF DropPermissions, KeepPermissions
  <2>2. grants' = {e \in grants : e[2] \in Permissions \ S}
    BY <1>2 DEF DropPermissions, GrantsWithin
  <2>3. \A e \in grants : e[2] \in Permissions BY DEF CatalogInv, TableInv, TableTypes
  <2> QED BY <2>1, <2>2, <2>3 DEF Cascade
<1>3. \A S \in SUBSET Features : DropFeatures(S) => Cascade BY <1>2 DEF DropFeatures
<1> QED BY <1>1, <1>2, <1>3

LEMMA TreeQuiet ==
  ASSUME CatalogInv, NEW r \in Requests,
         \/ InsertFeature(r) \/ WriteFeature(r) \/ RemoveFeature(r)
         \/ InsertPermission(r) \/ WritePermission(r) \/ RemovePermission(r)
  PROVE  Quiet
<1>1. /\ StepOf(r) /\ Finish(r) /\ req[r].pc \notin WritePCs
      /\ wish' = wish /\ torn' = torn
  BY TreeStatement DEF SavePCs, WritePCs
<1>2. /\ req'[r] = IdleRequest /\ \A q \in Requests \ {r} : req'[q] = req[q]
  BY <1>1, FinishOK
<1>3. req'[r].pc \notin WritePCs BY <1>2, IdleRow DEF WritePCs
<1>4. owner' = owner
  BY DEF InsertFeature, WriteFeature, RemoveFeature, InsertPermission, WritePermission,
         RemovePermission
<1>5. Cascade
  <2>1. CASE RemoveFeature(r)
    <3>1. {req[r].item} \in SUBSET Features
      BY <2>1 DEF RemoveFeature, At, CatalogInv, HandlerOK, FeatureSeen
    <3> QED BY <2>1, <3>1, CascadeOf DEF RemoveFeature
  <2>2. CASE RemovePermission(r)
    <3>1. {req[r].item} \in SUBSET Permissions
      BY <2>2 DEF RemovePermission, At, CatalogInv, HandlerOK, PermSeen
    <3> QED BY <2>2, <3>1, CascadeOf DEF RemovePermission
  <2>3. CASE \/ InsertFeature(r) \/ WriteFeature(r) \/ InsertPermission(r) \/ WritePermission(r)
    BY <2>3, CascadeOf DEF InsertFeature, WriteFeature, InsertPermission, WritePermission
  <2> QED BY <2>1, <2>2, <2>3
<1>6. \A ro \in Roles \cap fresh : owner'[ro] = None
  BY <1>4 DEF CatalogInv, TableInv, FreshUnused
<1> QED BY <1>1, <1>2, <1>3, <1>5, <1>6 DEF Quiet, StepOf

\* Handlers that begin, end without having written, or look for their row.
LEMMA LookQuiet ==
  ASSUME CatalogInv, NEW r \in Requests, StepOf(r), req[r].pc \notin WritePCs,
         req'[r].pc \notin WritePCs, \A q \in Requests \ {r} : req'[q] = req[q],
         owner' = owner, grants' = grants, wish' = wish, torn' = torn
  PROVE  Quiet
<1>1. Cascade BY CascadeOf
<1>2. \A ro \in Roles \cap fresh : owner'[ro] = None
  BY DEF CatalogInv, TableInv, FreshUnused
<1> QED BY <1>1, <1>2 DEF Quiet, StepOf

LEMMA BeginQuiet ==
  ASSUME CatalogInv, NEW r \in Requests,
         ArriveTree(r) \/ \E n \in Tenants, ro \in Roles, W \in SUBSET (Permissions \ fresh) :
                           UpdateRole(r, n, ro, W)
  PROVE  Quiet
<1>1. PICK pc, n, item, target, W :
        Begin(r, pc, n, item, target, W) /\ pc \in PCs \ (WritePCs \cup {"idle"})
  BY DEF ArriveTree, CreateFeature, UpdateFeature, DeleteFeature, CreatePermission,
         UpdatePermission, DeletePermission, UpdateRole, PCs, SavePCs, WritePCs
<1>2. /\ req[r].pc = "idle" /\ owner' = owner /\ grants' = grants /\ wish' = wish
      /\ torn' = torn /\ \A q \in Requests \ {r} : req'[q] = req[q]
  BY <1>1 DEF Begin, At, tables, history, CatalogInv
<1>3. req'[r] = [IdleRequest EXCEPT !.pc = pc, !.tenant = n, !.item = item, !.target = target,
                                    !.wish = W, !.todo = W]
  BY <1>1 DEF Begin, CatalogInv
<1>4. req'[r].pc = pc BY <1>3 DEF IdleRequest
<1>5. StepOf(r) BY RequestStep DEF ArriveSave
<1> QED BY <1>1, <1>2, <1>4, <1>5, LookQuiet DEF WritePCs

LEMMA AloneQuiet ==
  ASSUME CatalogInv, NEW n \in Tenants, Alone(n)
  PROVE  Quiet
<1>1. CatalogInv' /\ Drift /\ UNCHANGED <<wish, torn, moved>> /\ req' = req BY AloneStep
<1>2. \A ro \in Roles \cap fresh : owner[ro] = None
  BY DEF CatalogInv, TableInv, FreshUnused
<1>3. CASE \E a \in Apps : CreateApplication(n, a)
  <2>1. grants' = grants /\ owner' = owner BY <1>3 DEF CreateApplication
  <2>2. Cascade BY <2>1, CascadeOf
  <2> QED BY <1>1, <1>2, <2>1, <2>2 DEF Quiet, CatalogInv
<1>4. CASE \E a \in Apps : DeleteApplication(n, a)
  <2>1. PICK a \in Apps : DropFeatures({f \in Features : feature[f] = a}) /\ owner' = owner
    BY <1>4 DEF DeleteApplication
  <2>2. {f \in Features : feature[f] = a} \in SUBSET Features OBVIOUS
  <2>3. Cascade BY <2>1, <2>2, CascadeOf
  <2> QED BY <1>1, <1>2, <2>1, <2>3 DEF Quiet, CatalogInv
<1>5. CASE \E ro \in Roles : DeleteRole(n, ro)
  <2>1. PICK ro \in Roles : /\ owner' = [owner EXCEPT ![ro] = None]
                             /\ grants' = {e \in grants : e[1] # ro}
    BY <1>5 DEF DeleteRole, WithoutGrantsOf
  <2>2. \A x \in Roles : owner'[x] = IF x = ro THEN None ELSE owner[x]
    BY <2>1 DEF CatalogInv, TableInv, TableTypes
  <2>3. Cascade BY <2>1, <2>2 DEF Cascade
  <2>4. \A x \in Roles \cap fresh : owner'[x] = None BY <1>2, <2>2
  <2> QED BY <1>1, <2>3, <2>4 DEF Quiet, CatalogInv
<1> QED BY <1>3, <1>4, <1>5 DEF Alone

-----------------------------------------------------------------------------
(* The saves that write. *)

\* Roles that have not been made have no grants and no save.
LEMMA FreshRole ==
  ASSUME CatalogInv, NEW ro \in Roles \cap fresh
  PROVE  Granted(ro) = {} /\ Saving(ro) = {}
<1>1. owner[ro] = None BY DEF CatalogInv, TableInv, FreshUnused
<1>2. \A p \in Permissions : <<ro, p>>[1] = ro OBVIOUS
<1>3. Granted(ro) = {} BY <1>1, <1>2 DEF CatalogInv, TableInv, Keys, Exists, Granted
<1>4. \A q \in Requests : req[q].pc \in WritePCs => req[q].item # ro
  BY DEF CatalogInv, HandlerOK, SavePCs, WritePCs
<1> QED BY <1>3, <1>4 DEF Saving, WritePCs

\* A save has one role, and the other saves stay as they are.
LEMMA SavingRow ==
  ASSUME NEW r \in Requests, NEW ro, \A q \in Requests \ {r} : req'[q].pc = req[q].pc /\ req'[q].item = req[q].item
  PROVE  /\ \A q \in Requests \ {r} : q \in Saving(ro)' <=> q \in Saving(ro)
         /\ r \in Saving(ro)' <=> req'[r].pc \in WritePCs /\ req'[r].item = ro
         /\ r \in Saving(ro) <=> req[r].pc \in WritePCs /\ req[r].item = ro
         /\ Saving(ro) \subseteq Requests /\ Saving(ro)' \subseteq Requests
  BY DEF Saving, WritePCs

\* The part of the argument all writing saves share: roles and saves apart from the one role.
Elsewhere(r, x) ==
  /\ TableInv' /\ Drift /\ moved \subseteq moved'
  /\ \A ro \in Roles \ {x} : /\ GrantsKept(ro) /\ wish'[ro] = wish[ro]
                             /\ ro \in torn => ro \in torn'
                             /\ ro \notin fresh \/ owner'[ro] = None
                             /\ Saving(ro)' = Saving(ro)
  /\ \A q \in Requests \ {r} :
       req'[q] = req[q] \/ req'[q].pc \notin WritePCs \/ ~req'[q].alone
  /\ \A q \in Requests \ {r} :
       req'[q] = req[q] /\ req[q].pc \in WritePCs /\ req[q].alone => req[q].item # x

LEMMA ElsewhereStays ==
  ASSUME CatalogInv, SaveInv, NEW r \in Requests, NEW x \in Roles, Elsewhere(r, x)
  PROVE  /\ \A ro \in Roles \ {x} : RestOK(ro)'
         /\ \A q \in Requests \ {r} : WorkOK(q)'
<1>1. ASSUME NEW ro \in Roles \ {x} PROVE RestOK(ro)'
  BY RestStays DEF Elsewhere, SaveInv
<1>2. ASSUME NEW q \in Requests \ {r} PROVE WorkOK(q)'
  <2>1. CASE req'[q].pc \notin WritePCs \/ ~req'[q].alone BY <2>1 DEF WorkOK
  <2>2. CASE req'[q] = req[q] /\ req[q].pc \in WritePCs /\ req[q].alone
    <3>1. req[q].item # x BY <2>2 DEF Elsewhere
    <3>2. \A ro \in Roles : ro = req[q].item => Saving(ro)' = Saving(ro) /\ GrantsKept(ro)
      BY <3>1 DEF Elsewhere
    <3> QED BY <2>2, <3>2, WorkStays DEF Elsewhere, SaveInv
  <2> QED BY <2>1, <2>2 DEF Elsewhere
<1> QED BY <1>1, <1>2

\* Another save of the role that writes is not alone.
LEMMA NotAlone ==
  ASSUME SaveInv, NEW r \in Requests, req[r].pc \in WritePCs, NEW q \in Requests \ {r},
         req[q].pc \in WritePCs, req[q].alone
  PROVE  req[q].item # req[r].item
<1>1. Saving(req[q].item) = {q} BY DEF SaveInv, WorkOK
<1>2. r \in Saving(req[r].item) BY DEF Saving, WritePCs
<1> QED BY <1>1, <1>2

LEMMA CreateRoleSave ==
  ASSUME CatalogInv, SaveInv, NEW r \in Requests, NEW n \in Tenants, NEW ro \in Roles,
         NEW W \in SUBSET (Permissions \ fresh), CreateRole(r, n, ro, W)
  PROVE  SaveInv'
<1>1. /\ StepOf(r) /\ req'[r].pc = "roleNext" /\ req'[r].item = ro /\ req'[r].wish = W
      /\ req'[r].todo = W
  BY CreateRoleStep
<1>2. /\ req[r].pc = "idle" /\ ro \in fresh /\ owner' = [owner EXCEPT ![ro] = n]
      /\ grants' = grants /\ wish' = wish /\ torn' = torn /\ perm' = perm
      /\ \A q \in Requests \ {r} : req'[q] = req[q]
  BY DEF CreateRole, At, history, CatalogInv
<1>3. Granted(ro) = {} /\ Saving(ro) = {} BY <1>2, FreshRole
<1>4. \A x \in Roles : GrantsKept(x) BY <1>2, CascadeOf, CascadeKeeps
<1>5. \A x : Saving(x) \subseteq Requests BY DEF Saving
<1>6. r \in Saving(ro)' BY <1>1 DEF Saving
<1>7. \A x \in Roles \ {ro} : Saving(x)' = Saving(x) BY <1>1, <1>2 DEF Saving
<1>8. \A x \in Roles \ {ro} : x \notin fresh \/ owner'[x] = None
  BY <1>2 DEF CatalogInv, TableInv, TableTypes, FreshUnused
<1>9. \A q \in Requests \ {r} : req[q].pc \in WritePCs => req[q].item # ro
  BY <1>3 DEF Saving, WritePCs
<1>10. Elsewhere(r, ro)
  BY <1>1, <1>2, <1>4, <1>7, <1>8, <1>9 DEF Elsewhere, StepOf
<1>11. RestOK(ro)' BY <1>6 DEF RestOK
<1>12. WorkOK(r)'
  <2>1. Saving(ro)' = {r} BY <1>1, <1>2, <1>3 DEF Saving
  <2>2. Granted(ro)' = {} BY <1>2, <1>3 DEF Granted
  <2>3. Filled(ro, W, W)' BY <2>2 DEF Filled
  <2> QED BY <1>1, <2>1, <2>3 DEF WorkOK, Pending, Filled, Granted, Saving
<1>13. WishOld' BY <1>1, <1>2, OldStays DEF SaveInv, StepOf, Drift
<1> QED BY <1>10, <1>11, <1>12, <1>13, ElsewhereStays DEF SaveInv

LEMMA ClearRoleSave ==
  ASSUME CatalogInv, SaveInv, NEW r \in Requests, ClearRole(r)
  PROVE  SaveInv'
<1>1. PICK ro, W : ro = req[r].item /\ W = req[r].wish OBVIOUS
<1>2. /\ StepOf(r) /\ req[r].pc = "roleDelete" /\ req'[r].pc = "roleNext"
      /\ req'[r].item = ro /\ req'[r].wish = W /\ req'[r].todo = W
      /\ req'[r].alone <=> Saving(ro) = {}
      /\ \A q \in Requests \ {r} :
           IF q \in Saving(ro) THEN ~req'[q].alone ELSE req'[q] = req[q]
  BY <1>1, ClearRoleStep
<1>3. ro \in Roles \ fresh BY <1>1, <1>2 DEF CatalogInv, HandlerOK, RoleSeen
<1>4. /\ grants' = {e \in grants : e[1] # ro} /\ owner' = owner /\ perm' = perm
      /\ wish' = wish /\ torn' = torn
  BY <1>1 DEF ClearRole, WithoutGrantsOf, history
<1>5. \A q \in Requests \ {r} : req'[q].pc = req[q].pc /\ req'[q].item = req[q].item
  BY <1>2 DEF StepOf, SameBut
<1>6. \A x \in Roles \ {ro} : Saving(x)' = Saving(x)
  BY <1>1, <1>2, <1>5 DEF Saving
<1>7. \A x, p : <<x, p>>[1] = x OBVIOUS
<1>8. \A x \in Roles \ {ro} : GrantsKept(x) BY <1>4, <1>7 DEF GrantsKept, Granted
<1>9. Granted(ro)' = {} BY <1>4, <1>7 DEF Granted
<1>10. \A x \in Roles : x \notin fresh \/ owner'[x] = None
  BY <1>4 DEF CatalogInv, TableInv, FreshUnused
<1>11. \A q \in Requests \ {r} :
         req'[q] = req[q] /\ req[q].pc \in WritePCs /\ req[q].alone => req[q].item # ro
  BY <1>2 DEF Saving, WritePCs
<1>12. Elsewhere(r, ro)
  BY <1>2, <1>4, <1>6, <1>8, <1>10, <1>11 DEF Elsewhere, StepOf
<1>13. RestOK(ro)'
  <2>1. r \in Saving(ro)' BY <1>2 DEF Saving
  <2> QED BY <2>1 DEF RestOK
<1>14. WorkOK(r)'
  <2> SUFFICES ASSUME Saving(ro) = {} PROVE WorkOK(r)' BY <1>2 DEF WorkOK
  <2>1. Saving(ro)' = {r} BY <1>2, <1>5 DEF Saving
  <2>2. Filled(ro, W, W)' BY <1>9 DEF Filled
  <2> QED BY <1>2, <2>1, <2>2 DEF WorkOK, Pending, Filled, Granted, Saving
<1>15. WishOld' BY <1>2, <1>4, OldStays DEF SaveInv, StepOf, Drift
<1> QED BY <1>3, <1>12, <1>13, <1>14, <1>15, ElsewhereStays DEF SaveInv

LEMMA OfItem ==
  ASSUME CatalogInv, NEW r \in Requests, req[r].pc \in WritePCs
  PROVE  /\ req[r].item \in Roles \ fresh /\ req[r].tenant \in Tenants
         /\ owner[req[r].item] \in {req[r].tenant, None}
         /\ req[r].wish \in SUBSET (Permissions \ fresh) /\ req[r].todo \subseteq req[r].wish
         /\ req[r].pc = "roleInsert" => req[r].current \in req[r].wish
  BY DEF CatalogInv, HandlerOK, RoleSeen, SavePCs, WritePCs

LEMMA NextPermissionSave ==
  ASSUME CatalogInv, SaveInv, NEW r \in Requests, NextPermission(r)
  PROVE  SaveInv'
<1>1. PICK ro, W, T, n :
        ro = req[r].item /\ W = req[r].wish /\ T = req[r].todo /\ n = req[r].tenant
  OBVIOUS
<1>2. /\ StepOf(r) /\ req[r].pc = "roleNext"
      /\ UNCHANGED <<app, feature, perm, owner, grants>> /\ UNCHANGED <<wish, torn, moved>>
      /\ \A q \in Requests \ {r} : req'[q] = req[q]
      /\ req'[r].item = ro /\ req'[r].wish = W /\ req'[r].alone = req[r].alone
  BY <1>1, NextPermissionStep
<1>3. PICK p \in T :
        /\ req'[r].todo = T \ {p}
        /\ \/ req'[r].pc = "roleInsert" /\ req'[r].current = p
           \/ req'[r].pc = "roleNext" /\ ~PermissionOf(p, n)
  BY <1>1, NextPermissionStep
<1>4. /\ ro \in Roles \ fresh /\ n \in Tenants /\ owner[ro] \in {n, None}
      /\ W \in SUBSET (Permissions \ fresh) /\ T \subseteq W
  BY <1>1, <1>2, OfItem DEF WritePCs
<1>5. \A x : Saving(x)' = Saving(x) BY <1>1, <1>2, <1>3 DEF Saving
<1>6. \A x \in Roles : GrantsKept(x) BY <1>2, CascadeOf, CascadeKeeps
<1>7. \A x \in Roles : x \notin fresh \/ owner'[x] = None
  BY <1>2 DEF CatalogInv, TableInv, FreshUnused
<1>8. Elsewhere(r, ro)
  <2>1. req[r].pc \in WritePCs BY <1>2 DEF WritePCs
  <2>2. \A q \in Requests \ {r} : req[q].pc \in WritePCs /\ req[q].alone => req[q].item # ro
    BY <1>1, <2>1, NotAlone
  <2> QED BY <1>2, <1>5, <1>6, <1>7, <2>2 DEF Elsewhere, StepOf
<1>9. RestOK(ro)'
  <2>1. r \in Saving(ro)' BY <1>2, <1>3 DEF Saving
  <2> QED BY <2>1 DEF RestOK
<1>10. WorkOK(r)'
  <2> SUFFICES ASSUME req[r].alone PROVE WorkOK(r)' BY <1>2 DEF WorkOK
  <2>1. Saving(ro) = {r} /\ (owner[ro] # None => Filled(ro, W, T))
    BY <1>1, <1>2 DEF SaveInv, WorkOK, Pending, WritePCs
  <2>2. Saving(ro)' = {r} BY <1>5, <2>1
  <2>3. Granted(ro)' = Granted(ro) /\ \A q \in Permissions : PermTenant(q)' = PermTenant(q)
    BY <1>2, TreeRests DEF Granted
  <2>4. CASE req'[r].pc = "roleInsert" /\ req'[r].current = p
    <3>1. Pending(r)' = T BY <1>3, <2>4 DEF Pending
    <3>2. owner'[ro] # None => Filled(ro, W, T)' BY <1>2, <1>4, <2>1, <2>3 DEF Filled
    <3> QED BY <1>2, <2>2, <3>1, <3>2 DEF WorkOK, Filled, Granted, Saving
  <2>5. CASE req'[r].pc = "roleNext" /\ ~PermissionOf(p, n)
    <3>1. Pending(r)' = T \ {p} BY <1>3, <2>5 DEF Pending
    <3>2. owner[ro] # None => PermTenant(p) # owner[ro]
      BY <1>4, <2>5, Foreign DEF PermissionOf, PermTenant
    <3>3. owner'[ro] # None => Filled(ro, W, T \ {p})'
      <4> SUFFICES ASSUME owner[ro] # None PROVE Filled(ro, W, T \ {p})' BY <1>2
      <4>1. Granted(ro)' \subseteq W BY <2>1, <2>3 DEF Filled
      <4>2. ASSUME NEW q \in (W \ (T \ {p})) \ moved', PermTenant(q)' = owner'[ro]
            PROVE  q \in Granted(ro)'
        <5>1. q \in Permissions /\ q \notin moved /\ PermTenant(q) = owner[ro]
          BY <1>2, <1>4, <2>3, <4>2
        <5>2. q # p BY <3>2, <5>1
        <5> QED BY <2>1, <2>3, <5>1, <5>2 DEF Filled
      <4> QED BY <4>1, <4>2 DEF Filled
    <3> QED BY <1>2, <2>2, <3>1, <3>3 DEF WorkOK, Filled, Granted, Saving
  <2> QED BY <1>3, <2>4, <2>5
<1>11. WishOld' BY <1>2, OldStays DEF SaveInv, StepOf, Drift
<1> QED BY <1>4, <1>8, <1>9, <1>10, <1>11, ElsewhereStays DEF SaveInv

LEMMA FailedSave ==
  ASSUME CatalogInv, SaveInv, NEW r \in Requests, Failed(r), StepOf(r),
         UNCHANGED <<app, feature, perm, owner, grants>>
  PROVE  SaveInv'
<1>1. PICK ro : ro = req[r].item OBVIOUS
<1>2. /\ req[r].pc \in WritePCs /\ torn' = torn \cup {ro} /\ wish' = wish
      /\ req'[r].pc = "idle" /\ \A q \in Requests \ {r} : req'[q] = req[q]
  BY <1>1, FinishOK, IdleRow DEF Failed
<1>3. ro \in Roles \ fresh BY <1>1, <1>2, OfItem
<1>4. \A x \in Roles \ {ro} : Saving(x)' = Saving(x) BY <1>1, <1>2 DEF Saving
<1>5. \A x \in Roles : GrantsKept(x) BY CascadeOf, CascadeKeeps
<1>6. \A x \in Roles : x \notin fresh \/ owner'[x] = None
  BY DEF CatalogInv, TableInv, FreshUnused
<1>7. \A q \in Requests \ {r} : req[q].pc \in WritePCs /\ req[q].alone => req[q].item # ro
  BY <1>1, <1>2, NotAlone
<1>8. Elsewhere(r, ro) BY <1>2, <1>4, <1>5, <1>6, <1>7 DEF Elsewhere, StepOf
<1>9. RestOK(ro)' BY <1>2 DEF RestOK
<1>10. WorkOK(r)' BY <1>2 DEF WorkOK, WritePCs
<1>11. WishOld' BY <1>2, OldStays DEF SaveInv, StepOf, Drift
<1> QED BY <1>3, <1>8, <1>9, <1>10, <1>11, ElsewhereStays DEF SaveInv

LEMMA InsertGrantSave ==
  ASSUME CatalogInv, SaveInv, NEW r \in Requests, InsertGrant(r)
  PROVE  SaveInv'
<1>1. PICK ro, W, T, c :
        ro = req[r].item /\ W = req[r].wish /\ T = req[r].todo /\ c = req[r].current
  OBVIOUS
<1>2. StepOf(r) /\ req[r].pc = "roleInsert" /\ UNCHANGED <<app, feature, perm, owner>>
  BY InsertGrantStep
<1>3. CASE Failed(r) /\ grants' = grants BY <1>2, <1>3, FailedSave
<1>4. CASE ~(Failed(r) /\ grants' = grants)
  <2>1. /\ grants' = grants \cup {<<ro, c>>} /\ UNCHANGED <<wish, torn, moved>>
        /\ req'[r].pc = "roleNext" /\ req'[r].item = ro /\ req'[r].wish = W
        /\ req'[r].todo = T /\ req'[r].alone = req[r].alone
        /\ \A q \in Requests \ {r} : req'[q] = req[q]
    BY <1>1, <1>4, InsertGrantStep
  <2>2. /\ ro \in Roles \ fresh /\ c \in W /\ W \in SUBSET (Permissions \ fresh)
    BY <1>1, <1>2, OfItem DEF WritePCs
  <2>3. \A x : Saving(x)' = Saving(x) BY <1>1, <1>2, <2>1 DEF Saving
  <2>4. \A x \in Roles : Granted(x)' = IF x = ro THEN Granted(x) \cup {c} ELSE Granted(x)
    BY <2>1, <2>2 DEF Granted
  <2>5. \A x \in Roles \ {ro} : GrantsKept(x) BY <2>4 DEF GrantsKept
  <2>6. \A x \in Roles : x \notin fresh \/ owner'[x] = None
    BY <1>2 DEF CatalogInv, TableInv, FreshUnused
  <2>7. Elsewhere(r, ro)
    <3>1. req[r].pc \in WritePCs BY <1>2 DEF WritePCs
    <3>2. \A q \in Requests \ {r} : req[q].pc \in WritePCs /\ req[q].alone => req[q].item # ro
      BY <1>1, <3>1, NotAlone
    <3> QED BY <1>2, <2>1, <2>3, <2>5, <2>6, <3>2 DEF Elsewhere, StepOf
  <2>8. RestOK(ro)'
    <3>1. r \in Saving(ro)' BY <2>1 DEF Saving
    <3> QED BY <3>1 DEF RestOK
  <2>9. WorkOK(r)'
    <3> SUFFICES ASSUME req[r].alone PROVE WorkOK(r)' BY <2>1 DEF WorkOK
    <3>1. Saving(ro) = {r} /\ (owner[ro] # None => Filled(ro, W, T \cup {c}))
      BY <1>1, <1>2 DEF SaveInv, WorkOK, Pending, WritePCs
    <3>2. Saving(ro)' = {r} BY <2>3, <3>1
    <3>3. Pending(r)' = T BY <2>1 DEF Pending
    <3>4. \A q \in Permissions : PermTenant(q)' = PermTenant(q) BY <1>2, TreeRests
    <3>5. owner'[ro] # None => Filled(ro, W, T)'
      <4> SUFFICES ASSUME owner[ro] # None PROVE Filled(ro, W, T)' BY <1>2
      <4>1. Granted(ro)' \subseteq W BY <2>2, <2>4, <3>1 DEF Filled
      <4>2. ASSUME NEW q \in (W \ T) \ moved', PermTenant(q)' = owner'[ro]
            PROVE  q \in Granted(ro)'
        <5>1. q \in Permissions /\ q \notin moved /\ PermTenant(q) = owner[ro]
          BY <1>2, <2>1, <2>2, <3>4, <4>2
        <5>2. q = c \/ q \in Granted(ro) BY <3>1, <5>1 DEF Filled
        <5> QED BY <2>2, <2>4, <5>2
      <4> QED BY <4>1, <4>2 DEF Filled
    <3> QED BY <2>1, <3>2, <3>3, <3>5 DEF WorkOK, Filled, Granted, Saving
  <2>10. WishOld' BY <1>2, <2>1, OldStays DEF SaveInv, StepOf, Drift
  <2> QED BY <2>2, <2>7, <2>8, <2>9, <2>10, ElsewhereStays DEF SaveInv
<1> QED BY <1>3, <1>4

LEMMA RoleSavedSave ==
  ASSUME CatalogInv, SaveInv, NEW r \in Requests, RoleSaved(r)
  PROVE  SaveInv'
<1>1. PICK ro, W : ro = req[r].item /\ W = req[r].wish OBVIOUS
<1>2. /\ StepOf(r) /\ Finish(r) /\ req[r].pc = "roleNext" /\ req[r].todo = {}
      /\ UNCHANGED <<app, feature, perm, owner, grants>> /\ moved' = moved
      /\ wish' = [wish EXCEPT ![ro] = W]
      /\ torn' = IF req[r].alone THEN torn \ {ro} ELSE torn \cup {ro}
  BY <1>1, RoleSavedStep
<1>3. req'[r].pc = "idle" /\ \A q \in Requests \ {r} : req'[q] = req[q]
  BY <1>2, FinishOK, IdleRow
<1>4. ro \in Roles \ fresh /\ W \in SUBSET (Permissions \ fresh)
  BY <1>1, <1>2, OfItem DEF WritePCs
<1>5. \A x \in Roles : wish'[x] = IF x = ro THEN W ELSE wish[x]
  BY <1>2 DEF CatalogInv, HistoryTypes
<1>6. \A x \in Roles \ {ro} : Saving(x)' = Saving(x) BY <1>1, <1>3 DEF Saving
<1>7. \A x \in Roles : GrantsKept(x) BY <1>2, CascadeOf, CascadeKeeps
<1>8. \A x \in Roles : x \notin fresh \/ owner'[x] = None
  BY <1>2 DEF CatalogInv, TableInv, FreshUnused
<1>9. Elsewhere(r, ro)
  <2>1. req[r].pc \in WritePCs BY <1>2 DEF WritePCs
  <2>2. \A q \in Requests \ {r} : req[q].pc \in WritePCs /\ req[q].alone => req[q].item # ro
    BY <1>1, <2>1, NotAlone
  <2> QED BY <1>2, <1>3, <1>5, <1>6, <1>7, <1>8, <2>2 DEF Elsewhere, StepOf
<1>10. RestOK(ro)'
  <2> SUFFICES ASSUME owner[ro] # None, ro \notin torn' PROVE Filled(ro, wish[ro], {})'
    BY <1>2 DEF RestOK
  <2>1. req[r].alone BY <1>2
  <2>2. Filled(ro, W, {}) BY <1>1, <1>2, <2>1 DEF SaveInv, WorkOK, Pending, WritePCs
  <2>3. Granted(ro)' = Granted(ro) /\ \A q \in Permissions : PermTenant(q)' = PermTenant(q)
    BY <1>2, TreeRests DEF Granted
  <2>4. Filled(ro, W, {})' BY <1>2, <1>4, <2>2, <2>3 DEF Filled
  <2> QED BY <1>4, <1>5, <2>4 DEF Filled
<1>11. WorkOK(r)' BY <1>3 DEF WorkOK, WritePCs
<1>12. WishOld'
  <2>1. fresh' \subseteq fresh BY <1>2 DEF StepOf, Drift
  <2> QED BY <1>4, <1>5, <2>1 DEF SaveInv, WishOld
<1> QED BY <1>4, <1>9, <1>10, <1>11, <1>12, ElsewhereStays DEF SaveInv

LEMMA SaveStep == CatalogInv /\ SaveInv /\ [Next]_vars => SaveInv'
<1> SUFFICES ASSUME CatalogInv, SaveInv, [Next]_vars PROVE SaveInv' OBVIOUS
<1>1. CASE UNCHANGED vars
  <2>1. /\ UNCHANGED <<app, feature, perm, owner, grants>> /\ UNCHANGED <<wish, torn, moved>>
        /\ req' = req
    BY <1>1 DEF vars, tables, history
  <2>2. TableInv' /\ Drift /\ moved \subseteq moved' BY StepDrifts
  <2>3. Cascade BY <2>1, CascadeOf
  <2>4. \A ro \in Roles \cap fresh : owner'[ro] = None
    BY <2>1 DEF CatalogInv, TableInv, FreshUnused
  <2>5. Quiet BY <2>1, <2>2, <2>3, <2>4 DEF Quiet
  <2> QED BY <2>5, QuietStep
<1>2. ASSUME NEW r \in Requests, ArriveTree(r) PROVE SaveInv'
  BY <1>2, BeginQuiet, QuietStep
<1>3. ASSUME NEW r \in Requests, ArriveSave(r) PROVE SaveInv'
  BY <1>3, BeginQuiet, QuietStep, CreateRoleSave DEF ArriveSave
<1>4. ASSUME NEW r \in Requests, Resume(r) PROVE SaveInv'
  <2>1. CASE \/ InsertFeature(r) \/ WriteFeature(r) \/ RemoveFeature(r)
             \/ InsertPermission(r) \/ WritePermission(r) \/ RemovePermission(r)
    BY <2>1, TreeQuiet, QuietStep
  <2>2. CASE SelectRole(r)
    <3>1. /\ StepOf(r) /\ req[r].pc = "roleSelect" /\ req'[r].pc \in {"roleDelete", "idle"}
          /\ \A q \in Requests \ {r} : req'[q] = req[q]
      BY <2>2, SelectRoleStep
    <3>2. owner' = owner /\ grants' = grants /\ wish' = wish /\ torn' = torn
      BY <2>2 DEF SelectRole, tables, history
    <3>3. Quiet BY <3>1, <3>2, LookQuiet DEF WritePCs
    <3> QED BY <3>3, QuietStep
  <2> QED BY <1>4, <2>1, <2>2, ClearRoleSave, NextPermissionSave, InsertGrantSave, RoleSavedSave
      DEF Resume
<1>5. ASSUME NEW r \in Requests, Abort(r) PROVE SaveInv'
  <2>1. StepOf(r) /\ UNCHANGED <<app, feature, perm, owner, grants>> BY <1>5, AbortStep
  <2>2. CASE Failed(r) BY <2>1, <2>2, FailedSave
  <2>3. CASE Finish(r) /\ req[r].pc \notin WritePCs /\ UNCHANGED <<wish, torn, moved>>
    <3>1. req'[r].pc = "idle" /\ \A q \in Requests \ {r} : req'[q] = req[q]
      BY <2>3, FinishOK, IdleRow
    <3>2. Quiet BY <2>1, <2>3, <3>1, LookQuiet DEF WritePCs
    <3> QED BY <3>2, QuietStep
  <2> QED BY <1>5, <2>2, <2>3, AbortStep
<1>6. ASSUME NEW n \in Tenants, Alone(n) PROVE SaveInv' BY <1>6, AloneQuiet, QuietStep
<1> QED BY <1>1, <1>2, <1>3, <1>4, <1>5, <1>6 DEF Next, Alone

LEMMA SaveStart == Init => SaveInv
<1> SUFFICES ASSUME Init PROVE SaveInv OBVIOUS
<1>1. CatalogInv BY CatalogStart
<1>2. WishOld
  <2>1. ASSUME NEW ro \in Roles, NEW p \in wish[ro] PROVE p \in Permissions \ fresh
    <3>1. owner[ro] # None /\ PermTenant(p) = owner[ro] /\ p \in Permissions
      BY DEF Init, Exists
    <3>2. perm[p] # None BY <3>1 DEF PermTenant, Exists
    <3> QED BY <1>1, <3>1, <3>2 DEF CatalogInv, TableInv, FreshUnused
  <2> QED BY <2>1 DEF WishOld
<1>3. ASSUME NEW ro \in Roles PROVE Granted(ro) = wish[ro]
  BY DEF Init, Granted
<1>4. \A ro \in Roles : RestOK(ro) BY <1>3 DEF RestOK, Filled
<1>5. \A r \in Requests : req[r].pc = "idle" BY IdleRow DEF Init
<1>6. \A r \in Requests : WorkOK(r) BY <1>5 DEF WorkOK, WritePCs
<1> QED BY <1>2, <1>4, <1>6 DEF SaveInv

\* A role at rest grants what its last save asked for, of the permissions that still exist in
\* its tenant, and nothing else, for any number of saves under way; unless that save failed
\* half-way or overlapped another one, and the next save alone repairs it
\* (data-access.ts:712-767).
THEOREM SavedRolesAreRight == Spec => []RolesAsSaved
<1>1. SaveInv => RolesAsSaved
  BY DEF SaveInv, RestOK, Filled, RolesAsSaved, Exists
<1> QED BY <1>1, SaveStart, SaveStep, CatalogInvariance, PTL DEF Spec

-----------------------------------------------------------------------------
(* Who takes a permission away from its tenant. *)

\* What OnlyMovesCrossTenants says of one permission.
Crossing(p) == perm[p] # None /\ PermTenant(p)' # PermTenant(p)
Answered(p) ==
  \/ PermTenant(p) \in Acting
  \/ p \in moved' /\ PermTenant(p)' \in Acting
  \/ {p, perm[p], perm'[p]} \cap moved # {}

LEMMA PrimedTenant ==
  ASSUME TableInv', NEW p \in Permissions, perm'[p] # None
  PROVE  PermTenant(p)' # None
<1>1. /\ perm'[p] \in Features /\ feature'[perm'[p]] \in Apps
      /\ feature'[perm'[p]] # None /\ app'[feature'[perm'[p]]] # None
  BY DEF TableInv, TableTypes, Keys, Exists
<1> QED BY <1>1 DEF PermTenant, FeatureTenant, Exists

\* Where neither the row nor the record of moves changes, nothing crosses.
LEMMA RowRests ==
  ASSUME CatalogInv, TableInv', Drift, moved' = moved, NEW p \in Permissions, Crossing(p),
         perm'[p] = perm[p]
  PROVE  Answered(p)
<1>1. p \notin fresh BY DEF Crossing, CatalogInv, TableInv, FreshUnused
<1>2. PermTenant(p)' # None BY PrimedTenant DEF Crossing
<1>3. p \in moved BY <1>1, <1>2 DEF Crossing, Drift
<1> QED BY <1>3 DEF Answered

LEMMA EndsActing ==
  ASSUME CatalogInv, NEW r \in Requests, Finish(r), req[r].pc # "idle"
  PROVE  req[r].tenant \in Acting
<1>1. req'[r].pc = "idle" BY FinishOK, IdleRow
<1>2. req'[r] # req[r] BY <1>1
<1> QED BY <1>2 DEF Acting

LEMMA WriteFeatureAnswered ==
  ASSUME CatalogInv, TableInv', Drift, NEW r \in Requests, WriteFeature(r), NEW p \in Permissions,
         Crossing(p)
  PROVE  Answered(p)
<1>1. PICK f, a, n : f = req[r].item /\ a = req[r].target /\ n = req[r].tenant OBVIOUS
<1>2. /\ req[r].pc = "featureUpdate" /\ Finish(r)
      /\ UNCHANGED <<fresh, app, perm, owner, grants>>
  BY DEF WriteFeature, At
<1>3. n \in Acting BY <1>1, <1>2, EndsActing
<1>4. f \in Features /\ a \in Apps /\ app[a] \in {n, None} /\ n \in Tenants
  BY <1>1, <1>2 DEF CatalogInv, HandlerOK, AppSeen
<1>5. CASE UNCHANGED <<feature, moved>> BY <1>2, <1>5, RowRests
<1>6. CASE ~UNCHANGED <<feature, moved>>
  <2>1. /\ feature' = [feature EXCEPT ![f] = a] /\ moved' = moved \cup MovedWith(f, a)
        /\ feature[f] # None /\ app[a] = n
    BY <1>1, <1>4, <1>6 DEF WriteFeature, Exists
  <2>2. \A g \in Features : feature'[g] = IF g = f THEN a ELSE feature[g]
    BY <2>1 DEF CatalogInv, TableInv, TableTypes
  <2>3. perm[p] \in Features BY DEF Crossing, CatalogInv, TableInv, TableTypes
  <2>4. perm[p] = f
    <3> SUFFICES ASSUME perm[p] # f PROVE FALSE OBVIOUS
    <3>1. feature'[perm[p]] = feature[perm[p]] BY <2>2, <2>3
    <3>2. PermTenant(p)' = PermTenant(p)
      BY <1>2, <3>1 DEF PermTenant, FeatureTenant, Exists
    <3> QED BY <3>2 DEF Crossing
  <2>5. PermTenant(p) = FeatureTenant(f) BY <2>4 DEF PermTenant, Crossing, Exists
  <2>6. PermTenant(p)' = n
    <3>1. perm'[p] = f /\ feature'[f] = a /\ app'[a] = n /\ f # None /\ a # None
      BY <1>2, <1>4, <2>1, <2>2, <2>4, Foreign
    <3> QED BY <3>1 DEF PermTenant, FeatureTenant, Exists
  <2>7. app[a] # FeatureTenant(f) BY <2>1, <2>5, <2>6 DEF Crossing
  <2>8. p \in moved' BY <2>1, <2>4, <2>7 DEF MovedWith
  <2> QED BY <1>3, <2>6, <2>8 DEF Answered
<1> QED BY <1>5, <1>6

LEMMA WritePermissionAnswered ==
  ASSUME CatalogInv, TableInv', Drift, NEW r \in Requests, WritePermission(r),
         NEW p \in Permissions, Crossing(p)
  PROVE  Answered(p)
<1>1. PICK q, f, n : q = req[r].item /\ f = req[r].target /\ n = req[r].tenant OBVIOUS
<1>2. /\ req[r].pc = "permUpdate" /\ Finish(r)
      /\ UNCHANGED <<fresh, app, feature, owner, grants>>
  BY DEF WritePermission, At
<1>3. n \in Acting BY <1>1, <1>2, EndsActing
<1>4. q \in Permissions /\ n \in Tenants /\ FeatureSeen(f, n)
  BY <1>1, <1>2 DEF CatalogInv, HandlerOK
<1>5. CASE UNCHANGED <<perm, moved>> BY <1>2, <1>5, RowRests
<1>6. CASE ~UNCHANGED <<perm, moved>>
  <2>1. /\ perm' = [perm EXCEPT ![q] = f] /\ feature[f] # None
        /\ moved' = IF FeatureTenant(f) = PermTenant(q) THEN moved ELSE moved \cup {q}
    BY <1>1, <1>6 DEF WritePermission, Exists
  <2>2. \A x \in Permissions : perm'[x] = IF x = q THEN f ELSE perm[x]
    BY <2>1 DEF CatalogInv, TableInv, TableTypes
  <2>3. \A x : FeatureTenant(x)' = FeatureTenant(x) BY <1>2 DEF FeatureTenant, Exists
  <2>4. p = q
    <3> SUFFICES ASSUME p # q PROVE FALSE OBVIOUS
    <3>1. perm'[p] = perm[p] BY <2>2
    <3>2. PermTenant(p)' = PermTenant(p)
      BY <1>2, <3>1 DEF PermTenant, FeatureTenant, Exists
    <3> QED BY <3>2 DEF Crossing
  <2>5. f \in Features BY <1>4 DEF FeatureSeen
  <2>6. perm'[p] = f /\ f # None BY <2>2, <2>4, <2>5, Foreign
  <2>7. PermTenant(p)' = FeatureTenant(f)
    BY <1>2, <2>6 DEF PermTenant, FeatureTenant, Exists
  <2>8. p \in moved' BY <2>1, <2>4, <2>7 DEF Crossing
  <2>9. FeatureTenant(f) # None BY <2>1, <2>5, TenantOfRow DEF CatalogInv
  <2>10. CASE f \in moved BY <2>6, <2>10 DEF Answered
  <2>11. CASE f \notin moved
    <3>1. FeatureTenant(f) = n BY <1>4, <2>9, <2>11 DEF FeatureSeen
    <3> QED BY <1>3, <2>7, <2>8, <3>1 DEF Answered
  <2> QED BY <2>10, <2>11
<1> QED BY <1>5, <1>6

LEMMA RemoveAnswered ==
  ASSUME CatalogInv, TableInv', Drift, NEW r \in Requests, RemoveFeature(r) \/ RemovePermission(r),
         NEW p \in Permissions, Crossing(p)
  PROVE  Answered(p)
<1>1. PICK x, n : x = req[r].item /\ n = req[r].tenant OBVIOUS
<1>2. /\ req[r].pc \in {"featureDelete", "permDelete"} /\ Finish(r) /\ moved' = moved
  BY DEF RemoveFeature, RemovePermission, At, history
<1>3. n \in Acting BY <1>1, <1>2, EndsActing
<1>4. PermTenant(p) # None BY TenantOfRow DEF Crossing, CatalogInv
<1>5. CASE RemoveFeature(r)
  <2>1. perm' = [y \in Permissions |->
                   IF y \in Permissions \ {z \in Permissions : perm[z] \in {x}} THEN perm[y] ELSE None]
    BY <1>1, <1>5 DEF RemoveFeature, DropFeatures, DropPermissions, KeepPermissions
  <2>2. CASE perm[p] # x
    <3>1. perm'[p] = perm[p] BY <2>1, <2>2
    <3> QED BY <1>2, <3>1, RowRests
  <2>3. CASE perm[p] = x
    <3>1. FeatureSeen(x, n) BY <1>1, <1>5 DEF RemoveFeature, At, CatalogInv, HandlerOK
    <3>2. PermTenant(p) = FeatureTenant(x) BY <2>3 DEF PermTenant, Crossing, Exists
    <3> QED BY <1>3, <1>4, <2>3, <3>1, <3>2 DEF FeatureSeen, Answered
  <2> QED BY <2>2, <2>3
<1>6. CASE RemovePermission(r)
  <2>1. perm' = [y \in Permissions |-> IF y \in Permissions \ {x} THEN perm[y] ELSE None]
    BY <1>1, <1>6 DEF RemovePermission, DropPermissions, KeepPermissions
  <2>2. CASE p # x
    <3>1. perm'[p] = perm[p] BY <2>1, <2>2
    <3> QED BY <1>2, <3>1, RowRests
  <2>3. CASE p = x
    <3>1. PermSeen(x, n) BY <1>1, <1>6 DEF RemovePermission, At, CatalogInv, HandlerOK
    <3> QED BY <1>3, <1>4, <2>3, <3>1 DEF PermSeen, Answered
  <2> QED BY <2>2, <2>3
<1> QED BY <1>5, <1>6

\* The other steps of a handler leave the rows of the tree that are there.
LEMMA OthersRest ==
  ASSUME CatalogInv, NEW r \in Requests, ArriveTree(r) \/ ArriveSave(r) \/ Resume(r) \/ Abort(r),
         ~WriteFeature(r), ~WritePermission(r), ~RemoveFeature(r), ~RemovePermission(r),
         NEW p \in Permissions, perm[p] # None
  PROVE  perm'[p] = perm[p] /\ moved' = moved
<1>1. CASE ArriveTree(r) \/ ArriveSave(r) \/ Abort(r)
  BY <1>1 DEF ArriveTree, ArriveSave, Abort, CreateFeature, UpdateFeature, DeleteFeature,
     CreatePermission, UpdatePermission, DeletePermission, CreateRole, UpdateRole, Begin, Fail,
     tables, history
<1>2. CASE InsertPermission(r)
  <2>1. moved' = moved BY <1>2 DEF InsertPermission, history
  <2>2. CASE UNCHANGED perm BY <2>1, <2>2
  <2>3. CASE ~UNCHANGED perm
    <3>1. PICK q \in Permissions \cap fresh : perm' = [perm EXCEPT ![q] = req[r].target]
      BY <1>2, <2>3 DEF InsertPermission
    <3>2. p # q BY DEF CatalogInv, TableInv, FreshUnused
    <3>3. perm'[p] = perm[p] BY <3>1, <3>2 DEF CatalogInv, TableInv, TableTypes
    <3> QED BY <2>1, <3>3
  <2> QED BY <2>2, <2>3
<1>3. CASE InsertGrant(r) BY <1>3, InsertGrantStep DEF Failed
<1>4. CASE InsertFeature(r) \/ SelectRole(r) \/ ClearRole(r) \/ NextPermission(r) \/ RoleSaved(r)
  BY <1>4 DEF InsertFeature, SelectRole, ClearRole, NextPermission, RoleSaved, tables, history
<1> QED BY <1>1, <1>2, <1>3, <1>4 DEF Resume

\* No handler takes a permission away from another tenant, for any number of tenants and
\* handlers, unless it moves it to its own tenant or comes upon a move made since its look
\* (data-access.ts:467, :480, :603, :619).
THEOREM CrossingsAreMoves == Spec => OnlyMovesCrossTenants
<1>1. ASSUME CatalogInv, [Next]_vars, NEW p \in Permissions, Exists(perm, p),
             PermTenant(p)' # PermTenant(p), Acting # {}
      PROVE  Answered(p)
  <2>1. TableInv' /\ Drift BY <1>1, StepDrifts
  <2>2. Crossing(p) BY <1>1 DEF Crossing, Exists
  <2>3. req' # req BY <1>1 DEF Acting
  <2>4. PICK r \in Requests : ArriveTree(r) \/ ArriveSave(r) \/ Resume(r) \/ Abort(r)
    <3>1. ~UNCHANGED vars BY <2>3 DEF vars
    <3>2. \A n \in Tenants : ~Alone(n) BY <1>1, <2>3, AloneStep
    <3> QED BY <1>1, <3>1, <3>2 DEF Next, Alone
  <2>5. CASE WriteFeature(r) BY <1>1, <2>1, <2>2, <2>5, WriteFeatureAnswered
  <2>6. CASE WritePermission(r) BY <1>1, <2>1, <2>2, <2>6, WritePermissionAnswered
  <2>7. CASE RemoveFeature(r) \/ RemovePermission(r)
    BY <1>1, <2>1, <2>2, <2>7, RemoveAnswered
  <2>8. CASE ~WriteFeature(r) /\ ~WritePermission(r) /\ ~RemoveFeature(r) /\ ~RemovePermission(r)
    <3>1. perm'[p] = perm[p] /\ moved' = moved BY <1>1, <2>2, <2>4, <2>8, OthersRest DEF Crossing
    <3> QED BY <1>1, <2>1, <2>2, <3>1, RowRests
  <2> QED BY <2>5, <2>6, <2>7, <2>8
<1>2. CatalogInv /\ [Next]_vars =>
        [\A p \in Permissions :
           Exists(perm, p) /\ PermTenant(p)' # PermTenant(p) /\ Acting # {} =>
             \/ PermTenant(p) \in Acting
             \/ p \in moved' /\ PermTenant(p)' \in Acting
             \/ {p, perm[p], perm'[p]} \cap moved # {}]_vars
  BY <1>1 DEF Answered
<1> QED BY <1>2, CatalogInvariance, PTL DEF Spec, OnlyMovesCrossTenants
=============================================================================
