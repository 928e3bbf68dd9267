---------------------------- MODULE OAuthTokens ----------------------------
(***************************************************************************)
(* Authorization codes and refresh tokens of the OAuth server: the consent *)
(* page that stores a code, the token endpoint that exchanges codes and    *)
(* rotates refresh tokens, and the revocation endpoint.                    *)
(*                                                                         *)
(* A request handler is a process with a program counter.  One action is   *)
(* one database statement of the handler (or one write transaction),       *)
(* together with the code that runs up to the next `await`; between two    *)
(* actions of a request the other requests, the tenant's lifecycle, the    *)
(* users and the registered clients may change, and the request may die.   *)
(***************************************************************************)
EXTENDS Naturals

CONSTANTS
  Users, Clients, Tenants,
  Scopes,          \* scope names
  Offline,         \* the scope name "offline_access"
  Configs,         \* what an administrator may register for a client
  Codes, Tokens,   \* supply of random values: bounds how many are ever issued
  Requests,        \* handlers that may be in flight together
  MaxTime,         \* bound of the clock
  None

GrantTypes == {"authorization_code", "refresh_token"}

ClientConfig == [tenant: Tenants, grants: SUBSET GrantTypes, scopes: SUBSET Scopes,
                 codeTtl: Nat \ {0}, refreshTtl: Nat \ {0}]

\* The administration page clamps both lifetimes to at least one unit.
ASSUME ConfigsAssumption == Configs \subseteq ClientConfig
ASSUME OfflineAssumption == Offline \in Scopes
ASSUME MaxTimeAssumption == MaxTime \in Nat
ASSUME NoneAssumption ==
  None \notin Users \cup Clients \cup Configs \cup Codes \cup Tokens

VARIABLES
  now,        \* the clock that expiresAt is compared with
  archived,   \* tenants with archivedAt set
  user,       \* status of each account
  client,     \* the OAuth2Client row of each client_id, None when there is none
  codes,      \* table OAuth2AuthorizationCode
  tokens,     \* table OAuth2RefreshToken
  burned,     \* history: grants whose client revoked or replayed a token of theirs
  req         \* the handlers in flight

vars == <<now, archived, user, client, codes, tokens, burned, req>>
environment == <<now, archived, user, client>>

(***************************************************************************)
(* A deleted code row keeps its data (status "gone") so that a token can   *)
(* be compared with the grant it stems from; no action reads it.  `origin` *)
(* is history too: the table links tokens by replacedBy only.              *)
(***************************************************************************)
CodeRow == [status: {"free", "stored", "gone"}, client: Clients \cup {None},
            user: Users \cup {None}, scope: SUBSET Scopes, expires: Nat]

TokenRow == [stored: BOOLEAN, client: Clients \cup {None}, user: Users \cup {None},
             scope: SUBSET Scopes, expires: Nat, revoked: BOOLEAN,
             replacedBy: Tokens \cup {None}, origin: Codes \cup {None}]

FreeCode == [status |-> "free", client |-> None, user |-> None, scope |-> {}, expires |-> 0]
FreeToken == [stored |-> FALSE, client |-> None, user |-> None, scope |-> {}, expires |-> 0,
              revoked |-> FALSE, replacedBy |-> None, origin |-> None]

(***************************************************************************)
(* pc names the next statement of a handler.  `proof` says whether the     *)
(* redirect_uri and the PKCE verifier presented fit the code.  `raced` is  *)
(* history: the tenant was archived while the request was in flight.       *)
(***************************************************************************)
ConsentPCs == {"consentArchive", "consentInsert"}
ExchangePCs == {"exchangeArchive", "exchangeSelect", "exchangeDelete",
                "exchangeClaims", "exchangeInsert"}
RefreshPCs == {"refreshArchive", "refreshLookup", "refreshClaims", "refreshTake"}
PCs == {"idle", "revoke"} \cup ConsentPCs \cup ExchangePCs \cup RefreshPCs

Request == [pc: PCs, client: Clients \cup {None}, cfg: Configs \cup {None},
            user: Users \cup {None}, code: Codes \cup {None}, token: Tokens \cup {None},
            scope: SUBSET Scopes, proof: BOOLEAN, raced: BOOLEAN]

IdleRequest == [pc |-> "idle", client |-> None, cfg |-> None, user |-> None, code |-> None,
                token |-> None, scope |-> {}, proof |-> FALSE, raced |-> FALSE]

Init ==
  /\ now = 0
  /\ archived = {}
  /\ user = [u \in Users |-> "active"]
  /\ client \in [Clients -> Configs]
  /\ codes = [g \in Codes |-> FreeCode]
  /\ tokens = [t \in Tokens |-> FreeToken]
  /\ burned = {}
  /\ req = [r \in Requests |-> IdleRequest]

-----------------------------------------------------------------------------
(* Control of a handler. *)

At(r, pc) == req[r].pc = pc
Goto(r, pc) == req' = [req EXCEPT ![r].pc = pc]
Finish(r) == req' = [req EXCEPT ![r] = IdleRequest]

\* Authentication reads the client row once; the handler keeps that copy.
Begin(r, pc, c, request) ==
  /\ At(r, "idle")
  /\ client[c] # None
  /\ req' = [req EXCEPT ![r] = [request EXCEPT !.pc = pc, !.client = c, !.cfg = client[c]]]
  /\ UNCHANGED <<environment, codes, tokens, burned>>

\* A list of grants that is empty after parsing means the code grant only.
AllowsGrant(cfg, grant) ==
  grant \in IF cfg.grants = {} THEN {"authorization_code"} ELSE cfg.grants

TenantClosed(cfg) == cfg.tenant \in archived

\* Mutant: the tenant's lifecycle is not read.
CheckGrantOnly(r, from, allowed, to) ==
  /\ At(r, from)
  /\ IF allowed THEN Goto(r, to) ELSE Finish(r)
  /\ UNCHANGED <<environment, codes, tokens, burned>>

\* Reads the tenant's lifecycle, then the copied client row: go on or answer an error.
CheckArchive(r, from, allowed, to) ==
  /\ At(r, from)
  /\ IF ~TenantClosed(req[r].cfg) /\ allowed
       THEN Goto(r, to)
       ELSE Finish(r)
  /\ UNCHANGED <<environment, codes, tokens, burned>>

-----------------------------------------------------------------------------
(* The consent page. *)

(***************************************************************************)
(* The parameters are validated against the client row, then the session   *)
(* is read: a session is a signed cookie, so the account behind it may     *)
(* already be disabled or deleted.                                         *)
(***************************************************************************)
BeginConsent(r, c, u, scope) ==
  /\ client[c] # None
  /\ scope # {} /\ scope \subseteq client[c].scopes
  /\ AllowsGrant(client[c], "authorization_code")
  /\ Offline \in scope => AllowsGrant(client[c], "refresh_token")
  /\ Begin(r, "consentArchive", c, [IdleRequest EXCEPT !.user = u, !.scope = scope])

ConsentCheckArchive(r) == CheckArchive(r, "consentArchive", TRUE, "consentInsert")

\* The foreign key to User refuses the row of an account deleted meanwhile.
InsertAuthorizationCode(r) ==
  /\ At(r, "consentInsert")
  /\ \/ /\ user[req[r].user] # "deleted"
        /\ \E g \in Codes :
             /\ codes[g].status = "free"
             /\ codes' = [codes EXCEPT ![g] =
                  [status |-> "stored", client |-> req[r].client, user |-> req[r].user,
                   scope |-> req[r].scope, expires |-> now + req[r].cfg.codeTtl]]
     \/ /\ user[req[r].user] = "deleted"
        /\ UNCHANGED codes
  /\ Finish(r)
  /\ UNCHANGED <<environment, tokens, burned>>

-----------------------------------------------------------------------------
(* grant_type=authorization_code *)

BeginExchange(r, c, g, proof) ==
  /\ codes[g].status # "free"
  /\ Begin(r, "exchangeArchive", c, [IdleRequest EXCEPT !.code = g, !.proof = proof])

ExchangeCheckArchive(r) ==
  CheckArchive(r, "exchangeArchive",
               AllowsGrant(req[r].cfg, "authorization_code"), "exchangeSelect")

\* SELECT by code, client and redirect URI, then the PKCE comparison.
SelectCode(r) ==
  LET g == req[r].code IN
  /\ At(r, "exchangeSelect")
  /\ IF /\ codes[g].status = "stored"
        /\ codes[g].expires > now
        /\ codes[g].client = req[r].client
        /\ req[r].proof
       THEN Goto(r, "exchangeDelete")
       ELSE Finish(r)
  /\ UNCHANGED <<environment, codes, tokens, burned>>

\* Mutant: the row count of DELETE ... RETURNING is not looked at.
AnyDeletionWins(g) == codes[g].expires > now

\* DELETE ... RETURNING has a row: this request removed the code itself.
DeletionWins(g) == codes[g].status = "stored" /\ codes[g].expires > now

DeleteCode(r) ==
  LET g == req[r].code IN
  /\ At(r, "exchangeDelete")
  /\ IF DeletionWins(g)
       THEN /\ codes' = [codes EXCEPT ![g].status = "gone"]
            /\ Goto(r, "exchangeClaims")
       ELSE /\ UNCHANGED codes
            /\ Finish(r)
  /\ UNCHANGED <<environment, tokens, burned>>

\* Whether the answer to a code exchange carries a refresh token.
WantsRefreshToken(r) ==
  Offline \in codes[req[r].code].scope /\ AllowsGrant(req[r].cfg, "refresh_token")

\* Reads the user's claims; the access token is signed without touching the database.
ExchangeClaims(r) ==
  /\ At(r, "exchangeClaims")
  /\ IF user[codes[req[r].code].user] = "active" /\ WantsRefreshToken(r)
       THEN Goto(r, "exchangeInsert")
       ELSE Finish(r)
  /\ UNCHANGED <<environment, codes, tokens, burned>>

\* The row of the grant's first refresh token.
FirstToken(r, g) ==
  [stored |-> TRUE, client |-> req[r].client, user |-> codes[g].user,
   scope |-> codes[g].scope, expires |-> now + req[r].cfg.refreshTtl,
   revoked |-> FALSE, replacedBy |-> None, origin |-> g]

InsertRefreshToken(r) ==
  /\ At(r, "exchangeInsert")
  /\ \E t \in Tokens :
       /\ ~tokens[t].stored
       /\ tokens' = [tokens EXCEPT ![t] = FirstToken(r, req[r].code)]
  /\ Finish(r)
  /\ UNCHANGED <<environment, codes, burned>>

-----------------------------------------------------------------------------
(* Families of refresh tokens: the recursive query over replacedById. *)

\* Mutant: the statements do not name the client.
AnyOwner(t, c) == tokens[t].stored

OwnedBy(t, c) == tokens[t].stored /\ tokens[t].client = c

Active(t) == tokens[t].stored /\ ~tokens[t].revoked /\ tokens[t].expires > now

FollowsReplacements(S) ==
  \A x \in S : tokens[x].replacedBy \in Tokens => tokens[x].replacedBy \in S

\* Mutant: only the token itself, the query without its recursive part.
SeedOnly(t) == {t}

\* The token t and every later token of its rotations.
Family(t) ==
  {x \in Tokens : \A S \in SUBSET Tokens : (t \in S /\ FollowsReplacements(S)) => x \in S}

\* The rotations of t without t, which is what a replay of t ends.
Successors(t) ==
  IF tokens[t].replacedBy \in Tokens THEN Family(tokens[t].replacedBy) ELSE {}

\* UPDATE ... SET revokedAt = COALESCE(revokedAt, now) over the client's rows of S.
Revoked(S, c) ==
  [x \in Tokens |-> IF x \in S /\ OwnedBy(x, c) THEN [tokens[x] EXCEPT !.revoked = TRUE]
                                               ELSE tokens[x]]

-----------------------------------------------------------------------------
(* grant_type=refresh_token *)

\* An empty scope stands for a request without the parameter.
BeginRefresh(r, c, t, scope) ==
  /\ tokens[t].stored
  /\ Begin(r, "refreshArchive", c, [IdleRequest EXCEPT !.token = t, !.scope = scope])

RefreshCheckArchive(r) ==
  CheckArchive(r, "refreshArchive",
               AllowsGrant(req[r].cfg, "refresh_token"), "refreshLookup")

RequestedScope(r) ==
  IF req[r].scope = {} THEN tokens[req[r].token].scope ELSE req[r].scope

SetScope(r, scope, pc) ==
  req' = [req EXCEPT ![r] = [req[r] EXCEPT !.scope = scope, !.pc = pc]]

\* The lookup does not filter by client: another client's live token is an error, and no
\* replay.  A token that is not active goes to the rotation with an empty scope.
LookupRefreshToken(r) ==
  LET t == req[r].token IN
  /\ At(r, "refreshLookup")
  /\ \/ /\ ~Active(t)
        /\ SetScope(r, {}, "refreshTake")
     \/ /\ Active(t)
        /\ IF /\ tokens[t].client = req[r].client
              /\ RequestedScope(r) # {}
              /\ RequestedScope(r) \subseteq tokens[t].scope
              /\ RequestedScope(r) \subseteq req[r].cfg.scopes
             THEN SetScope(r, RequestedScope(r), "refreshClaims")
             ELSE Finish(r)
  /\ UNCHANGED <<environment, codes, tokens, burned>>

RefreshClaims(r) ==
  /\ At(r, "refreshClaims")
  /\ IF user[tokens[req[r].token].user] = "active" THEN Goto(r, "refreshTake") ELSE Finish(r)
  /\ UNCHANGED <<environment, codes, tokens, burned>>

\* Mutant: the old row is linked to its successor and stays usable.
LinkedOnly(t, n) == [tokens[t] EXCEPT !.replacedBy = n]

\* The old row as the rotation leaves it.
Retired(t, n) == [tokens[t] EXCEPT !.revoked = TRUE, !.replacedBy = n]

\* Mutants of the replacement's row: an expiry counted from the refresh, the scope the
\* client may ask for.
SlidingReplacement(r, t) ==
  [tokens[t] EXCEPT !.scope = req[r].scope, !.expires = now + req[r].cfg.refreshTtl]
WideReplacement(r, t) == [tokens[t] EXCEPT !.scope = req[r].cfg.scopes]

\* The row of the replacement: user and expiry are the old row's, the scope the request's.
Replacement(r, t) ==
  [stored |-> TRUE, client |-> req[r].client, user |-> tokens[t].user,
   scope |-> req[r].scope, expires |-> tokens[t].expires,
   revoked |-> FALSE, replacedBy |-> None, origin |-> tokens[t].origin]

\* Rotates an active token, one write transaction.
Rotate(r, t) ==
  /\ \/ /\ req[r].scope \subseteq tokens[t].scope
        /\ \E n \in Tokens :
             /\ ~tokens[n].stored
             /\ tokens' = [tokens EXCEPT ![t] = Retired(t, n), ![n] = Replacement(r, t)]
     \/ /\ ~(req[r].scope \subseteq tokens[t].scope)   \* rolled back
        /\ UNCHANGED tokens
  /\ UNCHANGED burned

\* A token that was rotated, revoked or has expired ends its later rotations.
Replay(r, t) ==
  /\ tokens' = Revoked(IF OwnedBy(t, req[r].client) THEN Successors(t) ELSE {}, req[r].client)
  /\ burned' = IF OwnedBy(t, req[r].client) /\ tokens[t].revoked
                 THEN burned \cup {tokens[t].origin}
                 ELSE burned

\* Mutant: the transaction does not look at revokedAt.
RotatableUntilExpired(t, c) == OwnedBy(t, c) /\ tokens[t].expires > now

\* What the transaction's SELECT finds: a row of the client, unexpired and not revoked.
Rotatable(t, c) == OwnedBy(t, c) /\ Active(t)

TakeForRotation(r) ==
  LET t == req[r].token IN
  /\ At(r, "refreshTake")
  /\ IF Rotatable(t, req[r].client) THEN Rotate(r, t) ELSE Replay(r, t)
  /\ Finish(r)
  /\ UNCHANGED <<environment, codes>>

-----------------------------------------------------------------------------
(* The revocation endpoint. *)

BeginRevoke(r, c, t) ==
  /\ tokens[t].stored
  /\ Begin(r, "revoke", c, [IdleRequest EXCEPT !.token = t])

RevokeRefreshToken(r) ==
  LET t == req[r].token
      own == OwnedBy(t, req[r].client) IN
  /\ At(r, "revoke")
  /\ tokens' = Revoked(IF own THEN Family(t) ELSE {}, req[r].client)
  /\ burned' = IF own THEN burned \cup {tokens[t].origin} ELSE burned
  /\ Finish(r)
  /\ UNCHANGED <<environment, codes>>

-----------------------------------------------------------------------------
(* What happens around the handlers. *)

\* The process dies, or the database call throws: the handler never resumes.
Crash(r) ==
  /\ ~At(r, "idle")
  /\ Finish(r)
  /\ UNCHANGED <<environment, codes, tokens, burned>>

Tick ==
  /\ now < MaxTime
  /\ now' = now + 1
  /\ UNCHANGED <<archived, user, client, codes, tokens, burned, req>>

ArchiveTenant(n) ==
  /\ n \notin archived
  /\ archived' = archived \cup {n}
  /\ req' = [r \in Requests |->
       IF ~At(r, "idle") /\ req[r].cfg.tenant = n THEN [req[r] EXCEPT !.raced = TRUE]
                                                  ELSE req[r]]
  /\ UNCHANGED <<now, user, client, codes, tokens, burned>>

UnarchiveTenant(n) ==
  /\ n \in archived
  /\ archived' = archived \ {n}
  /\ UNCHANGED <<now, user, client, codes, tokens, burned, req>>

SetUserStatus(u, status) ==
  /\ user[u] # "deleted"
  /\ user[u] # status
  /\ user' = [user EXCEPT ![u] = status]
  /\ UNCHANGED <<now, archived, client, codes, tokens, burned, req>>

\* The foreign key removes the user's codes; refresh tokens have none and stay.
DeleteUser(u) ==
  /\ user[u] # "deleted"
  /\ user' = [user EXCEPT ![u] = "deleted"]
  /\ codes' = [g \in Codes |->
       IF codes[g].status = "stored" /\ codes[g].user = u
         THEN [codes[g] EXCEPT !.status = "gone"]
         ELSE codes[g]]
  /\ UNCHANGED <<now, archived, client, tokens, burned, req>>

\* An administrator saves the client's settings, in the tenant it belongs to.
UpdateClient(c, cfg) ==
  /\ client[c] # None
  /\ cfg # client[c] /\ cfg.tenant = client[c].tenant
  /\ client' = [client EXCEPT ![c] = cfg]
  /\ UNCHANGED <<now, archived, user, codes, tokens, burned, req>>

\* Codes and refresh tokens name the client without a foreign key: they stay.
DeleteClient(c) ==
  /\ client[c] # None
  /\ client' = [client EXCEPT ![c] = None]
  /\ UNCHANGED <<now, archived, user, codes, tokens, burned, req>>

\* The client_id is the administrator's to choose: that of a deleted client is free again.
EnableClient(c, cfg) ==
  /\ client[c] = None
  /\ client' = [client EXCEPT ![c] = cfg]
  /\ UNCHANGED <<now, archived, user, codes, tokens, burned, req>>

-----------------------------------------------------------------------------

Arrive(r) ==
  \E c \in Clients :
    \/ \E u \in Users, scope \in SUBSET Scopes : BeginConsent(r, c, u, scope)
    \/ \E g \in Codes, proof \in BOOLEAN : BeginExchange(r, c, g, proof)
    \/ \E t \in Tokens, scope \in SUBSET Scopes : BeginRefresh(r, c, t, scope)
    \/ \E t \in Tokens : BeginRevoke(r, c, t)

Resume(r) ==
  \/ ConsentCheckArchive(r)
  \/ InsertAuthorizationCode(r)
  \/ ExchangeCheckArchive(r)
  \/ SelectCode(r)
  \/ DeleteCode(r)
  \/ ExchangeClaims(r)
  \/ InsertRefreshToken(r)
  \/ RefreshCheckArchive(r)
  \/ LookupRefreshToken(r)
  \/ RefreshClaims(r)
  \/ TakeForRotation(r)
  \/ RevokeRefreshToken(r)

Administer ==
  \/ \E n \in Tenants : ArchiveTenant(n) \/ UnarchiveTenant(n)
  \/ \E u \in Users : DeleteUser(u) \/ \E s \in {"active", "disabled"} : SetUserStatus(u, s)
  \/ \E c \in Clients :
       DeleteClient(c) \/ \E cfg \in Configs : UpdateClient(c, cfg) \/ EnableClient(c, cfg)

Next ==
  \/ \E r \in Requests : Arrive(r) \/ Resume(r) \/ Crash(r)
  \/ Tick
  \/ Administer

Spec == Init /\ [][Next]_vars

-----------------------------------------------------------------------------
(* Properties. *)

\* Every row and every request in flight has the shape the code gives it.
TypeOK ==
  /\ now \in 0..MaxTime
  /\ archived \subseteq Tenants
  /\ user \in [Users -> {"active", "disabled", "deleted"}]
  /\ client \in [Clients -> Configs \cup {None}]
  /\ codes \in [Codes -> CodeRow]
  /\ tokens \in [Tokens -> TokenRow]
  /\ burned \subseteq Codes
  /\ req \in [Requests -> Request]

Stems(t, g) == tokens[t].stored /\ tokens[t].origin = g
Live(t) == tokens[t].stored /\ ~tokens[t].revoked

\* The request won the race for its code and has not answered yet.
Redeeming(r) == At(r, "exchangeClaims") \/ At(r, "exchangeInsert")

\* A code is redeemed at most once, whatever the number of server instances that exchange
\* it together ("atomic deletion ensures it is exchanged only once",
\* docs/oauth-better-auth.md:126): one request at a time holds it, none does once it has
\* produced a token, and only one token descends from it directly.
SingleRedemption ==
  \A r \in Requests : Redeeming(r) =>
    /\ codes[req[r].code].status = "gone"
    /\ \A s \in Requests : Redeeming(s) /\ req[s].code = req[r].code => s = r
    /\ \A t \in Tokens : ~Stems(t, req[r].code)

\* Of all the refresh tokens that stem from one consent at most one is usable, however
\* refreshes, replays and revocations interleave.
OneLiveTokenPerGrant ==
  \A t, s \in Tokens :
    Live(t) /\ Live(s) /\ tokens[t].origin = tokens[s].origin => t = s

\* Presenting a rotated token again, or revoking any token, ends the whole grant for
\* good (docs/oauth-better-auth.md:128-129): no refresh already past its lookup can bring
\* a usable token back.
BurnedGrantStaysDead ==
  \A t \in Tokens : tokens[t].stored /\ tokens[t].origin \in burned => tokens[t].revoked

\* A token never exceeds the consent it stems from, through any number of rotations: same
\* client, same user, a scope that only narrows and never vanishes.
WithinConsent ==
  \A t \in Tokens : tokens[t].stored =>
    LET g == tokens[t].origin IN
    /\ g \in Codes /\ codes[g].status = "gone"
    /\ tokens[t].client = codes[g].client
    /\ tokens[t].user = codes[g].user
    /\ tokens[t].scope # {} /\ tokens[t].scope \subseteq codes[g].scope

\* Rotation does not prolong a grant: all its tokens share one expiry.
AbsoluteExpiry ==
  \A t, s \in Tokens :
    tokens[t].stored /\ tokens[s].stored /\ tokens[t].origin = tokens[s].origin
      => tokens[t].expires = tokens[s].expires

\* The statements that issue something run after the archive check.
Issuing(r) == req[r].pc \in {"consentInsert", "exchangeSelect", "exchangeDelete",
  "exchangeClaims", "exchangeInsert", "refreshLookup", "refreshClaims", "refreshTake"}

\* The only requests that issue for an archived tenant were in flight when it was archived.
OnlyRacesIssueWhileArchived ==
  \A r \in Requests : Issuing(r) /\ TenantClosed(req[r].cfg) => req[r].raced

\* A token row changes only by a request authenticated as its client, and a retirement is
\* final: revokedAt, the successor, the expiry and the scope never change again.
OwnerOnlyAndFinal ==
  [][\A t \in Tokens : tokens[t].stored /\ tokens'[t] # tokens[t] =>
       /\ ~tokens[t].revoked /\ tokens'[t].revoked
       /\ \E r \in Requests : req[r].client = tokens[t].client /\ req'[r] = IdleRequest
       /\ tokens'[t].expires = tokens[t].expires /\ tokens'[t].scope = tokens[t].scope]_vars

IssuesRow ==
  \/ \E g \in Codes : codes[g].status = "free" /\ codes'[g].status = "stored"
  \/ \E t \in Tokens : ~tokens[t].stored /\ tokens'[t].stored

\* The promise of lib/tenant-lifecycle.ts:30, read literally: while its tenant is archived
\* a client is issued no code and no refresh token.
NoIssuanceWhileArchived ==
  [][IssuesRow => \A r \in Requests :
       req'[r] # req[r] => ~TenantClosed(req[r].cfg)]_vars

-----------------------------------------------------------------------------
(* The inductive invariant behind the safety properties. *)

\* What a handler has established by the time it reaches a statement.
HandlerShape(r) ==
  /\ ~At(r, "idle") => req[r].client \in Clients /\ req[r].cfg \in Configs
  /\ req[r].pc \in ConsentPCs => req[r].user \in Users /\ req[r].scope # {}
  /\ req[r].pc \in ExchangePCs => req[r].code \in Codes
  /\ req[r].pc \in {"exchangeDelete", "exchangeClaims", "exchangeInsert"} =>
       codes[req[r].code].status # "free" /\ codes[req[r].code].client = req[r].client
  /\ req[r].pc \in RefreshPCs \cup {"revoke"} =>
       req[r].token \in Tokens /\ tokens[req[r].token].stored
  /\ At(r, "refreshTake") /\ req[r].scope = {} => ~Active(req[r].token)
  /\ At(r, "refreshClaims") => req[r].scope # {}

RequestShape == \A r \in Requests : HandlerShape(r)

CodeShape ==
  \A g \in Codes : codes[g].status # "free" =>
    codes[g].client \in Clients /\ codes[g].user \in Users /\ codes[g].scope # {}

\* Only a token that was rotated away is linked, to a token that exists.
LinkShape ==
  \A t \in Tokens : tokens[t].replacedBy # None =>
    tokens[t].stored /\ tokens[t].revoked /\ tokens[tokens[t].replacedBy].stored

\* From every token that is not usable any more the links lead to the usable one of its
\* grant, if there is one: a replay of any of them reaches it.
LiveReachable ==
  \A t, l \in Tokens :
    /\ tokens[t].stored /\ tokens[t].revoked
    /\ Live(l) /\ tokens[l].origin = tokens[t].origin
    => l \in Successors(t)

BurnedHasToken == \A g \in burned : \E t \in Tokens : Stems(t, g)

\* Holds initially and is preserved by every step; implies the properties above.
IndInv ==
  /\ TypeOK /\ RequestShape /\ CodeShape /\ LinkShape
  /\ SingleRedemption /\ OneLiveTokenPerGrant /\ LiveReachable
  /\ BurnedHasToken /\ BurnedGrantStaysDead
  /\ WithinConsent /\ AbsoluteExpiry

-----------------------------------------------------------------------------
(* The grants as an outside observer sees them. *)

LiveOf(g) == {t \in Tokens : Live(t) /\ tokens[t].origin = g}
SpentOf(g) == {t \in Tokens : Stems(t, g) /\ tokens[t].revoked}

Phase(g) ==
  CASE codes[g].status = "free" -> "none"
    [] codes[g].status = "stored" -> "offered"
    [] LiveOf(g) # {} -> "live"
    [] LiveOf(g) = {} /\ SpentOf(g) # {} -> "ended"
    [] OTHER -> "closed"

Grant == INSTANCE OAuthGrant WITH
  Grants <- Codes,
  phase <- [g \in Codes |-> Phase(g)],
  holder <- [g \in Codes |-> LiveOf(g)],
  spent <- [g \in Codes |-> SpentOf(g)]

\* The server implements grants: offered once, redeemed at most once, then one line of
\* tokens in which each is replaced by a new one until the line ends and never resumes.
ImplementsGrants == Grant!Spec
=============================================================================
