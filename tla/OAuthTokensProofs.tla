------------------------- MODULE OAuthTokensProofs -------------------------
(***************************************************************************)
(* Proofs about OAuthTokens for every set of clients, codes, tokens and    *)
(* requests: IndInv is an invariant, hence so are its conjuncts; only      *)
(* requests that the archiving of a tenant overtook issue for it; a stored *)
(* token changes once, by a request of its client; and the handlers        *)
(* implement OAuthGrant.                                                   *)
(***************************************************************************)
EXTENDS OAuthTokens, TLAPS

ConstantAssumptions == /\ Configs \subseteq ClientConfig
                       /\ Offline \in Scopes
                       /\ MaxTime \in Nat
                       /\ None \notin Users \cup Clients \cup Configs \cup Codes \cup Tokens

\* The assumptions on the constants, as one fact.
LEMMA Constants == ConstantAssumptions
  BY ConfigsAssumption, OfflineAssumption, MaxTimeAssumption, NoneAssumption
     DEF ConstantAssumptions

\* An idle request is a request.
LEMMA IdleTyped == IdleRequest \in Request
  BY DEF IdleRequest, Request, PCs

\* Unused rows are rows.
LEMMA RowsTyped == FreeCode \in CodeRow /\ FreeToken \in TokenRow
  BY DEF FreeCode, FreeToken, CodeRow, TokenRow

\* The type invariant holds initially.
LEMMA InitType == Init => TypeOK
  BY Constants, IdleTyped, RowsTyped DEF Init, TypeOK, ConstantAssumptions

\* Leaving a request leaves a well-typed table of requests.
LEMMA FinishTyped ==
  ASSUME TypeOK, NEW r \in Requests, Finish(r)
  PROVE  req' \in [Requests -> Request]
  BY IdleTyped DEF TypeOK, Finish

\* So does moving a request to its next statement.
LEMMA GotoTyped ==
  ASSUME TypeOK, NEW r \in Requests, NEW pc \in PCs, Goto(r, pc)
  PROVE  req' \in [Requests -> Request]
  BY DEF TypeOK, Goto, Request

\* A handler that begins copies the client's row, which exists.
LEMMA BeginTyped ==
  ASSUME TypeOK, NEW r \in Requests, NEW pc \in PCs, NEW c \in Clients,
         NEW request \in Request, Begin(r, pc, c, request)
  PROVE  TypeOK'
<1>1. client[c] \in Configs
  BY DEF TypeOK, Begin
<1>2. [request EXCEPT !.pc = pc, !.client = c, !.cfg = client[c]] \in Request
  BY <1>1 DEF Request
<1> QED
  BY <1>2 DEF TypeOK, Begin, environment

\* The lifecycle check moves or ends the request, nothing else.
LEMMA CheckArchiveTyped ==
  ASSUME TypeOK, NEW r \in Requests, NEW from, NEW allowed, NEW to \in PCs,
         CheckArchive(r, from, allowed, to)
  PROVE  TypeOK'
<1>1. req' \in [Requests -> Request]
  BY FinishTyped, GotoTyped DEF CheckArchive
<1> QED
  BY <1>1 DEF TypeOK, CheckArchive, environment

\* A revocation keeps the table of tokens well typed.
LEMMA RevokedTyped ==
  ASSUME TypeOK, NEW S, NEW c
  PROVE  Revoked(S, c) \in [Tokens -> TokenRow]
  BY DEF TypeOK, Revoked, TokenRow

-----------------------------------------------------------------------------
(* Types, one group of actions at a time. *)

\* The consent page: the code row it inserts has a user and an expiry.
LEMMA ConsentTyped ==
  ASSUME TypeOK, RequestShape, NEW r \in Requests,
         \/ \E c \in Clients, u \in Users, scope \in SUBSET Scopes : BeginConsent(r, c, u, scope)
         \/ ConsentCheckArchive(r) \/ InsertAuthorizationCode(r)
  PROVE  TypeOK'
<1>1. ASSUME NEW c \in Clients, NEW u \in Users, NEW scope \in SUBSET Scopes,
             BeginConsent(r, c, u, scope)
      PROVE  TypeOK'
  <2>1. [IdleRequest EXCEPT !.user = u, !.scope = scope] \in Request
    BY IdleTyped DEF Request
  <2> QED
    BY <1>1, <2>1, BeginTyped DEF BeginConsent, PCs, ConsentPCs
<1>2. CASE ConsentCheckArchive(r)
  BY <1>2, CheckArchiveTyped DEF ConsentCheckArchive, PCs, ConsentPCs
<1>3. CASE InsertAuthorizationCode(r)
  <2>1. req' \in [Requests -> Request]
    BY <1>3, FinishTyped DEF InsertAuthorizationCode
  <2>2. codes' \in [Codes -> CodeRow]
    <3>1. CASE UNCHANGED codes
      BY <3>1 DEF TypeOK
    <3>2. CASE \E g \in Codes : codes' = [codes EXCEPT ![g] =
                  [status |-> "stored", client |-> req[r].client, user |-> req[r].user,
                   scope |-> req[r].scope, expires |-> now + req[r].cfg.codeTtl]]
      <4>1. req[r].cfg \in ClientConfig
        BY <1>3, Constants DEF RequestShape, HandlerShape, InsertAuthorizationCode, At, ConstantAssumptions
      <4>2. now \in Nat /\ now + req[r].cfg.codeTtl \in Nat
        BY <4>1, Constants DEF ClientConfig, TypeOK, ConstantAssumptions
      <4>3. req[r] \in Request
        BY DEF TypeOK
      <4>4. [status |-> "stored", client |-> req[r].client, user |-> req[r].user,
             scope |-> req[r].scope, expires |-> now + req[r].cfg.codeTtl] \in CodeRow
        BY <4>2, <4>3 DEF CodeRow, Request
      <4> QED
        BY <3>2, <4>4 DEF TypeOK
    <3> QED
      BY <1>3, <3>1, <3>2 DEF InsertAuthorizationCode
  <2> QED
    BY <1>3, <2>1, <2>2 DEF InsertAuthorizationCode, environment, TypeOK
<1> QED
  BY <1>1, <1>2, <1>3

\* The code exchange: the token row it inserts copies the code's.
LEMMA ExchangeTyped ==
  ASSUME TypeOK, RequestShape, NEW r \in Requests,
         \/ \E c \in Clients, g \in Codes, proof \in BOOLEAN : BeginExchange(r, c, g, proof)
         \/ ExchangeCheckArchive(r) \/ SelectCode(r) \/ DeleteCode(r)
         \/ ExchangeClaims(r) \/ InsertRefreshToken(r)
  PROVE  TypeOK'
<1>1. ASSUME NEW c \in Clients, NEW g \in Codes, NEW proof \in BOOLEAN,
             BeginExchange(r, c, g, proof)
      PROVE  TypeOK'
  <2>1. [IdleRequest EXCEPT !.code = g, !.proof = proof] \in Request
    BY IdleTyped DEF Request
  <2> QED
    BY <1>1, <2>1, BeginTyped DEF BeginExchange, PCs, ExchangePCs
<1>2. CASE ExchangeCheckArchive(r)
  BY <1>2, CheckArchiveTyped DEF ExchangeCheckArchive, PCs, ExchangePCs
<1>3. CASE SelectCode(r)
  <2>1. req' \in [Requests -> Request]
    BY <1>3, FinishTyped, GotoTyped DEF SelectCode, PCs, ExchangePCs
  <2> QED
    BY <1>3, <2>1 DEF SelectCode, environment, TypeOK
<1>4. CASE DeleteCode(r)
  <2>1. req' \in [Requests -> Request]
    BY <1>4, FinishTyped, GotoTyped DEF DeleteCode, PCs, ExchangePCs
  <2>2. codes' \in [Codes -> CodeRow]
    BY <1>4 DEF DeleteCode, TypeOK, CodeRow
  <2> QED
    BY <1>4, <2>1, <2>2 DEF DeleteCode, environment, TypeOK
<1>5. CASE ExchangeClaims(r)
  <2>1. req' \in [Requests -> Request]
    BY <1>5, FinishTyped, GotoTyped DEF ExchangeClaims, PCs, ExchangePCs
  <2> QED
    BY <1>5, <2>1 DEF ExchangeClaims, environment, TypeOK
<1>6. CASE InsertRefreshToken(r)
  <2>1. req' \in [Requests -> Request]
    BY <1>6, FinishTyped DEF InsertRefreshToken
  <2>2. req[r].cfg \in ClientConfig /\ req[r].code \in Codes
    BY <1>6, Constants
    DEF RequestShape, HandlerShape, InsertRefreshToken, At, ConstantAssumptions, ExchangePCs
  <2>3. now + req[r].cfg.refreshTtl \in Nat
    BY <2>2, Constants DEF ClientConfig, TypeOK, ConstantAssumptions
  <2>4. req[r] \in Request /\ codes[req[r].code] \in CodeRow
    BY <2>2 DEF TypeOK
  <2>5. FirstToken(r, req[r].code) \in TokenRow
    BY <2>2, <2>3, <2>4 DEF FirstToken, CodeRow, Request, TokenRow
  <2>6. tokens' \in [Tokens -> TokenRow]
    BY <1>6, <2>5 DEF InsertRefreshToken, TypeOK
  <2> QED
    BY <1>6, <2>1, <2>6 DEF InsertRefreshToken, environment, TypeOK
<1> QED
  BY <1>1, <1>2, <1>3, <1>4, <1>5, <1>6

\* A rotation writes two rows of tokens.
LEMMA RotateTyped ==
  ASSUME TypeOK, NEW r \in Requests, NEW t \in Tokens, Rotate(r, t)
  PROVE  tokens' \in [Tokens -> TokenRow] /\ burned' \subseteq Codes
<1>1. ASSUME NEW n \in Tokens
      PROVE  Retired(t, n) \in TokenRow
  BY <1>1 DEF Retired, TypeOK, TokenRow
<1>2. Replacement(r, t) \in TokenRow
  BY DEF Replacement, TypeOK, TokenRow, Request
<1> QED
  BY <1>1, <1>2 DEF Rotate, TypeOK

\* A replay burns the grant of a token, which is a code.
LEMMA ReplayTyped ==
  ASSUME TypeOK, WithinConsent, NEW r \in Requests, NEW t \in Tokens, Replay(r, t)
  PROVE  tokens' \in [Tokens -> TokenRow] /\ burned' \subseteq Codes
<1>1. OwnedBy(t, req[r].client) => tokens[t].origin \in Codes
  BY DEF OwnedBy, WithinConsent
<1> QED
  BY <1>1, RevokedTyped DEF Replay, TypeOK

\* The refresh grant, from the lookup to the rotation or the replay.
LEMMA RefreshTyped ==
  ASSUME TypeOK, RequestShape, WithinConsent, NEW r \in Requests,
         \/ \E c \in Clients, t \in Tokens, scope \in SUBSET Scopes : BeginRefresh(r, c, t, scope)
         \/ RefreshCheckArchive(r) \/ LookupRefreshToken(r)
         \/ RefreshClaims(r) \/ TakeForRotation(r)
  PROVE  TypeOK'
<1>1. ASSUME NEW c \in Clients, NEW t \in Tokens, NEW scope \in SUBSET Scopes,
             BeginRefresh(r, c, t, scope)
      PROVE  TypeOK'
  <2>1. [IdleRequest EXCEPT !.token = t, !.scope = scope] \in Request
    BY IdleTyped DEF Request
  <2> QED
    BY <1>1, <2>1, BeginTyped DEF BeginRefresh, PCs, RefreshPCs
<1>2. CASE RefreshCheckArchive(r)
  BY <1>2, CheckArchiveTyped DEF RefreshCheckArchive, PCs, RefreshPCs
<1>3. CASE LookupRefreshToken(r)
  <2>1. req[r].token \in Tokens
    BY <1>3 DEF RequestShape, HandlerShape, LookupRefreshToken, At, RefreshPCs
  <2>2. RequestedScope(r) \subseteq Scopes
    BY <2>1 DEF RequestedScope, TypeOK, TokenRow, Request
  <2>3. ASSUME NEW scope \in SUBSET Scopes, NEW pc \in PCs,
               SetScope(r, scope, pc)
        PROVE  req' \in [Requests -> Request]
    <3>1. req[r] \in Request
      BY DEF TypeOK
    <3>2. [req[r] EXCEPT !.scope = scope, !.pc = pc] \in Request
      BY <3>1 DEF Request
    <3> QED
      BY <2>3, <3>2 DEF SetScope, TypeOK
  <2>4. req' \in [Requests -> Request]
    BY <1>3, <2>2, <2>3, FinishTyped DEF LookupRefreshToken, PCs, RefreshPCs
  <2> QED
    BY <1>3, <2>4 DEF LookupRefreshToken, environment, TypeOK
<1>4. CASE RefreshClaims(r)
  <2>1. req' \in [Requests -> Request]
    BY <1>4, FinishTyped, GotoTyped DEF RefreshClaims, PCs, RefreshPCs
  <2> QED
    BY <1>4, <2>1 DEF RefreshClaims, environment, TypeOK
<1>5. CASE TakeForRotation(r)
  <2>1. req[r].token \in Tokens
    BY <1>5 DEF RequestShape, HandlerShape, TakeForRotation, At, RefreshPCs
  <2>2. req' \in [Requests -> Request]
    BY <1>5, FinishTyped DEF TakeForRotation
  <2>3. tokens' \in [Tokens -> TokenRow] /\ burned' \subseteq Codes
    BY <1>5, <2>1, RotateTyped, ReplayTyped DEF TakeForRotation
  <2> QED
    BY <1>5, <2>2, <2>3 DEF TakeForRotation, environment, TypeOK
<1> QED
  BY <1>1, <1>2, <1>3, <1>4, <1>5

\* The revocation endpoint.
LEMMA RevokeTyped ==
  ASSUME TypeOK, RequestShape, WithinConsent, NEW r \in Requests,
         \/ \E c \in Clients, t \in Tokens : BeginRevoke(r, c, t)
         \/ RevokeRefreshToken(r)
  PROVE  TypeOK'
<1>1. ASSUME NEW c \in Clients, NEW t \in Tokens, BeginRevoke(r, c, t)
      PROVE  TypeOK'
  <2>1. [IdleRequest EXCEPT !.token = t] \in Request
    BY IdleTyped DEF Request
  <2> QED
    BY <1>1, <2>1, BeginTyped DEF BeginRevoke, PCs
<1>2. CASE RevokeRefreshToken(r)
  <2>1. req[r].token \in Tokens
    BY <1>2 DEF RequestShape, HandlerShape, RevokeRefreshToken, At
  <2>2. OwnedBy(req[r].token, req[r].client) => tokens[req[r].token].origin \in Codes
    BY <2>1 DEF OwnedBy, WithinConsent
  <2>3. req' \in [Requests -> Request]
    BY <1>2, FinishTyped DEF RevokeRefreshToken
  <2>4. tokens' \in [Tokens -> TokenRow] /\ burned' \subseteq Codes
    BY <1>2, <2>2, RevokedTyped DEF RevokeRefreshToken, TypeOK
  <2> QED
    BY <1>2, <2>3, <2>4 DEF RevokeRefreshToken, environment, TypeOK
<1> QED
  BY <1>1, <1>2

\* The clock, the administrators and a crash.
LEMMA AroundTyped ==
  ASSUME TypeOK, Tick \/ Administer \/ \E r \in Requests : Crash(r)
  PROVE  TypeOK'
<1>1. CASE Tick
  BY <1>1, Constants DEF Tick, TypeOK, ConstantAssumptions
<1>2. ASSUME NEW r \in Requests, Crash(r)
      PROVE  TypeOK'
  <2>1. req' \in [Requests -> Request]
    BY <1>2, FinishTyped DEF Crash
  <2> QED
    BY <1>2, <2>1 DEF Crash, environment, TypeOK
<1>3. CASE Administer
  <2>1. ASSUME NEW n \in Tenants, ArchiveTenant(n)
        PROVE  TypeOK'
    <3>1. \A r \in Requests : [req[r] EXCEPT !.raced = TRUE] \in Request /\ req[r] \in Request
      BY DEF TypeOK, Request
    <3>2. req' \in [Requests -> Request]
      BY <2>1, <3>1 DEF ArchiveTenant
    <3> QED
      BY <2>1, <3>2 DEF ArchiveTenant, TypeOK
  <2>2. ASSUME NEW n \in Tenants, UnarchiveTenant(n)
        PROVE  TypeOK'
    BY <2>2 DEF UnarchiveTenant, TypeOK
  <2>3. ASSUME NEW u \in Users, DeleteUser(u)
        PROVE  TypeOK'
    <3>1. \A g \in Codes : [codes[g] EXCEPT !.status = "gone"] \in CodeRow /\ codes[g] \in CodeRow
      BY DEF TypeOK, CodeRow
    <3>2. codes' \in [Codes -> CodeRow]
      BY <2>3, <3>1 DEF DeleteUser
    <3> QED
      BY <2>3, <3>2 DEF DeleteUser, TypeOK
  <2>4. ASSUME NEW u \in Users, NEW s \in {"active", "disabled"}, SetUserStatus(u, s)
        PROVE  TypeOK'
    BY <2>4 DEF SetUserStatus, TypeOK
  <2>5. ASSUME NEW c \in Clients, DeleteClient(c)
        PROVE  TypeOK'
    BY <2>5 DEF DeleteClient, TypeOK
  <2>6. ASSUME NEW c \in Clients, NEW cfg \in Configs, UpdateClient(c, cfg) \/ EnableClient(c, cfg)
        PROVE  TypeOK'
    BY <2>6 DEF UpdateClient, EnableClient, TypeOK
  <2> QED
    BY <1>3, <2>1, <2>2, <2>3, <2>4, <2>5, <2>6 DEF Administer
<1> QED
  BY <1>1, <1>2, <1>3

\* Every step keeps the types.
LEMMA NextType == IndInv /\ [Next]_vars => TypeOK'
<1> SUFFICES ASSUME IndInv, [Next]_vars PROVE TypeOK'
  OBVIOUS
<1> USE DEF IndInv
<1>1. CASE UNCHANGED vars
  BY <1>1 DEF vars, TypeOK
<1>2. ASSUME NEW r \in Requests, Arrive(r)
      PROVE  TypeOK'
  BY <1>2, ConsentTyped, ExchangeTyped, RefreshTyped, RevokeTyped DEF Arrive
<1>3. ASSUME NEW r \in Requests, Resume(r)
      PROVE  TypeOK'
  BY <1>3, ConsentTyped, ExchangeTyped, RefreshTyped, RevokeTyped DEF Resume
<1> QED
  BY <1>1, <1>2, <1>3, AroundTyped DEF Next

-----------------------------------------------------------------------------
(* Families of tokens. *)

\* A token belongs to its own family.
LEMMA FamilyReflexive ==
  ASSUME NEW t \in Tokens
  PROVE  t \in Family(t)
  BY DEF Family

\* A family is closed under replacement.
LEMMA FamilyStep ==
  ASSUME NEW t \in Tokens, NEW x \in Family(t), tokens[x].replacedBy \in Tokens
  PROVE  tokens[x].replacedBy \in Family(t)
  BY DEF Family, FollowsReplacements

\* What replaced a token is in its family.
LEMMA SuccessorsInFamily ==
  ASSUME NEW t \in Tokens
  PROVE  Successors(t) \subseteq Family(t)
<1>1. CASE tokens[t].replacedBy \in Tokens
  <2>1. SUFFICES ASSUME NEW x \in Family(tokens[t].replacedBy),
                        NEW S \in SUBSET Tokens, t \in S, FollowsReplacements(S)
                 PROVE  x \in S
    BY <1>1 DEF Successors, Family
  <2>2. tokens[t].replacedBy \in S
    BY <1>1, <2>1 DEF FollowsReplacements
  <2> QED
    BY <1>1, <2>1, <2>2 DEF Family
<1>2. CASE tokens[t].replacedBy \notin Tokens
  BY <1>2 DEF Successors
<1> QED
  BY <1>1, <1>2

\* A step that keeps the links there are makes no family smaller.
KeepsLinks ==
  \A x \in Tokens : tokens[x].replacedBy \in Tokens => tokens'[x].replacedBy = tokens[x].replacedBy

\* With the links kept, whatever a family contained it still contains.
LEMMA FamilyGrows ==
  ASSUME KeepsLinks, NEW t \in Tokens
  PROVE  Family(t) \subseteq Family(t)'
<1>1. SUFFICES ASSUME NEW x \in Family(t), NEW S \in SUBSET Tokens,
                      t \in S, FollowsReplacements(S)'
               PROVE  x \in S
  BY DEF Family
<1>2. FollowsReplacements(S)
  BY <1>1 DEF FollowsReplacements, KeepsLinks
<1> QED
  BY <1>1, <1>2 DEF Family

\* The same of the tokens after one.
LEMMA SuccessorsGrow ==
  ASSUME KeepsLinks, NEW t \in Tokens
  PROVE  Successors(t) \subseteq Successors(t)'
  BY FamilyGrows DEF Successors, KeepsLinks

-----------------------------------------------------------------------------
(* The four ways a step changes the table of tokens. *)

Inserts(r, t) ==
  /\ At(r, "exchangeInsert")
  /\ ~tokens[t].stored
  /\ tokens' = [tokens EXCEPT ![t] = FirstToken(r, req[r].code)]
  /\ burned' = burned
  /\ Finish(r)

Rotates(r, t, n) ==
  /\ At(r, "refreshTake") /\ t = req[r].token
  /\ Rotatable(t, req[r].client)
  /\ req[r].scope \subseteq tokens[t].scope
  /\ ~tokens[n].stored
  /\ tokens' = [tokens EXCEPT ![t] = Retired(t, n), ![n] = Replacement(r, t)]
  /\ burned' = burned

Revokes(r, t) ==
  /\ At(r, "revoke") /\ t = req[r].token
  /\ tokens' = Revoked(IF OwnedBy(t, req[r].client) THEN Family(t) ELSE {}, req[r].client)
  /\ burned' = IF OwnedBy(t, req[r].client) THEN burned \cup {tokens[t].origin} ELSE burned

\* Every step leaves tokens and burned alone or is one of the four.
LEMMA TokenSteps ==
  ASSUME IndInv, [Next]_vars
  PROVE  \/ tokens' = tokens /\ burned' = burned
         \/ \E r \in Requests, t \in Tokens : Inserts(r, t)
         \/ \E r \in Requests, t, n \in Tokens : Rotates(r, t, n)
         \/ \E r \in Requests, t \in Tokens : t = req[r].token /\ Replay(r, t)
         \/ \E r \in Requests, t \in Tokens : Revokes(r, t)
<1>1. CASE UNCHANGED vars
  BY <1>1 DEF vars
<1>2. ASSUME NEW r \in Requests, Arrive(r)
      PROVE  tokens' = tokens /\ burned' = burned
  BY <1>2 DEF Arrive, BeginConsent, BeginExchange, BeginRefresh, BeginRevoke, Begin
<1>3. ASSUME NEW r \in Requests, InsertRefreshToken(r)
      PROVE  \E t \in Tokens : Inserts(r, t)
  BY <1>3 DEF InsertRefreshToken, Inserts
<1>4. ASSUME NEW r \in Requests, TakeForRotation(r)
      PROVE  \/ tokens' = tokens /\ burned' = burned
             \/ \E t, n \in Tokens : Rotates(r, t, n)
             \/ \E t \in Tokens : t = req[r].token /\ Replay(r, t)
  <2>1. req[r].token \in Tokens
    BY <1>4 DEF IndInv, RequestShape, HandlerShape, TakeForRotation, At, RefreshPCs
  <2> QED
    BY <1>4, <2>1 DEF TakeForRotation, Rotate, Rotates
<1>5. ASSUME NEW r \in Requests, RevokeRefreshToken(r)
      PROVE  \E t \in Tokens : Revokes(r, t)
  <2>1. req[r].token \in Tokens
    BY <1>5 DEF IndInv, RequestShape, HandlerShape, RevokeRefreshToken, At
  <2> QED
    BY <1>5, <2>1 DEF RevokeRefreshToken, Revokes
<1>6. ASSUME NEW r \in Requests,
             \/ ConsentCheckArchive(r) \/ InsertAuthorizationCode(r) \/ ExchangeCheckArchive(r)
             \/ SelectCode(r) \/ DeleteCode(r) \/ ExchangeClaims(r) \/ RefreshCheckArchive(r)
             \/ LookupRefreshToken(r) \/ RefreshClaims(r) \/ Crash(r)
      PROVE  tokens' = tokens /\ burned' = burned
  BY <1>6 DEF ConsentCheckArchive, InsertAuthorizationCode, ExchangeCheckArchive, CheckArchive,
       SelectCode, DeleteCode, ExchangeClaims, RefreshCheckArchive, LookupRefreshToken,
       RefreshClaims, Crash
<1>7. ASSUME Tick \/ Administer
      PROVE  tokens' = tokens /\ burned' = burned
  BY <1>7 DEF Tick, Administer, ArchiveTenant, UnarchiveTenant, DeleteUser, SetUserStatus,
       DeleteClient, UpdateClient, EnableClient
<1> QED
  BY <1>1, <1>2, <1>3, <1>4, <1>5, <1>6, <1>7 DEF Next, Resume

\* The table after each of the four, row by row.
LEMMA InsertRows ==
  ASSUME TypeOK, NEW r \in Requests, NEW t \in Tokens, Inserts(r, t)
  PROVE  /\ tokens'[t].stored /\ ~tokens'[t].revoked /\ tokens'[t].replacedBy = None
         /\ tokens'[t].origin = req[r].code /\ tokens'[t].client = req[r].client
         /\ tokens'[t].user = codes[req[r].code].user
         /\ tokens'[t].scope = codes[req[r].code].scope
         /\ \A x \in Tokens \ {t} : tokens'[x] = tokens[x]
  BY DEF TypeOK, Inserts, FirstToken

\* A rotation retires the usable token t and stores its replacement n.
LEMMA RotateRows ==
  ASSUME IndInv, NEW r \in Requests, NEW t \in Tokens, NEW n \in Tokens, Rotates(r, t, n)
  PROVE  /\ t # n /\ Live(t) /\ ~tokens[n].stored /\ tokens[t].client = req[r].client
         /\ tokens[t].replacedBy = None
         /\ tokens'[t] = Retired(t, n)
         /\ tokens'[n] = Replacement(r, t)
         /\ \A x \in Tokens \ {t, n} : tokens'[x] = tokens[x]
<1>1. Live(t) /\ ~tokens[n].stored /\ tokens[t].client = req[r].client /\ t # n
  BY DEF Rotates, Rotatable, OwnedBy, Active, Live
<1>2. tokens[t].replacedBy = None
  BY <1>1 DEF IndInv, LinkShape, Live
<1> QED
  BY <1>1, <1>2 DEF Rotates, IndInv, TypeOK

\* The retired row differs from the old one in its revocation and its link.
LEMMA RetiredRow ==
  ASSUME TypeOK, NEW t \in Tokens, NEW n \in Tokens
  PROVE  LET row == Retired(t, n) IN
         /\ row.stored = tokens[t].stored /\ row.client = tokens[t].client
         /\ row.user = tokens[t].user /\ row.scope = tokens[t].scope
         /\ row.expires = tokens[t].expires /\ row.origin = tokens[t].origin
         /\ row.revoked /\ row.replacedBy = n
<1>1. tokens[t] \in TokenRow
  BY DEF TypeOK
<1> QED
  BY <1>1 DEF Retired, TokenRow

\* The replacement takes the request's client and scope, the rest is the old row's.
LEMMA ReplacementRow ==
  ASSUME NEW r \in Requests, NEW t \in Tokens
  PROVE  LET row == Replacement(r, t) IN
         /\ row.stored /\ ~row.revoked /\ row.replacedBy = None
         /\ row.client = req[r].client /\ row.user = tokens[t].user
         /\ row.scope = req[r].scope /\ row.expires = tokens[t].expires
         /\ row.origin = tokens[t].origin
  BY DEF Replacement

\* A revocation sets revokedAt on the client's rows of S and touches nothing else.
LEMMA RevokedRows ==
  ASSUME TypeOK, NEW S, NEW c, tokens' = Revoked(S, c), NEW x \in Tokens
  PROVE  /\ tokens'[x].stored = tokens[x].stored /\ tokens'[x].client = tokens[x].client
         /\ tokens'[x].user = tokens[x].user /\ tokens'[x].scope = tokens[x].scope
         /\ tokens'[x].expires = tokens[x].expires /\ tokens'[x].origin = tokens[x].origin
         /\ tokens'[x].replacedBy = tokens[x].replacedBy
         /\ tokens[x].revoked => tokens'[x].revoked
         /\ x \in S /\ OwnedBy(x, c) => tokens'[x].revoked
<1>1. tokens[x] \in TokenRow
  BY DEF TypeOK
<1>2. CASE x \in S /\ OwnedBy(x, c)
  <2>1. tokens'[x] = [tokens[x] EXCEPT !.revoked = TRUE]
    BY <1>2 DEF Revoked
  <2> QED
    BY <1>1, <2>1 DEF TokenRow
<1>3. CASE ~(x \in S /\ OwnedBy(x, c))
  <2>1. tokens'[x] = tokens[x]
    BY <1>3 DEF Revoked
  <2> QED
    BY <1>3, <2>1
<1> QED
  BY <1>2, <1>3

\* A stored row stays, and only its revocation and its link may change.
Persists(x) ==
  tokens[x].stored =>
    /\ tokens'[x].stored /\ tokens'[x].client = tokens[x].client
    /\ tokens'[x].user = tokens[x].user /\ tokens'[x].scope = tokens[x].scope
    /\ tokens'[x].expires = tokens[x].expires /\ tokens'[x].origin = tokens[x].origin
    /\ tokens[x].revoked => tokens'[x].revoked

\* No step takes a stored row away or changes its data.
LEMMA RowsPersist ==
  ASSUME IndInv, [Next]_vars, NEW x \in Tokens
  PROVE  Persists(x)
<1> USE DEF IndInv, Persists
<1>1. CASE tokens' = tokens
  BY <1>1
<1>2. ASSUME NEW r \in Requests, NEW t \in Tokens, Inserts(r, t)
      PROVE  Persists(x)
  BY <1>2, InsertRows DEF Inserts
<1>3. ASSUME NEW r \in Requests, NEW t \in Tokens, NEW n \in Tokens, Rotates(r, t, n)
      PROVE  Persists(x)
  <2>1. t # n /\ ~tokens[n].stored /\ tokens'[t] = Retired(t, n)
        /\ \A y \in Tokens \ {t, n} : tokens'[y] = tokens[y]
    BY <1>3, RotateRows
  <2>2. CASE x = t
    BY <2>1, <2>2, RetiredRow
  <2> QED
    BY <2>1, <2>2
<1>4. ASSUME NEW r \in Requests, NEW t \in Tokens, Replay(r, t) \/ Revokes(r, t)
      PROVE  Persists(x)
  BY <1>4, RevokedRows DEF Replay, Revokes
<1> QED
  BY <1>1, <1>2, <1>3, <1>4, TokenSteps

\* Links are set once: no step takes a link away, and only a rotation adds one.
LEMMA LinksKept == IndInv /\ [Next]_vars => KeepsLinks
<1> SUFFICES ASSUME IndInv, [Next]_vars, NEW x \in Tokens, tokens[x].replacedBy \in Tokens
             PROVE  tokens'[x].replacedBy = tokens[x].replacedBy
  BY DEF KeepsLinks
<1>0. tokens[x].stored /\ tokens[x].revoked
  BY Constants DEF IndInv, LinkShape, ConstantAssumptions
<1>1. ASSUME NEW r \in Requests, NEW t \in Tokens, Inserts(r, t)
      PROVE  tokens'[x].replacedBy = tokens[x].replacedBy
  BY <1>0, <1>1, InsertRows DEF Inserts, IndInv
<1>2. ASSUME NEW r \in Requests, NEW t \in Tokens, NEW n \in Tokens, Rotates(r, t, n)
      PROVE  tokens'[x].replacedBy = tokens[x].replacedBy
  <2>1. Live(t) /\ ~tokens[n].stored /\ \A y \in Tokens \ {t, n} : tokens'[y] = tokens[y]
    BY <1>2, RotateRows
  <2> QED
    BY <1>0, <2>1 DEF Live
<1>3. ASSUME NEW r \in Requests, NEW t \in Tokens, Replay(r, t) \/ Revokes(r, t)
      PROVE  tokens'[x].replacedBy = tokens[x].replacedBy
  BY <1>3, RevokedRows DEF Replay, Revokes, IndInv
<1> QED
  BY <1>1, <1>2, <1>3, TokenSteps

-----------------------------------------------------------------------------
(* Codes, and what a redeeming request knows. *)

\* A code that was issued keeps its data, and a code that is gone never comes back.
CodePersists(g) ==
  /\ codes[g].status # "free" =>
       /\ codes'[g].status # "free" /\ codes'[g].client = codes[g].client
       /\ codes'[g].user = codes[g].user /\ codes'[g].scope = codes[g].scope
  /\ codes[g].status = "gone" => codes'[g].status = "gone"

\* No step gives a code back or changes its data.
LEMMA CodesPersist ==
  ASSUME IndInv, [Next]_vars, NEW g \in Codes
  PROVE  CodePersists(g)
<1> USE DEF CodePersists
<1>0. codes[g] \in CodeRow
  BY DEF IndInv, TypeOK
<1>1. CASE codes' = codes
  BY <1>1
<1>2. ASSUME NEW r \in Requests, InsertAuthorizationCode(r)
      PROVE  CodePersists(g)
  <2>1. CASE UNCHANGED codes
    BY <2>1
  <2>2. ASSUME NEW h \in Codes, codes[h].status = "free", NEW row,
               codes' = [codes EXCEPT ![h] = row]
        PROVE  CodePersists(g)
    <3>1. codes[g].status # "free" => codes'[g] = codes[g]
      BY <2>2 DEF IndInv, TypeOK
    <3> QED
      BY <3>1
  <2> QED
    BY <1>2, <2>1, <2>2 DEF InsertAuthorizationCode
<1>3. ASSUME NEW r \in Requests, DeleteCode(r)
      PROVE  CodePersists(g)
  <2>1. req[r].code \in Codes
    BY <1>3 DEF DeleteCode, IndInv, RequestShape, HandlerShape, At, ExchangePCs
  <2>2. CASE codes' = [codes EXCEPT ![req[r].code] = [codes[req[r].code] EXCEPT !.status = "gone"]]
    <3>1. codes'[g] = codes[g] \/ codes'[g] = [codes[g] EXCEPT !.status = "gone"]
      BY <2>1, <2>2 DEF IndInv, TypeOK
    <3>2. codes'[g] = [codes[g] EXCEPT !.status = "gone"] => CodePersists(g)
      BY <1>0 DEF CodeRow
    <3> QED
      BY <3>1, <3>2
  <2> QED
    BY <1>1, <1>3, <2>2 DEF DeleteCode
<1>4. ASSUME NEW u \in Users, DeleteUser(u)
      PROVE  CodePersists(g)
  <2>1. codes'[g] = codes[g] \/ codes'[g] = [codes[g] EXCEPT !.status = "gone"]
    BY <1>4 DEF DeleteUser
  <2>2. codes'[g] = [codes[g] EXCEPT !.status = "gone"] => CodePersists(g)
    BY <1>0 DEF CodeRow
  <2> QED
    BY <2>1, <2>2
<1>5. ASSUME NEW r \in Requests, Arrive(r)
      PROVE  codes' = codes
  BY <1>5 DEF Arrive, BeginConsent, BeginExchange, BeginRefresh, BeginRevoke, Begin
<1>6. ASSUME NEW r \in Requests, Resume(r), ~InsertAuthorizationCode(r), ~DeleteCode(r)
      PROVE  codes' = codes
  BY <1>6 DEF Resume, ConsentCheckArchive, ExchangeCheckArchive, CheckArchive, SelectCode,
       ExchangeClaims, InsertRefreshToken, RefreshCheckArchive, LookupRefreshToken,
       RefreshClaims, TakeForRotation, RevokeRefreshToken
<1>7. ASSUME NEW r \in Requests, Crash(r)
      PROVE  codes' = codes
  BY <1>7 DEF Crash
<1>8. CASE Tick
  BY <1>1, <1>8 DEF Tick
<1>9. CASE Administer
  BY <1>1, <1>4, <1>9 DEF Administer, ArchiveTenant, UnarchiveTenant, SetUserStatus,
       DeleteClient, UpdateClient, EnableClient
<1>10. CASE UNCHANGED vars
  BY <1>1, <1>10 DEF vars
<1> QED
  BY <1>1, <1>2, <1>3, <1>5, <1>6, <1>7, <1>8, <1>9, <1>10 DEF Next

-----------------------------------------------------------------------------
(* The invariants about the table of tokens. *)

\* Links go from retired tokens to stored ones: only a rotation sets one.
LEMMA NextLinkShape == IndInv /\ [Next]_vars => LinkShape'
<1> SUFFICES ASSUME IndInv, [Next]_vars, NEW x \in Tokens, tokens'[x].replacedBy # None
             PROVE  /\ tokens'[x].stored /\ tokens'[x].revoked
                    /\ tokens'[tokens'[x].replacedBy].stored
  BY DEF LinkShape
<1>0. TypeOK' /\ tokens[x] \in TokenRow /\ tokens'[x] \in TokenRow
  BY NextType DEF IndInv, TypeOK
<1>1. tokens'[x].replacedBy \in Tokens
  BY <1>0 DEF TokenRow
<1>2. CASE tokens[x].replacedBy # None
  <2>1. tokens[x].replacedBy \in Tokens /\ tokens[x].stored /\ tokens[x].revoked
        /\ tokens[tokens[x].replacedBy].stored
    BY <1>0, <1>2 DEF TokenRow, IndInv, LinkShape
  <2>2. tokens'[x].replacedBy = tokens[x].replacedBy
    BY <2>1, LinksKept DEF KeepsLinks
  <2> QED
    BY <2>1, <2>2, RowsPersist DEF Persists
<1>3. CASE tokens[x].replacedBy = None
  <2>1. ASSUME NEW r \in Requests, NEW t \in Tokens, Inserts(r, t)
        PROVE  FALSE
    BY <1>3, <2>1, InsertRows DEF IndInv
  <2>2. ASSUME NEW r \in Requests, NEW t \in Tokens, NEW n \in Tokens, Rotates(r, t, n)
        PROVE  x = t /\ tokens'[x] = Retired(t, n) /\ tokens'[n] = Replacement(r, t)
    <3>1. tokens'[n].replacedBy = None
      BY <2>2, RotateRows, ReplacementRow
    <3> QED
      BY <1>3, <2>2, <3>1, RotateRows
  <2>3. ASSUME NEW r \in Requests, NEW t \in Tokens, Replay(r, t) \/ Revokes(r, t)
        PROVE  FALSE
    BY <1>3, <2>3, RevokedRows DEF Replay, Revokes, IndInv
  <2>4. PICK r \in Requests, t \in Tokens, n \in Tokens : Rotates(r, t, n)
    BY <1>3, <2>1, <2>3, TokenSteps
  <2>5. /\ tokens'[x].stored = tokens[t].stored /\ tokens'[x].revoked
        /\ tokens'[x].replacedBy = n
    BY <2>2, <2>4, RetiredRow DEF IndInv
  <2>6. tokens'[n].stored
    BY <2>2, <2>4, ReplacementRow
  <2>7. tokens[t].stored
    BY <2>4, RotateRows DEF Live
  <2> QED
    BY <2>5, <2>6, <2>7
<1> QED
  BY <1>2, <1>3

\* A token usable after a step was usable before it, or is new: the first of a grant that
\* had none, or the replacement of the grant's usable token, which is retired.
LEMMA LiveTokens ==
  ASSUME IndInv, [Next]_vars, NEW x \in Tokens, Live(x)'
  PROVE  \/ Live(x) /\ tokens'[x].origin = tokens[x].origin
         \/ /\ ~tokens[x].stored
            /\ \A y \in Tokens : tokens[y].stored => tokens[y].origin # tokens'[x].origin
            /\ \A y \in Tokens \ {x} : tokens'[y] = tokens[y]
            /\ burned' = burned
         \/ \E t \in Tokens : /\ ~tokens[x].stored /\ x # t
                              /\ Live(t) /\ ~Live(t)'
                              /\ tokens'[x].origin = tokens[t].origin
                              /\ tokens'[t].replacedBy = x
                              /\ \A y \in Tokens \ {x, t} : tokens'[y] = tokens[y]
                              /\ burned' = burned
<1>1. CASE tokens' = tokens
  BY <1>1 DEF Live
<1>2. ASSUME NEW r \in Requests, NEW t \in Tokens, Inserts(r, t)
      PROVE  \/ Live(x) /\ tokens'[x].origin = tokens[x].origin
             \/ /\ ~tokens[x].stored
                /\ \A y \in Tokens : tokens[y].stored => tokens[y].origin # tokens'[x].origin
                /\ \A y \in Tokens \ {x} : tokens'[y] = tokens[y]
                /\ burned' = burned
  <2>1. CASE x = t
    <3>1. ~tokens[x].stored /\ burned' = burned /\ Redeeming(r)
      BY <1>2, <2>1 DEF Inserts, Redeeming
    <3>2. tokens'[x].origin = req[r].code /\ \A y \in Tokens \ {x} : tokens'[y] = tokens[y]
      BY <1>2, <2>1, InsertRows DEF IndInv
    <3>3. \A y \in Tokens : tokens[y].stored => tokens[y].origin # req[r].code
      BY <3>1 DEF IndInv, SingleRedemption, Stems
    <3> QED
      BY <3>1, <3>2, <3>3
  <2>2. CASE x # t
    <3>1. tokens'[x] = tokens[x]
      BY <1>2, <2>2, InsertRows DEF IndInv
    <3> QED
      BY <3>1 DEF Live
  <2> QED
    BY <2>1, <2>2
<1>3. ASSUME NEW r \in Requests, NEW t \in Tokens, NEW n \in Tokens, Rotates(r, t, n)
      PROVE  \/ Live(x) /\ tokens'[x].origin = tokens[x].origin
             \/ /\ ~tokens[x].stored /\ x # t
                /\ Live(t) /\ ~Live(t)'
                /\ tokens'[x].origin = tokens[t].origin
                /\ tokens'[t].replacedBy = x
                /\ \A y \in Tokens \ {x, t} : tokens'[y] = tokens[y]
                /\ burned' = burned
  <2>1. /\ t # n /\ Live(t) /\ ~tokens[n].stored /\ tokens'[t] = Retired(t, n)
        /\ tokens'[n] = Replacement(r, t)
        /\ \A y \in Tokens \ {t, n} : tokens'[y] = tokens[y]
    BY <1>3, RotateRows
  <2>2. tokens'[t].revoked /\ tokens'[t].replacedBy = n
    BY <2>1, RetiredRow DEF IndInv
  <2>3. CASE x = n
    <3>1. Live(t) /\ ~Live(t)' /\ ~tokens[x].stored /\ x # t /\ burned' = burned
      BY <1>3, <2>1, <2>2, <2>3 DEF Rotates, Live
    <3>2. tokens'[x].origin = tokens[t].origin
      BY <2>1, <2>3, ReplacementRow
    <3> QED
      BY <2>1, <2>2, <2>3, <3>1, <3>2
  <2>4. CASE x = t
    BY <2>2, <2>4 DEF Live
  <2>5. CASE x # n /\ x # t
    BY <2>1, <2>5 DEF Live
  <2> QED
    BY <2>3, <2>4, <2>5
<1>4. ASSUME NEW r \in Requests, NEW t \in Tokens, Replay(r, t) \/ Revokes(r, t)
      PROVE  Live(x) /\ tokens'[x].origin = tokens[x].origin
  BY <1>4, RevokedRows DEF Replay, Revokes, IndInv, Live
<1> QED
  BY <1>1, <1>2, <1>3, <1>4, TokenSteps

\* A token becomes usable only where the grant had none, or as its usable one retires.
LEMMA NextOneLive == IndInv /\ [Next]_vars => OneLiveTokenPerGrant'
<1> SUFFICES ASSUME IndInv, [Next]_vars, NEW x \in Tokens, NEW y \in Tokens,
                    Live(x)', Live(y)', tokens'[x].origin = tokens'[y].origin
             PROVE  x = y
  BY DEF OneLiveTokenPerGrant
<1>1. CASE Live(x) /\ Live(y)
  <2>1. tokens'[x].origin = tokens[x].origin /\ tokens'[y].origin = tokens[y].origin
    BY <1>1, RowsPersist DEF Persists, Live
  <2> QED
    BY <1>1, <2>1 DEF IndInv, OneLiveTokenPerGrant
<1>2. ASSUME NEW a \in Tokens, NEW b \in Tokens, Live(a)', Live(b)', ~Live(a), a # b,
             tokens'[a].origin = tokens'[b].origin
      PROVE  FALSE
  <2>1. CASE /\ \A z \in Tokens : tokens[z].stored => tokens[z].origin # tokens'[a].origin
             /\ \A z \in Tokens \ {a} : tokens'[z] = tokens[z]
    BY <1>2, <2>1 DEF Live
  <2>2. ASSUME NEW t \in Tokens, Live(t), ~Live(t)', tokens'[a].origin = tokens[t].origin,
               \A z \in Tokens \ {a, t} : tokens'[z] = tokens[z]
        PROVE  FALSE
    <3>1. b # t /\ tokens'[b] = tokens[b]
      BY <1>2, <2>2
    <3>2. Live(b) /\ tokens[b].origin = tokens[t].origin
      BY <1>2, <2>2, <3>1 DEF Live
    <3> QED
      BY <2>2, <3>1, <3>2 DEF IndInv, OneLiveTokenPerGrant
  <2> QED
    BY <1>2, <2>1, <2>2, LiveTokens
<1> QED
  BY <1>1, <1>2

\* A rotation lengthens every chain that led to the token it retires by its replacement.
LEMMA NextReachable == IndInv /\ [Next]_vars => LiveReachable'
<1> SUFFICES ASSUME IndInv, [Next]_vars, NEW x \in Tokens, NEW l \in Tokens,
                    tokens'[x].stored, tokens'[x].revoked, Live(l)',
                    tokens'[l].origin = tokens'[x].origin
             PROVE  l \in Successors(x)'
  BY DEF LiveReachable
<1>0. Successors(x) \subseteq Successors(x)'
  BY LinksKept, SuccessorsGrow
<1>1. CASE Live(l) /\ tokens'[l].origin = tokens[l].origin
  \* l was usable already, so x was retired already.
  <2>1. x # l
    BY DEF Live
  <2>2. tokens[x].stored
    <3>1. SUFFICES ASSUME ~tokens[x].stored PROVE FALSE
      OBVIOUS
    <3>2. ASSUME NEW r \in Requests, NEW t \in Tokens, Inserts(r, t)
          PROVE  FALSE
      BY <3>1, <3>2, InsertRows DEF IndInv
    <3>3. ASSUME NEW r \in Requests, NEW t \in Tokens, NEW n \in Tokens, Rotates(r, t, n)
          PROVE  FALSE
      <4>1. /\ Live(t) /\ tokens'[n] = Replacement(r, t)
            /\ \A y \in Tokens \ {t, n} : tokens'[y] = tokens[y]
        BY <3>3, RotateRows
      <4>2. x = n
        BY <3>1, <4>1 DEF Live
      <4> QED
        BY <4>1, <4>2, ReplacementRow
    <3>4. ASSUME NEW r \in Requests, NEW t \in Tokens, Replay(r, t) \/ Revokes(r, t)
          PROVE  FALSE
      BY <3>1, <3>4, RevokedRows DEF Replay, Revokes, IndInv
    <3> QED
      BY <3>1, <3>2, <3>3, <3>4, TokenSteps
  <2>3. tokens'[x].origin = tokens[x].origin
    BY <2>2, RowsPersist DEF Persists
  <2>4. tokens[x].revoked
    BY <1>1, <2>1, <2>2, <2>3 DEF IndInv, OneLiveTokenPerGrant, Live
  <2>5. l \in Successors(x)
    BY <1>1, <2>2, <2>3, <2>4 DEF IndInv, LiveReachable
  <2> QED
    BY <1>0, <2>5
<1>2. CASE /\ ~tokens[l].stored
           /\ \A y \in Tokens : tokens[y].stored => tokens[y].origin # tokens'[l].origin
           /\ \A y \in Tokens \ {l} : tokens'[y] = tokens[y]
  BY <1>2 DEF Live
<1>3. ASSUME NEW t \in Tokens, ~tokens[l].stored, l # t, Live(t),
             tokens'[l].origin = tokens[t].origin, tokens'[t].replacedBy = l,
             \A y \in Tokens \ {l, t} : tokens'[y] = tokens[y]
      PROVE  l \in Successors(x)'
  \* l replaced t, which the links from x reached.
  <2>1. CASE x = t
    <3>1. Successors(x)' = Family(l)'
      BY <1>3, <2>1 DEF Successors
    <3>2. l \in Family(l)'
      BY DEF Family
    <3> QED
      BY <3>1, <3>2
  <2>2. CASE x # t
    <3>1. x # l
      BY DEF Live
    <3>2. tokens'[x] = tokens[x]
      BY <1>3, <2>2, <3>1
    <3>3. t \in Successors(x)
      BY <1>3, <3>2 DEF IndInv, LiveReachable
    <3>4. t \in Successors(x)'
      BY <1>0, <3>3
    <3>5. tokens'[x].replacedBy \in Tokens /\ t \in Family(tokens[x].replacedBy)'
      BY <3>2, <3>4 DEF Successors
    <3>6. l \in Family(tokens[x].replacedBy)'
      BY <1>3, <3>5 DEF Family, FollowsReplacements
    <3> QED
      BY <3>2, <3>5, <3>6 DEF Successors
  <2> QED
    BY <2>1, <2>2
<1> QED
  BY <1>1, <1>2, <1>3, LiveTokens

\* What a replay or a revocation adds to burned is the grant of the token presented.
LEMMA BurnedSteps ==
  ASSUME IndInv, [Next]_vars, NEW g \in burned', g \notin burned
  PROVE  \E r \in Requests, t \in Tokens :
           /\ tokens[t].origin = g /\ OwnedBy(t, req[r].client)
           /\ \/ tokens[t].revoked /\ tokens' = Revoked(Successors(t), req[r].client)
              \/ tokens' = Revoked(Family(t), req[r].client)
<1>1. ASSUME NEW r \in Requests, NEW t \in Tokens, Inserts(r, t)
      PROVE  FALSE
  BY <1>1 DEF Inserts
<1>2. ASSUME NEW r \in Requests, NEW t \in Tokens, NEW n \in Tokens, Rotates(r, t, n)
      PROVE  FALSE
  BY <1>2 DEF Rotates
<1>3. ASSUME NEW r \in Requests, NEW t \in Tokens, Replay(r, t)
      PROVE  /\ tokens[t].origin = g /\ OwnedBy(t, req[r].client)
             /\ tokens[t].revoked /\ tokens' = Revoked(Successors(t), req[r].client)
  BY <1>3 DEF Replay
<1>4. ASSUME NEW r \in Requests, NEW t \in Tokens, Revokes(r, t)
      PROVE  /\ tokens[t].origin = g /\ OwnedBy(t, req[r].client)
             /\ tokens' = Revoked(Family(t), req[r].client)
  BY <1>4 DEF Revokes
<1> QED
  BY <1>1, <1>2, <1>3, <1>4, TokenSteps

\* A grant is burned through one of its tokens.
LEMMA NextBurnedHasToken == IndInv /\ [Next]_vars => BurnedHasToken'
<1> SUFFICES ASSUME IndInv, [Next]_vars, NEW g \in burned'
             PROVE  \E t \in Tokens : Stems(t, g)'
  BY DEF BurnedHasToken
<1>1. PICK t \in Tokens : Stems(t, g)
  BY BurnedSteps DEF IndInv, BurnedHasToken, Stems, OwnedBy
<1> QED
  BY <1>1, RowsPersist DEF Persists, Stems

\* A replay reaches the grant's usable token by the links; a revocation starts at it or
\* before it.  Neither leaves one that a rotation could continue.
LEMMA NextBurnedDead == IndInv /\ [Next]_vars => BurnedGrantStaysDead'
<1> SUFFICES ASSUME IndInv, [Next]_vars, NEW x \in Tokens, Live(x)',
                    tokens'[x].origin \in burned'
             PROVE  FALSE
  BY DEF BurnedGrantStaysDead, Live
<1>1. CASE tokens'[x].origin \in burned
  <2>1. CASE Live(x) /\ tokens'[x].origin = tokens[x].origin
    BY <1>1, <2>1 DEF IndInv, BurnedGrantStaysDead, Live
  <2>2. CASE \A y \in Tokens : tokens[y].stored => tokens[y].origin # tokens'[x].origin
    BY <1>1, <2>2 DEF IndInv, BurnedHasToken, Stems
  <2>3. ASSUME NEW t \in Tokens, Live(t), tokens'[x].origin = tokens[t].origin
        PROVE  FALSE
    BY <1>1, <2>3 DEF IndInv, BurnedGrantStaysDead, Live
  <2> QED
    BY <2>1, <2>2, <2>3, LiveTokens
<1>2. CASE tokens'[x].origin \notin burned
  \* The grant was burned by this step, which therefore revoked x.
  <2>1. PICK r \in Requests, t \in Tokens :
          /\ tokens[t].origin = tokens'[x].origin /\ OwnedBy(t, req[r].client)
          /\ \/ tokens[t].revoked /\ tokens' = Revoked(Successors(t), req[r].client)
             \/ tokens' = Revoked(Family(t), req[r].client)
    BY <1>2, BurnedSteps
  <2>2. /\ tokens'[x].origin = tokens[x].origin /\ tokens[x].client = tokens'[x].client
        /\ Live(x)
    BY <2>1, RevokedRows DEF IndInv, Live
  <2>3. OwnedBy(x, req[r].client)
    BY <2>1, <2>2 DEF IndInv, WithinConsent, OwnedBy, Live
  <2>4. CASE tokens[t].revoked
    <3>1. x \in Successors(t)
      BY <2>1, <2>2, <2>4 DEF IndInv, LiveReachable, OwnedBy
    <3>2. x \in Family(t)
      BY <3>1, SuccessorsInFamily
    <3> QED
      BY <2>1, <2>3, <3>1, <3>2, RevokedRows DEF IndInv, Live
  <2>5. CASE ~tokens[t].revoked
    <3>1. x = t /\ x \in Family(t)
      BY <2>1, <2>2, <2>5, FamilyReflexive DEF IndInv, OneLiveTokenPerGrant, OwnedBy, Live
    <3> QED
      BY <2>1, <2>3, <2>5, <3>1, RevokedRows DEF IndInv, Live
  <2> QED
    BY <2>4, <2>5
<1> QED
  BY <1>1, <1>2

-----------------------------------------------------------------------------
(* The invariants about codes and about requests. *)

\* Only the consent page takes a code out of the supply.
LEMMA CodeInserted ==
  ASSUME IndInv, [Next]_vars, NEW g \in Codes,
         codes[g].status = "free", codes'[g].status # "free"
  PROVE  \E r \in Requests : InsertAuthorizationCode(r)
<1>1. ASSUME NEW r \in Requests, DeleteCode(r)
      PROVE  FALSE
  <2>1. req[r].code \in Codes
    BY <1>1 DEF DeleteCode, IndInv, RequestShape, HandlerShape, At, ExchangePCs
  <2>2. codes[req[r].code].status = "stored"
        /\ codes' = [codes EXCEPT ![req[r].code] = [codes[req[r].code] EXCEPT !.status = "gone"]]
    BY <1>1 DEF DeleteCode, DeletionWins
  <2> QED
    BY <2>1, <2>2 DEF IndInv, TypeOK
<1>2. ASSUME NEW u \in Users, DeleteUser(u)
      PROVE  FALSE
  BY <1>2 DEF DeleteUser
<1>3. ASSUME NEW r \in Requests, Arrive(r)
      PROVE  codes' = codes
  BY <1>3 DEF Arrive, BeginConsent, BeginExchange, BeginRefresh, BeginRevoke, Begin
<1>4. ASSUME NEW r \in Requests, Resume(r), ~InsertAuthorizationCode(r), ~DeleteCode(r)
      PROVE  codes' = codes
  BY <1>4 DEF Resume, ConsentCheckArchive, ExchangeCheckArchive, CheckArchive, SelectCode,
       ExchangeClaims, InsertRefreshToken, RefreshCheckArchive, LookupRefreshToken,
       RefreshClaims, TakeForRotation, RevokeRefreshToken
<1>5. ASSUME NEW r \in Requests, Crash(r)
      PROVE  codes' = codes
  BY <1>5 DEF Crash
<1>6. CASE Tick
  BY <1>6 DEF Tick
<1>7. CASE Administer
  BY <1>2, <1>7 DEF Administer, ArchiveTenant, UnarchiveTenant, SetUserStatus,
       DeleteClient, UpdateClient, EnableClient
<1>8. CASE UNCHANGED vars
  BY <1>8 DEF vars
<1> QED
  BY <1>1, <1>3, <1>4, <1>5, <1>6, <1>7, <1>8 DEF Next

\* A code is issued to a client and a user, with a scope.
LEMMA NextCodeShape == IndInv /\ [Next]_vars => CodeShape'
<1> SUFFICES ASSUME IndInv, [Next]_vars, NEW g \in Codes, codes'[g].status # "free"
             PROVE  /\ codes'[g].client \in Clients /\ codes'[g].user \in Users
                    /\ codes'[g].scope # {}
  BY DEF CodeShape
<1>1. CASE codes[g].status # "free"
  BY <1>1, CodesPersist DEF IndInv, CodeShape, CodePersists
<1>2. ASSUME NEW r \in Requests, InsertAuthorizationCode(r), codes[g].status = "free"
      PROVE  /\ codes'[g].client = req[r].client /\ codes'[g].user = req[r].user
             /\ codes'[g].scope = req[r].scope
  <2>1. CASE UNCHANGED codes
    BY <1>2, <2>1
  <2>2. ASSUME NEW h \in Codes,
               codes' = [codes EXCEPT ![h] =
                  [status |-> "stored", client |-> req[r].client, user |-> req[r].user,
                   scope |-> req[r].scope, expires |-> now + req[r].cfg.codeTtl]]
        PROVE  /\ codes'[g].client = req[r].client /\ codes'[g].user = req[r].user
               /\ codes'[g].scope = req[r].scope
    <3>1. h = g
      BY <1>2, <2>2 DEF IndInv, TypeOK
    <3> QED
      BY <2>2, <3>1 DEF IndInv, TypeOK
  <2> QED
    BY <1>2, <2>1, <2>2 DEF InsertAuthorizationCode
<1>3. ASSUME NEW r \in Requests, InsertAuthorizationCode(r)
      PROVE  req[r].client \in Clients /\ req[r].user \in Users /\ req[r].scope # {}
  BY <1>3 DEF InsertAuthorizationCode, IndInv, RequestShape, HandlerShape, At, ConsentPCs
<1>4. CASE codes[g].status = "free"
  <2>1. PICK r \in Requests : InsertAuthorizationCode(r)
    BY <1>4, CodeInserted
  <2> QED
    BY <1>2, <1>3, <1>4, <2>1
<1> QED
  BY <1>1, <1>4

\* y is a stored row whose grant, owner and expiry the row x inherits, with a scope of y's.
Inherits(x, y) ==
  /\ tokens[y].stored /\ tokens'[x].origin = tokens[y].origin
  /\ tokens'[x].client = tokens[y].client /\ tokens'[x].user = tokens[y].user
  /\ tokens'[x].expires = tokens[y].expires
  /\ tokens'[x].scope # {} /\ tokens'[x].scope \subseteq tokens[y].scope

\* A row stored after a step inherits from one stored before it, or a code exchange
\* inserted it.
LEMMA Ancestors ==
  ASSUME IndInv, [Next]_vars, NEW x \in Tokens, tokens'[x].stored
  PROVE  \/ \E y \in Tokens : Inherits(x, y)
         \/ \E r \in Requests : Inserts(r, x)
<1>1. CASE tokens[x].stored
  <2>1. Persists(x)
    BY RowsPersist
  <2>2. tokens[x].scope # {}
    BY <1>1 DEF IndInv, WithinConsent
  <2> QED
    BY <1>1, <2>1, <2>2 DEF Persists, Inherits
<1>2. ASSUME NEW r \in Requests, NEW t \in Tokens, Inserts(r, t), ~tokens[x].stored
      PROVE  Inserts(r, x)
  <2>1. x = t
    BY <1>2, InsertRows DEF IndInv
  <2> QED
    BY <1>2, <2>1
<1>3. ASSUME NEW r \in Requests, NEW t \in Tokens, NEW n \in Tokens, Rotates(r, t, n),
             ~tokens[x].stored
      PROVE  Inherits(x, t)
  <2>1. /\ Live(t) /\ tokens[t].client = req[r].client /\ tokens'[n] = Replacement(r, t)
        /\ \A y \in Tokens \ {t, n} : tokens'[y] = tokens[y]
    BY <1>3, RotateRows
  <2>2. x = n
    BY <1>3, <2>1 DEF Live
  <2>3. req[r].scope # {} /\ req[r].scope \subseteq tokens[t].scope
    BY <1>3 DEF Rotates, Rotatable, IndInv, RequestShape, HandlerShape
  <2> QED
    BY <2>1, <2>2, <2>3, ReplacementRow DEF Inherits, Live
<1>4. ASSUME NEW r \in Requests, NEW t \in Tokens, Replay(r, t) \/ Revokes(r, t),
             ~tokens[x].stored
      PROVE  FALSE
  BY <1>4, RevokedRows DEF Replay, Revokes, IndInv
<1>5. CASE tokens' = tokens /\ ~tokens[x].stored
  BY <1>5
<1> QED
  BY <1>1, <1>2, <1>3, <1>4, <1>5, TokenSteps

\* What a handler about to insert the first token knows of its code.
LEMMA InsertFacts ==
  ASSUME IndInv, NEW r \in Requests, NEW x \in Tokens, Inserts(r, x)
  PROVE  /\ req[r].code \in Codes /\ codes[req[r].code].status = "gone"
         /\ codes[req[r].code].client = req[r].client
         /\ codes[req[r].code].scope # {}
         /\ \A y \in Tokens : tokens[y].stored => tokens[y].origin # req[r].code
<1>1. At(r, "exchangeInsert") /\ Redeeming(r)
  BY DEF Inserts, Redeeming
<1>2. req[r].code \in Codes /\ codes[req[r].code].client = req[r].client
  BY <1>1 DEF IndInv, RequestShape, HandlerShape, At, ExchangePCs
<1>3. /\ codes[req[r].code].status = "gone"
      /\ \A y \in Tokens : tokens[y].stored => tokens[y].origin # req[r].code
  BY <1>1 DEF IndInv, SingleRedemption, Stems
<1>4. codes[req[r].code].scope # {}
  BY <1>2, <1>3 DEF IndInv, CodeShape
<1> QED
  BY <1>2, <1>3, <1>4

\* A first token copies its code; a replacement stays within the token it replaces.
LEMMA NextWithinConsent == IndInv /\ [Next]_vars => WithinConsent'
<1> SUFFICES ASSUME IndInv, [Next]_vars, NEW x \in Tokens, tokens'[x].stored,
                    NEW g, g = tokens'[x].origin
             PROVE  /\ g \in Codes /\ codes'[g].status = "gone"
                    /\ tokens'[x].client = codes'[g].client
                    /\ tokens'[x].user = codes'[g].user
                    /\ tokens'[x].scope # {} /\ tokens'[x].scope \subseteq codes'[g].scope
  BY DEF WithinConsent
<1>1. /\ g \in Codes /\ codes[g].status = "gone"
      /\ tokens'[x].client = codes[g].client
      /\ tokens'[x].user = codes[g].user
      /\ tokens'[x].scope # {} /\ tokens'[x].scope \subseteq codes[g].scope
  <2>1. ASSUME NEW y \in Tokens, Inherits(x, y)
        PROVE  /\ g \in Codes /\ codes[g].status = "gone"
               /\ tokens'[x].client = codes[g].client
               /\ tokens'[x].user = codes[g].user
               /\ tokens'[x].scope # {} /\ tokens'[x].scope \subseteq codes[g].scope
    BY <2>1 DEF Inherits, IndInv, WithinConsent
  <2>2. ASSUME NEW r \in Requests, Inserts(r, x)
        PROVE  /\ g \in Codes /\ codes[g].status = "gone"
               /\ tokens'[x].client = codes[g].client
               /\ tokens'[x].user = codes[g].user
               /\ tokens'[x].scope # {} /\ tokens'[x].scope \subseteq codes[g].scope
    BY <2>2, InsertFacts, InsertRows DEF IndInv
  <2> QED
    BY <2>1, <2>2, Ancestors
<1>2. CodePersists(g)
  BY <1>1, CodesPersist
<1> QED
  BY <1>1, <1>2 DEF CodePersists

\* The expiry of a grant is set by its first token and inherited by the others.
LEMMA NextAbsoluteExpiry == IndInv /\ [Next]_vars => AbsoluteExpiry'
<1> SUFFICES ASSUME IndInv, [Next]_vars, NEW x \in Tokens, NEW y \in Tokens,
                    tokens'[x].stored, tokens'[y].stored, tokens'[x].origin = tokens'[y].origin
             PROVE  tokens'[x].expires = tokens'[y].expires
  BY DEF AbsoluteExpiry
<1>1. ASSUME NEW a \in Tokens, NEW b \in Tokens, Inherits(x, a), Inherits(y, b)
      PROVE  tokens'[x].expires = tokens'[y].expires
  BY <1>1 DEF Inherits, IndInv, AbsoluteExpiry
<1>2. ASSUME NEW v \in Tokens, NEW w \in Tokens, NEW r \in Requests, Inserts(r, v),
             tokens'[w].stored, tokens'[v].origin = tokens'[w].origin
      PROVE  v = w
  <2>1. /\ tokens'[v].origin = req[r].code
        /\ \A z \in Tokens \ {v} : tokens'[z] = tokens[z]
    BY <1>2, InsertRows DEF IndInv
  <2> QED
    BY <1>2, <2>1, InsertFacts
<1> QED
  BY <1>1, <1>2, Ancestors

-----------------------------------------------------------------------------
(* What a step does to a handler. *)

SameHandler(r) ==
  /\ req'[r].pc = req[r].pc /\ req'[r].client = req[r].client /\ req'[r].cfg = req[r].cfg
  /\ req'[r].user = req[r].user /\ req'[r].code = req[r].code /\ req'[r].token = req[r].token
  /\ req'[r].scope = req[r].scope

\* A step of one handler leaves the others alone.
LEMMA OthersKept ==
  ASSUME TypeOK, NEW q \in Requests, Arrive(q) \/ Resume(q) \/ Crash(q),
         NEW r \in Requests, r # q
  PROVE  req'[r] = req[r]
<1> USE DEF TypeOK
<1>1. ASSUME NEW pc, NEW c, NEW request, Begin(q, pc, c, request)
      PROVE  req'[r] = req[r]
  BY <1>1 DEF Begin
<1>2. CASE Arrive(q)
  BY <1>1, <1>2 DEF Arrive, BeginConsent, BeginExchange, BeginRefresh, BeginRevoke
<1>3. ASSUME NEW from, NEW allowed, NEW to, CheckArchive(q, from, allowed, to)
      PROVE  req'[r] = req[r]
  BY <1>3 DEF CheckArchive, Goto, Finish
<1>4. CASE Finish(q)
  BY <1>4 DEF Finish
<1>5. ASSUME NEW pc, Goto(q, pc)
      PROVE  req'[r] = req[r]
  BY <1>5 DEF Goto
<1>6. ASSUME NEW scope, NEW pc, SetScope(q, scope, pc)
      PROVE  req'[r] = req[r]
  BY <1>6 DEF SetScope
<1>7. CASE ConsentCheckArchive(q) \/ ExchangeCheckArchive(q) \/ RefreshCheckArchive(q)
  BY <1>3, <1>7 DEF ConsentCheckArchive, ExchangeCheckArchive, RefreshCheckArchive
<1>8. CASE LookupRefreshToken(q)
  BY <1>4, <1>6, <1>8 DEF LookupRefreshToken
<1>9. CASE SelectCode(q) \/ DeleteCode(q) \/ ExchangeClaims(q) \/ RefreshClaims(q)
  BY <1>4, <1>5, <1>9 DEF SelectCode, DeleteCode, ExchangeClaims, RefreshClaims
<1>10. CASE \/ InsertAuthorizationCode(q) \/ InsertRefreshToken(q) \/ TakeForRotation(q)
            \/ RevokeRefreshToken(q) \/ Crash(q)
  BY <1>4, <1>10 DEF InsertAuthorizationCode, InsertRefreshToken, TakeForRotation,
     RevokeRefreshToken, Crash
<1> QED
  BY <1>2, <1>7, <1>8, <1>9, <1>10 DEF Resume

\* What happens around the handlers moves none of them.
LEMMA AroundKept ==
  ASSUME TypeOK, Tick \/ Administer, NEW r \in Requests
  PROVE  SameHandler(r)
<1>1. CASE req' = req
  BY <1>1 DEF SameHandler
<1>2. ASSUME NEW n \in Tenants, ArchiveTenant(n)
      PROVE  SameHandler(r)
  <2>1. req'[r] = [req[r] EXCEPT !.raced = TRUE] \/ req'[r] = req[r]
    BY <1>2 DEF ArchiveTenant
  <2>2. req[r] \in Request
    BY DEF TypeOK
  <2> QED
    BY <2>1, <2>2 DEF SameHandler, Request
<1> QED
  BY <1>1, <1>2 DEF Tick, Administer, UnarchiveTenant, DeleteUser, SetUserStatus,
     DeleteClient, UpdateClient, EnableClient

\* A handler stays, ends, starts, or takes a step that leads to its next statement.
LEMMA HandlerSteps ==
  ASSUME IndInv, [Next]_vars, NEW r \in Requests
  PROVE  \/ SameHandler(r)
         \/ req'[r] = IdleRequest
         \/ Arrive(r)
         \/ ConsentCheckArchive(r) \/ ExchangeCheckArchive(r) \/ RefreshCheckArchive(r)
         \/ SelectCode(r) \/ DeleteCode(r) \/ ExchangeClaims(r)
         \/ LookupRefreshToken(r) \/ RefreshClaims(r)
<1>1. CASE UNCHANGED vars
  BY <1>1 DEF vars, SameHandler
<1>2. CASE Tick \/ Administer
  BY <1>2, AroundKept DEF IndInv
<1>3. ASSUME NEW q \in Requests, q # r, Arrive(q) \/ Resume(q) \/ Crash(q)
      PROVE  SameHandler(r)
  BY <1>3, OthersKept DEF IndInv, SameHandler
<1>4. CASE Finish(r)
  BY <1>4 DEF Finish, IndInv, TypeOK
<1>5. CASE \/ InsertAuthorizationCode(r) \/ InsertRefreshToken(r) \/ TakeForRotation(r)
           \/ RevokeRefreshToken(r) \/ Crash(r)
  BY <1>4, <1>5 DEF InsertAuthorizationCode, InsertRefreshToken, TakeForRotation,
     RevokeRefreshToken, Crash
<1> QED
  BY <1>1, <1>2, <1>3, <1>5 DEF Next, Resume

\* A request that holds a redeemed code held it before the step, or has just deleted it.
LEMMA RedeemingSteps ==
  ASSUME IndInv, [Next]_vars, NEW r \in Requests, Redeeming(r)'
  PROVE  \/ Redeeming(r) /\ req'[r].code = req[r].code
         \/ /\ DeleteCode(r) /\ req'[r].code = req[r].code
            /\ req[r].code \in Codes
            /\ codes[req[r].code].status = "stored" /\ codes'[req[r].code].status = "gone"
<1>1. req'[r].pc = "exchangeClaims" \/ req'[r].pc = "exchangeInsert"
  BY DEF Redeeming, At
<1>2. CASE SameHandler(r)
  BY <1>1, <1>2 DEF SameHandler, Redeeming, At
<1>3. CASE req'[r] = IdleRequest
  BY <1>1, <1>3 DEF IdleRequest
<1>4. CASE Arrive(r)
  <2>1. ASSUME NEW pc, NEW c, NEW request \in Request, Begin(r, pc, c, request)
        PROVE  req'[r].pc = pc
    BY <2>1 DEF Begin, IndInv, TypeOK, Request
  <2>2. \A c \in Clients, u \in Users, scope \in SUBSET Scopes :
          [IdleRequest EXCEPT !.user = u, !.scope = scope] \in Request
    BY IdleTyped DEF Request
  <2>3. \A g \in Codes, proof \in BOOLEAN : [IdleRequest EXCEPT !.code = g, !.proof = proof] \in Request
    BY IdleTyped DEF Request
  <2>4. \A t \in Tokens, scope \in SUBSET Scopes :
          [IdleRequest EXCEPT !.token = t, !.scope = scope] \in Request
    BY IdleTyped DEF Request
  <2>5. \A t \in Tokens : [IdleRequest EXCEPT !.token = t] \in Request
    BY IdleTyped DEF Request
  <2> QED
    BY <1>1, <1>4, <2>1, <2>2, <2>3, <2>4, <2>5
    DEF Arrive, BeginConsent, BeginExchange, BeginRefresh, BeginRevoke
<1>5. ASSUME NEW pc, Goto(r, pc)
      PROVE  req'[r].pc = pc /\ req'[r].code = req[r].code
  <2>1. req[r] \in Request /\ req'[r] = [req[r] EXCEPT !.pc = pc]
    BY <1>5 DEF Goto, IndInv, TypeOK
  <2> QED
    BY <2>1 DEF Request
<1>6. ASSUME Finish(r)
      PROVE  FALSE
  BY <1>1, <1>6 DEF Finish, IdleRequest, IndInv, TypeOK
<1>7. CASE ConsentCheckArchive(r) \/ ExchangeCheckArchive(r) \/ RefreshCheckArchive(r)
  BY <1>1, <1>5, <1>6, <1>7
  DEF ConsentCheckArchive, ExchangeCheckArchive, RefreshCheckArchive, CheckArchive
<1>8. CASE SelectCode(r) \/ RefreshClaims(r)
  BY <1>1, <1>5, <1>6, <1>8 DEF SelectCode, RefreshClaims
<1>9. CASE LookupRefreshToken(r)
  <2>1. ASSUME NEW scope, NEW pc, SetScope(r, scope, pc)
        PROVE  req'[r].pc = pc
    <3>1. req[r] \in Request /\ req'[r] = [req[r] EXCEPT !.scope = scope, !.pc = pc]
      BY <2>1 DEF SetScope, IndInv, TypeOK
    <3> QED
      BY <3>1 DEF Request
  <2> QED
    BY <1>1, <1>6, <1>9, <2>1 DEF LookupRefreshToken
<1>10. CASE ExchangeClaims(r)
  BY <1>5, <1>6, <1>10 DEF ExchangeClaims, Redeeming
<1>11. CASE DeleteCode(r)
  <2>1. req[r].code \in Codes
    BY <1>11 DEF DeleteCode, IndInv, RequestShape, HandlerShape, At, ExchangePCs
  <2>2. /\ codes[req[r].code].status = "stored"
        /\ codes' = [codes EXCEPT ![req[r].code] = [codes[req[r].code] EXCEPT !.status = "gone"]]
        /\ Goto(r, "exchangeClaims")
    BY <1>6, <1>11 DEF DeleteCode, DeletionWins
  <2>3. codes'[req[r].code].status = "gone"
    BY <2>1, <2>2 DEF IndInv, TypeOK, CodeRow
  <2> QED
    BY <1>5, <1>11, <2>1, <2>2, <2>3
<1> QED
  BY <1>2, <1>3, <1>4, <1>7, <1>8, <1>9, <1>10, <1>11, HandlerSteps

\* Deleting a code is won once, and what was inserted for it ended its request.
LEMMA NextSingleRedemption == IndInv /\ [Next]_vars => SingleRedemption'
<1> SUFFICES ASSUME IndInv, [Next]_vars, NEW r \in Requests, Redeeming(r)',
                    NEW g, g = req[r].code
             PROVE  /\ req'[r].code = g /\ codes'[g].status = "gone"
                    /\ \A s \in Requests : Redeeming(s)' /\ req'[s].code = g => s = r
                    /\ \A t \in Tokens : ~(tokens'[t].stored /\ tokens'[t].origin = g)
  BY RedeemingSteps DEF SingleRedemption, Stems
<1>1. g \in Codes /\ req'[r].code = g
  BY RedeemingSteps DEF IndInv, RequestShape, HandlerShape, At, Redeeming, ExchangePCs
<1>2. CASE Redeeming(r)
  <2>1. /\ codes[g].status = "gone"
        /\ \A s \in Requests : Redeeming(s) /\ req[s].code = g => s = r
        /\ \A t \in Tokens : ~(tokens[t].stored /\ tokens[t].origin = g)
    BY <1>2 DEF IndInv, SingleRedemption, Stems
  <2>2. codes'[g].status = "gone"
    BY <1>1, <2>1, CodesPersist DEF CodePersists
  <2>3. ASSUME NEW s \in Requests, Redeeming(s)', req'[s].code = g
        PROVE  s = r
    BY <2>1, <2>3, RedeemingSteps
  <2>4. ASSUME NEW t \in Tokens, tokens'[t].stored, tokens'[t].origin = g
        PROVE  FALSE
    <3>1. ASSUME NEW q \in Requests, Inserts(q, t)
          PROVE  FALSE
      <4>1. tokens'[t].origin = req[q].code /\ Redeeming(q)
        BY <3>1, InsertRows DEF IndInv, Inserts, Redeeming
      <4>2. q = r
        BY <2>1, <2>4, <4>1
      <4>3. req'[r] = IdleRequest
        BY <3>1, <4>2 DEF Inserts, Finish, IndInv, TypeOK
      <4> QED
        BY <4>3 DEF Redeeming, At, IdleRequest
    <3> QED
      BY <2>1, <2>4, <3>1, Ancestors DEF Inherits
  <2> QED
    BY <1>1, <2>2, <2>3, <2>4
<1>3. CASE /\ DeleteCode(r)
           /\ codes[g].status = "stored" /\ codes'[g].status = "gone"
  <2>1. ASSUME NEW s \in Requests, Redeeming(s)', req'[s].code = g, s # r
        PROVE  FALSE
    <3>1. req'[s] = req[s]
      BY <1>3, <2>1, OthersKept DEF Resume, IndInv
    <3>2. Redeeming(s) /\ req[s].code = g
      BY <2>1, <3>1 DEF Redeeming, At
    <3> QED
      BY <1>3, <3>2 DEF IndInv, SingleRedemption
  <2>2. ASSUME NEW t \in Tokens, tokens'[t].stored, tokens'[t].origin = g
        PROVE  FALSE
    <3>1. tokens' = tokens
      BY <1>3 DEF DeleteCode
    <3> QED
      BY <1>3, <2>2, <3>1 DEF IndInv, WithinConsent
  <2> QED
    BY <1>1, <1>3, <2>1, <2>2
<1> QED
  BY <1>2, <1>3, RedeemingSteps

-----------------------------------------------------------------------------
(* What a handler knows when it reaches a statement. *)

\* The clock does not go back.
LEMMA ClockGrows ==
  ASSUME IndInv, [Next]_vars
  PROVE  now \in Nat /\ now' \in Nat /\ now <= now'
<1>0. now \in Nat
  BY Constants DEF IndInv, TypeOK, ConstantAssumptions
<1>1. CASE now' = now
  BY <1>0, <1>1
<1>2. CASE Tick
  BY <1>0, <1>2 DEF Tick
<1>3. ASSUME NEW r \in Requests, Arrive(r)
      PROVE  now' = now
  BY <1>3 DEF Arrive, BeginConsent, BeginExchange, BeginRefresh, BeginRevoke, Begin, environment
<1>4. ASSUME NEW r \in Requests, Resume(r) \/ Crash(r)
      PROVE  now' = now
  BY <1>4 DEF Resume, ConsentCheckArchive, ExchangeCheckArchive, RefreshCheckArchive,
     CheckArchive, InsertAuthorizationCode, SelectCode, DeleteCode, ExchangeClaims,
     InsertRefreshToken, LookupRefreshToken, RefreshClaims, TakeForRotation,
     RevokeRefreshToken, Crash, environment
<1>5. CASE Administer
  BY <1>1, <1>5 DEF Administer, ArchiveTenant, UnarchiveTenant, DeleteUser, SetUserStatus,
     DeleteClient, UpdateClient, EnableClient
<1>6. CASE UNCHANGED vars
  BY <1>1, <1>6 DEF vars
<1> QED
  BY <1>1, <1>2, <1>3, <1>4, <1>5, <1>6 DEF Next

\* A stored token that is revoked or expired is so for good.
LEMMA InactiveStays ==
  ASSUME IndInv, [Next]_vars, NEW t \in Tokens, tokens[t].stored, ~Active(t)
  PROVE  ~Active(t)'
<1>1. tokens[t].expires \in Nat
  BY DEF IndInv, TypeOK, TokenRow
<1> QED
  BY <1>1, ClockGrows, RowsPersist DEF Active, Persists

\* What a handler knows stays true while it waits: rows stay, codes keep their data, and a
\* token that is not active never is again.
LEMMA ShapeKept ==
  ASSUME IndInv, [Next]_vars, NEW r \in Requests, SameHandler(r)
  PROVE  HandlerShape(r)'
<1>1. HandlerShape(r)
  BY DEF IndInv, RequestShape
<1>2. req[r].code \in Codes => CodePersists(req[r].code)
  BY CodesPersist
<1>3. req[r].token \in Tokens => Persists(req[r].token)
  BY RowsPersist
<1>4. ASSUME NEW t \in Tokens, t = req[r].token, tokens[t].stored, ~Active(t)
      PROVE  (~Active(req[r].token))'
  <2>1. req'[r].token = t
    BY <1>4 DEF SameHandler
  <2>2. ~Active(t)'
    BY <1>4, InactiveStays
  <2> QED
    BY <2>1, <2>2 DEF Active
<1>5. req'[r].pc \in RefreshPCs \cup {"revoke"} =>
        req'[r].token \in Tokens /\ tokens'[req'[r].token].stored
  BY <1>1, <1>3 DEF SameHandler, HandlerShape, Persists
<1>6. req'[r].pc \in {"exchangeDelete", "exchangeClaims", "exchangeInsert"} =>
        codes'[req'[r].code].status # "free" /\ codes'[req'[r].code].client = req'[r].client
  BY <1>1, <1>2 DEF SameHandler, HandlerShape, CodePersists, ExchangePCs
<1>7. At(r, "refreshTake")' /\ req'[r].scope = {} => (~Active(req[r].token))'
  BY <1>1, <1>4 DEF SameHandler, HandlerShape, At, RefreshPCs
<1> QED
  BY <1>1, <1>5, <1>6, <1>7 DEF SameHandler, HandlerShape, At

\* The row of a handler after it begins.
LEMMA BeginRow ==
  ASSUME TypeOK, NEW r \in Requests, NEW pc, NEW c \in Clients, NEW request \in Request,
         Begin(r, pc, c, request)
  PROVE  /\ req'[r].pc = pc /\ req'[r].client = c /\ req'[r].cfg \in Configs
         /\ req'[r].user = request.user /\ req'[r].code = request.code
         /\ req'[r].token = request.token /\ req'[r].scope = request.scope
         /\ codes' = codes /\ tokens' = tokens
<1>1. client[c] \in Configs
  BY DEF TypeOK, Begin
<1>2. req'[r] = [request EXCEPT !.pc = pc, !.client = c, !.cfg = client[c]]
  BY DEF TypeOK, Begin
<1>3. /\ req'[r].pc = pc /\ req'[r].client = c /\ req'[r].cfg = client[c]
      /\ req'[r].user = request.user /\ req'[r].code = request.code
      /\ req'[r].token = request.token /\ req'[r].scope = request.scope
  BY <1>2 DEF Request
<1>4. codes' = codes /\ tokens' = tokens
  BY DEF Begin
<1> QED
  BY <1>1, <1>3, <1>4

\* A handler that begins has what its first statement needs.
LEMMA ShapeStarts ==
  ASSUME TypeOK, NEW r \in Requests, Arrive(r)
  PROVE  HandlerShape(r)'
<1>1. ASSUME NEW c \in Clients, NEW u \in Users, NEW scope \in SUBSET Scopes,
             BeginConsent(r, c, u, scope)
      PROVE  HandlerShape(r)'
  <2> DEFINE row == [IdleRequest EXCEPT !.user = u, !.scope = scope]
  <2>1. row \in Request /\ row.user = u /\ row.scope = scope
    BY IdleTyped DEF Request
  <2>2. Begin(r, "consentArchive", c, row)
    BY <1>1 DEF BeginConsent
  <2> HIDE DEF row
  <2>3. scope # {}
    BY <1>1 DEF BeginConsent
  <2>4. req'[r].pc = "consentArchive" /\ req'[r].client \in Clients /\ req'[r].cfg \in Configs
        /\ req'[r].user = u /\ req'[r].scope = scope
    BY <2>1, <2>2, BeginRow
  <2> QED
    BY <2>3, <2>4 DEF HandlerShape, At, ConsentPCs, ExchangePCs, RefreshPCs
<1>2. ASSUME NEW c \in Clients, NEW g \in Codes, NEW proof \in BOOLEAN,
             BeginExchange(r, c, g, proof)
      PROVE  HandlerShape(r)'
  <2> DEFINE row == [IdleRequest EXCEPT !.code = g, !.proof = proof]
  <2>1. row \in Request /\ row.code = g
    BY IdleTyped DEF Request
  <2>2. Begin(r, "exchangeArchive", c, row)
    BY <1>2 DEF BeginExchange
  <2> HIDE DEF row
  <2>3. req'[r].pc = "exchangeArchive" /\ req'[r].client \in Clients /\ req'[r].cfg \in Configs
        /\ req'[r].code = g
    BY <2>1, <2>2, BeginRow
  <2> QED
    BY <2>3 DEF HandlerShape, At, ConsentPCs, ExchangePCs, RefreshPCs
<1>3. ASSUME NEW c \in Clients, NEW t \in Tokens, NEW scope \in SUBSET Scopes,
             BeginRefresh(r, c, t, scope)
      PROVE  HandlerShape(r)'
  <2> DEFINE row == [IdleRequest EXCEPT !.token = t, !.scope = scope]
  <2>1. row \in Request /\ row.token = t
    BY IdleTyped DEF Request
  <2>2. Begin(r, "refreshArchive", c, row)
    BY <1>3 DEF BeginRefresh
  <2> HIDE DEF row
  <2>3. req'[r].pc = "refreshArchive" /\ req'[r].client \in Clients /\ req'[r].cfg \in Configs
        /\ req'[r].token = t /\ tokens' = tokens
    BY <2>1, <2>2, BeginRow
  <2> QED
    BY <1>3, <2>3
    DEF BeginRefresh, HandlerShape, At, ConsentPCs, ExchangePCs, RefreshPCs
<1>4. ASSUME NEW c \in Clients, NEW t \in Tokens, BeginRevoke(r, c, t)
      PROVE  HandlerShape(r)'
  <2> DEFINE row == [IdleRequest EXCEPT !.token = t]
  <2>1. row \in Request /\ row.token = t
    BY IdleTyped DEF Request
  <2>2. Begin(r, "revoke", c, row)
    BY <1>4 DEF BeginRevoke
  <2> HIDE DEF row
  <2>3. req'[r].pc = "revoke" /\ req'[r].client \in Clients /\ req'[r].cfg \in Configs
        /\ req'[r].token = t /\ tokens' = tokens
    BY <2>1, <2>2, BeginRow
  <2> QED
    BY <1>4, <2>3
    DEF BeginRevoke, HandlerShape, At, ConsentPCs, ExchangePCs, RefreshPCs
<1> QED
  BY <1>1, <1>2, <1>3, <1>4 DEF Arrive

\* A handler that goes on keeps everything but its program counter.
LEMMA GotoRow ==
  ASSUME TypeOK, NEW r \in Requests, NEW pc, Goto(r, pc)
  PROVE  /\ req'[r].pc = pc /\ req'[r].client = req[r].client /\ req'[r].cfg = req[r].cfg
         /\ req'[r].user = req[r].user /\ req'[r].code = req[r].code
         /\ req'[r].token = req[r].token /\ req'[r].scope = req[r].scope
<1>1. req[r] \in Request /\ req'[r] = [req[r] EXCEPT !.pc = pc]
  BY DEF TypeOK, Goto
<1> QED
  BY <1>1 DEF Request

\* An idle handler has nothing to know.
LEMMA ShapeIdle ==
  ASSUME NEW r \in Requests, req'[r] = IdleRequest
  PROVE  HandlerShape(r)'
  BY DEF HandlerShape, At, IdleRequest, ConsentPCs, ExchangePCs, RefreshPCs

\* A handler that goes on from one statement knows what the next one needs.
LEMMA ShapeMoves ==
  ASSUME IndInv, [Next]_vars, NEW r \in Requests,
         \/ ConsentCheckArchive(r) \/ ExchangeCheckArchive(r) \/ RefreshCheckArchive(r)
         \/ SelectCode(r) \/ DeleteCode(r) \/ ExchangeClaims(r)
         \/ LookupRefreshToken(r) \/ RefreshClaims(r)
  PROVE  HandlerShape(r)'
<1>0. HandlerShape(r) /\ TypeOK
  BY DEF IndInv, RequestShape
<1>1. CASE Finish(r)
  BY <1>1, ShapeIdle DEF Finish, IndInv, TypeOK
<1>2. CASE /\ ConsentCheckArchive(r) \/ ExchangeCheckArchive(r) \/ RefreshCheckArchive(r)
           /\ ~Finish(r)
  <2>1. ASSUME NEW from, NEW allowed, NEW to, CheckArchive(r, from, allowed, to)
        PROVE  At(r, from) /\ Goto(r, to) /\ tokens' = tokens
    BY <1>2, <2>1 DEF CheckArchive
  <2>2. CASE Goto(r, "consentInsert") /\ At(r, "consentArchive")
    BY <1>0, <2>2, GotoRow DEF HandlerShape, At, ConsentPCs, ExchangePCs, RefreshPCs
  <2>3. CASE Goto(r, "exchangeSelect") /\ At(r, "exchangeArchive")
    BY <1>0, <2>3, GotoRow DEF HandlerShape, At, ConsentPCs, ExchangePCs, RefreshPCs
  <2>4. CASE Goto(r, "refreshLookup") /\ At(r, "refreshArchive") /\ tokens' = tokens
    BY <1>0, <2>4, GotoRow DEF HandlerShape, At, ConsentPCs, ExchangePCs, RefreshPCs
  <2> QED
    BY <1>2, <2>1, <2>2, <2>3, <2>4
    DEF ConsentCheckArchive, ExchangeCheckArchive, RefreshCheckArchive
<1>3. CASE SelectCode(r) /\ ~Finish(r)
  <2>1. /\ At(r, "exchangeSelect") /\ codes[req[r].code].status = "stored"
        /\ codes[req[r].code].client = req[r].client
        /\ Goto(r, "exchangeDelete") /\ codes' = codes
    BY <1>3 DEF SelectCode
  <2> QED
    BY <1>0, <2>1, GotoRow DEF HandlerShape, At, ConsentPCs, ExchangePCs, RefreshPCs
<1>4. CASE DeleteCode(r) /\ ~Finish(r)
  <2>1. At(r, "exchangeDelete") /\ Goto(r, "exchangeClaims")
    BY <1>4 DEF DeleteCode
  <2>2. /\ req[r].code \in Codes /\ codes[req[r].code].status # "free"
        /\ codes[req[r].code].client = req[r].client
    BY <1>0, <2>1 DEF HandlerShape, At, ExchangePCs
  <2>3. codes'[req[r].code].status # "free" /\ codes'[req[r].code].client = req[r].client
    BY <2>2, CodesPersist DEF CodePersists
  <2> QED
    BY <1>0, <2>1, <2>2, <2>3, GotoRow
    DEF HandlerShape, At, ConsentPCs, ExchangePCs, RefreshPCs
<1>5. CASE ExchangeClaims(r) /\ ~Finish(r)
  <2>1. At(r, "exchangeClaims") /\ Goto(r, "exchangeInsert") /\ codes' = codes
    BY <1>5 DEF ExchangeClaims
  <2> QED
    BY <1>0, <2>1, GotoRow DEF HandlerShape, At, ConsentPCs, ExchangePCs, RefreshPCs
<1>6. CASE RefreshClaims(r) /\ ~Finish(r)
  <2>1. At(r, "refreshClaims") /\ Goto(r, "refreshTake") /\ tokens' = tokens
    BY <1>6 DEF RefreshClaims
  <2> QED
    BY <1>0, <2>1, GotoRow DEF HandlerShape, At, ConsentPCs, ExchangePCs, RefreshPCs
<1>7. CASE LookupRefreshToken(r) /\ ~Finish(r)
  <2>0. At(r, "refreshLookup") /\ tokens' = tokens /\ now' = now
    BY <1>7 DEF LookupRefreshToken, environment
  <2>1. ASSUME NEW scope, NEW pc, SetScope(r, scope, pc)
        PROVE  /\ req'[r].pc = pc /\ req'[r].scope = scope
               /\ req'[r].client = req[r].client /\ req'[r].cfg = req[r].cfg
               /\ req'[r].token = req[r].token
    <3>1. req[r] \in Request /\ req'[r] = [req[r] EXCEPT !.scope = scope, !.pc = pc]
      BY <2>1 DEF SetScope, IndInv, TypeOK
    <3> QED
      BY <3>1 DEF Request
  <2>2. req[r].token \in Tokens /\ tokens[req[r].token].stored
        /\ req[r].client \in Clients /\ req[r].cfg \in Configs
    BY <1>0, <2>0 DEF HandlerShape, At, RefreshPCs
  <2>3. CASE ~Active(req[r].token) /\ SetScope(r, {}, "refreshTake")
    <3>1. /\ req'[r].pc = "refreshTake" /\ req'[r].client = req[r].client
          /\ req'[r].cfg = req[r].cfg /\ req'[r].token = req[r].token
      BY <2>1, <2>3
    <3>2. (~Active(req[r].token))'
      BY <2>0, <2>3, <3>1 DEF Active
    <3> QED
      BY <2>0, <2>2, <3>1, <3>2 DEF HandlerShape, At, ConsentPCs, ExchangePCs, RefreshPCs
  <2>4. CASE RequestedScope(r) # {} /\ SetScope(r, RequestedScope(r), "refreshClaims")
    <3>1. /\ req'[r].pc = "refreshClaims" /\ req'[r].client = req[r].client
          /\ req'[r].cfg = req[r].cfg /\ req'[r].token = req[r].token /\ req'[r].scope # {}
      BY <2>1, <2>4
    <3> QED
      BY <2>0, <2>2, <3>1 DEF HandlerShape, At, ConsentPCs, ExchangePCs, RefreshPCs
  <2> QED
    BY <1>7, <2>3, <2>4 DEF LookupRefreshToken
<1> QED
  BY <1>1, <1>2, <1>3, <1>4, <1>5, <1>6, <1>7

\* Every handler knows what its next statement needs.
LEMMA NextRequestShape == IndInv /\ [Next]_vars => RequestShape'
<1> SUFFICES ASSUME IndInv, [Next]_vars, NEW r \in Requests
             PROVE  HandlerShape(r)'
  BY DEF RequestShape
<1>1. TypeOK
  BY DEF IndInv
<1> QED
  BY <1>1, HandlerSteps, ShapeKept, ShapeIdle, ShapeStarts, ShapeMoves

-----------------------------------------------------------------------------
(* The theorems. *)

\* The inductive invariant holds initially: nothing was issued yet.
LEMMA InitIndInv == Init => IndInv
<1> SUFFICES ASSUME Init PROVE IndInv
  OBVIOUS
<1>1. /\ \A r \in Requests : req[r] = IdleRequest
      /\ \A t \in Tokens : tokens[t] = FreeToken
      /\ \A g \in Codes : codes[g] = FreeCode
      /\ burned = {}
  BY DEF Init
<1>2. RequestShape /\ SingleRedemption
  BY <1>1 DEF RequestShape, HandlerShape, SingleRedemption, Redeeming, At, IdleRequest,
     ConsentPCs, ExchangePCs, RefreshPCs
<1>3. CodeShape
  BY <1>1 DEF CodeShape, FreeCode
<1>4. \A t \in Tokens : ~tokens[t].stored /\ tokens[t].replacedBy = None
  BY <1>1 DEF FreeToken
<1>5. LinkShape /\ OneLiveTokenPerGrant /\ LiveReachable /\ WithinConsent /\ AbsoluteExpiry
  BY <1>4 DEF LinkShape, OneLiveTokenPerGrant, LiveReachable, WithinConsent, AbsoluteExpiry, Live
<1>6. BurnedHasToken /\ BurnedGrantStaysDead
  BY <1>1, <1>4 DEF BurnedHasToken, BurnedGrantStaysDead
<1> QED
  BY <1>2, <1>3, <1>5, <1>6, InitType DEF IndInv

\* Every step keeps the inductive invariant.
LEMMA NextIndInv == IndInv /\ [Next]_vars => IndInv'
  BY NextType, NextRequestShape, NextCodeShape, NextLinkShape, NextSingleRedemption,
     NextOneLive, NextReachable, NextBurnedHasToken, NextBurnedDead, NextWithinConsent,
     NextAbsoluteExpiry DEF IndInv

\* Whatever interleaving of requests, crashes, clock and administration: the conjuncts of
\* IndInv hold together, each step using the others.
THEOREM Invariance == Spec => []IndInv
  BY InitIndInv, NextIndInv, PTL DEF Spec

\* Every row and every handler keeps its type.
THEOREM TypeCorrect == Spec => []TypeOK
<1>1. IndInv => TypeOK
  BY DEF IndInv
<1> QED
  BY <1>1, Invariance, PTL

\* A code is redeemed at most once by any number of concurrent exchanges
\* (consumeAuthorizationCode).
THEOREM CodesRedeemOnce == Spec => []SingleRedemption
<1>1. IndInv => SingleRedemption
  BY DEF IndInv
<1> QED
  BY <1>1, Invariance, PTL

\* A grant has at most one usable refresh token (takeRefreshTokenForRotation).
THEOREM OneLiveToken == Spec => []OneLiveTokenPerGrant
<1>1. IndInv => OneLiveTokenPerGrant
  BY DEF IndInv
<1> QED
  BY <1>1, Invariance, PTL

\* After a replay or a revocation no token of the grant is usable again
\* (takeRefreshTokenForRotation, revokeRefreshTokenByPlain).
THEOREM ReplayEndsGrant == Spec => []BurnedGrantStaysDead
<1>1. IndInv => BurnedGrantStaysDead
  BY DEF IndInv
<1> QED
  BY <1>1, Invariance, PTL

\* Rotation never leaves the consent: client, user and scope stay within it.
THEOREM TokensWithinConsent == Spec => []WithinConsent
<1>1. IndInv => WithinConsent
  BY DEF IndInv
<1> QED
  BY <1>1, Invariance, PTL

\* Rotation never prolongs a grant.
THEOREM ExpiryIsAbsolute == Spec => []AbsoluteExpiry
<1>1. IndInv => AbsoluteExpiry
  BY DEF IndInv
<1> QED
  BY <1>1, Invariance, PTL
-----------------------------------------------------------------------------
(* The archive check and the requests it cannot see. *)

\* A handler that goes on keeps its copy of the client row and its history.
LEMMA MovedTo ==
  ASSUME TypeOK, NEW r \in Requests, NEW pc,
         Goto(r, pc) \/ \E scope : SetScope(r, scope, pc)
  PROVE  req'[r].pc = pc /\ req'[r].cfg = req[r].cfg /\ req'[r].raced = req[r].raced
<1>1. req[r] \in Request
  BY DEF TypeOK
<1>2. CASE Goto(r, pc)
  <2>1. req'[r] = [req[r] EXCEPT !.pc = pc]
    BY <1>2 DEF Goto, TypeOK
  <2> QED
    BY <1>1, <2>1 DEF Request
<1>3. ASSUME NEW scope, SetScope(r, scope, pc)
      PROVE  req'[r].pc = pc /\ req'[r].cfg = req[r].cfg /\ req'[r].raced = req[r].raced
  <2>1. req'[r] = [req[r] EXCEPT !.scope = scope, !.pc = pc]
    BY <1>3 DEF SetScope, TypeOK
  <2> QED
    BY <1>1, <2>1 DEF Request
<1> QED
  BY <1>2, <1>3

\* A handler that is about to issue comes from the archive check, or was about to before.
LEMMA IssuingSteps ==
  ASSUME TypeOK, NEW r \in Requests, Arrive(r) \/ Resume(r) \/ Crash(r), Issuing(r)'
  PROVE  /\ req'[r].cfg = req[r].cfg /\ req'[r].raced = req[r].raced
         /\ UNCHANGED archived
         /\ Issuing(r) \/ ~TenantClosed(req[r].cfg)
<1>1. ~Finish(r)
  <2>1. Finish(r) => req'[r].pc = "idle"
    BY DEF Finish, IdleRequest, TypeOK
  <2> QED
    BY <2>1 DEF Issuing
<1>2. ~Arrive(r)
  <2>1. ASSUME NEW pc \in {"consentArchive", "exchangeArchive", "refreshArchive", "revoke"},
               NEW c \in Clients, NEW request \in Request, Begin(r, pc, c, request)
        PROVE  FALSE
    <3>1. req'[r].pc = pc
      BY <2>1, BeginRow
    <3> QED
      BY <3>1 DEF Issuing
  <2>2. \A u \in Users, scope \in SUBSET Scopes :
          [IdleRequest EXCEPT !.user = u, !.scope = scope] \in Request
    BY IdleTyped DEF Request
  <2>3. \A g \in Codes, proof \in BOOLEAN : [IdleRequest EXCEPT !.code = g, !.proof = proof] \in Request
    BY IdleTyped DEF Request
  <2>4. \A t \in Tokens, scope \in SUBSET Scopes :
          [IdleRequest EXCEPT !.token = t, !.scope = scope] \in Request
    BY IdleTyped DEF Request
  <2>5. \A t \in Tokens : [IdleRequest EXCEPT !.token = t] \in Request
    BY IdleTyped DEF Request
  <2> QED
    BY <2>1, <2>2, <2>3, <2>4, <2>5
    DEF Arrive, BeginConsent, BeginExchange, BeginRefresh, BeginRevoke
<1>3. ASSUME NEW from, NEW allowed, NEW to, CheckArchive(r, from, allowed, to)
      PROVE  /\ req'[r].cfg = req[r].cfg /\ req'[r].raced = req[r].raced
             /\ UNCHANGED archived /\ ~TenantClosed(req[r].cfg)
  BY <1>1, <1>3, MovedTo DEF CheckArchive, environment
<1>4. CASE ConsentCheckArchive(r) \/ ExchangeCheckArchive(r) \/ RefreshCheckArchive(r)
  BY <1>3, <1>4 DEF ConsentCheckArchive, ExchangeCheckArchive, RefreshCheckArchive
<1>5. CASE \/ SelectCode(r) \/ DeleteCode(r) \/ ExchangeClaims(r) \/ LookupRefreshToken(r)
           \/ RefreshClaims(r)
  <2>1. /\ \E pc : Goto(r, pc) \/ \E scope : SetScope(r, scope, pc)
        /\ UNCHANGED archived /\ Issuing(r)
    BY <1>1, <1>5 DEF SelectCode, DeleteCode, ExchangeClaims, LookupRefreshToken, RefreshClaims,
       environment, Issuing, At
  <2> QED
    BY <2>1, MovedTo
<1>6. ~(\/ InsertAuthorizationCode(r) \/ InsertRefreshToken(r) \/ TakeForRotation(r)
        \/ RevokeRefreshToken(r) \/ Crash(r))
  BY <1>1 DEF InsertAuthorizationCode, InsertRefreshToken, TakeForRotation,
     RevokeRefreshToken, Crash
<1> QED
  BY <1>2, <1>4, <1>5, <1>6 DEF Resume

\* Archiving marks every request in flight for the tenant, and nothing else closes one.
LEMMA NextOnlyRaces ==
  ASSUME TypeOK, OnlyRacesIssueWhileArchived, [Next]_vars
  PROVE  OnlyRacesIssueWhileArchived'
<1> SUFFICES ASSUME NEW r \in Requests, Issuing(r)', TenantClosed(req[r].cfg)'
             PROVE  req'[r].raced
  BY DEF OnlyRacesIssueWhileArchived
<1>1. CASE req'[r] = req[r] /\ archived' \subseteq archived
  BY <1>1 DEF OnlyRacesIssueWhileArchived, Issuing, TenantClosed
<1>2. CASE Arrive(r) \/ Resume(r) \/ Crash(r)
  BY <1>2, IssuingSteps DEF OnlyRacesIssueWhileArchived, TenantClosed
<1>3. ASSUME NEW q \in Requests, q # r, Arrive(q) \/ Resume(q) \/ Crash(q)
      PROVE  req'[r] = req[r] /\ archived' \subseteq archived
  <2>1. UNCHANGED archived
    BY <1>3 DEF Arrive, Resume, Crash, BeginConsent, BeginExchange, BeginRefresh, BeginRevoke,
       Begin, ConsentCheckArchive, ExchangeCheckArchive, RefreshCheckArchive, CheckArchive,
       InsertAuthorizationCode, SelectCode, DeleteCode, ExchangeClaims, InsertRefreshToken,
       LookupRefreshToken, RefreshClaims, TakeForRotation, RevokeRefreshToken, environment
  <2> QED
    BY <1>3, <2>1, OthersKept
<1>4. ASSUME NEW n \in Tenants, ArchiveTenant(n)
      PROVE  req'[r].raced
  <2>1. req[r] \in Request
    BY DEF TypeOK
  <2>2. CASE ~At(r, "idle") /\ req[r].cfg.tenant = n
    <3>1. req'[r] = [req[r] EXCEPT !.raced = TRUE]
      BY <1>4, <2>2 DEF ArchiveTenant
    <3> QED
      BY <2>1, <3>1 DEF Request
  <2>3. CASE ~(~At(r, "idle") /\ req[r].cfg.tenant = n)
    <3>1. req'[r] = req[r] /\ archived' = archived \cup {n}
      BY <1>4, <2>3 DEF ArchiveTenant
    <3>2. Issuing(r) /\ ~At(r, "idle")
      BY <3>1 DEF Issuing, At
    <3> QED
      BY <2>3, <3>1, <3>2 DEF OnlyRacesIssueWhileArchived, TenantClosed
  <2> QED
    BY <2>2, <2>3
<1>5. CASE UNCHANGED vars \/ Tick \/ \E n \in Tenants : UnarchiveTenant(n)
  BY <1>1, <1>5 DEF vars, Tick, UnarchiveTenant
<1>6. CASE \/ \E u \in Users :
                DeleteUser(u) \/ \E s \in {"active", "disabled"} : SetUserStatus(u, s)
           \/ \E c \in Clients :
                DeleteClient(c) \/ \E cfg \in Configs : UpdateClient(c, cfg) \/ EnableClient(c, cfg)
  BY <1>1, <1>6 DEF DeleteUser, SetUserStatus, DeleteClient, UpdateClient, EnableClient
<1> QED
  BY <1>1, <1>2, <1>3, <1>4, <1>5, <1>6 DEF Next, Administer

\* The only requests that issue for an archived tenant were in flight when it was archived
\* (tenantArchivedBlocksOAuthIssuance).
THEOREM RacesOnlyIssue == Spec => []OnlyRacesIssueWhileArchived
<1>1. Init => OnlyRacesIssueWhileArchived
  BY DEF Init, OnlyRacesIssueWhileArchived, TenantClosed
<1> QED
  BY <1>1, NextOnlyRaces, TypeCorrect, PTL DEF Spec

-----------------------------------------------------------------------------
(* The server implements grants. *)

\* The links of the rotations stay within one grant.
LinksWithinGrant ==
  \A t \in Tokens : tokens[t].replacedBy \in Tokens =>
    tokens[tokens[t].replacedBy].origin = tokens[t].origin

\* Only a rotation sets a link, to a token of the same grant.
LEMMA NextLinksWithin == IndInv /\ LinksWithinGrant /\ [Next]_vars => LinksWithinGrant'
<1> SUFFICES ASSUME IndInv, LinksWithinGrant, [Next]_vars, NEW x \in Tokens,
                    tokens'[x].replacedBy \in Tokens
             PROVE  tokens'[tokens'[x].replacedBy].origin = tokens'[x].origin
  BY DEF LinksWithinGrant
<1>1. CASE tokens[x].replacedBy \in Tokens
  <2>1. /\ tokens[x].stored /\ tokens[tokens[x].replacedBy].stored
        /\ tokens[tokens[x].replacedBy].origin = tokens[x].origin
    BY <1>1, Constants DEF IndInv, LinkShape, LinksWithinGrant, ConstantAssumptions
  <2>2. tokens'[x].replacedBy = tokens[x].replacedBy
    BY <1>1, LinksKept DEF KeepsLinks
  <2> QED
    BY <1>1, <2>1, <2>2, RowsPersist DEF Persists
<1>2. CASE tokens[x].replacedBy \notin Tokens
  <2>1. ASSUME NEW r \in Requests, NEW t \in Tokens, Inserts(r, t)
        PROVE  FALSE
    <3>1. tokens'[t].replacedBy = None /\ \A y \in Tokens \ {t} : tokens'[y] = tokens[y]
      BY <2>1, InsertRows DEF IndInv
    <3> QED
      BY <1>2, <3>1, Constants DEF ConstantAssumptions
  <2>2. ASSUME NEW r \in Requests, NEW t \in Tokens, Replay(r, t) \/ Revokes(r, t)
        PROVE  FALSE
    BY <1>2, <2>2, RevokedRows DEF Replay, Revokes, IndInv
  <2>3. ASSUME NEW r \in Requests, NEW t \in Tokens, NEW n \in Tokens, Rotates(r, t, n)
        PROVE  tokens'[tokens'[x].replacedBy].origin = tokens'[x].origin
    <3>1. /\ t # n /\ tokens'[t] = Retired(t, n) /\ tokens'[n] = Replacement(r, t)
          /\ \A y \in Tokens \ {t, n} : tokens'[y] = tokens[y]
      BY <2>3, RotateRows
    <3>2. /\ tokens'[n].replacedBy = None /\ tokens'[n].origin = tokens[t].origin
          /\ tokens'[t].replacedBy = n /\ tokens'[t].origin = tokens[t].origin
      BY <3>1, RetiredRow, ReplacementRow DEF IndInv
    <3>3. x = t
      BY <1>2, <3>1, <3>2, Constants DEF ConstantAssumptions
    <3> QED
      BY <3>2, <3>3
  <2> QED
    BY <1>2, <2>1, <2>2, <2>3, TokenSteps
<1> QED
  BY <1>1, <1>2

\* The links stay within their grants.
LEMMA LinksInvariance == Spec => []LinksWithinGrant
<1>1. Init => LinksWithinGrant
  BY Constants DEF Init, LinksWithinGrant, FreeToken, ConstantAssumptions
<1> QED
  BY <1>1, NextLinksWithin, Invariance, PTL DEF Spec

\* A family is of one grant.
LEMMA FamilyOfGrant ==
  ASSUME LinksWithinGrant, NEW t \in Tokens, NEW x \in Family(t)
  PROVE  x \in Tokens /\ tokens[x].origin = tokens[t].origin
<1> DEFINE S == {y \in Tokens : tokens[y].origin = tokens[t].origin}
<1>1. t \in S /\ FollowsReplacements(S)
  BY DEF FollowsReplacements, LinksWithinGrant
<1>2. S \in SUBSET Tokens
  OBVIOUS
<1> HIDE DEF S
<1>3. x \in S
  BY <1>1, <1>2 DEF Family
<1> QED
  BY <1>3 DEF S

\* The successors of a token are of its grant.
LEMMA SuccessorsOfGrant ==
  ASSUME LinksWithinGrant, NEW t \in Tokens, NEW x \in Successors(t)
  PROVE  x \in Tokens /\ tokens[x].origin = tokens[t].origin
  BY SuccessorsInFamily, FamilyOfGrant

\* What an outside observer sees of a grant does not change.
SameGrant(g) == Phase(g)' = Phase(g) /\ LiveOf(g)' = LiveOf(g) /\ SpentOf(g)' = SpentOf(g)

\* A grant has tokens after its code is gone: the phases exclude one another.
LEMMA Phases ==
  ASSUME IndInv, NEW g \in Codes
  PROVE  /\ codes[g].status = "free" => Phase(g) = "none"
         /\ codes[g].status = "stored" => Phase(g) = "offered"
         /\ LiveOf(g) # {} => Phase(g) = "live"
         /\ LiveOf(g) = {} /\ SpentOf(g) # {} => Phase(g) = "ended"
         /\ codes[g].status = "gone" /\ LiveOf(g) = {} /\ SpentOf(g) = {} => Phase(g) = "closed"
<1>1. LiveOf(g) # {} \/ SpentOf(g) # {} => codes[g].status = "gone"
  BY DEF IndInv, WithinConsent, LiveOf, SpentOf, Live, Stems
<1>2. CASE codes[g].status = "free"
  BY <1>1, <1>2 DEF Phase
<1>3. CASE codes[g].status = "stored"
  BY <1>1, <1>3 DEF Phase
<1>4. CASE codes[g].status # "free" /\ codes[g].status # "stored" /\ LiveOf(g) # {}
  BY <1>4 DEF Phase
<1>5. CASE codes[g].status # "free" /\ codes[g].status # "stored" /\ LiveOf(g) = {}
  BY <1>5 DEF Phase
<1> QED
  BY <1>2, <1>3, <1>4, <1>5

\* The same after a step.
LEMMA PhasesNext ==
  ASSUME IndInv', NEW g \in Codes
  PROVE  /\ codes'[g].status = "free" => Phase(g)' = "none"
         /\ codes'[g].status = "stored" => Phase(g)' = "offered"
         /\ LiveOf(g)' # {} => Phase(g)' = "live"
         /\ LiveOf(g)' = {} /\ SpentOf(g)' # {} => Phase(g)' = "ended"
         /\ codes'[g].status = "gone" /\ LiveOf(g)' = {} /\ SpentOf(g)' = {}
              => Phase(g)' = "closed"
<1>1. LiveOf(g)' # {} \/ SpentOf(g)' # {} => codes'[g].status = "gone"
  BY DEF IndInv, WithinConsent, LiveOf, SpentOf, Live, Stems
<1>2. CASE codes'[g].status = "free"
  BY <1>1, <1>2 DEF Phase
<1>3. CASE codes'[g].status = "stored"
  BY <1>1, <1>3 DEF Phase
<1>4. CASE codes'[g].status # "free" /\ codes'[g].status # "stored" /\ LiveOf(g)' # {}
  BY <1>4 DEF Phase
<1>5. CASE codes'[g].status # "free" /\ codes'[g].status # "stored" /\ LiveOf(g)' = {}
  BY <1>5 DEF Phase
<1> QED
  BY <1>2, <1>3, <1>4, <1>5

\* A step that changes neither the code nor the tokens of a grant.
LEMMA GrantKept ==
  ASSUME NEW g \in Codes, codes'[g].status = codes[g].status,
         LiveOf(g)' = LiveOf(g), SpentOf(g)' = SpentOf(g)
  PROVE  SameGrant(g)
  BY DEF SameGrant, Phase

\* The steps of the abstract specification, in terms of the tables.
LEMMA OfferMaps ==
  ASSUME NEW g \in Codes, Phase(g) = "none", Phase(g)' = "offered",
         \A h \in Codes : LiveOf(h)' = LiveOf(h) /\ SpentOf(h)' = SpentOf(h),
         \A h \in Codes \ {g} : SameGrant(h)
  PROVE  Grant!Offer(g)
  BY DEF Grant!Offer, SameGrant

\* The codes of S are redeemed or withdrawn.
LEMMA CloseMaps ==
  ASSUME NEW S \in SUBSET Codes, S # {},
         \A g \in S : Phase(g) = "offered" /\ Phase(g)' = "closed",
         \A h \in Codes : LiveOf(h)' = LiveOf(h) /\ SpentOf(h)' = SpentOf(h),
         \A h \in Codes \ S : SameGrant(h)
  PROVE  Grant!Close(S)
  BY DEF Grant!Close, SameGrant

\* The first token of a grant.
LEMMA StartMaps ==
  ASSUME NEW g \in Codes, NEW t \in Tokens, ~tokens[t].stored,
         Phase(g) = "closed", Phase(g)' = "live",
         LiveOf(g)' = {t}, SpentOf(g)' = SpentOf(g),
         \A h \in Codes \ {g} : SameGrant(h)
  PROVE  Grant!Start(g, t)
<1>1. \A h \in Codes : t \notin LiveOf(h) \cup SpentOf(h)
  BY DEF LiveOf, SpentOf, Live, Stems
<1> QED
  BY <1>1 DEF Grant!Start, Grant!Fresh, SameGrant

\* A new token takes over from the usable one.
LEMMA HandOverMaps ==
  ASSUME NEW g \in Codes, NEW t \in Tokens, ~tokens[t].stored,
         Phase(g) = "live", Phase(g)' = "live",
         LiveOf(g)' = {t}, SpentOf(g)' = SpentOf(g) \cup LiveOf(g),
         \A h \in Codes \ {g} : SameGrant(h)
  PROVE  Grant!HandOver(g, t)
<1>1. \A h \in Codes : t \notin LiveOf(h) \cup SpentOf(h)
  BY DEF LiveOf, SpentOf, Live, Stems
<1> QED
  BY <1>1 DEF Grant!HandOver, Grant!Fresh, SameGrant

\* The usable token is revoked.
LEMMA EndMaps ==
  ASSUME NEW g \in Codes, Phase(g) = "live", Phase(g)' = "ended",
         LiveOf(g)' = {}, SpentOf(g)' = SpentOf(g) \cup LiveOf(g),
         \A h \in Codes \ {g} : SameGrant(h)
  PROVE  Grant!End(g)
  BY DEF Grant!End, SameGrant

\* A step that leaves every grant alone stutters.
LEMMA GrantsStutter ==
  ASSUME \A g \in Codes : SameGrant(g)
  PROVE  UNCHANGED Grant!gvars
  BY DEF Grant!gvars, SameGrant

\* What a step of the table of codes leaves alone.
LEMMA TokensAlone ==
  ASSUME tokens' = tokens, NEW g \in Codes
  PROVE  LiveOf(g)' = LiveOf(g) /\ SpentOf(g)' = SpentOf(g)
  BY DEF LiveOf, SpentOf, Live, Stems

\* The two sets of a grant none of whose rows changes.
LEMMA RowsAlone ==
  ASSUME codes' = codes, NEW g \in Codes,
         \A x \in Tokens : (Stems(x, g)' <=> Stems(x, g))
                           /\ (Stems(x, g) => (tokens'[x].revoked <=> tokens[x].revoked))
  PROVE  SameGrant(g)
<1>1. LiveOf(g)' = LiveOf(g) /\ SpentOf(g)' = SpentOf(g)
  BY DEF LiveOf, SpentOf, Live, Stems
<1> QED
  BY <1>1, GrantKept

\* A code has no token before a request redeemed it.
LEMMA NoTokensYet ==
  ASSUME IndInv, NEW g \in Codes, codes[g].status # "gone"
  PROVE  LiveOf(g) = {} /\ SpentOf(g) = {}
  BY DEF IndInv, WithinConsent, LiveOf, SpentOf, Live, Stems

\* The consent page offers a grant.
LEMMA ConsentMaps ==
  ASSUME IndInv, IndInv', NEW r \in Requests, InsertAuthorizationCode(r)
  PROVE  UNCHANGED Grant!gvars \/ \E g \in Codes : Grant!Offer(g)
<1>1. tokens' = tokens
  BY DEF InsertAuthorizationCode
<1>2. CASE UNCHANGED codes
  BY <1>1, <1>2, TokensAlone, GrantKept, GrantsStutter
<1>3. ASSUME NEW g \in Codes, codes[g].status = "free",
             codes' = [codes EXCEPT ![g] =
               [status |-> "stored", client |-> req[r].client, user |-> req[r].user,
                scope |-> req[r].scope, expires |-> now + req[r].cfg.codeTtl]]
      PROVE  Grant!Offer(g)
  <2>1. codes'[g].status = "stored" /\ \A h \in Codes \ {g} : codes'[h] = codes[h]
    BY <1>3 DEF IndInv, TypeOK
  <2>2. Phase(g) = "none" /\ Phase(g)' = "offered"
    BY <1>3, <2>1, Phases, PhasesNext
  <2>3. \A h \in Codes \ {g} : SameGrant(h)
    BY <1>1, <2>1, TokensAlone, GrantKept
  <2> QED
    BY <1>1, <2>2, <2>3, TokensAlone, OfferMaps
<1> QED
  BY <1>2, <1>3 DEF InsertAuthorizationCode

\* Codes leave the table, redeemed or with their account.
LEMMA Closing ==
  ASSUME IndInv, IndInv', tokens' = tokens,
         NEW S \in SUBSET Codes,
         \A g \in S : codes[g].status = "stored" /\ codes'[g].status = "gone",
         \A g \in Codes \ S : codes'[g].status = codes[g].status
  PROVE  UNCHANGED Grant!gvars \/ \E R \in SUBSET Codes : Grant!Close(R)
<1>1. CASE S = {}
  BY <1>1, TokensAlone, GrantKept, GrantsStutter
<1>2. CASE S # {}
  <2>1. ASSUME NEW g \in S
        PROVE  Phase(g) = "offered" /\ Phase(g)' = "closed"
    <3>1. LiveOf(g)' = {} /\ SpentOf(g)' = {}
      BY NoTokensYet, TokensAlone
    <3> QED
      BY <3>1, Phases, PhasesNext
  <2>2. \A g \in Codes \ S : SameGrant(g)
    BY TokensAlone, GrantKept
  <2>3. Grant!Close(S)
    BY <1>2, <2>1, <2>2, TokensAlone, CloseMaps
  <2> QED
    BY <2>3
<1> QED
  BY <1>1, <1>2

\* The request that deletes the row closes the grant.
LEMMA RedeemingMaps ==
  ASSUME IndInv, IndInv', NEW r \in Requests, DeleteCode(r)
  PROVE  UNCHANGED Grant!gvars \/ \E R \in SUBSET Codes : Grant!Close(R)
<1>1. PICK g \in Codes : g = req[r].code
  BY DEF DeleteCode, IndInv, RequestShape, HandlerShape, At, ExchangePCs
<1>2. tokens' = tokens
  BY DEF DeleteCode
<1>3. CASE UNCHANGED codes
  BY <1>2, <1>3, TokensAlone, GrantKept, GrantsStutter
<1>4. CASE DeletionWins(g) /\ codes' = [codes EXCEPT ![g].status = "gone"]
  <2>1. codes[g] \in CodeRow /\ codes[g].status = "stored"
    BY <1>4 DEF DeletionWins, IndInv, TypeOK
  <2>2. codes'[g].status = "gone" /\ \A h \in Codes \ {g} : codes'[h] = codes[h]
    BY <1>4, <2>1 DEF IndInv, TypeOK, CodeRow
  <2> QED
    BY <1>2, <2>1, <2>2, Closing, {g} \in SUBSET Codes
<1> QED
  BY <1>1, <1>3, <1>4 DEF DeleteCode

\* A deleted account takes its codes along.
LEMMA WithdrawingMaps ==
  ASSUME IndInv, IndInv', NEW u \in Users, DeleteUser(u)
  PROVE  UNCHANGED Grant!gvars \/ \E R \in SUBSET Codes : Grant!Close(R)
<1>1. PICK S \in SUBSET Codes : S = {g \in Codes : codes[g].status = "stored" /\ codes[g].user = u}
  OBVIOUS
<1>2. ASSUME NEW g \in S
      PROVE  codes[g].status = "stored" /\ codes'[g].status = "gone"
  <2>1. codes[g] \in CodeRow /\ codes'[g] = [codes[g] EXCEPT !.status = "gone"]
    BY <1>1 DEF DeleteUser, IndInv, TypeOK
  <2> QED
    BY <1>1, <2>1 DEF CodeRow
<1>3. tokens' = tokens /\ \A g \in Codes \ S : codes'[g].status = codes[g].status
  BY <1>1 DEF DeleteUser
<1> QED
  BY <1>2, <1>3, Closing

\* The first token starts the line of a grant that has none.
LEMMA StartingMaps ==
  ASSUME IndInv, IndInv', codes' = codes, NEW r \in Requests, NEW t \in Tokens, Inserts(r, t)
  PROVE  \E g \in Codes : Grant!Start(g, t)
<1>1. PICK g \in Codes : /\ g = req[r].code /\ codes[g].status = "gone"
                         /\ \A y \in Tokens : tokens[y].stored => tokens[y].origin # g
  BY InsertFacts
<1>2. /\ ~tokens[t].stored /\ tokens'[t].stored /\ ~tokens'[t].revoked /\ tokens'[t].origin = g
      /\ \A x \in Tokens \ {t} : tokens'[x] = tokens[x]
  BY <1>1, InsertRows DEF IndInv, Inserts
<1>3. LiveOf(g) = {} /\ SpentOf(g) = {} /\ LiveOf(g)' = {t} /\ SpentOf(g)' = {}
  BY <1>1, <1>2 DEF LiveOf, SpentOf, Live, Stems
<1>4. \A h \in Codes \ {g} : SameGrant(h)
  BY <1>2, RowsAlone DEF Stems
<1>5. Phase(g) = "closed" /\ Phase(g)' = "live"
  BY <1>1, <1>3, Phases, PhasesNext
<1> QED
  BY <1>2, <1>3, <1>4, <1>5, StartMaps

\* A rotation hands the line over.
LEMMA RotatingMaps ==
  ASSUME IndInv, IndInv', codes' = codes,
         NEW r \in Requests, NEW t \in Tokens, NEW n \in Tokens, Rotates(r, t, n)
  PROVE  \E g \in Codes : Grant!HandOver(g, n)
<1>1. /\ t # n /\ Live(t) /\ ~tokens[n].stored
      /\ tokens'[t] = Retired(t, n) /\ tokens'[n] = Replacement(r, t)
      /\ \A x \in Tokens \ {t, n} : tokens'[x] = tokens[x]
  BY RotateRows
<1>2. PICK g \in Codes : g = tokens[t].origin
  BY <1>1 DEF IndInv, WithinConsent, Live
<1>3. /\ tokens'[t].stored /\ tokens'[t].revoked /\ tokens'[t].origin = g
      /\ tokens'[n].stored /\ ~tokens'[n].revoked /\ tokens'[n].origin = g
  BY <1>1, <1>2, RetiredRow, ReplacementRow DEF IndInv, Live
<1>4. LiveOf(g) = {t}
  BY <1>1, <1>2 DEF IndInv, OneLiveTokenPerGrant, LiveOf
<1>5. LiveOf(g)' = {n}
  BY <1>1, <1>3 DEF IndInv, OneLiveTokenPerGrant, LiveOf, Live
<1>6. SpentOf(g)' = SpentOf(g) \cup {t}
  <2>1. \A x \in Tokens : x \in SpentOf(g)' <=> x \in SpentOf(g) \/ x = t
    BY <1>1, <1>3 DEF SpentOf, Stems
  <2> QED
    BY <2>1 DEF SpentOf
<1>7. \A h \in Codes \ {g} : SameGrant(h)
  <2>1. \A h \in Codes \ {g}, x \in Tokens :
          /\ Stems(x, h)' <=> Stems(x, h)
          /\ Stems(x, h) => (tokens'[x].revoked <=> tokens[x].revoked)
    BY <1>1, <1>2, <1>3 DEF Stems, Live
  <2> QED
    BY <2>1, RowsAlone
<1>8. Phase(g) = "live" /\ Phase(g)' = "live"
  BY <1>4, <1>5, Phases, PhasesNext
<1> QED
  BY <1>1, <1>4, <1>5, <1>6, <1>7, <1>8, HandOverMaps

\* A replay or a revocation of a token of grant g ends its line, or finds it ended.
LEMMA EndingMaps ==
  ASSUME IndInv, IndInv', codes' = codes, NEW g, NEW S, NEW c, tokens' = Revoked(S, c),
         \A x \in S : x \in Tokens /\ tokens[x].origin = g
  PROVE  UNCHANGED Grant!gvars \/ \E h \in Codes : Grant!End(h)
<1>1. ASSUME NEW x \in Tokens
      PROVE  /\ tokens'[x].stored = tokens[x].stored /\ tokens'[x].origin = tokens[x].origin
             /\ tokens[x].revoked => tokens'[x].revoked
  BY <1>1, RevokedRows DEF IndInv
<1>2. ASSUME NEW x \in Tokens, x \notin S
      PROVE  tokens'[x] = tokens[x]
  BY <1>2 DEF Revoked
<1>3. \A x \in Tokens : tokens[x].revoked \in BOOLEAN /\ tokens'[x].revoked \in BOOLEAN
  BY DEF IndInv, TypeOK, TokenRow
<1>4. \A h \in Codes \ {g} : SameGrant(h)
  BY <1>1, <1>2, RowsAlone DEF Stems
<1>5. CASE g \in Codes /\ \E l \in Tokens : Live(l) /\ tokens[l].origin = g /\ ~Live(l)'
  <2>1. PICK l \in Tokens : Live(l) /\ tokens[l].origin = g /\ ~Live(l)'
    BY <1>5
  <2>2. LiveOf(g) = {l}
    BY <2>1 DEF IndInv, OneLiveTokenPerGrant, LiveOf
  <2>3. LiveOf(g)' = {}
    <3>1. \A x \in Tokens : Live(x)' => Live(x)
      BY <1>1 DEF Live
    <3> QED
      BY <1>1, <2>1, <2>2, <3>1 DEF LiveOf
  <2>4. SpentOf(g)' = SpentOf(g) \cup {l}
    <3>1. ASSUME NEW x \in Tokens
          PROVE  x \in SpentOf(g)' <=> x \in SpentOf(g) \/ x = l
      <4>1. CASE x = l
        BY <1>1, <2>1, <4>1 DEF SpentOf, Stems, Live
      <4>2. CASE x # l
        <5>1. Stems(x, g) => tokens[x].revoked
          BY <2>1, <4>2 DEF IndInv, OneLiveTokenPerGrant, Stems, Live
        <5> QED
          BY <1>1, <4>2, <5>1 DEF SpentOf, Stems
      <4> QED
        BY <4>1, <4>2
    <3> QED
      BY <3>1 DEF SpentOf
  <2>5. Phase(g) = "live" /\ Phase(g)' = "ended"
    BY <1>5, <2>2, <2>3, <2>4, Phases, PhasesNext
  <2>6. Grant!End(g)
    BY <1>4, <1>5, <2>2, <2>3, <2>4, <2>5, EndMaps
  <2> QED
    BY <1>5, <2>6
<1>6. CASE ~(g \in Codes /\ \E l \in Tokens : Live(l) /\ tokens[l].origin = g /\ ~Live(l)')
  <2>1. ASSUME g \in Codes PROVE SameGrant(g)
    <3>1. ASSUME NEW x \in Tokens, Stems(x, g)
          PROVE  tokens'[x].revoked <=> tokens[x].revoked
      BY <1>1, <1>6, <2>1, <3>1 DEF Stems, Live
    <3> QED
      BY <1>1, <2>1, <3>1, RowsAlone DEF Stems
  <2> QED
    BY <1>4, <2>1, GrantsStutter
<1> QED
  BY <1>5, <1>6

\* No grant is in a phase before the first consent.
LEMMA GrantsStart == Init => Grant!Init
<1> SUFFICES ASSUME Init PROVE Grant!Init
  OBVIOUS
<1>1. ASSUME NEW g \in Codes
      PROVE  Phase(g) = "none" /\ LiveOf(g) = {} /\ SpentOf(g) = {}
  <2>1. codes[g].status = "free" /\ LiveOf(g) = {} /\ SpentOf(g) = {}
    BY DEF Init, FreeCode, FreeToken, LiveOf, SpentOf, Live, Stems
  <2> QED
    BY <2>1, InitIndInv, Phases
<1> QED
  BY <1>1 DEF Grant!Init

\* The server implements grants: offered once, redeemed at most once, then one line of
\* tokens in which each is replaced by a new one until the line ends and never resumes.
THEOREM GrantsImplemented == Spec => ImplementsGrants
<1>1. Init => Grant!Init
  BY GrantsStart
<1>2. IndInv /\ IndInv' /\ LinksWithinGrant /\ [Next]_vars => [Grant!Next]_(Grant!gvars)
  <2> SUFFICES ASSUME IndInv, IndInv', LinksWithinGrant, [Next]_vars
               PROVE  [Grant!Next]_(Grant!gvars)
    OBVIOUS
  <2>1. CASE codes' = codes
    <3>1. CASE tokens' = tokens
      BY <2>1, <3>1, TokensAlone, GrantKept, GrantsStutter
    <3>2. ASSUME NEW r \in Requests, NEW t \in Tokens, Inserts(r, t)
          PROVE  [Grant!Next]_(Grant!gvars)
      BY <2>1, <3>2, StartingMaps DEF Grant!Next
    <3>3. ASSUME NEW r \in Requests, NEW t \in Tokens, NEW n \in Tokens, Rotates(r, t, n)
          PROVE  [Grant!Next]_(Grant!gvars)
      BY <2>1, <3>3, RotatingMaps DEF Grant!Next
    <3>4. ASSUME NEW r \in Requests, NEW t \in Tokens, Replay(r, t) \/ Revokes(r, t)
          PROVE  [Grant!Next]_(Grant!gvars)
      <4>1. PICK S : /\ tokens' = Revoked(S, req[r].client)
                     /\ S = {} \/ S = Successors(t) \/ S = Family(t)
        BY <3>4 DEF Replay, Revokes
      <4>2. \A x \in S : x \in Tokens /\ tokens[x].origin = tokens[t].origin
        BY <4>1, FamilyOfGrant, SuccessorsOfGrant
      <4> QED
        BY <2>1, <4>1, <4>2, EndingMaps DEF Grant!Next
    <3> QED
      BY <3>1, <3>2, <3>3, <3>4, TokenSteps
  <2>2. ASSUME NEW r \in Requests, Resume(r), codes' # codes
        PROVE  InsertAuthorizationCode(r) \/ DeleteCode(r)
    BY <2>2 DEF Resume, ConsentCheckArchive, ExchangeCheckArchive, CheckArchive, SelectCode,
       ExchangeClaims, InsertRefreshToken, RefreshCheckArchive, LookupRefreshToken,
       RefreshClaims, TakeForRotation, RevokeRefreshToken
  <2>3. ASSUME NEW r \in Requests, InsertAuthorizationCode(r) \/ DeleteCode(r)
        PROVE  [Grant!Next]_(Grant!gvars)
    BY <2>3, ConsentMaps, RedeemingMaps DEF Grant!Next
  <2>4. ASSUME NEW u \in Users, DeleteUser(u)
        PROVE  [Grant!Next]_(Grant!gvars)
    BY <2>4, WithdrawingMaps DEF Grant!Next
  <2>5. ASSUME codes' # codes
        PROVE  \/ \E r \in Requests : Resume(r)
               \/ \E u \in Users : DeleteUser(u)
    <3>1. ASSUME NEW r \in Requests, Arrive(r) \/ Crash(r) PROVE FALSE
      BY <2>5, <3>1 DEF Arrive, BeginConsent, BeginExchange, BeginRefresh, BeginRevoke, Begin,
         Crash
    <3> QED
      BY <2>5, <3>1 DEF Next, vars, Tick, Administer, ArchiveTenant, UnarchiveTenant,
         SetUserStatus, DeleteClient, UpdateClient, EnableClient
  <2> QED
    BY <2>1, <2>2, <2>3, <2>4, <2>5
<1> QED
  BY <1>1, <1>2, Invariance, LinksInvariance, PTL
     DEF Spec, ImplementsGrants, Grant!Spec

-----------------------------------------------------------------------------
(* How a stored row changes. *)

\* The one change a stored row undergoes, by a request of its client that ends.
Retires(r, x) ==
  /\ ~tokens[x].revoked /\ tokens'[x].revoked
  /\ req[r].client = tokens[x].client /\ req'[r] = IdleRequest
  /\ tokens'[x].expires = tokens[x].expires /\ tokens'[x].scope = tokens[x].scope

\* A revocation of rows of S changes those of the request's client that were usable.
LEMMA RevocationRetires ==
  ASSUME IndInv, NEW r \in Requests, NEW S, tokens' = Revoked(S, req[r].client), Finish(r),
         NEW x \in Tokens, tokens'[x] # tokens[x]
  PROVE  Retires(r, x)
<1>1. /\ x \in S /\ OwnedBy(x, req[r].client)
      /\ tokens'[x] = [tokens[x] EXCEPT !.revoked = TRUE]
  BY DEF Revoked
<1>2. tokens[x] \in TokenRow
  BY DEF IndInv, TypeOK
<1>3. /\ tokens'[x].revoked /\ tokens'[x].expires = tokens[x].expires
      /\ tokens'[x].scope = tokens[x].scope
  BY <1>1, <1>2 DEF TokenRow
<1>4. ~tokens[x].revoked
  BY <1>1, <1>2 DEF TokenRow
<1>5. req'[r] = IdleRequest
  BY DEF Finish, IndInv, TypeOK
<1> QED
  BY <1>1, <1>3, <1>4, <1>5 DEF OwnedBy, Retires

\* A stored row changes once, by a request of its own client.
THEOREM RetirementIsFinal == Spec => OwnerOnlyAndFinal
<1>1. IndInv /\ [Next]_vars =>
        [\A t \in Tokens : tokens[t].stored /\ tokens'[t] # tokens[t] =>
           /\ ~tokens[t].revoked /\ tokens'[t].revoked
           /\ \E r \in Requests : req[r].client = tokens[t].client /\ req'[r] = IdleRequest
           /\ tokens'[t].expires = tokens[t].expires /\ tokens'[t].scope = tokens[t].scope]_vars
  <2> SUFFICES ASSUME IndInv, [Next]_vars, NEW x \in Tokens,
                      tokens[x].stored, tokens'[x] # tokens[x]
               PROVE  \E r \in Requests : Retires(r, x)
    BY DEF Retires
  <2>1. PICK r \in Requests :
          InsertRefreshToken(r) \/ TakeForRotation(r) \/ RevokeRefreshToken(r)
    <3>1. ASSUME NEW r \in Requests, Arrive(r) \/ Crash(r) PROVE FALSE
      BY <3>1 DEF Arrive, BeginConsent, BeginExchange, BeginRefresh, BeginRevoke, Begin, Crash
    <3>2. CASE \/ UNCHANGED vars \/ Tick \/ Administer
      BY <3>2 DEF vars, Tick, Administer, ArchiveTenant, UnarchiveTenant, DeleteUser,
         SetUserStatus, DeleteClient, UpdateClient, EnableClient
    <3>3. ASSUME NEW r \in Requests, Resume(r)
          PROVE  InsertRefreshToken(r) \/ TakeForRotation(r) \/ RevokeRefreshToken(r)
      BY <3>3 DEF Resume, ConsentCheckArchive, InsertAuthorizationCode, ExchangeCheckArchive,
         CheckArchive, SelectCode, DeleteCode, ExchangeClaims, RefreshCheckArchive,
         LookupRefreshToken, RefreshClaims
    <3> QED
      BY <3>1, <3>2, <3>3 DEF Next
  <2>2. CASE InsertRefreshToken(r)
    BY <2>2 DEF InsertRefreshToken, IndInv, TypeOK
  <2>3. CASE TakeForRotation(r)
    <3>1. Finish(r) /\ req[r].token \in Tokens
      BY <2>3 DEF TakeForRotation, IndInv, RequestShape, HandlerShape, At, RefreshPCs
    <3>2. CASE Replay(r, req[r].token)
      BY <3>1, <3>2, RevocationRetires DEF Replay
    <3>3. ASSUME NEW n \in Tokens, Rotates(r, req[r].token, n)
          PROVE  Retires(r, x)
      <4>1. /\ Live(req[r].token) /\ ~tokens[n].stored
            /\ tokens[req[r].token].client = req[r].client
            /\ tokens'[req[r].token] = Retired(req[r].token, n)
            /\ \A y \in Tokens \ {req[r].token, n} : tokens'[y] = tokens[y]
        BY <3>1, <3>3, RotateRows
      <4>2. x = req[r].token
        BY <4>1
      <4>3. req'[r] = IdleRequest
        BY <3>1 DEF Finish, IndInv, TypeOK
      <4> QED
        BY <4>1, <4>2, <4>3, RetiredRow DEF IndInv, Live, Retires
    <3> QED
      BY <2>3, <3>1, <3>2, <3>3 DEF TakeForRotation, Rotate, Rotates
  <2>4. CASE RevokeRefreshToken(r)
    BY <2>4, RevocationRetires DEF RevokeRefreshToken
  <2> QED
    BY <2>1, <2>2, <2>3, <2>4
<1> QED
  BY <1>1, Invariance, PTL DEF Spec, OwnerOnlyAndFinal
=============================================================================
