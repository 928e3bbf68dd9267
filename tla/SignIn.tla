------------------------------- MODULE SignIn -------------------------------
(***************************************************************************)
(* Signing in with a browser: the pages /login, /mfa and /recover/mfa, the *)
(* redirects of proxy.ts, of the console's layout and of                   *)
(* /oauth/authorize, and the session cookie that the tabs share.           *)
(*                                                                         *)
(* A URL is the sequence of its path and of the paths in its callbackUrl:  *)
(* <<"login", "mfa", "authorize">> is /login?callbackUrl=/mfa?callbackUrl= *)
(* /oauth/authorize. One step of a tab is one request with its answer. The *)
(* proxy signs a valid token that came with a request anew into its answer, *)
(* so an answer puts the token *sent* back into the cookie.                *)
(*                                                                         *)
(* Handlers' statements are MfaSecurity's; here a request succeeds or not. *)
(***************************************************************************)
EXTENDS Naturals, Sequences

CONSTANTS
  Tabs,
  MaxRedirects,  \* a browser follows so many redirects (20) and gives up
  NoToken, Nowhere

ASSUME SignInAssumption == MaxRedirects \in Nat /\ MaxRedirects > 3

VARIABLES
  user,    \* the account: second factor on, member of a tenant, platform
           \* administrator, User.credentialVersion
  jar,     \* the session token in the browser's cookie
  tab      \* the tabs

signInVars == <<user, jar, tab>>

\* Pages of the console that need a tenant ("users" stands for all but the first), and those
\* that do not ("profile" for /profile, /invitations and /organizations).
TenantPages == {"home", "users"}
ConsolePages == TenantPages \cup {"profile", "noTenant", "platform"}
Paths == ConsolePages \cup {"login", "mfa", "recover", "authorize", "consent"}
Urls == Seq(Paths) \ {<<>>}

Users == [factor: BOOLEAN, tenant: BOOLEAN, admin: BOOLEAN, version: Nat]
SessionTokens == [waiting: BOOLEAN, tenant: BOOLEAN, version: Nat]

\* What a request can find its session to be; alone: without a tenant.
Kinds == {"none", "waiting", "full", "waitingAlone", "fullAlone"}

\* And what a tab can meet: cut: the account was recovered between the proxy's look and the page's.
Meetings == Kinds \cup {"cut"}

\* A URL with (history) the address its journey set out for and the sessions met on the way.
Places == [url: Urls, goal: Paths, seen: SUBSET Meetings]

Submits == {"idle", "password", "passkey", "verify", "recover"}

\* at: what the tab shows; going: what it is loading; sent: the token that goes with the
\* request; hops: redirects so far; met (history): the sessions they were answered for; gaveUp:
\* those met on a way that had too many; work, lent: the click whose answer the page waits
\* for, and the token sent with it.
TabRecords == [at: Places, going: Places \cup {Nowhere}, sent: SessionTokens \cup {NoToken},
               hops: 0..MaxRedirects, met: SUBSET Meetings, gaveUp: SUBSET Meetings,
               work: Submits, lent: SessionTokens \cup {NoToken}]

SignInTypeOK ==
  /\ user \in Users
  /\ jar \in SessionTokens \cup {NoToken}
  /\ tab \in [Tabs -> TabRecords]

\* Tabs open with the start page of a visitor nobody knows.
FirstPlace == [url |-> <<"login">>, goal |-> "login", seen |-> {}]
NewTab == [at |-> FirstPlace, going |-> Nowhere, sent |-> NoToken, hops |-> 0, met |-> {},
           gaveUp |-> {}, work |-> "idle", lent |-> NoToken]

SignInInit ==
  /\ user \in [factor: BOOLEAN, tenant: BOOLEAN, admin: BOOLEAN, version: {0}]
  /\ jar = NoToken
  /\ tab = [t \in Tabs |-> NewTab]

----
\* The session of a token: auth(), whose jwt callback compares the versions.
Valid(token) == token # NoToken /\ token.version = user.version

Kind(token) ==
  IF ~Valid(token) THEN "none"
  ELSE IF token.waiting THEN (IF token.tenant THEN "waiting" ELSE "waitingAlone")
  ELSE (IF token.tenant THEN "full" ELSE "fullAlone")

HasTenant(kind) == kind \in {"waiting", "full"}
IsWaiting(kind) == kind \in {"waiting", "waitingAlone"}

\* The cookie after an answer that does not set it on purpose.
Refreshed(token) == IF token = NoToken THEN jar ELSE IF Valid(token) THEN token ELSE NoToken

\* searchParams.get('callbackUrl') ?? '/'
Callback(url) == IF Len(url) = 1 THEN <<"home">> ELSE Tail(url)

\* pathNeedsTenant
NeedsTenant(path) == path \in TenantPages \cup {"mfa", "recover"}

\* safeConsoleCallbackPath: back to the login page is no way on.
SafeCallback(url) == IF Callback(url)[1] = "login" THEN <<"home">> ELSE Callback(url)

\* proxy.ts: where a request is sent instead, or the URL itself.
Proxy(url, kind) ==
  CASE kind = "none" /\ url[1] # "login" -> <<"login">> \o url
    [] kind # "none" /\ url[1] = "login" -> SafeCallback(url)
    [] NeedsTenant(url[1]) /\ ~HasTenant(kind) /\ kind # "none" ->
         IF user.admin THEN <<"platform">> ELSE <<"noTenant">>
    [] url[1] = "noTenant" /\ HasTenant(kind) -> <<"home">>
    [] url[1] = "platform" /\ kind # "none" /\ ~user.admin -> <<"home">>
    [] OTHER -> url

\* Mutant: who waits for the second factor is sent to sign in again.
PageToLogin(url, kind) ==
  CASE url[1] = "authorize" -> IF IsWaiting(kind) THEN <<"mfa">> \o url ELSE <<"consent">>
    [] url[1] \in ConsolePages /\ IsWaiting(kind) -> <<"login">>
    [] OTHER -> url

\* The page behind the proxy: the layout of the console asks for the second factor and drops
\* the address; /oauth/authorize keeps it, and goes on to the consent page.
Page(url, kind) ==
  CASE url[1] = "authorize" -> IF IsWaiting(kind) THEN <<"mfa">> \o url ELSE <<"consent">>
    [] url[1] \in ConsolePages /\ IsWaiting(kind) -> <<"mfa">>
    [] OTHER -> url

NextUrl(url, kind) == IF Proxy(url, kind) # url THEN Proxy(url, kind) ELSE Page(url, kind)

----
\* A tab loads a URL, with the cookie as it is then.
Load(rec, place, cookie) ==
  [rec EXCEPT !.going = place, !.sent = cookie, !.hops = 0, !.met = {}]

\* The user opens an address, or follows a link from another site.
Visit(t, path) ==
  /\ tab' = [tab EXCEPT ![t] = Load(@, [url |-> <<path>>, goal |-> path, seen |-> {}], jar)]
  /\ UNCHANGED <<user, jar>>

\* The user loads once more what the tab shows.
Reopen(t) ==
  /\ tab' = [tab EXCEPT ![t] = Load(@, @.at, jar)]
  /\ UNCHANGED <<user, jar>>

\* Where a tab is after an answer to the sessions met.
OnTo(place, url, kinds) == [place EXCEPT !.url = url, !.seen = @ \cup kinds]

\* The answer to the request of a tab: the page, ...
ShowsPage(t, kinds) ==
  tab' = [tab EXCEPT ![t] = [NewTab EXCEPT !.at = OnTo(tab[t].going, tab[t].going.url, kinds)]]

\* ... a redirect, which the browser follows at once, ...
Follows(t, url, kinds) ==
  /\ tab[t].hops + 1 < MaxRedirects
  /\ tab' = [tab EXCEPT ![t] = [tab[t] EXCEPT
       !.going = OnTo(tab[t].going, url, kinds), !.sent = jar',
       !.hops = tab[t].hops + 1, !.met = tab[t].met \cup kinds]]

\* ... or one redirect too many.
GivesUp(t, url, kinds) ==
  /\ tab[t].hops + 1 = MaxRedirects
  /\ tab' = [tab EXCEPT ![t] = [NewTab EXCEPT
       !.at = OnTo(tab[t].going, url, kinds), !.gaveUp = tab[t].met \cup kinds]]

Answered(t) ==
  LET url == tab[t].going.url
      kind == Kind(tab[t].sent)
      next == NextUrl(url, kind) IN
  /\ tab[t].going # Nowhere
  /\ jar' = Refreshed(tab[t].sent)
  /\ \/ next = url /\ ShowsPage(t, {kind})
     \/ next # url /\ (Follows(t, next, {kind}) \/ GivesUp(t, next, {kind}))
  /\ UNCHANGED user

\* What a recovery leaves of the account.
Reset == [user EXCEPT !.factor = FALSE, !.version = @ + 1]

\* The page's own way to the login page: the layout of the console drops the address.
PageLogin(url) == IF url[1] = "authorize" THEN <<"login">> \o url ELSE <<"login", "home">>

\* The proxy lets a request pass, the account is recovered, and the page asks for a login.
CutOff(t) ==
  LET url == tab[t].going.url
      kind == Kind(tab[t].sent) IN
  /\ tab[t].going # Nowhere
  /\ url[1] \in ConsolePages \cup {"authorize"}
  /\ kind # "none" /\ Proxy(url, kind) = url
  /\ user' = Reset
  /\ jar' = tab[t].sent
  /\ Follows(t, PageLogin(url), {kind, "cut"}) \/ GivesUp(t, PageLogin(url), {kind, "cut"})

----
\* The pages: every form and button is disabled while one of them is busy.
SubmitsOn(path) ==
  CASE path = "login" -> {"password", "passkey"}
    [] path = "mfa" -> {"verify"}
    [] path = "recover" -> {"recover"}
    [] OTHER -> {}

SubmitForm(t, what) ==
  /\ tab[t].work = "idle" /\ tab[t].gaveUp = {}
  /\ what \in SubmitsOn(tab[t].at.url[1])
  /\ tab' = [tab EXCEPT ![t].work = what, ![t].lent = jar]
  /\ UNCHANGED <<user, jar>>

\* The token that a sign-in, or a second factor, is given.
TokenFor(waiting) == [waiting |-> waiting, tenant |-> user.tenant, version |-> user.version]

\* The answer to a click is in: the page is no longer busy and loads what comes next.
GoesOn(t, url, goal) ==
  LET place == [url |-> url, goal |-> goal, seen |-> tab[t].at.seen] IN
  tab' = [tab EXCEPT ![t] = [Load(tab[t], place, jar') EXCEPT !.work = "idle", !.lent = NoToken]]

\* onCredentialsSubmit: signIn hands the callbackUrl back, whatever the session is.
SignedIn(t) ==
  /\ tab[t].work = "password"
  /\ jar' = TokenFor(user.factor)
  /\ GoesOn(t, Callback(tab[t].at.url), tab[t].at.goal)
  /\ UNCHANGED user

\* Mutant: the page asks for the second factor and forgets the rest.
AfterPasskeyBare(url) == IF user.factor THEN <<"mfa">> ELSE Callback(url)

AfterPasskey(url) == IF user.factor THEN <<"mfa">> \o Callback(url) ELSE Callback(url)

\* onPasskeyLogin: the answer says whether the second factor is due.
SignedInByPasskey(t) ==
  /\ tab[t].work = "passkey"
  /\ jar' = TokenFor(user.factor)
  /\ GoesOn(t, AfterPasskey(tab[t].at.url), tab[t].at.goal)
  /\ UNCHANGED user

\* submitTotp, submitBackup, passkeyMfa
Verified(t) ==
  /\ tab[t].work = "verify"
  /\ IsWaiting(Kind(tab[t].lent)) /\ user.factor
  /\ jar' = TokenFor(FALSE)
  /\ GoesOn(t, Callback(tab[t].at.url), tab[t].at.goal)
  /\ UNCHANGED user

\* A refusal, an error, or the failure that costs the session (FailureLimit).
Refused(t) ==
  /\ tab[t].work # "idle"
  /\ \/ jar' = Refreshed(tab[t].lent)
     \/ tab[t].work = "verify" /\ IsWaiting(Kind(tab[t].lent)) /\ jar' = NoToken
  /\ tab' = [tab EXCEPT ![t].work = "idle", ![t].lent = NoToken]
  /\ UNCHANGED user

\* onConfirm: factors and sessions are gone; so is the reason for the journey.
Recovered(t) ==
  /\ tab[t].work = "recover"
  /\ user' = Reset
  /\ jar' = NoToken
  /\ GoesOn(t, <<"login">>, "login")

\* signOut, of the page /mfa and of the console.
SignOut(t) ==
  /\ tab[t].at.url[1] \in ConsolePages \cup {"mfa"} /\ tab[t].gaveUp = {}
  /\ jar' = NoToken
  /\ GoesOn(t, <<"login">>, "login")
  /\ UNCHANGED user

----
\* The token expires. (A waiting one does so within ten minutes.)
Expires == jar # NoToken /\ jar' = NoToken /\ UNCHANGED <<user, tab>>

\* Elsewhere the second factor is turned on (in a tenant: the proxy guards /api/security) or
\* off, the account recovered, a tenant joined, or the last one lost. (A removal deletes the
\* account after its last membership, unless it breaks off in between.)
Elsewhere ==
  /\ \/ user.tenant /\ user' = [user EXCEPT !.factor = TRUE]
     \/ user' = [user EXCEPT !.factor = FALSE]
     \/ user' = Reset
     \/ \E b \in BOOLEAN : user' = [user EXCEPT !.tenant = b]
  /\ UNCHANGED <<jar, tab>>

TabStep(t) ==
  \/ \E path \in Paths : Visit(t, path)
  \/ Reopen(t) \/ Answered(t) \/ CutOff(t)
  \/ \E what \in Submits : SubmitForm(t, what)
  \/ SignedIn(t) \/ SignedInByPasskey(t) \/ Verified(t) \/ Refused(t) \/ Recovered(t) \/ SignOut(t)

SignInNext == (\E t \in Tabs : TabStep(t)) \/ Expires \/ Elsewhere

SignInSpec == SignInInit /\ [][SignInNext]_signInVars

----
\* Where a URL leads in the end: past the login page and the second factor.
Destination(path) ==
  CASE path \in {"login", "mfa"} -> "home"
    [] path = "consent" -> "authorize"
    [] OTHER -> path

LeadsTo(url) == Destination(url[Len(url)])

\* The sessions for which an address is not to be had, or forgotten on the way.
Excuses(goal) ==
  {"waitingAlone", "fullAlone"} \cup
    CASE goal \in {"users", "profile"} -> {"waiting", "cut"}
      [] goal \in {"noTenant", "platform"} -> {"waiting", "full", "cut"}
      [] OTHER -> {}

\* Through login, second factor, expiry, reloads and what other tabs do, a tab stays on its
\* way to the address its user set out for. The authorization endpoint and the recovery link
\* are lost only for want of a tenant, a page of the console also for want of the second
\* factor, or when a recovery cuts a request off. (docs: oauth2/page.tsx:268, :271, security/page.tsx:35)
OnTheWay(place) ==
  LeadsTo(place.url) = Destination(place.goal) \/ place.seen \cap Excuses(place.goal) # {}

GoalKept ==
  \A t \in Tabs : OnTheWay(tab[t].at) /\ (tab[t].going # Nowhere => OnTheWay(tab[t].going))

\* No browser gives up on a chain of redirects whose requests all met the same session --
\* except one that waits for its second factor and has no tenant, whose page for the second
\* factor the proxy keeps from it. (proxy.ts, the layout of the console)
RedirectsEnd ==
  \A t \in Tabs : tab[t].gaveUp # {} =>
    "waitingAlone" \in tab[t].gaveUp \/ \E j, k \in tab[t].gaveUp : j # k

=============================================================================
