# ProfileHub: verification project

ProfileHub is a Next.js server for identity and access: accounts, tenants and their members, a
role catalogue, multi-factor login, and an OAuth 2 / OpenID Connect authorization server, with a
console in the browser. All of its lasting state is in one LibSQL database; every request handler
is an async function that talks to it one statement at a time. Most handlers do *not* wrap their
statements in a transaction, several server instances may run at once, and a handler may die
between two statements. In the browser the same holds of `fetch`: answers come in any order, and a
click handler works after an `await` with the values of before. What each component promises
therefore depends on what may happen in between, and that is what these modules model.

Paths below are relative to the repository (`src/lib/...` is the code, `docs/...` its documents).

## Inventory

| Component | State | Operations | Hard part | Modelled in |
|---|---|---|---|---|
| OAuth codes and refresh tokens: `lib/oauth2/store.ts`, `app/oauth/token`, `app/oauth/revoke`, `app/api/oauth/consent` | `OAuth2AuthorizationCode`, `OAuth2RefreshToken` | consent, exchange, refresh (rotation, replay), revocation | concurrent requests, replays, lost answers, archival and account changes in between | `OAuthTokens` |
| OAuth client administration: `lib/oauth2/client-admin.ts`, `app/api/applications/[id]/oauth`, the form page | `OAuth2Client`, a secret in `sessionStorage` | create, edit, remove a client; show a new secret once | read, keep and write back of a hash; a secret whose answer is lost | `OAuthClientAdmin`; its row as the token server sees it: `OAuthTokens` |
| Tenant governance: `lib/data-access.ts`, `lib/governance-policy.ts`, `app/api/users`, `app/api/tenants/*`, `app/api/invitations` | `UserTenant`, `Invitation`, `OwnerTransferRequest` | add, remove, change role, invite, accept, request and confirm a transfer of ownership | check-then-act over several statements | `TenantGovernance` |
| Tenant lifecycle: `lib/tenant-lifecycle.ts`, lifecycle routes | `Tenant.suspendedAt`, `.archivedAt` | founding, suspend, archive | the guard is read once, before the writes | `OAuthTokens`, `TenantGovernance` |
| Accounts: `lib/next-auth-libsql-adapter.ts`, `app/api/profile` | `User` | sign up, disable, delete | cascades of foreign keys | existence and status: `OAuthTokens`, `TenantGovernance`, `SessionClaims` |
| Sessions and claims: `auth.ts`, `lib/auth-token-*.ts`, `proxy.ts` | signed JWT in a cookie, `UserRole` | login, tenant switch, expiry by credential version | claims are a snapshot of the tables; each answer replaces the cookie | `SessionClaims`; version and waiting for the second factor: `MfaSecurity` |
| Multi-factor: `lib/security-data-access.ts`, `app/api/auth/mfa`, `app/api/security/mfa` | `UserMfaSecurity`, `UserBackupCode`, `MfaRecoveryToken`, `RateLimitBucket` | enrol, rotate, verify, disable, recover, rate limit | single use without transactions, recovery in five statements, counters raised and read | `MfaSecurity`; the rate limit: `FailureLimit` |
| Passkeys: `app/api/webauthn`, `app/api/auth/passkey` | `WebAuthnCredential`, `WebAuthnChallenge` | register, edit, delete, login | single use of challenges; a counter compared and overwritten | `MfaSecurity`; the counter: `PasskeyCounter` |
| RBAC catalogue: `app/api/{roles,permissions,features,applications}` | `Application`, `Feature`, `Permission`, `Role`, `RolePermission` | create, update, move, delete | delete-and-reinsert, isolation of tenants | `RbacCatalog` |
| Console, list pages: `app/(dashboard)/{users,roles,permissions,features,applications}` | React state | search, fetch, save, delete | answers out of order, closures of before | `ListPage` |
| Console, profile: `components/profile/profile-security-card.tsx`, `profile-page-client.tsx`, `mfa-encouragement-banner.tsx` | React state, a browser event | turn the second factor on and off, show codes once | handlers that outlive their card, broadcasts against fetches | `ProfileSecurity` |
| Signing in: `app/login`, `app/mfa`, `app/recover/mfa`, `proxy.ts`, `app/(dashboard)/layout.tsx`, `app/oauth/authorize` | the browser's cookie, the URL of each tab | login form, second factor, recovery, redirects, sign-out | the address asked for, in nested `callbackUrl`s; redirects by three hands; tabs that share a cookie | `SignIn` |
| Token signing, userinfo, introspection, logout | none | pure functions, reads | - | not modelled |
| System configuration, other pages, migrations, scripts | - | - | - | not modelled |

Components interact only through the tables, the session cookie and, in the browser, one event: a
handler of one reads rows another writes. The rows shared by OAuth and governance are the tenant's
lifecycle and the accounts; each module has the actions that change them. Second factors and
passkeys belong to one account and meet the others only in the session that a login ends with.
`SessionClaims` has the memberships of `TenantGovernance` and the roles of `RbacCatalog` as
environment (`Join`, `EditRole`). `OAuthClientAdmin` and `ProfileSecurity` contain both
sides of a request, the handler on the server and the click that waits for it; `SignIn` has the
browser's side of what `MfaSecurity` and `FailureLimit` do on the server. `PasskeyCounter` looks closer at one
step of `MfaSecurity`, `SelectKey`.

## How a handler is modelled

A handler is a member of `Requests` with a record `req[r]`: `pc` names its next database
statement, the other fields are the local variables later statements use. One action is one
statement, or one write transaction, with the synchronous code up to the next `await`. The first
action of a handler takes its inputs from the constants' sets; an input that is looked at only by
a write is chosen at the write. `Crash` (in `MfaSecurity` `Stop`, in `SessionClaims` `LoseJob`, in
`RbacCatalog` `Abort`, in `OAuthClientAdmin` `Dies`) ends a handler between any two statements: a
process that dies, or a call that throws. In the browser one action is one click, or one answer
with the code up to the next `await`; `Refuse`, `Unanswered`, `NoAnswer` and the `...Failed` and `...Fails`
actions are the answers that are refusals or do not come.

Assumed of the database (it is a library): statements and `transaction('write')` are atomic and
isolated, and foreign keys are enforced.

History variables and fields are marked as such in the modules; no action reads them, except to
extend them. `burned` (OAuthTokens), `joined`, `tenure` (TenantGovernance), `raced`, `stale`
(handlers), `by`, `spent`, `with` (MfaSecurity), `ever`, `raced`, `late` (SessionClaims), `wish`, `torn`,
`moved`, `alone` (RbacCatalog), `secrets` (OAuthClientAdmin), `own`, `overlapped` (ListPage), `acked`, `seen`, `gone`,
`spoiled`, `crossed`, `heard` (ProfileSecurity), `place` (FailureLimit), `by`, `with` (PasskeyCounter), `goal`, `seen`, `met`, `gaveUp` (SignIn; a tab
that gave up shows the browser's error page, whose buttons are none of ours), the `origin` of a token and the data of deleted codes let
properties speak of the past.

## OAuthTokens

State: the clock `now`, `archived` tenants, account status `user`, client rows `client`, the
tables `codes` and `tokens`. The handlers:

| Handler | Actions | Code |
|---|---|---|
| consent page | `BeginConsent`, `ConsentCheckArchive`, `InsertAuthorizationCode` | `app/api/oauth/consent/route.ts`, `store.ts` |
| code exchange | `BeginExchange`, `ExchangeCheckArchive`, `SelectCode`, `DeleteCode`, `ExchangeClaims`, `InsertRefreshToken` | `app/oauth/token/route.ts`, `store.ts` |
| refresh | `BeginRefresh`, `RefreshCheckArchive`, `LookupRefreshToken`, `RefreshClaims`, `TakeForRotation` | same |
| revocation | `BeginRevoke`, `RevokeRefreshToken` | `app/oauth/revoke/route.ts`, `store.ts` |
| surroundings | `Tick`, `ArchiveTenant`, `UnarchiveTenant`, `SetUserStatus`, `DeleteUser`, `UpdateClient`, `DeleteClient`, `EnableClient` | `data-access.ts`, `client-admin.ts` |

The recursive SQL query over `replacedById` is `Family`: the least set that contains the token
and is closed under the links, written without recursion so that the module can be proved about.

`OAuthGrant` is the abstract specification of one consent: offered, closed once, then one line
of tokens that hands over from holder to holder until it ends for good. `ImplementsGrants`
states that the server implements it, under the mapping at the end of `OAuthTokens`.

## TenantGovernance

State: accounts, tenants and their locks, the three tables, the handlers.

| Handler | Actions | Code |
|---|---|---|
| `POST /api/users` | `BeginCreateUser`, `CreateGuard`, `CreateUserRow`, `CreateMembership` | `users/route.ts`, `createUser` |
| `PUT /api/users/[id]` with a role | `BeginSetRole`, `RoleGuard`, `RoleTarget`, `RoleSelect`, `RoleUpdate` | `users/[id]/route.ts`, `setUserTenantGovernanceRole` |
| `DELETE /api/users/[id]` | `BeginRemove`, `RemoveTarget`, `RemoveGuard`, `RemoveMember`, `RemoveCount`, `RemoveUser` | same, `removeUserFromTenant` |
| invite | `BeginInvite`, `InviteGuard`, `InsertInvitation` | `invitations/route.ts` |
| accept | `LookupInvitation`, `AcceptExisting`, `AcceptJoin`, `AcceptSpend` | `consumeInvitationByPlainToken` |
| request a transfer | `BeginTransfer`, `TransferFrom`, `TransferTo`, `InsertTransfer` | `createOwnerTransferRequest` |
| confirm a transfer | `ConfirmTransfer` (one transaction) | `confirmOwnerTransferRequest` |
| found a tenant | `InsertTenant`, `InsertOwner` | `createTenantAsOwner` |
| lifecycle | `BeginPatch`, `PatchLifecycle`, `PlatformPatch` | lifecycle routes, `setTenantLifecycleFields` |
| accounts, time | `SignUp`, `DeleteAccount`, `ExpireInvitation`, `ExpireTransfer` | adapter, `profile/route.ts` |

Left out: the profile columns written by `updateUser`, business roles (`UserRole`), whether the
caller holds an RBAC permission (a free choice in `Guard`), and the feature switches. An invitation
may be bound to one of the addresses in `Emails`. What the code compares is the address in the
caller's *session*, which the session's `update` may set to anything (`auth.ts:144`) and which need not
be the account's; so `LookupInvitation` takes any address with any account, and
`AdmissionUsesInvitation` speaks of addresses presented, never of whose they are. That an invitation
is used up by whom it admits is the rest of the property: it may stay open only while its handler
stands between the two statements, or because a handler died there (`joined[i].died`). The partial unique index "one owner per
tenant" is deliberately *not* in the model: `AtMostOneOwner` shows the handlers never need it.

`TenantOwnership` is the abstract specification: a tenant is founded, gets a holder, passes to a
user to whom the present holder offered it, and may lose its holder for good.
`ImplementsOwnership` maps the tables to it; the offers of a tenant are the pending requests of
its *present* owner.

## MfaSecurity

One account: every statement of these handlers names one user. State: the `UserMfaSecurity` row
`mfa` (an absent row reads everywhere like `NoRow`), the tables `codes`, `passkeys`, `challenges`,
`recovery`, the account's `version` (`User.credentialVersion`), the `sessions` signed so far, and
the handlers. A request runs once, keeps its record when it has ended, and gives its own name to
what it makes from random bytes: a challenge, a TOTP secret, the salt of a set of codes, a passkey,
a recovery token.

| Handler | Actions after `Begin` | Code |
|---|---|---|
| prepare, confirm TOTP | `ReadRow`, `InsertChallenge`; `ReadRow`, `SelectChallenge`, `DeleteChallenge`, `Enable`, then codes | `security/mfa/totp/*` |
| second factor by passkey | `ReadRow`, `ListKeys`, `Enable`, then codes | `security/mfa/enable-passkey` |
| rotate codes | `ReadRow`, then codes: `DeleteCodes`, `InsertCode` (each), `ReadSalt`, `WriteSalt` | `security/mfa/backup/rotate`, `replaceUserBackupCodes` |
| disable | `ReadRow`, `DeleteCodes`, `DeleteRow` | `security/mfa/disable` |
| register, edit, delete a passkey | `InsertChallenge`; `SelectChallenge`, `DeleteChallenge`, `InsertKey`; `PatchKey`; `DeleteKey` | `app/api/webauthn` |
| login by password, by passkey | `ReadRow`, `IssueSession`; `ListKeys`, `InsertChallenge`; `SelectChallenge`, `DeleteChallenge`, `SelectKey`, `ReadRow`, `IssueSession` | `auth.ts`, `auth/passkey` |
| second factor: TOTP, code, passkey | `ReadRow`, (`SelectCode`, `UseCode`) or (`SelectChallenge`, `DeleteChallenge`, `SelectKey`), `IssueSession` | `auth/mfa/verify` |
| recovery | `ReadRow`, `DeleteTokens`, `InsertToken`; `SelectToken`, `UseToken`, `DeleteKeys`, `DeleteCodes`, `DeleteRow`, `RaiseVersion` | `auth/mfa/recovery`, `nuclearMfaRecoveryForUser` |

`Begin` reads the version through the session gate: a request on a session starts only while a
session with the present version exists. `Stop` stands for every refusal, exception and crash.
`Enable` is an upsert that gives all three columns, so its read of the row is not a step of its
own; the upsert of the salt is two (`ReadSalt`, `WriteSalt`), because the columns it does not
change are written back as read. The history field `with` records which requests were in flight
together, and the properties are stated with it: the tables are written without conditions or
transactions, so what these handlers promise, they promise except to requests that overlap.
Passwords, TOTP digits and signatures are right, or the handler stops (the code keeps no record of TOTP
digits used, so their reuse within a window is not spoken of). Left out: the failure counter
(`FailureLimit`), signature counters (`PasskeyCounter`), the uses a registration's challenge carries (chosen when the
passkey is stored), the audit row, the `Session` table (sessions are signed tokens), tokens signed
before versions existed, the status of the account; an expired session is one nobody presents.

What the model shows of overlapping requests, by design of the code and so in the properties'
exceptions: two requests in flight together may use one code, challenge or recovery token; a
rotation that overlaps a disabling or a recovery writes the old row back, second factor and TOTP
secret included; a recovery that dies after deleting the row leaves the sessions valid and its
token used, and the user cannot ask for another while the row says "off". A TOTP setup prepared
before a recovery can be confirmed after it by a new session.

## FailureLimit

The limit on wrong second factors. State: the `clock`, the counts `bucket` of a key and a window, the
attempts in flight, each with its account and its address. An attempt that fails raises and reads the count
of its account, then that of its address (`RaiseUser`, `ReadUser`, `RaiseIp`, `ReadIp`: the four statements of
`mfaFailIncrementAndCheckRevoke`), and its answer clears the session when a count it has read is at the
limit. Other attempts, in other server processes too, come in between; an attempt counts in the window of its
arrival, however late it is. Whether what was typed is right is a free choice. `Breaks` are the refusals
that are not counted, and errors.

The limit is one of *answers*: a cookie that is cleared is a cookie the browser drops. It says nothing of
who kept the cookie's old value, or signs in again; the counts of the window go on then.

## PasskeyCounter

The signature counter of one passkey, in the two handlers that verify a signature. State: the counter of the
authenticator (`device`), the row, the signatures made with the state of their challenges, the answers that bring them.

| Part | Actions | Code |
|---|---|---|
| authenticator | `Sign`: a higher count, or always 0 | the browser and the device |
| verification | `Delivered`, `TakesChallenge`, `DropsChallenge`, `ReadsCounter` (`Fits`), `StoresCounter` | `auth/passkey/login-verify`, `auth/mfa/verify` |
| surroundings | `Lapses`, `BreaksOff` | expiry, refusals, errors |

`Fits` is what the library compares. An answer may be delivered late, and twice. The count is read by one statement
and stored by another that does not look at the row again, so answers that overlap may set it back; that they must
overlap is the property.

## SignIn

State: the account (second factor, membership, platform administrator, credential version), the session
token in the `jar` of the browser, and the tabs. A URL is the sequence of its path and those nested in its
`callbackUrl`.

| Part | Actions | Code |
|---|---|---|
| requests for a page | `Visit`, `Reopen`, `Answered` (`ShowsPage`, `Follows`, `GivesUp`) by `Proxy` and `Page` | `proxy.ts`, `app/(dashboard)/layout.tsx`, `app/oauth/authorize` |
| a request whose account is recovered between the proxy's look at the session and the page's | `CutOff`, by `PageLogin` | same |
| login page | `SubmitForm`, `SignedIn`, `SignedInByPasskey` | `login-form.tsx` |
| second factor | `SubmitForm`, `Verified`, `SignOut` | `app/mfa/page.tsx` |
| recovery | `SubmitForm`, `Recovered` | `app/recover/mfa/page.tsx` |
| any form | `Refused` | the `finally` of each |
| surroundings | `Expires`, `Elsewhere` | `session-cookie-set.ts`, other devices and administrators |

The proxy signs a valid token that comes with a request anew into its answer (`Refreshed`; the library
does it), so an answer that is late puts an older token back; it is valid, or gone, all the same.

What the model shows, by design of the code and so in the properties' exceptions:

- A session that waits for its second factor and has no tenant is sent round in a circle: `/mfa` needs
  a tenant, so the proxy sends it to `/no-tenant` or `/platform`, whose layout sends it to `/mfa`. An account that
  turned its second factor on has no tenant when a removal broke off before it deleted the account.
- The layout of the console sends to a bare `/mfa`: after a *password* login the address of a
  console page is lost behind the second factor, after a passkey login it is kept.
- The layout looks at the session again, after the proxy. If a recovery came between, the layout itself sends to
  `/login?callbackUrl=/`, and the address is lost; `/oauth/authorize` keeps it (`CutOff`).
- When a session expires on `/mfa?callbackUrl=...` and the user signs in with a passkey, the address is
  nested twice, and the second factor leads to another `/mfa`, with a full session that it refuses; the
  address is still in the URL.
- `/recover/mfa` is behind the login: a visitor who follows the link to it on the login page is sent back
  there, and sees its form, which asks for e-mail and password, after he has signed in with them.

Left out: what `proxy.ts` answers to calls of the API, addresses of other origins (`safeConsoleCallbackPath`
drops them), and the pages under `/docs`, which are open to all.

## SessionClaims

State: accounts, memberships, `UserRole` as `holds`, the codes each role gives, the claims in each
user's `cookie`, and the jobs in flight.

| Handler | Actions | Code |
|---|---|---|
| login | `Login`, `ReadMemberships`, `ReadCodes`, `SetCookie` | `resolveJwtTenantClaims`, jwt callback of `auth.ts` |
| switch the tenant | `SwitchTenant`, `FillCodes`, `ReadMembership`, `ReadCodes`, `SetCookie` | jwt callback, `applyTenantSwitch` |
| any other request | `Visit`, `ReadCodes`, `SetCookie` | jwt callback |
| create a user, change roles | `CreateUser`, `InsertMember`; `Assign`, `CheckMember`, `ClearRoles`; then `NextRole`, `InsertRole` | `createUser`, `updateUser` |
| remove a member | `Remove`, `DeleteRoles`, `DeleteMembership`, `CountMemberships`, `DeleteAccount` | `removeUserFromTenant` |
| surroundings | `CloseAccount`, `Join`, `EditRole` | `deleteUserAccountGlobally`, invitations, `updateRole` |

A handler decodes the cookie when it starts and its answer replaces the cookie, so a late answer
brings an older token back; what a token says was nevertheless true once (`CodesWereHeld`). The
permission guard reads the tables and not the token, so what protects a tenant from a removed
member is `RolesFollowMembership`. Its exception is a gap of the code: roles are inserted one by one
after a single look at the membership, and a removal in between leaves a role without a member,
which works again after a new invitation. Left out of the claims: the governance role and the
platform flag, which are read and written together with the tenant.

## RbacCatalog

State: the three levels `app`, `feature`, `perm` (the parent of each row), the tenants of the roles
`owner`, and `grants`. What one statement does is one action (`CreateApplication`,
`DeleteApplication`, `DeleteRole`); the other handlers look at the tenant first and write by id:
`CreateFeature`/`InsertFeature`, `UpdateFeature`/`WriteFeature`, `DeleteFeature`/`RemoveFeature`, the same for
permissions, and the save of a role: `CreateRole`, or `UpdateRole`, `SelectRole`, `ClearRole`; then
`NextPermission` and `InsertGrant` for each permission, and `RoleSaved`. Identifiers are not used twice
(`fresh`). `DropPermissions` and `DropFeatures` are the cascades. Names, codes and descriptions are
left out: a value in use is a refusal (`Abort`).

What the model shows, by design of the code and so in the properties' exceptions: a feature is
moved to another parent by its id, after a look at the *new* parent only, so that a tenant may take
a feature of another one; a save that dies, or meets another, leaves the role with fewer, or other,
permissions until the next save.

## OAuthClientAdmin

One application and the tabs that edit its client. State: the rows `site`, the `form` of each tab
(mode, secret field, banner, `sessionStorage`), the request of each tab, the number of secrets
`minted`.

| Part | Actions | Code |
|---|---|---|
| form page | `Visit`, `GoAway`, `VisitOther`, `DismissSecret`, `Save` | `application-idp-form-page.tsx` |
| POST | `Look`, `InsertClient`, `RenameAfterInsert`, `ReadBack` | `enableOAuthForApplication` |
| PUT | `Look`, `ReadHash`, `WriteClient`, `ReadBack` | `updateOAuth2ClientAdmin` |
| DELETE | `Erase` | `deleteOAuth2ClientAdmin` |
| answers | `Edited`, `Created`, `Replaced`, `NoAnswer`, `Dies` | `handleSubmit` |

A secret is stored as a hash and shown once, so two things matter: what is on the screen is what
is stored, and what is stored was on a screen. Both have exceptions the code really has: an edit
writes back the hash it read, and a name in use is noticed after the client was inserted. The
number of features, which decides whether a removal takes the application along, is a free choice.

## ListPage

One of the five list pages, chosen in `PageInit`, for one session whose claims decide what is
`Offered`. A fetch carries its number, the search it was sent for and the version of the tables at
that moment. It asks for one list, on the features page for two, on the permissions page for three,
waits until all have answered, and then reads and shows one after the other with an `await` before
each (`setX(await xRes.json())`): `ShowList` and `ShowLast` show the next list of any fetch in flight,
`FetchFails` may end a fetch between two lists, and what is shown stays. Each list on the screen
remembers which fetch it came from and which version it was read at, so that lists of several
fetches can stand beside each other. `Submit`, `ServeSave`, `SaveAnswered` or `SaveFailed`, and
`ConfirmDelete`, `ServeRemoval`, `RemovalAnswered` or `RemovalFailed`, are the two requests, each with
the search of its closure. What rows contain is left out (the tables are a version number), and so
are the lists that the users and roles pages fetch once, for the choices in their dialogs.

Because fetches mix, the code does not keep the promise one would like, that after the latest fetch
every list is up to date: an older one that was under way when the latest was sent may have put a
list of its own back. `OwnChangeShown` names this exception (`overlapped`, and the list is an older
fetch's) and no other. `ListShowsSearch` speaks of the first list, the only one that is searched.

## ProfileSecurity

The security card, the page that unmounts it while it reloads the profile, and the banner of the
console. The server is the history `enabled` of one flag, with the TOTP challenges that are `live`
and the number of sets of codes `issued`; `MfaSecurity` has the statements behind a request.
`Press` starts a handler, `Serve...` and `Refuse` are the server, `AnsweredAtOnce`,
`AnsweredThenLoad` and `Unanswered` its answer; `LoadAnswered` shows and broadcasts a status;
`CloseCodes` closes the dialog; `Reload` and `Reloaded` change the mount; `Visible`, `BannerAnswered` and `Dismiss` are the banner. A
handler of a card that is gone runs on, and what it sets is lost.

New codes are state of the card (`card.codes`) and come on the screen (`OnScreen`) only while nothing
loads: the answers of `confirmTotp` and `enablePasskeyMfa` are followed at once by `load()`, and a
card that loads returns a line without the dialog. Codes count as `seen` when they are on the screen.
If the page reloads the profile before that load is over, the card takes them along unseen
(`Reload`, `gone`); `CodesReachUser` names this, besides a lost answer and an answer that found no card.

## Runs

`MC*.tla` give the constants their values. Where one run asks about components that share no
table, or about several groups of handlers, a variable `focus` is chosen in the initial state and
never changed: it says which actions the behaviour may take, so that each group has two handlers in
flight without the product of all groups. The bounds are comments of the MC modules.

| Run | Instance | Shows |
|---|---|---|
| `oauth_races` | 2 requests, 1 code, 3 tokens, clock to 2 | all interleavings of exchange, refresh, replay, revocation, crash: a code is redeemed once, a grant has one usable token, a burned grant stays dead, the grant implements `OAuthGrant`; the inductive invariant `IndInv` holds |
| `oauth_clients` | focus `admin`: 1 request, 2 client configurations, every administrative action; focus `isolation`: 2 clients, 2 codes, 3 tokens | only requests in flight at an archival issue afterwards; rotation neither widens scope nor prolongs expiry; only a token's own client retires it, and retirement is final |
| `oauth_archive_race` | as `admin` | violated: "an archived tenant is issued nothing" |
| `gov_handlers` | 2 users, 2 tenants, 2 addresses, 1 invitation, 1 transfer; focus `all`: every action, one handler; focus `members`: two handlers that invite, accept, remove, found | stale checks come from races only; an invitation that admitted somebody is used up, or its handler died, and it admits with no other address than its own; a removal costs another tenant its owner only in a race |
| `gov_transfers` | 2 users, 3 transfers, 2 requests; handlers on ownership | at most one owner, requests die with the tenure, `TenantOwnership` is implemented; `GovInv` holds |
| `accounts` | focus `factors`: 2 requests beside the account's past, 2 backup codes; focus `roles`, `tokens`: 1 user, 2 tenants with a role each, 2 jobs | factors: things are used once but by overlapping requests; a recovery leaves nothing of before; no login gets past the second factor; the codes shown are stored; Claims: who is no member holds no role but in a race; a session names only codes its user held; focus `limit`: 3 attempts, 2 accounts, 2 addresses, limit 2, windows of 2: fewer failures than the limit keep their session, and only as many cost it; focus `counter`: 3 answers with 2 signatures, counts to 3: a counter falls only when answers overlap, and refuses only behind a later one |
| `catalog` | focus `saves`, `tree`, `both`: 2 handlers; 2 tenants, applications, features and permissions, 1 role; focus `client`: 2 tabs, 2 secrets | a role grants what was saved; permissions cross tenants only by moves; the secret shown is the secret stored, and it is shown |
| `console` | focus `list`: 2 search terms; users page: 4 fetches, 3 versions; permissions page with its 3 lists: 3 fetches, 2 versions, one change at a time; focus `card`, `banner`: 2 handlers, 3 loads; focus `journey`: one tab, any address, 4 redirects; focus `tabs`: two tabs bound for the authorization endpoint | the searched list settles on the search, every list on the user's own change unless an overlapped fetch puts its own back; flags come back; codes reach the screen behind the load that hides them; a setup stays usable; the banner does not deny what the card said; the address asked for is kept, and redirects end |
| `gov_removed_owner`, `gov_invitation_twice`, `gov_member_deleted`, `gov_locked_transfer` | small | violated: four promises of documents and comments (findings below) |

Why the bounds are enough to be interesting: three tokens are the shortest chain in which a replay
must follow more than one link; two requests race on every pair of statements; three transfers let
ownership go away and come back with a request left over from the first tenure; two tenants let an
account own one and be removed from the other. In the focus `factors` request `p` stands for the
past: it has left a passkey, a challenge of each kind, a recovery token, sessions and perhaps a set
of codes, so that two more requests suffice for each pair of handlers to meet at each pair of
statements, and for one to follow the other; two codes show a set half deleted, half inserted. A
role per tenant shows a role of the wrong tenant in a body; a token without codes shows the filling
in. In `catalog` each tenant has an application, so that a feature can move across; two secrets are
one that is replaced and one that replaces it. On a page of one list four fetches are the first one, one of a new search
and one after each of a save and a deletion; three versions are the first and two changes, the
page's own or another's. With three lists, two fetches that overlap and a third show every way of mixing
two of them, and one change is enough to tell old lists from new; the features page, with two lists,
lies between. Two addresses let an invitation meet the right one and a wrong one. The card has two handlers because one button can be pressed while another
waits, and three loads because two mounts and a change load once each. The clock reaches both
lifetimes. Three attempts at a limit of two are one more than may fail, on two accounts from one address or on one
account from two. Three answers and two signatures are the first and the second
signature and one of them twice. A journey has 4 redirects, one more than `RedirectsEnded` proves that one session
can meet; its user sets out once, and the account is recovered at most once. The parameters of the code, 5 failures, 600
seconds and the browser's 20 redirects, are among the values for which the theorems hold. `CHECK_DEADLOCK FALSE` is set where the restricted behaviour can really stop: when every
account is closed, every request of `factors` has ended (a request runs once), or a bound is
reached.

## Liveness and fairness

One liveness property is claimed, `ListSettles`: the loading line and the buttons of a list page
come back (run `console`). It assumes weak fairness of `FetchEnds`, `SaveEnds` and `RemovalEnds` (`PageFairness`): the
promise of a `fetch` settles, with an answer or an error, and the `finally` of the handler runs
then. Nothing is assumed of the user or of the server: a save that is never served ends as
`SaveFailed`. The handlers of the server run once, on demand; there is no scheduler, queue or
retry in this code, and what a client waits for it may simply not ask for again, so nothing else
is claimed.

## Findings

Each is a violation run with the quoted promise in `PROJECT.json`.

1. `oauth_archive_race`: `lib/tenant-lifecycle.ts:30` says an archived tenant is issued nothing;
   the check is read once and a code or token is stored later. `oauth_clients` bounds the window.
2. `gov_removed_owner`: `docs/governance-matrix.md:33` says the owner cannot be removed; a
   transfer confirmed between the check and the `DELETE` makes the removal hit the new owner. `lib/data-access.ts:797-813`
   changes a role with the same gap.
3. `gov_invitation_twice`: the console says a code can be used once; two users can.
4. `gov_member_deleted`: `lib/data-access.ts:988` deletes accounts without membership; the count
   may be out of date.
5. `gov_locked_transfer`: `CONTEXT.md:45` says a locked tenant refuses changes; the transfer of
   ownership does not look.

## Proofs

`OAuthTokensProofs` proves, for any constants that satisfy the four assumptions of `OAuthTokens`
(any number of clients, codes, tokens and concurrent requests, any bound of the clock):

- `Invariance`: `Spec => []IndInv`; and from it
- `TypeCorrect`, `CodesRedeemOnce`, `OneLiveToken`, `ReplayEndsGrant`, `TokensWithinConsent`,
  `ExpiryIsAbsolute`: the safety properties the runs check;
- `RacesOnlyIssue` (`OnlyRacesIssueWhileArchived`), `RetirementIsFinal` (`OwnerOnlyAndFinal`);
- `GrantsImplemented`: `Spec => ImplementsGrants`, the refinement of `OAuthGrant`.

The refinement needs one more invariant, `LinksWithinGrant` (a token's successor belongs to its
grant), so that what happens to one line leaves the others alone; the rest follows the four ways the
token table changes. Its proof found an overlap of two arms of the mapping of phases, `Phase`,
harmless in TLC, which takes the first.

`IndInv` strengthens the properties by what handlers have established (`HandlerShape`), by
`LinkShape` (only retired tokens are linked, to stored ones), by `BurnedHasToken`, and by the
heart of the argument, `LiveReachable`: from every retired token of a grant the links lead to its
usable one, if there is one. That is why a replay of *any* old token ends the grant, and why
nothing else has to be remembered. `FamilyStep` and `SuccessorsGrow` say how families change,
`TokenSteps` lists the four ways the token table may change in any step (insert, rotate, revoke
some rows, nothing), and one lemma `Next...` per conjunct of `IndInv` argues over those four
instead of over all actions. `HandlerSteps` and `ShapeKept` do the same for the handlers. The
assumptions keep `None` apart from the values of the rows and give the configurations their types.

`TenantGovernanceProofs` proves, for any sets of users, tenants, invitations, transfers and
requests, assuming only that `None` is none of their members:

- `Invariance`: `Spec => []GovInv`; and from it
- `TypeCorrect`, `OneOwner`, `RequestsDie`: `TypeOK`, `AtMostOneOwner`, `RequestsDieWithTenure`;
- `InvitationsUsedUp`, `OnlyRacesAreStale`, `OwnersLostByRace`: `AdmissionUsesInvitation`,
  `StaleOnlyByRace`, and the action property `OwnerLostOnlyByRace`;
- `OwnershipImplemented`: `Spec => ImplementsOwnership`, the refinement of `TenantOwnership`.

`GovInv` strengthens the two properties by what they need to survive a step. That a tenant has at
most one owner rests, when a tenant is founded, on nobody having owned it before: `FounderAlone`
says that one handler founds a tenant and that its tenure is 0 until then. That old requests are
dead rests on the confirmation cancelling *all* pending requests of the tenant, and on the tenure
of a row being that of its insertion (a handler that is late inserts into the present tenure, in
which its author may not be the owner; the request then stays unconfirmable). `HandlerShape`,
`InvitationShape` and `TransferShape` say that rows and handlers name tenants that exist. The
invariant is split into a half about the tables and a half about the handlers (`Halves`): the
tables change in nine ways, one lemma each (`MembershipWritten`, `AccountDeleted`, `Confirmed`,
...), and a handler starts, goes on, ends or is passed by (`HandlerStarts`, `HandlerGoes`,
`HandlerEnds`, `NobodyMoves`); every action combines one of each.

What handlers act on needs their history. `AdmissionInv` follows an acceptance from the look at the
invitation to the mark on it: only with the address it is bound to does one get that far
(`AdmissionHandler`), the mark comes after somebody joined (`AdmissionRow`), and between the two a
handler is about to mark it, or died (`AdmissionMarked`). `Started` says that a tenant in which anybody is a member, is invited or acts has had
an owner, so that `CurrentInv` can say for each statement what the handler still knows, or that it is
`stale`; for the handlers that take no step, `Told` is the one condition on every other step.
`OwnersLostByRace` follows from `CurrentInv`. The refinement needs only `GovInv` and that nobody asks
for a transfer to himself (`EndsDiffer`): a step that leaves owners and countable requests alone
(`SameOwnership`) is a stutter, and each of the others maps to the step of its lemma (`...Maps`). The proof
found a case no small instance has: a handler can make a tenant lose its owner without any account going,
which `Depart`, as it was, allowed only where some user had no offers to lose. It names the
tenants and the accounts apart now.

`MfaSecurityProofs` proves, for any sets of requests and codes, assuming that `None` is no request
and there is at least one code:

- `InductiveInvariance`: `Spec => []MfaIndInv` (`TypeOK /\ MfaInv`); and from it
- `TypeCorrect`, `SingleUse`, `RecoveryIsComplete`, `LoginsRespectMfa`: `TypeOK`,
  `UsedTwiceOnlyTogether`, and the action properties `RecoveryLeavesNothing` and `NoLoginPastMfa`;
- `CodesWork`, `WritesBackWhatIsThere`: the action properties `ShownCodesWork` and
  `WriteBackOnlyInRaces`.

That a thing is used twice only by overlapping requests needs three facts: it is made once
(`AllMade`), what was used is gone or marked and stays so (`SpentIsGone`), and who still holds it
met the user (`HeldTogether`: the holder took it before it was used, and both are in flight when
it is). A recovery is complete because `Swept` says, statement by statement, what it has deleted
so far and that only requests it meets can have put something back; `LoginsMeetEnabling` follows a
login from its read of the row to its session. `Encounters` is what makes "met" usable: requests in
flight have met. `StepChange` says once and for all how a step may change a handler's record, `CodeSources`,
`ChallengeSources`, `TokenSources`, `KeySources` and `RowSources` what it may add to a table; each
conjunct has one lemma for a step (`...Kept`) and one for an arrival (`...OnArrival`).

A new set of codes needs `IssueInv` beside it. `Paths` and `IssuingSteps` name the five kinds of steps
by which a handler gets to its codes; `AloneInv` says, for one that met no other that issues or wipes
codes, what is in the tables after each of them. That a login by backup code cannot use one of the set
before it is complete is `SaltsSettled`: a salt that can be read belongs to a handler that is done.

`Spec` starts with an account that has no second factor; the run starts from the two states the
past can leave, which `Spec` reaches (with more requests than TLC can take) up to the names of
requests.

`OAuthClientAdminProofs` proves, for any number of tabs, `ClientTypeCorrect`, `ScreenIsRight` and
`SecretIsDelivered` (`ClientTypeOK`, `ShownSecretWorks`, `SecretReachesScreen`) from `AdminInv`: a
request has a secret to show only once it chose what to store, and stores what it shows or else
what it read (`CallShape`); every secret on its way to a screen is the client's or was retired
(`Honest`); the client's secret, and one that an edit has read and will write back, has reached
the browser or was lost in a way the property names (`ReadReached`).

`RbacCatalogProofs` proves, for any numbers of tenants, rows and handlers, `CatalogTypeCorrect`,
`ForeignGrantsWereMoved`, `SavedRolesAreRight` and the action property `CrossingsAreMoves`
(`CatalogTypeOK`, `ForeignGrantOnlyByMove`, `RolesAsSaved`, `OnlyMovesCrossTenants`). `TableInv` is the
keys and cascades, with `FreshUnused`: an identifier not yet given is in no table. `Drift` bounds what
*any* step may do to a row somebody has looked at (it stays, goes for good, or moves and is in `moved`
then); with it `HandlerOK`, what a handler knows of the rows it looked at, survives the steps of
all others. For `SavedRolesAreRight` the invariant `SaveInv` follows a save: what it has
inserted, what is pending, and that it is the only one unless `torn` or not `alone`. The proof found a case no
instance with two tenants has: the new parent of a moved feature may itself be moved, by a third tenant,
between look and write. `OnlyMovesCrossTenants` names it now.

`SessionClaimsProofs` proves, for any numbers of users, tenants, roles and handlers, `ClaimsTypeCorrect`,
`RolesFollow` and `SessionCodesWereHeld` (`ClaimsTypeOK`, `RolesFollowMembership`, `CodesWereHeld`) from
`ClaimsInv`: what is held now was held (`HeldEver`), so are the codes of every cookie and of every
answer under way (`RowOK`), and an assignment of roles that is not `late` still has the membership it
looked at. Between the two statements of a removal its target holds no role there, unless an
assignment raced it.

`ConsoleProofs` proves of `ListPage`, for any sets of terms and any numbers of fetches and changes, `PageTypeCorrect`,
`SearchShown` and `ChangeShown` (`PageTypeOK`, `ListShowsSearch`, `OwnChangeShown`) from `PageInv`.
The invariant is about the *latest* fetch: `Counted` says its number is unique, `LatestSearch` that it
was sent for the search in the field unless a change sent it, `LatestSinceOwn` that it was sent after
the user's last acknowledged change. Whether it is still in flight or has been shown does not matter,
which is why the order of the answers does not either. `Unmixed` is what holds of several lists: if no
fetch was under way when the latest was sent, every list it has shown is still there.

Of `ProfileSecurity` it proves, for any number of clicks, `CardTypeCorrect`, `SetupStaysUsable`,
`CodesAreShown` and `BannerKeepsUp` (the four properties of the module) from `CardInv`. `BusyInv`: a load
is awaited by one handler, which waits for nothing else, and no two handlers share the card's flag. `SetupInv`: a
setup on its way is nobody else's, so that the confirmation of an *older* card, which may still be running,
cannot use up the one on the screen. `BannerInv`: the last load began after the last change, and once it has told
the banner, every answer that can still replace what the banner shows is as new. `DialogInv`: what is on the
screen has been seen, and codes that a load still hides are not overwritten by others, because no handler
that could bring some is at work on this card.

`SignInProofs` proves of `FailureLimit`, for any numbers of attempts, accounts and addresses, any limit and any
window, `LimitTyped`, `LimitHolds` and `LimitJustified` (`LimitTypeOK`, `FailuresAreLimited`, `RevokedForCause`)
from `LimitInv`. The history `place` is the number an attempt's raise made of its count. The places of a row are
the numbers from 1 to its count, each taken once (`PlacesWithin`, `PlacesDistinct`, `PlacesTaken`): so those that
keep their session, having read a count below the limit that is no less than their place (`HasCounted`), are fewer
than the limit, and a count at the limit has as many attempts behind it. Nothing is assumed of the order in which
statements of different attempts come; that raising is *one* statement is what the argument rests on.

Of `PasskeyCounter` it proves, for any numbers of answers and signatures, `CounterFalls` and `NoLockOut`
(`CounterFallsOnlyTogether`, `RefusedForLater`) from `CounterInv`. `Overtaken` is the point: who has compared the
count and is about to store one lower than there is now has met the one that stored it. `Counting` and `StoredBy`
say where the stored count comes from: a registration, before which nothing was signed, or an answer accepted.

Of `SignIn` it proves, for any number of tabs and any bound of redirects above 3, `SignInTyped`, `GoalsKept` and
`RedirectsEnded` (`SignInTypeOK`, `GoalKept`, `RedirectsEnd`) from `SignInInv`. That addresses are kept needs the
shape of the URLs (`GoodUrl`: what is nested in front of an address are pages of signing in), since each
hand that redirects takes off the front of a URL, or adds to it. That redirects end needs a rank: a request with one session is
sent on at most three times, and `NearlyThere` says that the redirects a tab had and the `Rank` of the page it is
loading are together at most 3, as long as all of them met the same session.

The type invariants of `SessionClaims`, `RbacCatalog`, `OAuthClientAdmin`, `ListPage`, `ProfileSecurity`,
`FailureLimit`, `PasskeyCounter` and `SignIn`, and the inductive invariant `MfaIndInv` with that of `MfaSecurity`, are
proved and in no run. Every
property of a passing run is proved but one: liveness (`ListSettles`) is model-checked only.

## Not modelled

- Profile fields, passwords, e-mail addresses: single updates of single rows; the reload they cause
  in the console is in `ProfileSecurity`.
- The governance role and the platform flag in a session's claims: read and written with the tenant.
- Token signing, userinfo, introspection, logout: functions of signed values and reads of one row.
- System configuration, organization reads: an upsert of one row, and reads.
- Pages of organizations and invitations, the toast, translations, documentation: one request each and static text.
- Migrations, seed and deployment scripts: run once, by hand, with the server stopped.

## Plan

Order: what decides over access first, then what is derived from it, then the console.

1. `OAuthTokens`, `OAuthGrant`, `OAuthTokensProofs`: done.
2. `TenantGovernance`, `TenantOwnership`, `TenantGovernanceProofs`: done.
3. `MfaSecurity`, `MfaSecurityProofs`: done. An abstract `MfaLogin` (one factor, two factors,
   recovered) would say what the whole promises.
4. `SessionClaims`, `OAuthClientAdmin`, `RbacCatalog` and their proofs: done.
5. `ListPage`, `ProfileSecurity` and their proofs: done.
6. `FailureLimit`, `PasskeyCounter`, `SignIn` and their proofs: done.

Every safety and action property and both refinements are proved; liveness, `ENABLED` and induction
over data stay with TLC.
