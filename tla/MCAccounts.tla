---- MODULE MCAccounts ----
(***************************************************************************)
(* Small instances of MfaSecurity, SessionClaims, FailureLimit and         *)
(* PasskeyCounter for TLC.  They share no table, so a behaviour runs one   *)
(* of them: `focus` names it and the variables of the others rest.         *)
(***************************************************************************)
EXTENDS MfaSecurity, SessionClaims, FailureLimit, PasskeyCounter, TLC

CONSTANTS p, r1, r2, k1, k2, u1, n1, n2, role1, role2, x1, j1, j2, a1, a2, a3, ip1, ip2, z1, z2, s1, s2

MCRequests == {p, r1, r2}
TwoCodes == {k1, k2}
OneUser == {u1}
TwoTenants == {n1, n2}
TwoRoles == {role1, role2}
OnePermission == {x1}
TwoJobs == {j1, j2}
RoleOfEach == role1 :> n1 @@ role2 :> n2

ThreeAttempts == {a1, a2, a3}
TwoAccounts == {z1, z2}
TwoAddresses == {ip1, ip2}
TwoSignatures == {s1, s2}

VARIABLE focus

\* The past: request p stands for all that was done before. It registered a
\* passkey, prepared an enrolment, or finished it and asked for a recovery; the
\* account has a full and a waiting session.
Past(on) ==
  /\ mfa = IF on THEN [enabled |-> TRUE, secret |-> p, salt |-> p, by |-> p] ELSE NoRow
  /\ codes = IF on THEN {[hash |-> <<"code", <<p, c>>>>, used |-> FALSE] : c \in Codes} ELSE {}
  /\ passkeys = {[key |-> p, canLogin |-> TRUE, canMfa |-> TRUE]}
  /\ challenges = Kinds \X {p}
  /\ recovery = IF on THEN {[token |-> <<"recovery", p>>, used |-> FALSE]} ELSE {}
  /\ version = 0
  /\ sessions = [version: {0}, pending: {FALSE, on}, by: {None}]
  /\ req = [r \in Requests |-> IF r = p THEN [Idle EXCEPT !.pc = "ok"] ELSE Idle]

\* The claims at rest.
NoClaimsYet ==
  /\ account = [u \in Users |-> "unborn"]
  /\ member = {} /\ holds = {} /\ ever = {} /\ raced = {}
  /\ gives = [ro \in Roles |-> {}]
  /\ cookie = [u \in Users |-> NoClaims]
  /\ job = [j \in Jobs |-> NoJob]

\* Two attempts share an account, two an address; time starts just before a window ends.
SharedKeys ==
  /\ clock = MaxNow - 1
  /\ bucket = [row \in Keys \X Starts |-> 0]
  /\ attempt = a1 :> NoAttempt(z1, ip1) @@ a2 :> NoAttempt(z1, ip2) @@ a3 :> NoAttempt(z2, ip1)

\* The passkey was registered before it counted anything; its answers are those of the limit.
NewPasskey(b) ==
  /\ device = 0 /\ passkey = [counts |-> b, counter |-> 0, by |-> Nobody]
  /\ signature = [s \in Signatures |-> [state |-> "none", count |-> 0]]
  /\ answer = [a \in Answers |-> NoAnswer]

MCInit ==
  \/ /\ focus = "factors" /\ (Past(TRUE) \/ Past(FALSE))
     /\ NoClaimsYet /\ SharedKeys /\ NewPasskey(TRUE)
  \/ focus = "limit" /\ Init /\ NoClaimsYet /\ SharedKeys /\ NewPasskey(TRUE)
  \/ /\ focus = "counter" /\ Init /\ NoClaimsYet /\ SharedKeys
     /\ NewPasskey(TRUE) \/ NewPasskey(FALSE)
  \/ /\ SharedKeys /\ NewPasskey(TRUE) /\ focus \in {"roles", "tokens"}
     /\ Init /\ ClaimsInit
     /\ cookie = [u \in Users |-> NoClaims] /\ gives = [ro \in Roles |-> PermCodes]

Writing == {j \in Jobs : job[j].pc \in AssignPCs \cup RemovalPCs}

\* Bound: about the roles, any two handlers that write them; about the tokens, two handlers
\* of which at most one removes the member.
Arrive(j, u) ==
  \/ /\ focus = "tokens"
     /\ Login(j, u) \/ Visit(j, u) \/ \E n \in Tenants \cup {Nil} : SwitchTenant(j, u, n)
  \/ /\ focus = "roles" \/ Writing = {}
     /\ \E n \in Tenants : Remove(j, u, n)
  \/ /\ focus = "roles"
     /\ \E n \in Tenants, W \in SUBSET Roles : Assign(j, u, n, W) \/ CreateUser(j, u, n, W)

Resume(j) ==
  \/ ReadMemberships(j) \/ ReadCodes(j) \/ FillCodes(j) \/ ReadMembership(j)
  \/ SetCookie(j)
  \/ InsertMember(j) \/ CheckMember(j) \/ ClearRoles(j) \/ NextRole(j) \/ InsertRole(j)
  \/ DeleteRoles(j) \/ DeleteMembership(j) \/ CountMemberships(j) \/ DeleteAccount(j)

ClaimsSteps ==
  \/ \E j \in Jobs : Resume(j) \/ \E u \in Users : Arrive(j, u)
  \/ \E u \in Users, n \in Tenants : Join(u, n)
  \/ focus = "roles" /\ ((\E j \in Jobs : LoseJob(j)) \/ (\E u \in Users : CloseAccount(u)))
  \/ focus = "tokens" /\ \E S \in SUBSET PermCodes : EditRole(role1, S)

MCNext ==
  /\ \/ focus = "factors" /\ Next /\ UNCHANGED <<claimsVars, limitVars, counterVars>>
     \/ focus = "limit" /\ LimitNext /\ UNCHANGED <<vars, claimsVars, counterVars>>
     \/ focus = "counter" /\ CounterNext /\ UNCHANGED <<vars, claimsVars, limitVars>>
     \/ focus \in {"roles", "tokens"} /\ ClaimsSteps /\ UNCHANGED <<vars, limitVars, counterVars>>
  /\ UNCHANGED focus

MCSpec == MCInit /\ [][MCNext]_<<vars, claimsVars, limitVars, counterVars, focus>>

Symmetry == Permutations({r1, r2}) \cup Permutations(TwoCodes) \cup Permutations(TwoJobs)
            \cup Permutations(TwoSignatures)
====
