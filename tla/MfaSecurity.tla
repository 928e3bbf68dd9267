---- MODULE MfaSecurity ----
(***************************************************************************)
(* Second factors, passkeys, sessions and account recovery of one account  *)
(* (lib/security-data-access.ts and the routes that call it). Every        *)
(* statement of these handlers names one user, so accounts do not meet.    *)
(*                                                                         *)
(* A request runs once and keeps its record when it has ended. What it     *)
(* makes with randomBytes, newId or a fresh secret -- a challenge, a TOTP  *)
(* secret, the salt of a set of backup codes, a passkey, a recovery token  *)
(* -- is named by the request itself. One action is one statement and the  *)
(* synchronous code up to the next await.                                  *)
(***************************************************************************)
EXTENDS Naturals

CONSTANTS
  Requests,  \* the requests of a behaviour, and the names of what they make
  Codes,     \* the backup codes of one set (BACKUP_CODE_COUNT in the code)
  None

ASSUME MfaAssumption == /\ None \notin Requests
                        /\ Codes # {}

VARIABLES
  mfa,         \* the UserMfaSecurity row; by: its last writer (history)
  codes,       \* UserBackupCode rows; a hash stands for its salt and code
  passkeys,    \* WebAuthnCredential rows; key: the request that made it
  challenges,  \* WebAuthnChallenge rows
  recovery,    \* MfaRecoveryToken rows
  version,     \* User.credentialVersion
  sessions,    \* session tokens given out; by: the login (history)
  req          \* the handlers

vars == <<mfa, codes, passkeys, challenges, recovery, version, sessions, req>>
tables == <<mfa, codes, passkeys, challenges, recovery, version, sessions>>

Kinds == {"mfa_totp_setup", "register_authenticated", "authenticate_login", "authenticate_mfa"}

\* Requests that need a full session, a session waiting for its second
\* factor, and those that need none (they ask for a password, or a token).
BusinessOps == {"prepare", "confirm", "enablePasskey", "rotate", "disable",
                "registerOptions", "register", "patchKey", "deleteKey"}
PendingOps == {"mfaOptions", "verifyTotp", "verifyBackup", "verifyPasskey"}
OpenOps == {"login", "loginOptions", "loginPasskey", "recoveryRequest", "recoveryConfirm"}
Ops == BusinessOps \cup PendingOps \cup OpenOps

EnablingOps == {"confirm", "enablePasskey"}
IssuingOps == EnablingOps \cup {"rotate"}
WipingOps == {"disable", "recoveryConfirm"}
LoginOps == {"login", "loginPasskey"}
OptionsOps == {"registerOptions", "mfaOptions", "loginOptions"}

\* An absent row reads like this one everywhere (`cur?.mfaEnabled ?? false`).
NoRow == [enabled |-> FALSE, secret |-> None, salt |-> None, by |-> None]

\* What can be used once.
Hashes == {"code"} \X (Requests \X Codes)
Challenges == Kinds \X Requests
Tokens == {"recovery"} \X Requests
Things == Hashes \cup Challenges \cup Tokens

Rows == [enabled: BOOLEAN, secret: Requests \cup {None}, salt: Requests \cup {None},
         by: Requests \cup {None}]
Names == Requests \cup {None}

Pcs == {"idle", "row", "keys", "insertChallenge", "selectChallenge", "deleteChallenge",
        "selectKey", "writeKey", "enable", "deleteCodes", "insertCodes", "readSalt", "writeSalt",
        "deleteRow", "raiseVersion", "selectCode", "useCode", "selectToken", "useToken",
        "deleteKeys", "deleteTokens", "insertToken", "claims", "ok", "stopped"}

\* cur: the row as read; thing: what the request uses up; todo: codes to
\* insert; spent (history): the thing once used up; with (history): the
\* requests in flight together with this one.
Idle == [op |-> "login", pc |-> "idle", cur |-> NoRow, thing |-> None, todo |-> {},
         spent |-> None, with |-> {}]

Handlers == [op: Ops, pc: Pcs, cur: Rows, thing: Things \cup {None}, todo: SUBSET Codes,
             spent: Things \cup {None}, with: SUBSET Requests]

TypeOK ==
  /\ mfa \in Rows
  /\ codes \subseteq [hash: Hashes, used: BOOLEAN]
  /\ passkeys \subseteq [key: Requests, canLogin: BOOLEAN, canMfa: BOOLEAN]
  /\ challenges \subseteq Challenges
  /\ recovery \subseteq [token: Tokens, used: BOOLEAN]
  /\ version \in Nat
  /\ sessions \subseteq [version: Nat, pending: BOOLEAN, by: Names]
  /\ req \in [Requests -> Handlers]

Init ==
  /\ mfa = NoRow
  /\ codes = {}
  /\ passkeys = {}
  /\ challenges = {}
  /\ recovery = {}
  /\ version = 0
  /\ sessions = {}
  /\ req = [r \in Requests |-> Idle]

----
InFlight == {r \in Requests : req[r].pc \notin {"idle", "ok", "stopped"}}

At(r, pc) == req[r].pc = pc
Goto(r, pc) == req' = [req EXCEPT ![r].pc = pc]

\* A handler that ends forgets its local variables.
End(r, pc) ==
  req' = [req EXCEPT ![r] = [@ EXCEPT !.pc = pc, !.cur = NoRow, !.thing = None, !.todo = {}]]

\* The challenge a handler makes or asks for.
KindOf(op) ==
  CASE op \in {"prepare", "confirm"} -> "mfa_totp_setup"
    [] op \in {"registerOptions", "register"} -> "register_authenticated"
    [] op \in {"loginOptions", "loginPasskey"} -> "authenticate_login"
    [] OTHER -> "authenticate_mfa"

FirstStatement(op) ==
  CASE op \in {"enablePasskey", "prepare", "confirm", "rotate", "disable", "verifyTotp",
               "verifyBackup", "verifyPasskey", "login", "recoveryRequest"} -> "row"
    [] op \in {"mfaOptions", "loginOptions"} -> "keys"
    [] op = "registerOptions" -> "insertChallenge"
    [] op \in {"register", "loginPasskey"} -> "selectChallenge"
    [] op = "recoveryConfirm" -> "selectToken"
    [] OTHER -> "writeKey"

\* A session token is accepted while it carries the account's version.
Accepted(pending) == \E s \in sessions : s.version = version /\ s.pending = pending

\* A request arrives; the session callback reads the version.
Begin(r, op) ==
  /\ At(r, "idle")
  /\ op \in BusinessOps => Accepted(FALSE)
  /\ op \in PendingOps => Accepted(TRUE)
  /\ req' = [q \in Requests |->
       IF q = r THEN [Idle EXCEPT !.op = op, !.pc = FirstStatement(op), !.with = InFlight]
       ELSE IF q \in InFlight THEN [req[q] EXCEPT !.with = @ \cup {r}]
       ELSE req[q]]
  /\ UNCHANGED tables

\* A handler ends early: it refuses (a row is missing, a password or a code
\* is wrong), a statement throws, or the process dies.
Stop(r) ==
  /\ r \in InFlight
  /\ End(r, "stopped")
  /\ UNCHANGED tables

\* getUserMfaRow at the head of a handler.
AfterRow(op) ==
  CASE op = "prepare" -> "insertChallenge"
    [] op = "enablePasskey" -> "keys"
    [] op \in {"confirm", "verifyPasskey"} -> "selectChallenge"
    [] op \in {"rotate", "disable"} -> "deleteCodes"
    [] op = "verifyBackup" -> "selectCode"
    [] op = "recoveryRequest" -> "deleteTokens"
    [] OTHER -> "claims"

ReadRow(r) ==
  LET op == req[r].op IN
  /\ At(r, "row")
  /\ op \in {"prepare", "confirm", "enablePasskey"} => ~mfa.enabled
  /\ op \in {"rotate", "disable", "recoveryRequest", "verifyTotp", "verifyBackup", "verifyPasskey"}
       => mfa.enabled
  /\ op = "verifyTotp" => mfa.secret # None
  /\ op = "verifyBackup" => mfa.salt # None
  /\ req' = [req EXCEPT ![r].cur = mfa, ![r].pc = AfterRow(op)]
  /\ UNCHANGED tables

\* listWebAuthnCredentials: some passkey must serve the purpose.
ListKeys(r) ==
  /\ At(r, "keys")
  /\ \E k \in passkeys : IF req[r].op = "loginOptions" THEN k.canLogin ELSE k.canMfa
  /\ Goto(r, IF req[r].op = "enablePasskey" THEN "enable" ELSE "insertChallenge")
  /\ UNCHANGED tables

InsertChallenge(r) ==
  /\ At(r, "insertChallenge")
  /\ challenges' = challenges \cup {<<KindOf(req[r].op), r>>}
  /\ End(r, "ok")
  /\ UNCHANGED <<mfa, codes, passkeys, recovery, version, sessions>>

\* consumeWebAuthnChallenge: a SELECT that decides, then a DELETE whose count
\* nobody looks at.
SelectChallenge(r) ==
  /\ At(r, "selectChallenge")
  /\ \E c \in challenges :
       /\ c[1] = KindOf(req[r].op)
       /\ req' = [req EXCEPT ![r].thing = c, ![r].pc = "deleteChallenge"]
  /\ UNCHANGED tables

DeleteChallenge(r) ==
  /\ At(r, "deleteChallenge")
  /\ challenges' = challenges \ {req[r].thing}
  /\ req' = [req EXCEPT ![r].spent = req[r].thing,
                        ![r].pc = CASE req[r].op = "confirm" -> "enable"
                                    [] req[r].op = "register" -> "writeKey"
                                    [] OTHER -> "selectKey"]
  /\ UNCHANGED <<mfa, codes, passkeys, recovery, version, sessions>>

\* Challenges and recovery tokens expire; an expired row reads as absent.
Expire ==
  /\ \/ \E c \in challenges : challenges' = challenges \ {c} /\ UNCHANGED recovery
     \/ \E t \in recovery : recovery' = recovery \ {t} /\ UNCHANGED challenges
  /\ UNCHANGED <<mfa, codes, passkeys, version, sessions, req>>

\* getWebAuthnCredentialByCredentialId and the check of the signature; then
\* the counter is stored. (Counters are not modelled.)
SelectKey(r) ==
  /\ At(r, "selectKey")
  /\ \E k \in passkeys : IF req[r].op = "loginPasskey" THEN k.canLogin ELSE k.canMfa
  /\ Goto(r, IF req[r].op = "loginPasskey" THEN "row" ELSE "claims")
  /\ UNCHANGED tables

\* The uses of a new passkey come with the challenge; here they are any.
InsertKey(r) ==
  /\ At(r, "writeKey") /\ req[r].op = "register"
  /\ \E login, second \in BOOLEAN :
       /\ login \/ second
       /\ passkeys' = passkeys \cup {[key |-> r, canLogin |-> login, canMfa |-> second]}
  /\ End(r, "ok")
  /\ UNCHANGED <<mfa, codes, challenges, recovery, version, sessions>>

PatchKey(r) ==
  /\ At(r, "writeKey") /\ req[r].op = "patchKey"
  /\ \E k \in passkeys, login, second \in BOOLEAN :
       passkeys' = (passkeys \ {k}) \cup {[k EXCEPT !.canLogin = login, !.canMfa = second]}
  /\ End(r, "ok")
  /\ UNCHANGED <<mfa, codes, challenges, recovery, version, sessions>>

DeleteKey(r) ==
  /\ At(r, "writeKey") /\ req[r].op = "deleteKey"
  /\ \E k \in passkeys : passkeys' = passkeys \ {k}
  /\ End(r, "ok")
  /\ UNCHANGED <<mfa, codes, challenges, recovery, version, sessions>>

----
\* Turning the second factor on: upsertUserMfaRow with all three columns
\* given, so that the row it read does not matter.
Enable(r) ==
  /\ At(r, "enable")
  /\ mfa' = [enabled |-> TRUE,
             secret |-> IF req[r].op = "confirm" THEN req[r].thing[2] ELSE None,
             salt |-> None,
             by |-> r]
  /\ Goto(r, "deleteCodes")
  /\ UNCHANGED <<codes, passkeys, challenges, recovery, version, sessions>>

\* The DELETE of replaceUserBackupCodes, and of deleteUserMfaData.
DeleteCodes(r) ==
  /\ At(r, "deleteCodes")
  /\ codes' = {}
  /\ req' = IF req[r].op \in IssuingOps
            THEN [req EXCEPT ![r].todo = Codes, ![r].pc = "insertCodes"]
            ELSE [req EXCEPT ![r].pc = "deleteRow"]
  /\ UNCHANGED <<mfa, passkeys, challenges, recovery, version, sessions>>

\* replaceUserBackupCodes inserts the new set one by one, ...
InsertCode(r) ==
  /\ At(r, "insertCodes")
  /\ \E c \in req[r].todo :
       /\ codes' = codes \cup {[hash |-> <<"code", <<r, c>>>>, used |-> FALSE]}
       /\ req' = [req EXCEPT ![r].todo = @ \ {c},
                             ![r].pc = IF req[r].todo = {c} THEN "readSalt" ELSE "insertCodes"]
  /\ UNCHANGED <<mfa, passkeys, challenges, recovery, version, sessions>>

\* ... and stores the salt: upsertUserMfaRow reads the row, merges the salt
\* into it and writes all of it back.
ReadSalt(r) ==
  /\ At(r, "readSalt")
  /\ req' = [req EXCEPT ![r].cur = mfa, ![r].pc = "writeSalt"]
  /\ UNCHANGED tables

\* Mutant: the merge forgets the column that the patch leaves out.
WithSaltAlone(row, r) == [row EXCEPT !.secret = None, !.salt = r, !.by = r]

\* Mutant: the merge takes the salt from the row.
WithOldSalt(row, r) == [row EXCEPT !.by = r]

WithSalt(row, r) == [row EXCEPT !.salt = r, !.by = r]

WriteSalt(r) ==
  /\ At(r, "writeSalt")
  /\ mfa' = WithSalt(req[r].cur, r)
  /\ End(r, "ok")
  /\ UNCHANGED <<codes, passkeys, challenges, recovery, version, sessions>>

\* The second statement of deleteUserMfaData.
DeleteRow(r) ==
  /\ At(r, "deleteRow")
  /\ mfa' = NoRow
  /\ IF req[r].op = "disable" THEN End(r, "ok") ELSE Goto(r, "raiseVersion")
  /\ UNCHANGED <<codes, passkeys, challenges, recovery, version, sessions>>

----
\* Mutant: the SELECT does not ask for usedAt IS NULL.
HasHash(c, salt) == c.hash[2][1] = salt

Usable(c, salt) == ~c.used /\ c.hash[2][1] = salt

\* tryConsumeBackupCode: a SELECT that decides, then an UPDATE by id.
SelectCode(r) ==
  /\ At(r, "selectCode")
  /\ \E c \in codes :
       /\ Usable(c, req[r].cur.salt)
       /\ req' = [req EXCEPT ![r].thing = c.hash, ![r].pc = "useCode"]
  /\ UNCHANGED tables

UseCode(r) ==
  /\ At(r, "useCode")
  /\ codes' = {IF c.hash = req[r].thing THEN [c EXCEPT !.used = TRUE] ELSE c : c \in codes}
  /\ req' = [req EXCEPT ![r].spent = req[r].thing, ![r].pc = "claims"]
  /\ UNCHANGED <<mfa, passkeys, challenges, recovery, version, sessions>>

\* Mutant: only a password login waits for its second factor.
WaitsAfterPassword(r) == req[r].op = "login" /\ req[r].cur.enabled

\* A first factor alone gives a waiting session if the row said so.
Waits(r) == req[r].op \in LoginOps /\ req[r].cur.enabled

\* The version is read last and the session token signed.
IssueSession(r) ==
  /\ At(r, "claims")
  /\ sessions' = sessions \cup {[version |-> version, pending |-> Waits(r), by |-> r]}
  /\ End(r, "ok")
  /\ UNCHANGED <<mfa, codes, passkeys, challenges, recovery, version>>

----
\* insertMfaRecoveryToken
DeleteTokens(r) ==
  /\ At(r, "deleteTokens")
  /\ recovery' = {}
  /\ Goto(r, "insertToken")
  /\ UNCHANGED <<mfa, codes, passkeys, challenges, version, sessions>>

InsertToken(r) ==
  /\ At(r, "insertToken")
  /\ recovery' = recovery \cup {[token |-> <<"recovery", r>>, used |-> FALSE]}
  /\ End(r, "ok")
  /\ UNCHANGED <<mfa, codes, passkeys, challenges, version, sessions>>

\* consumeMfaRecoveryToken: a SELECT that decides, then an UPDATE by id.
SelectToken(r) ==
  /\ At(r, "selectToken")
  /\ \E t \in recovery :
       /\ ~t.used
       /\ req' = [req EXCEPT ![r].thing = t.token, ![r].pc = "useToken"]
  /\ UNCHANGED tables

UseToken(r) ==
  /\ At(r, "useToken")
  /\ recovery' = {IF t.token = req[r].thing THEN [t EXCEPT !.used = TRUE] ELSE t : t \in recovery}
  /\ req' = [req EXCEPT ![r].spent = req[r].thing, ![r].pc = "deleteKeys"]
  /\ UNCHANGED <<mfa, codes, passkeys, challenges, version, sessions>>

\* Mutant: a recovery deletes the passkeys for logins only.
DeleteLoginKeys(r) ==
  /\ At(r, "deleteKeys")
  /\ passkeys' = {k \in passkeys : ~k.canLogin}
  /\ Goto(r, "deleteCodes")
  /\ UNCHANGED <<mfa, codes, challenges, recovery, version, sessions>>

\* nuclearMfaRecoveryForUser: the passkeys, then (DeleteCodes, DeleteRow) the
\* second factors, then the version. (The Session table is not used.)
DeleteKeys(r) ==
  /\ At(r, "deleteKeys")
  /\ passkeys' = {}
  /\ Goto(r, "deleteCodes")
  /\ UNCHANGED <<mfa, codes, challenges, recovery, version, sessions>>

RaiseVersion(r) ==
  /\ At(r, "raiseVersion")
  /\ version' = version + 1
  /\ End(r, "ok")
  /\ UNCHANGED <<mfa, codes, passkeys, challenges, recovery, sessions>>

----
Step(r) ==
  \/ Stop(r) \/ ReadRow(r)
  \/ ListKeys(r) \/ InsertChallenge(r) \/ SelectChallenge(r) \/ DeleteChallenge(r)
  \/ SelectKey(r) \/ InsertKey(r) \/ PatchKey(r) \/ DeleteKey(r)
  \/ Enable(r) \/ DeleteCodes(r) \/ InsertCode(r) \/ ReadSalt(r) \/ WriteSalt(r) \/ DeleteRow(r)
  \/ SelectCode(r) \/ UseCode(r) \/ IssueSession(r)
  \/ DeleteTokens(r) \/ InsertToken(r) \/ SelectToken(r) \/ UseToken(r)
  \/ DeleteKeys(r) \/ RaiseVersion(r)

Next ==
  \/ \E r \in Requests : Step(r) \/ \E op \in Ops : Begin(r, op)
  \/ Expire

Spec == Init /\ [][Next]_vars

----
\* Some request of the given kind was in flight together with r.
Met(r, ops) == \E q \in req[r].with : req[q].op \in ops

\* A backup code, a WebAuthn challenge, a TOTP setup and a recovery token are
\* used up once, except by requests in flight together: what decides is a
\* SELECT, and no write afterwards looks again. (tryConsumeBackupCode,
\* consumeWebAuthnChallenge, consumeMfaRecoveryToken)
UsedTwiceOnlyTogether ==
  \A q, r \in Requests :
    (q # r /\ req[q].spent # None /\ req[q].spent = req[r].spent) => q \in req[r].with

\* The requests whose work is in the tables.
Authors == ({mfa.by} \ {None}) \cup {c.hash[2][1] : c \in codes} \cup {k.key : k \in passkeys}

\* When a recovery ends, all that is left of second factors and passkeys was
\* written by requests in flight together with it, and every session given
\* out before is dead. Factors from before never reach the new version, even
\* if an earlier recovery died half-way. (nuclearMfaRecoveryForUser)
RecoveryLeavesNothing ==
  [][version' # version =>
       \E r \in Requests :
         /\ At(r, "raiseVersion") /\ ~At(r, "raiseVersion")'
         /\ \A a \in Authors' : r \in req[a].with
         /\ \A s \in sessions' : s.version < version']_vars

\* A login that is given a full session with a first factor alone, while the
\* second factor is on, was in flight together with the request that turned
\* it on or wrote it back. (authorize, the jwt callback, login-verify)
NoLoginPastMfa ==
  [][\A r \in Requests :
       (/\ req[r].op \in LoginOps /\ mfa.enabled
        /\ \E s \in sessions' \ sessions : s.by = r /\ ~s.pending)
       => Met(r, IssuingOps)]_vars

\* The codes a user is shown are the account's codes, all of them work, and
\* the second factor is on -- unless the request met another one that issues
\* codes or wipes them. (issueMfaBackupCodes, replaceUserBackupCodes)
ShownCodesWork ==
  [][\A r \in Requests :
       (req[r].op \in IssuingOps /\ ~At(r, "ok") /\ At(r, "ok")'
        /\ ~Met(r, IssuingOps \cup WipingOps))
       => /\ mfa'.enabled /\ mfa'.salt = r
          /\ codes' = {[hash |-> <<"code", <<r, c>>>>, used |-> FALSE] : c \in Codes}]_vars

\* Storing a new set of codes does not touch the rest of the row -- unless
\* the request met another one that writes the row, in which case it may
\* bring back a second factor that was turned off. (upsertUserMfaRow)
WriteBackOnlyInRaces ==
  [][\A r \in Requests :
       (At(r, "writeSalt") /\ At(r, "ok")' /\ ~Met(r, IssuingOps \cup WipingOps))
       => mfa' = [mfa EXCEPT !.salt = r, !.by = r]]_vars

----
(***************************************************************************)
(* The inductive invariant.                                                *)
(***************************************************************************)
Ended == {"ok", "stopped"}

\* Where handlers of each kind can be, and what they hold there.
ShapeOf(r) ==
  /\ req[r].pc \in {"idle"} \cup Ended => req[r].thing = None
  /\ At(r, "enable") => req[r].op \in EnablingOps
  /\ req[r].pc \in {"insertCodes", "readSalt", "writeSalt"} => req[r].op \in IssuingOps
  /\ At(r, "deleteCodes") => req[r].op \in IssuingOps \cup WipingOps
  /\ At(r, "deleteRow") => req[r].op \in WipingOps
  /\ req[r].pc \in {"selectToken", "useToken", "deleteKeys", "raiseVersion"}
       => req[r].op = "recoveryConfirm"
  /\ req[r].pc \in {"selectChallenge", "deleteChallenge"}
       => req[r].op \in {"confirm", "register", "loginPasskey", "verifyPasskey"}
  /\ At(r, "selectKey") => req[r].op \in {"loginPasskey", "verifyPasskey"}
  /\ req[r].pc \in {"selectCode", "useCode"} => req[r].op = "verifyBackup"
  /\ At(r, "deleteChallenge") => req[r].thing \in Challenges
  /\ At(r, "enable") /\ req[r].op = "confirm" => req[r].thing \in Challenges
  /\ At(r, "useCode") => req[r].thing \in Hashes
  /\ At(r, "useToken") => req[r].thing \in Tokens

PcShape == \A r \in Requests : ShapeOf(r)

\* Requests in flight have met, and only requests that began are met.
Encounters ==
  /\ \A q, r \in InFlight : q # r => q \in req[r].with
  /\ \A r \in Requests : \A q \in req[r].with : ~At(q, "idle")

\* A thing is made once, by the request that gives it its name.
Made(x) ==
  /\ x \in Hashes =>
       LET a == x[2][1]
           c == x[2][2]
       IN  req[a].pc \in {"insertCodes", "readSalt", "writeSalt"} \cup Ended /\ c \notin req[a].todo
  /\ x \in Challenges \cup Tokens => At(x[2], "ok")

AllMade ==
  /\ \A c \in codes : Made(c.hash)
  /\ \A c \in challenges : Made(c)
  /\ \A t \in recovery : Made(t.token)
  /\ \A r \in Requests : /\ req[r].thing # None => Made(req[r].thing)
                         /\ req[r].spent # None => Made(req[r].spent)
  /\ \A k \in passkeys : ~At(k.key, "idle")
  /\ mfa.by # None => ~At(mfa.by, "idle")

\* What was used up is gone from the tables or marked there.
SpentIsGone ==
  \A r \in Requests : req[r].spent # None =>
    /\ req[r].spent \notin challenges
    /\ \A c \in codes : c.hash = req[r].spent => c.used
    /\ \A t \in recovery : t.token = req[r].spent => t.used

\* Whoever still holds a thing that another used up met the other.
HeldTogether ==
  \A q, r \in Requests :
    (q # r /\ req[q].thing # None /\ req[q].thing = req[r].spent)
    => q \in req[r].with /\ r \in req[q].with

\* What a recovery has swept so far stays swept, but for those it meets.
Swept ==
  \A r \in Requests : req[r].op = "recoveryConfirm" =>
    /\ req[r].pc \in {"deleteCodes", "deleteRow", "raiseVersion"} =>
         \A k \in passkeys : r \in req[k.key].with
    /\ req[r].pc \in {"deleteRow", "raiseVersion"} => \A c \in codes : r \in req[c.hash[2][1]].with
    /\ At(r, "raiseVersion") /\ mfa.by # None => r \in req[mfa.by].with

\* A login that read "off" while the factor is on met whoever turned it on.
LoginsMeetEnabling ==
  \A r \in Requests :
    (req[r].op \in LoginOps /\ At(r, "claims") /\ ~req[r].cur.enabled /\ mfa.enabled)
    => Met(r, IssuingOps)

VersionsGrow == \A s \in sessions : s.version <= version

MfaInv ==
  /\ PcShape
  /\ Encounters
  /\ AllMade
  /\ SpentIsGone
  /\ HeldTogether
  /\ UsedTwiceOnlyTogether
  /\ Swept
  /\ LoginsMeetEnabling
  /\ VersionsGrow

\* The inductive invariant: types, and what every statement of a handler relies on about the
\* tables, although other handlers have written them since it last looked.
MfaIndInv == TypeOK /\ MfaInv

====
