---- MODULE MfaSecurityProofs ----
(***************************************************************************)
(* Proofs about MfaSecurity, for any sets of requests and codes: MfaIndInv *)
(* is an invariant; from it what is used once, what a recovery leaves and  *)
(* which logins pass; and what becomes of a new set of backup codes.       *)
(***************************************************************************)
EXTENDS MfaSecurity, TLAPS

USE MfaAssumption

(***************************************************************************)
(* How one step of a handler changes its record.                           *)
(***************************************************************************)
\* What every step of handler r has in common.
Moves(r) ==
  /\ req' \in [Requests -> Handlers]
  /\ \A q \in Requests : q # r => req'[q] = req[q]
  /\ req'[r].op = req[r].op
  /\ req'[r].with = req[r].with
  /\ req[r].pc \notin {"idle"} \cup Ended
  /\ req'[r].pc # "idle"

\* Advancing to a statement leaves the rest of the record alone.
LEMMA GotoMoves ==
  ASSUME TypeOK, NEW r \in Requests, NEW pc \in Pcs, Goto(r, pc),
         req[r].pc \notin {"idle"} \cup Ended, pc # "idle"
  PROVE  /\ Moves(r)
         /\ req'[r] = [req[r] EXCEPT !.pc = pc]
         /\ req'[r].pc = pc
         /\ req'[r].cur = req[r].cur
         /\ req'[r].thing = req[r].thing
         /\ req'[r].todo = req[r].todo
         /\ req'[r].spent = req[r].spent
<1>1. req[r] \in Handlers
  BY DEF TypeOK
<1>2. [req[r] EXCEPT !.pc = pc] \in Handlers
  BY <1>1 DEF Handlers
<1>3. req' = [req EXCEPT ![r] = [req[r] EXCEPT !.pc = pc]]
  BY DEF Goto, TypeOK
<1>4. req' \in [Requests -> Handlers] /\ req'[r] = [req[r] EXCEPT !.pc = pc]
  BY <1>2, <1>3 DEF TypeOK
<1> QED
  BY <1>1, <1>3, <1>4 DEF Moves, Handlers, TypeOK

\* So does ending, except that the local variables are forgotten.
LEMMA EndMoves ==
  ASSUME TypeOK, NEW r \in Requests, NEW pc \in Ended, End(r, pc),
         req[r].pc \notin {"idle"} \cup Ended
  PROVE  /\ Moves(r)
         /\ req'[r].pc = pc
         /\ req'[r].cur = NoRow
         /\ req'[r].thing = None
         /\ req'[r].todo = {}
         /\ req'[r].spent = req[r].spent
<1> DEFINE row == [req[r] EXCEPT !.pc = pc, !.cur = NoRow, !.thing = None, !.todo = {}]
<1>1. req[r] \in Handlers
  BY DEF TypeOK
<1>2. NoRow \in Rows
  BY DEF NoRow, Rows
<1>3. row \in Handlers
  BY <1>1, <1>2 DEF Handlers, Pcs, Ended
<1>4. req' = [req EXCEPT ![r] = row]
  BY DEF End
<1>5. row.pc = pc /\ row.cur = NoRow /\ row.thing = None /\ row.todo = {}
      /\ row.spent = req[r].spent /\ row.op = req[r].op /\ row.with = req[r].with
  BY <1>1 DEF Handlers
<1> HIDE DEF row
<1>6. req' \in [Requests -> Handlers] /\ req'[r] = row
  BY <1>3, <1>4 DEF TypeOK
<1>7. \A q \in Requests : q # r => req'[q] = req[q]
  BY <1>4 DEF TypeOK
<1> QED
  BY <1>5, <1>6, <1>7 DEF Moves, Ended

\* The steps that remember something and go on.
LEMMA ReadMoves ==
  ASSUME TypeOK, NEW r \in Requests, NEW pc \in Pcs,
         req' = [req EXCEPT ![r].cur = mfa, ![r].pc = pc],
         req[r].pc \notin {"idle"} \cup Ended, pc # "idle"
  PROVE  /\ Moves(r)
         /\ req'[r].pc = pc
         /\ req'[r].cur = mfa
         /\ req'[r].thing = req[r].thing
         /\ req'[r].todo = req[r].todo
         /\ req'[r].spent = req[r].spent
<1>1. req[r] \in Handlers /\ mfa \in Rows
  BY DEF TypeOK
<1>2. [req[r] EXCEPT !.cur = mfa, !.pc = pc] \in Handlers
  BY <1>1 DEF Handlers
<1>3. req'[r] = [req[r] EXCEPT !.cur = mfa, !.pc = pc]
  BY DEF TypeOK
<1>4. req' \in [Requests -> Handlers]
  BY <1>1, <1>2, <1>3 DEF TypeOK
<1>5. \A q \in Requests : q # r => req'[q] = req[q]
  BY DEF TypeOK
<1> QED
  BY <1>1, <1>3, <1>4, <1>5 DEF Moves, Handlers

\* Deciding by a SELECT on a thing.
LEMMA TakeMoves ==
  ASSUME TypeOK, NEW r \in Requests, NEW pc \in Pcs, NEW x \in Things,
         req' = [req EXCEPT ![r].thing = x, ![r].pc = pc],
         req[r].pc \notin {"idle"} \cup Ended, pc # "idle"
  PROVE  /\ Moves(r)
         /\ req'[r].pc = pc
         /\ req'[r].thing = x
         /\ req'[r].cur = req[r].cur
         /\ req'[r].todo = req[r].todo
         /\ req'[r].spent = req[r].spent
<1>1. req[r] \in Handlers
  BY DEF TypeOK
<1>2. [req[r] EXCEPT !.thing = x, !.pc = pc] \in Handlers
  BY <1>1 DEF Handlers
<1>3. req'[r] = [req[r] EXCEPT !.thing = x, !.pc = pc]
  BY DEF TypeOK
<1>4. req' \in [Requests -> Handlers]
  BY <1>1, <1>2, <1>3 DEF TypeOK
<1>5. \A q \in Requests : q # r => req'[q] = req[q]
  BY DEF TypeOK
<1> QED
  BY <1>1, <1>3, <1>4, <1>5 DEF Moves, Handlers

\* Using it up.
LEMMA SpendMoves ==
  ASSUME TypeOK, NEW r \in Requests, NEW pc \in Pcs, req[r].thing \in Things,
         req' = [req EXCEPT ![r].spent = req[r].thing, ![r].pc = pc],
         req[r].pc \notin {"idle"} \cup Ended, pc # "idle"
  PROVE  /\ Moves(r)
         /\ req'[r].pc = pc
         /\ req'[r].spent = req[r].thing
         /\ req'[r].cur = req[r].cur
         /\ req'[r].todo = req[r].todo
         /\ req'[r].thing = req[r].thing
<1>1. req[r] \in Handlers
  BY DEF TypeOK
<1>2. [req[r] EXCEPT !.spent = req[r].thing, !.pc = pc] \in Handlers
  BY <1>1 DEF Handlers
<1>3. req'[r] = [req[r] EXCEPT !.spent = req[r].thing, !.pc = pc]
  BY DEF TypeOK
<1>4. req' \in [Requests -> Handlers]
  BY <1>1, <1>2, <1>3 DEF TypeOK
<1>5. \A q \in Requests : q # r => req'[q] = req[q]
  BY DEF TypeOK
<1> QED
  BY <1>1, <1>3, <1>4, <1>5 DEF Moves, Handlers

\* Going on with other codes to insert.
LEMMA TodoMoves ==
  ASSUME TypeOK, NEW r \in Requests, NEW pc \in Pcs, NEW todo \in SUBSET Codes,
         req' = [req EXCEPT ![r].todo = todo, ![r].pc = pc],
         req[r].pc \notin {"idle"} \cup Ended, pc # "idle"
  PROVE  /\ Moves(r)
         /\ req'[r].pc = pc
         /\ req'[r].todo = todo
         /\ req'[r].cur = req[r].cur
         /\ req'[r].spent = req[r].spent
         /\ req'[r].thing = req[r].thing
<1>1. req[r] \in Handlers
  BY DEF TypeOK
<1>2. [req[r] EXCEPT !.todo = todo, !.pc = pc] \in Handlers
  BY <1>1 DEF Handlers
<1>3. req'[r] = [req[r] EXCEPT !.todo = todo, !.pc = pc]
  BY DEF TypeOK
<1>4. req' \in [Requests -> Handlers]
  BY <1>1, <1>2, <1>3 DEF TypeOK
<1>5. \A q \in Requests : q # r => req'[q] = req[q]
  BY DEF TypeOK
<1> QED
  BY <1>1, <1>3, <1>4, <1>5 DEF Moves, Handlers

\* A thing as a SELECT finds it: stored and not used up.
Free(x) ==
  \/ x \in challenges
  \/ \E c \in codes : ~c.used /\ c.hash = x
  \/ \E t \in recovery : ~t.used /\ t.token = x

\* What becomes of the thing a handler uses up.
Uses(r) ==
  \/ req'[r].spent = req[r].spent /\ req'[r].thing \in {req[r].thing, None}
  \/ /\ req'[r].spent = req[r].spent
     /\ Free(req'[r].thing)
     /\ UNCHANGED tables
  \/ /\ req'[r].spent = req[r].thing /\ req'[r].thing = req[r].thing
     /\ req[r].thing \in Things
     /\ req[r].thing \notin challenges'
     /\ \A c \in codes' : c.hash = req[r].thing => c.used
     /\ \A t \in recovery' : t.token = req[r].thing => t.used

\* A handler past the insertion of a backup code does not insert it again.
Progress(r) ==
  LET late == {"insertCodes", "readSalt", "writeSalt"} \cup Ended IN
  req[r].pc \in late => req'[r].pc \in late /\ req'[r].todo \subseteq req[r].todo

Change(r) == Moves(r) /\ ShapeOf(r)' /\ Uses(r) /\ Progress(r)

\* The kinds of things are told apart by their first component.
LEMMA KindsApart ==
  Hashes \cap Challenges = {} /\ Hashes \cap Tokens = {} /\ Challenges \cap Tokens = {}
BY DEF Hashes, Challenges, Tokens, Kinds

\* Giving up.
LEMMA StopChange ==
  ASSUME TypeOK, PcShape, NEW r \in Requests, Stop(r)
  PROVE  Change(r)
<1>1. req[r].pc \notin {"idle"} \cup Ended
  BY DEF Stop, InFlight, Ended
<1>2. End(r, "stopped") /\ "stopped" \in Ended
  BY DEF Stop, Ended
<1> QED
  BY <1>1, <1>2, EndMoves DEF Change, ShapeOf, At, Uses, Progress, Ended

\* Reading the row leads to the statement AfterRow names.
LEMMA ReadRowChange ==
  ASSUME TypeOK, PcShape, NEW r \in Requests, ReadRow(r)
  PROVE  Change(r)
<1> DEFINE pc == AfterRow(req[r].op)
<1>1. /\ pc \in {"insertChallenge", "keys", "selectChallenge", "deleteCodes", "selectCode",
                 "deleteTokens", "claims"}
      /\ pc = "deleteCodes" => req[r].op \in {"rotate", "disable"}
      /\ pc = "selectChallenge" => req[r].op \in {"confirm", "verifyPasskey"}
      /\ pc = "selectCode" => req[r].op = "verifyBackup"
  BY DEF AfterRow
<1>2. req[r].pc \notin {"idle"} \cup Ended
  BY DEF ReadRow, At, Ended
<1>3. req' = [req EXCEPT ![r].cur = mfa, ![r].pc = pc]
  BY DEF ReadRow
<1>4. pc \in Pcs /\ pc # "idle"
  BY <1>1 DEF Pcs
<1> HIDE DEF pc
<1>5. /\ Moves(r) /\ req'[r].pc = pc /\ req'[r].thing = req[r].thing
      /\ req'[r].spent = req[r].spent
  BY <1>2, <1>3, <1>4, ReadMoves
<1> QED
  BY <1>1, <1>5 DEF Change, ShapeOf, At, Uses, Progress, Ended, Moves, IssuingOps, WipingOps,
                    EnablingOps, ReadRow

\* The steps that end a handler: nothing is used up.
LEMMA EndChange ==
  ASSUME TypeOK, NEW r \in Requests, NEW pc \in Ended, End(r, pc),
         req[r].pc \notin {"idle"} \cup Ended
  PROVE  Change(r)
BY EndMoves DEF Change, ShapeOf, At, Uses, Progress, Ended

\* The steps that only go on.
LEMMA GotoChange ==
  ASSUME TypeOK, NEW r \in Requests,
         NEW pc \in {"keys", "row", "insertChallenge", "enable", "deleteCodes", "insertToken",
                     "claims", "raiseVersion", "deleteRow"},
         Goto(r, pc),
         req[r].pc \notin {"idle", "insertCodes", "readSalt", "writeSalt"} \cup Ended,
         pc = "enable" => req[r].op = "enablePasskey",
         pc = "deleteCodes" => req[r].op \in IssuingOps \cup WipingOps,
         pc = "deleteRow" => req[r].op \in WipingOps,
         pc = "raiseVersion" => req[r].op = "recoveryConfirm"
  PROVE  Change(r)
<1>1. pc \in Pcs /\ pc # "idle"
  BY DEF Pcs
<1>2. /\ Moves(r) /\ req'[r].pc = pc /\ req'[r].thing = req[r].thing
      /\ req'[r].spent = req[r].spent
  BY <1>1, GotoMoves
<1> QED
  BY <1>2 DEF Change, ShapeOf, At, Uses, Progress, Ended, Moves, EnablingOps

\* Listing the passkeys only goes on.
LEMMA ListKeysChange ==
  ASSUME TypeOK, PcShape, NEW r \in Requests, ListKeys(r)
  PROVE  Change(r)
<1>1. CASE req[r].op = "enablePasskey"
  BY <1>1, GotoChange DEF ListKeys, At, Ended
<1>2. CASE req[r].op # "enablePasskey"
  BY <1>2, GotoChange DEF ListKeys, At, Ended
<1> QED
  BY <1>1, <1>2

\* So does looking one up.
LEMMA SelectKeyChange ==
  ASSUME TypeOK, PcShape, NEW r \in Requests, SelectKey(r)
  PROVE  Change(r)
<1>1. CASE req[r].op = "loginPasskey"
  BY <1>1, GotoChange DEF SelectKey, At, Ended
<1>2. CASE req[r].op # "loginPasskey"
  BY <1>2, GotoChange DEF SelectKey, At, Ended
<1> QED
  BY <1>1, <1>2

\* A SELECT that decides finds a free thing and changes no table.
LEMMA SelectChange ==
  ASSUME TypeOK, PcShape, NEW r \in Requests, SelectChallenge(r) \/ SelectCode(r) \/ SelectToken(r)
  PROVE  Change(r)
<1>1. PICK x \in Things, pc \in {"deleteChallenge", "useCode", "useToken"} :
        /\ req' = [req EXCEPT ![r].thing = x, ![r].pc = pc]
        /\ Free(x)
        /\ pc = "deleteChallenge" =>
             x \in Challenges /\ req[r].op \in {"confirm", "register", "loginPasskey", "verifyPasskey"}
        /\ pc = "useCode" => x \in Hashes /\ req[r].op = "verifyBackup"
        /\ pc = "useToken" => x \in Tokens /\ req[r].op = "recoveryConfirm"
  <2>1. CASE SelectChallenge(r)
    <3>1. PICK c \in challenges : req' = [req EXCEPT ![r].thing = c, ![r].pc = "deleteChallenge"]
      BY <2>1 DEF SelectChallenge
    <3>2. c \in Challenges /\ c \in Things
      BY DEF TypeOK, Things
    <3>3. req[r].op \in {"confirm", "register", "loginPasskey", "verifyPasskey"}
      BY <2>1 DEF SelectChallenge, At, PcShape, ShapeOf
    <3> QED
      BY <3>1, <3>2, <3>3 DEF Free
  <2>2. CASE SelectCode(r)
    <3>1. PICK c \in codes : ~c.used /\ req' = [req EXCEPT ![r].thing = c.hash, ![r].pc = "useCode"]
      BY <2>2 DEF SelectCode, Usable
    <3>2. c.hash \in Hashes /\ c.hash \in Things
      BY DEF TypeOK, Things
    <3>3. req[r].op = "verifyBackup"
      BY <2>2 DEF SelectCode, At, PcShape, ShapeOf
    <3> QED
      BY <3>1, <3>2, <3>3 DEF Free
  <2>3. CASE SelectToken(r)
    <3>1. PICK t \in recovery :
            ~t.used /\ req' = [req EXCEPT ![r].thing = t.token, ![r].pc = "useToken"]
      BY <2>3 DEF SelectToken
    <3>2. t.token \in Tokens /\ t.token \in Things
      BY DEF TypeOK, Things
    <3>3. req[r].op = "recoveryConfirm"
      BY <2>3 DEF SelectToken, At, PcShape, ShapeOf
    <3> QED
      BY <3>1, <3>2, <3>3 DEF Free
  <2> QED
    BY <2>1, <2>2, <2>3
<1>2. UNCHANGED tables /\ req[r].pc \notin {"idle", "insertCodes", "readSalt", "writeSalt"} \cup Ended
  BY DEF SelectChallenge, SelectCode, SelectToken, At, Ended
<1>3. pc \in Pcs /\ pc # "idle"
  BY DEF Pcs
<1>4. Moves(r) /\ req'[r].pc = pc /\ req'[r].thing = x /\ req'[r].spent = req[r].spent
  BY <1>1, <1>2, <1>3, TakeMoves
<1> QED
  BY <1>1, <1>2, <1>4 DEF Change, ShapeOf, At, Uses, Progress, Ended, Moves

\* The steps that use a thing up.
LEMMA DeleteChallengeChange ==
  ASSUME TypeOK, PcShape, NEW r \in Requests, DeleteChallenge(r)
  PROVE  Change(r)
<1> DEFINE pc == CASE req[r].op = "confirm" -> "enable"
                   [] req[r].op = "register" -> "writeKey"
                   [] OTHER -> "selectKey"
<1>0. req[r].op \in {"confirm", "register", "loginPasskey", "verifyPasskey"}
  BY DEF DeleteChallenge, At, PcShape, ShapeOf
<1>1. /\ pc \in {"enable", "writeKey", "selectKey"}
      /\ pc = "enable" => req[r].op = "confirm"
      /\ pc = "selectKey" => req[r].op \in {"loginPasskey", "verifyPasskey"}
  BY <1>0
<1>2. req' = [req EXCEPT ![r].spent = req[r].thing, ![r].pc = pc]
  BY DEF DeleteChallenge
<1>3. /\ req[r].pc = "deleteChallenge"
      /\ challenges' = challenges \ {req[r].thing}
      /\ codes' = codes /\ recovery' = recovery
  BY DEF DeleteChallenge, At
<1>4. req[r].thing \in Challenges /\ req[r].thing \in Things
  BY <1>3 DEF PcShape, ShapeOf, At, Things
<1> HIDE DEF pc
<1>5. pc \in Pcs /\ pc # "idle"
  BY <1>1 DEF Pcs
<1>6. /\ Moves(r) /\ req'[r].pc = pc /\ req'[r].thing = req[r].thing
      /\ req'[r].spent = req[r].thing
  BY <1>2, <1>3, <1>4, <1>5, SpendMoves DEF Ended
<1>7. Uses(r)
  <2>1. \A c \in codes' : c.hash # req[r].thing
    BY <1>3, <1>4, KindsApart DEF TypeOK
  <2>2. \A t \in recovery' : t.token # req[r].thing
    BY <1>3, <1>4, KindsApart DEF TypeOK
  <2> QED
    BY <1>3, <1>4, <1>6, <2>1, <2>2 DEF Uses
<1> QED
  BY <1>1, <1>3, <1>4, <1>6, <1>7 DEF Change, ShapeOf, At, Progress, Ended, Moves, EnablingOps

\* The UPDATE of tryConsumeBackupCode marks the code.
LEMMA UseCodeChange ==
  ASSUME TypeOK, PcShape, NEW r \in Requests, UseCode(r)
  PROVE  Change(r)
<1>1. req' = [req EXCEPT ![r].spent = req[r].thing, ![r].pc = "claims"]
  BY DEF UseCode
<1>2. /\ req[r].pc = "useCode"
      /\ codes' = {IF c.hash = req[r].thing THEN [c EXCEPT !.used = TRUE] ELSE c : c \in codes}
      /\ challenges' = challenges /\ recovery' = recovery
  BY DEF UseCode, At
<1>3. req[r].thing \in Hashes /\ req[r].thing \in Things
  BY <1>2 DEF PcShape, ShapeOf, At, Things
<1>4. /\ Moves(r) /\ req'[r].pc = "claims" /\ req'[r].thing = req[r].thing
      /\ req'[r].spent = req[r].thing
  BY <1>1, <1>2, <1>3, SpendMoves DEF Ended, Pcs
<1>5. Uses(r)
  <2>1. req[r].thing \notin challenges'
    BY <1>2, <1>3, KindsApart DEF TypeOK
  <2>2. \A t \in recovery' : t.token # req[r].thing
    BY <1>2, <1>3, KindsApart DEF TypeOK
  <2>3. \A c \in codes' : c.hash = req[r].thing => c.used
    BY <1>2 DEF TypeOK
  <2> QED
    BY <1>3, <1>4, <2>1, <2>2, <2>3 DEF Uses
<1> QED
  BY <1>2, <1>4, <1>5 DEF Change, ShapeOf, At, Progress, Ended

\* The UPDATE of consumeMfaRecoveryToken marks the token.
LEMMA UseTokenChange ==
  ASSUME TypeOK, PcShape, NEW r \in Requests, UseToken(r)
  PROVE  Change(r)
<1>1. req' = [req EXCEPT ![r].spent = req[r].thing, ![r].pc = "deleteKeys"]
  BY DEF UseToken
<1>2. /\ req[r].pc = "useToken"
      /\ recovery' = {IF t.token = req[r].thing THEN [t EXCEPT !.used = TRUE] ELSE t : t \in recovery}
      /\ challenges' = challenges /\ codes' = codes
  BY DEF UseToken, At
<1>3. req[r].thing \in Tokens /\ req[r].thing \in Things
  BY <1>2 DEF PcShape, ShapeOf, At, Things
<1>4. /\ Moves(r) /\ req'[r].pc = "deleteKeys" /\ req'[r].thing = req[r].thing
      /\ req'[r].spent = req[r].thing
  BY <1>1, <1>2, <1>3, SpendMoves DEF Ended, Pcs
<1>5. Uses(r)
  <2>1. req[r].thing \notin challenges'
    BY <1>2, <1>3, KindsApart DEF TypeOK
  <2>2. \A c \in codes' : c.hash # req[r].thing
    BY <1>2, <1>3, KindsApart DEF TypeOK
  <2>3. \A t \in recovery' : t.token = req[r].thing => t.used
    BY <1>2 DEF TypeOK
  <2> QED
    BY <1>3, <1>4, <2>1, <2>2, <2>3 DEF Uses
<1>6. req[r].op = "recoveryConfirm"
  BY <1>2 DEF PcShape, ShapeOf
<1> QED
  BY <1>2, <1>4, <1>5, <1>6 DEF Change, ShapeOf, At, Progress, Ended, Moves

\* The steps that replace the backup codes.
LEMMA DeleteCodesChange ==
  ASSUME TypeOK, PcShape, NEW r \in Requests, DeleteCodes(r)
  PROVE  Change(r)
<1>1. req[r].pc = "deleteCodes" /\ req[r].op \in IssuingOps \cup WipingOps
  BY DEF DeleteCodes, At, PcShape, ShapeOf
<1>2. CASE req[r].op \in IssuingOps
  <2>1. req' = [req EXCEPT ![r].todo = Codes, ![r].pc = "insertCodes"]
    BY <1>2 DEF DeleteCodes
  <2>2. /\ Moves(r) /\ req'[r].pc = "insertCodes" /\ req'[r].thing = req[r].thing
        /\ req'[r].spent = req[r].spent
    BY <1>1, <2>1, TodoMoves DEF Ended, Pcs
  <2> QED
    BY <1>1, <1>2, <2>2 DEF Change, ShapeOf, At, Uses, Progress, Ended, Moves
<1>3. CASE req[r].op \notin IssuingOps
  <2>1. Goto(r, "deleteRow")
    BY <1>3 DEF DeleteCodes, Goto
  <2> QED
    BY <1>1, <1>3, <2>1, GotoChange DEF Ended
<1> QED
  BY <1>2, <1>3

\* One code less is to be inserted.
LEMMA InsertCodeChange ==
  ASSUME TypeOK, PcShape, NEW r \in Requests, InsertCode(r)
  PROVE  Change(r)
<1>1. PICK c \in req[r].todo :
        req' = [req EXCEPT ![r].todo = @ \ {c},
                           ![r].pc = IF req[r].todo = {c} THEN "readSalt" ELSE "insertCodes"]
  BY DEF InsertCode
<1> DEFINE pc == IF req[r].todo = {c} THEN "readSalt" ELSE "insertCodes"
           todo == req[r].todo \ {c}
<1>2. req[r].pc = "insertCodes" /\ req[r].op \in IssuingOps /\ req[r].todo \subseteq Codes
  BY DEF InsertCode, At, PcShape, ShapeOf, TypeOK, Handlers
<1>3. req' = [req EXCEPT ![r].todo = todo, ![r].pc = pc]
  BY <1>1 DEF TypeOK
<1>4. pc \in {"readSalt", "insertCodes"} /\ pc \in Pcs /\ pc # "idle" /\ todo \in SUBSET Codes
      /\ todo \subseteq req[r].todo
  BY <1>2 DEF Pcs
<1> HIDE DEF pc, todo
<1>5. req[r].pc \notin {"idle"} \cup Ended
  BY <1>2 DEF Ended
<1>6. /\ Moves(r) /\ req'[r].pc = pc /\ req'[r].thing = req[r].thing
      /\ req'[r].spent = req[r].spent /\ req'[r].todo = todo
  BY <1>3, <1>4, <1>5, TodoMoves
<1> QED
  BY <1>2, <1>4, <1>6 DEF Change, ShapeOf, At, Uses, Progress, Ended, Moves

\* The read half of upsertUserMfaRow.
LEMMA ReadSaltChange ==
  ASSUME TypeOK, PcShape, NEW r \in Requests, ReadSalt(r)
  PROVE  Change(r)
<1>1. req[r].pc = "readSalt" /\ req[r].op \in IssuingOps
  BY DEF ReadSalt, At, PcShape, ShapeOf
<1>2. req' = [req EXCEPT ![r].cur = mfa, ![r].pc = "writeSalt"]
  BY DEF ReadSalt
<1>3. /\ Moves(r) /\ req'[r].pc = "writeSalt" /\ req'[r].thing = req[r].thing
      /\ req'[r].spent = req[r].spent /\ req'[r].todo = req[r].todo
  BY <1>1, <1>2, ReadMoves DEF Ended, Pcs
<1> QED
  BY <1>1, <1>3 DEF Change, ShapeOf, At, Uses, Progress, Ended, Moves

\* Every step of a handler.
LEMMA StepChange ==
  ASSUME TypeOK, PcShape, NEW r \in Requests, Step(r)
  PROVE  Change(r)
<1>1. CASE \/ InsertChallenge(r) \/ InsertKey(r) \/ PatchKey(r) \/ DeleteKey(r) \/ WriteSalt(r)
           \/ IssueSession(r) \/ InsertToken(r) \/ RaiseVersion(r)
  <2>1. End(r, "ok") /\ "ok" \in Ended
    BY <1>1 DEF InsertChallenge, InsertKey, PatchKey, DeleteKey, WriteSalt, IssueSession,
                InsertToken, RaiseVersion, Ended
  <2>2. req[r].pc \notin {"idle"} \cup Ended
    BY <1>1 DEF InsertChallenge, InsertKey, PatchKey, DeleteKey, WriteSalt, IssueSession,
                InsertToken, RaiseVersion, Ended, At
  <2> QED
    BY <2>1, <2>2, EndChange
<1>2. CASE Enable(r)
  <2>1. Goto(r, "deleteCodes") /\ req[r].pc = "enable" /\ req[r].op \in IssuingOps \cup WipingOps
    BY <1>2 DEF Enable, At, PcShape, ShapeOf, IssuingOps
  <2> QED
    BY <2>1, GotoChange DEF Ended
<1>3. CASE DeleteKeys(r)
  <2>1. Goto(r, "deleteCodes") /\ req[r].pc = "deleteKeys" /\ req[r].op \in IssuingOps \cup WipingOps
    BY <1>3 DEF DeleteKeys, At, PcShape, ShapeOf, WipingOps
  <2> QED
    BY <2>1, GotoChange DEF Ended
<1>4. CASE DeleteTokens(r)
  BY <1>4, GotoChange DEF DeleteTokens, At, Ended
<1>5. CASE DeleteRow(r)
  <2>1. CASE req[r].op = "disable"
    BY <1>5, <2>1, EndChange DEF DeleteRow, At, Ended
  <2>2. CASE req[r].op # "disable"
    BY <1>5, <2>2, GotoChange DEF DeleteRow, At, Ended, PcShape, ShapeOf, WipingOps
  <2> QED
    BY <2>1, <2>2
<1> QED
  BY <1>1, <1>2, <1>3, <1>4, <1>5, StopChange, ReadRowChange, ListKeysChange, SelectKeyChange,
     SelectChange, DeleteChallengeChange, UseCodeChange, UseTokenChange, DeleteCodesChange,
     InsertCodeChange, ReadSaltChange DEF Step

(***************************************************************************)
(* Types.                                                                  *)
(***************************************************************************)
\* A step of a handler keeps the types.
LEMMA StepTypes ==
  ASSUME TypeOK, PcShape, NEW r \in Requests, Step(r)
  PROVE  TypeOK'
<1> DEFINE CodeRows == [hash: Hashes, used: BOOLEAN]
           KeyRows == [key: Requests, canLogin: BOOLEAN, canMfa: BOOLEAN]
           TokenRows == [token: Tokens, used: BOOLEAN]
           SessionRows == [version: Nat, pending: BOOLEAN, by: Names]
<1>1. /\ mfa \in Rows /\ codes \subseteq CodeRows /\ passkeys \subseteq KeyRows
      /\ challenges \subseteq Challenges /\ recovery \subseteq TokenRows /\ version \in Nat
      /\ sessions \subseteq SessionRows /\ req \in [Requests -> Handlers]
  BY DEF TypeOK
<1>2. req' \in [Requests -> Handlers]
  BY StepChange DEF Change, Moves
<1>3. /\ req[r] \in Handlers /\ req[r].op \in Ops /\ req[r].cur \in Rows
      /\ req[r].todo \subseteq Codes
  BY <1>1 DEF Handlers
<1>4. mfa' \in Rows
  <2>1. CASE Enable(r)
    <3>1. req[r].op = "confirm" => req[r].thing[2] \in Requests
      BY <2>1 DEF Enable, At, PcShape, ShapeOf, Challenges
    <3> QED
      BY <2>1, <3>1 DEF Enable, Rows
  <2>2. CASE WriteSalt(r)
    BY <1>3, <2>2 DEF WriteSalt, WithSalt, Rows
  <2>3. CASE DeleteRow(r)
    BY <2>3 DEF DeleteRow, Rows, NoRow
  <2> QED
    BY <1>1, <2>1, <2>2, <2>3 DEF Step, tables, Stop, ReadRow, ListKeys, InsertChallenge,
       SelectChallenge, DeleteChallenge, SelectKey, InsertKey, PatchKey, DeleteKey, DeleteCodes,
       InsertCode, ReadSalt, SelectCode, UseCode, IssueSession, DeleteTokens, InsertToken,
       SelectToken, UseToken, DeleteKeys, RaiseVersion
<1>5. codes' \subseteq CodeRows
  <2>1. CASE InsertCode(r)
    <3>1. PICK c \in req[r].todo : codes' = codes \cup {[hash |-> <<"code", <<r, c>>>>, used |-> FALSE]}
      BY <2>1 DEF InsertCode
    <3>2. <<"code", <<r, c>>>> \in Hashes
      BY <1>3 DEF Hashes
    <3>3. \A h \in Hashes : [hash |-> h, used |-> FALSE] \in CodeRows
      OBVIOUS
    <3>4. [hash |-> <<"code", <<r, c>>>>, used |-> FALSE] \in CodeRows
      BY <3>2, <3>3
    <3> QED
      BY <1>1, <3>1, <3>4, Zenon
  <2>2. CASE UseCode(r)
    <3>1. codes' = {IF c.hash = req[r].thing THEN [c EXCEPT !.used = TRUE] ELSE c : c \in codes}
      BY <2>2 DEF UseCode
    <3>2. \A c \in codes : c \in CodeRows /\ [c EXCEPT !.used = TRUE] \in CodeRows
      BY <1>1
    <3> QED
      BY <3>1, <3>2
  <2>3. CASE DeleteCodes(r)
    BY <2>3 DEF DeleteCodes
  <2> QED
    BY <1>1, <2>1, <2>2, <2>3 DEF Step, tables, Stop, ReadRow, ListKeys, InsertChallenge,
       SelectChallenge, DeleteChallenge, SelectKey, InsertKey, PatchKey, DeleteKey, Enable,
       ReadSalt, WriteSalt, DeleteRow, SelectCode, IssueSession, DeleteTokens, InsertToken,
       SelectToken, UseToken, DeleteKeys, RaiseVersion
<1>6. passkeys' \subseteq KeyRows
  <2>1. CASE InsertKey(r)
    BY <1>1, <2>1 DEF InsertKey
  <2>2. CASE PatchKey(r)
    <3>1. PICK k \in passkeys, login, second \in BOOLEAN :
            passkeys' = (passkeys \ {k}) \cup {[k EXCEPT !.canLogin = login, !.canMfa = second]}
      BY <2>2 DEF PatchKey
    <3>2. [k EXCEPT !.canLogin = login, !.canMfa = second] \in KeyRows
      BY <1>1
    <3> QED
      BY <1>1, <3>1, <3>2
  <2>3. CASE DeleteKey(r) \/ DeleteKeys(r)
    BY <1>1, <2>3 DEF DeleteKey, DeleteKeys
  <2> QED
    BY <1>1, <2>1, <2>2, <2>3 DEF Step, tables, Stop, ReadRow, ListKeys, InsertChallenge,
       SelectChallenge, DeleteChallenge, SelectKey, Enable, DeleteCodes, InsertCode,
       ReadSalt, WriteSalt, DeleteRow, SelectCode, UseCode, IssueSession, DeleteTokens,
       InsertToken, SelectToken, UseToken, RaiseVersion
<1>7. challenges' \subseteq Challenges
  <2>1. CASE InsertChallenge(r)
    <3>1. <<KindOf(req[r].op), r>> \in Challenges
      BY DEF KindOf, Challenges, Kinds
    <3> QED
      BY <1>1, <2>1, <3>1 DEF InsertChallenge
  <2>2. CASE DeleteChallenge(r)
    BY <1>1, <2>2 DEF DeleteChallenge
  <2> QED
    BY <1>1, <2>1, <2>2 DEF Step, tables, Stop, ReadRow, ListKeys, SelectChallenge, SelectKey,
       InsertKey, PatchKey, DeleteKey, Enable, DeleteCodes, InsertCode, ReadSalt, WriteSalt,
       DeleteRow, SelectCode, UseCode, IssueSession, DeleteTokens, InsertToken, SelectToken,
       UseToken, DeleteKeys, RaiseVersion
<1>8. recovery' \subseteq TokenRows
  <2>1. CASE InsertToken(r)
    <3>1. recovery' = recovery \cup {[token |-> <<"recovery", r>>, used |-> FALSE]}
      BY <2>1 DEF InsertToken
    <3>2. <<"recovery", r>> \in Tokens
      BY DEF Tokens
    <3>3. \A t \in Tokens : [token |-> t, used |-> FALSE] \in TokenRows
      OBVIOUS
    <3>4. [token |-> <<"recovery", r>>, used |-> FALSE] \in TokenRows
      BY <3>2, <3>3
    <3> QED
      BY <1>1, <3>1, <3>4, Zenon
  <2>2. CASE UseToken(r)
    <3>1. recovery' = {IF t.token = req[r].thing THEN [t EXCEPT !.used = TRUE] ELSE t : t \in recovery}
      BY <2>2 DEF UseToken
    <3>2. \A t \in recovery : t \in TokenRows /\ [t EXCEPT !.used = TRUE] \in TokenRows
      BY <1>1
    <3> QED
      BY <3>1, <3>2
  <2>3. CASE DeleteTokens(r)
    BY <2>3 DEF DeleteTokens
  <2> QED
    BY <1>1, <2>1, <2>2, <2>3 DEF Step, tables, Stop, ReadRow, ListKeys, InsertChallenge,
       SelectChallenge, DeleteChallenge, SelectKey, InsertKey, PatchKey, DeleteKey, Enable,
       DeleteCodes, InsertCode, ReadSalt, WriteSalt, DeleteRow, SelectCode, UseCode, IssueSession,
       SelectToken, DeleteKeys, RaiseVersion
<1>9. version' \in Nat /\ sessions' \subseteq SessionRows
  <2>1. CASE IssueSession(r)
    <3>1. [version |-> version, by |-> r,
           pending |-> req[r].op \in LoginOps /\ req[r].cur.enabled] \in SessionRows
      BY <1>1, <1>3 DEF Names, Rows
    <3> QED
      BY <1>1, <2>1, <3>1 DEF IssueSession, Waits
  <2>2. CASE RaiseVersion(r)
    BY <1>1, <2>2 DEF RaiseVersion
  <2> QED
    BY <1>1, <2>1, <2>2 DEF Step, tables, Stop, ReadRow, ListKeys, InsertChallenge,
       SelectChallenge, DeleteChallenge, SelectKey, InsertKey, PatchKey, DeleteKey, Enable,
       DeleteCodes, InsertCode, ReadSalt, WriteSalt, DeleteRow, SelectCode, UseCode, DeleteTokens,
       InsertToken, SelectToken, UseToken, DeleteKeys
<1> QED
  BY <1>2, <1>4, <1>5, <1>6, <1>7, <1>8, <1>9 DEF TypeOK

(***************************************************************************)
(* A request arrives.                                                      *)
(***************************************************************************)
\* An arrival writes the newcomer's record and whom it meets, nothing else.
LEMMA Arrival ==
  ASSUME TypeOK, NEW r \in Requests, NEW op \in Ops, Begin(r, op)
  PROVE  /\ TypeOK'
         /\ UNCHANGED tables
         /\ req[r].pc = "idle"
         /\ req'[r].op = op /\ req'[r].pc = FirstStatement(op) /\ req'[r].thing = None
         /\ req'[r].spent = None /\ req'[r].with = InFlight
         /\ \A q \in Requests : q # r =>
              /\ req'[q].op = req[q].op /\ req'[q].pc = req[q].pc /\ req'[q].cur = req[q].cur
              /\ req'[q].thing = req[q].thing /\ req'[q].todo = req[q].todo
              /\ req'[q].spent = req[q].spent
              /\ req'[q].with = IF q \in InFlight THEN req[q].with \cup {r} ELSE req[q].with
<1> DEFINE new == [Idle EXCEPT !.op = op, !.pc = FirstStatement(op), !.with = InFlight]
           met(q) == [req[q] EXCEPT !.with = req[q].with \cup {r}]
<1>1. req' = [q \in Requests |->
        IF q = r THEN new ELSE IF q \in InFlight THEN met(q) ELSE req[q]]
  BY DEF Begin, TypeOK
<1>2. FirstStatement(op) \in Pcs
  BY DEF FirstStatement, Pcs
<1>3. NoRow \in Rows /\ InFlight \subseteq Requests
  BY DEF NoRow, Rows, InFlight
<1>4. new \in Handlers
  BY <1>2, <1>3 DEF Handlers, Idle
<1>5. new.op = op /\ new.pc = FirstStatement(op) /\ new.thing = None /\ new.spent = None
      /\ new.with = InFlight
  BY DEF Idle
<1>6. \A q \in Requests : req[q] \in Handlers
  BY DEF TypeOK
<1>7. ASSUME NEW q \in Requests
      PROVE  met(q) \in Handlers
  <2>1. req[q] \in Handlers /\ req[q].with \cup {r} \in SUBSET Requests
    BY <1>6 DEF Handlers
  <2> QED
    BY <2>1 DEF Handlers
<1>8. ASSUME NEW q \in Requests
      PROVE  /\ met(q).op = req[q].op /\ met(q).pc = req[q].pc /\ met(q).cur = req[q].cur
             /\ met(q).thing = req[q].thing /\ met(q).todo = req[q].todo
             /\ met(q).spent = req[q].spent /\ met(q).with = req[q].with \cup {r}
  <2>1. req[q] \in Handlers
    BY <1>6
  <2> QED
    BY <2>1 DEF Handlers
<1> HIDE DEF new, met
<1>9. req' \in [Requests -> Handlers]
  BY <1>1, <1>4, <1>6, <1>7
<1>10. UNCHANGED tables /\ req[r].pc = "idle"
  BY DEF Begin, At
<1>11. TypeOK'
  BY <1>9, <1>10 DEF TypeOK, tables
<1>12. req'[r] = new
  BY <1>1
<1>13. ASSUME NEW q \in Requests, q # r
       PROVE  /\ req'[q].op = req[q].op /\ req'[q].pc = req[q].pc /\ req'[q].cur = req[q].cur
              /\ req'[q].thing = req[q].thing /\ req'[q].todo = req[q].todo
              /\ req'[q].spent = req[q].spent
              /\ req'[q].with = IF q \in InFlight THEN req[q].with \cup {r} ELSE req[q].with
  <2>1. req'[q] = IF q \in InFlight THEN met(q) ELSE req[q]
    BY <1>1, <1>13
  <2>2. CASE q \in InFlight
    <3>1. req'[q] = met(q)
      BY <2>1, <2>2
    <3> QED
      BY <1>8, <2>2, <3>1
  <2>3. CASE q \notin InFlight
    <3>1. req'[q] = req[q]
      BY <2>1, <2>3
    <3> QED
      BY <2>3, <3>1
  <2> QED
    BY <2>2, <2>3
<1>14. /\ req'[r].op = op /\ req'[r].pc = FirstStatement(op) /\ req'[r].thing = None
       /\ req'[r].spent = None /\ req'[r].with = InFlight
  BY <1>5, <1>12
<1> QED
  BY <1>10, <1>11, <1>13, <1>14

(***************************************************************************)
(* Shapes and encounters.                                                  *)
(***************************************************************************)
\* A step keeps every handler in shape.
LEMMA ShapeKept ==
  ASSUME TypeOK, PcShape, NEW r \in Requests, Step(r)
  PROVE  PcShape'
<1>1. Moves(r) /\ ShapeOf(r)'
  BY StepChange DEF Change
<1>2. ASSUME NEW q \in Requests, q # r
      PROVE  ShapeOf(q)'
  <2>1. req'[q] = req[q] /\ ShapeOf(q)
    BY <1>1, <1>2 DEF Moves, PcShape
  <2> QED
    BY <2>1 DEF ShapeOf, At
<1> QED
  BY <1>1, <1>2 DEF PcShape

\* A newcomer is at the first statement of its kind.
LEMMA ShapeOnArrival ==
  ASSUME TypeOK, PcShape, NEW r \in Requests, NEW op \in Ops, Begin(r, op)
  PROVE  PcShape'
<1>1. ShapeOf(r)'
  BY Arrival DEF ShapeOf, At, FirstStatement, Ended
<1>2. ASSUME NEW q \in Requests, q # r
      PROVE  ShapeOf(q)'
  <2>1. ShapeOf(q)
    BY DEF PcShape
  <2>2. req'[q].op = req[q].op
    BY <1>2, Arrival
  <2>3. req'[q].pc = req[q].pc
    BY <1>2, Arrival
  <2>4. req'[q].thing = req[q].thing
    BY <1>2, Arrival
  <2> QED
    BY <2>1, <2>2, <2>3, <2>4 DEF ShapeOf, At
<1> QED
  BY <1>1, <1>2 DEF PcShape

\* A step may leave the requests in flight, never join them.
LEMMA EncountersKept ==
  ASSUME TypeOK, PcShape, Encounters, NEW r \in Requests, Step(r)
  PROVE  Encounters'
<1>1. Moves(r)
  BY StepChange DEF Change
<1>2. \A q \in Requests : req'[q].with = req[q].with
  BY <1>1 DEF Moves
<1>3. InFlight' \subseteq InFlight
  BY <1>1 DEF Moves, InFlight, Ended
<1>4. \A q \in Requests : ~At(q, "idle") => ~At(q, "idle")'
  BY <1>1 DEF Moves, At
<1>5. \A q \in Requests : req[q].with \subseteq Requests
  BY DEF TypeOK, Handlers
<1> QED
  BY <1>2, <1>3, <1>4, <1>5 DEF Encounters, InFlight

\* A newcomer meets everyone in flight, and everyone meets it.
LEMMA EncountersOnArrival ==
  ASSUME TypeOK, Encounters, NEW r \in Requests, NEW op \in Ops, Begin(r, op)
  PROVE  Encounters'
<1>1. InFlight' = InFlight \cup {r} /\ r \notin InFlight
  <2>1. FirstStatement(op) \notin {"idle", "ok", "stopped"}
    BY DEF FirstStatement
  <2>2. req[r].pc = "idle" /\ req'[r].pc = FirstStatement(op)
        /\ \A q \in Requests : q # r => req'[q].pc = req[q].pc
    BY Arrival
  <2> QED
    BY <2>1, <2>2 DEF InFlight
<1>2. ASSUME NEW q \in InFlight', NEW s \in InFlight', q # s
      PROVE  q \in req'[s].with
  <2>1. q \in Requests /\ s \in Requests
    BY DEF InFlight
  <2>2. CASE s = r
    BY <1>1, <1>2, <2>2, Arrival
  <2>3. CASE s # r
    <3>1. req'[s].with = req[s].with \cup {r}
      BY <1>1, <2>1, <2>3, Arrival
    <3>2. q # r => q \in req[s].with
      BY <1>1, <1>2, <2>3 DEF Encounters
    <3> QED
      BY <3>1, <3>2
  <2> QED
    BY <2>2, <2>3
<1>3. \A s \in Requests : \A q \in req'[s].with : ~At(q, "idle")'
  <2> SUFFICES ASSUME NEW s \in Requests, NEW q \in req'[s].with
               PROVE  req'[q].pc # "idle"
    BY DEF At
  <2>1. CASE s = r
    <3>1. q \in InFlight
      BY <2>1, Arrival
    <3>2. q \in Requests /\ req[q].pc # "idle" /\ q # r
      BY <1>1, <3>1 DEF InFlight
    <3> QED
      BY <3>2, Arrival
  <2>2. CASE s # r
    <3>0. req'[s].with = IF s \in InFlight THEN req[s].with \cup {r} ELSE req[s].with
      BY <2>2, Arrival
    <3>1. q \in req[s].with \/ q = r
      BY <3>0
    <3>2. q \in Requests
      BY <3>1 DEF TypeOK, Handlers
    <3>3. q \in req[s].with => req[q].pc # "idle"
      BY DEF Encounters, At
    <3>4. q # r => req'[q].pc = req[q].pc
      BY <3>2, Arrival
    <3>5. req'[r].pc # "idle"
      BY Arrival DEF FirstStatement
    <3> QED
      BY <3>1, <3>3, <3>4, <3>5
  <2> QED
    BY <2>1, <2>2
<1> QED
  BY <1>2, <1>3 DEF Encounters

(***************************************************************************)
(* What a step may add to a table.                                         *)
(***************************************************************************)
\* A stored code was stored before, or is inserted now and never again.
CodeFrom(r, c) ==
  \/ \E d \in codes : d.hash = c.hash /\ (d.used => c.used)
  \/ \E k \in req[r].todo :
       /\ c.hash = <<"code", <<r, k>>>>
       /\ req[r].op \in IssuingOps
       /\ req[r].pc = "insertCodes"
       /\ req'[r].pc \in {"readSalt", "insertCodes"}
       /\ req'[r].todo = req[r].todo \ {k}

\* A step inserts at most codes of its own handler.
LEMMA CodeSources ==
  ASSUME TypeOK, PcShape, NEW r \in Requests, Step(r), NEW c \in codes'
  PROVE  CodeFrom(r, c)
<1>1. CASE InsertCode(r)
  <2>1. PICK k \in req[r].todo :
          /\ codes' = codes \cup {[hash |-> <<"code", <<r, k>>>>, used |-> FALSE]}
          /\ req' = [req EXCEPT ![r].todo = @ \ {k},
                                ![r].pc = IF req[r].todo = {k} THEN "readSalt" ELSE "insertCodes"]
    BY <1>1 DEF InsertCode
  <2> DEFINE pc == IF req[r].todo = {k} THEN "readSalt" ELSE "insertCodes"
             todo == req[r].todo \ {k}
  <2>2. req[r].pc = "insertCodes" /\ req[r].op \in IssuingOps /\ req[r].todo \subseteq Codes
    BY <1>1 DEF InsertCode, At, PcShape, ShapeOf, TypeOK, Handlers
  <2>3. req' = [req EXCEPT ![r].todo = todo, ![r].pc = pc]
    BY <2>1 DEF TypeOK
  <2>4. pc \in {"readSalt", "insertCodes"} /\ pc \in Pcs /\ pc # "idle" /\ todo \in SUBSET Codes
    BY <2>2 DEF Pcs
  <2>5. todo = req[r].todo \ {k}
    OBVIOUS
  <2> HIDE DEF pc, todo
  <2>6. Moves(r) /\ req'[r].pc = pc /\ req'[r].todo = todo
    <3>1. req[r].pc \notin {"idle"} \cup Ended
      BY <2>2 DEF Ended
    <3> QED
      BY <2>3, <2>4, <3>1, TodoMoves
  <2>7. c \in codes \/ c.hash = <<"code", <<r, k>>>>
    BY <2>1
  <2>8. CASE c \in codes
    BY <2>8 DEF CodeFrom
  <2>9. CASE c.hash = <<"code", <<r, k>>>>
    BY <2>2, <2>4, <2>5, <2>6, <2>9 DEF CodeFrom
  <2> QED
    BY <2>7, <2>8, <2>9
<1>2. CASE UseCode(r)
  <2>1. codes' = {IF d.hash = req[r].thing THEN [d EXCEPT !.used = TRUE] ELSE d : d \in codes}
    BY <1>2 DEF UseCode
  <2>2. PICK d \in codes : c = IF d.hash = req[r].thing THEN [d EXCEPT !.used = TRUE] ELSE d
    BY <2>1
  <2>3. d \in [hash: Hashes, used: BOOLEAN]
    BY DEF TypeOK
  <2>4. c.hash = d.hash /\ (d.used => c.used)
    BY <2>2, <2>3
  <2> QED
    BY <2>4 DEF CodeFrom
<1>3. CASE ~InsertCode(r) /\ ~UseCode(r)
  <2>1. c \in codes
    BY <1>3 DEF Step, tables, Stop, ReadRow, ListKeys, InsertChallenge,
       SelectChallenge, DeleteChallenge, SelectKey, InsertKey, PatchKey, DeleteKey, Enable,
       DeleteCodes, ReadSalt, WriteSalt, DeleteRow, SelectCode, IssueSession, DeleteTokens,
       InsertToken, SelectToken, UseToken, DeleteKeys, RaiseVersion
  <2> QED
    BY <2>1 DEF CodeFrom
<1> QED
  BY <1>1, <1>2, <1>3

\* A challenge is stored by the request it is named after, which then ends.
LEMMA ChallengeSources ==
  ASSUME TypeOK, PcShape, NEW r \in Requests, Step(r), NEW c \in challenges'
  PROVE  \/ c \in challenges
         \/ /\ c = <<KindOf(req[r].op), r>>
            /\ req[r].pc = "insertChallenge" /\ req'[r].pc = "ok"
<1>1. CASE InsertChallenge(r)
  <2>1. req'[r].pc = "ok" /\ req[r].pc = "insertChallenge"
    BY <1>1, EndMoves DEF InsertChallenge, At, Ended
  <2> QED
    BY <1>1, <2>1 DEF InsertChallenge
<1>2. CASE ~InsertChallenge(r)
  BY <1>2 DEF Step, tables, Stop, ReadRow, ListKeys,
       SelectChallenge, DeleteChallenge, SelectKey, InsertKey, PatchKey, DeleteKey, Enable,
       DeleteCodes, InsertCode, ReadSalt, WriteSalt, DeleteRow, SelectCode, UseCode, IssueSession,
       DeleteTokens, InsertToken, SelectToken, UseToken, DeleteKeys, RaiseVersion
<1> QED
  BY <1>1, <1>2

\* So is a recovery token.
LEMMA TokenSources ==
  ASSUME TypeOK, PcShape, NEW r \in Requests, Step(r), NEW t \in recovery'
  PROVE  \/ \E s \in recovery : s.token = t.token /\ (s.used => t.used)
         \/ /\ t.token = <<"recovery", r>>
            /\ req[r].pc = "insertToken" /\ req'[r].pc = "ok"
<1>1. CASE InsertToken(r)
  <2>1. req'[r].pc = "ok" /\ req[r].pc = "insertToken"
    BY <1>1, EndMoves DEF InsertToken, At, Ended
  <2>2. t \in recovery \/ t = [token |-> <<"recovery", r>>, used |-> FALSE]
    BY <1>1 DEF InsertToken
  <2> QED
    BY <2>1, <2>2
<1>2. CASE UseToken(r)
  <2>1. recovery' = {IF s.token = req[r].thing THEN [s EXCEPT !.used = TRUE] ELSE s : s \in recovery}
    BY <1>2 DEF UseToken
  <2>2. PICK s \in recovery : t = IF s.token = req[r].thing THEN [s EXCEPT !.used = TRUE] ELSE s
    BY <2>1
  <2>3. s \in [token: Tokens, used: BOOLEAN]
    BY DEF TypeOK
  <2>4. t.token = s.token /\ (s.used => t.used)
    BY <2>2, <2>3
  <2> QED
    BY <2>4
<1>3. CASE ~InsertToken(r) /\ ~UseToken(r)
  <2>1. t \in recovery
    BY <1>3 DEF Step, tables, Stop, ReadRow, ListKeys, InsertChallenge,
       SelectChallenge, DeleteChallenge, SelectKey, InsertKey, PatchKey, DeleteKey, Enable,
       DeleteCodes, InsertCode, ReadSalt, WriteSalt, DeleteRow, SelectCode, UseCode, IssueSession,
       DeleteTokens, SelectToken, DeleteKeys, RaiseVersion
  <2> QED
    BY <2>1
<1> QED
  BY <1>1, <1>2, <1>3

\* A passkey is stored by a registration.
LEMMA KeySources ==
  ASSUME TypeOK, PcShape, NEW r \in Requests, Step(r), NEW k \in passkeys'
  PROVE  \/ \E j \in passkeys : j.key = k.key
         \/ k.key = r /\ req[r].op = "register"
<1>1. CASE InsertKey(r)
  BY <1>1 DEF InsertKey
<1>2. CASE PatchKey(r)
  <2>1. PICK j \in passkeys, login, second \in BOOLEAN :
          passkeys' = (passkeys \ {j}) \cup {[j EXCEPT !.canLogin = login, !.canMfa = second]}
    BY <1>2 DEF PatchKey
  <2>2. j \in [key: Requests, canLogin: BOOLEAN, canMfa: BOOLEAN]
    BY DEF TypeOK
  <2>3. [j EXCEPT !.canLogin = login, !.canMfa = second].key = j.key
    BY <2>2
  <2> QED
    BY <2>1, <2>3
<1>3. CASE ~InsertKey(r) /\ ~PatchKey(r)
  <2>1. k \in passkeys
    BY <1>3 DEF Step, tables, Stop, ReadRow, ListKeys, InsertChallenge,
       SelectChallenge, DeleteChallenge, SelectKey, DeleteKey, Enable,
       DeleteCodes, InsertCode, ReadSalt, WriteSalt, DeleteRow, SelectCode, UseCode, IssueSession,
       DeleteTokens, InsertToken, SelectToken, UseToken, DeleteKeys, RaiseVersion
  <2> QED
    BY <2>1
<1> QED
  BY <1>1, <1>2, <1>3

\* The row is written by requests that issue codes, or deleted.
LEMMA RowSources ==
  ASSUME TypeOK, PcShape, NEW r \in Requests, Step(r)
  PROVE  mfa' = mfa \/ mfa' = NoRow \/ (mfa'.by = r /\ req[r].op \in IssuingOps)
<1>1. CASE Enable(r)
  BY <1>1 DEF Enable, At, PcShape, ShapeOf, IssuingOps
<1>2. CASE WriteSalt(r)
  <2>1. req[r].cur \in Rows
    BY DEF TypeOK, Handlers
  <2>2. mfa'.by = r
    BY <1>2, <2>1 DEF WriteSalt, WithSalt, Rows
  <2> QED
    BY <1>2, <2>2 DEF WriteSalt, At, PcShape, ShapeOf
<1>3. CASE ~Enable(r) /\ ~WriteSalt(r)
  BY <1>3 DEF Step, tables, Stop, ReadRow, ListKeys, InsertChallenge,
       SelectChallenge, DeleteChallenge, SelectKey, InsertKey, PatchKey, DeleteKey,
       DeleteCodes, InsertCode, ReadSalt, DeleteRow, SelectCode, UseCode, IssueSession,
       DeleteTokens, InsertToken, SelectToken, UseToken, DeleteKeys, RaiseVersion
<1> QED
  BY <1>1, <1>2, <1>3

(***************************************************************************)
(* Things are made once.                                                   *)
(***************************************************************************)
\* The maker of a thing.
LEMMA Makers ==
  /\ \A x \in Hashes : x[2][1] \in Requests /\ x[2][2] \in Codes /\ x = <<"code", <<x[2][1], x[2][2]>>>>
  /\ \A x \in Challenges \cup Tokens : x[2] \in Requests
BY DEF Hashes, Challenges, Tokens

\* What is made stays made.
LEMMA MadeStays ==
  ASSUME TypeOK, PcShape, NEW r \in Requests, Step(r), NEW x \in Things, Made(x)
  PROVE  Made(x)'
<1>1. Moves(r) /\ Progress(r)
  BY StepChange DEF Change
<1>2. ASSUME x \in Hashes
      PROVE  LET a == x[2][1]
                 c == x[2][2]
             IN  /\ req'[a].pc \in {"insertCodes", "readSalt", "writeSalt"} \cup Ended
                 /\ c \notin req'[a].todo
  <2> DEFINE a == x[2][1]
             c == x[2][2]
  <2>1. a \in Requests
    BY <1>2, Makers
  <2>2. req[a].pc \in {"insertCodes", "readSalt", "writeSalt"} \cup Ended /\ c \notin req[a].todo
    BY <1>2 DEF Made
  <2> HIDE DEF a, c
  <2>3. /\ req'[a].pc \in {"insertCodes", "readSalt", "writeSalt"} \cup Ended
        /\ c \notin req'[a].todo
    <3>1. CASE a = r
      BY <1>1, <2>2, <3>1 DEF Progress
    <3>2. CASE a # r
      BY <1>1, <2>1, <2>2, <3>2 DEF Moves
    <3> QED
      BY <3>1, <3>2
  <2> QED
    BY <2>3 DEF a, c
<1>3. ASSUME x \in Challenges \cup Tokens
      PROVE  req'[x[2]].pc = "ok"
  <2>1. x[2] \in Requests /\ req[x[2]].pc = "ok"
    BY <1>3, Makers DEF Made, At
  <2>2. x[2] # r
    BY <1>1, <2>1 DEF Moves, Ended
  <2> QED
    BY <1>1, <2>1, <2>2 DEF Moves
<1> QED
  BY <1>2, <1>3 DEF Made, At

\* Whatever a table or a handler holds was made.
LEMMA MadeKept ==
  ASSUME TypeOK, PcShape, AllMade, NEW r \in Requests, Step(r)
  PROVE  AllMade'
<1>1. Moves(r) /\ Uses(r)
  BY StepChange DEF Change
<1>2. ASSUME NEW c \in codes'
      PROVE  Made(c.hash)'
  <2>1. CodeFrom(r, c)
    BY CodeSources
  <2>2. ASSUME NEW d \in codes, d.hash = c.hash
        PROVE  Made(c.hash)'
    <3>1. d.hash \in Things /\ Made(d.hash)
      BY DEF TypeOK, Things, AllMade
    <3>2. Made(d.hash)'
      BY <3>1, MadeStays
    <3> QED
      BY <2>2, <3>2
  <2>3. ASSUME NEW k \in req[r].todo, c.hash = <<"code", <<r, k>>>>,
               req'[r].pc \in {"readSalt", "insertCodes"}, req'[r].todo = req[r].todo \ {k}
        PROVE  Made(c.hash)'
    <3>1. k \in Codes
      BY DEF TypeOK, Handlers
    <3>2. c.hash \in Hashes
      BY <2>3, <3>1 DEF Hashes
    <3>3. c.hash \notin Challenges \cup Tokens
      BY <3>2, KindsApart
    <3>4. c.hash[2][1] = r /\ c.hash[2][2] = k
      BY <2>3
    <3> QED
      BY <2>3, <3>3, <3>4 DEF Made, Ended
  <2> QED
    BY <2>1, <2>2, <2>3 DEF CodeFrom

<1>3. ASSUME NEW c \in challenges'
      PROVE  Made(c)'
  <2>1. CASE c \in challenges
    <3>1. c \in Things /\ Made(c)
      BY <2>1 DEF TypeOK, Things, AllMade
    <3> QED
      BY <3>1, MadeStays
  <2>2. CASE c = <<KindOf(req[r].op), r>> /\ req'[r].pc = "ok"
    <3>1. c \in Challenges
      BY <2>2 DEF Challenges, Kinds, KindOf
    <3>2. c \notin Hashes /\ c[2] = r
      BY <2>2, <3>1, KindsApart
    <3> QED
      BY <2>2, <3>2 DEF Made, At
  <2> QED
    BY <2>1, <2>2, ChallengeSources
<1>4. ASSUME NEW t \in recovery'
      PROVE  Made(t.token)'
  <2>1. ASSUME NEW s \in recovery, s.token = t.token
        PROVE  Made(t.token)'
    <3>1. s.token \in Things /\ Made(s.token)
      BY DEF TypeOK, Things, AllMade
    <3>2. Made(s.token)'
      BY <3>1, MadeStays
    <3> QED
      BY <2>1, <3>2
  <2>2. CASE t.token = <<"recovery", r>> /\ req'[r].pc = "ok"
    <3>1. t.token \in Tokens
      BY <2>2 DEF Tokens
    <3>2. t.token \notin Hashes /\ t.token[2] = r
      BY <2>2, <3>1, KindsApart
    <3> QED
      BY <2>2, <3>2 DEF Made, At
  <2> QED
    BY <2>1, <2>2, TokenSources
<1>5. \A q \in Requests :
        /\ req[q].thing # None => req[q].thing \in Things /\ Made(req[q].thing)
        /\ req[q].spent # None => req[q].spent \in Things /\ Made(req[q].spent)
  BY DEF TypeOK, Handlers, AllMade
<1>6. ASSUME NEW x, Free(x)
      PROVE  x \in Things /\ Made(x)
  BY <1>6 DEF Free, AllMade, TypeOK, Things
<1>7. ASSUME NEW x, NEW q \in Requests, x # None, x = req'[q].thing \/ x = req'[q].spent
      PROVE  Made(x)'
  <2>1. x \in Things /\ Made(x)
    <3>1. CASE q # r
      BY <1>1, <1>5, <1>7, <3>1 DEF Moves
    <3>2. CASE q = r
      BY <1>1, <1>5, <1>6, <1>7, <3>2 DEF Uses
    <3> QED
      BY <3>1, <3>2
  <2> QED
    BY <2>1, MadeStays
<1>8. \A q \in Requests : req[q].pc # "idle" => req'[q].pc # "idle"
  BY <1>1 DEF Moves
<1>9. \A k \in passkeys' : req'[k.key].pc # "idle"
  <2> SUFFICES ASSUME NEW k \in passkeys'
               PROVE  req'[k.key].pc # "idle"
    OBVIOUS
  <2>1. \A j \in passkeys : j.key \in Requests /\ req[j.key].pc # "idle"
    BY DEF TypeOK, AllMade, At
  <2>2. req'[r].pc # "idle"
    BY <1>1 DEF Moves
  <2> QED
    BY <1>8, <2>1, <2>2, KeySources
<1>10. mfa'.by # None => req'[mfa'.by].pc # "idle"
  <2>1. mfa.by # None => mfa.by \in Requests /\ req[mfa.by].pc # "idle"
    BY DEF TypeOK, Rows, AllMade, At
  <2>2. req'[r].pc # "idle"
    BY <1>1 DEF Moves
  <2>3. NoRow.by = None
    BY DEF NoRow
  <2> QED
    BY <1>8, <2>1, <2>2, <2>3, RowSources
<1>11. \A q \in Requests : /\ (req[q].thing # None => Made(req[q].thing))'
                           /\ (req[q].spent # None => Made(req[q].spent))'
  BY <1>7 DEF Made, At
<1> QED
  BY <1>2, <1>3, <1>4, <1>9, <1>10, <1>11 DEF AllMade, At

(***************************************************************************)
(* What is used up stays used up, but for requests in flight together.     *)
(***************************************************************************)
\* A thing already used up is neither free nor put back by a step.
LEMMA GoneStays ==
  ASSUME TypeOK, PcShape, AllMade, SpentIsGone, NEW r \in Requests, Step(r),
         NEW q \in Requests, NEW x, x = req[q].spent, x # None
  PROVE  /\ ~Free(x)
         /\ x \notin challenges'
         /\ \A c \in codes' : c.hash = x => c.used
         /\ \A t \in recovery' : t.token = x => t.used
<1>1. /\ x \in Things /\ Made(x) /\ x \notin challenges
      /\ \A c \in codes : c.hash = x => c.used
      /\ \A t \in recovery : t.token = x => t.used
  BY DEF TypeOK, Handlers, AllMade, SpentIsGone
<1>2. ~Free(x)
  BY <1>1 DEF Free
<1>3. x \notin challenges'
  <2> SUFFICES ASSUME x = <<KindOf(req[r].op), r>>, req[r].pc = "insertChallenge"
               PROVE  FALSE
    BY <1>1, ChallengeSources
  <2>1. x \in Challenges
    BY DEF Challenges, Kinds, KindOf
  <2>2. req[x[2]].pc = "ok"
    BY <1>1, <2>1 DEF Made, At
  <2> QED
    BY <2>2
<1>4. ASSUME NEW c \in codes', c.hash = x
      PROVE  c.used
  <2>1. CodeFrom(r, c)
    BY CodeSources
  <2>2. ASSUME NEW k \in req[r].todo, x = <<"code", <<r, k>>>>
        PROVE  FALSE
    <3>1. k \in Codes
      BY DEF TypeOK, Handlers
    <3>2. x \in Hashes
      BY <2>2, <3>1 DEF Hashes
    <3>3. x[2][2] \notin req[x[2][1]].todo
      BY <1>1, <3>2 DEF Made
    <3> QED
      BY <2>2, <3>3
  <2> QED
    BY <1>1, <1>4, <2>1, <2>2 DEF CodeFrom
<1>5. ASSUME NEW t \in recovery', t.token = x
      PROVE  t.used
  <2>1. CASE x = <<"recovery", r>> /\ req[r].pc = "insertToken"
    <3>1. x \in Tokens
      BY <2>1 DEF Tokens
    <3>2. req[x[2]].pc = "ok"
      BY <1>1, <3>1 DEF Made, At
    <3> QED
      BY <2>1, <3>2
  <2>2. CASE \E s \in recovery : s.token = t.token /\ (s.used => t.used)
    BY <1>1, <1>5, <2>2
  <2> QED
    BY <1>5, <2>1, <2>2, TokenSources
<1> QED
  BY <1>2, <1>3, <1>4, <1>5

\* Using a thing up marks it, and nobody makes it again.
LEMMA SpentKept ==
  ASSUME TypeOK, PcShape, AllMade, SpentIsGone, NEW r \in Requests, Step(r)
  PROVE  SpentIsGone'
<1>1. Moves(r) /\ Uses(r)
  BY StepChange DEF Change
<1>2. ASSUME NEW q \in Requests, NEW x, x = req'[q].spent, x # None
      PROVE  /\ x \notin challenges'
             /\ \A c \in codes' : c.hash = x => c.used
             /\ \A t \in recovery' : t.token = x => t.used
  <2>1. CASE x = req[q].spent
    BY <1>2, <2>1, GoneStays
  <2>2. CASE x # req[q].spent
    <3>1. q = r
      BY <1>1, <1>2, <2>2 DEF Moves
    <3> QED
      BY <1>1, <1>2, <2>2, <3>1 DEF Uses
  <2> QED
    BY <2>1, <2>2
<1> QED
  BY <1>2 DEF SpentIsGone

\* A thing is taken by a SELECT only while nobody has used it up.
LEMMA HeldKept ==
  ASSUME TypeOK, PcShape, Encounters, AllMade, SpentIsGone, HeldTogether,
         NEW r \in Requests, Step(r)
  PROVE  HeldTogether'
<1>1. Moves(r) /\ Uses(r)
  BY StepChange DEF Change
<1>2. \A q \in Requests : req'[q].with = req[q].with
  BY <1>1 DEF Moves
<1>3. ASSUME NEW q \in Requests, NEW s \in Requests, q # s,
             NEW x, x # None, x = req'[q].thing, x = req'[s].spent
      PROVE  q \in req[s].with /\ s \in req[q].with
  <2>1. CASE req[q].thing = x /\ req[s].spent = x
    BY <1>3, <2>1 DEF HeldTogether
  <2>2. CASE req[q].thing # x
    <3>1. q = r /\ req'[s] = req[s]
      BY <1>1, <1>3, <2>2 DEF Moves
    <3>2. Free(x)
      BY <1>1, <1>3, <2>2, <3>1 DEF Uses
    <3> QED
      BY <1>3, <3>1, <3>2, GoneStays
  <2>3. CASE req[q].thing = x /\ req[s].spent # x
    <3>1. s = r
      BY <1>1, <1>3, <2>3 DEF Moves
    <3>2. req[r].thing = x
      BY <1>1, <1>3, <2>3, <3>1 DEF Uses
    <3>3. q \in InFlight /\ r \in InFlight
      BY <1>3, <2>3, <3>2 DEF PcShape, ShapeOf, InFlight, Ended
    <3> QED
      BY <1>3, <3>1, <3>3 DEF Encounters
  <2> QED
    BY <2>1, <2>2, <2>3
<1> QED
  BY <1>2, <1>3 DEF HeldTogether

\* Using a thing up twice takes two holders.
LEMMA UsedKept ==
  ASSUME TypeOK, PcShape, HeldTogether, UsedTwiceOnlyTogether, NEW r \in Requests, Step(r)
  PROVE  UsedTwiceOnlyTogether'
<1>1. Moves(r) /\ Uses(r)
  BY StepChange DEF Change
<1>2. \A q \in Requests : req'[q].with = req[q].with
  BY <1>1 DEF Moves
<1>3. ASSUME NEW q \in Requests, NEW s \in Requests, q # s,
             NEW x, x # None, x = req'[q].spent, x = req'[s].spent
      PROVE  q \in req[s].with
  <2>1. CASE req[q].spent = x /\ req[s].spent = x
    BY <1>3, <2>1 DEF UsedTwiceOnlyTogether
  <2>2. CASE req[q].spent # x
    <3>1. q = r /\ req[s].spent = x
      BY <1>1, <1>3, <2>2 DEF Moves
    <3>2. req[q].thing = x
      BY <1>1, <1>3, <2>2, <3>1 DEF Uses
    <3> QED
      BY <1>3, <3>1, <3>2 DEF HeldTogether
  <2>3. CASE req[s].spent # x
    <3>1. s = r /\ req[q].spent = x
      BY <1>1, <1>3, <2>3 DEF Moves
    <3>2. req[s].thing = x
      BY <1>1, <1>3, <2>3, <3>1 DEF Uses
    <3> QED
      BY <1>3, <3>1, <3>2 DEF HeldTogether
  <2> QED
    BY <2>1, <2>2, <2>3
<1> QED
  BY <1>2, <1>3 DEF UsedTwiceOnlyTogether

(***************************************************************************)
(* Recovery, logins, versions.                                             *)
(***************************************************************************)
\* The order of a recovery: passkeys, codes, row, version.
LEMMA RecoveryOrder ==
  ASSUME TypeOK, PcShape, NEW r \in Requests, Step(r), req[r].op = "recoveryConfirm"
  PROVE  /\ req'[r].pc = "deleteCodes" => passkeys' = {}
         /\ req'[r].pc = "deleteRow" =>
              req[r].pc = "deleteCodes" /\ codes' = {} /\ passkeys' = passkeys
         /\ req'[r].pc = "raiseVersion" =>
              req[r].pc = "deleteRow" /\ mfa' = NoRow /\ codes' = codes /\ passkeys' = passkeys
<1>1. CASE DeleteKeys(r)
  <2>1. req'[r].pc = "deleteCodes"
    BY <1>1, GotoMoves DEF DeleteKeys, At, Pcs, Ended
  <2> QED
    BY <1>1, <2>1 DEF DeleteKeys
<1>2. CASE DeleteCodes(r)
  <2>1. Goto(r, "deleteRow") /\ req[r].pc = "deleteCodes" /\ codes' = {} /\ passkeys' = passkeys
    BY <1>2 DEF DeleteCodes, At, Goto, IssuingOps, EnablingOps
  <2>2. req'[r].pc = "deleteRow"
    BY <2>1, GotoMoves DEF Pcs, Ended
  <2> QED
    BY <2>1, <2>2
<1>3. CASE DeleteRow(r)
  <2>1. Goto(r, "raiseVersion") /\ req[r].pc = "deleteRow" /\ mfa' = NoRow
        /\ codes' = codes /\ passkeys' = passkeys
    BY <1>3 DEF DeleteRow, At
  <2>2. req'[r].pc = "raiseVersion"
    BY <2>1, GotoMoves DEF Pcs, Ended
  <2> QED
    BY <2>1, <2>2
<1>4. CASE ~DeleteKeys(r) /\ ~DeleteCodes(r) /\ ~DeleteRow(r)
  <2>1. req'[r].pc \notin {"deleteCodes", "deleteRow", "raiseVersion"}
    <3>1. CASE Stop(r) \/ RaiseVersion(r)
      <4>1. \E pc \in Ended : End(r, pc)
        BY <3>1 DEF Stop, RaiseVersion, Ended
      <4>2. req[r].pc \notin {"idle"} \cup Ended
        BY <3>1 DEF Stop, RaiseVersion, At, InFlight, Ended
      <4>3. req'[r].pc \in Ended
        BY <4>1, <4>2, EndMoves
      <4> QED
        BY <4>3 DEF Ended
    <3>2. CASE InsertChallenge(r) \/ InsertKey(r) \/ PatchKey(r) \/ DeleteKey(r) \/ WriteSalt(r)
               \/ IssueSession(r) \/ InsertToken(r)
      <4>1. End(r, "ok") /\ req[r].pc \notin {"idle"} \cup Ended
        BY <3>2 DEF InsertChallenge, InsertKey, PatchKey, DeleteKey, WriteSalt, IssueSession,
                    InsertToken, At, Ended
      <4>2. req'[r].pc = "ok"
        BY <4>1, EndMoves DEF Ended
      <4> QED
        BY <4>2
    <3>3. CASE UseToken(r)
      <4>1. req' = [req EXCEPT ![r].spent = req[r].thing, ![r].pc = "deleteKeys"]
            /\ req[r].pc = "useToken"
        BY <3>3 DEF UseToken, At
      <4>2. req[r].thing \in Things
        BY <4>1 DEF PcShape, ShapeOf, At, Things
      <4>3. Moves(r) /\ req'[r].pc = "deleteKeys"
        BY <4>1, <4>2, SpendMoves DEF Ended, Pcs
      <4> QED
        BY <4>3
    <3>4. CASE SelectToken(r)
      <4>1. PICK t \in recovery : req' = [req EXCEPT ![r].thing = t.token, ![r].pc = "useToken"]
        BY <3>4 DEF SelectToken
      <4>2. t.token \in Things /\ req[r].pc = "selectToken"
        BY <3>4 DEF SelectToken, At, TypeOK, Things
      <4>3. Moves(r) /\ req'[r].pc = "useToken"
        BY <4>1, <4>2, TakeMoves DEF Ended, Pcs
      <4> QED
        BY <4>3
    <3>5. CASE DeleteTokens(r)
      <4>1. req'[r].pc = "insertToken"
        BY <3>5, GotoMoves DEF DeleteTokens, At, Pcs, Ended
      <4> QED
        BY <4>1
    <3>6. CASE ReadRow(r)
      <4>1. req' = [req EXCEPT ![r].cur = mfa, ![r].pc = "claims"] /\ req[r].pc = "row"
        BY <3>6 DEF ReadRow, AfterRow, At
      <4>2. Moves(r) /\ req'[r].pc = "claims"
        BY <4>1, ReadMoves DEF Ended, Pcs
      <4> QED
        BY <4>2
    <3>7. CASE ListKeys(r) \/ SelectKey(r)
      <4>1. \E pc \in {"insertChallenge", "claims"} : Goto(r, pc)
        BY <3>7 DEF ListKeys, SelectKey
      <4>2. req'[r].pc \in {"insertChallenge", "claims"}
        BY <3>7, <4>1, GotoMoves DEF ListKeys, SelectKey, At, Pcs, Ended
      <4> QED
        BY <4>2
    <3>8. ~SelectChallenge(r) /\ ~DeleteChallenge(r) /\ ~Enable(r) /\ ~InsertCode(r)
          /\ ~ReadSalt(r) /\ ~SelectCode(r) /\ ~UseCode(r)
      BY DEF SelectChallenge, DeleteChallenge, Enable, InsertCode, ReadSalt, SelectCode, UseCode,
             At, PcShape, ShapeOf, IssuingOps, EnablingOps
    <3> QED
      BY <1>4, <3>1, <3>2, <3>3, <3>4, <3>5, <3>6, <3>7, <3>8 DEF Step
  <2> QED
    BY <2>1
<1> QED
  BY <1>1, <1>2, <1>3, <1>4

\* A request that refills what a recovery has swept is in flight with it.
LEMMA SweptKept ==
  ASSUME TypeOK, PcShape, Encounters, Swept, NEW r \in Requests, Step(r)
  PROVE  Swept'
<1>1. Moves(r)
  BY StepChange DEF Change
<1>2. \A q \in Requests : req'[q].with = req[q].with /\ req'[q].op = req[q].op
  BY <1>1 DEF Moves
<1>3. \A k \in passkeys : k.key \in Requests
  BY DEF TypeOK
<1>4. \A c \in codes : c.hash[2][1] \in Requests
  BY Makers DEF TypeOK
<1>5. mfa.by # None => mfa.by \in Requests
  BY DEF TypeOK, Rows
<1>6. TypeOK'
  BY StepTypes
<1>7. /\ \A k \in passkeys' : k.key \in Requests
      /\ \A c \in codes' : c.hash[2][1] \in Requests
      /\ mfa'.by # None => mfa'.by \in Requests
  BY <1>6, Makers DEF TypeOK, Rows
<1>8. NoRow.by = None
  BY DEF NoRow
<1>9. ASSUME NEW s \in Requests, req[s].op = "recoveryConfirm"
      PROVE  /\ req'[s].pc \in {"deleteCodes", "deleteRow", "raiseVersion"} =>
                  \A k \in passkeys' : s \in req[k.key].with
             /\ req'[s].pc \in {"deleteRow", "raiseVersion"} =>
                  \A c \in codes' : s \in req[c.hash[2][1]].with
             /\ req'[s].pc = "raiseVersion" /\ mfa'.by # None => s \in req[mfa'.by].with
  <2>1. CASE s = r
    BY <1>8, <1>9, <2>1, RecoveryOrder DEF Swept
  <2>2. CASE s # r
    <3>1. req'[s].pc = req[s].pc
      BY <1>1, <2>2 DEF Moves
    <3>2. req[s].pc \in {"deleteCodes", "deleteRow", "raiseVersion"} => s \in req[r].with
      BY <1>1, <2>2 DEF Moves, Encounters, InFlight, Ended
    <3>3. ASSUME req[s].pc \in {"deleteCodes", "deleteRow", "raiseVersion"}, NEW k \in passkeys'
          PROVE  s \in req[k.key].with
      <4>1. \A j \in passkeys : s \in req[j.key].with
        BY <1>9, <3>3 DEF Swept
      <4> QED
        BY <3>2, <3>3, <4>1, KeySources
    <3>4. ASSUME req[s].pc \in {"deleteRow", "raiseVersion"}, NEW c \in codes'
          PROVE  s \in req[c.hash[2][1]].with
      <4>1. \A d \in codes : s \in req[d.hash[2][1]].with
        BY <1>9, <3>4 DEF Swept
      <4>2. CodeFrom(r, c)
        BY CodeSources
      <4>3. CASE \E d \in codes : d.hash = c.hash
        BY <4>1, <4>3
      <4>4. CASE \E k \in req[r].todo : c.hash = <<"code", <<r, k>>>>
        <5>1. c.hash[2][1] = r
          BY <4>4
        <5> QED
          BY <3>2, <3>4, <5>1
      <4> QED
        BY <4>2, <4>3, <4>4 DEF CodeFrom
    <3>5. ASSUME req[s].pc = "raiseVersion", mfa'.by # None
          PROVE  s \in req[mfa'.by].with
      <4>1. mfa.by # None => s \in req[mfa.by].with
        BY <1>9, <3>5 DEF Swept, At
      <4> QED
        BY <1>8, <3>2, <3>5, <4>1, RowSources
    <3> QED
      BY <3>1, <3>3, <3>4, <3>5
  <2> QED
    BY <2>1, <2>2
<1>10. ASSUME NEW s \in Requests, req'[s].op = "recoveryConfirm"
       PROVE  /\ req'[s].pc \in {"deleteCodes", "deleteRow", "raiseVersion"} =>
                   \A k \in passkeys' : s \in req'[k.key].with
              /\ req'[s].pc \in {"deleteRow", "raiseVersion"} =>
                   \A c \in codes' : s \in req'[c.hash[2][1]].with
              /\ req'[s].pc = "raiseVersion" /\ mfa'.by # None => s \in req'[mfa'.by].with
  BY <1>2, <1>7, <1>9, <1>10
<1> QED
  BY <1>10 DEF Swept, At

\* A login gets to its last statement by reading the row.
LEMMA OnlyReadRowLeadsLoginsOn ==
  ASSUME TypeOK, PcShape, NEW r \in Requests, Step(r), req[r].op \in LoginOps, ~ReadRow(r)
  PROVE  req'[r].pc # "claims"
<1>1. CASE Stop(r) \/ IssueSession(r)
  <2>1. \E pc \in Ended : End(r, pc)
    BY <1>1 DEF Stop, IssueSession, Ended
  <2>2. req[r].pc \notin {"idle"} \cup Ended
    BY <1>1 DEF Stop, IssueSession, At, InFlight, Ended
  <2>3. req'[r].pc \in Ended
    BY <2>1, <2>2, EndMoves
  <2> QED
    BY <2>3 DEF Ended
<1>2. CASE InsertChallenge(r) \/ InsertKey(r) \/ PatchKey(r) \/ DeleteKey(r) \/ InsertToken(r)
  <2>1. End(r, "ok") /\ req[r].pc \notin {"idle"} \cup Ended
    BY <1>2 DEF InsertChallenge, InsertKey, PatchKey, DeleteKey, InsertToken, At, Ended
  <2>2. req'[r].pc = "ok"
    BY <2>1, EndMoves DEF Ended
  <2> QED
    BY <2>2
<1>3. CASE ListKeys(r)
  <2>1. Goto(r, "insertChallenge") /\ req[r].pc = "keys"
    BY <1>3 DEF ListKeys, At, LoginOps
  <2>2. req'[r].pc = "insertChallenge"
    BY <2>1, GotoMoves DEF Pcs, Ended
  <2> QED
    BY <2>2
<1>4. CASE SelectChallenge(r)
  <2>1. PICK c \in challenges : req' = [req EXCEPT ![r].thing = c, ![r].pc = "deleteChallenge"]
    BY <1>4 DEF SelectChallenge
  <2>2. c \in Things /\ req[r].pc = "selectChallenge"
    BY <1>4 DEF SelectChallenge, At, TypeOK, Things
  <2>3. Moves(r) /\ req'[r].pc = "deleteChallenge"
    BY <2>1, <2>2, TakeMoves DEF Ended, Pcs
  <2> QED
    BY <2>3
<1>5. CASE DeleteChallenge(r)
  <2>1. req' = [req EXCEPT ![r].spent = req[r].thing, ![r].pc = "selectKey"]
        /\ req[r].pc = "deleteChallenge"
    BY <1>5 DEF DeleteChallenge, At, LoginOps
  <2>2. req[r].thing \in Things
    BY <2>1 DEF PcShape, ShapeOf, At, Things
  <2>3. Moves(r) /\ req'[r].pc = "selectKey"
    BY <2>1, <2>2, SpendMoves DEF Ended, Pcs
  <2> QED
    BY <2>3
<1>6. CASE SelectKey(r)
  <2>1. Goto(r, "row") /\ req[r].pc = "selectKey"
    BY <1>6 DEF SelectKey, At, LoginOps, PcShape, ShapeOf
  <2>2. req'[r].pc = "row"
    BY <2>1, GotoMoves DEF Pcs, Ended
  <2> QED
    BY <2>2
<1>7. CASE DeleteTokens(r)
  <2>1. req'[r].pc = "insertToken"
    BY <1>7, GotoMoves DEF DeleteTokens, At, Pcs, Ended
  <2> QED
    BY <2>1
<1>8. /\ ~Enable(r) /\ ~DeleteCodes(r) /\ ~InsertCode(r) /\ ~ReadSalt(r) /\ ~WriteSalt(r)
      /\ ~DeleteRow(r) /\ ~SelectCode(r) /\ ~UseCode(r) /\ ~SelectToken(r) /\ ~UseToken(r)
      /\ ~DeleteKeys(r) /\ ~RaiseVersion(r)
  BY DEF Enable, DeleteCodes, InsertCode, ReadSalt, WriteSalt, DeleteRow, SelectCode, UseCode,
     SelectToken, UseToken, DeleteKeys, RaiseVersion, At, PcShape, ShapeOf, LoginOps, IssuingOps,
     EnablingOps, WipingOps
<1> QED
  BY <1>1, <1>2, <1>3, <1>4, <1>5, <1>6, <1>7, <1>8 DEF Step

\* The second factor is turned on between the read of the row and the session.
LEMMA LoginsKept ==
  ASSUME TypeOK, PcShape, Encounters, LoginsMeetEnabling, NEW r \in Requests, Step(r)
  PROVE  LoginsMeetEnabling'
<1>1. Moves(r)
  BY StepChange DEF Change
<1>2. \A q \in Requests : req'[q].with = req[q].with /\ req'[q].op = req[q].op
  BY <1>1 DEF Moves
<1>3. \A q \in Requests : req[q].with \subseteq Requests
  BY DEF TypeOK, Handlers
<1>4. ASSUME NEW s \in Requests, req[s].op \in LoginOps, req'[s].pc = "claims",
             ~req'[s].cur.enabled, mfa'.enabled
      PROVE  \E q \in req[s].with : req[q].op \in IssuingOps
  <2>1. CASE s # r
    <3>1. req'[s] = req[s]
      BY <1>1, <2>1 DEF Moves
    <3>2. CASE mfa.enabled
      BY <1>4, <3>1, <3>2 DEF LoginsMeetEnabling, Met, At
    <3>3. CASE ~mfa.enabled
      <4>1. req[r].op \in IssuingOps
        BY <1>4, <3>3, RowSources DEF NoRow
      <4>2. r \in req[s].with
        BY <1>1, <1>4, <2>1, <3>1 DEF Moves, Encounters, InFlight, Ended
      <4> QED
        BY <4>1, <4>2
    <3> QED
      BY <3>2, <3>3
  <2>2. CASE s = r
    <3>1. CASE ReadRow(r)
      <4>1. req[r].pc = "row" /\ req' = [req EXCEPT ![r].cur = mfa, ![r].pc = AfterRow(req[r].op)]
            /\ mfa' = mfa
        BY <3>1 DEF ReadRow, At, tables
      <4>2. req'[r].cur = mfa
        BY <4>1 DEF TypeOK, Handlers
      <4> QED
        BY <1>4, <2>2, <4>1, <4>2
    <3>2. CASE ~ReadRow(r)
      <4>1. req'[r].pc # "claims"
        BY <1>4, <2>2, <3>2, OnlyReadRowLeadsLoginsOn
      <4> QED
        BY <1>4, <2>2, <4>1
    <3> QED
      BY <3>1, <3>2
  <2> QED
    BY <2>1, <2>2
<1> QED
  BY <1>2, <1>3, <1>4 DEF LoginsMeetEnabling, Met, At

\* Sessions carry the version of their time, and the version only grows.
LEMMA VersionsKept ==
  ASSUME TypeOK, PcShape, VersionsGrow, NEW r \in Requests, Step(r)
  PROVE  VersionsGrow'
<1>1. version \in Nat /\ \A s \in sessions : s.version \in Nat
  BY DEF TypeOK
<1>2. CASE IssueSession(r)
  BY <1>1, <1>2 DEF IssueSession, VersionsGrow
<1>3. CASE RaiseVersion(r)
  BY <1>1, <1>3 DEF RaiseVersion, VersionsGrow
<1>4. CASE ~IssueSession(r) /\ ~RaiseVersion(r)
  <2>1. sessions' = sessions /\ version' = version
    BY <1>4 DEF Step, tables, Stop, ReadRow, ListKeys, InsertChallenge,
       SelectChallenge, DeleteChallenge, SelectKey, InsertKey, PatchKey, DeleteKey, Enable,
       DeleteCodes, InsertCode, ReadSalt, WriteSalt, DeleteRow, SelectCode, UseCode, DeleteTokens,
       InsertToken, SelectToken, UseToken, DeleteKeys
  <2> QED
    BY <2>1 DEF VersionsGrow
<1> QED
  BY <1>2, <1>3, <1>4

(***************************************************************************)
(* Arrivals: the newcomer holds nothing and has made nothing.              *)
(***************************************************************************)
\* What the following lemmas need of an arrival.
LEMMA Newcomer ==
  ASSUME TypeOK, NEW r \in Requests, NEW op \in Ops, Begin(r, op)
  PROVE  /\ mfa' = mfa /\ codes' = codes /\ passkeys' = passkeys /\ challenges' = challenges
         /\ recovery' = recovery /\ version' = version /\ sessions' = sessions
         /\ req[r].pc = "idle" /\ req'[r].thing = None /\ req'[r].spent = None
         /\ req'[r].pc \notin {"idle", "claims", "deleteCodes", "deleteRow", "raiseVersion"}
         /\ \A q \in Requests : q # r =>
              /\ req'[q].op = req[q].op /\ req'[q].pc = req[q].pc /\ req'[q].cur = req[q].cur
              /\ req'[q].thing = req[q].thing /\ req'[q].todo = req[q].todo
              /\ req'[q].spent = req[q].spent
              /\ req[q].with \subseteq req'[q].with
<1>1. FirstStatement(op) \notin {"idle", "claims", "deleteCodes", "deleteRow", "raiseVersion"}
  BY DEF FirstStatement
<1>2. UNCHANGED tables
  BY Arrival
<1>3. /\ req[r].pc = "idle" /\ req'[r].thing = None /\ req'[r].spent = None
      /\ req'[r].pc \notin {"idle", "claims", "deleteCodes", "deleteRow", "raiseVersion"}
  BY <1>1, Arrival
<1>4. ASSUME NEW q \in Requests, q # r
      PROVE  req[q].with \subseteq req'[q].with
  <2>1. req'[q].with = IF q \in InFlight THEN req[q].with \cup {r} ELSE req[q].with
    BY <1>4, Arrival
  <2> QED
    BY <2>1
<1>5. ASSUME NEW q \in Requests, q # r
      PROVE  /\ req'[q].op = req[q].op /\ req'[q].pc = req[q].pc /\ req'[q].cur = req[q].cur
             /\ req'[q].thing = req[q].thing /\ req'[q].todo = req[q].todo
             /\ req'[q].spent = req[q].spent
  <2>1. req'[q].op = req[q].op /\ req'[q].pc = req[q].pc /\ req'[q].cur = req[q].cur
    BY <1>5, Arrival
  <2>2. req'[q].thing = req[q].thing /\ req'[q].todo = req[q].todo
    BY <1>5, Arrival
  <2>3. req'[q].spent = req[q].spent
    BY <1>5, Arrival
  <2> QED
    BY <2>1, <2>2, <2>3
<1>6. /\ mfa' = mfa /\ codes' = codes /\ passkeys' = passkeys /\ challenges' = challenges
      /\ recovery' = recovery /\ version' = version /\ sessions' = sessions
  BY <1>2 DEF tables
<1> QED
  BY <1>3, <1>4, <1>5, <1>6

\* A maker has begun, so it is not the newcomer.
LEMMA MadeOnArrival ==
  ASSUME TypeOK, AllMade, NEW r \in Requests, NEW op \in Ops, Begin(r, op)
  PROVE  AllMade'
<1>1. ASSUME NEW x \in Things, Made(x)
      PROVE  Made(x)'
  <2>1. CASE x \in Hashes
    <3> DEFINE a == x[2][1]
               c == x[2][2]
    <3>1. a \in Requests
      BY <2>1, Makers
    <3>2. /\ req[a].pc \in {"insertCodes", "readSalt", "writeSalt"} \cup Ended
          /\ c \notin req[a].todo
      BY <1>1, <2>1 DEF Made
    <3>3. a # r
      BY <3>2, Newcomer DEF Ended
    <3>4. req'[a].pc = req[a].pc /\ req'[a].todo = req[a].todo
      BY <3>1, <3>3, Newcomer
    <3>5. x \notin Challenges \cup Tokens
      BY <2>1, KindsApart
    <3> QED
      BY <3>2, <3>4, <3>5 DEF Made
  <2>2. CASE x \in Challenges \cup Tokens
    <3>1. x[2] \in Requests /\ req[x[2]].pc = "ok"
      BY <1>1, <2>2, Makers DEF Made, At
    <3>2. req'[x[2]].pc = "ok"
      BY <3>1, Newcomer
    <3>3. x \notin Hashes
      BY <2>2, KindsApart
    <3> QED
      BY <3>2, <3>3 DEF Made, At
  <2> QED
    BY <2>1, <2>2 DEF Things
<1>2. \A c \in codes' : Made(c.hash)'
  BY <1>1, Newcomer DEF AllMade, TypeOK, Things
<1>3. \A c \in challenges' : Made(c)'
  BY <1>1, Newcomer DEF AllMade, TypeOK, Things
<1>4. \A t \in recovery' : Made(t.token)'
  BY <1>1, Newcomer DEF AllMade, TypeOK, Things
<1>5. ASSUME NEW q \in Requests, NEW x, x = req'[q].thing \/ x = req'[q].spent, x # None
      PROVE  Made(x)'
  <2>1. q # r
    BY <1>5, Newcomer
  <2>2. x = req[q].thing \/ x = req[q].spent
    BY <1>5, <2>1, Newcomer
  <2>3. x \in Things /\ Made(x)
    BY <1>5, <2>2 DEF TypeOK, Handlers, AllMade
  <2> QED
    BY <1>1, <2>3
<1>6. \A k \in passkeys' : req'[k.key].pc # "idle"
  BY Newcomer DEF AllMade, TypeOK, At
<1>7. mfa'.by # None => req'[mfa'.by].pc # "idle"
  BY Newcomer DEF AllMade, TypeOK, At, Rows
<1> QED
  BY <1>2, <1>3, <1>4, <1>5, <1>6, <1>7 DEF AllMade, At

\* The tables are as they were.
LEMMA SpentOnArrival ==
  ASSUME TypeOK, SpentIsGone, NEW r \in Requests, NEW op \in Ops, Begin(r, op)
  PROVE  SpentIsGone'
<1>1. \A q \in Requests : req'[q].spent # None => req'[q].spent = req[q].spent
  BY Newcomer
<1>2. codes' = codes /\ challenges' = challenges /\ recovery' = recovery
  BY Newcomer
<1> QED
  BY <1>1, <1>2 DEF SpentIsGone

\* The newcomer holds nothing.
LEMMA HeldOnArrival ==
  ASSUME TypeOK, HeldTogether, NEW r \in Requests, NEW op \in Ops, Begin(r, op)
  PROVE  HeldTogether'
<1> SUFFICES ASSUME NEW p \in Requests, NEW q \in Requests, p # q, req'[p].thing # None,
                    req'[p].thing = req'[q].spent
             PROVE  p \in req'[q].with /\ q \in req'[p].with
  BY DEF HeldTogether
<1>1. p # r /\ q # r
  BY Newcomer
<1>2. req'[p].thing = req[p].thing /\ req'[q].spent = req[q].spent
      /\ req[p].with \subseteq req'[p].with /\ req[q].with \subseteq req'[q].with
  BY <1>1, Newcomer
<1> QED
  BY <1>2 DEF HeldTogether

\* The newcomer has used nothing up.
LEMMA UsedOnArrival ==
  ASSUME TypeOK, UsedTwiceOnlyTogether, NEW r \in Requests, NEW op \in Ops, Begin(r, op)
  PROVE  UsedTwiceOnlyTogether'
<1> SUFFICES ASSUME NEW p \in Requests, NEW q \in Requests, p # q, req'[p].spent # None,
                    req'[p].spent = req'[q].spent
             PROVE  p \in req'[q].with
  BY DEF UsedTwiceOnlyTogether
<1>1. p # r /\ q # r
  BY Newcomer
<1>2. req'[p].spent = req[p].spent /\ req'[q].spent = req[q].spent
      /\ req[q].with \subseteq req'[q].with
  BY <1>1, Newcomer
<1> QED
  BY <1>2 DEF UsedTwiceOnlyTogether

\* Authors have begun, and whom they met stays met.
LEMMA SweptOnArrival ==
  ASSUME TypeOK, AllMade, Swept, NEW r \in Requests, NEW op \in Ops, Begin(r, op)
  PROVE  Swept'
<1>1. \A a \in Requests : req[a].pc # "idle" => req[a].with \subseteq req'[a].with
  BY Newcomer
<1>2. ASSUME NEW k \in passkeys
      PROVE  req[k.key].with \subseteq req'[k.key].with
  BY <1>1 DEF AllMade, At, TypeOK
<1>3. ASSUME NEW c \in codes
      PROVE  req[c.hash[2][1]].with \subseteq req'[c.hash[2][1]].with
  <2>1. c.hash \in Hashes
    BY DEF TypeOK
  <2>2. c.hash[2][1] \in Requests
    BY <2>1, Makers
  <2>3. req[c.hash[2][1]].pc # "idle"
    BY <2>1 DEF AllMade, Made, Ended
  <2> QED
    BY <1>1, <2>2, <2>3
<1>4. mfa.by # None => req[mfa.by].with \subseteq req'[mfa.by].with
  BY <1>1 DEF AllMade, At, TypeOK, Rows
<1>5. mfa' = mfa /\ codes' = codes /\ passkeys' = passkeys
  BY Newcomer
<1>6. ASSUME NEW s \in Requests, req'[s].op = "recoveryConfirm",
             req'[s].pc \in {"deleteCodes", "deleteRow", "raiseVersion"}
      PROVE  req[s].op = "recoveryConfirm" /\ req[s].pc = req'[s].pc
  <2>1. s # r
    BY <1>6, Newcomer
  <2> QED
    BY <1>6, <2>1, Newcomer
<1> SUFFICES ASSUME NEW s \in Requests, req'[s].op = "recoveryConfirm"
             PROVE  /\ req'[s].pc \in {"deleteCodes", "deleteRow", "raiseVersion"} =>
                         \A k \in passkeys : s \in req'[k.key].with
                    /\ req'[s].pc \in {"deleteRow", "raiseVersion"} =>
                         \A c \in codes : s \in req'[c.hash[2][1]].with
                    /\ req'[s].pc = "raiseVersion" /\ mfa.by # None => s \in req'[mfa.by].with
  BY <1>5 DEF Swept, At
<1>7. req'[s].pc \in {"deleteCodes", "deleteRow", "raiseVersion"} =>
        \A k \in passkeys : s \in req'[k.key].with
  BY <1>2, <1>6 DEF Swept
<1>8. req'[s].pc \in {"deleteRow", "raiseVersion"} =>
        \A c \in codes : s \in req'[c.hash[2][1]].with
  BY <1>3, <1>6 DEF Swept
<1>9. req'[s].pc = "raiseVersion" /\ mfa.by # None => s \in req'[mfa.by].with
  BY <1>4, <1>6 DEF Swept, At
<1> QED
  BY <1>7, <1>8, <1>9

\* The newcomer is not at its last statement.
LEMMA LoginsOnArrival ==
  ASSUME TypeOK, Encounters, LoginsMeetEnabling, NEW r \in Requests, NEW op \in Ops, Begin(r, op)
  PROVE  LoginsMeetEnabling'
<1> SUFFICES ASSUME NEW s \in Requests, req'[s].op \in LoginOps, req'[s].pc = "claims",
                    ~req'[s].cur.enabled, mfa'.enabled
             PROVE  \E q \in req'[s].with : req'[q].op \in IssuingOps
  BY DEF LoginsMeetEnabling, Met, At
<1>1. s # r
  BY Newcomer
<1>2. /\ req'[s].op = req[s].op /\ req'[s].pc = req[s].pc /\ req'[s].cur = req[s].cur
      /\ req[s].with \subseteq req'[s].with /\ mfa' = mfa
  BY <1>1, Newcomer
<1>3. PICK q \in req[s].with : req[q].op \in IssuingOps
  BY <1>2 DEF LoginsMeetEnabling, Met, At
<1>4. q \in Requests /\ req[q].pc # "idle"
  BY DEF TypeOK, Handlers, Encounters, At
<1>5. req'[q].op = req[q].op
  BY <1>4, Newcomer
<1> QED
  BY <1>2, <1>3, <1>5

\* An arrival keeps the whole invariant.
LEMMA InvOnArrival ==
  ASSUME TypeOK, MfaInv, NEW r \in Requests, NEW op \in Ops, Begin(r, op)
  PROVE  TypeOK' /\ MfaInv'
<1>1. TypeOK'
  BY Arrival
<1>2. VersionsGrow'
  BY Newcomer DEF VersionsGrow, MfaInv
<1> QED
  BY <1>1, <1>2, ShapeOnArrival, EncountersOnArrival, MadeOnArrival, SpentOnArrival, HeldOnArrival,
     UsedOnArrival, SweptOnArrival, LoginsOnArrival DEF MfaInv

(***************************************************************************)
(* Expiry and stuttering.                                                  *)
(***************************************************************************)
\* Rows that vanish from these two tables take nothing from the invariant.
LEMMA InvOnExpiry ==
  ASSUME TypeOK, MfaInv, req' = req, challenges' \subseteq challenges, recovery' \subseteq recovery,
         UNCHANGED <<mfa, codes, passkeys, version, sessions>>
  PROVE  TypeOK' /\ MfaInv'
<1>1. TypeOK'
  BY DEF TypeOK
<1>2. PcShape' /\ Encounters' /\ HeldTogether' /\ UsedTwiceOnlyTogether'
  BY DEF MfaInv, PcShape, ShapeOf, At, Encounters, InFlight, HeldTogether, UsedTwiceOnlyTogether
<1>3. \A x : Made(x) => Made(x)'
  BY DEF Made, At
<1>4. AllMade'
  BY <1>3 DEF MfaInv, AllMade, At
<1>5. SpentIsGone'
  BY DEF MfaInv, SpentIsGone
<1>6. Swept'
  BY DEF MfaInv, Swept, At
<1>7. LoginsMeetEnabling'
  BY DEF MfaInv, LoginsMeetEnabling, At, Met
<1>8. VersionsGrow'
  BY DEF MfaInv, VersionsGrow
<1> QED
  BY <1>1, <1>2, <1>4, <1>5, <1>6, <1>7, <1>8 DEF MfaInv

\* Nothing has happened yet.
LEMMA InvAtFirst == Init => TypeOK /\ MfaInv
<1> SUFFICES ASSUME Init
             PROVE  TypeOK /\ MfaInv
  OBVIOUS
<1>1. NoRow \in Rows /\ NoRow.by = None /\ ~NoRow.enabled
  BY DEF NoRow, Rows
<1>2. Idle \in Handlers
  BY <1>1 DEF Handlers, Idle, Ops, OpenOps, Pcs
<1>3. \A r \in Requests : req[r] = Idle
  BY DEF Init
<1>4. Idle.pc = "idle" /\ Idle.thing = None /\ Idle.spent = None /\ Idle.with = {} /\ Idle.op = "login"
  BY DEF Idle
<1>5. TypeOK
  BY <1>1, <1>2 DEF Init, TypeOK
<1>6. PcShape
  BY <1>3, <1>4 DEF PcShape, ShapeOf, At, Ended
<1>7. Encounters
  BY <1>3, <1>4 DEF Encounters, InFlight
<1>8. AllMade /\ SpentIsGone /\ HeldTogether /\ UsedTwiceOnlyTogether
  BY <1>1, <1>3, <1>4 DEF Init, AllMade, SpentIsGone, HeldTogether, UsedTwiceOnlyTogether
<1>9. Swept /\ LoginsMeetEnabling /\ VersionsGrow
  BY <1>1, <1>3, <1>4 DEF Init, Swept, LoginsMeetEnabling, VersionsGrow, At
<1> QED
  BY <1>5, <1>6, <1>7, <1>8, <1>9 DEF MfaInv

(***************************************************************************)
(* The theorems.                                                           *)
(***************************************************************************)
\* The invariant is inductive: every statement of every handler, every
\* arrival and every expiry keeps it.
THEOREM Invariance == Spec => [](TypeOK /\ MfaInv)
<1>1. Init => TypeOK /\ MfaInv
  BY InvAtFirst
<1>2. TypeOK /\ MfaInv /\ [Next]_vars => TypeOK' /\ MfaInv'
  <2> SUFFICES ASSUME TypeOK, MfaInv, [Next]_vars
               PROVE  TypeOK' /\ MfaInv'
    OBVIOUS
  <2>1. ASSUME NEW r \in Requests, Step(r)
        PROVE  TypeOK' /\ MfaInv'
    <3>1. TypeOK /\ PcShape /\ Encounters /\ AllMade /\ SpentIsGone /\ HeldTogether
          /\ UsedTwiceOnlyTogether /\ Swept /\ LoginsMeetEnabling /\ VersionsGrow
      BY DEF MfaInv
    <3>2. TypeOK' /\ PcShape' /\ Encounters' /\ AllMade'
      BY <2>1, <3>1, StepTypes, ShapeKept, EncountersKept, MadeKept
    <3>3. SpentIsGone' /\ HeldTogether' /\ UsedTwiceOnlyTogether'
      BY <2>1, <3>1, SpentKept, HeldKept, UsedKept
    <3>4. Swept' /\ LoginsMeetEnabling' /\ VersionsGrow'
      BY <2>1, <3>1, SweptKept, LoginsKept, VersionsKept
    <3> QED
      BY <3>2, <3>3, <3>4 DEF MfaInv
  <2>2. ASSUME NEW r \in Requests, NEW op \in Ops, Begin(r, op)
        PROVE  TypeOK' /\ MfaInv'
    BY <2>2, InvOnArrival
  <2>3. CASE Expire
    BY <2>3, InvOnExpiry DEF Expire
  <2>4. CASE UNCHANGED vars
    BY <2>4, InvOnExpiry DEF vars
  <2> QED
    BY <2>1, <2>2, <2>3, <2>4 DEF Next
<1> QED
  BY <1>1, <1>2, PTL DEF Spec

\* The inductive invariant holds, for any number of requests on the account.
THEOREM InductiveInvariance == Spec => []MfaIndInv
<1>1. TypeOK /\ MfaInv => MfaIndInv
  BY DEF MfaIndInv
<1> QED
  BY <1>1, Invariance, PTL

\* Rows and handlers keep their types.
THEOREM TypeCorrect == Spec => []TypeOK
BY Invariance, PTL

\* Codes, challenges, TOTP setups and recovery tokens are used up twice only
\* by requests in flight together. (tryConsumeBackupCode,
\* consumeWebAuthnChallenge, consumeMfaRecoveryToken)
THEOREM SingleUse == Spec => []UsedTwiceOnlyTogether
<1>1. MfaInv => UsedTwiceOnlyTogether
  BY DEF MfaInv
<1> QED
  BY <1>1, Invariance, PTL

\* Only the last statement of a recovery changes the version.
LEMMA OnlyRecoveryRaises ==
  ASSUME Next, version' # version
  PROVE  \E r \in Requests : RaiseVersion(r)
<1>1. ~Expire
  BY DEF Expire
<1>2. \A r \in Requests, op \in Ops : ~Begin(r, op)
  BY DEF Begin, tables
<1>3. PICK r \in Requests : Step(r)
  BY <1>1, <1>2 DEF Next
<1>4. RaiseVersion(r)
  BY <1>3 DEF Step, tables, Stop, ReadRow, ListKeys, InsertChallenge, SelectChallenge,
     DeleteChallenge, SelectKey, InsertKey, PatchKey, DeleteKey, Enable, DeleteCodes, InsertCode,
     ReadSalt, WriteSalt, DeleteRow, SelectCode, UseCode, IssueSession, DeleteTokens, InsertToken,
     SelectToken, UseToken, DeleteKeys
<1> QED
  BY <1>4

\* When a recovery ends, what is left of second factors and passkeys comes
\* from requests it met, and older sessions are dead, whatever other
\* recoveries did or left undone. (nuclearMfaRecoveryForUser)
THEOREM RecoveryIsComplete == Spec => RecoveryLeavesNothing
<1> DEFINE Complete ==
      version' # version =>
        \E r \in Requests :
          /\ At(r, "raiseVersion") /\ ~At(r, "raiseVersion")'
          /\ \A a \in Authors' : r \in req[a].with
          /\ \A s \in sessions' : s.version < version'
<1>1. TypeOK /\ MfaInv /\ [Next]_vars => [Complete]_vars
  <2> SUFFICES ASSUME TypeOK, MfaInv, Next, version' # version
               PROVE  Complete
    BY DEF vars
  <2>1. PICK r \in Requests : RaiseVersion(r)
    BY OnlyRecoveryRaises
  <2>2. req[r].pc = "raiseVersion" /\ req[r].op = "recoveryConfirm"
    BY <2>1 DEF RaiseVersion, At, MfaInv, PcShape, ShapeOf
  <2>3. req'[r].pc = "ok"
    BY <2>1, <2>2, EndMoves DEF RaiseVersion, Ended
  <2>4. mfa' = mfa /\ codes' = codes /\ passkeys' = passkeys /\ sessions' = sessions
        /\ version' = version + 1
    BY <2>1 DEF RaiseVersion
  <2>5. \A k \in passkeys : r \in req[k.key].with
    BY <2>2 DEF MfaInv, Swept
  <2>6. \A c \in codes : r \in req[c.hash[2][1]].with
    BY <2>2 DEF MfaInv, Swept
  <2>7. mfa.by # None => r \in req[mfa.by].with
    BY <2>2 DEF MfaInv, Swept, At
  <2>8. \A a \in Authors : r \in req[a].with
    BY <2>5, <2>6, <2>7 DEF Authors
  <2>9. Authors' = Authors
    BY <2>4 DEF Authors
  <2>10. \A s \in sessions' : s.version < version'
    <3>1. \A s \in sessions : s.version \in Nat /\ s.version <= version
      BY DEF MfaInv, VersionsGrow, TypeOK
    <3>2. version \in Nat
      BY DEF TypeOK
    <3> QED
      BY <2>4, <3>1, <3>2
  <2> QED
    BY <2>2, <2>3, <2>8, <2>9, <2>10 DEF At
<1> QED
  BY <1>1, Invariance, PTL DEF Spec, RecoveryLeavesNothing

\* Only the last statement of a login gives out its session.
LEMMA OnlyLoginsIssue ==
  ASSUME Next, NEW s \in sessions' \ sessions
  PROVE  \E r \in Requests :
           IssueSession(r) /\ s = [version |-> version, by |-> r,
                                   pending |-> req[r].op \in LoginOps /\ req[r].cur.enabled]
<1>1. ~Expire
  BY DEF Expire
<1>2. \A r \in Requests, op \in Ops : ~Begin(r, op)
  BY DEF Begin, tables
<1>3. PICK r \in Requests : Step(r)
  BY <1>1, <1>2 DEF Next
<1>4. IssueSession(r)
  BY <1>3 DEF Step, tables, Stop, ReadRow, ListKeys, InsertChallenge, SelectChallenge,
     DeleteChallenge, SelectKey, InsertKey, PatchKey, DeleteKey, Enable, DeleteCodes, InsertCode,
     ReadSalt, WriteSalt, DeleteRow, SelectCode, UseCode, RaiseVersion, DeleteTokens, InsertToken,
     SelectToken, UseToken, DeleteKeys
<1> QED
  BY <1>4 DEF IssueSession, Waits

\* A first factor alone gives a full session past an enabled second factor
\* only to a login that met the request that turned it on or wrote it back.
\* (authorize, the jwt callback, login-verify)
THEOREM LoginsRespectMfa == Spec => NoLoginPastMfa
<1> DEFINE Respects ==
      \A r \in Requests :
        (/\ req[r].op \in LoginOps /\ mfa.enabled
         /\ \E s \in sessions' \ sessions : s.by = r /\ ~s.pending)
        => Met(r, IssuingOps)
<1>1. TypeOK /\ MfaInv /\ [Next]_vars => [Respects]_vars
  <2> SUFFICES ASSUME TypeOK, MfaInv, Next, NEW r \in Requests, req[r].op \in LoginOps, mfa.enabled,
                      NEW s \in sessions' \ sessions, s.by = r, ~s.pending
               PROVE  Met(r, IssuingOps)
    BY DEF vars
  <2>1. PICK q \in Requests :
          IssueSession(q) /\ s = [version |-> version, by |-> q,
                                  pending |-> req[q].op \in LoginOps /\ req[q].cur.enabled]
    BY OnlyLoginsIssue
  <2>2. s.by = q /\ s.pending = (req[q].op \in LoginOps /\ req[q].cur.enabled)
    BY <2>1
  <2>3. q = r /\ ~req[r].cur.enabled
    BY <2>2
  <2>4. At(r, "claims")
    BY <2>1, <2>3 DEF IssueSession
  <2> QED
    BY <2>3, <2>4 DEF MfaInv, LoginsMeetEnabling
<1> QED
  BY <1>1, Invariance, PTL DEF Spec, NoLoginPastMfa

(***************************************************************************)
(* Sets of backup codes: what a handler that issues them has done so far.  *)
(***************************************************************************)
\* The way of a handler that ends with a new set of codes.
PathOf(r) ==
  /\ req[r].pc \in {"idle", "row", "keys", "selectChallenge", "deleteChallenge", "enable",
                    "deleteCodes", "insertCodes", "readSalt", "writeSalt"} \cup Ended
  /\ At(r, "keys") => req[r].op = "enablePasskey"

Paths == \A r \in Requests : req[r].op \in IssuingOps => PathOf(r)

\* A set of codes, none of them used.
Unused(r, S) == {[hash |-> <<"code", <<r, c>>>>, used |-> FALSE] : c \in S}

\* A step before its codes; the factor is on when it comes to them.
Prepares(r) ==
  \/ req'[r].pc \in {"keys", "selectChallenge", "deleteChallenge", "enable", "stopped"}
  \/ req'[r].pc = "deleteCodes" /\ mfa'.enabled

\* Of the ways with codes at their end, one lists the passkeys.
PathKeys(r) == req'[r].pc = "keys" => req[r].op = "enablePasskey"

\* The old set is deleted.
Clears(r) ==
  /\ req[r].pc = "deleteCodes" /\ req'[r].pc = "insertCodes"
  /\ req'[r].todo = Codes /\ codes' = {} /\ mfa' = mfa

\* One code is inserted.
Adds(r) ==
  \E c \in req[r].todo :
    /\ req[r].pc = "insertCodes"
    /\ req'[r].pc = IF req[r].todo = {c} THEN "readSalt" ELSE "insertCodes"
    /\ req'[r].todo = req[r].todo \ {c}
    /\ codes' = codes \cup Unused(r, {c}) /\ mfa' = mfa

\* The row is read for the merge.
Merges(r) ==
  /\ req[r].pc = "readSalt" /\ req'[r].pc = "writeSalt"
  /\ req'[r].cur = mfa /\ req'[r].todo = req[r].todo /\ codes' = codes /\ mfa' = mfa

\* The row is written back with the salt.
Completes(r) ==
  /\ req[r].pc = "writeSalt" /\ req'[r].pc = "ok"
  /\ codes' = codes /\ mfa' = [req[r].cur EXCEPT !.salt = r, !.by = r]

Issues(r) == Prepares(r) \/ Clears(r) \/ Adds(r) \/ Merges(r) \/ Completes(r)

\* A handler that issues codes takes one of these steps.
LEMMA IssuingSteps ==
  ASSUME TypeOK, PcShape, NEW r \in Requests, Step(r), req[r].op \in IssuingOps, PathOf(r)
  PROVE  Issues(r) /\ PathKeys(r)
<1>1. CASE Stop(r)
  <2>1. End(r, "stopped") /\ req[r].pc \notin {"idle"} \cup Ended
    BY <1>1 DEF Stop, InFlight, Ended
  <2>2. req'[r].pc = "stopped"
    BY <2>1, EndMoves DEF Ended
  <2> QED
    BY <2>2 DEF Issues, Prepares, PathKeys
<1>2. CASE ReadRow(r)
  <2>1. req' = [req EXCEPT ![r].cur = mfa, ![r].pc = AfterRow(req[r].op)]
        /\ req[r].pc = "row" /\ mfa' = mfa
    BY <1>2 DEF ReadRow, At, tables
  <2>2. /\ AfterRow(req[r].op) \in {"keys", "selectChallenge", "deleteCodes"}
        /\ AfterRow(req[r].op) = "keys" => req[r].op = "enablePasskey"
        /\ AfterRow(req[r].op) = "deleteCodes" => mfa.enabled
    BY <1>2 DEF AfterRow, IssuingOps, EnablingOps, ReadRow
  <2>3. req'[r].pc = AfterRow(req[r].op)
    BY <2>1, <2>2, ReadMoves DEF Pcs, Ended
  <2> QED
    BY <2>1, <2>2, <2>3 DEF Issues, Prepares, PathKeys
<1>3. CASE ListKeys(r)
  <2>1. Goto(r, "enable") /\ req[r].pc = "keys"
    BY <1>3 DEF ListKeys, At, PathOf
  <2>2. req'[r].pc = "enable"
    BY <2>1, GotoMoves DEF Pcs, Ended
  <2> QED
    BY <2>2 DEF Issues, Prepares, PathKeys
<1>4. CASE SelectChallenge(r)
  <2>1. PICK c \in challenges : req' = [req EXCEPT ![r].thing = c, ![r].pc = "deleteChallenge"]
    BY <1>4 DEF SelectChallenge
  <2>2. c \in Things /\ req[r].pc = "selectChallenge"
    BY <1>4 DEF SelectChallenge, At, TypeOK, Things
  <2>3. req'[r].pc = "deleteChallenge"
    BY <2>1, <2>2, TakeMoves DEF Ended, Pcs
  <2> QED
    BY <2>3 DEF Issues, Prepares, PathKeys
<1>5. CASE DeleteChallenge(r)
  <2>1. req' = [req EXCEPT ![r].spent = req[r].thing, ![r].pc = "enable"]
        /\ req[r].pc = "deleteChallenge"
    BY <1>5 DEF DeleteChallenge, At, PcShape, ShapeOf, IssuingOps, EnablingOps
  <2>2. req[r].thing \in Things
    BY <2>1 DEF PcShape, ShapeOf, At, Things
  <2>3. req'[r].pc = "enable"
    BY <2>1, <2>2, SpendMoves DEF Ended, Pcs
  <2> QED
    BY <2>3 DEF Issues, Prepares, PathKeys
<1>6. CASE Enable(r)
  <2>1. Goto(r, "deleteCodes") /\ req[r].pc = "enable" /\ mfa'.enabled
    BY <1>6 DEF Enable, At
  <2>2. req'[r].pc = "deleteCodes"
    BY <2>1, GotoMoves DEF Pcs, Ended
  <2> QED
    BY <2>1, <2>2 DEF Issues, Prepares, PathKeys
<1>7. CASE DeleteCodes(r)
  <2>1. /\ req' = [req EXCEPT ![r].todo = Codes, ![r].pc = "insertCodes"]
        /\ req[r].pc = "deleteCodes" /\ codes' = {} /\ mfa' = mfa
    BY <1>7 DEF DeleteCodes, At
  <2>2. req'[r].pc = "insertCodes" /\ req'[r].todo = Codes
    BY <2>1, TodoMoves DEF Pcs, Ended
  <2> QED
    BY <2>1, <2>2 DEF Issues, Clears, PathKeys
<1>8. CASE InsertCode(r)
  <2>1. PICK c \in req[r].todo :
          /\ codes' = codes \cup {[hash |-> <<"code", <<r, c>>>>, used |-> FALSE]}
          /\ req' = [req EXCEPT ![r].todo = @ \ {c},
                                ![r].pc = IF req[r].todo = {c} THEN "readSalt" ELSE "insertCodes"]
    BY <1>8 DEF InsertCode
  <2> DEFINE pc == IF req[r].todo = {c} THEN "readSalt" ELSE "insertCodes"
             todo == req[r].todo \ {c}
  <2>2. req[r].pc = "insertCodes" /\ mfa' = mfa
    BY <1>8 DEF InsertCode, At
  <2>3. todo \in SUBSET Codes /\ pc \in Pcs /\ pc # "idle"
    BY DEF TypeOK, Handlers, Pcs
  <2>4. req' = [req EXCEPT ![r].todo = todo, ![r].pc = pc]
    BY <2>1 DEF TypeOK
  <2>a. req[r].pc \notin {"idle"} \cup Ended
    BY <2>2 DEF Ended
  <2> HIDE DEF pc, todo
  <2>5. req'[r].pc = pc /\ req'[r].todo = todo
    BY <2>3, <2>4, <2>a, TodoMoves
  <2>6. Unused(r, {c}) = {[hash |-> <<"code", <<r, c>>>>, used |-> FALSE]}
    BY DEF Unused
  <2>7. Adds(r)
    BY <2>1, <2>2, <2>5, <2>6 DEF Adds, pc, todo
  <2> QED
    BY <2>5, <2>7 DEF Issues, PathKeys, pc
<1>9. CASE ReadSalt(r)
  <2>1. /\ req' = [req EXCEPT ![r].cur = mfa, ![r].pc = "writeSalt"]
        /\ req[r].pc = "readSalt" /\ codes' = codes /\ mfa' = mfa
    BY <1>9 DEF ReadSalt, At, tables
  <2>2. req'[r].pc = "writeSalt" /\ req'[r].cur = mfa /\ req'[r].todo = req[r].todo
    BY <2>1, ReadMoves DEF Pcs, Ended
  <2> QED
    BY <2>1, <2>2 DEF Issues, Merges, PathKeys
<1>10. CASE WriteSalt(r)
  <2>1. End(r, "ok") /\ req[r].pc = "writeSalt"
    BY <1>10 DEF WriteSalt, At
  <2>2. req'[r].pc = "ok"
    BY <2>1, EndMoves DEF Ended
  <2>3. codes' = codes /\ mfa' = [req[r].cur EXCEPT !.salt = r, !.by = r]
    BY <1>10 DEF WriteSalt, WithSalt
  <2> QED
    BY <2>1, <2>2, <2>3 DEF Issues, Completes, PathKeys
<1>11. req[r].op \notin WipingOps \cup {"verifyBackup", "register", "patchKey", "deleteKey"}
  BY DEF IssuingOps, EnablingOps, WipingOps
<1>12. /\ ~InsertChallenge(r) /\ ~SelectKey(r) /\ ~InsertKey(r) /\ ~PatchKey(r) /\ ~DeleteKey(r)
       /\ ~DeleteRow(r) /\ ~SelectCode(r) /\ ~UseCode(r) /\ ~IssueSession(r) /\ ~DeleteTokens(r)
       /\ ~InsertToken(r) /\ ~SelectToken(r) /\ ~UseToken(r) /\ ~DeleteKeys(r) /\ ~RaiseVersion(r)
  BY DEF PathOf, Ended, InsertChallenge, SelectKey, InsertKey, PatchKey, DeleteKey, DeleteRow,
     SelectCode, UseCode, IssueSession, DeleteTokens, InsertToken, SelectToken, UseToken,
     DeleteKeys, RaiseVersion, At
<1> QED
  BY <1>1, <1>2, <1>3, <1>4, <1>5, <1>6, <1>7, <1>8, <1>9, <1>10, <1>12 DEF Step

\* A handler keeps to its way.
LEMMA PathsKept ==
  ASSUME TypeOK, PcShape, Paths, NEW r \in Requests, Step(r)
  PROVE  Paths'
<1> SUFFICES ASSUME NEW q \in Requests, req'[q].op \in IssuingOps
             PROVE  PathOf(q)'
  BY DEF Paths
<1>1. Moves(r)
  BY StepChange DEF Change
<1>2. CASE q # r
  BY <1>1, <1>2 DEF Moves, Paths, PathOf, At
<1>3. CASE q = r
  <2>1. req[r].op \in IssuingOps /\ PathOf(r) /\ req'[r].op = req[r].op
    BY <1>1, <1>3 DEF Moves, Paths
  <2>2. Issues(r) /\ PathKeys(r)
    BY <2>1, IssuingSteps
  <2>3. req'[r].pc \in {"keys", "selectChallenge", "deleteChallenge", "enable", "deleteCodes",
                        "insertCodes", "readSalt", "writeSalt", "ok", "stopped"}
    BY <2>2 DEF Issues, Prepares, Clears, Adds, Merges, Completes
  <2> QED
    BY <1>3, <2>1, <2>2, <2>3 DEF PathOf, PathKeys, At, Ended
<1> QED
  BY <1>2, <1>3

\* And starts at its head.
LEMMA PathsOnArrival ==
  ASSUME TypeOK, Paths, NEW r \in Requests, NEW op \in Ops, Begin(r, op)
  PROVE  Paths'
<1> SUFFICES ASSUME NEW q \in Requests, req'[q].op \in IssuingOps
             PROVE  PathOf(q)'
  BY DEF Paths
<1>1. CASE q # r
  <2>1. req'[q].op = req[q].op /\ req'[q].pc = req[q].pc
    BY <1>1, Newcomer
  <2> QED
    BY <2>1 DEF Paths, PathOf, At
<1>2. CASE q = r
  <2>1. req'[r].op = op /\ req'[r].pc = FirstStatement(op)
    BY Arrival
  <2>2. FirstStatement(op) = "row"
    BY <1>2, <2>1 DEF FirstStatement, IssuingOps, EnablingOps
  <2> QED
    BY <1>2, <2>1, <2>2 DEF PathOf, At
<1> QED
  BY <1>1, <1>2

\* A salt that can be read belongs to a handler that is done, and so does a chosen code.
Done == {q \in Requests : req[q].pc = "ok"}

SaltsSettled ==
  /\ mfa.salt \in Done \cup {None}
  /\ \A q \in Requests : req[q].cur.salt \in Done \cup {None}
  /\ \A q \in Requests : req[q].pc = "useCode" => req[q].thing[2][1] \in Done

\* The row a handler has in hand is what it had, or was read just now; codes are chosen by a
\* SELECT.
LEMMA RowInHand ==
  ASSUME TypeOK, PcShape, NEW r \in Requests, Step(r)
  PROVE  /\ req'[r].cur \in {req[r].cur, mfa, NoRow}
         /\ req'[r].pc = "useCode" => SelectCode(r)
<1>1. CASE \/ InsertChallenge(r) \/ InsertKey(r) \/ PatchKey(r) \/ DeleteKey(r) \/ WriteSalt(r)
           \/ IssueSession(r) \/ InsertToken(r) \/ RaiseVersion(r) \/ Stop(r)
  <2>1. \E pc \in Ended : End(r, pc)
    BY <1>1 DEF InsertChallenge, InsertKey, PatchKey, DeleteKey, WriteSalt, IssueSession,
                InsertToken, RaiseVersion, Stop, Ended
  <2>2. req[r].pc \notin {"idle"} \cup Ended
    BY <1>1 DEF InsertChallenge, InsertKey, PatchKey, DeleteKey, WriteSalt, IssueSession,
                InsertToken, RaiseVersion, Stop, InFlight, Ended, At
  <2>3. req'[r].cur = NoRow /\ req'[r].pc \in Ended
    BY <2>1, <2>2, EndMoves
  <2> QED
    BY <2>3 DEF Ended
<1>2. CASE ListKeys(r) \/ SelectKey(r) \/ Enable(r) \/ DeleteTokens(r) \/ DeleteKeys(r)
  <2>1. \E pc \in {"enable", "insertChallenge", "row", "claims", "deleteCodes", "insertToken"} :
          Goto(r, pc)
    BY <1>2 DEF ListKeys, SelectKey, Enable, DeleteTokens, DeleteKeys
  <2>2. req[r].pc \notin {"idle"} \cup Ended
    BY <1>2 DEF ListKeys, SelectKey, Enable, DeleteTokens, DeleteKeys, At, Ended
  <2>3. req'[r].cur = req[r].cur /\ req'[r].pc # "useCode"
    BY <2>1, <2>2, GotoMoves DEF Pcs
  <2> QED
    BY <2>3
<1>3. CASE DeleteRow(r)
  <2>1. CASE req[r].op = "disable"
    <3>1. End(r, "ok") /\ req[r].pc \notin {"idle"} \cup Ended
      BY <1>3, <2>1 DEF DeleteRow, At, Ended
    <3> QED
      BY <3>1, EndMoves DEF Ended
  <2>2. CASE req[r].op # "disable"
    <3>1. Goto(r, "raiseVersion") /\ req[r].pc \notin {"idle"} \cup Ended
      BY <1>3, <2>2 DEF DeleteRow, At, Ended
    <3> QED
      BY <3>1, GotoMoves DEF Pcs
  <2> QED
    BY <2>1, <2>2
<1>4. CASE ReadRow(r) \/ ReadSalt(r)
  <2>1. \E pc \in {"insertChallenge", "keys", "selectChallenge", "deleteCodes", "selectCode",
                   "deleteTokens", "claims", "writeSalt"} :
          req' = [req EXCEPT ![r].cur = mfa, ![r].pc = pc]
    BY <1>4 DEF ReadRow, ReadSalt, AfterRow
  <2>2. req[r].pc \notin {"idle"} \cup Ended
    BY <1>4 DEF ReadRow, ReadSalt, At, Ended
  <2>3. req'[r].cur = mfa /\ req'[r].pc # "useCode"
    BY <2>1, <2>2, ReadMoves DEF Pcs
  <2> QED
    BY <2>3
<1>5. CASE SelectChallenge(r) \/ SelectCode(r) \/ SelectToken(r)
  <2>1. PICK x \in Things, pc \in {"deleteChallenge", "useCode", "useToken"} :
          /\ req' = [req EXCEPT ![r].thing = x, ![r].pc = pc]
          /\ pc = "useCode" => SelectCode(r)
    BY <1>5 DEF SelectChallenge, SelectCode, SelectToken, TypeOK, Things
  <2>2. req[r].pc \notin {"idle"} \cup Ended
    BY <1>5 DEF SelectChallenge, SelectCode, SelectToken, At, Ended
  <2>3. req'[r].cur = req[r].cur /\ req'[r].pc = pc
    BY <2>1, <2>2, TakeMoves DEF Pcs
  <2> QED
    BY <2>1, <2>3
<1>6. CASE DeleteChallenge(r) \/ UseCode(r) \/ UseToken(r)
  <2>1. \E pc \in {"enable", "writeKey", "selectKey", "claims", "deleteKeys"} :
          req' = [req EXCEPT ![r].spent = req[r].thing, ![r].pc = pc]
    BY <1>6 DEF DeleteChallenge, UseCode, UseToken
  <2>2. req[r].pc \notin {"idle"} \cup Ended /\ req[r].thing \in Things
    BY <1>6 DEF DeleteChallenge, UseCode, UseToken, At, Ended, PcShape, ShapeOf, Things
  <2>3. req'[r].cur = req[r].cur /\ req'[r].pc # "useCode"
    BY <2>1, <2>2, SpendMoves DEF Pcs
  <2> QED
    BY <2>3
<1>7. CASE DeleteCodes(r)
  <2>1. req[r].pc \notin {"idle"} \cup Ended
    BY <1>7 DEF DeleteCodes, At, Ended
  <2>2. CASE req[r].op \in IssuingOps
    <3>1. req' = [req EXCEPT ![r].todo = Codes, ![r].pc = "insertCodes"]
      BY <1>7, <2>2 DEF DeleteCodes
    <3> QED
      BY <2>1, <3>1, TodoMoves DEF Pcs
  <2>3. CASE req[r].op \notin IssuingOps
    <3>1. Goto(r, "deleteRow")
      BY <1>7, <2>3 DEF DeleteCodes, Goto
    <3> QED
      BY <2>1, <3>1, GotoMoves DEF Pcs
  <2> QED
    BY <2>2, <2>3
<1>8. CASE InsertCode(r)
  <2>1. PICK c \in req[r].todo :
          req' = [req EXCEPT ![r].todo = @ \ {c},
                             ![r].pc = IF req[r].todo = {c} THEN "readSalt" ELSE "insertCodes"]
    BY <1>8 DEF InsertCode
  <2> DEFINE pc == IF req[r].todo = {c} THEN "readSalt" ELSE "insertCodes"
             todo == req[r].todo \ {c}
  <2>2. /\ pc \in Pcs /\ pc \notin {"idle", "useCode"} /\ todo \in SUBSET Codes
        /\ req[r].pc \notin {"idle"} \cup Ended
    BY <1>8 DEF Pcs, InsertCode, At, Ended, TypeOK, Handlers
  <2>3. req' = [req EXCEPT ![r].todo = todo, ![r].pc = pc]
    BY <2>1 DEF TypeOK
  <2> HIDE DEF pc, todo
  <2>4. req'[r].cur = req[r].cur /\ req'[r].pc = pc
    BY <2>2, <2>3, TodoMoves
  <2> QED
    BY <2>2, <2>4
<1> QED
  BY <1>1, <1>2, <1>3, <1>4, <1>5, <1>6, <1>7, <1>8 DEF Step

\* A salt is stored by the last statement of its handler.
LEMMA SaltSources ==
  ASSUME TypeOK, PcShape, NEW r \in Requests, Step(r)
  PROVE  \/ mfa'.salt \in {mfa.salt, None}
         \/ mfa'.salt = r /\ req'[r].pc = "ok"
<1>1. CASE WriteSalt(r)
  <2>1. End(r, "ok") /\ req[r].pc \notin {"idle"} \cup Ended
    BY <1>1 DEF WriteSalt, At, Ended
  <2>2. req'[r].pc = "ok"
    BY <2>1, EndMoves DEF Ended
  <2>3. req[r].cur \in Rows
    BY DEF TypeOK, Handlers
  <2>4. mfa'.salt = r
    BY <1>1, <2>3 DEF WriteSalt, WithSalt, Rows
  <2> QED
    BY <2>2, <2>4
<1>2. CASE Enable(r)
  BY <1>2 DEF Enable
<1>3. CASE DeleteRow(r)
  BY <1>3 DEF DeleteRow, NoRow
<1>4. CASE ~WriteSalt(r) /\ ~Enable(r) /\ ~DeleteRow(r)
  <2>1. mfa' = mfa
    BY <1>4 DEF Step, tables, Stop, ReadRow, ListKeys, InsertChallenge, SelectChallenge,
       DeleteChallenge, SelectKey, InsertKey, PatchKey, DeleteKey, DeleteCodes, InsertCode,
       ReadSalt, SelectCode, UseCode, IssueSession, DeleteTokens, InsertToken, SelectToken,
       UseToken, DeleteKeys, RaiseVersion
  <2> QED
    BY <2>1
<1> QED
  BY <1>1, <1>2, <1>3, <1>4

\* Salts stay settled.
LEMMA SaltsKept ==
  ASSUME TypeOK, PcShape, SaltsSettled, NEW r \in Requests, Step(r)
  PROVE  SaltsSettled'
<1>1. Moves(r)
  BY StepChange DEF Change
<1>2. Done \subseteq Done'
  BY <1>1 DEF Moves, Done, Ended
<1>3. mfa'.salt \in Done' \cup {None}
  BY <1>2, SaltSources DEF SaltsSettled, Done
<1>4. ASSUME NEW q \in Requests
      PROVE  req'[q].cur.salt \in Done' \cup {None}
  <2>1. CASE q # r
    <3>1. req'[q] = req[q]
      BY <1>1, <2>1 DEF Moves
    <3> QED
      BY <1>2, <3>1 DEF SaltsSettled
  <2>2. CASE q = r
    <3>1. req'[r].cur \in {req[r].cur, mfa} \/ req'[r].cur.salt = None
      BY RowInHand DEF NoRow
    <3> QED
      BY <1>2, <2>2, <3>1 DEF SaltsSettled
  <2> QED
    BY <2>1, <2>2
<1>5. ASSUME NEW q \in Requests, req'[q].pc = "useCode"
      PROVE  req'[q].thing[2][1] \in Done'
  <2>1. CASE q # r
    <3>1. req'[q] = req[q]
      BY <1>1, <2>1 DEF Moves
    <3> QED
      BY <1>2, <1>5, <3>1 DEF SaltsSettled
  <2>2. CASE q = r
    <3>1. SelectCode(r)
      BY <1>5, <2>2, RowInHand
    <3>2. PICK c \in codes :
            /\ Usable(c, req[r].cur.salt)
            /\ req' = [req EXCEPT ![r].thing = c.hash, ![r].pc = "useCode"]
      BY <3>1 DEF SelectCode
    <3>3. c.hash \in Hashes /\ c.hash \in Things /\ req[r].pc \notin {"idle"} \cup Ended
      BY <3>1 DEF TypeOK, Things, SelectCode, At, Ended
    <3>4. req'[r].thing = c.hash
      BY <3>2, <3>3, TakeMoves DEF Pcs
    <3>5. c.hash[2][1] = req[r].cur.salt /\ c.hash[2][1] # None
      BY <3>2, <3>3 DEF Usable, Hashes
    <3> QED
      BY <1>2, <2>2, <3>4, <3>5 DEF SaltsSettled
  <2> QED
    BY <2>1, <2>2
<1> QED
  BY <1>3, <1>4, <1>5 DEF SaltsSettled

\* A newcomer has read nothing.
LEMMA SaltsOnArrival ==
  ASSUME TypeOK, SaltsSettled, NEW r \in Requests, NEW op \in Ops, Begin(r, op)
  PROVE  SaltsSettled'
<1>1. mfa' = mfa /\ req[r].pc = "idle"
  BY Newcomer
<1>2. \A q \in Requests : q # r =>
        req'[q].pc = req[q].pc /\ req'[q].cur = req[q].cur /\ req'[q].thing = req[q].thing
  BY Newcomer
<1>3. Done \subseteq Done'
  BY <1>1, <1>2 DEF Done
<1>4. req'[r].cur.salt = None
  BY DEF Begin, TypeOK, Idle, NoRow
<1>5. req'[r].pc # "useCode"
  <2>1. req'[r].pc = FirstStatement(op)
    BY Arrival
  <2> QED
    BY <2>1 DEF FirstStatement
<1>6. mfa'.salt \in Done' \cup {None}
  BY <1>1, <1>3 DEF SaltsSettled
<1>7. ASSUME NEW q \in Requests
      PROVE  req'[q].cur.salt \in Done' \cup {None}
  BY <1>2, <1>3, <1>4 DEF SaltsSettled
<1>8. ASSUME NEW q \in Requests, req'[q].pc = "useCode"
      PROVE  req'[q].thing[2][1] \in Done'
  <2>1. q # r /\ req[q].pc = "useCode" /\ req'[q].thing = req[q].thing
    BY <1>2, <1>5, <1>8
  <2> QED
    BY <1>3, <2>1 DEF SaltsSettled
<1> QED
  BY <1>6, <1>7, <1>8 DEF SaltsSettled

\* A handler that issues codes and met nobody who writes the row or the codes finds them as it
\* left them.
Alone(r) == req[r].op \in IssuingOps /\ ~Met(r, IssuingOps \cup WipingOps)

AloneOK(r) ==
  /\ req[r].pc \in {"deleteCodes", "insertCodes", "readSalt", "writeSalt"} => mfa.enabled
  /\ req[r].pc \in {"insertCodes", "readSalt", "writeSalt"} =>
       codes = Unused(r, Codes \ req[r].todo)
  /\ req[r].pc \in {"readSalt", "writeSalt"} => req[r].todo = {}
  /\ req[r].pc = "writeSalt" => req[r].cur = mfa

AloneInv == \A r \in Requests : Alone(r) => AloneOK(r)

\* Who neither issues nor wipes codes writes no code of a handler under way.
LEMMA OthersWriteNothing ==
  ASSUME TypeOK, PcShape, SaltsSettled, NEW q \in Requests, Step(q),
         req[q].op \notin IssuingOps \cup WipingOps,
         NEW r \in Requests, req[r].pc # "ok", NEW S \in SUBSET Codes, codes = Unused(r, S)
  PROVE  codes' = codes
<1>1. CASE UseCode(q)
  <2>1. req[q].thing[2][1] \in Done
    BY <1>1 DEF UseCode, At, SaltsSettled
  <2>2. ASSUME NEW c \in codes
        PROVE  c.hash # req[q].thing
    <3>1. PICK k \in S : c = [hash |-> <<"code", <<r, k>>>>, used |-> FALSE]
      BY DEF Unused
    <3>2. c.hash[2][1] = r
      BY <3>1
    <3> QED
      BY <2>1, <3>2 DEF Done
  <2> QED
    BY <1>1, <2>2 DEF UseCode
<1>2. CASE ~UseCode(q)
  BY <1>2 DEF Step, tables, Stop, ReadRow, ListKeys, InsertChallenge, SelectChallenge,
     DeleteChallenge, SelectKey, InsertKey, PatchKey, DeleteKey, Enable, DeleteCodes, InsertCode,
     ReadSalt, WriteSalt, DeleteRow, SelectCode, IssueSession, DeleteTokens, InsertToken,
     SelectToken, UseToken, DeleteKeys, RaiseVersion, At, PcShape, ShapeOf, IssuingOps
<1> QED
  BY <1>1, <1>2

\* Nor the row.
LEMMA OthersKeepTheRow ==
  ASSUME PcShape, NEW q \in Requests, Step(q), req[q].op \notin IssuingOps \cup WipingOps
  PROVE  mfa' = mfa
  BY DEF Step, tables, Stop, ReadRow, ListKeys, InsertChallenge, SelectChallenge,
     DeleteChallenge, SelectKey, InsertKey, PatchKey, DeleteKey, Enable, DeleteCodes, InsertCode,
     ReadSalt, WriteSalt, DeleteRow, SelectCode, UseCode, IssueSession, DeleteTokens, InsertToken,
     SelectToken, UseToken, DeleteKeys, RaiseVersion, At, PcShape, ShapeOf, IssuingOps

\* What is left and what is there make the whole set, at each insertion.
LEMMA UnusedGrows ==
  ASSUME NEW r, NEW todo \in SUBSET Codes, NEW c \in todo
  PROVE  Unused(r, Codes \ (todo \ {c})) = Unused(r, Codes \ todo) \cup Unused(r, {c})
  BY DEF Unused

\* Its own steps build up the set.
LEMMA AloneSteps ==
  ASSUME TypeOK, PcShape, Paths, NEW r \in Requests, Step(r), req[r].op \in IssuingOps, AloneOK(r)
  PROVE  AloneOK(r)'
<1>1. Issues(r)
  BY IssuingSteps DEF Paths
<1>2. CASE Prepares(r)
  BY <1>2 DEF Prepares, AloneOK
<1>3. CASE Clears(r)
  <2>1. Unused(r, Codes \ Codes) = {}
    BY DEF Unused
  <2> QED
    BY <1>3, <2>1 DEF Clears, AloneOK
<1>4. CASE Adds(r)
  <2>1. PICK c \in req[r].todo :
          /\ req[r].pc = "insertCodes"
          /\ req'[r].pc = IF req[r].todo = {c} THEN "readSalt" ELSE "insertCodes"
          /\ req'[r].todo = req[r].todo \ {c}
          /\ codes' = codes \cup Unused(r, {c}) /\ mfa' = mfa
    BY <1>4 DEF Adds
  <2>2. req[r].todo \in SUBSET Codes
    BY DEF TypeOK, Handlers
  <2>3. mfa'.enabled
    BY <2>1 DEF AloneOK
  <2>4. codes' = Unused(r, Codes \ req'[r].todo)
    <3>1. codes = Unused(r, Codes \ req[r].todo)
      BY <2>1 DEF AloneOK
    <3>2. Unused(r, Codes \ (req[r].todo \ {c}))
            = Unused(r, Codes \ req[r].todo) \cup Unused(r, {c})
      BY <2>2, UnusedGrows
    <3> QED
      BY <2>1, <3>1, <3>2
  <2>5. req'[r].pc = "readSalt" => req'[r].todo = {}
    BY <2>1
  <2>6. req'[r].pc # "writeSalt"
    BY <2>1
  <2> QED
    BY <2>3, <2>4, <2>5, <2>6 DEF AloneOK, Unused
<1>5. CASE Merges(r)
  BY <1>5 DEF Merges, AloneOK, Unused
<1>6. CASE Completes(r)
  BY <1>6 DEF Completes, AloneOK
<1> QED
  BY <1>1, <1>2, <1>3, <1>4, <1>5, <1>6 DEF Issues

\* The steps of the others leave it alone.
LEMMA AloneKept ==
  ASSUME TypeOK, PcShape, Encounters, Paths, SaltsSettled, AloneInv, NEW q \in Requests, Step(q)
  PROVE  AloneInv'
<1> SUFFICES ASSUME NEW r \in Requests, Alone(r)'
             PROVE  AloneOK(r)'
  BY DEF AloneInv
<1>1. Moves(q)
  BY StepChange DEF Change
<1>2. \A s \in Requests : req'[s].op = req[s].op /\ req'[s].with = req[s].with
  BY <1>1 DEF Moves
<1>3. req[r].op \in IssuingOps /\ ~Met(r, IssuingOps \cup WipingOps)
  <2>1. req[r].with \subseteq Requests
    BY DEF TypeOK, Handlers
  <2> QED
    BY <1>2, <2>1 DEF Alone, Met
<1>4. AloneOK(r)
  BY <1>3 DEF Alone, AloneInv
<1>5. CASE q = r
  BY <1>3, <1>4, <1>5, AloneSteps
<1>6. CASE q # r
  <2>1. req'[r] = req[r]
    BY <1>1, <1>6 DEF Moves
  <2>2. CASE req[r].pc \notin {"deleteCodes", "insertCodes", "readSalt", "writeSalt"}
    BY <2>1, <2>2 DEF AloneOK
  <2>3. CASE req[r].pc \in {"deleteCodes", "insertCodes", "readSalt", "writeSalt"}
    <3>1. q \in InFlight /\ r \in InFlight
      BY <1>1, <2>3 DEF Moves, InFlight, Ended
    <3>2. req[q].op \notin IssuingOps \cup WipingOps
      BY <1>3, <1>6, <3>1 DEF Encounters, Met
    <3>3. mfa' = mfa
      BY <3>2, OthersKeepTheRow
    <3>4. CASE req[r].pc = "deleteCodes"
      BY <1>4, <2>1, <3>3, <3>4 DEF AloneOK
    <3>5. CASE req[r].pc # "deleteCodes"
      <4>1. codes = Unused(r, Codes \ req[r].todo)
        BY <1>4, <2>3, <3>5 DEF AloneOK
      <4>2. codes' = codes
        BY <2>3, <3>2, <4>1, OthersWriteNothing
      <4> QED
        BY <1>4, <2>1, <3>3, <4>2 DEF AloneOK, Unused
    <3> QED
      BY <3>4, <3>5
  <2> QED
    BY <2>2, <2>3
<1> QED
  BY <1>5, <1>6

\* Who is alone after an arrival was so before.
LEMMA AloneOnArrival ==
  ASSUME TypeOK, Encounters, AloneInv, NEW q \in Requests, NEW op \in Ops, Begin(q, op)
  PROVE  AloneInv'
<1> SUFFICES ASSUME NEW r \in Requests, Alone(r)'
             PROVE  AloneOK(r)'
  BY DEF AloneInv
<1>1. CASE r = q
  <2>1. req'[r].pc = FirstStatement(op) /\ req'[r].op = op
    BY <1>1, Arrival
  <2>2. op \in IssuingOps
    BY <2>1 DEF Alone
  <2>3. req'[r].pc = "row"
    BY <2>1, <2>2 DEF FirstStatement, IssuingOps, EnablingOps
  <2> QED
    BY <2>3 DEF AloneOK
<1>2. CASE r # q
  <2>1. /\ mfa' = mfa /\ codes' = codes
        /\ req'[r].op = req[r].op /\ req'[r].pc = req[r].pc /\ req'[r].cur = req[r].cur
        /\ req'[r].todo = req[r].todo /\ req[r].with \subseteq req'[r].with
    BY <1>2, Newcomer
  <2>2. ASSUME NEW s \in req[r].with
        PROVE  s \in req'[r].with /\ req'[s].op = req[s].op
    <3>1. s \in Requests /\ s # q
      BY Newcomer DEF TypeOK, Handlers, Encounters, At
    <3> QED
      BY <2>1, <3>1, Newcomer
  <2>3. Alone(r)
    BY <2>1, <2>2 DEF Alone, Met
  <2> QED
    BY <2>1, <2>3 DEF AloneInv, AloneOK, Unused
<1> QED
  BY <1>1, <1>2

\* What handlers that issue codes rely on.
IssueInv == Paths /\ SaltsSettled /\ AloneInv

\* The invariant of the handlers that issue codes.
LEMMA IssueInvariance == Spec => []IssueInv
<1>1. Init => IssueInv
  <2> SUFFICES ASSUME Init PROVE IssueInv
    OBVIOUS
  <2>1. \A r \in Requests : req[r] = Idle
    BY DEF Init
  <2>2. Idle.pc = "idle" /\ Idle.op = "login" /\ Idle.cur.salt = None
    BY DEF Idle, NoRow
  <2>3. mfa.salt = None
    BY DEF Init, NoRow
  <2> QED
    BY <2>1, <2>2, <2>3 DEF IssueInv, Paths, SaltsSettled, AloneInv, Alone, IssuingOps, EnablingOps
<1>2. TypeOK /\ MfaInv /\ IssueInv /\ [Next]_vars => IssueInv'
  <2> SUFFICES ASSUME TypeOK, MfaInv, IssueInv, [Next]_vars
               PROVE  IssueInv'
    OBVIOUS
  <2>1. PcShape /\ Encounters /\ Paths /\ SaltsSettled /\ AloneInv
    BY DEF MfaInv, IssueInv
  <2>2. ASSUME NEW r \in Requests, Step(r)
        PROVE  IssueInv'
    BY <2>1, <2>2, PathsKept, SaltsKept, AloneKept DEF IssueInv
  <2>3. ASSUME NEW r \in Requests, NEW op \in Ops, Begin(r, op)
        PROVE  IssueInv'
    BY <2>1, <2>3, PathsOnArrival, SaltsOnArrival, AloneOnArrival DEF IssueInv
  <2>4. CASE UNCHANGED <<mfa, codes, req>>
    BY <2>1, <2>4 DEF IssueInv, Paths, PathOf, At, SaltsSettled, Done, AloneInv, Alone, Met,
       AloneOK, Unused
  <2> QED
    BY <2>2, <2>3, <2>4 DEF Next, Expire, vars
<1> QED
  BY <1>1, <1>2, Invariance, PTL DEF Spec

\* A handler that issues codes ends well only by storing the salt.
LEMMA OnlySaltsComplete ==
  ASSUME TypeOK, MfaInv, IssueInv, Next, NEW r \in Requests, req[r].op \in IssuingOps,
         req[r].pc # "ok", req'[r].pc = "ok"
  PROVE  Completes(r)
<1>1. ~Expire
  BY DEF Expire
<1>2. ASSUME NEW q \in Requests, NEW op \in Ops, Begin(q, op)
      PROVE  FALSE
  <2>1. CASE q = r
    <3>1. req'[r].pc = FirstStatement(op)
      BY <1>2, <2>1, Arrival
    <3> QED
      BY <3>1 DEF FirstStatement
  <2>2. CASE q # r
    BY <1>2, <2>2, Newcomer
  <2> QED
    BY <2>1, <2>2
<1>3. PICK q \in Requests : Step(q)
  BY <1>1, <1>2 DEF Next
<1>4. PcShape /\ Paths
  BY DEF MfaInv, IssueInv
<1>5. q = r
  BY <1>3, <1>4, StepChange DEF Change, Moves
<1>6. Issues(r)
  BY <1>3, <1>4, <1>5, IssuingSteps DEF Paths
<1> QED
  BY <1>6 DEF Issues, Prepares, Clears, Adds, Merges

\* The codes on the screen are the account's, all usable, and the factor is on, unless the
\* request met another one that issues codes or wipes them. (issueMfaBackupCodes)
THEOREM CodesWork == Spec => ShownCodesWork
<1>1. TypeOK /\ MfaInv /\ IssueInv /\ [Next]_vars =>
        [\A r \in Requests :
           (req[r].op \in IssuingOps /\ ~At(r, "ok") /\ At(r, "ok")'
            /\ ~Met(r, IssuingOps \cup WipingOps))
           => /\ mfa'.enabled /\ mfa'.salt = r
              /\ codes' = {[hash |-> <<"code", <<r, c>>>>, used |-> FALSE] : c \in Codes}]_vars
  <2> SUFFICES ASSUME TypeOK, MfaInv, IssueInv, Next, NEW r \in Requests,
                      req[r].op \in IssuingOps, ~At(r, "ok"), At(r, "ok")',
                      ~Met(r, IssuingOps \cup WipingOps)
               PROVE  /\ mfa'.enabled /\ mfa'.salt = r
                      /\ codes' = {[hash |-> <<"code", <<r, c>>>>, used |-> FALSE] : c \in Codes}
    OBVIOUS
  <2>1. Completes(r)
    BY OnlySaltsComplete DEF At
  <2>2. AloneOK(r)
    BY DEF IssueInv, AloneInv, Alone
  <2>3. mfa.enabled /\ req[r].cur = mfa /\ mfa' = [mfa EXCEPT !.salt = r, !.by = r]
    BY <2>1, <2>2 DEF Completes, AloneOK
  <2>4. mfa \in Rows
    BY DEF TypeOK
  <2>5. mfa'.enabled /\ mfa'.salt = r
    BY <2>3, <2>4 DEF Rows
  <2>6. codes = Unused(r, Codes \ {}) /\ codes' = codes
    BY <2>1, <2>2 DEF Completes, AloneOK
  <2> QED
    BY <2>5, <2>6 DEF Unused
<1> QED
  BY <1>1, Invariance, IssueInvariance, PTL DEF Spec, ShownCodesWork

\* Storing the salt leaves the rest of the row as it is, unless the request met another one
\* that writes the row. (upsertUserMfaRow)
THEOREM WritesBackWhatIsThere == Spec => WriteBackOnlyInRaces
<1>1. TypeOK /\ MfaInv /\ IssueInv /\ [Next]_vars =>
        [\A r \in Requests :
           (At(r, "writeSalt") /\ At(r, "ok")' /\ ~Met(r, IssuingOps \cup WipingOps))
           => mfa' = [mfa EXCEPT !.salt = r, !.by = r]]_vars
  <2> SUFFICES ASSUME TypeOK, MfaInv, IssueInv, Next, NEW r \in Requests,
                      At(r, "writeSalt"), At(r, "ok")', ~Met(r, IssuingOps \cup WipingOps)
               PROVE  mfa' = [mfa EXCEPT !.salt = r, !.by = r]
    OBVIOUS
  <2>1. req[r].op \in IssuingOps
    BY DEF MfaInv, PcShape, ShapeOf, At
  <2>2. Completes(r)
    BY <2>1, OnlySaltsComplete DEF At
  <2>3. AloneOK(r)
    BY <2>1 DEF IssueInv, AloneInv, Alone
  <2> QED
    BY <2>2, <2>3 DEF Completes, AloneOK, At
<1> QED
  BY <1>1, Invariance, IssueInvariance, PTL DEF Spec, WriteBackOnlyInRaces

====
