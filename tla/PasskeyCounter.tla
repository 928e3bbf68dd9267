--------------------------- MODULE PasskeyCounter ---------------------------
(***************************************************************************)
(* The signature counter of a passkey (POST /api/auth/passkey/login-verify *)
(* and /api/auth/mfa/verify). An authenticator that counts puts a higher   *)
(* number into each signature; the server refuses one that is no higher    *)
(* than the number stored, and stores it -- by a SELECT, and an UPDATE     *)
(* without a condition.                                                    *)
(*                                                                         *)
(* One passkey: both statements name one. An answer to a challenge may     *)
(* come late, twice or never. Who may use the passkey for what, and that   *)
(* it is deleted, is MfaSecurity's; here a handler breaks off.             *)
(***************************************************************************)
EXTENDS Naturals

CONSTANTS
  Answers,      \* the requests that bring a signature
  Signatures,   \* what the authenticator signs, each for a challenge of its own
  MaxCount,     \* bound of the authenticator's counter
  Nobody, NoSignature

ASSUME CounterAssumption == MaxCount \in Nat /\ Nobody \notin Answers

VARIABLES
  device,     \* the authenticator's counter
  passkey,    \* the WebAuthnCredential row; counts: whether its authenticator
              \* counts; by (history): the answer that stored the counter
  signature,  \* the signatures; state: of the challenge's row
  answer      \* the handlers; with (history): those in flight together

counterVars == <<device, passkey, signature, answer>>

AnswerEnds == {"accepted", "refused", "broken"}
AnswerPcs == {"takeChallenge", "dropChallenge", "readCounter", "storeCounter"}

NoAnswer == [pc |-> "fresh", of |-> NoSignature, with |-> {}]

AnswerRecords == [pc: {"fresh"} \cup AnswerPcs \cup AnswerEnds,
                  of: Signatures \cup {NoSignature}, with: SUBSET Answers]

CounterTypeOK ==
  /\ device \in Nat
  /\ passkey \in [counts: BOOLEAN, counter: Nat, by: Answers \cup {Nobody}]
  /\ signature \in [Signatures -> [state: {"none", "open", "gone"}, count: Nat]]
  /\ answer \in [Answers -> AnswerRecords]

\* The passkey was registered with the counter it had then, 0 if it does not count.
CounterInit ==
  /\ device \in 0..MaxCount
  /\ \E b \in BOOLEAN : /\ passkey = [counts |-> b, counter |-> device, by |-> Nobody]
                        /\ b \/ device = 0
  /\ signature = [s \in Signatures |-> [state |-> "none", count |-> 0]]
  /\ answer = [a \in Answers |-> NoAnswer]

----
Underway == {a \in Answers : answer[a].pc \in AnswerPcs}

CountOf(a) == signature[answer[a].of].count

\* The authenticator signs a challenge.
Sign(s) ==
  /\ signature[s].state = "none"
  /\ device' \in IF passkey.counts THEN (device + 1)..MaxCount ELSE {device}
  /\ signature' = [signature EXCEPT ![s] = [state |-> "open", count |-> device']]
  /\ UNCHANGED <<passkey, answer>>

\* A challenge expires; its row reads as absent.
Lapses(s) ==
  /\ signature[s].state = "open"
  /\ signature' = [signature EXCEPT ![s].state = "gone"]
  /\ UNCHANGED <<device, passkey, answer>>

\* An answer arrives, or arrives again.
Delivered(a, s) ==
  /\ answer[a].pc = "fresh"
  /\ signature[s].state # "none"
  /\ answer' = [b \in Answers |->
       IF b = a THEN [pc |-> "takeChallenge", of |-> s, with |-> Underway]
       ELSE IF b \in Underway THEN [answer[b] EXCEPT !.with = answer[b].with \cup {a}]
       ELSE answer[b]]
  /\ UNCHANGED <<device, passkey, signature>>

MovesTo(a, pc) == answer' = [answer EXCEPT ![a].pc = pc]

\* A challenge that is absent, a row that is not there, a statement that throws.
BreaksOff(a) ==
  /\ a \in Underway
  /\ MovesTo(a, "broken")
  /\ UNCHANGED <<device, passkey, signature>>

\* consumeWebAuthnChallenge: a SELECT, then a DELETE.
TakesChallenge(a) ==
  /\ answer[a].pc = "takeChallenge"
  /\ signature[answer[a].of].state = "open"
  /\ MovesTo(a, "dropChallenge")
  /\ UNCHANGED <<device, passkey, signature>>

DropsChallenge(a) ==
  /\ answer[a].pc = "dropChallenge"
  /\ signature' = [signature EXCEPT ![answer[a].of].state = "gone"]
  /\ MovesTo(a, "readCounter")
  /\ UNCHANGED <<device, passkey>>

\* Mutant: the stored counter is not looked at.
AnyFits(count, counter) == TRUE

\* verifyAuthenticationResponse: a passkey that counts must have counted on.
Fits(count, counter) == count > counter \/ (count = 0 /\ counter = 0)

\* getWebAuthnCredentialByCredentialId, and the check of what it returned.
ReadsCounter(a) ==
  /\ answer[a].pc = "readCounter"
  /\ MovesTo(a, IF Fits(CountOf(a), passkey.counter) THEN "storeCounter" ELSE "refused")
  /\ UNCHANGED <<device, passkey, signature>>

\* Mutant: the number the server expects next.
CountedOn(count) == count + 1

\* verified.authenticationInfo.newCounter
NewCounter(count) == count

\* updateWebAuthnCredentialCounter
StoresCounter(a) ==
  /\ answer[a].pc = "storeCounter"
  /\ passkey' = [passkey EXCEPT !.counter = NewCounter(CountOf(a)), !.by = a]
  /\ MovesTo(a, "accepted")
  /\ UNCHANGED <<device, signature>>

CounterNext ==
  \/ \E s \in Signatures : Sign(s) \/ Lapses(s)
  \/ \E a \in Answers :
       \/ \E s \in Signatures : Delivered(a, s)
       \/ BreaksOff(a)
       \/ TakesChallenge(a) \/ DropsChallenge(a) \/ ReadsCounter(a) \/ StoresCounter(a)

CounterSpec == CounterInit /\ [][CounterNext]_counterVars

----
\* The stored counter falls only when an answer overtook another: whoever writes the lower
\* number was in flight together with whoever wrote the higher one. A signature that comes in
\* alone never sets it back, however late it is. (updateWebAuthnCredentialCounter)
CounterFallsOnlyTogether ==
  [][passkey'.counter < passkey.counter => passkey.by \in answer[passkey'.by].with]_counterVars

\* Nobody is locked out: a signature is refused for its counter only when one at least as
\* late has been accepted, so that a new one always fits, and a passkey that does not count is
\* never refused. (login-verify, mfa/verify)
RefusedForLater ==
  \A a \in Answers : answer[a].pc = "refused" =>
    passkey.counts /\ \E b \in Answers : answer[b].pc = "accepted" /\ CountOf(b) >= CountOf(a)

=============================================================================
