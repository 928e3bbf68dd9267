---------------------------- MODULE OAuthGrant ----------------------------
(***************************************************************************)
(* What the OAuth server promises about one consent: the code is offered   *)
(* once and closes once; a closed code may start one line of refresh       *)
(* tokens; the line hands over from its holder to a token never used       *)
(* before, until it ends, and an ended line never resumes.                 *)
(***************************************************************************)
CONSTANTS Grants, Tokens

VARIABLES
  phase,    \* none -> offered -> closed -> live -> ended
  holder,   \* the usable token of the grant, as a set of at most one
  spent     \* the tokens the grant has retired

gvars == <<phase, holder, spent>>

Init ==
  /\ phase = [g \in Grants |-> "none"]
  /\ holder = [g \in Grants |-> {}]
  /\ spent = [g \in Grants |-> {}]

Fresh(t) == \A g \in Grants : t \notin holder[g] \cup spent[g]

Offer(g) ==
  /\ phase[g] = "none"
  /\ phase' = [phase EXCEPT ![g] = "offered"]
  /\ UNCHANGED <<holder, spent>>

\* Redeemed, or withdrawn with its account together with others.
Close(S) ==
  /\ S # {} /\ \A g \in S : phase[g] = "offered"
  /\ phase' = [g \in Grants |-> IF g \in S THEN "closed" ELSE phase[g]]
  /\ UNCHANGED <<holder, spent>>

Start(g, t) ==
  /\ phase[g] = "closed"
  /\ Fresh(t)
  /\ phase' = [phase EXCEPT ![g] = "live"]
  /\ holder' = [holder EXCEPT ![g] = {t}]
  /\ UNCHANGED spent

HandOver(g, t) ==
  /\ phase[g] = "live"
  /\ Fresh(t)
  /\ holder' = [holder EXCEPT ![g] = {t}]
  /\ spent' = [spent EXCEPT ![g] = @ \cup holder[g]]
  /\ UNCHANGED phase

End(g) ==
  /\ phase[g] = "live"
  /\ phase' = [phase EXCEPT ![g] = "ended"]
  /\ holder' = [holder EXCEPT ![g] = {}]
  /\ spent' = [spent EXCEPT ![g] = @ \cup holder[g]]

Next ==
  \/ \E g \in Grants : Offer(g) \/ End(g) \/ \E t \in Tokens : Start(g, t) \/ HandOver(g, t)
  \/ \E S \in SUBSET Grants : Close(S)

Spec == Init /\ [][Next]_gvars
=============================================================================
