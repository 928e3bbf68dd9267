--------------------------- MODULE MCOAuthTokens ---------------------------
(***************************************************************************)
(* Instances of OAuthTokens for TLC.                                       *)
(***************************************************************************)
EXTENDS OAuthTokens, FiniteSets, TLC

CONSTANTS u1, c1, c2, n1, g1, g2, t1, t2, t3, r1, r2

\* A client that may refresh, and the same client after the grant was withdrawn and its
\* scopes were cut down.
Wide == [tenant |-> n1, grants |-> GrantTypes, scopes |-> {"profile", "offline_access"},
         codeTtl |-> 1, refreshTtl |-> 2]
Narrow == [Wide EXCEPT !.grants = {"authorization_code"}, !.scopes = {"profile"}]

MCUsers == {u1}
OneClient == {c1}
TwoClients == {c1, c2}
MCTenants == {n1}
MCScopes == {"profile", "offline_access"}
OneConfig == {Wide}
TwoConfigs == {Wide, Narrow}
OneCode == {g1}
TwoCodes == {g1, g2}
ThreeTokens == {t1, t2, t3}
OneRequest == {r1}
TwoRequests == {r1, r2}

\* Requests and random values are interchangeable.
Symmetry == Permutations(Requests) \cup Permutations(Codes) \cup Permutations(Tokens)

(***************************************************************************)
(* Init chooses the focus and no step changes it:                          *)
(*  admin      every action: the requests of one client beside the         *)
(*             administration of tenant, account and client;               *)
(*  isolation  the requests of two clients over one unit of time;          *)
(*  races      two requests together.                                      *)
(***************************************************************************)
VARIABLE focus

\* The handlers and the clock without administration.
QuietNext ==
  \/ \E r \in Requests : Arrive(r) \/ Resume(r) \/ Crash(r)
  \/ Tick

\* The bounds of the focus "admin".
OneGrantOfC1 ==
  /\ \A r \in Requests : req'[r].client # c2
  /\ client'[c2] = client[c2]
  /\ \E g \in Codes : \A h \in Codes \ {g} : codes'[h].status = "free"
  /\ Cardinality({t \in Tokens : tokens'[t].stored}) <= 2

AdminInit == Init /\ focus = "admin" /\ client[c2] = Wide
IsolationInit == Init /\ focus = "isolation" /\ client = [c \in Clients |-> Wide]
AdminNext == focus = "admin" /\ Next /\ OneGrantOfC1
IsolationNext == focus = "isolation" /\ QuietNext /\ now' <= 1

MCSpec ==
  /\ AdminInit \/ IsolationInit
  /\ [][(AdminNext \/ IsolationNext) /\ UNCHANGED focus]_<<vars, focus>>

RacesInit == Init /\ focus = "races"
RacesSpec == RacesInit /\ [][QuietNext /\ UNCHANGED focus]_<<vars, focus>>
=============================================================================
