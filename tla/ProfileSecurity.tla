-------------------------- MODULE ProfileSecurity --------------------------
(***************************************************************************)
(* The profile page: its security card, which turns the second factor on   *)
(* and off, and the banner of the console that asks an owner to do so.     *)
(*                                                                         *)
(* The card reloads its status after each change and broadcasts it to the  *)
(* banner, which also fetches the status by itself.  The page reloads the  *)
(* profile after a change of password or of language; the card is not on   *)
(* the screen then, and a new one takes its place afterwards.  Handlers of *)
(* the old card run on: what they set is lost, their broadcasts are not.   *)
(* While the card loads its status a line stands in place of everything it *)
(* shows, the dialog with new backup codes included.                       *)
(*                                                                         *)
(* The server is its history of the flag mfaEnabled; MfaSecurity has the   *)
(* statements behind a request.  Accounts without a password, which may    *)
(* only look, are left out.                                                *)
(***************************************************************************)
EXTENDS Naturals, Sequences

CONSTANTS Clicks, Nobody   \* handlers that may run together

ASSUME NobodyAssumption == Nobody \notin Clicks

VARIABLES
  enabled,   \* the values mfaEnabled had, the current one last
  live,      \* the setup challenges in WebAuthnChallenge
  made,      \* how many there ever were
  issued,    \* how many times backup codes were issued to this page
  profile,   \* the page: is it loading, and which mount of the card is it
  card,      \* the state of the card
  loads,     \* the requests for the status, of any mount of the card
  lastLoad,  \* how many there were
  click,     \* the handlers
  banner,    \* what the banner knows, the number of its last fetch, dismissed
  asks,      \* the fetches of the banner
  acked,       \* history: the version the last acknowledged change of this page made
  seen,      \* history: the codes the user was shown
  gone,      \* history: the codes whose answer was lost, or whose card left before they showed
  spoiled,   \* history: why the setup shown may be unusable
  crossed,   \* history: a fetch of the banner was under way at the last broadcast
  heard      \* history: the load of the last broadcast

serverVars == <<enabled, live, made, issued>>
bannerVars == <<banner, asks>>
hist == <<acked, seen, gone, spoiled, crossed, heard>>
cardVars == <<serverVars, profile, card, loads, lastLoad, click, bannerVars, hist>>

Changes == {"confirm", "enable", "disable"}
Issuing == {"confirm", "enable", "rotate"}
TotpOps == Changes \cup {"prepare", "rotate"}
KeyOps == {"register", "remove"}
Ops == TotpOps \cup KeyOps

\* `given`: the challenge or the codes of the answer.  `version`: of the change it made.
IdleClick == [pc |-> "idle", op |-> "remove", mount |-> 0, given |-> 0, version |-> 0]

\* `shown`: the version of the status, 0 before the first one.  `setup`: the challenge of
\* totpChallengeId and totpOtpauth, 0 for none.  `codes`: those of the open dialog, 0 for none.
NewCard == [loading |-> TRUE, shown |-> 0, setup |-> 0, codes |-> 0, totpBusy |-> FALSE,
            pkBusy |-> FALSE]

Now == Len(enabled)

CardInit ==
  /\ enabled \in {<<TRUE>>, <<FALSE>>}
  /\ live = {} /\ made = 0 /\ issued = 0
  /\ profile = [loading |-> FALSE, mount |-> 1]
  /\ card = NewCard
  /\ loads = {[n |-> 1, mount |-> 1, from |-> 1, by |-> Nobody]} /\ lastLoad = 1
  /\ click = [c \in Clicks |-> IdleClick]
  /\ banner = [shown |-> 0, seq |-> 1, dismissed |-> FALSE]
  /\ asks = {[id |-> 1, from |-> 1]}
  /\ acked = 0 /\ seen = {} /\ gone = {} /\ spoiled = FALSE /\ crossed = FALSE /\ heard = 0

-----------------------------------------------------------------------------
(* The status: load of the card. *)

Mounted(mount) == ~profile.loading /\ mount = profile.mount

\* A card that loads, or has no status, shows nothing but the loading line.
Usable == Mounted(profile.mount) /\ ~card.loading /\ card.shown # 0

\* The codes that the user has before him.
OnScreen == IF Usable /\ card.codes # 0 THEN {card.codes} ELSE {}

\* History: what the user sees after a step.
Looks == seen' = seen \cup OnScreen'

StartLoad(mount, by) ==
  /\ lastLoad' = lastLoad + 1
  /\ loads' = loads \cup {[n |-> lastLoad + 1, mount |-> mount, from |-> Now, by |-> by]}

\* The handler that awaited this load returns, and its flag is reset.
Return(c) == click' = [click EXCEPT ![c] = IdleClick]

\* Mutant: only the passkey's handler resets its flag.
KeptBusy(state, op) == IF op = "register" THEN [state EXCEPT !.pkBusy = FALSE] ELSE state

Released(state, op) ==
  IF op \in TotpOps THEN [state EXCEPT !.totpBusy = FALSE]
  ELSE IF op = "register" THEN [state EXCEPT !.pkBusy = FALSE] ELSE state

\* The card after a load, with `version` what it shows then.
CardAfter(l, version) ==
  IF ~Mounted(l.mount) THEN card
  ELSE LET loaded == [card EXCEPT !.loading = FALSE, !.shown = version] IN
       IF l.by = Nobody THEN loaded ELSE Released(loaded, click[l.by].op)

EndLoad(l, version) ==
  /\ loads' = loads \ {l}
  /\ card' = CardAfter(l, version)
  /\ IF l.by = Nobody THEN UNCHANGED click ELSE Return(l.by)
  /\ UNCHANGED <<serverVars, profile, lastLoad, asks, acked, gone, spoiled>>
  /\ Looks

\* Mutant: the card does not broadcast the status it loads.
Whispered(version) == banner

\* The event: the banner takes the value whether or not it is fetching.
Broadcast(version) == [banner EXCEPT !.shown = version]

Asking == \E a \in asks : a.id = banner.seq

LoadAnswered ==
  \E l \in loads : \E v \in l.from..Now :
    /\ EndLoad(l, v)
    /\ banner' = Broadcast(v)
    /\ crossed' = Asking /\ heard' = l.n

LoadFailed ==
  \E l \in loads : EndLoad(l, card.shown) /\ UNCHANGED <<banner, crossed, heard>>

-----------------------------------------------------------------------------
(* The buttons of the card. *)

\* What the card offers for the status it shows.
Offers(op) ==
  CASE op = "prepare" -> ~enabled[card.shown] /\ card.setup = 0
    [] op = "confirm" -> ~enabled[card.shown] /\ card.setup # 0
    [] op = "enable" -> ~enabled[card.shown]
    [] op \in {"disable", "rotate"} -> enabled[card.shown]
    [] op \in KeyOps -> TRUE

\* The button that deletes a passkey is never off; no button can be pressed behind the dialog.
Free(op) == (op \in TotpOps => ~card.totpBusy) /\ (op = "register" => ~card.pkBusy)

Press(c, op) ==
  /\ Usable /\ card.codes = 0 /\ Offers(op) /\ Free(op) /\ click[c].pc = "idle"
  /\ click' = [click EXCEPT ![c] = [IdleClick EXCEPT !.pc = "sent", !.op = op,
                                      !.mount = profile.mount, !.given = card.setup]]
  /\ card' = [card EXCEPT !.totpBusy = @ \/ op \in TotpOps, !.pkBusy = @ \/ op = "register"]
  /\ UNCHANGED <<serverVars, profile, loads, lastLoad, bannerVars, hist>>

Served(c, outcome, given, version) ==
  click' = [click EXCEPT ![c].pc = outcome, ![c].given = given, ![c].version = version]

At(c, op) == click[c].pc = "sent" /\ click[c].op = op
AllButServer == <<profile, card, loads, lastLoad, bannerVars, acked, seen, gone, crossed, heard>>

ServePrepare(c) ==
  /\ At(c, "prepare")
  /\ ~enabled[Now]
  /\ made' = made + 1
  /\ live' = live \cup {made + 1}
  /\ Served(c, "ok", made + 1, 0)
  /\ UNCHANGED <<enabled, issued, spoiled, AllButServer>>

\* confirm: an unknown challenge is refused; a known one is used up, whatever the code is.
ServeConfirm(c) ==
  LET id == click[c].given IN
  /\ At(c, "confirm")
  /\ ~enabled[Now] /\ id \in live
  /\ live' = live \ {id}
  /\ \/ \* the code is right
        /\ enabled' = Append(enabled, TRUE)
        /\ issued' = issued + 1
        /\ Served(c, "ok", issued + 1, Now + 1)
        /\ UNCHANGED spoiled
     \/ \* the code is wrong
        /\ Served(c, "no", 0, 0)
        /\ spoiled' = TRUE
        /\ UNCHANGED <<enabled, issued>>
  /\ UNCHANGED <<made, AllButServer>>

ServeEnable(c) ==
  /\ At(c, "enable")
  /\ ~enabled[Now]
  /\ enabled' = Append(enabled, TRUE)
  /\ issued' = issued + 1
  /\ Served(c, "ok", issued + 1, Now + 1)
  /\ UNCHANGED <<live, made, spoiled, AllButServer>>

ServeDisable(c) ==
  /\ At(c, "disable")
  /\ enabled' = Append(enabled, FALSE)
  /\ Served(c, "ok", 0, Now + 1)
  /\ UNCHANGED <<live, made, issued, spoiled, AllButServer>>

ServeRotate(c) ==
  /\ At(c, "rotate")
  /\ enabled[Now]
  /\ issued' = issued + 1
  /\ Served(c, "ok", issued + 1, 0)
  /\ UNCHANGED <<enabled, live, made, spoiled, AllButServer>>

ServeKey(c) ==
  /\ \E op \in KeyOps : At(c, op)
  /\ Served(c, "ok", 0, 0)
  /\ UNCHANGED <<serverVars, spoiled, AllButServer>>

\* Mutant: the challenge is used up before the password is looked at.
UsedUp(c) == IF click[c].op = "confirm" THEN live \ {click[c].given} ELSE live

\* What a refusal leaves: a wrong password, another account's status, a session that ended.
AfterRefusal(c) == live

Refuse(c) ==
  /\ click[c].pc = "sent"
  /\ live' = AfterRefusal(c)
  /\ Served(c, "no", 0, 0)
  /\ UNCHANGED <<enabled, made, issued, spoiled, AllButServer>>

\* Mutant: a successful confirmation does not show the codes.
ShownTo(c) == click[c].op = "enable" /\ Mounted(click[c].mount)

\* Backup codes open the dialog if there is a card to do so; it can be seen once nothing loads.
Shows(c) == click[c].op \in Issuing /\ Mounted(click[c].mount)

Dialog(c) == IF Shows(c) THEN click[c].given ELSE card.codes

Seen(c) ==
  /\ Looks
  /\ gone' = IF click[c].op \in Issuing /\ ~Mounted(click[c].mount)
               THEN gone \cup {click[c].given} ELSE gone

\* An answer that ends the handler: the setup, or new codes.
AnsweredAtOnce(c) ==
  LET k == click[c] IN
  /\ k.pc = "ok" /\ k.op \in {"prepare", "rotate"}
  /\ card' = IF ~Mounted(k.mount) THEN card
             ELSE IF k.op = "prepare" THEN [Released(card, k.op) EXCEPT !.setup = k.given]
             ELSE [Released(card, k.op) EXCEPT !.codes = Dialog(c)]
  /\ spoiled' = IF k.op = "prepare" /\ Mounted(k.mount) THEN k.given \notin live ELSE spoiled
  /\ Return(c)
  /\ UNCHANGED <<serverVars, profile, loads, lastLoad, bannerVars, acked, crossed, heard>>
  /\ Seen(c)

\* An answer after which the status is loaded; the handler awaits it.
AnsweredThenLoad(c) ==
  LET k == click[c] IN
  /\ k.pc = "ok" /\ k.op \in Changes \cup KeyOps
  /\ card' = IF ~Mounted(k.mount) THEN card
             ELSE [card EXCEPT !.loading = TRUE, !.codes = Dialog(c),
                               !.setup = IF k.op = "confirm" THEN 0 ELSE @]
  /\ StartLoad(k.mount, c)
  /\ click' = [click EXCEPT ![c].pc = "load"]
  /\ acked' = IF k.version > acked THEN k.version ELSE acked
  /\ UNCHANGED <<serverVars, profile, bannerVars, spoiled, crossed, heard>>
  /\ Seen(c)

\* A refusal, or the connection failed: the flag is reset and the form stays as it was.
\* The server may have done its work all the same, or do it later (OtherDevice).
Unanswered(c) ==
  LET k == click[c] IN
  /\ k.pc \in {"sent", "ok", "no"}
  /\ card' = IF Mounted(k.mount) THEN Released(card, k.op) ELSE card
  /\ gone' = IF k.pc = "ok" /\ k.op \in Issuing THEN gone \cup {k.given} ELSE gone
  /\ spoiled' = (spoiled \/ (k.op = "confirm" /\ k.pc # "no"))
  /\ Return(c)
  /\ UNCHANGED <<serverVars, profile, loads, lastLoad, bannerVars, acked, seen, crossed, heard>>

CloseCodes ==
  /\ Usable /\ card.codes # 0
  /\ card' = [card EXCEPT !.codes = 0]
  /\ UNCHANGED <<serverVars, profile, loads, lastLoad, click, bannerVars, hist>>

\* The second factor is changed elsewhere.
OtherDevice ==
  /\ \E on \in BOOLEAN : enabled' = Append(enabled, on)
  /\ UNCHANGED <<live, made, issued, profile, card, loads, lastLoad, click, bannerVars, hist>>

\* Ten minutes have passed.
Expire ==
  /\ \E id \in live :
       live' = live \ {id} /\ spoiled' = (spoiled \/ card.setup = id)
  /\ UNCHANGED <<enabled, made, issued, profile, card, loads, lastLoad, click, bannerVars,
                 acked, seen, gone, crossed, heard>>

-----------------------------------------------------------------------------
(* The page around the card. *)

\* A new password was stored, or another language chosen: the tabs give way to a line.  Codes
\* that the card's own loading line still hides go with it.
Reload ==
  /\ ~profile.loading
  /\ profile' = [profile EXCEPT !.loading = TRUE]
  /\ gone' = gone \cup ({card.codes} \ ({0} \cup seen))
  /\ UNCHANGED <<serverVars, card, loads, lastLoad, click, bannerVars, acked, seen, spoiled,
                 crossed, heard>>

Reloaded ==
  /\ profile.loading
  /\ profile' = [loading |-> FALSE, mount |-> profile.mount + 1]
  /\ card' = NewCard
  /\ StartLoad(profile.mount + 1, Nobody)
  /\ UNCHANGED <<serverVars, click, bannerVars, hist>>

-----------------------------------------------------------------------------
(* The banner. *)

\* The tab comes to the front.
Visible ==
  /\ ~banner.dismissed
  /\ banner' = [banner EXCEPT !.seq = @ + 1]
  /\ asks' = asks \cup {[id |-> banner.seq + 1, from |-> Now]}
  /\ crossed' = FALSE
  /\ UNCHANGED <<serverVars, profile, card, loads, lastLoad, click, acked, seen, gone, spoiled, heard>>

\* Only the answer of the last fetch counts.  One without a status clears the banner.
BannerAnswered ==
  /\ \E a \in asks :
       /\ asks' = asks \ {a}
       /\ \E v \in (a.from..Now) \cup {0} :
            banner' = IF a.id = banner.seq THEN [banner EXCEPT !.shown = v] ELSE banner
  /\ UNCHANGED <<serverVars, profile, card, loads, lastLoad, click, hist>>

Dismiss ==
  /\ ~banner.dismissed /\ banner.shown # 0 /\ ~enabled[banner.shown]
  /\ banner' = [banner EXCEPT !.dismissed = TRUE, !.shown = 0]
  /\ UNCHANGED <<serverVars, profile, card, loads, lastLoad, click, asks, hist>>

-----------------------------------------------------------------------------

ServeClick(c) ==
  \/ ServePrepare(c) \/ ServeConfirm(c) \/ ServeEnable(c) \/ ServeDisable(c)
  \/ ServeRotate(c) \/ ServeKey(c) \/ Refuse(c)

AnswerClick(c) == AnsweredAtOnce(c) \/ AnsweredThenLoad(c) \/ Unanswered(c)

CardNext ==
  \/ \E c \in Clicks : (\E op \in Ops : Press(c, op)) \/ ServeClick(c) \/ AnswerClick(c)
  \/ LoadAnswered \/ LoadFailed
  \/ CloseCodes \/ OtherDevice \/ Expire
  \/ Reload \/ Reloaded
  \/ Visible \/ BannerAnswered \/ Dismiss

CardSpec == CardInit /\ [][CardNext]_cardVars

-----------------------------------------------------------------------------
(* Properties. *)

LoadType == [n: 1..lastLoad, mount: 1..profile.mount, from: 1..Now, by: Clicks \cup {Nobody}]

\* Types; a flag of the card is set just while a handler of this card runs, and the loading
\* line of a card stands only while a load is under way.
CardTypeOK ==
  /\ enabled \in Seq(BOOLEAN) /\ Now > 0
  /\ live \subseteq 1..made /\ card.setup \in 0..made /\ card.codes \in 0..issued
  /\ profile.loading \in BOOLEAN
  /\ loads \subseteq LoadType
  /\ card.shown \in 0..Now /\ banner.shown \in 0..Now /\ acked \in 0..Now
  /\ Mounted(profile.mount) =>
       /\ card.loading => \E l \in loads : l.mount = profile.mount
       /\ card.totpBusy <=> \E c \in Clicks : /\ click[c].pc # "idle"
                                              /\ click[c].mount = profile.mount
                                              /\ click[c].op \in TotpOps

\* The challenge of a setup on the screen is still there, unless its ten minutes are over, a
\* wrong code was typed or the answer was lost.  Then it is gone, and the card has no button for
\* another one until it is mounted anew (profile-security-card.tsx:346, :173; the challenge
\* is used up before the code is checked, totp/confirm/route.ts:49).
SetupUsable ==
  Usable /\ card.setup # 0 /\ ~card.totpBusy => card.setup \in live \/ spoiled

\* Every set of backup codes issued comes on the screen once, however clicks, loads and
\* reloads overlap; unless its answer was lost, or the page reloaded the profile after the click
\* and before the load that follows the answer, which hides the dialog, was over
\* (profile-page-client.tsx:72, :159; profile-security-card.tsx:180, :201, :265).
CodesReachUser ==
  \A i \in 1..issued :
    \/ i \in seen \cup gone
    \/ \E c \in Clicks : click[c].pc = "ok" /\ click[c].op \in Issuing /\ click[c].given = i
    \/ i = card.codes /\ \E l \in loads : Mounted(l.mount)

Quiet == loads = {} /\ asks = {} /\ \A c \in Clicks : click[c].pc = "idle"

\* At rest the banner does not deny a change this page has made, unless an answer of its own
\* was under way at the broadcast (the broadcast leaves fetchSeq alone,
\* mfa-encouragement-banner.tsx:76), or the last load of the card failed or was overtaken.
BannerKnowsOwnChange ==
  Quiet /\ banner.shown # 0 => banner.shown >= acked \/ crossed \/ heard # lastLoad
=============================================================================
