----------------------------- MODULE MCConsole -----------------------------
(***************************************************************************)
(* Small instances of what runs in a browser for TLC.  ListPage,           *)
(* ProfileSecurity and SignIn share nothing, so a behaviour runs one of    *)
(* them: `focus` names it, "list", for the profile "card" (without the     *)
(* banner) or "banner" (without reloads of the page), and for the pages of *)
(* SignIn "journey" (one tab) or "tabs" (two of them).                     *)
(***************************************************************************)
EXTENDS ListPage, ProfileSecurity, SignIn

CONSTANTS blank, word, MaxFetches, MaxTable, c1, c2, t1, t2

TwoTerms == {blank, word}
TwoClicks == {c1, c2}
TwoTabs == {t1, t2}

FullAccess == [tenant |-> TRUE, enforce |-> TRUE, manager |-> TRUE, codes |-> Operations]

\* Nothing is enforced, and the user is no manager: nothing is offered on the users page.
Unenforced == [tenant |-> TRUE, enforce |-> FALSE, manager |-> FALSE, codes |-> {}]

VARIABLE focus

PageAtRest ==
  /\ page = "users" /\ access = Unenforced
  /\ table = 1 /\ search = NoTerm /\ sent = 0 /\ flight = {} /\ loading = FALSE
  /\ rows = [k \in Lists |-> NothingShown] /\ overlapped = FALSE
  /\ dialog = "closed" /\ saving = FALSE /\ save = NoRequest
  /\ confirm = NoRow /\ removing = FALSE /\ removal = NoRequest /\ own = 0

\* The card has loaded its status.
CardLoaded ==
  /\ live = {} /\ made = 0 /\ issued = 0
  /\ profile = [loading |-> FALSE, mount |-> 1]
  /\ card = [NewCard EXCEPT !.loading = FALSE, !.shown = 1]
  /\ loads = {} /\ lastLoad = 1
  /\ click = [c \in Clicks |-> IdleClick]
  /\ banner = [shown |-> 0, seq |-> 0, dismissed |-> TRUE] /\ asks = {}
  /\ acked = 0 /\ seen = {} /\ gone = {} /\ spoiled = FALSE /\ crossed = FALSE /\ heard = 1

Stranger(member, admin) ==
  /\ user = [factor |-> TRUE, tenant |-> member, admin |-> admin, version |-> 0]
  /\ jar = NoToken
  /\ tab = [t \in Tabs |-> NewTab]

MCInit ==
  /\ \/ /\ focus = "list" /\ PageInit /\ page \in {"users", "permissions"}
        /\ access = FullAccess \/ (access = Unenforced /\ page = "users")
        /\ CardLoaded /\ enabled = <<TRUE>> /\ Stranger(TRUE, FALSE)
     \/ /\ focus = "card" /\ CardLoaded /\ enabled \in {<<TRUE>>, <<FALSE>>} /\ PageAtRest
        /\ Stranger(TRUE, FALSE)
     \/ focus = "banner" /\ CardInit /\ PageAtRest /\ Stranger(TRUE, FALSE)
     \/ /\ focus \in {"journey", "tabs"} /\ PageAtRest /\ CardLoaded /\ enabled = <<TRUE>>
        /\ \E member, admin \in BOOLEAN :
             Stranger(member, admin) /\ (focus = "tabs" => member /\ ~admin)

\* Bounds: MaxFetches fetches, those of the changes under way included, and MaxTable versions of
\* the tables; one fewer of each on the page of three lists, and one change of its own at a time.
Fewer == IF Last = 1 THEN 0 ELSE 1
Due == sent + (IF saving THEN 1 ELSE 0) + (IF removing THEN 1 ELSE 0)
BoundedUser == User /\ Due < MaxFetches - Fewer /\ (Last > 1 => ~(saving' /\ removing'))

ListSteps ==
  \/ BoundedUser \/ ShowList
  \/ (OtherChange \/ ServeSave \/ ServeRemoval) /\ table' <= MaxTable - Fewer
  \/ FetchEnds \/ SaveEnds \/ RemovalEnds

\* Bounds of the two foci of the profile; a passkey is registered before anything else happened
\* twice.
SmallCard ==
  /\ lastLoad <= 3 /\ issued <= 2 /\ made <= 2 /\ profile.mount <= 2
  /\ Now <= 2 /\ \A c \in Clicks : click[c].op \in TotpOps \cup {"register"} \/ click[c].pc = "idle"
  /\ (\E c \in Clicks : click[c].op = "register") =>
       made + issued <= 1 /\ lastLoad <= 2 /\ profile.mount = 1
SmallBanner ==
  /\ lastLoad <= 3 /\ banner.seq <= 2 /\ Now <= 2
  /\ ~profile.loading
  /\ \A c \in Clicks : click[c].op \in {"enable", "disable", "remove"}

\* Bounds of the journeys: the user sets out once from where he was and reloads what is at rest;
\* what happens elsewhere happens while no page loads, no tenant is joined, and the account is
\* recovered once, after which nothing happens elsewhere.
Resting == \A t \in Tabs : tab[t].going = Nowhere
Short(url) == Len(url) <= 3
Journeys ==
  /\ \/ \E t \in Tabs :
          \/ tab[t].at = FirstPlace /\ \E path \in Paths : Visit(t, path)
          \/ Resting /\ Reopen(t)
          \/ Answered(t) \/ CutOff(t)
          \/ \E what \in Submits : Resting /\ SubmitForm(t, what)
          \/ SignedIn(t) \/ SignedInByPasskey(t) \/ Verified(t) \/ Refused(t) \/ Recovered(t)
          \/ Resting /\ SignOut(t)
     \/ Expires
     \/ Resting /\ user.version = 0 /\ Elsewhere /\ (user'.tenant => user.tenant)
  /\ user'.version <= 1
  /\ \A t \in Tabs : Short(tab'[t].at.url) /\ (tab'[t].going # Nowhere => Short(tab'[t].going.url))

\* Two tabs: both bound for the authorization endpoint, nothing happens elsewhere.
TwoJourneys ==
  \/ \E t \in Tabs :
       \/ tab[t].at = FirstPlace /\ tab[t].going = Nowhere /\ Visit(t, "authorize")
       \/ Answered(t)
       \/ tab[t].going = Nowhere /\ \E what \in Submits : SubmitForm(t, what)
       \/ SignedIn(t) \/ SignedInByPasskey(t) \/ Verified(t) \/ Refused(t)
  \/ Expires

MCNext ==
  /\ \/ focus = "list" /\ ListSteps /\ UNCHANGED <<cardVars, signInVars>>
     \/ focus = "card" /\ CardNext /\ SmallCard' /\ UNCHANGED <<pageVars, signInVars>>
     \/ focus = "banner" /\ CardNext /\ SmallBanner' /\ UNCHANGED <<pageVars, signInVars>>
     \/ focus = "journey" /\ Journeys /\ tab'[t2] = tab[t2] /\ UNCHANGED <<pageVars, cardVars>>
     \/ focus = "tabs" /\ TwoJourneys /\ UNCHANGED <<pageVars, cardVars>>
  /\ UNCHANGED focus

MCSpec == MCInit /\ [][MCNext]_<<pageVars, cardVars, signInVars, focus>> /\ PageFairness
=============================================================================
