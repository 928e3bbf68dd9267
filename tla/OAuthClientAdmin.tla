-------------------------- MODULE OAuthClientAdmin --------------------------
(***************************************************************************)
(* The administration of the OAuth client of one application: the route    *)
(* that creates, edits and removes it, statement by statement, and the     *)
(* form page that calls the route and shows a new secret once.             *)
(*                                                                         *)
(* The table keeps a hash, so a secret that nobody was shown is gone.  A   *)
(* secret is a number, in the order of their generation, and 0 is none: a  *)
(* client without a secret is public.  Names, URIs and lifetimes are left  *)
(* out, but for the refusal of a name or a client_id in use.               *)
(***************************************************************************)
EXTENDS Naturals

CONSTANT Editors   \* browser tabs at the form; each has at most one request under way

VARIABLES
  site,      \* the row of the application, and its row in OAuth2Client
  minted,    \* the number of secrets there were
  form,      \* the form page of each tab
  call,      \* the request of each tab
  secrets    \* history, see below

clientVars == <<site, minted, form, call, secrets>>

Sites == [app: BOOLEAN, client: BOOLEAN, secret: Nat]

\* `typed`: the secret field.  `banner`: flashSecret.  `kept`: the secret in sessionStorage.
Forms == [mode: {"away", "create", "edit"}, typed: Nat, banner: Nat, kept: Nat]

(***************************************************************************)
(* pc names the next statement.  `here`: the page that sent the request is *)
(* still mounted.  `new`: the secret to store.  `plain`: the secret to     *)
(* answer, 0 if there is no new one.  `read`: the secret an edit found.    *)
(***************************************************************************)
ServerPCs == {"look", "insert", "rename", "hash", "write", "read back"}
Calls == [pc: ServerPCs \cup {"idle", "ok", "no", "replace"}, op: {"POST", "PUT"},
          here: BOOLEAN, confidential: BOOLEAN, regenerate: BOOLEAN,
          new: Nat, plain: Nat, read: Nat]

IdleCall == [pc |-> "idle", op |-> "PUT", here |-> TRUE, confidential |-> FALSE,
             regenerate |-> FALSE, new |-> 0, plain |-> 0, read |-> 0]

\* `known`: the secrets that were on a screen, and those whose last copy is lost.  `retired`:
\* those that somebody replaced or removed, that an edit under way since before they were
\* stored overwrote, or whose client was removed before they could be stored.
Histories == [known: SUBSET Nat, retired: SUBSET Nat]

Mode(s) == IF s.client THEN "edit" ELSE "create"

NewForm(kept) == [mode |-> "away", typed |-> 0, banner |-> 0, kept |-> kept]

ClientInit ==
  /\ site \in [app: {TRUE}, client: BOOLEAN, secret: {0, 1}]
  /\ ~site.client => site.secret = 0
  /\ minted = site.secret
  /\ form = [e \in Editors |-> NewForm(0)]
  /\ call = [e \in Editors |-> IdleCall]
  /\ secrets = [known |-> {site.secret} \ {0}, retired |-> {}]

-----------------------------------------------------------------------------
(* The form page. *)

Saw(s) == [secrets EXCEPT !.known = @ \cup ({s} \ {0})]
Loses(s) == [secrets EXCEPT !.known = @ \cup ({s} \ {0})]

\* Mutant: the secret in sessionStorage is removed before it is read.
Forgets(f, mode) == [f EXCEPT !.mode = mode, !.kept = 0]

\* The effect: a form that edits shows the secret that sessionStorage keeps, and removes it.
Mounts(f, mode) ==
  IF mode = "edit" /\ f.kept # 0
    THEN [f EXCEPT !.mode = mode, !.banner = f.kept, !.kept = 0]
    ELSE [f EXCEPT !.mode = mode]

\* The page as the server renders it: the form, or no page without an application.
Renders(f) == IF site.app THEN Mounts(f, Mode(site)) ELSE NewForm(f.kept)

\* A page that is left does not hear the end of its request; a redirect is overtaken.
LeftCall(c) == IF c.pc = "replace" THEN IdleCall ELSE [c EXCEPT !.here = FALSE]

Leave(e) ==
  /\ form' = [form EXCEPT ![e] = NewForm(form[e].kept)]
  /\ call' = [call EXCEPT ![e] = LeftCall(call[e])]

Visit(e) ==
  /\ site.app /\ form[e].mode = "away"
  /\ form' = [form EXCEPT ![e] = Renders(form[e])]
  /\ secrets' = Saw(form'[e].banner)
  /\ UNCHANGED <<site, minted, call>>

GoAway(e) ==
  /\ form[e].mode # "away"
  /\ Leave(e)
  /\ UNCHANGED <<site, minted, secrets>>

\* The form of another application's client finds a secret that is not its own, and drops it.
VisitOther(e) ==
  /\ form[e].kept # 0
  /\ form' = [form EXCEPT ![e] = NewForm(0)]
  /\ call' = [call EXCEPT ![e] = LeftCall(call[e])]
  /\ secrets' = Loses(form[e].kept)
  /\ UNCHANGED <<site, minted>>

DismissSecret(e) ==
  /\ form[e].banner # 0
  /\ form' = [form EXCEPT ![e].banner = 0]
  /\ UNCHANGED <<site, minted, call, secrets>>

\* Save, with what was entered: the secret field may be empty, or hold a secret that was just
\* typed or an earlier one.  The page of a refused or finished edit keeps its fields.
Save(e, confidential, typed, regenerate) ==
  /\ form[e].mode # "away" /\ form[e].banner = 0 /\ call[e].pc = "idle"
  /\ typed \in {0, form[e].typed, minted + 1}
  /\ regenerate => form[e].mode = "edit" /\ confidential
  /\ minted' = IF typed > minted THEN typed ELSE minted
  /\ form' = [form EXCEPT ![e].typed = typed]
  /\ call' = [call EXCEPT ![e] =
       [IdleCall EXCEPT !.pc = "look", !.op = IF form[e].mode = "edit" THEN "PUT" ELSE "POST",
          !.confidential = confidential, !.regenerate = regenerate, !.new = typed]]
  /\ UNCHANGED <<site, secrets>>

-----------------------------------------------------------------------------
(* The route. *)

Step(e, pc) == call' = [call EXCEPT ![e].pc = pc]

\* getApplicationById of the route, then the first SELECT of the function.
Look(e) ==
  LET c == call[e] IN
  /\ c.pc = "look"
  /\ Step(e, IF ~site.app \/ (site.client <=> c.op = "POST") THEN "no"
             ELSE IF c.op = "POST" THEN "insert" ELSE "hash")
  /\ UNCHANGED <<site, minted, form, secrets>>

\* The call with the secret it generates, or the one that was typed.
Fresh(c) == IF c.new # 0 THEN c.new ELSE minted + 1

WithSecret(c, s) == [c EXCEPT !.new = s, !.plain = s]

\* What a request still needs once the client is stored.
Settled(c, pc) ==
  [IdleCall EXCEPT !.pc = pc, !.op = c.op, !.here = c.here, !.plain = c.plain]

MintFor(c) == minted' = IF c.new = 0 THEN minted + 1 ELSE minted

\* INSERT INTO OAuth2Client; the foreign key, a row that is there already or a client_id in
\* use refuses it.
InsertClient(e) ==
  LET c == call[e]
      s == IF c.confidential THEN Fresh(c) ELSE 0 IN
  /\ c.pc = "insert"
  /\ \/ /\ site.app /\ ~site.client
        /\ site' = [site EXCEPT !.client = TRUE, !.secret = s]
        /\ call' = [call EXCEPT ![e] = Settled(WithSecret(c, s), "rename")]
        /\ secrets' = [secrets EXCEPT !.retired = @ \ {s}]
        /\ IF c.confidential THEN MintFor(c) ELSE UNCHANGED minted
     \/ Step(e, "no") /\ UNCHANGED <<site, minted, secrets>>
  /\ UNCHANGED <<form>>

\* UPDATE Application: a name in use is answered as a client_id in use, and the client stays.
RenameAfterInsert(e) ==
  /\ call[e].pc = "rename"
  /\ \/ Step(e, "read back") /\ UNCHANGED secrets
     \/ Step(e, "no") /\ secrets' = Loses(call[e].plain)
  /\ UNCHANGED <<site, minted, form>>

\* SELECT clientSecretHash, and the choice of the secret to store.
ReadHash(e) ==
  LET c == call[e]
      keeps == c.new = 0 /\ ~c.regenerate /\ site.secret # 0
      found == [c EXCEPT !.pc = "write", !.read = site.secret] IN
  /\ c.pc = "hash"
  /\ IF ~c.confidential
       THEN call' = [call EXCEPT ![e] = [found EXCEPT !.new = 0]] /\ UNCHANGED minted
     ELSE IF keeps
       THEN call' = [call EXCEPT ![e] = [found EXCEPT !.new = site.secret]] /\ UNCHANGED minted
     ELSE call' = [call EXCEPT ![e] = WithSecret(found, Fresh(c))] /\ MintFor(c)
  /\ UNCHANGED <<site, form, secrets>>

\* Mutant: an edit without a new secret clears the hash.
StoresPlain(c) == c.plain

\* The hash that the UPDATE writes.
Stores(c) == c.new

\* The client loses its secret on purpose, or to an edit that read an older one.
Replaces(c) == c.plain # 0 \/ ~c.confidential \/ c.read # site.secret

\* UPDATE Application, which may be refused, and UPDATE OAuth2Client, which may find no row.
WriteClient(e) ==
  LET c == call[e] IN
  /\ c.pc = "write"
  /\ \/ /\ call' = [call EXCEPT ![e] = Settled(c, "read back")]
        /\ IF site.client
             THEN /\ site' = [site EXCEPT !.secret = Stores(c)]
                  /\ secrets' = [secrets EXCEPT !.retired =
                       (IF Replaces(c) THEN @ \cup {site.secret} ELSE @) \ {0, c.new}]
             ELSE /\ secrets' = [secrets EXCEPT !.retired = @ \cup ({c.plain} \ {0})]
                  /\ UNCHANGED site
     \/ Step(e, "no") /\ UNCHANGED <<site, secrets>>
  /\ UNCHANGED <<minted, form>>

\* The client as the answer describes it; if it was removed, the answer is an error.
ReadBack(e) ==
  /\ call[e].pc = "read back"
  /\ \/ site.client /\ Step(e, "ok") /\ UNCHANGED secrets
     \/ ~site.client /\ Step(e, "no") /\ secrets' = Loses(call[e].plain)
  /\ UNCHANGED <<site, minted, form>>

\* The process dies.
Dies(e) ==
  /\ call[e].pc \in ServerPCs
  /\ call' = [call EXCEPT ![e] = IdleCall]
  /\ secrets' = Loses(call[e].plain)
  /\ UNCHANGED <<site, minted, form>>

\* Mutant: OAuth2Client does not reference Application.
WithoutRowOf(s) == [s EXCEPT !.app = FALSE]

WithoutApplication(s) == [app |-> FALSE, client |-> FALSE, secret |-> 0]

\* DELETE /api/applications/[id]/oauth: an application with features loses the client, one
\* without is removed, as by DELETE /api/applications/[id].  Features are not kept here: the
\* count before this statement may have found any number.
Erase ==
  /\ site.app
  /\ site' \in {[site EXCEPT !.client = FALSE, !.secret = 0], WithoutApplication(site)}
  /\ secrets' = [secrets EXCEPT !.retired = @ \cup ({site.secret} \ {0})]
  /\ UNCHANGED <<minted, form, call>>

-----------------------------------------------------------------------------
(* The answer. *)

\* PUT: a new secret is shown and its fields cleared; otherwise the page is refreshed.
Edited(e) ==
  LET c == call[e]
      f == form[e] IN
  /\ c.pc = "ok" /\ c.op = "PUT"
  /\ call' = [call EXCEPT ![e] = IdleCall]
  /\ IF ~c.here THEN UNCHANGED form /\ secrets' = Loses(c.plain)
     ELSE /\ form' = [form EXCEPT ![e] = IF c.plain # 0
                        THEN [f EXCEPT !.banner = c.plain, !.typed = 0]
                        ELSE Renders(f)]
          /\ secrets' = Saw(form'[e].banner)
  /\ UNCHANGED <<site, minted>>

\* POST: the secret goes to sessionStorage, over another one, and the page is replaced by
\* itself; also if it was left meanwhile.
Created(e) ==
  LET c == call[e] IN
  /\ c.pc = "ok" /\ c.op = "POST"
  /\ call' = [call EXCEPT ![e].pc = "replace"]
  /\ form' = [form EXCEPT ![e].kept = IF c.plain # 0 THEN c.plain ELSE @]
  /\ secrets' = IF c.plain # 0 THEN Loses(form[e].kept) ELSE secrets
  /\ UNCHANGED <<site, minted>>

\* The page that was not left keeps its fields: only its mode and its row are new.
Replaced(e) ==
  /\ call[e].pc = "replace"
  /\ call' = [call EXCEPT ![e] = IdleCall]
  /\ form' = [form EXCEPT ![e] = Renders(form[e])]
  /\ secrets' = Saw(form'[e].banner)
  /\ UNCHANGED <<site, minted>>

\* A refusal, or the answer is lost: the form stays as it is.
NoAnswer(e) ==
  /\ call[e].pc \in {"ok", "no"}
  /\ call' = [call EXCEPT ![e] = IdleCall]
  /\ secrets' = IF call[e].pc = "ok" THEN Loses(call[e].plain) ELSE secrets
  /\ UNCHANGED <<site, minted, form>>

-----------------------------------------------------------------------------

FormStep(e) ==
  \/ Visit(e) \/ GoAway(e) \/ VisitOther(e) \/ DismissSecret(e)
  \/ \E confidential, regenerate \in BOOLEAN, typed \in 0..(minted + 1) :
       Save(e, confidential, typed, regenerate)

RouteStep(e) ==
  \/ Look(e) \/ InsertClient(e) \/ RenameAfterInsert(e)
  \/ ReadHash(e) \/ WriteClient(e) \/ ReadBack(e) \/ Dies(e)

AnswerStep(e) == Edited(e) \/ Created(e) \/ Replaced(e) \/ NoAnswer(e)

ClientNext ==
  \/ \E e \in Editors : FormStep(e) \/ RouteStep(e) \/ AnswerStep(e)
  \/ Erase

ClientSpec == ClientInit /\ [][ClientNext]_clientVars

-----------------------------------------------------------------------------
(* Properties. *)

\* Types, and the rows that hang on the application go with it.
ClientTypeOK ==
  /\ site \in Sites /\ minted \in Nat /\ secrets \in Histories
  /\ form \in [Editors -> Forms] /\ call \in [Editors -> Calls]
  /\ site.client => site.app
  /\ site.secret # 0 => site.client

\* The secret on a screen is the one the client has, however requests of several editors
\* overlap; unless it was replaced or removed since, an edit under way since before it was
\* stored wrote the older hash back (client-admin.ts:300, :334), or its client was removed
\* before the UPDATE and set up again before the answer was read (:370).
ShownSecretWorks ==
  \A e \in Editors :
    form[e].banner # 0 => site.secret = form[e].banner \/ form[e].banner \in secrets.retired

\* The request still carries its secret to the browser, if only to lose it there.
Carries(e, s) == call[e].plain = s /\ call[e].pc \in ServerPCs \cup {"ok"}

\* The secret of a client was on a screen, or is on its way to one; unless its answer was
\* lost, found no page, or was the refusal of a name after the client had been inserted
\* (client-admin.ts:220-225), or another application's form was opened before this one showed
\* the secret (application-idp-form-page.tsx:124).
SecretReachesScreen ==
  site.secret # 0 =>
    \/ site.secret \in secrets.known
    \/ \E e \in Editors : form[e].kept = site.secret \/ Carries(e, site.secret)
=============================================================================
