------------------------------ MODULE ListPage ------------------------------
(***************************************************************************)
(* A management page of the console: users, roles, permissions, features   *)
(* or applications.  The five have one shape: a search field whose every   *)
(* change fetches the list, a table, a dialog that creates or edits a row, *)
(* and a question before a row is deleted; a change that was stored        *)
(* fetches the list again.                                                 *)
(*                                                                         *)
(* A fetch may ask for several lists: the permissions page shows its       *)
(* features and applications too, the features page its applications.  It  *)
(* waits until all have answered, then reads and shows one after the       *)
(* other, with an await before each, so that two fetches may mix.  Fetches *)
(* are neither cancelled nor numbered by the page: the answers may come in *)
(* any order, and each one is shown.  A handler keeps the search of the    *)
(* moment of its click (the closure), also for the fetch at its end.       *)
(*                                                                         *)
(* The tables of the server are one version number, raised by every        *)
(* change; what the rows contain is left out.  So are the lists that the   *)
(* users and the roles page fetch once, for the choices in their dialogs.  *)
(***************************************************************************)
EXTENDS Naturals

CONSTANTS
  Terms,    \* what may be typed into the search field
  NoTerm,   \* the empty search
  NoRow

ASSUME TermAssumption == NoTerm \in Terms

PageNames == {"users", "roles", "permissions", "features", "applications"}
Operations == {"create", "update", "delete"}

\* Rows that the pages treat differently.
RowKinds == {"owner", "plain"}

ASSUME NoRowAssumption == NoRow \notin RowKinds

VARIABLES
  page,      \* which page it is
  access,    \* the session's claims about this page, and whether permissions are enforced
  table,     \* the version of the tables on the server
  search,    \* the search field
  flight,    \* the fetches without an answer
  sent,      \* the number of fetches so far
  rows,      \* each list on the screen, with the fetch it came from
  loading,
  dialog,    \* the open form: None, "create" or "update"
  saving, save,     \* the flag, and the request with what the server made of it
  confirm,   \* deleteId: the row the open question is about
  removing, removal,
  own,       \* history: the version that the last acknowledged change of this page made
  overlapped \* history: another fetch was under way when the last one was sent

pageVars == <<page, access, table, search, flight, sent, rows, loading, dialog, saving, save,
              confirm, removing, removal, own, overlapped>>

Origins == {"page", "change"}

\* The lists of the page, in the order in which they are shown; the first is the one searched.
Last == CASE page = "permissions" -> 3 [] page = "features" -> 2 [] OTHER -> 1
Lists == 1..Last

\* `next` is the list to be shown next.  The server read the lists between the versions `from`,
\* when the fetch was sent, and `to`, when the first one was shown: they had all answered then.
Fetches == [n: Nat, search: Terms, origin: Origins, from: Nat, to: Nat, next: Lists]

\* A list on the screen; `read` is the version of the tables it was read at.
Shown == [n: Nat, search: Terms, origin: Origins, read: Nat]
NothingShown == [n |-> 0, search |-> NoTerm, origin |-> "page", read |-> 0]

\* The request of a save or of a removal: `search` is the closure's.
Phases == {"none", "sent", "done", "refused"}
Requested == [phase: Phases, search: Terms, version: Nat]
NoRequest == [phase |-> "none", search |-> NoTerm, version |-> 0]
Sending(term) == [phase |-> "sent", search |-> term, version |-> 0]

(***************************************************************************)
(* What the session lets this page offer; the server asks again.           *)
(***************************************************************************)
Can(op) == access.tenant /\ (access.enforce => op \in access.codes)
Offered(op) == Can(op) /\ (page = "users" => access.manager)

PageInit ==
  /\ page \in PageNames
  /\ access \in [tenant: BOOLEAN, enforce: BOOLEAN, manager: BOOLEAN,
                 codes: SUBSET Operations]
  /\ table = 1
  /\ search = NoTerm
  /\ sent = 1
  /\ flight = {[n |-> 1, search |-> NoTerm, origin |-> "page", from |-> 1, to |-> 1,
                next |-> 1]}
  /\ rows = [k \in Lists |-> NothingShown]
  /\ loading = TRUE
  /\ dialog = "closed"
  /\ saving = FALSE /\ save = NoRequest
  /\ confirm = NoRow
  /\ removing = FALSE /\ removal = NoRequest
  /\ own = 0 /\ overlapped = FALSE

formVars == <<dialog, saving, save>>
deleteVars == <<confirm, removing, removal>>
fixed == <<page, access>>

\* Nothing else can be clicked behind an open dialog or question.
Unblocked == dialog = "closed" /\ confirm = NoRow

-----------------------------------------------------------------------------
(* The list. *)

SendFetch(term, origin) ==
  /\ sent' = sent + 1
  /\ flight' = flight \cup
       {[n |-> sent + 1, search |-> term, origin |-> origin, from |-> table, to |-> table,
         next |-> 1]}
  /\ loading' = TRUE
  /\ overlapped' = (flight # {})

NoFetch == UNCHANGED <<sent, flight, loading, overlapped>>

\* Mutant: the list is fetched by the button only.
NoEffect(term) == NoFetch

\* The effect: the callback depends on the search.
EffectOf(term) == SendFetch(term, "page")

SetSearch(term) ==
  /\ Unblocked /\ term # search
  /\ search' = term
  /\ EffectOf(term)
  /\ UNCHANGED <<fixed, table, rows, formVars, deleteVars, own>>

\* The search button; a change of language runs the effect too.
PressSearch ==
  /\ Unblocked
  /\ SendFetch(search, "page")
  /\ UNCHANGED <<fixed, table, search, rows, formVars, deleteVars, own>>

\* Until the first list is shown the answers may still be on their way.
ReadBy(f) == IF f.next = 1 THEN table ELSE f.to

\* The next list of the fetch is read from its answer and shown, whatever else was asked for
\* or shown since.
Show(f) ==
  \E v \in f.from..ReadBy(f) :
    rows' = [rows EXCEPT ![f.next] =
               [n |-> f.n, search |-> f.search, origin |-> f.origin, read |-> v]]

ShowList ==
  /\ \E f \in flight :
       /\ f.next # Last
       /\ Show(f)
       /\ flight' = (flight \ {f}) \cup {[f EXCEPT !.next = @ + 1, !.to = ReadBy(f)]}
  /\ UNCHANGED <<fixed, table, search, sent, loading, formVars, deleteVars, own, overlapped>>

\* The last list, and `finally`.
ShowLast ==
  /\ \E f \in flight : f.next = Last /\ Show(f) /\ flight' = flight \ {f}
  /\ loading' = FALSE
  /\ UNCHANGED <<fixed, table, search, sent, formVars, deleteVars, own, overlapped>>

\* A refusal or the connection, before any list is shown; or the body of the next one: those
\* shown already stay.
FetchFails ==
  /\ \E f \in flight : flight' = flight \ {f}
  /\ loading' = FALSE
  /\ UNCHANGED <<fixed, table, search, sent, rows, formVars, deleteVars, own, overlapped>>

\* Somebody else's change.
OtherChange ==
  /\ table' = table + 1
  /\ UNCHANGED <<fixed, search, flight, sent, rows, loading, formVars, deleteVars, own, overlapped>>

-----------------------------------------------------------------------------
(* The dialog. *)

OpenCreate ==
  /\ Offered("create") /\ Unblocked
  /\ dialog' = "create"
  /\ UNCHANGED <<fixed, table, search, flight, sent, rows, loading, saving, save, deleteVars,
                 own, overlapped>>

\* A fetch has ended since the last one started, and its rows are there; the permissions page
\* groups them by all three lists.
RowsVisible ==
  ~loading /\ \A k \in Lists : k = 1 \/ page = "permissions" => rows[k].n # 0

OpenEdit ==
  /\ Offered("update") /\ RowsVisible /\ Unblocked
  /\ dialog' = "update"
  /\ UNCHANGED <<fixed, table, search, flight, sent, rows, loading, saving, save, deleteVars,
                 own, overlapped>>

\* Escape closes it even while it is saving; only the Cancel button is off then.
CloseDialog ==
  /\ dialog # "closed"
  /\ dialog' = "closed"
  /\ UNCHANGED <<fixed, table, search, flight, sent, rows, loading, saving, save, deleteVars,
                 own, overlapped>>

Submit ==
  /\ dialog # "closed" /\ Offered(dialog) /\ ~saving
  /\ saving' = TRUE
  /\ save' = Sending(search)
  /\ UNCHANGED <<fixed, table, search, flight, sent, rows, loading, dialog, deleteVars, own,
                 overlapped>>

\* The server stores the change, or refuses it.
Stored(request) ==
  [phase |-> "done", search |-> request.search, version |-> table + 1]

ServeSave ==
  /\ save.phase = "sent"
  /\ \/ save' = Stored(save) /\ table' = table + 1
     \/ save' = [save EXCEPT !.phase = "refused"] /\ UNCHANGED table
  /\ UNCHANGED <<fixed, search, flight, sent, rows, loading, dialog, saving, deleteVars, own,
                 overlapped>>

\* Mutant: the new row is not fetched.
NoRefetch(request) == NoFetch

RefetchAfter(request) == SendFetch(request.search, "change")

\* History: the later of the acknowledged changes.
Latest(request) == IF request.version > own THEN request.version ELSE own

\* Whatever dialog is open by now is closed.
SaveAnswered ==
  /\ save.phase = "done"
  /\ dialog' = "closed"
  /\ RefetchAfter(save)
  /\ own' = Latest(save)
  /\ saving' = FALSE /\ save' = NoRequest
  /\ UNCHANGED <<fixed, table, search, rows, deleteVars>>

\* Mutant: the flag is reset after a success only.
StillBusy(busy) == busy

\* `finally`
NotBusy(busy) == FALSE

\* Refused, or the answer is lost: the change may have been made all the same.
SaveFailed ==
  /\ save.phase # "none"
  /\ saving' = NotBusy(saving) /\ save' = NoRequest
  /\ UNCHANGED <<fixed, table, search, flight, sent, rows, loading, dialog, deleteVars, own,
                 overlapped>>

-----------------------------------------------------------------------------
(* The question before a deletion. *)

AskDelete(row) ==
  /\ Offered("delete") /\ RowsVisible /\ Unblocked
  /\ page = "users" => row # "owner"
  /\ confirm' = row
  /\ UNCHANGED <<fixed, table, search, flight, sent, rows, loading, formVars, removing, removal,
                 own, overlapped>>

CancelDelete ==
  /\ confirm # NoRow
  /\ confirm' = NoRow
  /\ UNCHANGED <<fixed, table, search, flight, sent, rows, loading, formVars, removing, removal,
                 own, overlapped>>

\* The button of the question closes it at once, before there is an answer.
ConfirmDelete ==
  /\ confirm # NoRow /\ Offered("delete") /\ ~removing
  /\ confirm' = NoRow
  /\ removing' = TRUE
  /\ removal' = Sending(search)
  /\ UNCHANGED <<fixed, table, search, flight, sent, rows, loading, formVars, own, overlapped>>

ServeRemoval ==
  /\ removal.phase = "sent"
  /\ \/ removal' = Stored(removal) /\ table' = table + 1
     \/ removal' = [removal EXCEPT !.phase = "refused"] /\ UNCHANGED table
  /\ UNCHANGED <<fixed, search, flight, sent, rows, loading, formVars, confirm, removing, own,
                 overlapped>>

\* A question that was asked meanwhile is closed with the flag.
RemovalAnswered ==
  /\ removal.phase = "done"
  /\ RefetchAfter(removal)
  /\ own' = Latest(removal)
  /\ removing' = FALSE /\ removal' = NoRequest /\ confirm' = NoRow
  /\ UNCHANGED <<fixed, table, search, rows, formVars>>

RemovalFailed ==
  /\ removal.phase # "none"
  /\ removing' = NotBusy(removing) /\ removal' = NoRequest /\ confirm' = NoRow
  /\ UNCHANGED <<fixed, table, search, flight, sent, rows, loading, formVars, own, overlapped>>

-----------------------------------------------------------------------------

User ==
  \/ \E term \in Terms : SetSearch(term)
  \/ PressSearch \/ OpenCreate \/ OpenEdit \/ CloseDialog \/ Submit
  \/ \E row \in RowKinds : AskDelete(row)
  \/ CancelDelete \/ ConfirmDelete

\* What the browser brings to an end: every fetch shows its last list or fails.
FetchEnds == ShowLast \/ FetchFails
SaveEnds == SaveAnswered \/ SaveFailed
RemovalEnds == RemovalAnswered \/ RemovalFailed

PageNext ==
  \/ User \/ OtherChange
  \/ ServeSave \/ ServeRemoval
  \/ ShowList \/ FetchEnds \/ SaveEnds \/ RemovalEnds

\* The promise of a fetch settles, and the handler's `finally` runs then.
PageFairness ==
  /\ WF_pageVars(FetchEnds) /\ WF_pageVars(SaveEnds) /\ WF_pageVars(RemovalEnds)

PageSpec == PageInit /\ [][PageNext]_pageVars /\ PageFairness

-----------------------------------------------------------------------------
(* Properties. *)

\* Types; the buttons are off just while their handler runs, and the loading line stands only
\* while a fetch is under way.
PageTypeOK ==
  /\ saving <=> save.phase # "none"
  /\ removing <=> removal.phase # "none"
  /\ loading => flight # {}
  /\ page \in PageNames
  /\ access \in [tenant: BOOLEAN, enforce: BOOLEAN, manager: BOOLEAN,
                 codes: SUBSET Operations]
  /\ table \in Nat /\ search \in Terms
  /\ flight \subseteq Fetches /\ sent \in Nat /\ rows \in [Lists -> Shown] /\ loading \in BOOLEAN
  /\ dialog \in {"closed", "create", "update"} /\ saving \in BOOLEAN /\ save \in Requested
  /\ confirm \in RowKinds \cup {NoRow} /\ removing \in BOOLEAN /\ removal \in Requested
  /\ own \in Nat /\ overlapped \in BOOLEAN

\* Once the last fetch has shown the list that is searched, and no older one came after it, the
\* list is that of the search field; except that a save or a deletion begun under another search
\* puts the rows of that search back, through the fetch of its closure (users/page.tsx:143, :159).
ListShowsSearch ==
  rows[1].n = sent /\ rows[1].origin = "page" => rows[1].search = search

\* Once the last fetch has come to its end, the user's own acknowledged changes are in every list
\* of the page; except in one that an older fetch has put back since, which was under way when
\* the last one was sent (permissions/page.tsx:82-84, features/page.tsx:71-72).
OwnChangeShown ==
  rows[Last].n = sent =>
    \A k \in Lists : rows[k].read >= own \/ (overlapped /\ rows[k].n < sent)

\* The page never hangs: the loading line gives way, and the buttons of the dialog and of
\* the question come back, because each handler resets its flag in `finally`.
ListSettles ==
  (loading ~> ~loading) /\ (saving ~> ~saving) /\ (removing ~> ~removing)
=============================================================================
