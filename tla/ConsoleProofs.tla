---------------------------- MODULE ConsoleProofs ----------------------------
(***************************************************************************)
(* Proofs about the console's pages in the browser. ListPage: types, what  *)
(* the table shows once the fetches have ended, and that the user's own    *)
(* change is in it. ProfileSecurity: which buttons are off, that backup    *)
(* codes come on the screen, that a setup shown is still there, and what   *)
(* the banner knows.                                                       *)
(***************************************************************************)
EXTENDS ListPage, ProfileSecurity, TLAPS

(***************************************************************************)
(* The inductive invariant.  Fetches are numbered, and the latest one was  *)
(* sent for the search in the field, unless a change sent it, and not      *)
(* before the user's last acknowledged change.  If no other was under way  *)
(* when it was sent, every list that it has shown is still there.          *)
(***************************************************************************)

\* No number, and no version, is ahead of the counters.
Counted ==
  /\ \A f \in flight : f.n <= sent
  /\ \A k \in Lists : rows[k].n <= sent
  /\ own <= table /\ save.version <= table /\ removal.version <= table

LatestSearch ==
  /\ \A f \in flight : f.n = sent /\ f.origin = "page" => f.search = search
  /\ rows[1].n = sent /\ rows[1].origin = "page" => rows[1].search = search

LatestSinceOwn ==
  /\ \A f \in flight : f.n = sent => own <= f.from
  /\ \A k \in Lists : rows[k].n = sent => own <= rows[k].read

Unmixed ==
  ~overlapped =>
    /\ \A f \in flight : f.n = sent /\ \A k \in Lists : k < f.next => rows[k].n = sent
    /\ rows[Last].n = sent => \A k \in Lists : rows[k].n = sent

PageInv == PageTypeOK /\ Counted /\ LatestSearch /\ LatestSinceOwn /\ Unmixed

-----------------------------------------------------------------------------
(* What is shared by several actions. *)

\* A page has one to three lists, and stays the page that it is.
LEMMA SomeLists == Last \in 1..3 /\ 1 \in Lists /\ Last \in Lists
<1>1. Last \in {1, 2, 3} BY DEF Last
<1> QED BY <1>1 DEF Lists

LEMMA SamePage ==
  ASSUME page' = page
  PROVE  Last' = Last /\ Lists' = Lists /\ Fetches' = Fetches
BY DEF Last, Lists, Fetches

\* The tables grow, and nothing else that the lists depend on changes.
Aside ==
  /\ UNCHANGED <<page, search, flight, sent, rows, own, overlapped>>
  /\ table' \in Nat /\ table <= table'

LEMMA AsideKeeps ==
  ASSUME PageInv, Aside,
         save'.version <= table', removal'.version <= table'
  PROVE  Counted' /\ LatestSearch' /\ LatestSinceOwn' /\ Unmixed'
<1>1. Last' = Last /\ Lists' = Lists BY SamePage DEF Aside
<1>2. table \in Nat /\ own \in Nat BY DEF PageInv, PageTypeOK
<1>3. Counted' BY <1>1, <1>2 DEF PageInv, Counted, Aside
<1>4. LatestSearch' BY DEF PageInv, LatestSearch, Aside
<1>5. LatestSinceOwn' BY <1>1 DEF PageInv, LatestSinceOwn, Aside
<1>6. Unmixed' BY <1>1 DEF PageInv, Unmixed, Aside
<1> QED BY <1>3, <1>4, <1>5, <1>6

\* A fetch is sent: it is the latest now, and older ones do not matter any more.
LEMMA Sent ==
  ASSUME PageInv, NEW term \in Terms, NEW origin \in Origins, SendFetch(term, origin),
         UNCHANGED <<page, table, rows>>,
         origin = "page" => term = search',
         own' \in Nat, own' <= table,
         save'.version <= table, removal'.version <= table
  PROVE  /\ Counted' /\ LatestSearch' /\ LatestSinceOwn' /\ Unmixed'
         /\ flight' \subseteq Fetches' /\ sent' \in Nat /\ flight' # {} /\ loading' \in BOOLEAN
         /\ overlapped' \in BOOLEAN
<1> DEFINE new == [n |-> sent + 1, search |-> term, origin |-> origin, from |-> table,
                   to |-> table, next |-> 1]
<1>0. Last' = Last /\ Lists' = Lists /\ Fetches' = Fetches BY SamePage
<1>1. /\ flight' = flight \cup {new} /\ sent' = sent + 1 /\ loading' = TRUE
      /\ overlapped' = (flight # {})
  BY DEF SendFetch
<1>2. /\ sent \in Nat /\ table \in Nat
      /\ \A k \in Lists : rows[k].n \in Nat
  BY DEF PageInv, PageTypeOK, Shown
<1>3. new \in Fetches BY <1>2, SomeLists DEF Fetches
<1>4. /\ new.n = sent + 1 /\ new.search = term /\ new.origin = origin /\ new.from = table
      /\ new.next = 1
  OBVIOUS
<1> HIDE DEF new
<1>5. \A f \in flight : f \in Fetches /\ f.n \in Nat /\ f.n <= sent
  BY DEF PageInv, PageTypeOK, Counted, Fetches
<1>6. \A k \in Lists : rows[k].n <= sent BY DEF PageInv, Counted
<1>7. Counted' BY <1>0, <1>1, <1>2, <1>4, <1>5, <1>6 DEF Counted
<1>8. \A f \in flight' : f.n = sent' => f = new BY <1>1, <1>2, <1>5
<1>9. \A k \in Lists : rows'[k].n # sent' BY <1>1, <1>2, <1>6
<1>10. LatestSearch' BY <1>4, <1>8, <1>9, SomeLists DEF LatestSearch
<1>11. LatestSinceOwn' BY <1>0, <1>2, <1>4, <1>8, <1>9 DEF LatestSinceOwn
<1>12. Unmixed'
  <2>1. ASSUME ~overlapped' PROVE flight' = {new} BY <1>1, <2>1
  <2>2. \A k \in Lists : ~(k < new.next) BY <1>4 DEF Lists
  <2> QED BY <1>0, <1>1, <1>4, <1>9, <2>1, <2>2, SomeLists DEF Unmixed
<1>13. flight' \subseteq Fetches' BY <1>0, <1>1, <1>3, <1>5
<1> QED BY <1>1, <1>2, <1>7, <1>10, <1>11, <1>12, <1>13

\* A list of fetch f is shown: what it is, and what stays.
LEMMA ListShown ==
  ASSUME PageInv, NEW f \in flight, Show(f)
  PROVE  /\ rows' \in [Lists -> Shown]
         /\ rows'[f.next].n = f.n /\ rows'[f.next].search = f.search
         /\ rows'[f.next].origin = f.origin /\ f.from <= rows'[f.next].read
         /\ \A k \in Lists : k # f.next => rows'[k] = rows[k]
<1> USE DEF PageInv
<1>1. f \in Fetches /\ table \in Nat /\ rows \in [Lists -> Shown] BY DEF PageTypeOK
<1>2. /\ f.n \in Nat /\ f.search \in Terms /\ f.origin \in Origins /\ f.from \in Nat
      /\ f.to \in Nat /\ f.next \in Lists
  BY <1>1 DEF Fetches
<1>3. ReadBy(f) \in Nat BY <1>1, <1>2 DEF ReadBy
<1>4. PICK v \in f.from..ReadBy(f) :
        rows' = [rows EXCEPT ![f.next] =
                   [n |-> f.n, search |-> f.search, origin |-> f.origin, read |-> v]]
  BY DEF Show
<1>5. v \in Nat /\ f.from <= v BY <1>2, <1>3
<1>6. [n |-> f.n, search |-> f.search, origin |-> f.origin, read |-> v] \in Shown
  BY <1>2, <1>5 DEF Shown
<1> QED BY <1>1, <1>2, <1>4, <1>5, <1>6

\* A fetch goes on to its next list, or ends; perhaps one of its lists is shown.
LEMMA Fetched ==
  ASSUME PageInv, ShowList \/ FetchEnds
  PROVE  PageInv'
<1> USE DEF PageInv
<1> DEFINE Went(f) == [f EXCEPT !.next = @ + 1, !.to = ReadBy(f)]
           Goes(f) == /\ f.next # Last /\ Show(f)
                      /\ flight' = (flight \ {f}) \cup {Went(f)}
                      /\ loading' = loading
           Ends(f) == f.next = Last /\ Show(f) /\ flight' = flight \ {f} /\ loading' = FALSE
           Fails(f) == rows' = rows /\ flight' = flight \ {f} /\ loading' = FALSE
<1>0. (ShowList => \E f \in flight : Goes(f)) /\ (ShowLast => \E f \in flight : Ends(f))
      /\ (FetchFails => \E f \in flight : Fails(f))
  BY ZenonT(20) DEF ShowList, ShowLast, FetchFails
<1>2. UNCHANGED <<fixed, table, search, sent, formVars, deleteVars, own, overlapped>>
  BY ZenonT(20) DEF ShowList, ShowLast, FetchEnds, FetchFails
<1> HIDE DEF Went, Goes, Ends, Fails
<1>1. PICK f \in flight : Goes(f) \/ Ends(f) \/ Fails(f) BY <1>0 DEF FetchEnds
<1>3. Last' = Last /\ Lists' = Lists /\ Fetches' = Fetches BY <1>2, SamePage DEF fixed
<1>4. /\ f \in Fetches /\ table \in Nat /\ own \in Nat /\ sent \in Nat
      /\ rows \in [Lists -> Shown]
  BY DEF PageTypeOK
<1>5. /\ f.n \in Nat /\ f.search \in Terms /\ f.origin \in Origins /\ f.from \in Nat
      /\ f.to \in Nat /\ f.next \in Lists
  BY <1>4 DEF Fetches
<1> DEFINE went == Went(f)
<1>6. /\ went.n = f.n /\ went.search = f.search /\ went.origin = f.origin
      /\ went.from = f.from /\ went.next = f.next + 1
      /\ f.next # Last => went \in Fetches
  <2>1. ReadBy(f) \in Nat BY <1>4, <1>5 DEF ReadBy
  <2>2. f.next # Last => f.next + 1 \in Lists BY <1>5, SomeLists DEF Lists
  <2>3. went = [n |-> f.n, search |-> f.search, origin |-> f.origin, from |-> f.from,
                to |-> ReadBy(f), next |-> f.next + 1]
    <3>1. went = [f EXCEPT !.next = f.next + 1, !.to = ReadBy(f)] BY DEF Went
    <3> QED BY <1>4, <3>1 DEF Fetches
  <2> QED BY <1>5, <2>1, <2>2, <2>3 DEF Fetches
<1> HIDE DEF went
<1>7. \/ rows' = rows
      \/ /\ rows' \in [Lists -> Shown]
         /\ rows'[f.next].n = f.n /\ rows'[f.next].search = f.search
         /\ rows'[f.next].origin = f.origin /\ f.from <= rows'[f.next].read
         /\ \A k \in Lists : k # f.next => rows'[k] = rows[k]
  BY <1>1, ListShown DEF Goes, Ends, Fails
<1>8. \A g \in flight' : g \in flight \/ (g = went /\ f.next # Last)
  BY <1>1 DEF went, Goes, Ends, Fails
<1>9. PageTypeOK'
  <2>1. flight' \subseteq Fetches BY <1>6, <1>8 DEF PageTypeOK
  <2>2. rows' \in [Lists -> Shown] /\ loading' \in BOOLEAN
    BY <1>1, <1>4, <1>7 DEF PageTypeOK, Goes, Ends, Fails
  <2>3. loading' => flight' # {} BY <1>1 DEF Goes, Ends, Fails
  <2> QED BY <1>2, <1>3, <2>1, <2>2, <2>3 DEF PageTypeOK, fixed, formVars, deleteVars
<1>10. \A k \in Lists : rows[k].n \in Nat /\ rows'[k].n \in Nat /\ rows'[k].read \in Nat
  BY <1>3, <1>4, <1>9 DEF PageTypeOK, Shown
<1>11. Counted' BY <1>2, <1>3, <1>5, <1>6, <1>7, <1>8 DEF Counted, formVars, deleteVars
<1>12. LatestSearch' BY <1>2, <1>5, <1>6, <1>7, <1>8, SomeLists DEF LatestSearch
<1>13. LatestSinceOwn'
  <2>1. \A g \in flight' : g.n = sent' => own' <= g.from BY <1>2, <1>6, <1>8 DEF LatestSinceOwn
  <2>2. ASSUME NEW k \in Lists, rows'[k].n = sent' PROVE own' <= rows'[k].read
    <3>1. CASE rows'[k] = rows[k] BY <1>2, <2>2, <3>1 DEF LatestSinceOwn
    <3>2. CASE k = f.next /\ rows'[k].n = f.n /\ f.from <= rows'[k].read
      <4>1. own <= f.from BY <1>2, <2>2, <3>2 DEF LatestSinceOwn
      <4> QED BY <1>2, <1>4, <1>5, <1>10, <3>2, <4>1
    <3> QED BY <1>7, <3>1, <3>2
  <2> QED BY <1>3, <2>1, <2>2 DEF LatestSinceOwn
<1>14. Unmixed'
  <2> SUFFICES ASSUME ~overlapped
               PROVE  /\ \A g \in flight' :
                           g.n = sent /\ \A k \in Lists : k < g.next => rows'[k].n = sent
                      /\ rows'[Last].n = sent => \A k \in Lists : rows'[k].n = sent
    BY <1>2, <1>3 DEF Unmixed
  <2>1. /\ \A g \in flight : g.n = sent /\ \A k \in Lists : k < g.next => rows[k].n = sent
        /\ rows[Last].n = sent => \A k \in Lists : rows[k].n = sent
    BY DEF Unmixed
  <2>2. f.n = sent BY <2>1
  <2>3. \A k \in Lists : rows[k].n = sent => rows'[k].n = sent BY <1>7, <2>2
  <2>4. \A g \in flight' : g.n = sent BY <1>6, <1>8, <2>1
  <2>5. ASSUME NEW g \in flight', NEW k \in Lists, k < g.next PROVE rows'[k].n = sent
    <3>1. CASE g \in flight BY <2>1, <2>3, <2>5, <3>1
    <3>2. CASE g = went /\ f.next # Last
      <4>1. k < f.next \/ k = f.next BY <1>5, <1>6, <2>5, <3>2 DEF Lists
      <4>2. CASE k < f.next BY <2>1, <2>3, <4>2
      <4>3. CASE k = f.next /\ g \notin flight
        <5>1. rows'[f.next].n = f.n BY <1>1, <3>2, <4>3, ListShown DEF Goes, Ends, Fails
        <5> QED BY <2>2, <4>3, <5>1
      <4> QED BY <3>1, <4>1, <4>2, <4>3
    <3> QED BY <1>8, <3>1, <3>2
  <2>6. ASSUME rows'[Last].n = sent, NEW k \in Lists PROVE rows'[k].n = sent
    <3>1. CASE rows[Last].n = sent BY <2>1, <2>3, <3>1
    <3>2. CASE rows[Last].n # sent
      <4>1. f.next = Last BY <1>7, <2>6, <3>2, SomeLists
      <4>2. rows'[Last].n = f.n /\ (k = Last \/ k < Last) BY <2>2, <2>6, SomeLists DEF Lists
      <4> QED BY <2>1, <2>3, <2>6, <4>1, <4>2
    <3> QED BY <3>1, <3>2
  <2> QED BY <2>4, <2>5, <2>6
<1> QED BY <1>9, <1>11, <1>12, <1>13, <1>14

\* The records of a request that starts, was stored or was refused.
LEMMA NothingRequested ==
  NoRequest \in Requested /\ NoRequest.phase = "none" /\ NoRequest.version = 0
  BY TermAssumption DEF NoRequest, Requested, Phases

LEMMA RequestSent ==
  ASSUME NEW term \in Terms
  PROVE  /\ Sending(term) \in Requested /\ Sending(term).phase = "sent"
         /\ Sending(term).version = 0
  BY DEF Sending, Requested, Phases

LEMMA RequestStored ==
  ASSUME NEW request \in Requested, table \in Nat
  PROVE  /\ Stored(request) \in Requested /\ Stored(request).phase = "done"
         /\ Stored(request).version = table + 1
<1>1. request.search \in Terms BY DEF Requested
<1> QED BY <1>1 DEF Stored, Requested, Phases

LEMMA RequestRefused ==
  ASSUME NEW request \in Requested, NEW r, r = [request EXCEPT !.phase = "refused"]
  PROVE  r \in Requested /\ r.phase = "refused" /\ r.version = request.version
<1>1. r = [phase |-> "refused", search |-> request.search, version |-> request.version]
  BY DEF Requested
<1>2. request.search \in Terms /\ request.version \in Nat BY DEF Requested
<1> QED BY <1>1, <1>2 DEF Requested, Phases

-----------------------------------------------------------------------------
(* One step. *)

\* The user works in the dialogs: nothing is fetched and nothing stored.
LEMMA InDialogs ==
  ASSUME PageInv,
         \/ OpenCreate \/ OpenEdit \/ CloseDialog \/ CancelDelete
         \/ \E row \in RowKinds : AskDelete(row)
  PROVE  PageInv'
<1>1. UNCHANGED <<fixed, table, search, flight, sent, rows, loading, saving, save, removing,
                  removal, own, overlapped>>
  BY DEF OpenCreate, OpenEdit, CloseDialog, CancelDelete, AskDelete, formVars, deleteVars
<1>2. dialog' \in {"closed", "create", "update"} /\ confirm' \in RowKinds \cup {NoRow}
  BY DEF PageInv, PageTypeOK, OpenCreate, OpenEdit, CloseDialog, CancelDelete, AskDelete,
         formVars, deleteVars
<1>3. Last' = Last /\ Lists' = Lists /\ Fetches' = Fetches BY <1>1, SamePage DEF fixed
<1>4. PageTypeOK' BY <1>1, <1>2, <1>3 DEF PageInv, PageTypeOK, fixed
<1>5. Counted' /\ LatestSearch' /\ LatestSinceOwn' /\ Unmixed'
  BY <1>1, <1>3 DEF PageInv, Counted, LatestSearch, LatestSinceOwn, Unmixed
<1> QED BY <1>4, <1>5 DEF PageInv

LEMMA SearchKeeps ==
  ASSUME PageInv, PressSearch \/ \E term \in Terms : SetSearch(term)
  PROVE  PageInv'
<1>1. PICK term \in Terms :
        SendFetch(term, "page") /\ search' = term
  BY DEF PressSearch, SetSearch, EffectOf, PageInv, PageTypeOK
<1>2. UNCHANGED <<fixed, table, rows, formVars, deleteVars, own>>
  BY DEF PressSearch, SetSearch
<1>3. own' \in Nat /\ own' <= table /\ save'.version <= table /\ removal'.version <= table
  BY <1>2 DEF PageInv, PageTypeOK, Counted, formVars, deleteVars
<1>4. /\ Counted' /\ LatestSearch' /\ LatestSinceOwn' /\ Unmixed'
      /\ flight' \subseteq Fetches' /\ sent' \in Nat /\ flight' # {} /\ loading' \in BOOLEAN
      /\ overlapped' \in BOOLEAN
  BY <1>1, <1>2, <1>3, Sent DEF Origins, fixed
<1>5. Lists' = Lists BY <1>2, SamePage DEF fixed
<1>6. PageTypeOK' BY <1>1, <1>2, <1>4, <1>5 DEF PageInv, PageTypeOK, fixed, formVars, deleteVars
<1> QED BY <1>4, <1>6 DEF PageInv

\* The tables change, or a request is on its way: the lists rest.
LEMMA AsideStep ==
  ASSUME PageInv, OtherChange \/ Submit \/ ConfirmDelete \/ ServeSave \/ ServeRemoval
  PROVE  PageInv'
<1> USE DEF PageInv
<1>1. /\ table \in Nat /\ search \in Terms /\ save \in Requested /\ removal \in Requested
      /\ save.version \in Nat /\ removal.version \in Nat
      /\ save.version <= table /\ removal.version <= table
  BY DEF PageTypeOK, Requested, Counted
<1>2. Aside /\ UNCHANGED <<fixed, loading>>
  BY <1>1 DEF OtherChange, Submit, ConfirmDelete, ServeSave, ServeRemoval, Aside, fixed,
              formVars, deleteVars
<1>3. /\ save' \in Requested /\ save'.version <= table'
      /\ saving' <=> save'.phase # "none"
      /\ saving' \in BOOLEAN
  <2>1. CASE Submit
    <3> save' = Sending(search) BY <2>1 DEF Submit
    <3>1. save' \in Requested /\ save'.phase = "sent" /\ save'.version = 0
      BY <1>1, RequestSent
    <3>2. saving' = TRUE /\ table' \in Nat BY <1>2, <2>1 DEF Submit, Aside
    <3>3. save'.version <= table' BY <3>1, <3>2
    <3> QED BY <3>1, <3>2, <3>3
  <2>2. CASE ServeSave
    <3>1. save.phase = "sent" /\ saving' = saving BY <2>2 DEF ServeSave
    <3>2. saving = TRUE BY <3>1 DEF PageTypeOK
    <3>3. \/ save' = Stored(save) /\ table' = table + 1
          \/ save' = [save EXCEPT !.phase = "refused"] /\ table' = table
      BY <2>2 DEF ServeSave
    <3>4. save' \in Requested /\ save'.phase # "none" /\ save'.version <= table'
      <4>1. CASE save' = Stored(save) /\ table' = table + 1
        <5>1. /\ save' \in Requested /\ save'.phase = "done" /\ save'.version = table + 1
          BY <1>1, <4>1, RequestStored
        <5>2. table + 1 <= table' BY <1>1, <4>1
        <5> QED BY <5>1, <5>2
      <4>2. CASE save' = [save EXCEPT !.phase = "refused"] /\ table' = table
        <5>1. /\ save' \in Requested /\ save'.phase = "refused"
              /\ save'.version = save.version
          BY <1>1, <4>2, RequestRefused
        <5>2. save.version <= table' BY <1>1, <4>2
        <5> QED BY <5>1, <5>2
      <4> QED BY <3>3, <4>1, <4>2
    <3> QED BY <3>1, <3>2, <3>4
  <2>3. CASE OtherChange \/ ConfirmDelete \/ ServeRemoval
    <3>1. save' = save /\ saving' = saving
      BY <2>3 DEF OtherChange, ConfirmDelete, ServeRemoval, formVars, deleteVars
    <3>2. table <= table' /\ table' \in Nat BY <1>2 DEF Aside
    <3>3. save'.version <= table' BY <1>1, <3>1, <3>2
    <3>4. saving \in BOOLEAN /\ (saving <=> save.phase # "none") BY DEF PageTypeOK
    <3> QED BY <1>1, <3>1, <3>3, <3>4
  <2> QED BY <2>1, <2>2, <2>3
<1>4. /\ removal' \in Requested /\ removal'.version <= table'
      /\ removing' <=> removal'.phase # "none"
      /\ removing' \in BOOLEAN
  <2>1. CASE ConfirmDelete
    <3> removal' = Sending(search) BY <2>1 DEF ConfirmDelete
    <3>1. removal' \in Requested /\ removal'.phase = "sent" /\ removal'.version = 0
      BY <1>1, RequestSent
    <3>2. removing' = TRUE /\ table' \in Nat BY <1>2, <2>1 DEF ConfirmDelete, Aside
    <3>3. removal'.version <= table' BY <3>1, <3>2
    <3> QED BY <3>1, <3>2, <3>3
  <2>2. CASE ServeRemoval
    <3>1. removal.phase = "sent" /\ removing' = removing BY <2>2 DEF ServeRemoval
    <3>2. removing = TRUE BY <3>1 DEF PageTypeOK
    <3>3. \/ removal' = Stored(removal) /\ table' = table + 1
          \/ removal' = [removal EXCEPT !.phase = "refused"] /\ table' = table
      BY <2>2 DEF ServeRemoval
    <3>4. removal' \in Requested /\ removal'.phase # "none" /\ removal'.version <= table'
      <4>1. CASE removal' = Stored(removal) /\ table' = table + 1
        <5>1. /\ removal' \in Requested /\ removal'.phase = "done" /\ removal'.version = table + 1
          BY <1>1, <4>1, RequestStored
        <5>2. table + 1 <= table' BY <1>1, <4>1
        <5> QED BY <5>1, <5>2
      <4>2. CASE removal' = [removal EXCEPT !.phase = "refused"] /\ table' = table
        <5>1. /\ removal' \in Requested /\ removal'.phase = "refused"
              /\ removal'.version = removal.version
          BY <1>1, <4>2, RequestRefused
        <5>2. removal.version <= table' BY <1>1, <4>2
        <5> QED BY <5>1, <5>2
      <4> QED BY <3>3, <4>1, <4>2
    <3> QED BY <3>1, <3>2, <3>4
  <2>3. CASE OtherChange \/ Submit \/ ServeSave
    <3>1. removal' = removal /\ removing' = removing
      BY <2>3 DEF OtherChange, Submit, ServeSave, formVars, deleteVars
    <3>2. table <= table' /\ table' \in Nat BY <1>2 DEF Aside
    <3>3. removal'.version <= table' BY <1>1, <3>1, <3>2
    <3>4. removing \in BOOLEAN /\ (removing <=> removal.phase # "none") BY DEF PageTypeOK
    <3> QED BY <1>1, <3>1, <3>3, <3>4
  <2> QED BY <2>1, <2>2, <2>3
<1>5. Counted' /\ LatestSearch' /\ LatestSinceOwn' /\ Unmixed'
  BY <1>2, <1>3, <1>4, AsideKeeps
<1>6. dialog' \in {"closed", "create", "update"} /\ confirm' \in RowKinds \cup {NoRow}
  BY DEF PageTypeOK, OtherChange, Submit, ConfirmDelete, ServeSave, ServeRemoval, formVars,
         deleteVars
<1>7. Lists' = Lists /\ Fetches' = Fetches BY <1>2, SamePage DEF Aside
<1>8. PageTypeOK' BY <1>2, <1>3, <1>4, <1>6, <1>7 DEF PageTypeOK, Aside, fixed
<1> QED BY <1>5, <1>8

\* A save or a deletion was stored: the list is fetched again.
LEMMA ChangeAnswered ==
  ASSUME PageInv, SaveAnswered \/ RemovalAnswered
  PROVE  PageInv'
<1> USE DEF PageInv
<1>1. PICK request \in {save, removal} :
        SendFetch(request.search, "change") /\ own' = Latest(request)
  BY DEF SaveAnswered, RemovalAnswered, RefetchAfter
<1>2. /\ request.search \in Terms /\ request.version \in Nat /\ request.version <= table
      /\ own \in Nat /\ own <= table
  BY DEF PageTypeOK, Requested, Counted
<1>3. own' \in Nat /\ own' <= table BY <1>1, <1>2 DEF Latest
<1>4. UNCHANGED <<fixed, table, search, rows>> BY DEF SaveAnswered, RemovalAnswered
<1>5. /\ save' \in {save, NoRequest} /\ removal' \in {removal, NoRequest}
      /\ saving' <=> save'.phase # "none"
      /\ removing' <=> removal'.phase # "none"
      /\ saving' \in BOOLEAN /\ removing' \in BOOLEAN
  <2>1. NoRequest.phase = "none" BY NothingRequested
  <2>2. /\ saving \in BOOLEAN /\ (saving <=> save.phase # "none")
        /\ removing \in BOOLEAN /\ (removing <=> removal.phase # "none")
    BY DEF PageTypeOK
  <2>3. \/ save' = NoRequest /\ saving' = FALSE /\ removal' = removal /\ removing' = removing
        \/ removal' = NoRequest /\ removing' = FALSE /\ save' = save /\ saving' = saving
    BY DEF SaveAnswered, RemovalAnswered, formVars, deleteVars
  <2>4. /\ save' \in {save, NoRequest} /\ removal' \in {removal, NoRequest}
        /\ saving' \in BOOLEAN /\ removing' \in BOOLEAN
    BY <2>2, <2>3
  <2>5. saving' <=> save'.phase # "none"
    <3>1. CASE save' = NoRequest /\ saving' = FALSE BY <2>1, <3>1
    <3>2. CASE save' = save /\ saving' = saving BY <2>2, <3>2
    <3> QED BY <2>3, <3>1, <3>2
  <2>6. removing' <=> removal'.phase # "none"
    <3>1. CASE removal' = NoRequest /\ removing' = FALSE BY <2>1, <3>1
    <3>2. CASE removal' = removal /\ removing' = removing BY <2>2, <3>2
    <3> QED BY <2>3, <3>1, <3>2
  <2> QED BY <2>4, <2>5, <2>6
<1>6. table \in Nat BY DEF PageTypeOK
<1>7. save'.version <= table /\ removal'.version <= table
  BY <1>5, <1>6, NothingRequested DEF Counted
<1>8. /\ Counted' /\ LatestSearch' /\ LatestSinceOwn' /\ Unmixed'
      /\ flight' \subseteq Fetches' /\ sent' \in Nat /\ flight' # {} /\ loading' \in BOOLEAN
      /\ overlapped' \in BOOLEAN
  BY <1>1, <1>2, <1>3, <1>4, <1>7, Sent DEF Origins, fixed
<1>9. dialog' \in {"closed", "create", "update"} /\ confirm' \in RowKinds \cup {NoRow}
  BY DEF PageTypeOK, SaveAnswered, RemovalAnswered, formVars, deleteVars
<1>10. Lists' = Lists BY <1>4, SamePage DEF fixed
<1>11. PageTypeOK'
  BY <1>3, <1>4, <1>5, <1>8, <1>9, <1>10, NothingRequested DEF PageTypeOK, fixed
<1> QED BY <1>8, <1>11

LEMMA ChangeFailed ==
  ASSUME PageInv, SaveFailed \/ RemovalFailed
  PROVE  PageInv'
<1> USE DEF PageInv
<1>1. UNCHANGED <<fixed, table, search, flight, sent, rows, loading, own,
                  overlapped>>
  BY DEF SaveFailed, RemovalFailed
<1>2. /\ save' \in {save, NoRequest} /\ removal' \in {removal, NoRequest}
      /\ saving' <=> save'.phase # "none"
      /\ removing' <=> removal'.phase # "none"
      /\ saving' \in BOOLEAN /\ removing' \in BOOLEAN
  <2>1. NoRequest.phase = "none" BY NothingRequested
  <2>2. /\ saving \in BOOLEAN /\ (saving <=> save.phase # "none")
        /\ removing \in BOOLEAN /\ (removing <=> removal.phase # "none")
    BY DEF PageTypeOK
  <2>3. \/ save' = NoRequest /\ saving' = FALSE /\ removal' = removal /\ removing' = removing
        \/ removal' = NoRequest /\ removing' = FALSE /\ save' = save /\ saving' = saving
    BY DEF SaveFailed, RemovalFailed, NotBusy, formVars, deleteVars
  <2>4. /\ save' \in {save, NoRequest} /\ removal' \in {removal, NoRequest}
        /\ saving' \in BOOLEAN /\ removing' \in BOOLEAN
    BY <2>2, <2>3
  <2>5. saving' <=> save'.phase # "none"
    <3>1. CASE save' = NoRequest /\ saving' = FALSE BY <2>1, <3>1
    <3>2. CASE save' = save /\ saving' = saving BY <2>2, <3>2
    <3> QED BY <2>3, <3>1, <3>2
  <2>6. removing' <=> removal'.phase # "none"
    <3>1. CASE removal' = NoRequest /\ removing' = FALSE BY <2>1, <3>1
    <3>2. CASE removal' = removal /\ removing' = removing BY <2>2, <3>2
    <3> QED BY <2>3, <3>1, <3>2
  <2> QED BY <2>4, <2>5, <2>6
<1>3. dialog' \in {"closed", "create", "update"} /\ confirm' \in RowKinds \cup {NoRow}
  BY DEF PageTypeOK, SaveFailed, RemovalFailed, formVars, deleteVars
<1>4. table \in Nat BY DEF PageTypeOK
<1>5. Aside BY <1>1, <1>4 DEF Aside, fixed
<1>6. Lists' = Lists /\ Fetches' = Fetches BY <1>5, SamePage DEF Aside
<1>7. PageTypeOK' BY <1>1, <1>2, <1>3, <1>6, NothingRequested DEF PageTypeOK, fixed
<1>8. save'.version <= table' /\ removal'.version <= table'
  BY <1>1, <1>2, <1>4, NothingRequested DEF Counted
<1> QED BY <1>5, <1>7, <1>8, AsideKeeps

LEMMA PageStart == PageInit => PageInv
<1> SUFFICES ASSUME PageInit PROVE PageInv OBVIOUS
<1> DEFINE first == [n |-> 1, search |-> NoTerm, origin |-> "page", from |-> 1, to |-> 1,
                     next |-> 1]
<1>1. first \in Fetches /\ NothingShown \in Shown
  BY TermAssumption, SomeLists DEF Fetches, NothingShown, Shown, Origins
<1>2. /\ flight = {first} /\ first.n = 1 /\ first.search = NoTerm /\ first.from = 1
      /\ first.next = 1
  BY DEF PageInit
<1>3. /\ rows \in [Lists -> Shown] /\ loading \in BOOLEAN
      /\ \A k \in Lists : rows[k].n = 0
  BY <1>1 DEF PageInit, NothingShown
<1> HIDE DEF first
<1>4. /\ saving \in BOOLEAN /\ removing \in BOOLEAN
      /\ save \in Requested /\ removal \in Requested
      /\ saving <=> save.phase # "none"
      /\ removing <=> removal.phase # "none"
  BY NothingRequested DEF PageInit
<1>5. PageTypeOK BY <1>1, <1>2, <1>3, <1>4, TermAssumption DEF PageInit, PageTypeOK
<1>6. Counted BY <1>2, <1>3, NothingRequested DEF PageInit, Counted
<1>7. LatestSearch /\ LatestSinceOwn
  BY <1>2, <1>3, SomeLists DEF PageInit, LatestSearch, LatestSinceOwn
<1>8. Unmixed BY <1>2, <1>3, SomeLists DEF PageInit, Unmixed, Lists
<1> QED BY <1>5, <1>6, <1>7, <1>8 DEF PageInv

LEMMA PageStep == PageInv /\ [PageNext]_pageVars => PageInv'
<1> SUFFICES ASSUME PageInv, [PageNext]_pageVars PROVE PageInv' OBVIOUS
<1>1. CASE UNCHANGED pageVars
  <2>1. Last' = Last /\ Lists' = Lists /\ Fetches' = Fetches BY <1>1, SamePage DEF pageVars
  <2> QED BY <1>1, <2>1 DEF pageVars, PageInv, PageTypeOK, Counted, LatestSearch,
                            LatestSinceOwn, Unmixed
<1>2. CASE User
  BY <1>2, InDialogs, SearchKeeps, AsideStep DEF User
<1>3. CASE OtherChange \/ ServeSave \/ ServeRemoval BY <1>3, AsideStep
<1>4. CASE ShowList \/ FetchEnds BY <1>4, Fetched
<1>5. CASE SaveEnds \/ RemovalEnds
  BY <1>5, ChangeAnswered, ChangeFailed DEF SaveEnds, RemovalEnds
<1> QED BY <1>1, <1>2, <1>3, <1>4, <1>5 DEF PageNext

-----------------------------------------------------------------------------
(* The theorems. *)

\* In every behaviour of the page the inductive invariant holds: in particular a flag is set
\* just while its request runs, and the loading line stands only while a fetch is under way.
THEOREM PageInvariance == PageSpec => []PageInv
  BY PageStart, PageStep, PTL DEF PageSpec

\* Every button that is off has a handler that will give it back.
THEOREM PageTypeCorrect == PageSpec => []PageTypeOK
<1>1. PageInv => PageTypeOK BY DEF PageInv
<1> QED BY <1>1, PageInvariance, PTL

\* However many fetches overlap, and in whatever order they show their lists, the list that is
\* searched settles on the search in the field (users/page.tsx:80-92), but for the fetch after
\* a change.
THEOREM SearchShown == PageSpec => []ListShowsSearch
<1>1. PageInv => ListShowsSearch BY DEF PageInv, LatestSearch, ListShowsSearch
<1> QED BY <1>1, PageInvariance, PTL

\* The user's acknowledged change is in every list once the last fetch has ended, but for one
\* that a fetch under way when the last was sent has put back (permissions/page.tsx:82-84).
THEOREM ChangeShown == PageSpec => []OwnChangeShown
<1>1. ASSUME PageInv, rows[Last].n = sent, NEW k \in Lists
      PROVE  rows[k].read >= own \/ (overlapped /\ rows[k].n < sent)
  <2>1. /\ own \in Nat /\ sent \in Nat /\ rows[k].read \in Nat /\ rows[k].n \in Nat
        /\ overlapped \in BOOLEAN
    BY <1>1 DEF PageInv, PageTypeOK, Shown
  <2>2. rows[k].n <= sent BY <1>1 DEF PageInv, Counted
  <2>3. CASE rows[k].n = sent BY <1>1, <2>1, <2>3 DEF PageInv, LatestSinceOwn
  <2>4. CASE rows[k].n # sent
    <3>1. overlapped BY <1>1, <2>4 DEF PageInv, Unmixed
    <3> QED BY <2>1, <2>2, <2>4, <3>1
  <2> QED BY <2>3, <2>4
<1>2. PageInv => OwnChangeShown BY <1>1 DEF OwnChangeShown
<1> QED BY <1>2, PageInvariance, PTL

(***************************************************************************)
(* ProfileSecurity: the card and the banner.                               *)
(***************************************************************************)

-----------------------------------------------------------------------------
(* Types. *)

ClickType == [pc: {"idle", "sent", "ok", "no", "load"}, op: Ops, mount: Nat, given: Nat,
              version: Nat]
CardType == [loading: BOOLEAN, shown: Nat, setup: Nat, codes: Nat, totpBusy: BOOLEAN,
             pkBusy: BOOLEAN]
LoadRow == [n: Nat, mount: Nat, from: Nat, by: Clicks \cup {Nobody}]

ServerOK ==
  /\ enabled \in Seq(BOOLEAN) /\ Now > 0
  /\ made \in Nat /\ issued \in Nat /\ live \subseteq 1..made

PageOK ==
  /\ profile \in [loading: BOOLEAN, mount: Nat] /\ profile.mount > 0
  /\ lastLoad \in Nat /\ heard \in 0..lastLoad /\ acked \in 0..Now

CardOK ==
  card \in CardType /\ card.setup <= made /\ card.codes <= issued /\ card.shown <= Now

LoadOK(l) ==
  /\ l \in LoadRow
  /\ 0 < l.n /\ l.n <= lastLoad /\ 0 < l.mount /\ l.mount <= profile.mount
  /\ 0 < l.from /\ l.from <= Now

AskOK(a) == a \in [id: Nat, from: Nat] /\ a.id <= banner.seq /\ 0 < a.from /\ a.from <= Now

BannerOK ==
  /\ banner \in [shown: Nat, seq: Nat, dismissed: BOOLEAN] /\ banner.shown <= Now
  /\ \A a \in asks : AskOK(a)

ClickOK(k) ==
  /\ k \in ClickType /\ k.mount <= profile.mount /\ k.version <= Now
  /\ k.pc = "ok" /\ k.op = "prepare" => 0 < k.given /\ k.given <= made
  /\ k.pc = "ok" /\ k.op \in Issuing => k.given <= issued
  /\ k.pc = "sent" => k.given <= made
  /\ k.pc # "idle" => 0 < k.mount

CardTypes ==
  /\ ServerOK /\ PageOK /\ CardOK /\ BannerOK
  /\ \A l \in loads : LoadOK(l)
  /\ click \in [Clicks -> ClickType] /\ \A c \in Clicks : ClickOK(click[c])

\* What only grows.
Grow ==
  /\ Now <= Now' /\ made <= made' /\ issued <= issued'
  /\ profile.mount <= profile.mount' /\ lastLoad <= lastLoad'

LEMMA NowNat == enabled \in Seq(BOOLEAN) => Now \in Nat
  BY DEF Now

LEMMA AppendNow ==
  ASSUME enabled \in Seq(BOOLEAN), NEW b \in BOOLEAN, enabled' = Append(enabled, b)
  PROVE  enabled' \in Seq(BOOLEAN) /\ Now' = Now + 1 /\ Now \in Nat
  BY DEF Now

LEMMA SameNow == enabled' = enabled => Now' = Now
  BY DEF Now

\* Every part that does not change stays right while the rest grows.
LEMMA Growing ==
  ASSUME CardTypes, ServerOK', profile'.mount \in Nat, lastLoad' \in Nat, Grow
  PROVE  /\ card' = card => CardOK'
         /\ banner' = banner /\ asks' \subseteq asks => BannerOK'
         /\ profile' = profile /\ heard' = heard /\ acked' = acked => PageOK'
         /\ \A l \in loads : LoadOK(l)'
         /\ \A c \in Clicks : ClickOK(click[c]) /\ \A k \in ClickType : ClickOK(k) => ClickOK(k)'
<1>1. Now \in Nat /\ Now' \in Nat BY NowNat DEF CardTypes, ServerOK, Now
<1>2. /\ made \in Nat /\ made' \in Nat /\ issued \in Nat /\ issued' \in Nat
      /\ lastLoad \in Nat /\ profile.mount \in Nat
  BY DEF CardTypes, ServerOK, PageOK
<1> HIDE DEF Now
<1>3. card' = card => CardOK' BY <1>1, <1>2 DEF CardTypes, CardOK, Grow, CardType
<1>4. banner' = banner /\ asks' \subseteq asks => BannerOK'
  BY <1>1, <1>2 DEF CardTypes, BannerOK, AskOK, Grow
<1>5. profile' = profile /\ heard' = heard /\ acked' = acked => PageOK'
  BY <1>1, <1>2 DEF CardTypes, PageOK, Grow
<1>6. \A l \in loads : LoadOK(l)' BY <1>1, <1>2 DEF CardTypes, LoadOK, LoadRow, Grow
<1>7. \A k \in ClickType : ClickOK(k) => ClickOK(k)' BY <1>1, <1>2 DEF ClickOK, ClickType, Grow
<1>8. \A c \in Clicks : ClickOK(click[c]) BY DEF CardTypes
<1> QED BY <1>3, <1>4, <1>5, <1>6, <1>7, <1>8

LEMMA TypesUp ==
  ASSUME CardTypes, ServerOK', PageOK', CardOK', BannerOK', Grow, \A l \in loads' : LoadOK(l)',
         NEW c \in Clicks, NEW k \in ClickType, click' = [click EXCEPT ![c] = k], ClickOK(k)'
  PROVE  CardTypes' /\ click'[c] = k /\ \A d \in Clicks \ {c} : click'[d] = click[d]
<1>1. /\ click' \in [Clicks -> ClickType] /\ click'[c] = k
      /\ \A d \in Clicks \ {c} : click'[d] = click[d]
  BY DEF CardTypes
<1>2. ASSUME NEW d \in Clicks PROVE ClickOK(click[d])'
  <2>1. CASE d = c BY <1>1, <2>1 DEF ClickOK
  <2>2. CASE d # c
    <3>1. PICK g \in ClickType : g = click[d] /\ ClickOK(g) BY DEF CardTypes
    <3>2. profile'.mount \in Nat /\ lastLoad' \in Nat BY DEF PageOK
    <3>3. ClickOK(g)' BY <3>1, <3>2, Growing
    <3> QED BY <1>1, <2>2, <3>1, <3>3 DEF ClickOK
  <2> QED BY <2>1, <2>2
<1> QED BY <1>1, <1>2 DEF CardTypes

\* No handler changes.
LEMMA TypesRest ==
  ASSUME CardTypes, ServerOK', PageOK', CardOK', BannerOK', Grow, \A l \in loads' : LoadOK(l)',
         click' = click
  PROVE  CardTypes'
<1>1. ASSUME NEW d \in Clicks PROVE ClickOK(click[d])'
  <2>1. PICK g \in ClickType : g = click[d] /\ ClickOK(g) BY DEF CardTypes
  <2>2. profile'.mount \in Nat /\ lastLoad' \in Nat BY DEF PageOK
  <2>3. ClickOK(g)' BY <2>1, <2>2, Growing
  <2> QED BY <2>1, <2>3 DEF ClickOK
<1> QED BY <1>1 DEF CardTypes

-----------------------------------------------------------------------------
(* The server answers a click. *)

ServeRests ==
  /\ profile' = profile /\ card' = card /\ loads' = loads /\ lastLoad' = lastLoad
  /\ banner' = banner /\ asks' = asks /\ acked' = acked /\ seen' = seen /\ gone' = gone
  /\ crossed' = crossed /\ heard' = heard

\* What became of the click: k is its row now.
MakesSetup(k) ==
  /\ k.op = "prepare" /\ k.pc = "ok" /\ k.given = made + 1
  /\ made' = made + 1 /\ live' = live \cup {made + 1} /\ issued' = issued /\ spoiled' = spoiled
MakesCodes(k) ==
  /\ k.op \in Issuing /\ k.pc = "ok" /\ k.given = issued + 1
  /\ issued' = issued + 1 /\ made' = made /\ spoiled' = spoiled
UsesUp(c, k) ==
  /\ k.op = "confirm" /\ k.pc \in {"ok", "no"} /\ live' = live \ {click[c].given}
  /\ k.pc = "no" => spoiled' = TRUE /\ issued' = issued /\ made' = made
MakesNothing(k) ==
  /\ k.pc \in {"ok", "no"} /\ (k.pc = "ok" => k.op = "disable" \/ k.op \in KeyOps)
  /\ issued' = issued /\ made' = made /\ live' = live /\ spoiled' = spoiled

ServeOf(c, k) ==
  /\ click[c].pc = "sent" /\ k \in ClickType /\ click' = [click EXCEPT ![c] = k]
  /\ k.op = click[c].op /\ k.mount = click[c].mount /\ ServeRests
  /\ \/ MakesSetup(k)
     \/ MakesCodes(k) /\ live' = live /\ k.op # "confirm"
     \/ MakesCodes(k) /\ UsesUp(c, k)
     \/ UsesUp(c, k) /\ k.pc = "no"
     \/ MakesNothing(k)

LEMMA ServedRow ==
  ASSUME CardTypes, NEW c \in Clicks, NEW pc \in {"ok", "no"}, NEW given \in Nat,
         NEW version \in Nat, Served(c, pc, given, version)
  PROVE  \E k \in ClickType : /\ click' = [click EXCEPT ![c] = k] /\ k.pc = pc
                              /\ k.op = click[c].op /\ k.mount = click[c].mount
                              /\ k.given = given /\ k.version = version
<1> DEFINE k == [click[c] EXCEPT !.pc = pc, !.given = given, !.version = version]
<1>1. click[c] \in ClickType BY DEF CardTypes
<1>2. /\ k \in ClickType /\ k.pc = pc /\ k.op = click[c].op /\ k.mount = click[c].mount
      /\ k.given = given /\ k.version = version
  BY <1>1 DEF ClickType
<1>3. click' = [click EXCEPT ![c] = k] BY DEF Served
<1> QED BY <1>2, <1>3

LEMMA ServeFacts ==
  ASSUME CardTypes, NEW c \in Clicks, ServeClick(c)
  PROVE  CardTypes' /\ Grow /\ \E k : ServeOf(c, k)
<1>0. click[c].pc = "sent"
  BY DEF ServeClick, ServePrepare, ServeConfirm, ServeEnable, ServeDisable, ServeRotate, ServeKey,
         Refuse, At
<1>a. AllButServer' = AllButServer
  BY DEF ServeClick, ServePrepare, ServeConfirm, ServeEnable, ServeDisable, ServeRotate, ServeKey,
         Refuse
<1>b. ServeRests BY <1>a DEF AllButServer, bannerVars, ServeRests
<1>1. click[c].pc = "sent" /\ ServeRests BY <1>0, <1>b
<1>2. made \in Nat /\ issued \in Nat /\ Now \in Nat /\ enabled \in Seq(BOOLEAN)
  BY NowNat DEF CardTypes, ServerOK
<1>3. \E k : /\ ServeOf(c, k) /\ ServerOK' /\ Now <= Now' /\ made <= made' /\ k.version <= Now'
  <2>1. CASE ServePrepare(c)
    <3>1. Now' = Now BY <2>1, SameNow DEF ServePrepare
    <3>2. PICK k \in ClickType : /\ click' = [click EXCEPT ![c] = k] /\ k.pc = "ok"
                                 /\ k.op = click[c].op /\ k.mount = click[c].mount
                                 /\ k.given = made + 1 /\ k.version = 0
      BY <1>2, <2>1, ServedRow DEF ServePrepare
    <3>3. k.op = "prepare" BY <2>1, <3>2 DEF ServePrepare, At
    <3>4. MakesSetup(k) BY <2>1, <3>2, <3>3 DEF ServePrepare, MakesSetup
    <3>5. ServerOK' BY <1>2, <2>1, <3>1 DEF ServePrepare, CardTypes, ServerOK
    <3>6. ServeOf(c, k) BY <1>1, <3>2, <3>4 DEF ServeOf
    <3> QED BY <1>2, <2>1, <3>1, <3>2, <3>5, <3>6 DEF ServePrepare
  <2>2. CASE ServeConfirm(c)
    <3>1. live' = live \ {click[c].given} /\ made' = made /\ click[c].op = "confirm"
      BY <2>2 DEF ServeConfirm, At
    <3>2. CASE /\ enabled' = Append(enabled, TRUE) /\ issued' = issued + 1
               /\ Served(c, "ok", issued + 1, Now + 1) /\ UNCHANGED spoiled
      <4>1. Now' = Now + 1 /\ enabled' \in Seq(BOOLEAN) BY <1>2, <3>2, AppendNow
      <4>2. PICK k \in ClickType : /\ click' = [click EXCEPT ![c] = k] /\ k.pc = "ok"
                                   /\ k.op = click[c].op /\ k.mount = click[c].mount
                                   /\ k.given = issued + 1 /\ k.version = Now + 1
        BY <1>2, <3>2, ServedRow
      <4>3. MakesCodes(k) /\ UsesUp(c, k)
        BY <3>1, <3>2, <4>2 DEF MakesCodes, UsesUp, Issuing
      <4>a. live \subseteq 1..made /\ issued' \in Nat /\ Now' > 0
        BY <1>2, <3>2, <4>1 DEF CardTypes, ServerOK
      <4>b. live' \subseteq 1..made' BY <3>1, <4>a
      <4>4. ServerOK' BY <1>2, <3>1, <4>1, <4>a, <4>b DEF ServerOK
      <4>5. ServeOf(c, k) BY <1>1, <4>2, <4>3 DEF ServeOf
      <4> QED BY <1>2, <3>1, <4>1, <4>2, <4>4, <4>5
    <3>3. CASE Served(c, "no", 0, 0) /\ spoiled' = TRUE /\ UNCHANGED <<enabled, issued>>
      <4>1. Now' = Now BY <3>3, SameNow
      <4>2. PICK k \in ClickType : /\ click' = [click EXCEPT ![c] = k] /\ k.pc = "no"
                                   /\ k.op = click[c].op /\ k.mount = click[c].mount
                                   /\ k.given = 0 /\ k.version = 0
        BY <3>3, ServedRow
      <4>3. UsesUp(c, k) BY <3>1, <3>3, <4>2 DEF UsesUp
      <4>4. ServerOK' BY <1>2, <3>1, <3>3, <4>1 DEF CardTypes, ServerOK
      <4>5. ServeOf(c, k) BY <1>1, <4>2, <4>3 DEF ServeOf
      <4> QED BY <1>2, <3>1, <4>1, <4>2, <4>4, <4>5
    <3> QED BY <2>2, <3>2, <3>3 DEF ServeConfirm
  <2>3. CASE ServeEnable(c)
    <3>1. Now' = Now + 1 /\ enabled' \in Seq(BOOLEAN)
      BY <1>2, <2>3, AppendNow DEF ServeEnable
    <3>2. PICK k \in ClickType : /\ click' = [click EXCEPT ![c] = k] /\ k.pc = "ok"
                                 /\ k.op = click[c].op /\ k.mount = click[c].mount
                                 /\ k.given = issued + 1 /\ k.version = Now + 1
      BY <1>2, <2>3, ServedRow DEF ServeEnable
    <3>3. MakesCodes(k) /\ live' = live /\ k.op # "confirm" /\ made' = made
      BY <2>3, <3>2 DEF ServeEnable, At, MakesCodes, Issuing
    <3>4. ServerOK' BY <1>2, <2>3, <3>1 DEF ServeEnable, CardTypes, ServerOK
    <3>5. ServeOf(c, k) BY <1>1, <3>2, <3>3 DEF ServeOf
    <3> QED BY <1>2, <3>1, <3>2, <3>3, <3>4, <3>5
  <2>4. CASE ServeDisable(c)
    <3>1. Now' = Now + 1 /\ enabled' \in Seq(BOOLEAN)
      BY <1>2, <2>4, AppendNow DEF ServeDisable
    <3>2. PICK k \in ClickType : /\ click' = [click EXCEPT ![c] = k] /\ k.pc = "ok"
                                 /\ k.op = click[c].op /\ k.mount = click[c].mount
                                 /\ k.given = 0 /\ k.version = Now + 1
      BY <1>2, <2>4, ServedRow DEF ServeDisable
    <3>3. MakesNothing(k) /\ made' = made
      BY <2>4, <3>2 DEF ServeDisable, At, MakesNothing
    <3>4. ServerOK' BY <1>2, <2>4, <3>1 DEF ServeDisable, CardTypes, ServerOK
    <3>5. ServeOf(c, k) BY <1>1, <3>2, <3>3 DEF ServeOf
    <3> QED BY <1>2, <3>1, <3>2, <3>3, <3>4, <3>5
  <2>5. CASE ServeRotate(c)
    <3>1. Now' = Now BY <2>5, SameNow DEF ServeRotate
    <3>2. PICK k \in ClickType : /\ click' = [click EXCEPT ![c] = k] /\ k.pc = "ok"
                                 /\ k.op = click[c].op /\ k.mount = click[c].mount
                                 /\ k.given = issued + 1 /\ k.version = 0
      BY <1>2, <2>5, ServedRow DEF ServeRotate
    <3>3. MakesCodes(k) /\ live' = live /\ k.op # "confirm" /\ made' = made
      BY <2>5, <3>2 DEF ServeRotate, At, MakesCodes, Issuing
    <3>4. ServerOK' BY <1>2, <2>5, <3>1 DEF ServeRotate, CardTypes, ServerOK
    <3>5. ServeOf(c, k) BY <1>1, <3>2, <3>3 DEF ServeOf
    <3> QED BY <1>2, <3>1, <3>2, <3>3, <3>4, <3>5
  <2>6. CASE ServeKey(c) \/ Refuse(c)
    <3>1. Now' = Now /\ UNCHANGED <<enabled, live, made, issued, spoiled>>
      BY <2>6, SameNow DEF ServeKey, Refuse, AfterRefusal, serverVars
    <3>2. PICK pc \in {"ok", "no"} :
            /\ Served(c, pc, 0, 0) /\ (pc = "ok" => click[c].op \in KeyOps)
      BY <2>6 DEF ServeKey, Refuse, At
    <3>3. PICK k \in ClickType : /\ click' = [click EXCEPT ![c] = k] /\ k.pc = pc
                                 /\ k.op = click[c].op /\ k.mount = click[c].mount
                                 /\ k.given = 0 /\ k.version = 0
      BY <3>2, ServedRow
    <3>4. MakesNothing(k) BY <3>1, <3>2, <3>3 DEF MakesNothing
    <3>5. ServerOK' BY <3>1 DEF CardTypes, ServerOK
    <3>6. ServeOf(c, k) BY <1>1, <3>3, <3>4 DEF ServeOf
    <3> QED BY <1>2, <3>1, <3>3, <3>5, <3>6
  <2> QED BY <2>1, <2>2, <2>3, <2>4, <2>5, <2>6 DEF ServeClick
<1>4. PICK k : /\ ServeOf(c, k) /\ ServerOK' /\ Now <= Now' /\ made <= made'
               /\ k.version <= Now'
  BY <1>3
<1>5. Grow /\ profile'.mount \in Nat /\ lastLoad' \in Nat
  <2>1. issued <= issued'
    BY <1>2, <1>4 DEF ServeOf, MakesSetup, MakesCodes, UsesUp, MakesNothing
  <2> QED BY <1>1, <1>4, <2>1 DEF Grow, ServeRests, CardTypes, PageOK
<1>6. PageOK' /\ CardOK' /\ BannerOK' /\ \A l \in loads' : LoadOK(l)'
  BY <1>1, <1>4, <1>5, Growing DEF ServeRests
<1>7. ClickOK(k)'
  <2>1. click[c] \in ClickType /\ click[c].mount <= profile.mount /\ 0 < click[c].mount
    BY <1>0 DEF CardTypes, ClickOK
  <2>2. k \in ClickType /\ k.mount <= profile'.mount /\ 0 < k.mount /\ k.pc # "sent"
    BY <1>1, <1>4, <2>1 DEF ServeOf, ServeRests, MakesSetup, MakesCodes, UsesUp, MakesNothing
  <2>3. k.pc = "ok" /\ k.op = "prepare" => 0 < k.given /\ k.given <= made'
    BY <1>2, <1>4 DEF ServeOf, MakesSetup, MakesCodes, UsesUp, MakesNothing, Issuing, KeyOps
  <2>4. k.pc = "ok" /\ k.op \in Issuing => k.given <= issued'
    BY <1>2, <1>4 DEF ServeOf, MakesSetup, MakesCodes, UsesUp, MakesNothing, Issuing, KeyOps
  <2> QED BY <1>4, <2>2, <2>3, <2>4 DEF ClickOK
<1>8. CardTypes' BY <1>4, <1>5, <1>6, <1>7, TypesUp DEF ServeOf
<1> QED BY <1>4, <1>5, <1>8

-----------------------------------------------------------------------------
(* The other steps: types, and what becomes of the click, the card and the loads. *)

\* The card without the flag of an operation.
LEMMA ReleasedCard ==
  ASSUME card \in CardType, NEW op
  PROVE  /\ Released(card, op) \in CardType
         /\ Released(card, op).loading = card.loading /\ Released(card, op).shown = card.shown
         /\ Released(card, op).setup = card.setup /\ Released(card, op).codes = card.codes
         /\ op \in TotpOps => Released(card, op).totpBusy = FALSE
         /\ op \notin TotpOps => Released(card, op).totpBusy = card.totpBusy
  BY DEF Released, CardType

OthersStay(c) == \A d \in Clicks \ {c} : click'[d] = click[d]

LEMMA Returning ==
  ASSUME CardTypes, ServerOK', PageOK', CardOK', BannerOK', Grow, \A l \in loads' : LoadOK(l)',
         NEW c \in Clicks, Return(c)
  PROVE  CardTypes' /\ click'[c] = IdleClick /\ OthersStay(c)
<1>1. IdleClick \in ClickType /\ IdleClick.pc = "idle" /\ IdleClick.mount = 0
      /\ IdleClick.version = 0
  BY DEF IdleClick, ClickType, Ops, KeyOps
<1>2. profile'.mount \in Nat /\ Now' \in Nat BY NowNat DEF PageOK, ServerOK, Now
<1>3. ClickOK(IdleClick)' BY <1>1, <1>2 DEF ClickOK
<1>4. click' = [click EXCEPT ![c] = IdleClick] BY DEF Return
<1> QED BY <1>1, <1>3, <1>4, TypesUp DEF OthersStay

\* Nothing of the server changes.
LEMMA ServerStays ==
  ASSUME CardTypes, UNCHANGED serverVars
  PROVE  /\ ServerOK' /\ Now' = Now /\ made' = made /\ live' = live /\ enabled' = enabled
         /\ issued' = issued /\ Now \in Nat /\ made \in Nat /\ issued \in Nat
<1>1. enabled' = enabled /\ live' = live /\ made' = made /\ issued' = issued BY DEF serverVars
<1>2. Now' = Now BY <1>1, SameNow
<1> QED BY <1>1, <1>2, NowNat DEF CardTypes, ServerOK

\* A click of the new operation, as Press makes it.
Pressed(op) ==
  [IdleClick EXCEPT !.pc = "sent", !.op = op, !.mount = profile.mount, !.given = card.setup]

LEMMA PressFacts ==
  ASSUME CardTypes, NEW c \in Clicks, NEW op \in Ops, Press(c, op)
  PROVE  /\ CardTypes'
         /\ click'[c] \in ClickType /\ click'[c].pc = "sent" /\ click'[c].op = op
         /\ click'[c].mount = profile.mount /\ click'[c].given = card.setup
         /\ OthersStay(c) /\ click[c].pc = "idle"
         /\ card'.setup = card.setup /\ card'.loading = card.loading
         /\ card'.codes = card.codes
         /\ card'.shown = card.shown /\ card'.totpBusy = (card.totpBusy \/ op \in TotpOps)
<1>1. card \in CardType /\ card.setup <= made /\ card.shown <= Now /\ profile.mount \in Nat
      /\ card.codes <= issued
      /\ profile.mount > 0 /\ lastLoad \in Nat
  BY DEF CardTypes, CardOK, PageOK
<1>2. UNCHANGED <<serverVars, profile, loads, lastLoad, bannerVars, hist>> BY DEF Press
<1>3. /\ ServerOK' /\ Now' = Now /\ made' = made /\ Now \in Nat /\ made \in Nat
      /\ issued' = issued /\ issued \in Nat
  BY <1>2, ServerStays
<1>4. Grow /\ profile' = profile /\ lastLoad' = lastLoad /\ loads' = loads
      /\ banner' = banner /\ asks' = asks /\ heard' = heard /\ acked' = acked
  BY <1>1, <1>2, <1>3 DEF Grow, bannerVars, hist
<1>5. card' \in CardType /\ card'.setup = card.setup /\ card'.loading = card.loading
      /\ card'.codes = card.codes
      /\ card'.shown = card.shown /\ card'.totpBusy = (card.totpBusy \/ op \in TotpOps)
  BY <1>1 DEF Press, CardType
<1>6. CardOK' BY <1>1, <1>3, <1>5 DEF CardOK
<1>7. PageOK' /\ BannerOK' /\ \A l \in loads' : LoadOK(l)' BY <1>1, <1>3, <1>4, Growing
<1>8. PICK k \in ClickType :
        /\ k = Pressed(op) /\ k.pc = "sent" /\ k.op = op /\ k.mount = profile.mount
        /\ k.given = card.setup /\ k.version = 0
  <2> DEFINE k == Pressed(op)
  <2>1. /\ k \in ClickType /\ k.pc = "sent" /\ k.op = op /\ k.mount = profile.mount
        /\ k.given = card.setup /\ k.version = 0
    BY <1>1 DEF IdleClick, ClickType, CardType, Pressed
  <2> HIDE DEF k
  <2>2. k = Pressed(op) BY DEF k
  <2> QED BY <2>1, <2>2
<1>9. ClickOK(k)' BY <1>1, <1>3, <1>4, <1>8 DEF ClickOK
<1>10. click' = [click EXCEPT ![c] = k] /\ click[c].pc = "idle" BY <1>8 DEF Press, Pressed
<1>11. CardTypes' /\ click'[c] = k /\ OthersStay(c)
  BY <1>3, <1>4, <1>6, <1>7, <1>8, <1>9, <1>10, TypesUp DEF OthersStay
<1> QED BY <1>5, <1>8, <1>10, <1>11

LEMMA AtOnceFacts ==
  ASSUME CardTypes, NEW c \in Clicks, AnsweredAtOnce(c)
  PROVE  /\ CardTypes' /\ click'[c] = IdleClick /\ OthersStay(c)
         /\ click[c].pc = "ok" /\ click[c].op \in {"prepare", "rotate"}
         /\ ~Mounted(click[c].mount) => card' = card
         /\ Mounted(click[c].mount) =>
              /\ card'.loading = card.loading /\ card'.shown = card.shown
              /\ card'.totpBusy = FALSE
              /\ card'.setup = IF click[c].op = "prepare" THEN click[c].given ELSE card.setup
              /\ card'.codes = IF click[c].op = "rotate" THEN click[c].given ELSE card.codes
<1>1. card \in CardType /\ card.setup <= made /\ card.shown <= Now /\ profile.mount \in Nat
      /\ card.codes <= issued
      /\ profile.mount > 0 /\ lastLoad \in Nat
  BY DEF CardTypes, CardOK, PageOK
<1>2. UNCHANGED <<serverVars, profile, loads, lastLoad, bannerVars, acked, crossed, heard>>
  BY DEF AnsweredAtOnce
<1>3. /\ ServerOK' /\ Now' = Now /\ made' = made /\ Now \in Nat /\ made \in Nat
      /\ issued' = issued /\ issued \in Nat
  BY <1>2, ServerStays
<1>4. Grow /\ profile' = profile /\ lastLoad' = lastLoad /\ loads' = loads
      /\ banner' = banner /\ asks' = asks /\ heard' = heard /\ acked' = acked
  BY <1>1, <1>2, <1>3 DEF Grow, bannerVars
<1>5. PICK k \in ClickType : k = click[c] /\ ClickOK(k) BY DEF CardTypes
<1>6. k.pc = "ok" /\ k.op \in {"prepare", "rotate"} /\ Return(c) BY <1>5 DEF AnsweredAtOnce
<1>7. k.op \in TotpOps BY <1>6 DEF TotpOps
<1>8. PICK b \in CardType :
        /\ b = Released(card, k.op) /\ b.loading = card.loading /\ b.shown = card.shown
        /\ b.setup = card.setup /\ b.codes = card.codes /\ b.totpBusy = FALSE
  BY <1>1, <1>7, ReleasedCard
<1>9. card' = IF ~Mounted(k.mount) THEN card
              ELSE IF k.op = "prepare" THEN [b EXCEPT !.setup = k.given]
              ELSE [b EXCEPT !.codes = k.given]
  BY <1>5, <1>6, <1>8 DEF AnsweredAtOnce, Dialog, Shows, Issuing
<1>10. /\ ~Mounted(k.mount) => card' = card
       /\ Mounted(k.mount) =>
            /\ card' \in CardType
            /\ card'.loading = card.loading /\ card'.shown = card.shown /\ card'.totpBusy = FALSE
            /\ card'.setup = IF k.op = "prepare" THEN k.given ELSE card.setup
            /\ card'.codes = IF k.op = "rotate" THEN k.given ELSE card.codes
  BY <1>6, <1>8, <1>9 DEF CardType, ClickType
<1>11. (k.op = "prepare" => k.given <= made) /\ (k.op = "rotate" => k.given <= issued)
  BY <1>5, <1>6 DEF ClickOK, Issuing
<1>12. CardOK' BY <1>1, <1>3, <1>10, <1>11 DEF CardOK
<1>13. PageOK' /\ BannerOK' /\ \A l \in loads' : LoadOK(l)' BY <1>1, <1>3, <1>4, Growing
<1>14. CardTypes' /\ click'[c] = IdleClick /\ OthersStay(c)
  BY <1>3, <1>4, <1>6, <1>12, <1>13, Returning
<1> QED BY <1>5, <1>6, <1>10, <1>14

LEMMA UnansweredFacts ==
  ASSUME CardTypes, NEW c \in Clicks, Unanswered(c)
  PROVE  /\ CardTypes' /\ click'[c] = IdleClick /\ OthersStay(c)
         /\ ~Mounted(click[c].mount) => card' = card
         /\ card'.loading = card.loading /\ card'.shown = card.shown /\ card'.setup = card.setup
         /\ card'.codes = card.codes
         /\ Mounted(click[c].mount) =>
              card'.totpBusy = (card.totpBusy /\ click[c].op \notin TotpOps)
<1>1. card \in CardType /\ card.setup <= made /\ card.shown <= Now /\ profile.mount \in Nat
      /\ card.codes <= issued
      /\ profile.mount > 0 /\ lastLoad \in Nat
  BY DEF CardTypes, CardOK, PageOK
<1>2. UNCHANGED <<serverVars, profile, loads, lastLoad, bannerVars, acked, seen, crossed, heard>>
  BY DEF Unanswered
<1>3. /\ ServerOK' /\ Now' = Now /\ made' = made /\ Now \in Nat /\ made \in Nat
      /\ issued' = issued /\ issued \in Nat
  BY <1>2, ServerStays
<1>4. Grow /\ profile' = profile /\ lastLoad' = lastLoad /\ loads' = loads
      /\ banner' = banner /\ asks' = asks /\ heard' = heard /\ acked' = acked
  BY <1>1, <1>2, <1>3 DEF Grow, bannerVars
<1>5. PICK k \in ClickType : k = click[c] BY DEF CardTypes
<1>6. Return(c) /\ card' = IF Mounted(k.mount) THEN Released(card, k.op) ELSE card
  BY <1>5 DEF Unanswered
<1>7. PICK b \in CardType :
        /\ b = Released(card, k.op) /\ b.loading = card.loading /\ b.shown = card.shown
        /\ b.setup = card.setup /\ b.codes = card.codes
        /\ b.totpBusy = (card.totpBusy /\ k.op \notin TotpOps)
  BY <1>1, ReleasedCard DEF CardType
<1>8. CardOK' BY <1>1, <1>3, <1>6, <1>7 DEF CardOK
<1>9. PageOK' /\ BannerOK' /\ \A l \in loads' : LoadOK(l)' BY <1>1, <1>3, <1>4, Growing
<1>10. CardTypes' /\ click'[c] = IdleClick /\ OthersStay(c)
  BY <1>3, <1>4, <1>6, <1>8, <1>9, Returning
<1> QED BY <1>5, <1>6, <1>7, <1>10

\* A load that starts now.
LoadBegun(mount, by) ==
  /\ lastLoad' = lastLoad + 1
  /\ \E m \in LoadRow : /\ m.n = lastLoad + 1 /\ m.mount = mount /\ m.from = Now /\ m.by = by
                        /\ loads' = loads \cup {m}

LEMMA Starting ==
  ASSUME CardTypes, NEW mount \in Nat, NEW by \in Clicks \cup {Nobody}, StartLoad(mount, by)
  PROVE  LoadBegun(mount, by)
<1> DEFINE m == [n |-> lastLoad + 1, mount |-> mount, from |-> Now, by |-> by]
<1>1. lastLoad \in Nat /\ Now \in Nat BY NowNat DEF CardTypes, PageOK, ServerOK
<1>2. m \in LoadRow /\ m.n = lastLoad + 1 /\ m.mount = mount /\ m.from = Now /\ m.by = by
  BY <1>1 DEF LoadRow
<1>3. lastLoad' = lastLoad + 1 /\ loads' = loads \cup {m} BY DEF StartLoad
<1> QED BY <1>2, <1>3 DEF LoadBegun

LEMMA ThenLoadFacts ==
  ASSUME CardTypes, NEW c \in Clicks, AnsweredThenLoad(c)
  PROVE  /\ CardTypes' /\ OthersStay(c) /\ LoadBegun(click[c].mount, c)
         /\ click[c].pc = "ok" /\ click[c].op \in Changes \cup KeyOps
         /\ click'[c].pc = "load" /\ click'[c].op = click[c].op
         /\ click'[c].mount = click[c].mount
         /\ ~Mounted(click[c].mount) => card' = card
         /\ Mounted(click[c].mount) =>
              /\ card'.loading = TRUE /\ card'.totpBusy = card.totpBusy
              /\ card'.setup = IF click[c].op = "confirm" THEN 0 ELSE card.setup
              /\ card'.codes = Dialog(c) /\ card'.shown = card.shown
         /\ acked' <= Now
<1>1. card \in CardType /\ card.setup <= made /\ card.shown <= Now /\ profile.mount \in Nat
      /\ card.codes <= issued
      /\ profile.mount > 0 /\ lastLoad \in Nat /\ acked \in 0..Now /\ heard \in 0..lastLoad
      /\ profile \in [loading: BOOLEAN, mount: Nat]
  BY DEF CardTypes, CardOK, PageOK
<1>2. UNCHANGED <<serverVars, profile, bannerVars, spoiled, crossed, heard>>
  BY DEF AnsweredThenLoad
<1>3. /\ ServerOK' /\ Now' = Now /\ made' = made /\ Now \in Nat /\ made \in Nat /\ Now > 0
      /\ issued' = issued /\ issued \in Nat
  BY <1>2, ServerStays DEF CardTypes, ServerOK
<1>4. PICK k \in ClickType : k = click[c] /\ ClickOK(k) BY DEF CardTypes
<1>5. /\ k.pc = "ok" /\ k.op \in Changes \cup KeyOps /\ StartLoad(k.mount, c)
      /\ click' = [click EXCEPT ![c].pc = "load"]
      /\ acked' = IF k.version > acked THEN k.version ELSE acked
      /\ card' = IF ~Mounted(k.mount) THEN card
                 ELSE [card EXCEPT !.loading = TRUE, !.codes = Dialog(c),
                                   !.setup = IF k.op = "confirm" THEN 0 ELSE @]
  BY <1>4 DEF AnsweredThenLoad
<1>6. k.mount \in Nat /\ k.version \in Nat /\ k.version <= Now /\ 0 < k.mount
      /\ k.mount <= profile.mount
  BY <1>4, <1>5 DEF ClickOK, ClickType
<1>7. LoadBegun(k.mount, c) BY <1>5, <1>6, Starting
<1>8. lastLoad' = lastLoad + 1 BY <1>7 DEF LoadBegun
<1>9. Grow /\ profile' = profile /\ banner' = banner /\ asks' = asks /\ heard' = heard
  BY <1>1, <1>2, <1>3, <1>8 DEF Grow, bannerVars
<1>10. acked' \in 0..Now /\ acked' <= Now BY <1>1, <1>3, <1>5, <1>6
<1>11. PageOK' BY <1>1, <1>3, <1>8, <1>9, <1>10 DEF PageOK
<1>12. BannerOK' /\ \A l \in loads : LoadOK(l)' BY <1>1, <1>3, <1>8, <1>9, Growing
<1>13. \A l \in loads' : LoadOK(l)'
  <2>1. PICK m \in LoadRow :
          /\ m.n = lastLoad + 1 /\ m.mount = k.mount /\ m.from = Now /\ m.by = c
          /\ loads' = loads \cup {m}
    BY <1>7 DEF LoadBegun
  <2>2. LoadOK(m)' BY <1>1, <1>3, <1>6, <1>8, <1>9, <2>1 DEF LoadOK
  <2> QED BY <1>12, <2>1, <2>2
<1>14. /\ ~Mounted(k.mount) => card' = card
       /\ Mounted(k.mount) =>
            /\ card' \in CardType /\ card'.loading = TRUE /\ card'.totpBusy = card.totpBusy
            /\ card'.shown = card.shown /\ card'.codes = Dialog(c)
            /\ card'.setup = IF k.op = "confirm" THEN 0 ELSE card.setup
  <2>1. Dialog(c) \in Nat BY <1>1, <1>4 DEF Dialog, CardType, ClickType
  <2> QED BY <1>1, <1>5, <2>1 DEF CardType
<1>15. CardOK'
  <2>1. Dialog(c) <= issued BY <1>1, <1>4, <1>5 DEF Dialog, Shows, ClickOK
  <2> QED BY <1>1, <1>3, <1>14, <2>1 DEF CardOK
<1> DEFINE g == [k EXCEPT !.pc = "load"]
<1>16. /\ g \in ClickType /\ g.pc = "load" /\ g.op = k.op /\ g.mount = k.mount
       /\ g.version = k.version
  BY DEF ClickType
<1>17. click' = [click EXCEPT ![c] = g] BY <1>4, <1>5
<1> HIDE DEF g
<1>18. ClickOK(g)' BY <1>3, <1>6, <1>9, <1>16 DEF ClickOK
<1>19. CardTypes' /\ click'[c] = g /\ OthersStay(c)
  BY <1>3, <1>9, <1>11, <1>12, <1>13, <1>15, <1>16, <1>17, <1>18, TypesUp DEF OthersStay
<1> QED BY <1>4, <1>5, <1>7, <1>10, <1>14, <1>16, <1>19

\* What the end of a load leaves of the card and of the handler that awaited it.
LoadDone(l, version) ==
  /\ loads' = loads \ {l}
  /\ IF l.by = Nobody THEN click' = click ELSE click'[l.by] = IdleClick /\ OthersStay(l.by)
  /\ ~Mounted(l.mount) => card' = card
  /\ Mounted(l.mount) =>
       /\ card'.loading = FALSE /\ card'.shown = version /\ card'.setup = card.setup
       /\ card'.codes = card.codes
       /\ card'.totpBusy =
            (card.totpBusy /\ ~(l.by \in Clicks /\ click[l.by].op \in TotpOps))

LEMMA EndLoadFacts ==
  ASSUME CardTypes, NEW l \in loads, NEW v \in 0..Now, EndLoad(l, v), BannerOK',
         heard' = heard \/ heard' = l.n
  PROVE  /\ CardTypes' /\ LoadDone(l, v)
<1>1. card \in CardType /\ card.setup <= made /\ card.shown <= Now /\ profile.mount \in Nat
      /\ card.codes <= issued
      /\ lastLoad \in Nat /\ v \in Nat /\ v <= Now /\ heard \in 0..lastLoad
  BY NowNat DEF CardTypes, CardOK, PageOK, ServerOK
<1>2. UNCHANGED <<serverVars, profile, lastLoad, asks, acked, gone, spoiled>>
      /\ loads' = loads \ {l} /\ card' = CardAfter(l, v)
  BY DEF EndLoad
<1>3. /\ ServerOK' /\ Now' = Now /\ made' = made /\ Now \in Nat /\ made \in Nat
      /\ issued' = issued /\ issued \in Nat
  BY <1>2, ServerStays
<1>4. Grow /\ profile' = profile /\ lastLoad' = lastLoad /\ acked' = acked
  BY <1>1, <1>2, <1>3 DEF Grow
<1>5. LoadOK(l) BY DEF CardTypes
<1>6. heard' \in 0..lastLoad BY <1>1, <1>5 DEF LoadOK, LoadRow
<1>7. PageOK' BY <1>3, <1>4, <1>6 DEF CardTypes, PageOK
<1>8. \A m \in loads' : LoadOK(m)' BY <1>1, <1>2, <1>3, <1>4, Growing
<1> DEFINE b == [card EXCEPT !.loading = FALSE, !.shown = v]
<1>9. /\ b \in CardType /\ b.loading = FALSE /\ b.shown = v /\ b.setup = card.setup
      /\ b.codes = card.codes /\ b.totpBusy = card.totpBusy
  BY <1>1 DEF CardType
<1>10. card' = IF ~Mounted(l.mount) THEN card
               ELSE IF l.by = Nobody THEN b ELSE Released(b, click[l.by].op)
  BY <1>2 DEF CardAfter
<1> HIDE DEF b
<1>11. l.by \in Clicks \cup {Nobody} BY <1>5 DEF LoadOK, LoadRow
<1>12. /\ Released(b, click[l.by].op) \in CardType
       /\ Released(b, click[l.by].op).loading = FALSE
       /\ Released(b, click[l.by].op).shown = v /\ Released(b, click[l.by].op).setup = card.setup
       /\ Released(b, click[l.by].op).codes = card.codes
       /\ Released(b, click[l.by].op).totpBusy = (card.totpBusy /\ click[l.by].op \notin TotpOps)
  BY <1>9 DEF Released, CardType
<1>13. CardOK' BY <1>1, <1>3, <1>9, <1>10, <1>12 DEF CardOK
<1>14. Nobody \notin Clicks BY NobodyAssumption
<1>15. Mounted(l.mount) =>
         /\ card'.loading = FALSE /\ card'.shown = v /\ card'.setup = card.setup
         /\ card'.codes = card.codes
         /\ card'.totpBusy = (card.totpBusy /\ ~(l.by \in Clicks /\ click[l.by].op \in TotpOps))
  <2>1. CASE l.by = Nobody
    <3>1. ~(l.by \in Clicks /\ click[l.by].op \in TotpOps) BY <1>14, <2>1
    <3>2. card.totpBusy \in BOOLEAN BY <1>1 DEF CardType
    <3> QED BY <1>9, <1>10, <2>1, <3>1, <3>2
  <2>2. CASE l.by # Nobody BY <1>10, <1>11, <1>12, <2>2
  <2> QED BY <2>1, <2>2
<1>16. CASE l.by = Nobody
  <2>1. click' = click BY <1>16 DEF EndLoad
  <2>2. CardTypes' BY <1>3, <1>4, <1>7, <1>8, <1>13, <2>1, TypesRest
  <2> QED BY <1>2, <1>10, <1>15, <1>16, <2>1, <2>2 DEF LoadDone
<1>17. CASE l.by # Nobody
  <2>1. l.by \in Clicks /\ Return(l.by) BY <1>11, <1>17 DEF EndLoad
  <2>2. CardTypes' /\ click'[l.by] = IdleClick /\ OthersStay(l.by)
    <3>1. PICK c \in Clicks : c = l.by BY <2>1
    <3>2. CardTypes' /\ click'[c] = IdleClick /\ OthersStay(c)
      BY <1>3, <1>4, <1>7, <1>8, <1>13, <2>1, <3>1, Returning
    <3> QED BY <3>1, <3>2
  <2> QED BY <1>2, <1>10, <1>15, <1>17, <2>2 DEF LoadDone
<1> QED BY <1>16, <1>17

-----------------------------------------------------------------------------
(* The inductive invariant. *)

Totp(c) == click[c].pc # "idle" /\ click[c].mount = profile.mount /\ click[c].op \in TotpOps

\* Who awaits a load, and whom the flag of the card stands for.
BusyInv ==
  /\ \A l \in loads : l.by # Nobody => click[l.by].pc = "load" /\ click[l.by].mount = l.mount
  /\ \A l, m \in loads : l.by = m.by /\ l.by # Nobody => l = m
  /\ \A c, d \in Clicks : Totp(c) /\ Totp(d) => c = d
  /\ Mounted(profile.mount) =>
       /\ card.loading => \E l \in loads : l.mount = profile.mount
       /\ card.totpBusy <=> \E c \in Clicks : Totp(c)

Prepared(k) == k.pc = "ok" /\ k.op = "prepare"
Confirming(k) == k.pc = "sent" /\ k.op = "confirm"
Confirmed(c) == click[c].pc = "ok" /\ click[c].op = "confirm" /\ click[c].mount = profile.mount

\* The setup on the screen is there unless a confirmation has just used it up.  A setup on its
\* way is nobody else's, and no confirmation of an older card can use up the one on the screen.
SetupInv ==
  /\ ~profile.loading /\ card.setup # 0 =>
       card.setup \in live \/ spoiled \/ \E c \in Clicks : Confirmed(c)
  /\ \A c \in Clicks : Prepared(click[c]) =>
       /\ click[c].given # card.setup
       /\ \A d \in Clicks \ {c} :
            Prepared(click[d]) \/ Confirming(click[d]) => click[d].given # click[c].given
  /\ \A c \in Clicks :
       Confirming(click[c]) /\ click[c].mount # profile.mount /\ card.setup # 0 =>
         click[c].given # card.setup

\* The last load began after the last change; once it has told the banner, so did whatever the
\* banner still waits for, and what it shows is as new, or an answer is on its way.
BannerInv ==
  /\ \A l \in loads : l.n = lastLoad => acked <= l.from
  /\ heard = lastLoad /\ ~crossed =>
       /\ \A a \in asks : a.id = banner.seq => acked <= a.from
       /\ banner.shown = 0 \/ acked <= banner.shown \/ Asking

\* What is on the screen has been seen.  A card that was clicked has a status, and no click on it
\* brings codes while others are in its dialog, open or hidden.
DialogInv ==
  /\ OnScreen \subseteq seen
  /\ ~profile.loading =>
       /\ \A c \in Clicks :
            click[c].pc # "idle" /\ click[c].mount = profile.mount => card.shown # 0
       /\ card.codes # 0 =>
            card.shown # 0 /\ \A c \in Clicks : Totp(c) => click[c].pc = "load"

CardInv == CardTypes /\ BusyInv /\ CodesReachUser /\ DialogInv /\ SetupInv /\ BannerInv

-----------------------------------------------------------------------------
(* What leaves a part of it alone. *)

\* Handlers stay where they are, or answers come for them.
LEMMA BusyStays ==
  ASSUME BusyInv, profile' = profile, loads' = loads, \A l \in loads : l.by \in Clicks \cup {Nobody},
         card'.loading = card.loading, card'.totpBusy = card.totpBusy,
         \A c \in Clicks : /\ click'[c].op = click[c].op /\ click'[c].mount = click[c].mount
                           /\ click'[c].pc = "idle" <=> click[c].pc = "idle"
                           /\ click[c].pc = "load" => click'[c].pc = "load"
  PROVE  BusyInv'
<1>1. \A c \in Clicks : Totp(c)' <=> Totp(c) BY DEF Totp
<1>2. Mounted(profile.mount)' <=> Mounted(profile.mount) BY DEF Mounted
<1>3. \A l \in loads' : l.by # Nobody => click'[l.by].pc = "load" /\ click'[l.by].mount = l.mount
  BY DEF BusyInv
<1> QED BY <1>1, <1>2, <1>3 DEF BusyInv

\* A handler that awaits no load ends, and gives the flag of its card back.
LEMMA BusyLeaves ==
  ASSUME BusyInv, CardTypes, NEW c \in Clicks, profile' = profile, loads' = loads,
         click'[c] = IdleClick, OthersStay(c), click[c].pc \in {"sent", "ok", "no"},
         ~Mounted(click[c].mount) => card' = card,
         card'.loading = card.loading,
         Mounted(click[c].mount) =>
           card'.totpBusy = (card.totpBusy /\ click[c].op \notin TotpOps)
  PROVE  BusyInv'
<1>1. ~Totp(c)' BY DEF Totp, IdleClick
<1>2. \A d \in Clicks \ {c} : Totp(d)' <=> Totp(d) BY DEF Totp, OthersStay
<1>3. \A l \in loads : l.by \in Clicks \cup {Nobody} BY DEF CardTypes, LoadOK, LoadRow
<1>4. \A l \in loads : l.by # c BY NobodyAssumption DEF BusyInv
<1>5. \A l \in loads' : l.by # Nobody => click'[l.by].pc = "load" /\ click'[l.by].mount = l.mount
  BY <1>3, <1>4 DEF BusyInv, OthersStay
<1>6. ASSUME Mounted(profile.mount)' PROVE card'.totpBusy <=> \E d \in Clicks : Totp(d)'
  <2>1. Mounted(profile.mount) /\ ~profile.loading BY <1>6 DEF Mounted
  <2>2. card.totpBusy <=> \E d \in Clicks : Totp(d) BY <2>1 DEF BusyInv
  <2>3. CASE Totp(c)
    <3>1. ~card'.totpBusy BY <2>1, <2>3 DEF Totp, Mounted
    <3>2. \A d \in Clicks \ {c} : ~Totp(d) BY <2>3 DEF BusyInv
    <3> QED BY <1>1, <1>2, <3>1, <3>2
  <2>4. CASE ~Totp(c)
    <3>1. card'.totpBusy <=> card.totpBusy
      <4>1. CASE Mounted(click[c].mount)
        <5>1. click[c].op \notin TotpOps BY <2>1, <2>4, <4>1 DEF Totp, Mounted
        <5>2. card.totpBusy \in BOOLEAN BY DEF CardTypes, CardOK, CardType
        <5> QED BY <4>1, <5>1, <5>2
      <4>2. CASE ~Mounted(click[c].mount) BY <4>2
      <4> QED BY <4>1, <4>2
    <3> QED BY <1>1, <1>2, <2>2, <2>4, <3>1
  <2> QED BY <2>3, <2>4
<1>7. Mounted(profile.mount)' => Mounted(profile.mount) BY DEF Mounted
<1> QED BY <1>1, <1>2, <1>5, <1>6, <1>7 DEF BusyInv

Carries(c, i) == click[c].pc = "ok" /\ click[c].op \in Issuing /\ click[c].given = i

\* The card on the screen waits for its status.
Underway == \E l \in loads : Mounted(l.mount)

LEMMA CodesStay ==
  ASSUME CodesReachUser, issued' = issued, seen \subseteq seen', gone \subseteq gone',
         \/ card.codes \in {0} \cup seen' \cup gone'
         \/ ~Underway
         \/ Underway' /\ card'.codes = card.codes,
         \A i \in 1..issued, c \in Clicks : Carries(c, i) => Carries(c, i)' \/ i \in seen' \cup gone'
  PROVE  CodesReachUser'
<1> SUFFICES ASSUME NEW i \in 1..issued, i \notin seen' \cup gone'
             PROVE  (\E c \in Clicks : Carries(c, i)') \/ (i = card'.codes /\ Underway')
  BY DEF CodesReachUser, Carries, Underway
<1>1. (\E c \in Clicks : Carries(c, i)) \/ (i = card.codes /\ Underway)
  BY DEF CodesReachUser, Carries, Underway
<1>2. issued \in Nat => i # 0 OBVIOUS
<1>3. CASE \E c \in Clicks : Carries(c, i) BY <1>3
<1>4. CASE i = card.codes /\ Underway
  <2>1. i # 0 OBVIOUS
  <2> QED BY <1>4, <2>1
<1> QED BY <1>1, <1>3, <1>4

\* Handlers end, or stay where they are but for the answer of the server.
LEMMA DialogStays ==
  ASSUME DialogInv, profile' = profile,
         card'.codes = card.codes, card'.shown = card.shown, seen \subseteq seen',
         OnScreen' \subseteq seen' \/ card'.loading = card.loading,
         \A c \in Clicks :
           \/ click'[c].pc = "idle"
           \/ /\ click'[c].op = click[c].op /\ click'[c].mount = click[c].mount
              /\ click[c].pc # "idle"
              /\ click[c].pc = "load" => click'[c].pc = "load"
  PROVE  DialogInv'
<1>1. OnScreen' \subseteq seen' BY DEF DialogInv, OnScreen, Usable, Mounted
<1>2. \A c \in Clicks :
        click'[c].pc # "idle" => click'[c].mount = click[c].mount /\ click[c].pc # "idle"
  OBVIOUS
<1>3. \A c \in Clicks : Totp(c)' => Totp(c) /\ (click[c].pc = "load" => click'[c].pc = "load")
  BY DEF Totp
<1> QED BY <1>1, <1>2, <1>3 DEF DialogInv

\* New codes come into the dialog of the card on the screen: they are seen, or the loading line
\* hides them.
LEMMA CodesCome ==
  ASSUME CodesReachUser, DialogInv, BusyInv, NEW c \in Clicks, OthersStay(c),
         Totp(c), Mounted(profile.mount), click[c].pc = "ok", click[c].op \in Issuing,
         click'[c].pc \in {"idle", "load"},
         profile' = profile, issued' = issued, gone \subseteq gone', seen' = seen \cup OnScreen',
         card'.codes = click[c].given, card'.shown = card.shown, card'.loading \in BOOLEAN,
         card'.loading => \E l \in loads' : l.mount = profile.mount
  PROVE  CodesReachUser' /\ DialogInv'
<1>1. ~profile.loading /\ click[c].mount = profile.mount BY DEF Mounted, Totp
<1>2. card.shown # 0 /\ card.codes = 0 BY <1>1 DEF DialogInv
<1>3. card'.codes \in {0} \cup seen' \/ Underway'
  <2>1. CASE card'.loading BY <1>1, <2>1 DEF Underway, Mounted
  <2>2. CASE ~card'.loading BY <1>1, <1>2, <2>2 DEF OnScreen, Usable, Mounted
  <2> QED BY <2>1, <2>2
<1>4. CodesReachUser'
  <2> SUFFICES ASSUME NEW i \in 1..issued, i \notin seen' \cup gone'
               PROVE  (\E d \in Clicks : Carries(d, i)') \/ (i = card'.codes /\ Underway')
    BY DEF CodesReachUser, Carries, Underway
  <2>1. i # 0 OBVIOUS
  <2>2. PICK d \in Clicks : Carries(d, i) BY <1>2, <2>1 DEF CodesReachUser, Carries
  <2>3. CASE d = c BY <1>3, <2>1, <2>2, <2>3 DEF Carries
  <2>4. CASE d # c BY <2>2, <2>4 DEF Carries, OthersStay
  <2> QED BY <2>3, <2>4
<1>5. DialogInv'
  <2>1. \A d \in Clicks \ {c} : Totp(d)' => Totp(d) BY DEF Totp, OthersStay
  <2>2. \A d \in Clicks : Totp(d)' => d = c BY <2>1 DEF BusyInv
  <2>3. Totp(c)' => click'[c].pc = "load" BY DEF Totp
  <2> QED BY <1>2, <2>2, <2>3 DEF DialogInv
<1> QED BY <1>4, <1>5

\* A new setup, a confirmation begun and one that succeeded are for lemmas of their own.
LEMMA SetupStays ==
  ASSUME SetupInv, profile'.mount = profile.mount, ~profile'.loading => ~profile.loading,
         card'.setup = card.setup, live \subseteq live', spoiled => spoiled',
         \A c \in Clicks : \/ click'[c] = click[c]
                           \/ /\ ~Prepared(click'[c]) /\ ~Confirming(click'[c])
                              /\ Confirmed(c) => spoiled' \/ profile.loading
  PROVE  SetupInv'
<1>1. \A c \in Clicks : Confirmed(c) => Confirmed(c)' \/ spoiled' \/ profile.loading
  BY DEF Confirmed
<1>2. \A c \in Clicks : /\ Prepared(click'[c]) => click'[c] = click[c]
                        /\ Confirming(click'[c]) => click'[c] = click[c]
  OBVIOUS
<1>3. \A c \in Clicks : Prepared(click'[c]) =>
        /\ click'[c].given # card'.setup
        /\ \A d \in Clicks \ {c} :
             Prepared(click'[d]) \/ Confirming(click'[d]) => click'[d].given # click'[c].given
  BY <1>2 DEF SetupInv
<1>4. \A c \in Clicks :
        Confirming(click'[c]) /\ click'[c].mount # profile'.mount /\ card'.setup # 0 =>
          click'[c].given # card'.setup
  BY <1>2 DEF SetupInv
<1>5. ~profile'.loading /\ card'.setup # 0 =>
        card'.setup \in live' \/ spoiled' \/ \E c \in Clicks : Confirmed(c)'
  BY <1>1 DEF SetupInv
<1> QED BY <1>3, <1>4, <1>5 DEF SetupInv, Prepared, Confirming

LEMMA BannerStays ==
  ASSUME BannerInv, banner' = banner, asks' = asks, acked' = acked, heard' = heard,
         crossed' = crossed, lastLoad' = lastLoad, loads' \subseteq loads
  PROVE  BannerInv'
  BY DEF BannerInv, Asking

-----------------------------------------------------------------------------
(* The steps. *)

\* A button is pressed: it was free, so no other handler has its flag.
LEMMA PressStep ==
  ASSUME CardInv, NEW c \in Clicks, NEW op \in Ops, Press(c, op)
  PROVE  CardInv'
<1> USE DEF CardInv
<1>1. /\ CardTypes'
      /\ click'[c] \in ClickType /\ click'[c].pc = "sent" /\ click'[c].op = op
      /\ click'[c].mount = profile.mount /\ click'[c].given = card.setup
      /\ OthersStay(c) /\ click[c].pc = "idle"
      /\ card'.setup = card.setup /\ card'.loading = card.loading
      /\ card'.codes = card.codes
      /\ card'.shown = card.shown /\ card'.totpBusy = (card.totpBusy \/ op \in TotpOps)
  BY PressFacts
<1>2. /\ profile' = profile /\ loads' = loads /\ lastLoad' = lastLoad /\ live' = live
      /\ issued' = issued /\ banner' = banner /\ asks' = asks /\ acked' = acked /\ seen' = seen
      /\ gone' = gone /\ spoiled' = spoiled /\ crossed' = crossed /\ heard' = heard
  BY DEF Press, serverVars, bannerVars, hist
<1>3. /\ ~profile.loading /\ Mounted(profile.mount) /\ (op \in TotpOps => ~card.totpBusy)
      /\ card.shown # 0 /\ card.codes = 0
  BY DEF Press, Usable, Mounted, Free
<1>4. BusyInv'
  <2>1. \A d \in Clicks \ {c} : Totp(d)' <=> Totp(d) BY <1>1, <1>2 DEF Totp, OthersStay
  <2>2. (Totp(c)' <=> op \in TotpOps) /\ ~Totp(c) BY <1>1, <1>2 DEF Totp
  <2>3. \A l \in loads : l.by \in Clicks \cup {Nobody} BY DEF CardTypes, LoadOK, LoadRow
  <2>4. \A l \in loads : l.by # c BY <1>1, NobodyAssumption DEF BusyInv
  <2>5. \A l \in loads' : l.by # Nobody => click'[l.by].pc = "load" /\ click'[l.by].mount = l.mount
    BY <1>1, <1>2, <2>3, <2>4 DEF BusyInv, OthersStay
  <2>6. card.totpBusy <=> \E d \in Clicks : Totp(d) BY <1>3 DEF BusyInv
  <2>7. \A d, e \in Clicks : Totp(d)' /\ Totp(e)' => d = e
    <3>1. CASE op \in TotpOps BY <1>3, <2>1, <2>6, <3>1
    <3>2. CASE op \notin TotpOps BY <2>1, <2>2, <3>2 DEF BusyInv
    <3> QED BY <3>1, <3>2
  <2>8. card'.totpBusy <=> \E d \in Clicks : Totp(d)'
    <3>1. CASE op \in TotpOps BY <1>1, <2>2, <3>1
    <3>2. CASE op \notin TotpOps
      <4>1. card.totpBusy \in BOOLEAN BY DEF CardTypes, CardOK, CardType
      <4>2. card'.totpBusy <=> card.totpBusy BY <1>1, <3>2, <4>1
      <4> QED BY <2>1, <2>2, <2>6, <3>2, <4>2
    <3> QED BY <3>1, <3>2
  <2>9. Mounted(profile.mount)' => Mounted(profile.mount) BY <1>3
  <2> QED BY <1>1, <1>2, <2>5, <2>7, <2>8, <2>9 DEF BusyInv
<1>5. CodesReachUser' /\ DialogInv'
  <2>1. \A i \in 1..issued, d \in Clicks : Carries(d, i) => Carries(d, i)'
    BY <1>1 DEF Carries, OthersStay
  <2>2. CodesReachUser' BY <1>2, <1>3, <2>1, CodesStay
  <2>3. OnScreen' = OnScreen BY <1>1, <1>2 DEF OnScreen, Usable, Mounted
  <2> QED BY <1>1, <1>2, <1>3, <2>2, <2>3 DEF DialogInv
<1>6. SetupInv'
  <2>1. CASE op # "confirm"
    <3>1. ~Prepared(click'[c]) /\ ~Confirming(click'[c]) /\ ~Confirmed(c)
      BY <1>1, <2>1 DEF Prepared, Confirming, Confirmed
    <3> QED BY <1>1, <1>2, <3>1, SetupStays DEF OthersStay
  <2>2. CASE op = "confirm"
    <3>1. ~Prepared(click'[c]) /\ ~Confirmed(c) BY <1>1 DEF Prepared, Confirmed
    <3>2. \A d \in Clicks \ {c} : click'[d] = click[d] BY <1>1 DEF OthersStay
    <3>3. \A d \in Clicks : Confirmed(d) => Confirmed(d)' BY <1>2, <3>1, <3>2 DEF Confirmed
    <3>4. \A d \in Clicks : Prepared(click'[d]) =>
            /\ click'[d].given # card'.setup
            /\ \A e \in Clicks \ {d} :
                 Prepared(click'[e]) \/ Confirming(click'[e]) => click'[e].given # click'[d].given
      BY <1>1, <3>1, <3>2 DEF SetupInv
    <3>5. \A d \in Clicks :
            Confirming(click'[d]) /\ click'[d].mount # profile'.mount /\ card'.setup # 0 =>
              click'[d].given # card'.setup
      BY <1>1, <1>2, <3>2 DEF SetupInv
    <3>6. ~profile'.loading /\ card'.setup # 0 =>
            card'.setup \in live' \/ spoiled' \/ \E d \in Clicks : Confirmed(d)'
      BY <1>1, <1>2, <3>3 DEF SetupInv
    <3> QED BY <3>4, <3>5, <3>6 DEF SetupInv, Prepared, Confirming
  <2> QED BY <2>1, <2>2
<1>7. BannerInv' BY <1>2, BannerStays
<1> QED BY <1>1, <1>4, <1>5, <1>6, <1>7

\* The server answers.  A confirmation that uses up the setup on the screen is of its card.
LEMMA ServeStep ==
  ASSUME CardInv, NEW c \in Clicks, ServeClick(c)
  PROVE  CardInv'
<1> USE DEF CardInv
<1>1. CardTypes' /\ \E k : ServeOf(c, k) BY ServeFacts
<1>2. PICK k : ServeOf(c, k) BY <1>1
<1>3. /\ k \in ClickType /\ k.op = click[c].op /\ k.mount = click[c].mount /\ click[c].pc = "sent"
      /\ profile' = profile /\ card' = card /\ loads' = loads /\ lastLoad' = lastLoad
      /\ banner' = banner /\ asks' = asks /\ acked' = acked /\ seen' = seen /\ gone' = gone
      /\ crossed' = crossed /\ heard' = heard
  BY <1>2 DEF ServeOf, ServeRests
<1>4. click'[c] = k /\ (\A d \in Clicks \ {c} : click'[d] = click[d]) /\ k.pc \in {"ok", "no"}
  BY <1>2 DEF ServeOf, CardTypes, MakesSetup, MakesCodes, UsesUp, MakesNothing
<1>5. BusyInv'
  <2>1. \A l \in loads : l.by \in Clicks \cup {Nobody} BY DEF CardTypes, LoadOK, LoadRow
  <2>2. \A d \in Clicks : /\ click'[d].op = click[d].op /\ click'[d].mount = click[d].mount
                          /\ click'[d].pc = "idle" <=> click[d].pc = "idle"
                          /\ click[d].pc = "load" => click'[d].pc = "load"
    BY <1>3, <1>4
  <2> QED BY <1>3, <2>1, <2>2, BusyStays
<1>6. issued \in Nat /\ made \in Nat BY DEF CardTypes, ServerOK
<1>7. CodesReachUser' /\ DialogInv'
  <2>0. DialogInv' BY <1>3, <1>4, DialogStays
  <2>a. Underway' <=> Underway BY <1>3 DEF Underway, Mounted
  <2>1. \A i \in 1..issued, d \in Clicks : Carries(d, i) => Carries(d, i)'
    BY <1>3, <1>4 DEF Carries
  <2>2. CASE issued' = issued BY <1>3, <2>0, <2>a, <2>1, <2>2, CodesStay
  <2>3. CASE issued' # issued
    <3>1. MakesCodes(k) BY <1>2, <2>3 DEF ServeOf, MakesSetup, UsesUp, MakesNothing
    <3>2. PICK n : n = issued + 1 OBVIOUS
    <3>a. issued' = n /\ Carries(c, n)' BY <1>4, <3>1, <3>2 DEF MakesCodes, Carries
    <3>3. ASSUME NEW i \in 1..issued'
          PROVE  \/ i \in seen' \cup gone' \/ \E d \in Clicks : Carries(d, i)'
                 \/ i = card'.codes /\ Underway'
      <4>1. CASE i = n BY <3>a, <4>1
      <4>2. CASE i # n
        <5>1. i \in 1..issued BY <1>6, <3>2, <3>a, <4>2
        <5>2. \/ i \in seen \cup gone \/ \E d \in Clicks : Carries(d, i)
              \/ i = card.codes /\ Underway
          BY <5>1 DEF CodesReachUser, Carries, Underway
        <5> QED BY <1>3, <2>a, <2>1, <5>1, <5>2
      <4> QED BY <4>1, <4>2
    <3> QED BY <2>0, <3>3 DEF CodesReachUser, Carries, Underway
  <2> QED BY <2>2, <2>3
<1>8. SetupInv'
  <2>1. ~Confirmed(c) BY <1>3 DEF Confirmed
  <2>2. CASE MakesSetup(k)
    <3>1. k.op = "prepare" /\ k.pc = "ok" /\ k.given = made + 1 /\ live \subseteq live' /\ spoiled' = spoiled
      BY <2>2 DEF MakesSetup
    <3>2. card.setup \in Nat /\ card.setup <= made BY DEF CardTypes, CardOK, CardType
    <3>3. \A d \in Clicks : /\ click[d].given \in Nat
                            /\ Prepared(click[d]) \/ Confirming(click[d]) => click[d].given <= made
      BY DEF CardTypes, ClickOK, ClickType, Prepared, Confirming
    <3>4. ~Confirming(k) /\ Prepared(k) BY <3>1 DEF Confirming, Prepared
    <3>5. \A d \in Clicks : Prepared(click'[d]) =>
            /\ click'[d].given # card'.setup
            /\ \A e \in Clicks \ {d} :
                 Prepared(click'[e]) \/ Confirming(click'[e]) => click'[e].given # click'[d].given
      <4> SUFFICES ASSUME NEW d \in Clicks, Prepared(click'[d])
                   PROVE  /\ click'[d].given # card'.setup
                          /\ \A e \in Clicks \ {d} :
                               Prepared(click'[e]) \/ Confirming(click'[e]) =>
                                 click'[e].given # click'[d].given
        OBVIOUS
      <4>1. CASE d = c BY <1>3, <1>4, <1>6, <3>1, <3>2, <3>3, <4>1
      <4>2. CASE d # c
        <5>1. Prepared(click[d]) /\ click[d].given # card.setup /\ click[d].given <= made
          BY <1>4, <3>3, <4>2 DEF SetupInv
        <5>2. \A e \in Clicks \ {d} :
                Prepared(click[e]) \/ Confirming(click[e]) => click[e].given # click[d].given
          BY <5>1 DEF SetupInv
        <5>3. k.given # click[d].given BY <1>6, <3>1, <3>3, <5>1
        <5> QED BY <1>3, <1>4, <4>2, <5>1, <5>2, <5>3
      <4> QED BY <4>1, <4>2
    <3>6. \A d \in Clicks :
            Confirming(click'[d]) /\ click'[d].mount # profile'.mount /\ card'.setup # 0 =>
              click'[d].given # card'.setup
      BY <1>3, <1>4, <3>4 DEF SetupInv
    <3>7. \A d \in Clicks : Confirmed(d) => Confirmed(d)' BY <1>3, <1>4, <2>1 DEF Confirmed
    <3>8. ~profile'.loading /\ card'.setup # 0 =>
            card'.setup \in live' \/ spoiled' \/ \E d \in Clicks : Confirmed(d)'
      BY <1>3, <3>1, <3>7 DEF SetupInv
    <3> QED BY <3>5, <3>6, <3>8 DEF SetupInv, Prepared, Confirming
  <2>3. CASE UsesUp(c, k)
    <3>1. /\ k.op = "confirm" /\ k.pc \in {"ok", "no"} /\ live' = live \ {click[c].given}
          /\ k.pc = "no" => spoiled' = TRUE
      BY <2>3 DEF UsesUp
    <3>2. spoiled => spoiled'
      BY <1>2, <3>1 DEF ServeOf, MakesSetup, MakesCodes, UsesUp, MakesNothing
    <3>3. Confirming(click[c]) BY <1>3, <3>1 DEF Confirming
    <3>4. ~Prepared(k) /\ ~Confirming(k) BY <3>1 DEF Prepared, Confirming
    <3>5. \A d \in Clicks : /\ Prepared(click'[d]) => click'[d] = click[d]
                            /\ Confirming(click'[d]) => click'[d] = click[d]
      BY <1>4, <3>4
    <3>6. \A d \in Clicks : Prepared(click'[d]) =>
            /\ click'[d].given # card'.setup
            /\ \A e \in Clicks \ {d} :
                 Prepared(click'[e]) \/ Confirming(click'[e]) => click'[e].given # click'[d].given
      BY <1>3, <3>5 DEF SetupInv
    <3>7. \A d \in Clicks :
            Confirming(click'[d]) /\ click'[d].mount # profile'.mount /\ card'.setup # 0 =>
              click'[d].given # card'.setup
      BY <1>3, <3>5 DEF SetupInv
    <3>8. ASSUME ~profile'.loading, card'.setup # 0
          PROVE  card'.setup \in live' \/ spoiled' \/ \E d \in Clicks : Confirmed(d)'
      <4>1. CASE k.pc = "no" BY <3>1, <4>1
      <4>2. CASE k.pc = "ok" /\ k.mount = profile.mount
        BY <1>3, <1>4, <3>1, <4>2 DEF Confirmed
      <4>3. CASE k.pc = "ok" /\ k.mount # profile.mount
        <5>1. click[c].given # card.setup BY <1>3, <3>3, <3>8, <4>3 DEF SetupInv
        <5>2. \A d \in Clicks : Confirmed(d) => Confirmed(d)' BY <1>3, <1>4, <2>1 DEF Confirmed
        <5> QED BY <1>3, <3>1, <3>2, <3>8, <5>1, <5>2 DEF SetupInv
      <4> QED BY <3>1, <4>1, <4>2, <4>3
    <3> QED BY <3>6, <3>7, <3>8 DEF SetupInv, Prepared, Confirming
  <2>4. CASE ~MakesSetup(k) /\ ~UsesUp(c, k)
    <3>1. live' = live /\ spoiled' = spoiled /\ ~Prepared(k) /\ ~Confirming(k)
      BY <1>2, <2>4 DEF ServeOf, MakesCodes, MakesNothing, Prepared, Confirming, Issuing, KeyOps
    <3> QED BY <1>3, <1>4, <2>1, <3>1, SetupStays
  <2> QED BY <2>2, <2>3, <2>4
<1>9. BannerInv' BY <1>3, BannerStays
<1> QED BY <1>1, <1>5, <1>7, <1>8, <1>9

\* An answer that ends the handler.
LEMMA AtOnceStep ==
  ASSUME CardInv, NEW c \in Clicks, AnsweredAtOnce(c)
  PROVE  CardInv'
<1> USE DEF CardInv
<1>1. /\ CardTypes' /\ click'[c] = IdleClick /\ OthersStay(c)
      /\ click[c].pc = "ok" /\ click[c].op \in {"prepare", "rotate"}
      /\ ~Mounted(click[c].mount) => card' = card
      /\ Mounted(click[c].mount) =>
           /\ card'.loading = card.loading /\ card'.shown = card.shown
           /\ card'.totpBusy = FALSE
           /\ card'.setup = IF click[c].op = "prepare" THEN click[c].given ELSE card.setup
           /\ card'.codes = IF click[c].op = "rotate" THEN click[c].given ELSE card.codes
  BY AtOnceFacts
<1>2. /\ profile' = profile /\ loads' = loads /\ lastLoad' = lastLoad /\ live' = live
      /\ issued' = issued /\ banner' = banner /\ asks' = asks /\ acked' = acked
      /\ crossed' = crossed /\ heard' = heard
      /\ spoiled' = IF click[c].op = "prepare" /\ Mounted(click[c].mount)
                      THEN click[c].given \notin live ELSE spoiled
      /\ Seen(c)
  BY DEF AnsweredAtOnce, serverVars, bannerVars
<1>3. BusyInv'
  <2>1. click[c].op \in TotpOps BY <1>1 DEF TotpOps
  <2>2. Mounted(click[c].mount) =>
          card'.totpBusy = (card.totpBusy /\ click[c].op \notin TotpOps)
    BY <1>1, <2>1
  <2>3. card'.loading = card.loading BY <1>1
  <2> QED BY <1>1, <1>2, <2>2, <2>3, BusyLeaves
<1>4. CodesReachUser' /\ DialogInv'
  <2>1. seen' = seen \cup OnScreen' /\ gone \subseteq gone' BY <1>2 DEF Seen, Looks
  <2>2. CASE Mounted(click[c].mount) /\ click[c].op = "rotate"
    <3>1. Mounted(profile.mount) /\ Totp(c) BY <1>1, <2>2 DEF Mounted, Totp, TotpOps
    <3>2. card.loading => \E l \in loads : l.mount = profile.mount BY <3>1 DEF BusyInv
    <3>3. card'.loading \in BOOLEAN /\ click'[c].pc = "idle"
      BY <1>1 DEF CardTypes, CardOK, CardType, IdleClick
    <3> QED BY <1>1, <1>2, <2>1, <2>2, <3>1, <3>2, <3>3, CodesCome DEF Issuing
  <2>3. CASE ~(Mounted(click[c].mount) /\ click[c].op = "rotate")
    <3>1. card'.codes = card.codes /\ card'.shown = card.shown /\ card'.loading = card.loading
      BY <1>1, <2>3
    <3>2. DialogInv'
      <4>1. click'[c].pc = "idle" BY <1>1 DEF IdleClick
      <4>2. \A d \in Clicks \ {c} : click[d].pc = "idle" => click'[d].pc = "idle"
        BY <1>1 DEF OthersStay
      <4> QED BY <1>1, <1>2, <2>1, <3>1, <4>1, <4>2, DialogStays DEF OthersStay
    <3>3. ASSUME NEW i \in 1..issued, NEW d \in Clicks, Carries(d, i)
          PROVE  Carries(d, i)' \/ i \in seen' \cup gone'
      <4>1. CASE d = c BY <1>1, <1>2, <2>3, <3>3, <4>1 DEF Carries, Seen, Issuing
      <4>2. CASE d # c BY <1>1, <3>3, <4>2 DEF Carries, OthersStay
      <4> QED BY <4>1, <4>2
    <3>4. Underway' <=> Underway BY <1>2 DEF Underway, Mounted
    <3> QED BY <1>2, <2>1, <3>1, <3>2, <3>3, <3>4, CodesStay
  <2> QED BY <2>2, <2>3
<1>5. ~Prepared(IdleClick) /\ ~Confirming(IdleClick) BY DEF Prepared, Confirming, IdleClick
<1>6. ~Confirmed(c) BY <1>1 DEF Confirmed
<1>7. SetupInv'
  <2>1. CASE Mounted(click[c].mount) /\ click[c].op = "prepare"
    <3>1. Prepared(click[c]) BY <1>1, <2>1 DEF Prepared
    <3>2. card'.setup = click[c].given /\ (spoiled' <=> click[c].given \notin live)
      BY <1>1, <1>2, <2>1
    <3>3. \A d \in Clicks : Prepared(click'[d]) \/ Confirming(click'[d]) =>
            d # c /\ click'[d] = click[d]
      BY <1>1, <1>5 DEF OthersStay
    <3>4. \A d \in Clicks : Prepared(click'[d]) \/ Confirming(click'[d]) =>
            click'[d].given # card'.setup
      BY <3>1, <3>2, <3>3 DEF SetupInv
    <3>5. \A d \in Clicks : Prepared(click'[d]) =>
            \A e \in Clicks \ {d} :
               Prepared(click'[e]) \/ Confirming(click'[e]) => click'[e].given # click'[d].given
      BY <3>3 DEF SetupInv
    <3>6. card'.setup \in live' \/ spoiled' BY <1>2, <3>2
    <3> QED BY <3>4, <3>5, <3>6 DEF SetupInv, Prepared, Confirming
  <2>2. CASE ~(Mounted(click[c].mount) /\ click[c].op = "prepare")
    <3>1. card'.setup = card.setup /\ spoiled' = spoiled BY <1>1, <1>2, <2>2
    <3> QED BY <1>1, <1>2, <1>5, <1>6, <3>1, SetupStays DEF OthersStay
  <2> QED BY <2>1, <2>2
<1>8. BannerInv' BY <1>2, BannerStays
<1> QED BY <1>1, <1>3, <1>4, <1>7, <1>8

\* An answer after which the status is loaded: the load is newer than the change.
LEMMA ThenLoadStep ==
  ASSUME CardInv, NEW c \in Clicks, AnsweredThenLoad(c)
  PROVE  CardInv'
<1> USE DEF CardInv
<1>1. /\ CardTypes' /\ OthersStay(c) /\ LoadBegun(click[c].mount, c)
      /\ click[c].pc = "ok" /\ click[c].op \in Changes \cup KeyOps
      /\ click'[c].pc = "load" /\ click'[c].op = click[c].op
      /\ click'[c].mount = click[c].mount
      /\ ~Mounted(click[c].mount) => card' = card
      /\ Mounted(click[c].mount) =>
           /\ card'.loading = TRUE /\ card'.totpBusy = card.totpBusy
           /\ card'.setup = IF click[c].op = "confirm" THEN 0 ELSE card.setup
           /\ card'.codes = Dialog(c) /\ card'.shown = card.shown
      /\ acked' <= Now
  BY ThenLoadFacts
<1>2. /\ profile' = profile /\ live' = live /\ issued' = issued /\ banner' = banner
      /\ asks' = asks /\ crossed' = crossed /\ heard' = heard /\ spoiled' = spoiled /\ Seen(c)
  BY DEF AnsweredThenLoad, serverVars, bannerVars
<1>3. PICK m \in LoadRow :
        /\ m.n = lastLoad + 1 /\ m.mount = click[c].mount /\ m.from = Now /\ m.by = c
        /\ loads' = loads \cup {m}
  BY <1>1 DEF LoadBegun
<1>4. lastLoad' = lastLoad + 1 /\ lastLoad \in Nat /\ heard \in 0..lastLoad
  BY <1>1 DEF LoadBegun, CardTypes, PageOK
<1>5. BusyInv'
  <2>1. \A d \in Clicks : Totp(d)' <=> Totp(d) BY <1>1, <1>2 DEF Totp, OthersStay
  <2>2. \A l \in loads : l.by \in Clicks \cup {Nobody} BY DEF CardTypes, LoadOK, LoadRow
  <2>3. \A l \in loads : l.by # c BY <1>1, NobodyAssumption DEF BusyInv
  <2>4. \A l \in loads : l.by # Nobody => click'[l.by].pc = "load" /\ click'[l.by].mount = l.mount
    BY <1>1, <2>2, <2>3 DEF BusyInv, OthersStay
  <2>5. \A l \in loads' : l.by # Nobody => click'[l.by].pc = "load" /\ click'[l.by].mount = l.mount
    BY <1>1, <1>3, <2>4
  <2>6. \A l, n \in loads' : l.by = n.by /\ l.by # Nobody => l = n
    BY <1>3, <2>3 DEF BusyInv
  <2>7. ASSUME Mounted(profile.mount)'
        PROVE  /\ card'.loading => \E l \in loads' : l.mount = profile'.mount
               /\ card'.totpBusy <=> \E d \in Clicks : Totp(d)'
    <3>1. Mounted(profile.mount) /\ ~profile.loading BY <1>2, <2>7 DEF Mounted
    <3>2. /\ card.loading => \E l \in loads : l.mount = profile.mount
          /\ card.totpBusy <=> \E d \in Clicks : Totp(d)
      BY <3>1 DEF BusyInv
    <3>3. CASE click[c].mount = profile.mount
      <4>1. Mounted(click[c].mount) BY <3>1, <3>3
      <4> QED BY <1>1, <1>2, <1>3, <2>1, <3>2, <3>3, <4>1
    <3>4. CASE click[c].mount # profile.mount
      <4>1. card' = card BY <1>1, <3>4 DEF Mounted
      <4> QED BY <1>2, <1>3, <2>1, <3>2, <4>1
    <3> QED BY <3>3, <3>4
  <2>8. \A d, e \in Clicks : Totp(d)' /\ Totp(e)' => d = e BY <2>1 DEF BusyInv
  <2> QED BY <2>5, <2>6, <2>7, <2>8 DEF BusyInv
<1>6. CodesReachUser' /\ DialogInv'
  <2>1. seen' = seen \cup OnScreen' /\ gone \subseteq gone' BY <1>2 DEF Seen, Looks
  <2>2. CASE Shows(c)
    <3>1. Mounted(profile.mount) /\ Totp(c) /\ click[c].op \in Issuing
          /\ card'.codes = click[c].given /\ card'.shown = card.shown /\ card'.loading = TRUE
      BY <1>1, <2>2 DEF Mounted, Totp, Shows, Dialog, Issuing, TotpOps, Changes
    <3>2. \E l \in loads' : l.mount = profile.mount BY <1>3, <2>2 DEF Shows, Mounted
    <3> QED BY <1>1, <1>2, <2>1, <3>1, <3>2, CodesCome
  <2>3. CASE ~Shows(c)
    <3>1. card'.codes = card.codes /\ card'.shown = card.shown BY <1>1, <2>3 DEF Dialog
    <3>2. DialogInv'
      <4>1. /\ click'[c].op = click[c].op /\ click'[c].mount = click[c].mount
            /\ click[c].pc # "idle" /\ click'[c].pc = "load"
        BY <1>1
      <4>2. \A d \in Clicks \ {c} : click'[d] = click[d] BY <1>1 DEF OthersStay
      <4> QED BY <1>2, <2>1, <3>1, <4>1, <4>2, DialogStays
    <3>3. ASSUME NEW i \in 1..issued, NEW d \in Clicks, Carries(d, i)
          PROVE  Carries(d, i)' \/ i \in seen' \cup gone'
      <4>1. CASE d = c BY <1>2, <2>3, <3>3, <4>1 DEF Carries, Seen, Shows
      <4>2. CASE d # c BY <1>1, <3>3, <4>2 DEF Carries, OthersStay
      <4> QED BY <4>1, <4>2
    <3>4. Underway => Underway' BY <1>2, <1>3 DEF Underway, Mounted
    <3> QED BY <1>2, <2>1, <3>1, <3>2, <3>3, <3>4, CodesStay
  <2> QED BY <2>2, <2>3
<1>7. ~Prepared(click'[c]) /\ ~Confirming(click'[c]) BY <1>1 DEF Prepared, Confirming
<1>8. SetupInv'
  <2>1. CASE Mounted(click[c].mount) /\ click[c].op = "confirm"
    <3>1. card'.setup = 0 BY <1>1, <2>1
    <3>2. \A d \in Clicks : Prepared(click'[d]) \/ Confirming(click'[d]) =>
            d # c /\ click'[d] = click[d]
      BY <1>1, <1>7 DEF OthersStay
    <3>3. \A d \in Clicks : Prepared(click[d]) => 0 < click[d].given
      BY DEF CardTypes, ClickOK, Prepared
    <3>4. \A d \in Clicks : Prepared(click'[d]) =>
            /\ click'[d].given # card'.setup
            /\ \A e \in Clicks \ {d} :
                 Prepared(click'[e]) \/ Confirming(click'[e]) => click'[e].given # click'[d].given
      BY <3>1, <3>2, <3>3 DEF SetupInv
    <3> QED BY <3>1, <3>4 DEF SetupInv, Prepared, Confirming
  <2>2. CASE ~(Mounted(click[c].mount) /\ click[c].op = "confirm")
    <3>1. card'.setup = card.setup BY <1>1, <2>2
    <3>2. Confirmed(c) => profile.loading BY <2>2 DEF Confirmed, Mounted
    <3> QED BY <1>1, <1>2, <1>7, <3>1, <3>2, SetupStays DEF OthersStay
  <2> QED BY <2>1, <2>2
<1>9. BannerInv'
  <2>1. \A l \in loads : l.n <= lastLoad /\ l.n \in Nat BY DEF CardTypes, LoadOK, LoadRow
  <2>2. \A l \in loads' : l.n = lastLoad' => acked' <= l.from BY <1>1, <1>3, <1>4, <2>1
  <2>3. heard' # lastLoad' BY <1>2, <1>4
  <2> QED BY <2>2, <2>3 DEF BannerInv
<1> QED BY <1>1, <1>5, <1>6, <1>8, <1>9

\* No answer, or a refusal.
LEMMA UnansweredStep ==
  ASSUME CardInv, NEW c \in Clicks, Unanswered(c)
  PROVE  CardInv'
<1> USE DEF CardInv
<1>1. /\ CardTypes' /\ click'[c] = IdleClick /\ OthersStay(c)
      /\ ~Mounted(click[c].mount) => card' = card
      /\ card'.loading = card.loading /\ card'.shown = card.shown /\ card'.setup = card.setup
      /\ card'.codes = card.codes
      /\ Mounted(click[c].mount) =>
           card'.totpBusy = (card.totpBusy /\ click[c].op \notin TotpOps)
  BY UnansweredFacts
<1>2. /\ profile' = profile /\ loads' = loads /\ lastLoad' = lastLoad /\ live' = live
      /\ issued' = issued /\ banner' = banner /\ asks' = asks /\ acked' = acked /\ seen' = seen
      /\ crossed' = crossed /\ heard' = heard /\ click[c].pc \in {"sent", "ok", "no"}
      /\ gone' = IF click[c].pc = "ok" /\ click[c].op \in Issuing
                   THEN gone \cup {click[c].given} ELSE gone
      /\ spoiled' = (spoiled \/ (click[c].op = "confirm" /\ click[c].pc # "no"))
  BY DEF Unanswered, serverVars, bannerVars
<1>3. BusyInv' BY <1>1, <1>2, BusyLeaves
<1>4. CodesReachUser' /\ DialogInv'
  <2>1. ASSUME NEW i \in 1..issued, NEW d \in Clicks, Carries(d, i)
        PROVE  Carries(d, i)' \/ i \in seen' \cup gone'
    <3>1. CASE d = c BY <1>2, <2>1, <3>1 DEF Carries
    <3>2. CASE d # c BY <1>1, <2>1, <3>2 DEF Carries, OthersStay
    <3> QED BY <3>1, <3>2
  <2>2. seen \subseteq seen' /\ gone \subseteq gone' BY <1>2
  <2>3. Underway' <=> Underway BY <1>2 DEF Underway, Mounted
  <2>4. CodesReachUser' BY <1>1, <1>2, <2>1, <2>2, <2>3, CodesStay
  <2>5. click'[c].pc = "idle" /\ \A d \in Clicks \ {c} : click'[d] = click[d]
    BY <1>1 DEF IdleClick, OthersStay
  <2> QED BY <1>1, <1>2, <2>2, <2>4, <2>5, DialogStays
<1>5. SetupInv'
  <2>1. ~Prepared(click'[c]) /\ ~Confirming(click'[c])
    BY <1>1 DEF Prepared, Confirming, IdleClick
  <2>2. (spoiled => spoiled') /\ (Confirmed(c) => spoiled') BY <1>2 DEF Confirmed
  <2> QED BY <1>1, <1>2, <2>1, <2>2, SetupStays DEF OthersStay
<1>6. BannerInv' BY <1>2, BannerStays
<1> QED BY <1>1, <1>3, <1>4, <1>5, <1>6

\* A load ends: the loading line goes, and the flag of the handler that awaited it.
LEMMA LoadKeeps ==
  ASSUME CardInv, NEW l \in loads, NEW v \in 0..Now, EndLoad(l, v), LoadDone(l, v),
         card.shown # 0 => v # 0
  PROVE  BusyInv' /\ CodesReachUser' /\ DialogInv' /\ SetupInv'
<1> USE DEF CardInv
<1>1. /\ profile' = profile /\ live' = live /\ issued' = issued /\ gone' = gone
      /\ spoiled' = spoiled /\ seen' = seen \cup OnScreen'
  BY DEF EndLoad, Looks, serverVars
<1>2. l.by \in Clicks \cup {Nobody} BY DEF CardTypes, LoadOK, LoadRow
<1>3. l.by \in Clicks => click[l.by].pc = "load" /\ click[l.by].mount = l.mount
  BY NobodyAssumption DEF BusyInv
<1>4. \A d \in Clicks :
        IF d = l.by THEN click'[d] = IdleClick ELSE click'[d] = click[d]
  BY <1>2, NobodyAssumption DEF LoadDone, OthersStay
<1>5. loads' = loads \ {l} /\ card'.setup = card.setup /\ card'.codes = card.codes BY DEF LoadDone
<1>6. BusyInv'
  <2>1. \A d \in Clicks : Totp(d)' <=> Totp(d) /\ d # l.by BY <1>1, <1>4 DEF Totp, IdleClick
  <2>2. \A m \in loads : m.by \in Clicks \cup {Nobody} BY DEF CardTypes, LoadOK, LoadRow
  <2>3. \A m \in loads' : m.by # Nobody => m.by # l.by BY <1>5 DEF BusyInv
  <2>4. \A m \in loads' : m.by # Nobody => click'[m.by].pc = "load" /\ click'[m.by].mount = m.mount
    BY <1>4, <1>5, <2>2, <2>3 DEF BusyInv
  <2>5. ASSUME Mounted(profile.mount)'
        PROVE  /\ card'.loading => \E m \in loads' : m.mount = profile'.mount
               /\ card'.totpBusy <=> \E d \in Clicks : Totp(d)'
    <3>1. Mounted(profile.mount) /\ ~profile.loading BY <1>1, <2>5 DEF Mounted
    <3>2. /\ card.loading => \E m \in loads : m.mount = profile.mount
          /\ card.totpBusy <=> \E d \in Clicks : Totp(d)
      BY <3>1 DEF BusyInv
    <3>3. CASE l.mount = profile.mount
      <4>1. /\ card'.loading = FALSE
            /\ card'.totpBusy = (card.totpBusy /\ ~(l.by \in Clicks /\ click[l.by].op \in TotpOps))
        BY <3>1, <3>3 DEF LoadDone
      <4>2. l.by \in Clicks => (Totp(l.by) <=> click[l.by].op \in TotpOps)
        BY <1>3, <3>3 DEF Totp
      <4>3. CASE l.by \in Clicks /\ click[l.by].op \in TotpOps
        <5>1. ~card'.totpBusy BY <4>1, <4>3
        <5>2. \A d \in Clicks : Totp(d) => d = l.by BY <4>2, <4>3 DEF BusyInv
        <5> QED BY <2>1, <4>1, <5>1, <5>2
      <4>4. CASE ~(l.by \in Clicks /\ click[l.by].op \in TotpOps)
        <5>1. card.totpBusy \in BOOLEAN BY DEF CardTypes, CardOK, CardType
        <5>2. card'.totpBusy <=> card.totpBusy BY <4>1, <4>4, <5>1
        <5>3. \A d \in Clicks : Totp(d)' <=> Totp(d) BY <2>1, <4>2, <4>4
        <5> QED BY <3>2, <4>1, <5>2, <5>3
      <4> QED BY <4>3, <4>4
    <3>4. CASE l.mount # profile.mount
      <4>1. card' = card BY <3>4 DEF LoadDone, Mounted
      <4>2. l.by \in Clicks => ~Totp(l.by) BY <1>3, <3>4 DEF Totp
      <4>3. \A d \in Clicks : Totp(d)' <=> Totp(d) BY <2>1, <4>2
      <4>4. card.loading => \E m \in loads' : m.mount = profile.mount BY <1>5, <3>2, <3>4
      <4> QED BY <1>1, <3>2, <4>1, <4>3, <4>4
    <3> QED BY <3>3, <3>4
  <2>6. \A d, e \in Clicks : Totp(d)' /\ Totp(e)' => d = e BY <2>1 DEF BusyInv
  <2>7. \A m, n \in loads' : m.by = n.by /\ m.by # Nobody => m = n BY <1>5 DEF BusyInv
  <2> QED BY <2>4, <2>5, <2>6, <2>7 DEF BusyInv
<1>7. CodesReachUser' /\ DialogInv'
  <2>1. \A i \in 1..issued, d \in Clicks : Carries(d, i) => Carries(d, i)'
    BY <1>3, <1>4 DEF Carries
  <2>2. ~profile.loading /\ card.shown # 0 => card'.shown # 0 BY DEF LoadDone
  <2>3. \/ card.codes \in {0} \cup seen'
        \/ ~Underway
        \/ Underway'
    <3>1. CASE Mounted(l.mount) /\ card.codes # 0
      <4>1. ~profile.loading /\ card.shown # 0 BY <3>1 DEF Mounted, DialogInv
      <4>2. card'.loading = FALSE BY <3>1 DEF LoadDone
      <4>3. Usable' BY <1>1, <2>2, <4>1, <4>2 DEF Usable, Mounted
      <4> QED BY <1>1, <1>5, <3>1, <4>3 DEF OnScreen
    <3>2. CASE ~Mounted(l.mount) BY <1>1, <1>5, <3>2 DEF Underway, Mounted
    <3> QED BY <3>1, <3>2
  <2>4. CodesReachUser' BY <1>1, <1>5, <2>1, <2>3, CodesStay
  <2>5. \A d \in Clicks : click'[d].pc # "idle" => click'[d] = click[d]
    BY <1>4 DEF IdleClick
  <2>6. \A d \in Clicks : Totp(d)' => Totp(d) /\ click'[d] = click[d]
    BY <1>1, <2>5 DEF Totp
  <2>7. DialogInv' BY <1>1, <1>5, <2>2, <2>5, <2>6 DEF DialogInv
  <2> QED BY <2>4, <2>7
<1>8. SetupInv'
  <2>1. \A d \in Clicks : \/ click'[d] = click[d]
                          \/ ~Prepared(click'[d]) /\ ~Confirming(click'[d]) /\ ~Confirmed(d)
    BY <1>3, <1>4 DEF Prepared, Confirming, Confirmed, IdleClick
  <2> QED BY <1>1, <1>5, <2>1, SetupStays
<1> QED BY <1>6, <1>7, <1>8

LEMMA LoadStep ==
  ASSUME CardInv, LoadAnswered \/ LoadFailed
  PROVE  CardInv'
<1> USE DEF CardInv
<1>1. /\ banner \in [shown: Nat, seq: Nat, dismissed: BOOLEAN] /\ banner.shown <= Now
      /\ card.shown \in Nat /\ card.shown <= Now /\ Now \in Nat
  BY NowNat DEF CardTypes, BannerOK, CardOK, CardType, ServerOK
<1>2. CASE LoadAnswered
  <2>1. PICK l \in loads : \E v \in l.from..Now :
          EndLoad(l, v) /\ banner' = Broadcast(v) /\ crossed' = Asking /\ heard' = l.n
    BY <1>2 DEF LoadAnswered
  <2>2. PICK v \in l.from..Now :
          EndLoad(l, v) /\ banner' = Broadcast(v) /\ crossed' = Asking /\ heard' = l.n
    BY <2>1
  <2>3. l.from \in Nat /\ l.from > 0 BY DEF CardTypes, LoadOK, LoadRow
  <2>4. v \in 0..Now /\ l.from <= v /\ v > 0 BY <1>1, <2>3
  <2>5. /\ UNCHANGED serverVars /\ asks' = asks /\ acked' = acked /\ lastLoad' = lastLoad
        /\ loads' = loads \ {l}
    BY <2>2 DEF EndLoad
  <2>6. Now' = Now BY <2>5, ServerStays
  <2>7. /\ banner' \in [shown: Nat, seq: Nat, dismissed: BOOLEAN] /\ banner'.shown = v
        /\ banner'.seq = banner.seq
    BY <1>1, <2>2, <2>4 DEF Broadcast
  <2>8. BannerOK' BY <1>1, <2>4, <2>5, <2>6, <2>7 DEF CardTypes, BannerOK, AskOK
  <2>9. CardTypes' /\ LoadDone(l, v) BY <2>2, <2>4, <2>8, EndLoadFacts
  <2>10. BusyInv' /\ CodesReachUser' /\ DialogInv' /\ SetupInv'
    BY <2>2, <2>4, <2>9, LoadKeeps
  <2>11. BannerInv'
    <3>1. \A m \in loads' : m.n = lastLoad' => acked' <= m.from BY <2>5 DEF BannerInv
    <3>2. ASSUME heard' = lastLoad', ~crossed'
          PROVE  /\ \A a \in asks' : a.id = banner'.seq => acked' <= a.from
                 /\ acked' <= banner'.shown
      <4>1. \A a \in asks : a.id # banner.seq BY <2>2, <3>2 DEF Asking
      <4>2. acked <= l.from BY <2>2, <2>5, <3>2 DEF BannerInv
      <4>3. acked \in Nat BY DEF CardTypes, PageOK
      <4> QED BY <2>3, <2>4, <2>5, <2>7, <4>1, <4>2, <4>3
    <3> QED BY <3>1, <3>2 DEF BannerInv
  <2> QED BY <2>9, <2>10, <2>11
<1>3. CASE LoadFailed
  <2>1. PICK l \in loads :
          EndLoad(l, card.shown) /\ banner' = banner /\ crossed' = crossed /\ heard' = heard
    BY <1>3 DEF LoadFailed
  <2>2. card.shown \in 0..Now BY <1>1
  <2>3. /\ UNCHANGED serverVars /\ asks' = asks /\ acked' = acked /\ lastLoad' = lastLoad
        /\ loads' = loads \ {l}
    BY <2>1 DEF EndLoad
  <2>4. Now' = Now BY <2>3, ServerStays
  <2>5. BannerOK' BY <2>1, <2>3, <2>4 DEF CardTypes, BannerOK, AskOK
  <2>6. CardTypes' /\ LoadDone(l, card.shown) BY <2>1, <2>2, <2>5, EndLoadFacts
  <2>7. BusyInv' /\ CodesReachUser' /\ DialogInv' /\ SetupInv'
    BY <2>1, <2>2, <2>6, LoadKeeps
  <2>8. BannerInv' BY <2>1, <2>3, BannerStays
  <2> QED BY <2>6, <2>7, <2>8
<1> QED BY <1>2, <1>3

\* The flag changes elsewhere, or a challenge expires: the page does not move.
LEMMA ElsewhereStep ==
  ASSUME CardInv, OtherDevice \/ Expire
  PROVE  CardInv'
<1> USE DEF CardInv
<1>1. /\ profile' = profile /\ card' = card /\ loads' = loads /\ lastLoad' = lastLoad
      /\ click' = click /\ banner' = banner /\ asks' = asks /\ made' = made /\ issued' = issued
      /\ acked' = acked /\ seen' = seen /\ gone' = gone /\ crossed' = crossed /\ heard' = heard
  BY DEF OtherDevice, Expire, bannerVars, hist
<1>2. /\ enabled' \in Seq(BOOLEAN) /\ live' \subseteq live /\ Now \in Nat /\ Now' \in Nat
      /\ Now <= Now'
  <2>1. enabled \in Seq(BOOLEAN) /\ Now \in Nat BY NowNat DEF CardTypes, ServerOK
  <2>2. CASE OtherDevice
    <3>1. PICK on \in BOOLEAN : enabled' = Append(enabled, on) BY <2>2 DEF OtherDevice
    <3>2. enabled' \in Seq(BOOLEAN) /\ Now' = Now + 1 BY <2>1, <3>1, AppendNow
    <3> QED BY <2>1, <2>2, <3>2 DEF OtherDevice
  <2>3. CASE Expire
    <3>1. enabled' = enabled /\ live' \subseteq live BY <2>3 DEF Expire
    <3> QED BY <2>1, <3>1, SameNow
  <2> QED BY <2>2, <2>3
<1>3. CardTypes'
  <2>1. ServerOK' BY <1>1, <1>2 DEF CardTypes, ServerOK
  <2>2. profile.mount \in Nat /\ made \in Nat /\ issued \in Nat /\ lastLoad \in Nat
    BY DEF CardTypes, PageOK, ServerOK
  <2>3. Grow BY <1>1, <1>2, <2>2 DEF Grow
  <2>4. PageOK' /\ CardOK' /\ BannerOK' /\ \A l \in loads' : LoadOK(l)'
    BY <1>1, <2>1, <2>2, <2>3, Growing
  <2> QED BY <1>1, <2>1, <2>3, <2>4, TypesRest
<1>4. BusyInv'
  <2>1. \A l \in loads : l.by \in Clicks \cup {Nobody} BY DEF CardTypes, LoadOK, LoadRow
  <2> QED BY <1>1, <2>1, BusyStays
<1>5. CodesReachUser' /\ DialogInv'
  <2>1. \A i \in 1..issued, c \in Clicks : Carries(c, i) => Carries(c, i)' BY <1>1 DEF Carries
  <2>2. Underway' <=> Underway BY <1>1 DEF Underway, Mounted
  <2>3. CodesReachUser' BY <1>1, <2>1, <2>2, CodesStay
  <2> QED BY <1>1, <2>3, DialogStays
<1>6. SetupInv'
  <2>1. CASE OtherDevice
    <3>1. live' = live /\ spoiled' = spoiled BY <2>1 DEF OtherDevice, hist
    <3> QED BY <1>1, <3>1, SetupStays
  <2>2. CASE Expire
    <3>1. PICK id \in live : live' = live \ {id} /\ spoiled' = (spoiled \/ card.setup = id)
      BY <2>2 DEF Expire
    <3>2. \A c \in Clicks : Confirmed(c)' <=> Confirmed(c) BY <1>1 DEF Confirmed
    <3>3. ~profile'.loading /\ card'.setup # 0 =>
            card'.setup \in live' \/ spoiled' \/ \E c \in Clicks : Confirmed(c)'
      BY <1>1, <3>1, <3>2 DEF SetupInv
    <3> QED BY <1>1, <3>3 DEF SetupInv, Prepared, Confirming
  <2> QED BY <2>1, <2>2
<1>7. BannerInv' BY <1>1, BannerStays
<1> QED BY <1>3, <1>4, <1>5, <1>6, <1>7

\* The dialog is closed: its codes have been seen.
LEMMA CloseStep ==
  ASSUME CardInv, CloseCodes
  PROVE  CardInv'
<1> USE DEF CardInv
<1>1. /\ profile' = profile /\ loads' = loads /\ lastLoad' = lastLoad /\ click' = click
      /\ banner' = banner /\ asks' = asks /\ made' = made /\ issued' = issued /\ acked' = acked
      /\ seen' = seen /\ gone' = gone /\ crossed' = crossed /\ heard' = heard
      /\ live' = live /\ spoiled' = spoiled /\ UNCHANGED serverVars
  BY DEF CloseCodes, bannerVars, hist, serverVars
<1>2. card \in CardType /\ Usable /\ card.codes # 0
  BY DEF CloseCodes, CardTypes, CardOK
<1>3. /\ card' \in CardType /\ card'.codes = 0 /\ card'.loading = card.loading
      /\ card'.shown = card.shown /\ card'.setup = card.setup /\ card'.totpBusy = card.totpBusy
  BY <1>2 DEF CloseCodes, CardType
<1>4. CardTypes'
  <2>1. /\ ServerOK' /\ Now' = Now /\ made' = made /\ Now \in Nat /\ made \in Nat
        /\ issued' = issued /\ issued \in Nat
    BY <1>1, ServerStays
  <2>2. profile.mount \in Nat /\ lastLoad \in Nat BY DEF CardTypes, PageOK
  <2>3. Grow BY <1>1, <2>1, <2>2 DEF Grow
  <2>4. CardOK' BY <1>3, <2>1 DEF CardTypes, CardOK
  <2>5. PageOK' /\ BannerOK' /\ \A l \in loads' : LoadOK(l)'
    BY <1>1, <2>1, <2>2, <2>3, Growing
  <2> QED BY <1>1, <2>1, <2>3, <2>4, <2>5, TypesRest
<1>5. BusyInv'
  <2>1. \A l \in loads : l.by \in Clicks \cup {Nobody} BY DEF CardTypes, LoadOK, LoadRow
  <2> QED BY <1>1, <1>3, <2>1, BusyStays
<1>6. CodesReachUser' /\ DialogInv'
  <2>1. \A i \in 1..issued, c \in Clicks : Carries(c, i) => Carries(c, i)' BY <1>1 DEF Carries
  <2>2. card.codes \in seen BY <1>2 DEF DialogInv, OnScreen
  <2>3. CodesReachUser' BY <1>1, <2>1, <2>2, CodesStay
  <2>4. OnScreen' = {} BY <1>3 DEF OnScreen
  <2> QED BY <1>1, <1>3, <2>3, <2>4 DEF DialogInv
<1>7. SetupInv' BY <1>1, <1>3, SetupStays
<1>8. BannerInv' BY <1>1, BannerStays
<1> QED BY <1>4, <1>5, <1>6, <1>7, <1>8

\* The page goes into loading: the card stays as it was, off the screen.
LEMMA ReloadStep ==
  ASSUME CardInv, Reload
  PROVE  CardInv'
<1> USE DEF CardInv
<1>1. /\ card' = card /\ loads' = loads /\ lastLoad' = lastLoad
      /\ click' = click /\ banner' = banner /\ asks' = asks /\ made' = made /\ issued' = issued
      /\ acked' = acked /\ seen' = seen /\ crossed' = crossed /\ heard' = heard
      /\ gone' = gone \cup ({card.codes} \ ({0} \cup seen))
      /\ live' = live /\ spoiled' = spoiled /\ UNCHANGED serverVars
  BY DEF Reload, bannerVars, hist, serverVars
<1>2. profile' \in [loading: BOOLEAN, mount: Nat] /\ profile'.loading = TRUE
      /\ profile'.mount = profile.mount /\ profile.mount \in Nat /\ profile.mount > 0
  BY DEF Reload, CardTypes, PageOK
<1>3. CardTypes'
  <2>1. /\ ServerOK' /\ Now' = Now /\ made' = made /\ Now \in Nat /\ made \in Nat
        /\ issued' = issued /\ issued \in Nat
    BY <1>1, ServerStays
  <2>2. lastLoad \in Nat BY DEF CardTypes, PageOK
  <2>3. Grow BY <1>1, <1>2, <2>1, <2>2 DEF Grow
  <2>4. PageOK' BY <1>1, <1>2, <2>1 DEF CardTypes, PageOK
  <2>5. CardOK' /\ BannerOK' /\ \A l \in loads' : LoadOK(l)'
    BY <1>1, <1>2, <2>1, <2>2, <2>3, Growing
  <2> QED BY <1>1, <2>1, <2>3, <2>4, <2>5, TypesRest
<1>4. BusyInv'
  <2>1. \A c \in Clicks : Totp(c)' <=> Totp(c) BY <1>1, <1>2 DEF Totp
  <2>2. ~Mounted(profile.mount)' BY <1>2 DEF Mounted
  <2> QED BY <1>1, <2>1, <2>2 DEF BusyInv
<1>5. CodesReachUser' /\ DialogInv'
  <2>1. \A i \in 1..issued, c \in Clicks : Carries(c, i) => Carries(c, i)' BY <1>1 DEF Carries
  <2>2. card.codes \in {0} \cup seen' \cup gone' /\ gone \subseteq gone' BY <1>1
  <2>3. OnScreen' = {} BY <1>2 DEF OnScreen, Usable, Mounted
  <2> QED BY <1>1, <1>2, <2>1, <2>2, <2>3, CodesStay DEF DialogInv
<1>6. SetupInv' BY <1>1, <1>2, SetupStays
<1>7. BannerInv' BY <1>1, BannerStays
<1> QED BY <1>3, <1>4, <1>5, <1>6, <1>7

\* The page is back with a new card: no handler under way is of it.
LEMMA ReloadedStep ==
  ASSUME CardInv, Reloaded
  PROVE  CardInv'
<1> USE DEF CardInv
<1>1. /\ click' = click /\ banner' = banner /\ asks' = asks /\ made' = made /\ issued' = issued
      /\ acked' = acked /\ seen' = seen /\ gone' = gone /\ crossed' = crossed /\ heard' = heard
      /\ live' = live /\ spoiled' = spoiled /\ UNCHANGED serverVars /\ card' = NewCard
      /\ profile' = [loading |-> FALSE, mount |-> profile.mount + 1]
      /\ StartLoad(profile.mount + 1, Nobody)
  BY DEF Reloaded, bannerVars, hist, serverVars
<1>2. profile.mount \in Nat /\ profile.mount > 0 /\ lastLoad \in Nat /\ heard \in 0..lastLoad
      /\ acked \in 0..Now
  BY DEF CardTypes, PageOK
<1>3. profile' \in [loading: BOOLEAN, mount: Nat] /\ profile'.loading = FALSE
      /\ profile'.mount = profile.mount + 1
  BY <1>1, <1>2
<1>4. /\ ServerOK' /\ Now' = Now /\ made' = made /\ Now \in Nat /\ made \in Nat /\ Now > 0
      /\ issued' = issued /\ issued \in Nat
  BY <1>1, ServerStays DEF CardTypes, ServerOK
<1>5. PICK m \in LoadRow :
        /\ m.n = lastLoad + 1 /\ m.mount = profile.mount + 1 /\ m.from = Now /\ m.by = Nobody
        /\ loads' = loads \cup {m} /\ lastLoad' = lastLoad + 1
  <2>1. profile.mount + 1 \in Nat BY <1>2
  <2> QED BY <1>1, <2>1, Starting DEF LoadBegun
<1>6. /\ NewCard \in CardType /\ NewCard.loading = TRUE /\ NewCard.shown = 0
      /\ NewCard.setup = 0 /\ NewCard.codes = 0 /\ NewCard.totpBusy = FALSE
  BY DEF NewCard, CardType
<1>7. CardTypes'
  <2>1. Grow BY <1>2, <1>3, <1>4, <1>5 DEF Grow
  <2>2. PageOK' BY <1>1, <1>2, <1>3, <1>4, <1>5 DEF PageOK
  <2>3. CardOK' BY <1>1, <1>4, <1>6 DEF CardOK
  <2>4. BannerOK' /\ \A l \in loads : LoadOK(l)'
    BY <1>1, <1>2, <1>3, <1>4, <1>5, <2>1, Growing
  <2>5. LoadOK(m)' BY <1>2, <1>3, <1>4, <1>5 DEF LoadOK
  <2>6. \A l \in loads' : LoadOK(l)' BY <1>5, <2>4, <2>5
  <2> QED BY <1>1, <1>4, <2>1, <2>2, <2>3, <2>4, <2>6, TypesRest
<1>8. BusyInv'
  <2>1. \A c \in Clicks : click[c].mount <= profile.mount /\ click[c].mount \in Nat
    BY DEF CardTypes, ClickOK, ClickType
  <2>2. \A c \in Clicks : ~Totp(c)' BY <1>1, <1>2, <1>3, <2>1 DEF Totp
  <2>3. \A l \in loads' : l.by # Nobody => click'[l.by].pc = "load" /\ click'[l.by].mount = l.mount
    BY <1>1, <1>5 DEF BusyInv
  <2>4. \A l, n \in loads' : l.by = n.by /\ l.by # Nobody => l = n BY <1>5 DEF BusyInv
  <2>5. \E l \in loads' : l.mount = profile'.mount BY <1>3, <1>5
  <2>6. card'.totpBusy = FALSE BY <1>1, <1>6
  <2> QED BY <2>2, <2>3, <2>4, <2>5, <2>6 DEF BusyInv
<1>9. CodesReachUser' /\ DialogInv'
  <2>1. \A i \in 1..issued, c \in Clicks : Carries(c, i) => Carries(c, i)' BY <1>1 DEF Carries
  <2>2. ~Underway BY DEF Reloaded, Underway, Mounted
  <2>3. CodesReachUser' BY <1>1, <2>1, <2>2, CodesStay
  <2>4. OnScreen' = {} /\ card'.codes = 0 BY <1>1, <1>6 DEF OnScreen, Usable
  <2>5. \A c \in Clicks : click'[c].mount # profile'.mount
    BY <1>1, <1>2, <1>3 DEF CardTypes, ClickOK, ClickType
  <2> QED BY <2>3, <2>4, <2>5 DEF DialogInv
<1>10. SetupInv'
  <2>1. card'.setup = 0 BY <1>1, <1>6
  <2>2. \A c \in Clicks : Prepared(click[c]) => 0 < click[c].given
    BY DEF CardTypes, ClickOK, Prepared
  <2>3. \A c \in Clicks : Prepared(click'[c]) =>
          /\ click'[c].given # card'.setup
          /\ \A d \in Clicks \ {c} :
               Prepared(click'[d]) \/ Confirming(click'[d]) => click'[d].given # click'[c].given
    BY <1>1, <2>1, <2>2 DEF SetupInv
  <2> QED BY <2>1, <2>3 DEF SetupInv, Prepared, Confirming
<1>11. BannerInv'
  <2>1. \A l \in loads : l.n <= lastLoad /\ l.n \in Nat BY DEF CardTypes, LoadOK, LoadRow
  <2>2. \A l \in loads' : l.n = lastLoad' => acked' <= l.from BY <1>1, <1>2, <1>5, <2>1
  <2>3. heard' # lastLoad' BY <1>1, <1>2, <1>5
  <2> QED BY <2>2, <2>3 DEF BannerInv
<1> QED BY <1>7, <1>8, <1>9, <1>10, <1>11

\* The banner fetches, hears and goes.
LEMMA BannerStep ==
  ASSUME CardInv, Visible \/ BannerAnswered \/ Dismiss
  PROVE  CardInv'
<1> USE DEF CardInv
<1>1. /\ profile' = profile /\ card' = card /\ loads' = loads /\ lastLoad' = lastLoad
      /\ click' = click /\ made' = made /\ issued' = issued /\ live' = live /\ spoiled' = spoiled
      /\ acked' = acked /\ seen' = seen /\ gone' = gone /\ heard' = heard /\ UNCHANGED serverVars
  BY DEF Visible, BannerAnswered, Dismiss, hist, serverVars
<1>2. /\ ServerOK' /\ Now' = Now /\ made' = made /\ Now \in Nat /\ made \in Nat
      /\ issued' = issued /\ issued \in Nat
  BY <1>1, ServerStays
<1>3. /\ banner \in [shown: Nat, seq: Nat, dismissed: BOOLEAN] /\ banner.shown <= Now
      /\ (\A a \in asks : AskOK(a)) /\ acked \in 0..Now /\ Now > 0
  BY DEF CardTypes, BannerOK, PageOK, ServerOK
<1>4. BannerOK' /\ BannerInv'
  <2>1. \A l \in loads' : l.n = lastLoad' => acked' <= l.from BY <1>1 DEF BannerInv
  <2>2. CASE Visible
    <3>0. PICK a : a = [id |-> banner.seq + 1, from |-> Now] OBVIOUS
    <3>1. /\ banner' \in [shown: Nat, seq: Nat, dismissed: BOOLEAN]
          /\ banner'.shown = banner.shown /\ banner'.seq = banner.seq + 1
          /\ asks' = asks \cup {a}
      BY <1>3, <2>2, <3>0 DEF Visible
    <3>2. a \in [id: Nat, from: Nat] /\ a.id = banner.seq + 1 /\ a.from = Now BY <1>2, <1>3, <3>0
    <3>3. AskOK(a)' BY <1>2, <1>3, <3>1, <3>2 DEF AskOK
    <3>4. \A b \in asks : AskOK(b)' BY <1>2, <1>3, <3>1 DEF AskOK
    <3>5. BannerOK' BY <1>2, <1>3, <3>1, <3>3, <3>4 DEF BannerOK
    <3>6. \A b \in asks : b.id # banner.seq + 1 BY <1>3 DEF AskOK
    <3>7. \A b \in asks' : b.id = banner'.seq => acked' <= b.from
      BY <1>1, <1>2, <1>3, <3>1, <3>2, <3>6
    <3>8. Asking' BY <3>1, <3>2 DEF Asking
    <3> QED BY <2>1, <3>5, <3>7, <3>8 DEF BannerInv
  <2>3. CASE BannerAnswered
    <3>1. PICK a \in asks :
            /\ asks' = asks \ {a}
            /\ \E v \in (a.from..Now) \cup {0} :
                 banner' = IF a.id = banner.seq THEN [banner EXCEPT !.shown = v] ELSE banner
      BY <2>3 DEF BannerAnswered
    <3>2. PICK v \in (a.from..Now) \cup {0} :
            banner' = IF a.id = banner.seq THEN [banner EXCEPT !.shown = v] ELSE banner
      BY <3>1
    <3>3. a.from \in Nat /\ v \in Nat /\ v <= Now /\ (v = 0 \/ a.from <= v)
      BY <1>2, <1>3 DEF AskOK
    <3>4. crossed' = crossed BY <2>3 DEF BannerAnswered, hist
    <3>5. /\ banner' \in [shown: Nat, seq: Nat, dismissed: BOOLEAN] /\ banner'.seq = banner.seq
          /\ a.id = banner.seq => banner'.shown = v
          /\ a.id # banner.seq => banner'.shown = banner.shown
      BY <1>3, <3>2, <3>3
    <3>6. BannerOK' BY <1>2, <1>3, <3>1, <3>3, <3>5 DEF BannerOK, AskOK
    <3>7. ASSUME heard' = lastLoad', ~crossed'
          PROVE  /\ \A b \in asks' : b.id = banner'.seq => acked' <= b.from
                 /\ banner'.shown = 0 \/ acked' <= banner'.shown \/ Asking'
      <4>1. /\ \A b \in asks : b.id = banner.seq => acked <= b.from
            /\ banner.shown = 0 \/ acked <= banner.shown \/ Asking
        BY <1>1, <3>4, <3>7 DEF BannerInv
      <4>2. CASE a.id = banner.seq
        BY <1>1, <1>2, <1>3, <3>1, <3>3, <3>5, <4>1, <4>2
      <4>3. CASE a.id # banner.seq
        <5>1. Asking => Asking' BY <3>1, <3>5, <4>3 DEF Asking
        <5> QED BY <1>1, <3>1, <3>5, <4>1, <4>3, <5>1
      <4> QED BY <4>2, <4>3
    <3> QED BY <2>1, <3>6, <3>7 DEF BannerInv
  <2>4. CASE Dismiss
    <3>1. /\ banner' \in [shown: Nat, seq: Nat, dismissed: BOOLEAN] /\ banner'.shown = 0
          /\ banner'.seq = banner.seq /\ asks' = asks /\ crossed' = crossed
      BY <1>3, <2>4 DEF Dismiss, hist
    <3>2. BannerOK' BY <1>2, <1>3, <3>1 DEF BannerOK, AskOK
    <3> QED BY <1>1, <2>1, <3>1, <3>2 DEF BannerInv
  <2> QED BY <2>2, <2>3, <2>4
<1>5. CardTypes'
  <2>1. profile.mount \in Nat /\ lastLoad \in Nat BY DEF CardTypes, PageOK
  <2>2. Grow BY <1>1, <1>2, <2>1 DEF Grow
  <2>3. PageOK' BY <1>1, <1>2 DEF CardTypes, PageOK
  <2>4. CardOK' /\ \A l \in loads' : LoadOK(l)' BY <1>1, <1>2, <2>1, <2>2, Growing
  <2> QED BY <1>1, <1>2, <1>4, <2>2, <2>3, <2>4, TypesRest
<1>6. BusyInv'
  <2>1. \A l \in loads : l.by \in Clicks \cup {Nobody} BY DEF CardTypes, LoadOK, LoadRow
  <2> QED BY <1>1, <2>1, BusyStays
<1>7. CodesReachUser' /\ DialogInv'
  <2>1. \A i \in 1..issued, c \in Clicks : Carries(c, i) => Carries(c, i)' BY <1>1 DEF Carries
  <2>2. Underway' <=> Underway BY <1>1 DEF Underway, Mounted
  <2>3. CodesReachUser' BY <1>1, <2>1, <2>2, CodesStay
  <2> QED BY <1>1, <2>3, DialogStays
<1>8. SetupInv' BY <1>1, SetupStays
<1> QED BY <1>4, <1>5, <1>6, <1>7, <1>8

-----------------------------------------------------------------------------
(* The theorems. *)

LEMMA CardStart == CardInit => CardInv
<1> SUFFICES ASSUME CardInit PROVE CardInv OBVIOUS
<1>1. enabled \in Seq(BOOLEAN) /\ Now = 1
  <2>1. CASE enabled = <<TRUE>> BY <2>1 DEF Now
  <2>2. CASE enabled = <<FALSE>> BY <2>2 DEF Now
  <2> QED BY <2>1, <2>2 DEF CardInit
<1> HIDE DEF Now
<1> DEFINE l == [n |-> 1, mount |-> 1, from |-> 1, by |-> Nobody]
<1> DEFINE a == [id |-> 1, from |-> 1]
<1>2. /\ live = {} /\ made = 0 /\ issued = 0 /\ card = NewCard /\ loads = {l} /\ lastLoad = 1
      /\ profile = [loading |-> FALSE, mount |-> 1]
      /\ click = [c \in Clicks |-> IdleClick]
      /\ banner = [shown |-> 0, seq |-> 1, dismissed |-> FALSE] /\ asks = {a}
      /\ acked = 0 /\ heard = 0
  BY DEF CardInit
<1>3. l \in LoadRow /\ l.n = 1 /\ l.mount = 1 /\ l.from = 1 /\ l.by = Nobody BY DEF LoadRow
<1>4. a \in [id: Nat, from: Nat] /\ a.id = 1 /\ a.from = 1 OBVIOUS
<1>5. /\ IdleClick \in ClickType /\ IdleClick.pc = "idle" /\ IdleClick.mount = 0
      /\ IdleClick.version = 0
  BY DEF IdleClick, ClickType, Ops, KeyOps
<1>6. /\ card \in CardType /\ card.loading = TRUE /\ card.shown = 0 /\ card.setup = 0
      /\ card.codes = 0
      /\ card.totpBusy = FALSE
  BY <1>2 DEF NewCard, CardType
<1> HIDE DEF l, a
<1>7. /\ profile \in [loading: BOOLEAN, mount: Nat] /\ profile.mount = 1
      /\ banner \in [shown: Nat, seq: Nat, dismissed: BOOLEAN] /\ banner.shown = 0
      /\ banner.seq = 1
  BY <1>2
<1>8. \A c \in Clicks : click[c] = IdleClick BY <1>2
<1>9. CardTypes
  <2>1. ServerOK /\ PageOK /\ CardOK BY <1>1, <1>2, <1>6, <1>7 DEF ServerOK, PageOK, CardOK
  <2>2. BannerOK BY <1>1, <1>2, <1>4, <1>7 DEF BannerOK, AskOK
  <2>3. LoadOK(l) BY <1>1, <1>2, <1>3, <1>7 DEF LoadOK
  <2>4. ClickOK(IdleClick) BY <1>1, <1>5, <1>7 DEF ClickOK
  <2>5. click \in [Clicks -> ClickType] BY <1>2, <1>5
  <2> QED BY <1>2, <1>8, <2>1, <2>2, <2>3, <2>4, <2>5 DEF CardTypes
<1>10. BusyInv BY <1>2, <1>3, <1>5, <1>6, <1>7, <1>8 DEF BusyInv, Totp
<1>11. CodesReachUser /\ DialogInv
  BY <1>2, <1>5, <1>6, <1>8 DEF CodesReachUser, DialogInv, OnScreen, Usable, Totp
<1>12. SetupInv BY <1>5, <1>6, <1>8 DEF SetupInv, Prepared, Confirming
<1>13. BannerInv BY <1>2, <1>3 DEF BannerInv
<1> QED BY <1>9, <1>10, <1>11, <1>12, <1>13 DEF CardInv

LEMMA CardStep == CardInv /\ [CardNext]_cardVars => CardInv'
<1> SUFFICES ASSUME CardInv, [CardNext]_cardVars PROVE CardInv' OBVIOUS
<1>1. CASE UNCHANGED cardVars
  BY <1>1 DEF cardVars, serverVars, bannerVars, hist, CardInv, CardTypes, ServerOK, PageOK, CardOK,
              BannerOK, LoadOK, AskOK, ClickOK, BusyInv, Totp, Mounted, CodesReachUser,
              DialogInv, OnScreen, Usable, SetupInv, Confirmed, BannerInv, Asking, Now
<1>2. ASSUME NEW c \in Clicks, NEW op \in Ops, Press(c, op) PROVE CardInv' BY <1>2, PressStep
<1>3. ASSUME NEW c \in Clicks, ServeClick(c) PROVE CardInv' BY <1>3, ServeStep
<1>4. ASSUME NEW c \in Clicks, AnswerClick(c) PROVE CardInv'
  BY <1>4, AtOnceStep, ThenLoadStep, UnansweredStep DEF AnswerClick
<1>5. CASE LoadAnswered \/ LoadFailed BY <1>5, LoadStep
<1>6. CASE OtherDevice \/ Expire BY <1>6, ElsewhereStep
<1>7. CASE Reload BY <1>7, ReloadStep
<1>8. CASE Reloaded BY <1>8, ReloadedStep
<1>9. CASE CloseCodes BY <1>9, CloseStep
<1>10. CASE Visible \/ BannerAnswered \/ Dismiss BY <1>10, BannerStep
<1> QED BY <1>1, <1>2, <1>3, <1>4, <1>5, <1>6, <1>7, <1>8, <1>9, <1>10 DEF CardNext

\* In every behaviour of the card, the page and the banner the inductive invariant holds.
THEOREM CardInvariance == CardSpec => []CardInv
  BY CardStart, CardStep, PTL DEF CardSpec

\* A flag of the card is set just while a handler of this card runs, and its loading line
\* stands only while a load is under way (profile-security-card.tsx, load and the handlers).
THEOREM CardTypeCorrect == CardSpec => []CardTypeOK
<1>1. ASSUME CardInv PROVE CardTypeOK
  <2> USE <1>1 DEF CardInv
  <2>1. enabled \in Seq(BOOLEAN) /\ Now > 0 /\ live \subseteq 1..made /\ Now \in Nat
    BY NowNat DEF CardTypes, ServerOK
  <2>2. /\ card.setup \in 0..made /\ card.codes \in 0..issued
        /\ card.shown \in 0..Now /\ banner.shown \in 0..Now
        /\ acked \in 0..Now /\ profile.loading \in BOOLEAN
    BY <2>1 DEF CardTypes, ServerOK, CardOK, CardType, BannerOK, PageOK
  <2>3. lastLoad \in Nat /\ profile.mount \in Nat BY DEF CardTypes, PageOK
  <2>4. loads \subseteq LoadType
    <3> SUFFICES ASSUME NEW l \in loads PROVE l \in LoadType OBVIOUS
    <3>1. LoadOK(l) BY DEF CardTypes
    <3>2. l.n \in 1..lastLoad /\ l.mount \in 1..profile.mount /\ l.from \in 1..Now
      BY <2>1, <2>3, <3>1 DEF LoadOK, LoadRow
    <3> QED BY <3>1, <3>2 DEF LoadOK, LoadRow, LoadType
  <2>5. Mounted(profile.mount) =>
          /\ card.loading => \E l \in loads : l.mount = profile.mount
          /\ card.totpBusy <=> \E c \in Clicks : Totp(c)
    BY DEF BusyInv
  <2> QED BY <2>1, <2>2, <2>4, <2>5 DEF CardTypeOK, Totp
<1> QED BY <1>1, CardInvariance, PTL

\* A setup on the screen is still there to be confirmed, with the exceptions the property
\* names (totp/confirm/route.ts:49).
THEOREM SetupStaysUsable == CardSpec => []SetupUsable
<1>1. ASSUME CardInv, Usable, card.setup # 0, ~card.totpBusy PROVE card.setup \in live \/ spoiled
  <2>1. Mounted(profile.mount) /\ ~profile.loading BY <1>1 DEF Usable, Mounted
  <2>2. \A c \in Clicks : ~Totp(c) BY <1>1, <2>1 DEF CardInv, BusyInv
  <2>3. \A c \in Clicks : ~Confirmed(c) BY <2>2 DEF Totp, Confirmed, TotpOps, Changes
  <2> QED BY <1>1, <2>1, <2>3 DEF CardInv, SetupInv
<1>2. CardInv => SetupUsable BY <1>1 DEF SetupUsable
<1> QED BY <1>2, CardInvariance, PTL

\* Backup codes come on the screen however clicks, loads and reloads overlap, with the
\* exceptions the property names (profile-page-client.tsx:72).
THEOREM CodesAreShown == CardSpec => []CodesReachUser
<1>1. CardInv => CodesReachUser BY DEF CardInv
<1> QED BY <1>1, CardInvariance, PTL

\* At rest the banner knows the last change of this page, with the exceptions the property
\* names (mfa-encouragement-banner.tsx:76).
THEOREM BannerKeepsUp == CardSpec => []BannerKnowsOwnChange
<1>1. ASSUME CardInv, Quiet, banner.shown # 0, ~crossed, heard = lastLoad
      PROVE  banner.shown >= acked
  <2>1. ~Asking BY <1>1 DEF Quiet, Asking
  <2>2. banner.shown \in Nat /\ acked \in Nat
    BY <1>1 DEF CardInv, CardTypes, BannerOK, PageOK
  <2> QED BY <1>1, <2>1, <2>2 DEF CardInv, BannerInv
<1>2. CardInv => BannerKnowsOwnChange BY <1>1 DEF BannerKnowsOwnChange
<1> QED BY <1>2, CardInvariance, PTL

=============================================================================
