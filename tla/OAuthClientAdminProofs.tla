------------------------ MODULE OAuthClientAdminProofs ------------------------
(***************************************************************************)
(* Proofs about OAuthClientAdmin: types, that a secret on a screen is the  *)
(* one the client has, and that the secret of a client reaches a screen,   *)
(* both up to the exceptions the properties name.                          *)
(***************************************************************************)
EXTENDS OAuthClientAdmin, TLAPS

Secrets == Nat \ {0}

\* A request whose client is stored: its new secret is the client's.
StoredPCs == {"rename", "read back", "ok"}

OnItsWay(e, s) ==
  form[e].kept = s \/ (call[e].plain = s /\ call[e].pc \in StoredPCs)

Fits(s) == site.secret = s \/ s \in secrets.retired

Reached(s) == s \in secrets.known \/ \E e \in Editors : OnItsWay(e, s)

(***************************************************************************)
(* The inductive invariant.  A request has a secret to show only once it   *)
(* chose what to store, and stores what it shows, or else what it read;    *)
(* every secret on its way fits the client, and the secret of the client,  *)
(* or one that an edit may write back, has reached the browser.            *)
(***************************************************************************)
CallShape(c) ==
  /\ c.pc \in {"idle", "look", "insert", "hash"} => c.plain = 0
  /\ c.pc = "write" =>
       /\ c.plain # 0 => c.new = c.plain
       /\ c.plain = 0 => c.new = (IF c.confidential THEN c.read ELSE 0)

Honest(e) ==
  \A s \in Secrets : form[e].banner = s \/ OnItsWay(e, s) => Fits(s)

ReadReached(e) ==
  call[e].pc = "write" /\ call[e].read # 0 => Reached(call[e].read)

AdminInv ==
  /\ ClientTypeOK
  /\ \A e \in Editors : CallShape(call[e]) /\ Honest(e) /\ ReadReached(e)
  /\ site.secret # 0 => Reached(site.secret)

-----------------------------------------------------------------------------
(* What one step of a tab does. *)

\* Only this tab.
Alone(e) ==
  /\ form' \in [Editors -> Forms] /\ call' \in [Editors -> Calls]
  /\ \A q \in Editors \ {e} : form'[q] = form[q] /\ call'[q] = call[q]

Tables ==
  /\ site' \in Sites /\ secrets' \in Histories
  /\ site'.client => site'.app
  /\ site'.secret # 0 => site'.client
  /\ secrets.known \subseteq secrets'.known

FitsStay == \A s \in Secrets : Fits(s) => Fits(s)'

\* What the tab has to show, it had already, or it fits.
Gains(e) ==
  \A s \in Secrets :
    (form[e].banner = s \/ OnItsWay(e, s))' =>
      form[e].banner = s \/ OnItsWay(e, s) \/ Fits(s)'

\* What it had to show is not lost silently.
Brings(e) ==
  \A s \in Secrets : OnItsWay(e, s) => OnItsWay(e, s)' \/ s \in secrets'.known

StoresKnown(e) ==
  \/ site'.secret \in {0, site.secret}
  \/ OnItsWay(e, site.secret)'
  \/ call[e].pc = "write" /\ site'.secret = call[e].read

ReadsKnown(e) ==
  call'[e].pc = "write" =>
    call'[e].read = site.secret \/ (call[e].pc = "write" /\ call'[e].read = call[e].read)

Change(e) ==
  /\ Alone(e) /\ Tables /\ CallShape(call[e])' /\ FitsStay
  /\ Gains(e) /\ Brings(e) /\ StoresKnown(e) /\ ReadsKnown(e)

LEMMA ChangeKeeps ==
  ASSUME AdminInv, NEW e \in Editors, Change(e), minted' \in Nat
  PROVE  AdminInv'
<1>1. ClientTypeOK' BY DEF Change, Alone, Tables, ClientTypeOK
<1>2. \A s \in Secrets : Reached(s) => Reached(s)'
  <2> SUFFICES ASSUME NEW s \in Secrets, Reached(s) PROVE Reached(s)' OBVIOUS
  <2>1. CASE s \in secrets.known BY <2>1 DEF Reached, Change, Tables
  <2>2. CASE OnItsWay(e, s) BY <2>2 DEF Reached, Change, Brings
  <2>3. ASSUME NEW q \in Editors \ {e}, OnItsWay(q, s) PROVE Reached(s)'
    <3>1. form'[q] = form[q] /\ call'[q] = call[q] BY DEF Change, Alone
    <3> QED BY <2>3, <3>1 DEF Reached, OnItsWay
  <2> QED BY <2>1, <2>2, <2>3 DEF Reached
<1>3. site.secret \in Nat /\ site'.secret \in Nat /\ call[e].read \in Nat /\ call'[e].read \in Nat
  BY <1>1 DEF AdminInv, ClientTypeOK, Sites, Calls
<1>4. site'.secret # 0 => Reached(site.secret)'
  <2> SUFFICES ASSUME site'.secret # 0 PROVE Reached(site.secret)' OBVIOUS
  <2>1. PICK s \in Secrets : s = site'.secret BY <1>3 DEF Secrets
  <2>2. CASE s = site.secret
    <3>1. Reached(s)' BY <2>1, <2>2, <1>2 DEF AdminInv
    <3> QED BY <3>1, <2>1 DEF Reached, OnItsWay
  <2>3. CASE OnItsWay(e, site.secret)' BY <2>3 DEF Reached
  <2>4. CASE call[e].pc = "write" /\ s = call[e].read
    <3>1. Reached(s) BY <2>1, <2>4 DEF AdminInv, ReadReached, Secrets
    <3>2. Reached(s)' BY <3>1, <1>2
    <3> QED BY <3>2, <2>1 DEF Reached, OnItsWay
  <2> QED BY <2>1, <2>2, <2>3, <2>4 DEF Change, StoresKnown
<1>5. ASSUME NEW q \in Editors PROVE CallShape(call[q])'
  BY DEF Change, Alone, AdminInv, CallShape
<1>6. ASSUME NEW q \in Editors PROVE Honest(q)'
  <2> SUFFICES ASSUME NEW s \in Secrets, (form[q].banner = s \/ OnItsWay(q, s))'
               PROVE  Fits(s)'
    BY DEF Honest
  <2>1. CASE q = e BY <2>1 DEF Change, Gains, FitsStay, AdminInv, Honest
  <2>2. CASE q # e
    <3>1. form'[q] = form[q] /\ call'[q] = call[q] BY <2>2 DEF Change, Alone
    <3>2. form[q].banner = s \/ OnItsWay(q, s) BY <3>1 DEF OnItsWay
    <3> QED BY <3>2 DEF Change, FitsStay, AdminInv, Honest
  <2> QED BY <2>1, <2>2
<1>7. ASSUME NEW q \in Editors PROVE ReadReached(q)'
  <2> SUFFICES ASSUME call'[q].pc = "write", call'[q].read # 0 PROVE Reached(call[q].read)'
    BY DEF ReadReached
  <2>1. call'[q].read \in Secrets BY <1>1 DEF Secrets, ClientTypeOK, Calls
  <2>2. PICK s \in Secrets : s = call'[q].read BY <2>1
  <2>3. Reached(s)
    <3>1. CASE q = e
      <4>1. CASE s = site.secret BY <2>2, <4>1 DEF AdminInv, Secrets
      <4>2. CASE call[e].pc = "write" /\ s = call[e].read
        BY <2>2, <4>2 DEF AdminInv, ReadReached, Secrets
      <4> QED BY <2>2, <3>1, <4>1, <4>2 DEF Change, ReadsKnown
    <3>2. CASE q # e
      <4>1. call'[q] = call[q] BY <3>2 DEF Change, Alone
      <4> QED BY <2>2, <4>1 DEF AdminInv, ReadReached, Secrets
    <3> QED BY <3>1, <3>2
  <2>4. Reached(s)' BY <1>2, <2>3
  <2> QED BY <2>2, <2>4 DEF Reached, OnItsWay
<1> QED BY <1>1, <1>4, <1>5, <1>6, <1>7 DEF AdminInv

-----------------------------------------------------------------------------
(* The rows that steps make. *)

LEMMA IdleRow ==
  /\ IdleCall \in Calls /\ IdleCall.pc = "idle" /\ IdleCall.plain = 0
  BY DEF IdleCall, Calls, ServerPCs

\* A request goes on, and everything but pc stays.
Moved(c, d, pc) ==
  /\ d \in Calls /\ d.pc = pc /\ d.op = c.op /\ d.here = c.here
  /\ d.confidential = c.confidential /\ d.regenerate = c.regenerate
  /\ d.new = c.new /\ d.plain = c.plain /\ d.read = c.read

PCs == ServerPCs \cup {"idle", "ok", "no", "replace"}

LEMMA StepMoves ==
  ASSUME NEW e \in Editors, call \in [Editors -> Calls], NEW pc \in PCs, Step(e, pc)
  PROVE  /\ call' \in [Editors -> Calls] /\ Moved(call[e], call'[e], pc)
         /\ \A q \in Editors \ {e} : call'[q] = call[q]
<1> DEFINE d == [call[e] EXCEPT !.pc = pc]
<1>1. call' = [call EXCEPT ![e] = d] BY DEF Step
<1>2. Moved(call[e], d, pc) BY DEF Moved, Calls, PCs
<1>3. d \in Calls BY <1>2 DEF Moved
<1> HIDE DEF d
<1> QED BY <1>1, <1>2, <1>3

LEMMA CallRow ==
  ASSUME NEW e \in Editors, call \in [Editors -> Calls], NEW c \in Calls,
         call' = [call EXCEPT ![e] = c]
  PROVE  /\ call' \in [Editors -> Calls] /\ call'[e] = c
         /\ \A q \in Editors \ {e} : call'[q] = call[q]
  OBVIOUS

LEMMA FormRow ==
  ASSUME NEW e \in Editors, form \in [Editors -> Forms], NEW f \in Forms,
         form' = [form EXCEPT ![e] = f]
  PROVE  /\ form' \in [Editors -> Forms] /\ form'[e] = f
         /\ \A q \in Editors \ {e} : form'[q] = form[q]
  OBVIOUS

LEMMA FreshForm ==
  ASSUME NEW kept \in Nat
  PROVE  /\ NewForm(kept) \in Forms
         /\ NewForm(kept).banner = 0 /\ NewForm(kept).kept = kept
  BY DEF NewForm, Forms

\* Rendering shows the secret that was kept, or keeps it.
LEMMA Rendered ==
  ASSUME NEW f \in Forms
  PROVE  /\ Renders(f) \in Forms
         /\ \/ Renders(f).kept = f.kept /\ Renders(f).banner \in {0, f.banner}
            \/ Renders(f).kept = 0 /\ Renders(f).banner = f.kept
<1>1. f.kept \in Nat /\ f.banner \in Nat /\ f.typed \in Nat BY DEF Forms
<1>2. CASE ~site.app BY <1>1, <1>2, FreshForm DEF Renders
<1>3. CASE site.app
  <2>1. Renders(f) = Mounts(f, Mode(site)) /\ Mode(site) \in {"create", "edit"}
    BY <1>3 DEF Renders, Mode
  <2>2. \/ Mounts(f, Mode(site)) = [mode |-> Mode(site), typed |-> f.typed,
                                     banner |-> f.kept, kept |-> 0]
        \/ Mounts(f, Mode(site)) = [mode |-> Mode(site), typed |-> f.typed,
                                     banner |-> f.banner, kept |-> f.kept]
    BY DEF Mounts, Forms
  <2> QED BY <1>1, <2>1, <2>2 DEF Forms
<1> QED BY <1>2, <1>3

\* Only what is known grows.
Quiet == /\ site' = site /\ secrets' \in Histories
         /\ secrets'.retired = secrets.retired
         /\ secrets.known \subseteq secrets'.known

LEMMA Learns ==
  ASSUME secrets \in Histories, NEW s \in Nat, site' = site,
         secrets' = Saw(s) \/ secrets' = Loses(s)
  PROVE  Quiet /\ (s # 0 => s \in secrets'.known)
<1>1. secrets' = [known |-> secrets.known \cup ({s} \ {0}), retired |-> secrets.retired]
  BY DEF Saw, Loses, Histories
<1>2. secrets.known \subseteq Nat /\ secrets.retired \subseteq Nat BY DEF Histories
<1> QED BY <1>1, <1>2 DEF Quiet, Histories

LEMMA QuietTables ==
  ASSUME ClientTypeOK, Quiet
  PROVE  Tables /\ FitsStay
  BY DEF ClientTypeOK, Quiet, Tables, FitsStay, Fits

\* Nothing is stored: what the tab has to show changes only as it may.
LEMMA QuietChange ==
  ASSUME AdminInv, NEW e \in Editors, Quiet, Alone(e), CallShape(call[e])',
         Gains(e), Brings(e), ReadsKnown(e)
  PROVE  Change(e)
<1>1. Tables /\ FitsStay BY QuietTables DEF AdminInv
<1>2. StoresKnown(e) BY DEF StoresKnown, Quiet
<1> QED BY <1>1, <1>2 DEF Change

LEMMA TabTypes ==
  ASSUME AdminInv, NEW e \in Editors
  PROVE  /\ form \in [Editors -> Forms] /\ call \in [Editors -> Calls]
         /\ form[e] \in Forms /\ call[e] \in Calls /\ site \in Sites /\ secrets \in Histories
         /\ minted \in Nat
         /\ form[e].banner \in Nat /\ form[e].kept \in Nat /\ form[e].typed \in Nat
         /\ call[e].plain \in Nat /\ call[e].new \in Nat /\ call[e].read \in Nat
         /\ call[e].confidential \in BOOLEAN
         /\ CallShape(call[e]) /\ Honest(e)
  BY DEF AdminInv, ClientTypeOK, Forms, Calls

-----------------------------------------------------------------------------
(* The form page. *)

LEMMA RenderChange ==
  ASSUME AdminInv, NEW e \in Editors, site' = site,
         form' = [form EXCEPT ![e] = Renders(form[e])],
         secrets' = Saw(form'[e].banner),
         \/ call' = call
         \/ call' = [call EXCEPT ![e] = IdleCall] /\ (call[e].plain = 0 \/ call[e].pc = "replace")
  PROVE  Change(e)
<1>1. Renders(form[e]) \in Forms BY Rendered, TabTypes
<1>2. /\ form' \in [Editors -> Forms] /\ form'[e] = Renders(form[e])
      /\ \A q \in Editors \ {e} : form'[q] = form[q]
  BY <1>1, FormRow, TabTypes
<1>3. /\ call' \in [Editors -> Calls] /\ \A q \in Editors \ {e} : call'[q] = call[q]
      /\ \/ call'[e] = call[e]
         \/ call'[e] = IdleCall /\ (call[e].plain = 0 \/ call[e].pc = "replace")
  BY CallRow, IdleRow, TabTypes
<1>4. \/ form'[e].kept = form[e].kept /\ form'[e].banner \in {0, form[e].banner}
      \/ form'[e].kept = 0 /\ form'[e].banner = form[e].kept
  BY <1>2, Rendered, TabTypes
<1>5. form'[e].banner \in Nat BY <1>2 DEF Forms
<1>6. Quiet /\ (form'[e].banner # 0 => form'[e].banner \in secrets'.known)
  <2>1. PICK b \in Nat : b = form'[e].banner BY <1>5
  <2>2. secrets' = Saw(b) BY <2>1
  <2> QED BY <2>1, <2>2, Learns, TabTypes
<1>7. Alone(e) BY <1>2, <1>3 DEF Alone
<1>8. CallShape(call[e])' BY <1>3, TabTypes, IdleRow DEF CallShape
<1>9. Gains(e) BY <1>3, <1>4, IdleRow DEF Gains, OnItsWay, Secrets, StoredPCs
<1>10. Brings(e) BY <1>3, <1>4, <1>6 DEF Brings, OnItsWay, Secrets, StoredPCs
<1>11. ReadsKnown(e) BY <1>3, IdleRow DEF ReadsKnown
<1> QED BY <1>6, <1>7, <1>8, <1>9, <1>10, <1>11, QuietChange

LEMMA LeftRow ==
  ASSUME NEW c \in Calls
  PROVE  /\ LeftCall(c) \in Calls
         /\ \/ LeftCall(c) = IdleCall /\ c.pc = "replace"
            \/ /\ LeftCall(c).pc = c.pc /\ LeftCall(c).plain = c.plain
               /\ LeftCall(c).new = c.new /\ LeftCall(c).read = c.read
               /\ LeftCall(c).confidential = c.confidential
<1>1. CASE c.pc = "replace" BY <1>1, IdleRow DEF LeftCall
<1>2. CASE c.pc # "replace" BY <1>2 DEF LeftCall, Calls
<1> QED BY <1>1, <1>2

LEMMA LeaveChange ==
  ASSUME AdminInv, NEW e \in Editors, NEW k \in {0, form[e].kept},
         form' = [form EXCEPT ![e] = NewForm(k)],
         call' = [call EXCEPT ![e] = LeftCall(call[e])],
         Quiet, k = form[e].kept \/ form[e].kept \in secrets'.known
  PROVE  Change(e)
<1>1. NewForm(k) \in Forms /\ NewForm(k).banner = 0 /\ NewForm(k).kept = k
  BY FreshForm, TabTypes
<1>2. /\ form' \in [Editors -> Forms] /\ form'[e] = NewForm(k)
      /\ \A q \in Editors \ {e} : form'[q] = form[q]
  BY <1>1, FormRow, TabTypes
<1>3. LeftCall(call[e]) \in Calls BY LeftRow, TabTypes
<1>4. /\ call' \in [Editors -> Calls] /\ call'[e] = LeftCall(call[e])
      /\ \A q \in Editors \ {e} : call'[q] = call[q]
  BY <1>3, CallRow, TabTypes
<1>5. \/ call'[e] = IdleCall /\ call[e].pc = "replace"
      \/ /\ call'[e].pc = call[e].pc /\ call'[e].plain = call[e].plain
         /\ call'[e].new = call[e].new /\ call'[e].read = call[e].read
         /\ call'[e].confidential = call[e].confidential
  BY <1>4, LeftRow, TabTypes
<1>6. form'[e].banner = 0 /\ form'[e].kept = k BY <1>1, <1>2
<1>7. Alone(e) BY <1>2, <1>4 DEF Alone
<1>8. CallShape(call[e])' BY <1>5, TabTypes, IdleRow DEF CallShape
<1>9. Gains(e) BY <1>5, <1>6, IdleRow DEF Gains, OnItsWay, Secrets, StoredPCs
<1>10. Brings(e) BY <1>5, <1>6 DEF Brings, OnItsWay, Secrets, StoredPCs
<1>11. ReadsKnown(e) BY <1>5, IdleRow DEF ReadsKnown
<1> QED BY <1>7, <1>8, <1>9, <1>10, <1>11, QuietChange

LEMMA GoAwayChange ==
  ASSUME AdminInv, NEW e \in Editors, GoAway(e)
  PROVE  Change(e)
<1>1. Quiet BY TabTypes DEF GoAway, Quiet
<1>2. /\ form' = [form EXCEPT ![e] = NewForm(form[e].kept)]
      /\ call' = [call EXCEPT ![e] = LeftCall(call[e])]
  BY DEF GoAway, Leave
<1> QED BY <1>1, <1>2, LeaveChange

LEMMA VisitOtherChange ==
  ASSUME AdminInv, NEW e \in Editors, VisitOther(e)
  PROVE  Change(e)
<1>1. form[e].kept \in Nat /\ form[e].kept # 0 /\ secrets \in Histories
  BY TabTypes DEF VisitOther
<1>2. site' = site /\ secrets' = Loses(form[e].kept) BY DEF VisitOther
<1>3. Quiet /\ form[e].kept \in secrets'.known BY <1>1, <1>2, Learns
<1>4. /\ form' = [form EXCEPT ![e] = NewForm(0)]
      /\ call' = [call EXCEPT ![e] = LeftCall(call[e])]
  BY DEF VisitOther
<1> QED BY <1>3, <1>4, LeaveChange

LEMMA VisitChange ==
  ASSUME AdminInv, NEW e \in Editors, Visit(e)
  PROVE  Change(e)
  BY RenderChange DEF Visit

LEMMA DismissChange ==
  ASSUME AdminInv, NEW e \in Editors, DismissSecret(e)
  PROVE  Change(e)
<1> DEFINE f == [form[e] EXCEPT !.banner = 0]
<1>1. f \in Forms /\ f.banner = 0 /\ f.kept = form[e].kept BY TabTypes DEF Forms
<1>2. form' = [form EXCEPT ![e] = f] /\ call' = call /\ Quiet
  BY TabTypes DEF DismissSecret, Quiet
<1> HIDE DEF f
<1>3. /\ form' \in [Editors -> Forms] /\ form'[e] = f
      /\ \A q \in Editors \ {e} : form'[q] = form[q]
  BY <1>1, <1>2, FormRow, TabTypes
<1>4. Alone(e) BY <1>2, <1>3, TabTypes DEF Alone
<1>5. CallShape(call[e])' BY <1>2, TabTypes DEF CallShape
<1>6. Gains(e) /\ Brings(e) BY <1>1, <1>2, <1>3 DEF Gains, Brings, OnItsWay, Secrets
<1>7. ReadsKnown(e) BY <1>2 DEF ReadsKnown
<1> QED BY <1>2, <1>4, <1>5, <1>6, <1>7, QuietChange

LEMMA SaveChange ==
  ASSUME AdminInv, NEW e \in Editors, NEW confidential \in BOOLEAN, NEW regenerate \in BOOLEAN,
         NEW typed \in Nat, Save(e, confidential, typed, regenerate)
  PROVE  Change(e)
<1> DEFINE f == [form[e] EXCEPT !.typed = typed]
           c == [IdleCall EXCEPT !.pc = "look",
                   !.op = IF form[e].mode = "edit" THEN "PUT" ELSE "POST",
                   !.confidential = confidential, !.regenerate = regenerate, !.new = typed]
<1>1. f \in Forms /\ f.banner = form[e].banner /\ f.kept = form[e].kept BY TabTypes DEF Forms
<1>2. c \in Calls /\ c.pc = "look" /\ c.plain = 0 BY DEF IdleCall, Calls, ServerPCs
<1>3. /\ form' = [form EXCEPT ![e] = f] /\ call' = [call EXCEPT ![e] = c]
      /\ call[e].pc = "idle" /\ Quiet
  BY TabTypes DEF Save, Quiet
<1> HIDE DEF f, c
<1>4. /\ form' \in [Editors -> Forms] /\ form'[e] = f
      /\ \A q \in Editors \ {e} : form'[q] = form[q]
  BY <1>1, <1>3, FormRow, TabTypes
<1>5. /\ call' \in [Editors -> Calls] /\ call'[e] = c
      /\ \A q \in Editors \ {e} : call'[q] = call[q]
  BY <1>2, <1>3, CallRow, TabTypes
<1>6. Alone(e) BY <1>4, <1>5 DEF Alone
<1>7. CallShape(call[e])' BY <1>2, <1>5 DEF CallShape
<1>8. Gains(e) /\ Brings(e)
  BY <1>1, <1>2, <1>3, <1>4, <1>5 DEF Gains, Brings, OnItsWay, Secrets, StoredPCs
<1>9. ReadsKnown(e) BY <1>2, <1>5 DEF ReadsKnown
<1> QED BY <1>3, <1>6, <1>7, <1>8, <1>9, QuietChange

-----------------------------------------------------------------------------
(* The route. *)

\* A step that moves pc, and stores nothing.
LEMMA MoveChange ==
  ASSUME AdminInv, NEW e \in Editors, NEW pc \in PCs \ {"write"}, Step(e, pc), form' = form,
         Quiet,
         call[e].plain = 0 \/ (call[e].pc \in StoredPCs /\ pc \in StoredPCs)
           \/ (call[e].pc \notin StoredPCs /\ pc = "no")
           \/ (pc \in {"no", "replace"}
                 /\ (call[e].plain \in secrets'.known \/ form[e].kept = call[e].plain))
  PROVE  Change(e)
<1>1. /\ call' \in [Editors -> Calls] /\ Moved(call[e], call'[e], pc)
      /\ \A q \in Editors \ {e} : call'[q] = call[q]
  BY StepMoves, TabTypes
<1>2. call'[e].pc = pc /\ call'[e].plain = call[e].plain BY <1>1 DEF Moved
<1>3. Alone(e) BY <1>1, TabTypes DEF Alone
<1>4. pc # "write" /\ (pc \in {"no", "replace"} \cup StoredPCs \/ call[e].plain = 0)
  BY DEF StoredPCs
<1>5. CallShape(call[e])' BY <1>2, <1>4 DEF CallShape, StoredPCs
<1>6. Gains(e) BY <1>2, <1>4 DEF Gains, OnItsWay, Secrets, StoredPCs
<1>7. Brings(e) BY <1>2 DEF Brings, OnItsWay, Secrets, StoredPCs
<1>8. ReadsKnown(e) BY <1>2, <1>4 DEF ReadsKnown
<1> QED BY <1>3, <1>5, <1>6, <1>7, <1>8, QuietChange

LEMMA StaysQuiet ==
  ASSUME AdminInv, UNCHANGED <<site, secrets>>
  PROVE  Quiet
  BY DEF AdminInv, ClientTypeOK, Quiet

LEMMA LookChange ==
  ASSUME AdminInv, NEW e \in Editors, Look(e)
  PROVE  Change(e)
<1>1. call[e].pc = "look" /\ UNCHANGED <<site, form, secrets>> BY DEF Look
<1>2. call[e].plain = 0 BY <1>1, TabTypes DEF CallShape
<1>3. PICK pc \in {"no", "insert", "hash"} : Step(e, pc) BY DEF Look
<1>4. pc \in PCs \ {"write"} BY DEF PCs, ServerPCs
<1> QED BY <1>1, <1>2, <1>3, <1>4, StaysQuiet, MoveChange

LEMMA RenameChange ==
  ASSUME AdminInv, NEW e \in Editors, RenameAfterInsert(e)
  PROVE  Change(e)
<1>1. call[e].pc = "rename" /\ UNCHANGED <<site, minted, form>> BY DEF RenameAfterInsert
<1>2. {"read back", "no"} \subseteq PCs \ {"write"} BY DEF PCs, ServerPCs
<1>3. CASE Step(e, "read back") /\ UNCHANGED secrets
  BY <1>1, <1>2, <1>3, StaysQuiet, MoveChange DEF StoredPCs
<1>4. CASE Step(e, "no") /\ secrets' = Loses(call[e].plain)
  <2>1. Quiet /\ (call[e].plain # 0 => call[e].plain \in secrets'.known)
    BY <1>1, <1>4, Learns, TabTypes
  <2> QED BY <1>1, <1>2, <1>4, <2>1, MoveChange
<1> QED BY <1>3, <1>4 DEF RenameAfterInsert

LEMMA ReadBackChange ==
  ASSUME AdminInv, NEW e \in Editors, ReadBack(e)
  PROVE  Change(e)
<1>1. call[e].pc = "read back" /\ UNCHANGED <<site, minted, form>> BY DEF ReadBack
<1>2. {"ok", "no"} \subseteq PCs \ {"write"} BY DEF PCs, ServerPCs
<1>3. CASE Step(e, "ok") /\ UNCHANGED secrets
  BY <1>1, <1>2, <1>3, StaysQuiet, MoveChange DEF StoredPCs
<1>4. CASE Step(e, "no") /\ secrets' = Loses(call[e].plain)
  <2>1. Quiet /\ (call[e].plain # 0 => call[e].plain \in secrets'.known)
    BY <1>1, <1>4, Learns, TabTypes
  <2> QED BY <1>1, <1>2, <1>4, <2>1, MoveChange
<1> QED BY <1>3, <1>4 DEF ReadBack

\* The request is over, and its secret is known, or there was none on its way.
LEMMA OverChange ==
  ASSUME AdminInv, NEW e \in Editors, call' = [call EXCEPT ![e] = IdleCall], form' = form,
         Quiet,
         \/ call[e].pc \notin StoredPCs
         \/ call[e].plain = 0
         \/ call[e].plain \in secrets'.known
  PROVE  Change(e)
<1>1. /\ call' \in [Editors -> Calls] /\ call'[e] = IdleCall
      /\ \A q \in Editors \ {e} : call'[q] = call[q]
  BY CallRow, IdleRow, TabTypes
<1>2. Alone(e) BY <1>1, TabTypes DEF Alone
<1>3. CallShape(call[e])' BY <1>1, IdleRow DEF CallShape
<1>4. Gains(e) BY <1>1, IdleRow DEF Gains, OnItsWay, StoredPCs
<1>5. Brings(e) BY <1>1 DEF Brings, OnItsWay, Secrets
<1>6. ReadsKnown(e) BY <1>1, IdleRow DEF ReadsKnown
<1> QED BY <1>2, <1>3, <1>4, <1>5, <1>6, QuietChange

LEMMA DiesChange ==
  ASSUME AdminInv, NEW e \in Editors, Dies(e)
  PROVE  Change(e)
<1>1. /\ call' = [call EXCEPT ![e] = IdleCall] /\ form' = form /\ site' = site
      /\ secrets' = Loses(call[e].plain)
  BY DEF Dies
<1>2. Quiet /\ (call[e].plain # 0 => call[e].plain \in secrets'.known)
  BY <1>1, Learns, TabTypes
<1> QED BY <1>1, <1>2, OverChange

LEMMA NoAnswerChange ==
  ASSUME AdminInv, NEW e \in Editors, NoAnswer(e)
  PROVE  Change(e)
<1>1. call' = [call EXCEPT ![e] = IdleCall] /\ form' = form /\ site' = site
  BY DEF NoAnswer
<1>2. CASE call[e].pc = "ok"
  <2>1. secrets' = Loses(call[e].plain) BY <1>2 DEF NoAnswer
  <2>2. Quiet /\ (call[e].plain # 0 => call[e].plain \in secrets'.known)
    BY <1>1, <2>1, Learns, TabTypes
  <2> QED BY <1>1, <2>2, OverChange
<1>3. CASE call[e].pc = "no"
  <2>1. Quiet BY <1>3, StaysQuiet DEF NoAnswer
  <2> QED BY <1>1, <1>3, <2>1, OverChange DEF StoredPCs
<1> QED BY <1>2, <1>3 DEF NoAnswer

LEMMA ReadHashChange ==
  ASSUME AdminInv, NEW e \in Editors, ReadHash(e)
  PROVE  Change(e)
<1>1. call[e].pc = "hash" /\ call[e].plain = 0 BY TabTypes DEF ReadHash, CallShape
<1>2. site.secret \in Nat BY TabTypes DEF Sites
<1>3. PICK d \in Calls :
        /\ call' = [call EXCEPT ![e] = d]
        /\ d.pc = "write" /\ d.read = site.secret /\ d.confidential = call[e].confidential
        /\ \/ d.plain = 0 /\ d.new = (IF d.confidential THEN d.read ELSE 0)
           \/ d.new = d.plain /\ d.plain # 0
  <2> DEFINE found == [call[e] EXCEPT !.pc = "write", !.read = site.secret]
  <2>1. /\ found \in Calls /\ found.pc = "write" /\ found.read = site.secret
        /\ found.confidential = call[e].confidential /\ found.plain = 0
    BY <1>1, <1>2, TabTypes DEF Calls, ServerPCs
  <2>2. /\ \A x \in Nat : [found EXCEPT !.new = x] \in Calls
        /\ \A x \in Nat : [found EXCEPT !.new = x].new = x
        /\ \A x \in Nat : [found EXCEPT !.new = x].pc = "write"
        /\ \A x \in Nat : [found EXCEPT !.new = x].read = site.secret
        /\ \A x \in Nat : [found EXCEPT !.new = x].confidential = call[e].confidential
        /\ \A x \in Nat : [found EXCEPT !.new = x].plain = 0
    BY <2>1 DEF Calls
  <2>3. /\ \A x \in Nat : WithSecret(found, x) \in Calls
        /\ \A x \in Nat : WithSecret(found, x).new = x
        /\ \A x \in Nat : WithSecret(found, x).plain = x
        /\ \A x \in Nat : WithSecret(found, x).pc = "write"
        /\ \A x \in Nat : WithSecret(found, x).read = site.secret
        /\ \A x \in Nat : WithSecret(found, x).confidential = call[e].confidential
    BY <2>1 DEF WithSecret, Calls
  <2>4. Fresh(call[e]) \in Secrets BY TabTypes DEF Fresh, Secrets
  <2>5. \/ ~call[e].confidential /\ call' = [call EXCEPT ![e] = [found EXCEPT !.new = 0]]
        \/ /\ call[e].confidential
           /\ call' = [call EXCEPT ![e] = [found EXCEPT !.new = site.secret]]
        \/ call' = [call EXCEPT ![e] = WithSecret(found, Fresh(call[e]))]
    BY DEF ReadHash
  <2> HIDE DEF found
  <2>6. CASE ~call[e].confidential /\ call' = [call EXCEPT ![e] = [found EXCEPT !.new = 0]]
    <3> [found EXCEPT !.new = 0] \in Calls BY <2>2
    <3> WITNESS [found EXCEPT !.new = 0] \in Calls
    <3> QED BY <2>2, <2>6
  <2>7. CASE /\ call[e].confidential
             /\ call' = [call EXCEPT ![e] = [found EXCEPT !.new = site.secret]]
    <3> [found EXCEPT !.new = site.secret] \in Calls BY <1>2, <2>2
    <3> WITNESS [found EXCEPT !.new = site.secret] \in Calls
    <3> QED BY <1>2, <2>2, <2>7
  <2>8. CASE call' = [call EXCEPT ![e] = WithSecret(found, Fresh(call[e]))]
    <3> WithSecret(found, Fresh(call[e])) \in Calls BY <2>3, <2>4 DEF Secrets
    <3> WITNESS WithSecret(found, Fresh(call[e])) \in Calls
    <3> QED BY <2>3, <2>4, <2>8 DEF Secrets
  <2> QED BY <2>5, <2>6, <2>7, <2>8
<1>4. /\ call' \in [Editors -> Calls] /\ call'[e] = d
      /\ \A q \in Editors \ {e} : call'[q] = call[q]
  BY <1>3, CallRow, TabTypes
<1>5. UNCHANGED <<site, form, secrets>> BY DEF ReadHash
<1>6. Quiet BY <1>5, StaysQuiet
<1>7. Alone(e) BY <1>4, <1>5, TabTypes DEF Alone
<1>8. CallShape(call[e])' BY <1>3, <1>4 DEF CallShape
<1>9. Gains(e) /\ Brings(e)
  BY <1>1, <1>3, <1>4, <1>5 DEF Gains, Brings, OnItsWay, Secrets, StoredPCs
<1>10. ReadsKnown(e) BY <1>3, <1>4 DEF ReadsKnown
<1> QED BY <1>6, <1>7, <1>8, <1>9, <1>10, QuietChange

\* The fields a request keeps once its client is stored.
LEMMA SettledRow ==
  ASSUME NEW c \in Calls, NEW pc \in PCs
  PROVE  Settled(c, pc) \in Calls /\ Settled(c, pc).pc = pc /\ Settled(c, pc).plain = c.plain
  BY DEF Settled, IdleCall, Calls, PCs

LEMMA InsertChange ==
  ASSUME AdminInv, NEW e \in Editors, InsertClient(e)
  PROVE  Change(e)
<1>1. call[e].pc = "insert" /\ call[e].plain = 0 /\ form' = form
  BY TabTypes DEF InsertClient, CallShape
<1>2. CASE Step(e, "no") /\ UNCHANGED <<minted, site, secrets>>
  <2>1. "no" \in PCs \ {"write"} BY DEF PCs
  <2> QED BY <1>1, <1>2, <2>1, StaysQuiet, MoveChange
<1>3. CASE ~ (Step(e, "no") /\ UNCHANGED <<minted, site, secrets>>)
  <2> DEFINE s == IF call[e].confidential THEN Fresh(call[e]) ELSE 0
             c == Settled(WithSecret(call[e], s), "rename")
  <2>1. /\ site.app /\ ~site.client
        /\ site' = [site EXCEPT !.client = TRUE, !.secret = s]
        /\ call' = [call EXCEPT ![e] = c]
        /\ secrets' = [secrets EXCEPT !.retired = @ \ {s}]
    BY <1>3 DEF InsertClient
  <2>2. s \in Nat BY TabTypes DEF Fresh
  <2>3. c \in Calls /\ c.pc = "rename" /\ c.plain = s
    <3>1. WithSecret(call[e], s) \in Calls /\ WithSecret(call[e], s).plain = s
      BY <2>2, TabTypes DEF WithSecret, Calls
    <3>2. "rename" \in PCs BY DEF PCs, ServerPCs
    <3> HIDE DEF s
    <3> QED BY <3>1, <3>2, SettledRow
  <2> HIDE DEF s, c
  <2>4. /\ call' \in [Editors -> Calls] /\ call'[e] = c
        /\ \A q \in Editors \ {e} : call'[q] = call[q]
    BY <2>1, <2>3, CallRow, TabTypes
  <2>5. /\ site' \in Sites /\ site'.client /\ site'.app /\ site'.secret = s
    BY <2>1, <2>2, TabTypes DEF Sites
  <2>6. /\ secrets' \in Histories /\ secrets'.known = secrets.known
        /\ secrets'.retired = secrets.retired \ {s}
    BY <2>1, TabTypes DEF Histories
  <2>7. site.secret = 0 BY <2>1 DEF AdminInv, ClientTypeOK
  <2>8. Tables BY <2>5, <2>6 DEF Tables
  <2>9. FitsStay BY <2>5, <2>6, <2>7 DEF FitsStay, Fits, Secrets
  <2>10. Alone(e) BY <1>1, <2>4, TabTypes DEF Alone
  <2>11. CallShape(call[e])' BY <2>3, <2>4 DEF CallShape
  <2>12. Gains(e) BY <1>1, <2>3, <2>4, <2>5 DEF Gains, OnItsWay, Fits
  <2>13. Brings(e) BY <1>1, <2>4 DEF Brings, OnItsWay, StoredPCs
  <2>14. StoresKnown(e) BY <2>3, <2>4, <2>5 DEF StoresKnown, OnItsWay, StoredPCs
  <2>15. ReadsKnown(e) BY <2>3, <2>4 DEF ReadsKnown
  <2> QED BY <2>8, <2>9, <2>10, <2>11, <2>12, <2>13, <2>14, <2>15 DEF Change
<1> QED BY <1>2, <1>3

LEMMA WriteChange ==
  ASSUME AdminInv, NEW e \in Editors, WriteClient(e)
  PROVE  Change(e)
<1>1. call[e].pc = "write" /\ form' = form BY DEF WriteClient
<1>2. CASE Step(e, "no") /\ UNCHANGED <<site, secrets>>
  <2>1. "no" \in PCs \ {"write"} BY DEF PCs
  <2> QED BY <1>1, <1>2, <2>1, StaysQuiet, MoveChange DEF StoredPCs
<1>3. CASE ~ (Step(e, "no") /\ UNCHANGED <<site, secrets>>)
  <2> DEFINE c == Settled(call[e], "read back")
  <2>1. call' = [call EXCEPT ![e] = c] BY <1>3 DEF WriteClient
  <2>2. c \in Calls /\ c.pc = "read back" /\ c.plain = call[e].plain
    <3>1. "read back" \in PCs BY DEF PCs, ServerPCs
    <3> QED BY <3>1, SettledRow, TabTypes
  <2> HIDE DEF c
  <2>3. /\ call' \in [Editors -> Calls] /\ call'[e] = c
        /\ \A q \in Editors \ {e} : call'[q] = call[q]
    BY <2>1, <2>2, CallRow, TabTypes
  <2>4. /\ call[e].plain # 0 => call[e].new = call[e].plain
        /\ call[e].plain = 0 => call[e].new = (IF call[e].confidential THEN call[e].read ELSE 0)
    BY <1>1, TabTypes DEF CallShape
  <2>5. Alone(e) BY <1>1, <2>3, TabTypes DEF Alone
  <2>6. CallShape(call[e])' BY <2>2, <2>3 DEF CallShape
  <2>7. Brings(e) BY <1>1, <2>3 DEF Brings, OnItsWay, StoredPCs
  <2>8. ReadsKnown(e) BY <2>2, <2>3 DEF ReadsKnown
  <2>9. secrets.known \subseteq Nat /\ secrets.retired \subseteq Nat BY TabTypes DEF Histories
  <2>10. Tables /\ FitsStay /\ StoresKnown(e) /\ Gains(e)
    <3>1. CASE site.client
      <4> DEFINE kept == IF Replaces(call[e]) THEN secrets.retired \cup {site.secret}
                         ELSE secrets.retired
      <4>1. /\ site' = [site EXCEPT !.secret = call[e].new]
            /\ secrets' = [secrets EXCEPT !.retired = kept \ {0, call[e].new}]
        BY <1>3, <3>1 DEF WriteClient, Stores
      <4>2. site.secret \in Nat /\ call[e].new \in Nat BY TabTypes DEF Sites
      <4>3. kept \subseteq Nat BY <2>9, <4>2
      <4>4. ~Replaces(call[e]) => call[e].new = site.secret BY <2>4 DEF Replaces
      <4>5. secrets.retired \subseteq kept /\ (call[e].new = site.secret \/ site.secret \in kept)
        BY <4>4
      <4> HIDE DEF kept
      <4>6. /\ site' \in Sites /\ site'.client = site.client /\ site'.app = site.app
            /\ site'.secret = call[e].new
        BY <4>1, <4>2, TabTypes DEF Sites
      <4>7. /\ secrets' \in Histories /\ secrets'.known = secrets.known
            /\ secrets'.retired = kept \ {0, call[e].new}
        BY <4>1, <4>3, <2>9, TabTypes DEF Histories
      <4>8. site.client => site.app BY DEF AdminInv, ClientTypeOK
      <4>9. Tables BY <3>1, <4>6, <4>7, <4>8 DEF Tables
      <4>10. FitsStay BY <4>5, <4>6, <4>7 DEF FitsStay, Fits, Secrets
      <4>11. StoresKnown(e)
        BY <1>1, <2>2, <2>3, <2>4, <4>6 DEF StoresKnown, OnItsWay, StoredPCs
      <4>12. Gains(e) BY <1>1, <2>2, <2>3, <2>4, <4>6 DEF Gains, OnItsWay, Fits, Secrets
      <4> QED BY <4>9, <4>10, <4>11, <4>12
    <3>2. CASE ~site.client
      <4>1. /\ site' = site
            /\ secrets' = [secrets EXCEPT !.retired = @ \cup ({call[e].plain} \ {0})]
        BY <1>3, <3>2 DEF WriteClient
      <4>2. /\ secrets' \in Histories /\ secrets'.known = secrets.known
            /\ secrets'.retired = secrets.retired \cup ({call[e].plain} \ {0})
        BY <4>1, <2>9, TabTypes DEF Histories
      <4>3. Tables BY <4>1, <4>2 DEF Tables, AdminInv, ClientTypeOK
      <4>4. FitsStay BY <4>1, <4>2 DEF FitsStay, Fits
      <4>5. StoresKnown(e) BY <4>1 DEF StoresKnown
      <4>6. Gains(e) BY <1>1, <2>2, <2>3, <4>2 DEF Gains, OnItsWay, Fits, Secrets
      <4> QED BY <4>3, <4>4, <4>5, <4>6
    <3> QED BY <3>1, <3>2
  <2> QED BY <2>5, <2>6, <2>7, <2>8, <2>10 DEF Change
<1> QED BY <1>2, <1>3

-----------------------------------------------------------------------------
(* The answer. *)

LEMMA EditedChange ==
  ASSUME AdminInv, NEW e \in Editors, Edited(e)
  PROVE  Change(e)
<1>1. /\ call[e].pc = "ok" /\ call' = [call EXCEPT ![e] = IdleCall] /\ site' = site
  BY DEF Edited
<1>2. CASE form' = form /\ secrets' = Loses(call[e].plain)
  <2>1. Quiet /\ (call[e].plain # 0 => call[e].plain \in secrets'.known)
    BY <1>1, <1>2, Learns, TabTypes
  <2> QED BY <1>1, <1>2, <2>1, OverChange
<1>3. CASE /\ call[e].plain = 0 /\ form' = [form EXCEPT ![e] = Renders(form[e])]
           /\ secrets' = Saw(form'[e].banner)
  BY <1>1, <1>3, RenderChange
<1>4. CASE /\ call[e].plain # 0
           /\ form' = [form EXCEPT ![e] = [form[e] EXCEPT !.banner = call[e].plain, !.typed = 0]]
           /\ secrets' = Saw(form'[e].banner)
  <2> DEFINE f == [form[e] EXCEPT !.banner = call[e].plain, !.typed = 0]
  <2>1. f \in Forms /\ f.banner = call[e].plain /\ f.kept = form[e].kept BY TabTypes DEF Forms
  <2>2. form' = [form EXCEPT ![e] = f] BY <1>4
  <2> HIDE DEF f
  <2>3. /\ form' \in [Editors -> Forms] /\ form'[e] = f
        /\ \A q \in Editors \ {e} : form'[q] = form[q]
    BY <2>1, <2>2, FormRow, TabTypes
  <2>4. /\ call' \in [Editors -> Calls] /\ call'[e] = IdleCall
        /\ \A q \in Editors \ {e} : call'[q] = call[q]
    BY <1>1, CallRow, IdleRow, TabTypes
  <2>5. secrets' = Saw(call[e].plain) BY <1>4, <2>1, <2>3
  <2>6. Quiet /\ call[e].plain \in secrets'.known BY <1>1, <1>4, <2>5, Learns, TabTypes
  <2>7. Alone(e) BY <2>3, <2>4 DEF Alone
  <2>8. CallShape(call[e])' BY <2>4, IdleRow DEF CallShape
  <2>9. Gains(e) BY <1>1, <2>1, <2>3, <2>4, IdleRow DEF Gains, OnItsWay, StoredPCs
  <2>10. Brings(e) BY <2>1, <2>3, <2>6 DEF Brings, OnItsWay
  <2>11. ReadsKnown(e) BY <2>4, IdleRow DEF ReadsKnown
  <2> QED BY <2>6, <2>7, <2>8, <2>9, <2>10, <2>11, QuietChange
<1> QED BY <1>2, <1>3, <1>4 DEF Edited

LEMMA CreatedChange ==
  ASSUME AdminInv, NEW e \in Editors, Created(e)
  PROVE  Change(e)
<1>1. call[e].pc = "ok" /\ site' = site BY DEF Created
<1>2. "replace" \in PCs BY DEF PCs
<1>3. Step(e, "replace") BY DEF Created, Step
<1>4. /\ call' \in [Editors -> Calls] /\ Moved(call[e], call'[e], "replace")
      /\ \A q \in Editors \ {e} : call'[q] = call[q]
  BY <1>2, <1>3, StepMoves, TabTypes
<1>5. call'[e].pc = "replace" BY <1>4 DEF Moved
<1> DEFINE k == IF call[e].plain # 0 THEN call[e].plain ELSE form[e].kept
           f == [form[e] EXCEPT !.kept = k]
<1>6. f \in Forms /\ f.banner = form[e].banner /\ f.kept = k BY TabTypes DEF Forms
<1>7. form' = [form EXCEPT ![e] = f] BY DEF Created
<1> HIDE DEF f
<1>8. /\ form' \in [Editors -> Forms] /\ form'[e] = f
      /\ \A q \in Editors \ {e} : form'[q] = form[q]
  BY <1>6, <1>7, FormRow, TabTypes
<1>9. Quiet /\ (call[e].plain # 0 /\ form[e].kept # 0 => form[e].kept \in secrets'.known)
  <2>1. CASE call[e].plain # 0
    <3>1. secrets' = Loses(form[e].kept) BY <2>1 DEF Created
    <3> QED BY <1>1, <3>1, Learns, TabTypes
  <2>2. CASE call[e].plain = 0
    <3>1. secrets' = secrets BY <2>2 DEF Created
    <3> QED BY <1>1, <2>2, <3>1, StaysQuiet
  <2> QED BY <2>1, <2>2
<1>10. Alone(e) BY <1>4, <1>8 DEF Alone
<1>11. CallShape(call[e])' BY <1>5 DEF CallShape
<1>12. Gains(e) BY <1>1, <1>5, <1>6, <1>8 DEF Gains, OnItsWay, StoredPCs
<1>13. Brings(e) BY <1>6, <1>8, <1>9 DEF Brings, OnItsWay, Secrets
<1>14. ReadsKnown(e) BY <1>5 DEF ReadsKnown
<1> QED BY <1>9, <1>10, <1>11, <1>12, <1>13, <1>14, QuietChange

LEMMA ReplacedChange ==
  ASSUME AdminInv, NEW e \in Editors, Replaced(e)
  PROVE  Change(e)
  BY RenderChange DEF Replaced

-----------------------------------------------------------------------------
(* One step. *)

LEMMA EraseKeeps ==
  ASSUME AdminInv, Erase
  PROVE  AdminInv'
<1>1. site \in Sites /\ secrets \in Histories BY DEF AdminInv, ClientTypeOK
<1>2. site' \in Sites /\ site'.secret = 0 /\ ~site'.client
  <2>1. /\ [site EXCEPT !.client = FALSE, !.secret = 0] \in Sites
        /\ [site EXCEPT !.client = FALSE, !.secret = 0].secret = 0
        /\ ~[site EXCEPT !.client = FALSE, !.secret = 0].client
    BY <1>1 DEF Sites
  <2>2. /\ WithoutApplication(site) \in Sites /\ WithoutApplication(site).secret = 0
        /\ ~WithoutApplication(site).client
    BY DEF WithoutApplication, Sites
  <2> QED BY <2>1, <2>2 DEF Erase
<1>3. UNCHANGED <<minted, form, call>> BY DEF Erase
<1>4. secrets' = [secrets EXCEPT !.retired = @ \cup ({site.secret} \ {0})] BY DEF Erase
<1>5. /\ secrets' \in Histories /\ secrets'.known = secrets.known
      /\ secrets'.retired = secrets.retired \cup ({site.secret} \ {0})
  <2>1. site.secret \in Nat /\ secrets.retired \subseteq Nat BY <1>1 DEF Sites, Histories
  <2> QED BY <1>1, <1>4, <2>1 DEF Histories
<1>6. ClientTypeOK' BY <1>2, <1>3, <1>5 DEF AdminInv, ClientTypeOK
<1>7. \A s \in Secrets : Fits(s) => Fits(s)' BY <1>5 DEF Fits, Secrets
<1>8. ASSUME NEW e \in Editors PROVE CallShape(call[e])' /\ Honest(e)' /\ ReadReached(e)'
  <2>1. CallShape(call[e])' BY <1>3 DEF AdminInv, CallShape
  <2>2. Honest(e)' BY <1>3, <1>7 DEF AdminInv, Honest, OnItsWay
  <2>3. ReadReached(e)' BY <1>3, <1>5 DEF AdminInv, ReadReached, Reached, OnItsWay
  <2> QED BY <2>1, <2>2, <2>3
<1> QED BY <1>2, <1>6, <1>8 DEF AdminInv

LEMMA MintedStays ==
  ASSUME AdminInv, ClientNext
  PROVE  minted' \in Nat
<1>1. minted \in Nat BY DEF AdminInv, ClientTypeOK
<1>2. ASSUME NEW e \in Editors, FormStep(e) PROVE minted' \in Nat
  <2>1. CASE Visit(e) \/ GoAway(e) \/ VisitOther(e) \/ DismissSecret(e)
    BY <1>1, <2>1 DEF Visit, GoAway, VisitOther, DismissSecret
  <2>2. ASSUME NEW confidential \in BOOLEAN, NEW regenerate \in BOOLEAN,
               NEW typed \in 0..(minted + 1), Save(e, confidential, typed, regenerate)
        PROVE  minted' \in Nat
    BY <1>1, <2>2 DEF Save
  <2> QED BY <1>2, <2>1, <2>2 DEF FormStep
<1>3. ASSUME NEW e \in Editors, RouteStep(e) PROVE minted' \in Nat
  <2>1. CASE InsertClient(e) BY <1>1, <2>1 DEF InsertClient, MintFor
  <2>2. CASE ReadHash(e) BY <1>1, <2>2 DEF ReadHash, MintFor
  <2>3. CASE Look(e) \/ RenameAfterInsert(e) \/ WriteClient(e) \/ ReadBack(e) \/ Dies(e)
    BY <1>1, <2>3 DEF Look, RenameAfterInsert, WriteClient, ReadBack, Dies
  <2> QED BY <1>3, <2>1, <2>2, <2>3 DEF RouteStep
<1>4. ASSUME NEW e \in Editors, AnswerStep(e) PROVE minted' \in Nat
  BY <1>1, <1>4 DEF AnswerStep, Edited, Created, Replaced, NoAnswer
<1> QED BY <1>1, <1>2, <1>3, <1>4 DEF ClientNext, Erase

LEMMA TabStep ==
  ASSUME AdminInv, NEW e \in Editors, FormStep(e) \/ RouteStep(e) \/ AnswerStep(e)
  PROVE  Change(e)
<1>1. CASE FormStep(e)
  <2>1. 0..(minted + 1) \subseteq Nat BY DEF AdminInv, ClientTypeOK
  <2> QED
    BY <1>1, <2>1, VisitChange, GoAwayChange, VisitOtherChange, DismissChange, SaveChange
    DEF FormStep
<1>2. CASE RouteStep(e)
  BY <1>2, LookChange, InsertChange, RenameChange, ReadHashChange, WriteChange, ReadBackChange,
     DiesChange
  DEF RouteStep
<1>3. CASE AnswerStep(e)
  BY <1>3, EditedChange, CreatedChange, ReplacedChange, NoAnswerChange DEF AnswerStep
<1> QED BY <1>1, <1>2, <1>3

LEMMA AdminStart == ClientInit => AdminInv
<1> SUFFICES ASSUME ClientInit PROVE AdminInv OBVIOUS
<1>1. site \in Sites /\ site.secret \in Nat /\ (site.secret # 0 => site.client) /\ site.app
  <2>1. site \in [app: {TRUE}, client: BOOLEAN, secret: {0, 1}] BY DEF ClientInit
  <2>2. site.app = TRUE /\ site.client \in BOOLEAN /\ site.secret \in {0, 1} BY <2>1
  <2>3. site \in Sites BY <2>1, {TRUE} \subseteq BOOLEAN, {0, 1} \subseteq Nat DEF Sites
  <2>4. ~site.client => site.secret = 0 BY DEF ClientInit
  <2> QED BY <2>2, <2>3, <2>4
<1>2. NewForm(0) \in Forms /\ NewForm(0).banner = 0 /\ NewForm(0).kept = 0 BY FreshForm
<1>3. form \in [Editors -> Forms] /\ call \in [Editors -> Calls]
  BY <1>2, IdleRow DEF ClientInit
<1>4. \A e \in Editors : /\ form[e].banner = 0 /\ form[e].kept = 0
                         /\ call[e].pc = "idle" /\ call[e].plain = 0
  BY <1>2, IdleRow DEF ClientInit
<1>5. secrets \in Histories /\ secrets.known = {site.secret} \ {0} /\ minted \in Nat
  BY <1>1 DEF ClientInit, Histories
<1>6. ClientTypeOK BY <1>1, <1>3, <1>5 DEF ClientTypeOK
<1>7. \A e \in Editors : CallShape(call[e]) /\ Honest(e) /\ ReadReached(e)
  <2> SUFFICES ASSUME NEW e \in Editors
               PROVE  CallShape(call[e]) /\ Honest(e) /\ ReadReached(e)
    OBVIOUS
  <2>1. CallShape(call[e]) BY <1>4 DEF CallShape
  <2>2. Honest(e)
    <3>1. call[e].pc \notin StoredPCs BY <1>4 DEF StoredPCs
    <3>2. \A s \in Secrets : form[e].banner # s /\ form[e].kept # s BY <1>4 DEF Secrets
    <3> QED BY <3>1, <3>2 DEF Honest, OnItsWay
  <2>3. ReadReached(e) BY <1>4 DEF ReadReached
  <2> QED BY <2>1, <2>2, <2>3
<1>8. site.secret # 0 => Reached(site.secret) BY <1>5 DEF Reached
<1> QED BY <1>6, <1>7, <1>8 DEF AdminInv

LEMMA AdminStep == AdminInv /\ [ClientNext]_clientVars => AdminInv'
<1> SUFFICES ASSUME AdminInv, [ClientNext]_clientVars PROVE AdminInv' OBVIOUS
<1>1. CASE UNCHANGED clientVars
  BY <1>1 DEF clientVars, AdminInv, ClientTypeOK, CallShape, Honest, ReadReached, Reached, Fits,
              OnItsWay
<1>2. CASE Erase BY <1>2, EraseKeeps
<1>3. ASSUME NEW e \in Editors, FormStep(e) \/ RouteStep(e) \/ AnswerStep(e) PROVE AdminInv'
  <2>1. minted' \in Nat BY <1>3, MintedStays DEF ClientNext
  <2> QED BY <1>3, <2>1, TabStep, ChangeKeeps
<1> QED BY <1>1, <1>2, <1>3 DEF ClientNext

-----------------------------------------------------------------------------
(* The theorems. *)

\* The inductive invariant holds for any number of tabs and secrets.
THEOREM AdminInvariance == ClientSpec => []AdminInv
  BY AdminStart, AdminStep, PTL DEF ClientSpec

\* The rows keep their types, and the client goes with its application.
THEOREM ClientTypeCorrect == ClientSpec => []ClientTypeOK
<1>1. AdminInv => ClientTypeOK BY DEF AdminInv
<1> QED BY <1>1, AdminInvariance, PTL

\* A secret on a screen is the client's, or was replaced or removed since, in whatever order
\* the statements of overlapping edits run (client-admin.ts:280-370).
THEOREM ScreenIsRight == ClientSpec => []ShownSecretWorks
<1>1. AdminInv => ShownSecretWorks
  <2> SUFFICES ASSUME AdminInv, NEW e \in Editors, form[e].banner # 0 PROVE Fits(form[e].banner)
    BY DEF ShownSecretWorks, Fits
  <2>1. form[e].banner \in Secrets BY TabTypes DEF Secrets
  <2> QED BY <2>1, TabTypes DEF Honest
<1> QED BY <1>1, AdminInvariance, PTL

\* The secret of a client was on a screen or is on its way to one, unless it was lost in one
\* of the ways the property names.
THEOREM SecretIsDelivered == ClientSpec => []SecretReachesScreen
<1>1. AdminInv => SecretReachesScreen
  <2> SUFFICES ASSUME AdminInv, site.secret # 0
               PROVE  \/ site.secret \in secrets.known
                      \/ \E e \in Editors : \/ form[e].kept = site.secret
                                            \/ Carries(e, site.secret)
    BY DEF SecretReachesScreen
  <2>1. Reached(site.secret) BY DEF AdminInv
  <2>2. \A e \in Editors : OnItsWay(e, site.secret) =>
          form[e].kept = site.secret \/ Carries(e, site.secret)
    BY DEF OnItsWay, Carries, StoredPCs, ServerPCs
  <2> QED BY <2>1, <2>2 DEF Reached
<1> QED BY <1>1, AdminInvariance, PTL
=============================================================================
