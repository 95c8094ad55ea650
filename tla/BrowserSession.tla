----------------------------- MODULE BrowserSession -----------------------------
(***************************************************************************)
(* One tab of the applicant site: the session of lib/auth.tsx, the answers   *)
(* of lib/answers-store.tsx, the pages that show and save them, and the       *)
(* requests to the server, which answers each against the book of the account *)
(* whose token it carries.  Signed out, the tab keeps the answers of a guest   *)
(* in localStorage.  An effect of a render is part of the action that causes it.*)
(*                                                                         *)
(* The person may be confined to what the properties assume: InOrder, requests *)
(* are served and answered in the order sent; Settled, he leaves a page, adds or *)
(* deletes a row, saves, reloads or signs in or out only while no edit is being *)
(* saved and no rows are being read; Patient, he opens a page only when the    *)
(* answers are loaded, and answers nothing while his session is being checked. *)
(***************************************************************************)
EXTENDS SignIn, Sublists

CONSTANTS
    InOrder, Settled, Patient,
    Page,           \* the pages in use, out of Pages
    Rep,            \* the repeater of the forms
    MaxNet,         \* bound: requests in flight
    MaxEdits,       \* bound: edits
    MaxMoves        \* bound: pages opened, reloads, sign-ins, accounts closed, requests lost

VARIABLES
    store,      \* localStorage
    tab,        \* AuthProvider and AnswersProvider
    form,       \* the page and what it holds
    timer,      \* the cell edits waiting for their 500 ms
    net,        \* requests, oldest first
    kept,       \* what the person was shown as saved or being saved
    said,       \* what each account, and the guest, said
    count       \* of the bounded moves, whether a request was lost, and whether a
                \* session was refused after its answers had come

client == <<store, tab, form, timer, net, kept, said>>
vars == <<server, client, count>>

Pages == {"home", "form", "benefits", "benefit", "profile", "answered"}
Guest == "guest"
Who(t) == IF t.user = None THEN Guest ELSE t.user
Field == Scalar \cup Subfield
NoAnswers == [answers |-> {}, groups |-> <<>>]

AnswersMap(t) ==
    [f \in Scalar |->
        IF \E i \in t.answers : i.field = f /\ i.row = None
        THEN (CHOOSE i \in t.answers : i.field = f /\ i.row = None).value ELSE None]

\* A request has no answer yet, or is refused, or gets something.
Unanswered == [done |-> FALSE, ok |-> FALSE, got |-> None]
Refused == [done |-> TRUE, ok |-> FALSE, got |-> None]
Yes(got) == [done |-> TRUE, ok |-> TRUE, got |-> got]

\* What follows the answer of a request, and which button sent it.
Msg(kind, token) ==
    [kind |-> kind, token |-> token, by |-> None, items |-> {}, row |-> None, live |-> TRUE,
     reply |-> Unanswered]
IsWrite(m) == m.kind \in {"save", "cell", "add", "remove", "login"}
\* A request whose answer is applied whatever happened since.
IsPlain(m) == IsWrite(m) \/ m.kind = "rows"
Busy == timer # {} \/ form.saving \/ \E n \in DOMAIN net : IsPlain(net[n])
Quiet == timer = {} /\ net = <<>> /\ ~form.saving
MayMove == Settled => ~Busy

Writes(q) == Picked(q, {n \in DOMAIN q : IsWrite(q[n])})

\* Setting some answers, and dropping the ones of null.
Merge(answers, items) ==
    {a \in answers : \A i \in items : <<i.field, i.row>> # <<a.field, a.row>>}
    \cup {i \in items : i.value # None}

ASSUME BrowserAssumption ==
    /\ {"here", "elsewhere"} \subseteq Browser /\ Rep \in Repeater /\ MaxRows \in Nat
    /\ Guest \notin Account /\ None \notin Value
    /\ Parent \in [Subfield -> Repeater]
    /\ \A i \in Identity, f \in EgovField : i.profile[f] \in Value \cup {None}

\* A cancelled read has no effect any more.
Cancel(q, kinds) == Picked(q, {n \in DOMAIN q : q[n].kind \notin kinds})

-----------------------------------------------------------------------------
(* Renders *)

\* The providers' effects, once the session is t: who is signed in decides where
\* the answers come from.
Provided(t, s) ==
    IF t.waiting \/ <<t.waiting, t.user = None, t.token>> = <<tab.waiting, tab.user = None, tab.token>> THEN t
    ELSE IF t.user = None
    THEN [t EXCEPT !.answers = s.guest.answers, !.groups = s.guest.groups, !.loading = FALSE]
    ELSE [t EXCEPT !.loading = TRUE]

\* The effects of children run first: AnswersProvider is inside AuthProvider, so the
\* answers are asked for before the session is checked.
ProvidedNet(t, q) ==
    LET asked == IF t.waiting
                    \/ <<t.waiting, t.user = None, t.token>> = <<tab.waiting, tab.user = None, tab.token>>
                 THEN q
                 ELSE Cancel(q, {"answers"}) \o (IF t.user = None THEN <<>> ELSE <<Msg("answers", t.token)>>)
    IN  IF t.token = tab.token THEN asked
        ELSE Cancel(asked, {"me"}) \o (IF t.token = None THEN <<>> ELSE <<Msg("me", t.token)>>)

HasRepeater(p) == p \in {"form", "profile", "answered"}
NoCells == {}

\* A page just mounted.  The benefit page's callback keeps the answers of that
\* render (BenefitDetailsPage.tsx:59-66).
Mounted(p, t) ==
    [page |-> p, editing |-> FALSE, cells |-> NoCells, saving |-> FALSE,
     draft |-> IF p \in {"form", "benefit"} THEN AnswersMap(t) ELSE [f \in Scalar |-> None],
     captured |-> AnswersMap(t), evaluated |-> None]

\* Mutation: a page evaluates when it mounts, loaded or not.
EvaluatedMutant(fm, t) ==
    IF t.user # None \/ fm.evaluated # None THEN fm.evaluated
    ELSE CASE fm.page = "benefits" -> AnswersMap(t)
           [] fm.page = "benefit" -> fm.captured
           [] OTHER -> None

\* getEligibilityResults and getGuestBenefitEligibility: a guest sends answers.
Evaluated(fm, t) ==
    IF t.user # None \/ t.loading THEN fm.evaluated
    ELSE CASE fm.page = "benefits" -> AnswersMap(t)
           [] fm.page = "benefit" -> fm.captured
           [] OTHER -> None

\* The page after a change of the answers: what is in the draft stays.
Refreshed(fm, t) ==
    [fm EXCEPT !.draft = [f \in Scalar |->
        IF fm.page \in {"form", "benefit"} /\ @[f] = None THEN AnswersMap(t)[f] ELSE @[f]]]

\* An applicant without any answer is sent to the form; one whose answers are all
\* blank is not.
Landings(p, t) == IF p = "benefits" /\ ~t.loading /\ t.answers = {} THEN {"form", p} ELSE {p}

\* The page p opens over the session t.  A repeater mounts, and asks for its rows, only
\* once its page has the fields: after what the providers ask for.
Show(p, t, q) ==
    \E page \in Landings(p, t) :
        LET fm == Mounted(page, t)
        IN  /\ form' = [fm EXCEPT !.evaluated = Evaluated(fm, t)]
            /\ net' = IF HasRepeater(page) /\ t.user # None
                      THEN Append(q, Msg("rows", t.token)) ELSE q
            /\ timer' = {}

\* The page stays.  It evaluates when the answers have loaded, and when the session
\* changes: then in the render that still has the old answers.
Keep(fm, t, q) ==
    LET changed == t.token # tab.token
        known == IF changed THEN [fm EXCEPT !.captured = AnswersMap(tab)] ELSE fm
    IN  \/ \E p \in Landings(fm.page, t) \ {fm.page} : Show(p, t, q)
        \/ /\ form' = [Refreshed(known, t) EXCEPT !.evaluated =
                    IF tab.loading /\ ~t.loading THEN Evaluated(known, t)
                    ELSE IF changed THEN Evaluated(known, [t EXCEPT !.answers = tab.answers]) ELSE @]
           /\ net' = q /\ UNCHANGED timer

-----------------------------------------------------------------------------
Fresh(s) ==
    [token |-> s.token, user |-> None, waiting |-> s.token # None, profile |-> s.profile,
     answers |-> {}, groups |-> <<>>, loading |-> TRUE]

Init ==
    /\ ServerInit
    /\ store = [token |-> None, profile |-> None, guest |-> NoAnswers]
    /\ tab = [Fresh(store) EXCEPT !.loading = FALSE]
    /\ form = Mounted("home", tab)
    /\ timer = {} /\ net = <<>> /\ kept = {}
    /\ said = [w \in Account \cup {Guest} |-> {}]
    /\ count = [edits |-> 0, moves |-> 0, lost |-> FALSE, ended |-> FALSE]

Move == count.moves < MaxMoves /\ count' = [count EXCEPT !.moves = @ + 1]
Edit == count.edits < MaxEdits /\ count' = [count EXCEPT !.edits = @ + 1]

\* The session is not being checked, as a patient person knows who answers.
Checked == Patient => \A n \in DOMAIN net : net[n].kind # "me"

\* The person said items; what is kept of them shows as theirs.
Say(items) ==
    said' = [said EXCEPT ![Who(tab)] = @ \cup {<<i.field, i.value>> : i \in {j \in items : j.value # None}}]
Hold(items) == kept' = Merge(kept, items)
Forget(items) ==
    kept' = {k \in kept : \A i \in items : <<i.field, i.row>> # <<k.field, k.row>>}

\* A reload or a new visit: the session starts from localStorage.
Reload ==
    /\ Move /\ MayMove
    /\ LET t0 == Fresh(store)
           t == IF t0.waiting THEN t0
                ELSE [t0 EXCEPT !.answers = store.guest.answers, !.groups = store.guest.groups,
                                !.loading = FALSE]
           q == [n \in DOMAIN Writes(net) |-> [Writes(net)[n] EXCEPT !.live = FALSE]]
           f0 == Mounted(form.page, t0)
           fm == [f0 EXCEPT !.evaluated = Evaluated(f0, t0)]
       IN  /\ tab' = t
           /\ net' = IF t0.waiting THEN Append(q, Msg("me", t0.token)) ELSE q
           /\ IF t0.waiting THEN form' = fm
              ELSE \E p \in Landings(fm.page, t) :
                      form' = IF p # fm.page THEN Mounted(p, t)
                              ELSE [Refreshed(fm, t) EXCEPT !.evaluated = Evaluated(fm, t)]
           /\ timer' = {}
    /\ UNCHANGED <<server, store, kept, said>>

Allowed(p, t) == p = "profile" => t.user # None

Visit(p) ==
    /\ Move /\ MayMove /\ ~tab.waiting /\ p \in Page /\ Allowed(p, tab)
    /\ Checked /\ (Patient => ~tab.loading)
    /\ Show(p, tab, net)
    /\ UNCHANGED <<server, store, tab, kept, said>>

\* LoginPage: a guest presents an identity.
SendLogin(i) ==
    /\ Move /\ MayMove /\ ~tab.waiting /\ tab.user = None
    /\ form' = Mounted("home", tab) /\ timer' = {}
    /\ net' = Append(net, [Msg("login", None) EXCEPT !.by = i])
    /\ UNCHANGED <<server, store, tab, kept, said>>

\* applyLogin, and the redirect from the login page to a user's home.
ApplyLogin(m, q) ==
    /\ store' = [store EXCEPT !.token = m.reply.got, !.profile = IF m.by.via = "egov" THEN m.by.profile ELSE @]
    /\ LET t1 == [tab EXCEPT !.token = m.reply.got, !.user = m.reply.got,
                             !.profile = IF m.by.via = "egov" THEN m.by.profile ELSE @]
           t == Provided(t1, store')
       IN  tab' = t /\ Show("benefits", t, ProvidedNet(t1, q))
    /\ kept' = {}
    /\ UNCHANGED said

SignedOut(t) == [t EXCEPT !.token = None, !.user = None, !.profile = None, !.waiting = FALSE]

\* Mutation: a logout clears the session only.
SweptMutant(s) == [s EXCEPT !.token = None, !.profile = None]

\* A logout clears every key of the site.
Swept(s) == [s EXCEPT !.token = None, !.profile = None, !.guest = NoAnswers]

\* The header's button: logout, then the landing page.
Logout ==
    /\ MayMove /\ tab.user # None
    /\ store' = Swept(store)
    /\ LET t1 == SignedOut(tab)
           t == Provided(t1, store')
       IN  tab' = t /\ Show("home", t, ProvidedNet(t1, net))
    /\ kept' = {} /\ said' = [said EXCEPT ![Guest] = {}]
    /\ UNCHANGED <<server, count>>

\* getMe answers: the session stands, or any failure ends it.
SessionChecked(m, q) ==
    LET t1 == IF m.reply.ok THEN [tab EXCEPT !.user = m.token, !.waiting = FALSE] ELSE SignedOut(tab)
        s == IF m.reply.ok THEN store ELSE [store EXCEPT !.token = None, !.profile = None]
        t == Provided(t1, s)
    IN  /\ store' = s /\ tab' = t
        /\ IF tab.waiting \/ ~Allowed(form.page, t)
           THEN Show(IF Allowed(form.page, t) THEN form.page ELSE "home", t, ProvidedNet(t1, q))
           ELSE Keep(form, t, ProvidedNet(t1, q))
        /\ kept' = IF m.reply.ok THEN kept ELSE {}
        /\ UNCHANGED said

-----------------------------------------------------------------------------
(* Saving *)

\* Mutation: only the new answers are written.
SavedGuestMutant(items, groups) == [answers |-> Merge({}, items), groups |-> groups]

\* submit, of a guest: the new answers, with the rows its closure knew.
SavedGuest(items, groups) == [answers |-> Merge(tab.answers, items), groups |-> groups]

GuestSubmit(items, groups, fm) ==
    LET t == [tab EXCEPT !.answers = Merge(@, items)]
    IN  /\ store' = [store EXCEPT !.guest = SavedGuest(items, groups)]
        /\ tab' = t
        /\ form' = fm

\* Mutation: the filter of the pages does not know what is unlocked.
AnswerableMutant(f) == f \notin EgovField

\* What a page sends: every field it rendered that is not locked.
Answerable(f) == ~IsEgovFieldLocked(f, tab.user)

ItemsOf(fields) == {[field |-> f, row |-> None, value |-> form.draft[f]] : f \in fields}
DraftItems == ItemsOf({f \in Scalar : Answerable(f)})
Editable == {f \in Scalar : ~IsEgovFieldLocked(f, tab.user)}

\* What the person answers in a form; on the answered page it is saved at once.
Typing(f, v) ==
    /\ Edit /\ Checked /\ ~tab.waiting /\ ~IsEgovFieldLocked(f, tab.user)
    /\ Settled => ~form.saving
    /\ form.page \in {"form", "benefit"} \/ (form.page = "profile" /\ form.editing)
    /\ form' = [form EXCEPT !.draft[f] = v]
    /\ Say({[field |-> f, row |-> None, value |-> v]})
    /\ UNCHANGED <<server, store, tab, timer, net, kept>>

TypeAnswered(f, v) ==
    LET items == {[field |-> f, row |-> None, value |-> v]}
    IN  /\ Edit /\ Checked /\ ~tab.waiting /\ form.page = "answered" /\ ~IsEgovFieldLocked(f, tab.user)
        /\ AnswersMap(tab)[f] # None
        /\ Say(items) /\ Hold(items)
        /\ IF tab.user = None THEN GuestSubmit(items, tab.groups, form) /\ UNCHANGED net
           ELSE /\ Len(net) < MaxNet
                /\ net' = Append(net, [Msg("cell", tab.token) EXCEPT !.items = items])
                /\ UNCHANGED <<store, tab, form>>
        /\ UNCHANGED <<server, timer>>

\* The profile's values stand in for answers that are not there.
DisplayValues(t) ==
    [f \in Scalar |->
        IF AnswersMap(t)[f] # None \/ t.profile = None \/ f \notin EgovField
        THEN AnswersMap(t)[f] ELSE t.profile[f]]

StartEditing ==
    /\ form.page = "profile" /\ ~form.editing /\ ~tab.loading
    /\ form' = [form EXCEPT !.editing = TRUE, !.draft = DisplayValues(tab)]
    /\ UNCHANGED <<server, store, tab, timer, net, kept, said, count>>

CancelEditing ==
    /\ form.page = "profile" /\ form.editing /\ ~form.saving
    /\ form' = [form EXCEPT !.editing = FALSE]
    /\ UNCHANGED <<server, store, tab, timer, net, kept, said, count>>

\* handleSubmit and handleSave.  A guest's save is done at once: the form leads to
\* the benefits, the benefit page evaluates again.
SaveForm ==
    /\ Checked /\ ~tab.waiting /\ ~form.saving /\ MayMove
    /\ form.page \in {"form", "benefit"} \/ (form.page = "profile" /\ form.editing)
    /\ Hold(ItemsOf(Editable))
    /\ IF tab.user = None
       THEN LET t == [tab EXCEPT !.answers = Merge(@, DraftItems)]
            IN  /\ store' = [store EXCEPT !.guest = SavedGuest(DraftItems, tab.groups)]
                /\ tab' = t
                /\ IF form.page = "form" THEN Show("benefits", t, net)
                   ELSE /\ form' = [Refreshed(form, t) EXCEPT !.evaluated = Evaluated(form, t)]
                        /\ UNCHANGED <<net, timer>>
       ELSE /\ Len(net) < MaxNet
            /\ net' = Append(net, [Msg("save", tab.token) EXCEPT !.items = DraftItems])
            /\ form' = [form EXCEPT !.saving = TRUE]
            /\ UNCHANGED <<store, tab, timer>>
    /\ UNCHANGED <<server, said, count>>

\* The save ended: the answers are what the server says, whoever is signed in now.
SaveEnded(m, q) ==
    LET t == IF ~m.reply.ok THEN tab ELSE [tab EXCEPT !.answers = m.reply.got]
        done == [form EXCEPT !.saving = FALSE, !.editing = @ /\ ~m.reply.ok]
    IN  /\ tab' = t
        /\ IF m.reply.ok /\ form.page = "form" /\ form.saving THEN Show("benefits", t, q)
           ELSE Keep(done, t, q)
        /\ IF ~m.reply.ok THEN Forget(m.items) ELSE UNCHANGED kept
        /\ UNCHANGED <<store, said>>

-----------------------------------------------------------------------------
(* Rows *)

Cell(r, c) == <<r, c>>
Shown(cells, r, c) == {x \in cells : Cell(x.row, x.field) = Cell(r, c)}

\* handleCellChange: the value shows at once and its timer starts again.
TypeCell(r, c, v) ==
    LET edit == [row |-> r, field |-> c, value |-> v]
        items == {[field |-> c, row |-> r, value |-> v]}
    IN  /\ Edit /\ Checked /\ ~tab.waiting /\ HasRepeater(form.page) /\ c \in Subfield
        /\ r \in ToSet(tab.groups)
        /\ Settled => ~form.saving
        /\ form' = [form EXCEPT !.cells = (@ \ Shown(@, r, c)) \cup {edit}]
        /\ timer' = {x \in timer : Cell(x.row, x.field) # Cell(r, c)}
                    \cup {[row |-> r, field |-> c, value |-> v, token |-> tab.token,
                           guest |-> tab.user = None, groups |-> tab.groups]}
        /\ Say(items) /\ Hold(items)
        /\ UNCHANGED <<server, store, tab, net>>

TimerItems(x) == {[field |-> x.field, row |-> x.row, value |-> x.value]}

\* The timer runs the submit of the render that started it.
Elapse(x) ==
    /\ x \in timer
    /\ timer' = timer \ {x}
    /\ IF x.guest
       THEN /\ GuestSubmit(TimerItems(x), x.groups,
                   [form EXCEPT !.cells = @ \ Shown(@, x.row, x.field)])
            /\ UNCHANGED net
       ELSE /\ Len(net) < MaxNet
            /\ net' = Append(net, [Msg("cell", x.token) EXCEPT !.items = TimerItems(x)])
            /\ UNCHANGED <<store, tab, form>>
    /\ UNCHANGED <<server, kept, said, count>>

\* A cell's save ended: what shows in its place is dropped, a newer value too.
CellEnded(m, q) ==
    LET t == IF ~m.reply.ok THEN tab ELSE [tab EXCEPT !.answers = m.reply.got]
        fm == [form EXCEPT !.cells = @ \ UNION {Shown(@, i.row, i.field) : i \in m.items}]
    IN  /\ tab' = t /\ Keep(fm, t, q)
        /\ IF ~m.reply.ok THEN Forget(m.items) ELSE UNCHANGED kept
        /\ UNCHANGED <<store, said>>

NewRow ==
    LET used == {r \in Row : Book!Used(r)} \cup ToSet(tab.groups) \cup ToSet(store.guest.groups)
    IN  CHOOSE r \in (Row \ used) \cup {None} : r = None => Row \ used = {}

HandleAddRow ==
    /\ Edit /\ Checked /\ MayMove /\ ~tab.waiting /\ HasRepeater(form.page)
    /\ Len(tab.groups) < MaxRows /\ NewRow # None
    /\ IF tab.user = None
       THEN LET groups == Append(tab.groups, NewRow)
            IN  /\ tab' = [tab EXCEPT !.groups = groups]
                /\ store' = [store EXCEPT !.guest = [answers |-> tab.answers, groups |-> groups]]
                /\ UNCHANGED net
       ELSE /\ Len(net) < MaxNet /\ \A n \in DOMAIN net : net[n].kind # "add"
            /\ net' = Append(net, Msg("add", tab.token))
            /\ UNCHANGED <<tab, store>>
    /\ UNCHANGED <<server, form, timer, kept, said>>

WithoutRow(t, r) ==
    [t EXCEPT !.groups = Picked(@, {n \in DOMAIN @ : @[n] # r}), !.answers = {i \in @ : i.row # r}]

Pending(r) == {x \in timer : x.row = r}

HandleDeleteRow(r) ==
    /\ Edit /\ Checked /\ ~tab.waiting /\ HasRepeater(form.page) /\ r \in ToSet(tab.groups)
    /\ Settled => ~form.saving /\ \A x \in timer : x.row = r
    /\ Settled => \A n \in DOMAIN net : ~IsWrite(net[n])
    /\ timer' = timer \ Pending(r)
    /\ form' = [form EXCEPT !.cells = {x \in @ : x.row # r}]
    /\ kept' = {k \in kept : k.row # r}
    /\ IF tab.user = None
       THEN /\ tab' = WithoutRow(tab, r)
            /\ store' = [store EXCEPT !.guest = [answers |-> tab'.answers, groups |-> tab'.groups]]
            /\ UNCHANGED net
       ELSE /\ Len(net) < MaxNet
            /\ \A n \in DOMAIN net : net[n].kind = "remove" => net[n].row # r
            /\ net' = Append(net, [Msg("remove", tab.token) EXCEPT !.row = r])
            /\ UNCHANGED <<tab, store>>
    /\ UNCHANGED <<server, said>>

-----------------------------------------------------------------------------
(* The server's side of a request, and its answer *)

Next1(n) == InOrder => \A k \in 1 .. n - 1 : net[k].reply # Unanswered
Reply(n, r) == net' = [net EXCEPT ![n].reply = r]

\* mockAuth: the account of the token, if it is in use.
Authorized(a) == MayUse(a)

ServeRead(n) ==
    /\ net[n].reply = Unanswered /\ Next1(n) /\ net[n].kind \in {"me", "answers", "rows"}
    /\ Reply(n, IF ~Authorized(net[n].token) THEN Refused
                ELSE CASE net[n].kind = "me" -> Yes(None)
                       [] net[n].kind = "answers" -> Yes(AnswersOf(net[n].token))
                       [] OTHER -> Yes(RowsOf(net[n].token, Rep)))
    /\ UNCHANGED <<server, store, tab, form, timer, kept, said, count>>

ServeWrite(n) ==
    LET m == net[n]
    IN  /\ m.reply = Unanswered /\ Next1(n) /\ m.kind \in {"save", "cell", "add", "remove"}
        /\ IF Authorized(m.token)
              /\ CASE m.kind \in {"save", "cell"} -> Book!SavableBy(m.token, m.items)
                   [] m.kind = "add" -> Len(rows[m.token][Rep]) < MaxRows /\ NewRow # None
                   [] OTHER -> Book!HasRow(rows[m.token][Rep], m.row)
           THEN CASE m.kind \in {"save", "cell"} ->
                       Book!Save(m.token, m.items) /\ Reply(n, Yes(AnswersIn(answer'[m.token], rows'[m.token])))
                  [] m.kind = "add" -> Book!AddRow(m.token, Rep, NewRow) /\ Reply(n, Yes(NewRow))
                  [] OTHER -> Book!DeleteRow(m.token, Rep, m.row) /\ Reply(n, Yes(None))
           ELSE Reply(n, Refused) /\ UNCHANGED <<answer, rows>>
    /\ UNCHANGED <<account, login, home, store, tab, form, timer, kept, said, count>>

\* What eGov vouches for is as good as said.
Vouch(b, a) ==
    LET i == login[b].by
    IN  said' = IF i.via = "egov"
                THEN [said EXCEPT ![a] = @ \cup {<<f, i.profile[f]>> : f \in EgovField}] ELSE said

\* The tab's sign-in, in the two steps of the service.
ServeLogin(n) ==
    /\ net[n].reply = Unanswered /\ Next1(n) /\ net[n].kind = "login"
    /\ IF login["here"] = None
       THEN /\ \E i \in Identity : net[n].by = i /\ FindAccount("here", i)
            /\ UNCHANGED <<net, said>>
       ELSE \/ \E a \in Account :
                 /\ FinishLogin("here", a) /\ Vouch("here", a)
                 /\ Reply(n, IF account'[a].status = "active" THEN Yes(a) ELSE Refused)
            \/ LoginFails("here") /\ Reply(n, Refused) /\ UNCHANGED said
    /\ UNCHANGED <<store, tab, form, timer, kept, count>>

\* The same people on another device.
Elsewhere ==
    /\ \/ \E i \in Identity : Move /\ FindAccount("elsewhere", i) /\ UNCHANGED said
       \/ \E a \in Account : FinishLogin("elsewhere", a) /\ Vouch("elsewhere", a) /\ UNCHANGED count
       \/ LoginFails("elsewhere") /\ UNCHANGED <<count, said>>
    /\ UNCHANGED <<store, tab, form, timer, net, kept>>

CloseAccount ==
    /\ Move
    /\ \E a \in Account : Close(a)
    /\ UNCHANGED client

\* A request, or its answer, is lost.
Lose(n) ==
    /\ count.moves < MaxMoves /\ net[n].reply # Refused
    /\ net[n].kind = "login" => login["here"] = None
    /\ Reply(n, Refused)
    /\ count' = [count EXCEPT !.moves = @ + 1, !.lost = TRUE]
    /\ UNCHANGED <<server, store, tab, form, timer, kept, said>>

\* The answer arrives.  Nothing catches a failed read of the answers.
Deliver(n) ==
    LET m == net[n]
        q == RemoveAt(net, n)
        nothing == UNCHANGED <<store, tab, form, timer, kept, said>> /\ net' = q
    IN  /\ m.reply # Unanswered
        /\ InOrder => n = 1
        /\ IF ~m.live \/ (~m.reply.ok /\ m.kind \notin {"me", "save", "cell"}) THEN nothing
           ELSE CASE m.kind = "me" -> SessionChecked(m, q)
                  [] m.kind = "save" -> SaveEnded(m, q)
                  [] m.kind = "cell" -> CellEnded(m, q)
                  [] m.kind = "login" -> ApplyLogin(m, q)
                  [] m.kind = "answers" ->
                       LET t == [tab EXCEPT !.answers = m.reply.got, !.loading = FALSE]
                       IN  tab' = t /\ Keep(form, t, q) /\ UNCHANGED <<store, kept, said>>
                  [] m.kind = "rows" ->
                       /\ tab' = [tab EXCEPT !.groups = m.reply.got]
                       /\ net' = q /\ UNCHANGED <<store, form, timer, kept, said>>
                  [] m.kind = "add" ->
                       /\ tab' = [tab EXCEPT !.groups = Append(@, m.reply.got)]
                       /\ net' = q /\ UNCHANGED <<store, form, timer, kept, said>>
                  [] OTHER ->
                       /\ tab' = WithoutRow(tab, m.row)
                       /\ net' = q /\ UNCHANGED <<store, form, timer, kept, said>>
        /\ count' = [count EXCEPT !.ended = @ \/
              (m.kind = "me" /\ m.live /\ ~m.reply.ok /\ ~tab.waiting /\ ~tab.loading)]
        /\ UNCHANGED server

Next ==
    \/ Reload \/ Logout \/ StartEditing \/ CancelEditing \/ SaveForm \/ HandleAddRow
    \/ \E p \in Page : Visit(p)
    \/ \E i \in Identity : SendLogin(i)
    \/ \E f \in Scalar, v \in Value : Typing(f, v) \/ TypeAnswered(f, v)
    \/ \E r \in Row, c \in Subfield, v \in Value : TypeCell(r, c, v)
    \/ \E x \in timer : Elapse(x)
    \/ \E r \in Row : HandleDeleteRow(r)
    \/ \E n \in DOMAIN net :
          ServeRead(n) \/ ServeWrite(n) \/ ServeLogin(n) \/ Lose(n) \/ Deliver(n)
    \/ Elsewhere \/ CloseAccount

Spec == Init /\ [][Next]_vars

-----------------------------------------------------------------------------
TypeOK ==
    /\ account \in [Account -> AccountRecord \cup {None}]
    /\ Book!TypeOK
    /\ store.token \in Account \cup {None} /\ tab.user \in {tab.token, None}
    /\ tab.answers \subseteq Book!Item /\ store.guest.answers \subseteq Book!Item
    /\ tab.waiting => tab.user = None /\ tab.token # None
    /\ form.page \in Pages /\ Len(net) <= MaxNet + 3

StoredAnswers == IF tab.user = None THEN store.guest.answers ELSE AnswersOf(tab.user)
StoredRows == IF tab.user = None THEN store.guest.groups ELSE RowsOf(tab.user, Rep)
Open(items) == {i \in items : i.field \notin EgovField}

\* When all is saved and answered, what the tab shows is what is kept for this
\* person, in localStorage or on the server: no late answer, no closure of an older
\* render and no sign-in or out leaves it showing or keeping anything else
\* (answers-store.tsx:70-160).  A synced field may be newer on the server;
\* a read that fails, its account closed or its answer lost, leaves what was there.
ShownIsStored ==
    /\ Quiet /\ ~tab.waiting /\ ~tab.loading /\ ~count.lost
    /\ tab.user # None => MayUse(tab.user)
    =>
        /\ Open(tab.answers) = Open(StoredAnswers)
        /\ tab.user = None \/ HasRepeater(form.page) => tab.groups = StoredRows

\* What the person last typed into a cell, or saved in a form, and was not told
\* was refused, is there, a newer edit made while an older one was being saved
\* included (FieldForm.tsx:131-149).
KeptIsStored == Quiet /\ ~tab.waiting => kept \subseteq StoredAnswers

\* An account holds only what its owner or eGov said of him, and the browser only
\* what its guest said since the last logout, "a clean slate" (auth.tsx:151-155),
\* however sign-ins, logouts and pages follow each other.
OwnWords ==
    /\ \A a \in Account : \A i \in AnswersOf(a) : <<i.field, i.value>> \in said[a]
    /\ \A i \in store.guest.answers : <<i.field, i.value>> \in said[Guest]

\* The benefits a guest is listed are those of the answers he has
\* (EligibleBenefitsPage.tsx:40-52), whatever sign-ins, late answers and saves there
\* were.  Not when the check of his session fails after the account's answers came: the
\* list is then evaluated in the render that still has them, and never again.
ListIsCurrent ==
    form.page = "benefits" /\ tab.user = None /\ form.evaluated # None /\ ~count.ended =>
        form.evaluated = AnswersMap(tab)

\* What a guest reads on a benefit's page was evaluated from the answers he has:
\* after the load that the page waits for, and after a save, "with the by-then-correct
\* answersMap" (BenefitDetailsPage.tsx:76-80).
BenefitIsCurrent ==
    form.page = "benefit" /\ tab.user = None /\ form.evaluated # None =>
        form.evaluated = AnswersMap(tab)
=============================================================================
