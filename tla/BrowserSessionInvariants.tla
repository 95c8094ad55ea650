------------------------ MODULE BrowserSessionInvariants ------------------------
(***************************************************************************)
(* What always holds of a tab, its requests and the accounts they are for:    *)
(* the parts of the inductive invariants behind the properties of             *)
(* BrowserSession.                                                          *)
(***************************************************************************)
EXTENDS BrowserSession

\* The fields of the tab, of its page and of a request.
FormFields == {"page", "editing", "cells", "saving", "draft", "captured", "evaluated"}
TabFields == {"token", "user", "waiting", "profile", "answers", "groups", "loading"}
MessageFields == {"kind", "token", "by", "items", "row", "live", "reply"}

Stored(a) == account[a] # None

SignInType ==
    /\ account \in [Account -> AccountRecord \cup {None}]
    /\ login \in [Browser -> LoginRecord \cup {None}]
    /\ home \in [Identity -> Account \cup {None}]

EmailsUnique == \A a, b \in Account : Stored(a) /\ Stored(b) /\ account[a].email = account[b].email => a = b

\* An account bound to an id has the address that comes with the id.
BoundByEmail ==
    \A a \in Account, i \in Identity :
        Stored(a) /\ i.sub \in {account[a].google, account[a].egov} => account[a].email = i.email

\* So has the account a sign-in has found, deleted or rebound since or not, and
\* the one an identity came into.
FoundMatches ==
    \A b \in Browser : login[b] # None /\ login[b].found # None =>
        Stored(login[b].found) /\ account[login[b].found].email = login[b].by.email

HomeMatches ==
    \A i \in Identity : home[i] # None => Stored(home[i]) /\ account[home[i]].email = i.email

SignInInv == SignInType /\ EmailsUnique /\ BoundByEmail /\ FoundMatches /\ HomeMatches

\* A list, of whatever it holds.
IsList(q) == q \in Seq({q[n] : n \in DOMAIN q})

-----------------------------------------------------------------------------
(* The synced answers *)

\* The accounts there are, and those eGov vouched for nothing of.
Known == {a \in Account : Stored(a)}
Free == {a \in Account : Stored(a) /\ account[a].egov = None}

\* A request of an account K knows, which names a synced field only for an account
\* in F; the read of the session is that of the token `tok' the tab has now.
SoundMessage(m, tok, K, F) ==
    /\ DOMAIN m = MessageFields
    /\ m.token \in K \cup {None}
    /\ m.kind = "me" => m.token = tok /\ tok # None
    /\ m.kind \in {"save", "cell"} =>
          m.token \in K /\ (m.token \in F \/ \A i \in m.items : i.field \notin EgovField)
    /\ m.kind = "login" /\ m.reply # Unanswered => (m.reply.ok => m.reply.got \in K)

SoundNet(q, tok, K, F) == IsList(q) /\ \A n \in DOMAIN q : SoundMessage(q[n], tok, K, F)

SoundStore(s, K) == DOMAIN s = {"token", "profile", "guest"} /\ s.token \in K \cup {None}

SoundTab(t, K) ==
    /\ DOMAIN t = TabFields
    /\ t.token \in K \cup {None} /\ t.user \in {t.token, None}

SoundTimers(T, K) == \A x \in T : x.field \in Subfield /\ (~x.guest => x.token \in K)

SoundClient(s, t, T, q, K, F) ==
    SoundStore(s, K) /\ SoundTab(t, K) /\ SoundTimers(T, K) /\ SoundNet(q, t.token, K, F)

\* eGov says the same of a person at every sign-in.
OneProfile ==
    \A i, j \in Identity : i.via = "egov" /\ j.via = "egov" /\ i.sub = j.sub => i.profile = j.profile

\* An account not made yet has no synced answers, one made has those of its owner's
\* profile, deleted or not.
Blank == \A a \in Account, f \in EgovField : ~Stored(a) => answer[a][f] = None

Stands ==
    \A i \in Identity, f \in EgovField, a \in Account :
        i.via = "egov" /\ Stored(a) /\ account[a].egov = i.sub => answer[a][f] \in {None, i.profile[f]}

\* An account found for an eGov identity is bound to it, however late the write.
FoundBound ==
    \A b \in Browser :
        login[b] # None /\ login[b].by.via = "egov" /\ login[b].found # None =>
            account[login[b].found].egov = login[b].by.sub

EgovInv == DOMAIN answer = Account /\ Blank /\ Stands /\ FoundBound

SoundInv == SignInInv /\ EgovInv /\ SoundClient(store, tab, timer, net, Known, Free)

-----------------------------------------------------------------------------
(* The words of each person *)

\* The values of some answers, and of a profile, are among the words S.
Told(items, S) == \A i \in items : <<i.field, i.value>> \in S
Filled(items) == {i \in items : i.value # None}
ProfileTold(p, S) == \A f \in EgovField : p[f] # None => <<f, p[f]>> \in S

\* So are the values of a row of the repeater f, and of all answers of an account.
RowTold(f, r, S) ==
    /\ DOMAIN r = {"id", "cell"} /\ DOMAIN r.cell = Book!Columns(f)
    /\ \A c \in Book!Columns(f) : r.cell[c] # None => <<c, r.cell[c]>> \in S

BookTold(scalars, lists, S) ==
    /\ DOMAIN scalars = Scalar
    /\ \A f \in Scalar : scalars[f] # None => <<f, scalars[f]>> \in S
    /\ DOMAIN lists = Repeater
    /\ \A f \in Repeater : IsList(lists[f]) /\ \A n \in DOMAIN lists[f] : RowTold(f, lists[f][n], S)

OwnBook(A, R, S) == DOMAIN A = Account /\ DOMAIN R = Account /\ \A a \in Account : BookTold(A[a], R[a], S[a])

\* A request that the tab t at the page pg waits for, or that it sent before a reload:
\* what it says, and what its answer says, are the words of the account of its token.
OwnMessage(m, t, pg, S) ==
    /\ DOMAIN m = MessageFields
    /\ m.kind \in {"me", "answers", "rows"} \/ IsWrite(m)
    /\ m.live \/ IsWrite(m)
    /\ m.kind = "me" => m.token = t.token /\ m.token # None
                      /\ (t.waiting \/ pg = "benefits" \/ (pg = "form" /\ ~t.loading /\ t.answers = {}))
    /\ m.kind = "answers" \/ (m.live /\ m.kind \in {"save", "cell"}) => t.user # None /\ m.token = t.user
    /\ m.kind = "answers" => t.loading
    /\ m.live /\ m.kind \in {"add", "remove"} => t.user # None
    /\ m.live /\ m.kind = "login" => t.user = None /\ ~t.waiting
    /\ m.kind \in {"rows", "save", "cell", "add", "remove"} => m.token \in Account
    /\ m.kind \in {"save", "cell"} => Told(Filled(m.items), S[m.token])
    /\ m.kind \in {"answers", "save", "cell"} /\ m.reply # Unanswered =>
          (m.reply.ok => Told(m.reply.got, S[m.token]))
    /\ m.kind = "login" /\ m.reply # Unanswered =>
          (m.reply.ok => m.reply.got \in Account
                         /\ (m.by.via = "egov" => ProfileTold(m.by.profile, S[m.reply.got])))

\* The session is checked before rows are read, and once, as the answers are read; two
\* sign-ins are not waited for, nor rows with one; and while the session is checked
\* nothing is written.
Before(x, y) ==
    /\ y.kind = "me" => x.kind \notin {"me", "rows"}
    /\ y.kind = "answers" => x.kind # "answers"
    /\ y.kind = "login" /\ y.live => ~(x.kind = "login" /\ x.live)

Beside(x, y) ==
    /\ x.kind = "me" /\ y.live => y.kind \in {"me", "answers", "rows"}
    /\ x.kind = "login" /\ x.live => y.kind # "rows"

InLine(q) == \A i, j \in DOMAIN q : (i < j => Before(q[i], q[j])) /\ Beside(q[i], q[j])

OwnNet(q, t, pg, S) == IsList(q) /\ InLine(q) /\ \A n \in DOMAIN q : OwnMessage(q[n], t, pg, S)

\* The sign-in the service has begun is the first request it has not answered.
Started(q, l) ==
    l # None =>
        \E n \in DOMAIN q :
            /\ q[n].kind = "login" /\ q[n].reply = Unanswered /\ q[n].by = l.by
            /\ \A k \in 1 .. n - 1 : q[k].reply # Unanswered

OwnStore(s, S) ==
    /\ DOMAIN s = {"token", "profile", "guest"} /\ s.token \in Account \cup {None}
    /\ s.profile # None => s.token # None /\ ProfileTold(s.profile, S[s.token])
    /\ Told(s.guest.answers, S[Guest])

\* Only the list of benefits shows, until the answers of whoever signed in are read,
\* with the answers of the guest before.
OwnTab(t, pg, S) ==
    /\ DOMAIN t = TabFields
    /\ t.token \in Account \cup {None} /\ t.waiting \in BOOLEAN
    /\ t.user = IF t.waiting THEN None ELSE t.token
    /\ t.waiting => t.token # None /\ t.loading /\ t.answers = {}
    /\ t.profile # None => t.token # None /\ ProfileTold(t.profile, S[t.token])
    /\ Told(t.answers, S[Who(t)]) \/ (t.user # None /\ t.loading /\ pg = "benefits")

Drafting(fm) == fm.page \in {"form", "benefit"} \/ (fm.page = "profile" /\ fm.editing)

OwnForm(fm, t, S) ==
    /\ DOMAIN fm = FormFields
    /\ DOMAIN fm.draft = Scalar
    /\ Drafting(fm) => \A f \in Scalar : fm.draft[f] # None => <<f, fm.draft[f]>> \in S[Who(t)]

OwnTimers(T, t, pg, S) ==
    /\ T # {} => HasRepeater(pg) /\ ~t.waiting
    /\ \A x \in T : /\ x.guest <=> t.user = None
                    /\ ~x.guest => x.token = t.user
                    /\ x.value # None => <<x.field, x.value>> \in S[Who(t)]

\* While the session is checked nothing has been drafted or waits to be saved.
Undrafted(fm, T, q) ==
    (\E n \in DOMAIN q : q[n].kind = "me") => T = {} /\ \A f \in Scalar : fm.draft[f] = None

OwnSession(t, fm, T, q, S) ==
    /\ OwnTab(t, fm.page, S) /\ OwnForm(fm, t, S) /\ OwnTimers(T, t, fm.page, S)
    /\ OwnNet(q, t, fm.page, S) /\ Undrafted(fm, T, q)

OwnClient(s, t, fm, T, q, l, S) ==
    OwnStore(s, S) /\ s.token = t.token /\ OwnSession(t, fm, T, q, S) /\ Started(q, l)

OwnInv ==
    /\ DOMAIN said = Account \cup {Guest} /\ OwnBook(answer, rows, said)
    /\ OwnClient(store, tab, form, timer, net, login["here"], said)

-----------------------------------------------------------------------------
(* What is shown and what is kept *)

Granted(m) == m.reply # Unanswered /\ m.reply.ok

\* An answer that brings all answers of the account; one that changes the list.
Tells(m) == m.kind \in {"answers", "save", "cell"} /\ Granted(m)
Alters(m) == m.kind \in {"add", "remove"}

\* After the k-th request: none tells the answers, and the rows that are deleted.
Latest(q, k) == \A j \in DOMAIN q : j > k => ~Tells(q[j])
Removals(q, k) == {q[j].row : j \in {j \in DOMAIN q : j > k /\ q[j].kind = "remove" /\ Granted(q[j])}}
Left(answers, gone) == {i \in answers : i.row \notin gone}

\* The answers the tab will have, once what is answered has arrived, are those told.
AnswersCurrent(t, q, told) ==
    /\ ~t.loading /\ Latest(q, 0) => Open(Left(t.answers, Removals(q, 0))) = told
    /\ \A k \in DOMAIN q : Tells(q[k]) /\ Latest(q, k) => Open(Left(q[k].reply.got, Removals(q, k))) = told

Altered(g, m) ==
    IF m.kind = "add" THEN Append(g, m.reply.got) ELSE Picked(g, {n \in DOMAIN g : g[n] # m.row})

\* The list is g, or what the answered request after the k-th makes of it.
ListAfter(g, q, k, list) ==
    /\ (\A j \in DOMAIN q : j > k => ~(Alters(q[j]) /\ Granted(q[j]))) => list = g
    /\ \A j \in DOMAIN q : j > k /\ Alters(q[j]) /\ Granted(q[j]) => list = Altered(g, q[j])

\* So is the list the tab will have, on a page with rows.
RowsCurrent(t, pg, q, list) ==
    /\ HasRepeater(pg) /\ (\A n \in DOMAIN q : q[n].kind # "rows") => ListAfter(t.groups, q, 0, list)
    /\ \A k \in DOMAIN q : q[k].kind = "rows" /\ Granted(q[k]) => ListAfter(q[k].reply.got, q, k, list)

\* The person changes the list by one request at a time, and reads it and saves a form
\* before or after.
Orderly(q, t, pg) ==
    /\ \A n \in DOMAIN q :
          /\ q[n].live
          /\ Alters(q[n]) \/ (q[n].kind = "rows" /\ t.user # None) => q[n].token = t.user
          /\ q[n].kind = "rows" => ~t.waiting
          /\ Alters(q[n]) => HasRepeater(pg)
    /\ \A i, j \in DOMAIN q :
          Alters(q[i]) => q[j].kind # "save" /\ (Alters(q[j]) => i = j) /\ (i < j => q[j].kind # "rows")

\* Requests are answered in order; the list is refused only to an account not in use.
InService(q, used) ==
    /\ \A i, j \in DOMAIN q : i < j /\ q[i].reply = Unanswered => q[j].reply = Unanswered
    /\ \A n \in DOMAIN q : q[n].kind = "rows" /\ q[n].reply # Unanswered => q[n].reply.ok \/ q[n].token \notin used

\* A session is refused, and the rows asked for in it, only to an account not in use.
Turned(t, q, used) ==
    /\ \A i, j \in DOMAIN q :
          q[i].kind = "me" /\ q[i].reply # Unanswered /\ ~q[i].reply.ok =>
              q[i].token \notin used /\ (q[j].kind = "rows" => ~Granted(q[j]))
    /\ \A n \in DOMAIN q : t.user = None /\ q[n].kind = "rows" => ~Granted(q[n]) /\ q[n].token \notin used

GuestCurrent(s, t, T, lost) ==
    /\ t.user = None /\ ~t.waiting =>
          ~t.loading /\ t.answers = s.guest.answers /\ (~lost => t.groups = s.guest.groups)
    /\ ~lost => \A x \in T : x.guest => x.groups = t.groups

Ids(s) == [n \in DOMAIN s |-> s[n].id]

UserCurrent(t, pg, q, used, A, R) ==
    t.user # None =>
        /\ AnswersCurrent(t, q, Open(AnswersIn(A[t.user], R[t.user])))
        /\ t.user \in used => RowsCurrent(t, pg, q, Ids(R[t.user][Rep]))

CurrentClient(s, t, pg, T, q, used, A, R, lost) ==
    /\ GuestCurrent(s, t, T, lost) /\ Orderly(q, t, pg)
    /\ ~lost => InService(q, used) /\ Turned(t, q, used) /\ UserCurrent(t, pg, q, used, A, R)

\* The accounts in use, and the only lists there are.
InUse(accts) == {a \in Account : accts[a] # None /\ accts[a].status = "active"}
BookRows(R) ==
    \A a \in Account, f \in Repeater : \A n \in DOMAIN R[a][f] :
        f = Rep /\ n <= MaxRows /\ R[a][f][n].id # None

CurrentInv ==
    /\ BookRows(rows) /\ DOMAIN count = {"edits", "moves", "lost", "ended"}
    /\ CurrentClient(store, tab, form.page, timer, net, InUse(account), answer, rows, count.lost)


\* The tab is signed in to accounts there are.
Signed == SoundClient(store, tab, timer, net, Known, Known)

-----------------------------------------------------------------------------
(* What was shown as saved *)

\* Two answers to one question.
Same(i, k) == i.field = k.field /\ i.row = k.row

\* A request that saves answers, one of them to the question of k; the last such one.
Saves(m) == m.kind \in {"save", "cell"}
Touches(m, k) == Saves(m) /\ \E i \in m.items : Same(i, k)
LastOn(q, n, k) == Touches(q[n], k) /\ \A j \in DOMAIN q : j > n => ~Touches(q[j], k)

\* The question is still to be written, by a timer or by a request not granted.
Timed(T, k) == \E x \in T : Same(x, k)
Delayed(T, q, k) == Timed(T, k) \/ \E n \in DOMAIN q : LastOn(q, n, k) /\ ~Granted(q[n])

Removes(m, k) == m.kind = "remove" /\ m.reply = Unanswered /\ m.row = k.row

\* What was shown of k is among the answers A, or the last write to come says it.
Lasts(k, T, q, A) ==
    /\ k \in Book!Item
    /\ \A x \in T : Same(x, k) => x.value = k.value
    /\ \A n \in DOMAIN q : LastOn(q, n, k) => Timed(T, k) \/ k \in q[n].items
    /\ Delayed(T, q, k) \/ k \in A
    /\ \A n \in DOMAIN q : Removes(q[n], k) => Delayed(T, q, k)

\* No save is granted before what was sent before it; a row is deleted when nothing is
\* being saved; and a request answers a question once.
InQueue(q) ==
    /\ \A i, j \in DOMAIN q : i < j /\ q[i].reply = Unanswered /\ Saves(q[j]) => ~Granted(q[j])
    /\ \A i, j \in DOMAIN q : i < j /\ q[j].kind = "remove" => ~Saves(q[i])
    /\ \A n \in DOMAIN q : Saves(q[n]) => \A x, y \in q[n].items : Same(x, y) => x = y

\* All that was shown as saved is kept, or will be.
KeptNet(q, T, K, A) == InQueue(q) /\ \A k \in K : Lasts(k, T, q, A)

\* The answers that are stored for who is, or will be, signed in.
Held == IF tab.token = None THEN store.guest.answers ELSE AnswersOf(tab.token)

\* No cell is edited while a form is being saved; only values are said; a synced
\* answer was shown as saved only to an account eGov vouched for nothing of.
Unhurried == form.saving => timer = {}
SaidValues == \A w \in Account \cup {Guest} : \A p \in said[w] : p[2] \in Value \cup {None}
OpenKept == tab.token # None => \A k \in kept : k.field \in EgovField => account[tab.token].egov = None

KeptInv == Unhurried /\ SaidValues /\ OpenKept /\ KeptNet(net, timer, kept, Held)
=============================================================================
