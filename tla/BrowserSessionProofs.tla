-------------------------- MODULE BrowserSessionProofs --------------------------
(***************************************************************************)
(* What is said stays with who said it; the list of benefits is current; what *)
(* is shown once all is answered is what is kept; and so is all that was shown *)
(* as saved.                                                                 *)
(***************************************************************************)
EXTENDS BrowserAccountsProofs

USE DEF FormFields, TabFields, MessageFields

-----------------------------------------------------------------------------
(* What is kept for a person is what that person said *)

LEMMA OwnThinned ==
    ASSUME NEW q, NEW I \in SUBSET DOMAIN q, NEW p, Thins(p, q, I), InLine(q), NEW t, NEW pg, NEW S,
           \A i \in I : OwnMessage(q[i], t, pg, S)
    PROVE  OwnNet(p, t, pg, S)
<1>1. PICK h \in [DOMAIN p -> I] :
          /\ \A n \in DOMAIN p : p[n] = q[h[n]]
          /\ \A i, j \in DOMAIN p : i < j => h[i] < h[j]
  BY DEF Thins
<1>2. \A n \in DOMAIN p : h[n] \in I /\ h[n] \in DOMAIN q
  BY <1>1
<1>3. \A n \in DOMAIN p : OwnMessage(p[n], t, pg, S)
  BY <1>1, <1>2
<1>4. InLine(p)
  <2>. SUFFICES ASSUME NEW i \in DOMAIN p, NEW j \in DOMAIN p
                PROVE  (i < j => Before(p[i], p[j])) /\ Beside(p[i], p[j])
    BY DEF InLine
  <2>1. p[i] = q[h[i]] /\ p[j] = q[h[j]] /\ h[i] \in DOMAIN q /\ h[j] \in DOMAIN q /\ (i < j => h[i] < h[j])
    BY <1>1, <1>2
  <2>. QED BY <2>1 DEF InLine
<1>. QED BY <1>3, <1>4 DEF OwnNet, Thins

LEMMA StartedThinned ==
    ASSUME NEW q, IsList(q), NEW I \in SUBSET DOMAIN q, NEW p, Thins(p, q, I), NEW l, Started(q, l),
           \A n \in DOMAIN q : q[n].kind = "login" /\ q[n].reply = Unanswered => n \in I
    PROVE  Started(p, l)
<1>. SUFFICES ASSUME l # None
              PROVE  \E n \in DOMAIN p :
                        /\ p[n].kind = "login" /\ p[n].reply = Unanswered /\ p[n].by = l.by
                        /\ \A k \in 1 .. n - 1 : p[k].reply # Unanswered
  BY DEF Started
<1>1. PICK m \in DOMAIN q : /\ q[m].kind = "login" /\ q[m].reply = Unanswered /\ q[m].by = l.by
                            /\ \A k \in 1 .. m - 1 : q[k].reply # Unanswered
  BY DEF Started
<1>2. PICK h \in [DOMAIN p -> I] :
          /\ \A n \in DOMAIN p : p[n] = q[h[n]]
          /\ \A i, j \in DOMAIN p : i < j => h[i] < h[j]
          /\ \A i \in I : \E n \in DOMAIN p : h[n] = i
  BY DEF Thins
<1>3. PICK n \in DOMAIN p : h[n] = m
  BY <1>1, <1>2
<1>4. Len(q) \in Nat /\ DOMAIN q = 1 .. Len(q) /\ Len(p) \in Nat /\ DOMAIN p = 1 .. Len(p)
  BY LenProperties DEF Thins, IsList
<1>5. ASSUME NEW k \in 1 .. n - 1 PROVE p[k].reply # Unanswered
  <2>1. k \in DOMAIN p /\ k < n
    BY <1>4
  <2>2. h[k] \in DOMAIN q /\ h[k] < m /\ p[k] = q[h[k]]
    BY <1>2, <1>3, <2>1
  <2>3. h[k] \in 1 .. m - 1
    BY <1>4, <2>2
  <2>. QED BY <1>1, <2>2, <2>3
<1>. QED BY <1>1, <1>2, <1>3, <1>5

LEMMA OwnAppend ==
    ASSUME NEW q, NEW t, NEW pg, NEW S, OwnNet(q, t, pg, S), NEW m, OwnMessage(m, t, pg, S),
           \A n \in DOMAIN q : Before(q[n], m) /\ Beside(q[n], m) /\ Beside(m, q[n])
    PROVE  OwnNet(Append(q, m), t, pg, S)
<1>. DEFINE p == Append(q, m)
            N == Len(q) + 1
<1>1. /\ IsList(p) /\ Len(q) \in Nat /\ DOMAIN q = 1 .. Len(q) /\ DOMAIN p = 1 .. N
      /\ \A n \in DOMAIN q : p[n] = q[n]
      /\ p[N] = m
  BY Appended DEF OwnNet
<1>. HIDE DEF p
<1>2. ASSUME NEW n \in DOMAIN p PROVE n \in DOMAIN q \/ n = N
  BY <1>1
<1>. HIDE DEF N
<1>3. \A n \in DOMAIN p : OwnMessage(p[n], t, pg, S)
  BY <1>1, <1>2 DEF OwnNet
<1>4. InLine(p)
  <2>. SUFFICES ASSUME NEW i \in DOMAIN p, NEW j \in DOMAIN p
                PROVE  (i < j => Before(p[i], p[j])) /\ Beside(p[i], p[j])
    BY DEF InLine
  <2>1. CASE i \in DOMAIN q /\ j \in DOMAIN q
    BY <1>1, <2>1 DEF OwnNet, InLine
  <2>2. CASE i \in DOMAIN q /\ j = N
    BY <1>1, <2>2
  <2>3. CASE i = N /\ j \in DOMAIN q
    <3>1. ~(i < j)
      BY <1>1, <2>3 DEF N
    <3>. QED BY <1>1, <2>3, <3>1
  <2>4. CASE i = N /\ j = N
    <3>1. ~(i < j)
      BY <1>1, <2>4 DEF N
    <3>2. Beside(m, m)
      BY DEF Beside
    <3>. QED BY <1>1, <2>4, <3>1, <3>2
  <2>. QED BY <1>2, <2>1, <2>2, <2>3, <2>4
<1>5. OwnNet(p, t, pg, S)
  BY <1>1, <1>3, <1>4 DEF OwnNet
<1>. QED BY <1>5 DEF p

LEMMA StartedAppend ==
    ASSUME NEW q, IsList(q), NEW m, NEW l, Started(q, l)
    PROVE  Started(Append(q, m), l)
<1>1. /\ Len(q) \in Nat /\ DOMAIN q = 1 .. Len(q) /\ DOMAIN Append(q, m) = 1 .. Len(q) + 1
      /\ \A n \in DOMAIN q : Append(q, m)[n] = q[n]
  BY Appended
<1>. SUFFICES ASSUME l # None
              PROVE  \E n \in DOMAIN Append(q, m) :
                        /\ Append(q, m)[n].kind = "login" /\ Append(q, m)[n].reply = Unanswered
                        /\ Append(q, m)[n].by = l.by
                        /\ \A k \in 1 .. n - 1 : Append(q, m)[k].reply # Unanswered
  BY DEF Started
<1>2. PICK n \in DOMAIN q : /\ q[n].kind = "login" /\ q[n].reply = Unanswered /\ q[n].by = l.by
                            /\ \A k \in 1 .. n - 1 : q[k].reply # Unanswered
  BY DEF Started
<1>3. n \in DOMAIN Append(q, m) /\ \A k \in 1 .. n - 1 : k \in DOMAIN q
  BY <1>1
<1>4. Append(q, m)[n] = q[n] /\ \A k \in 1 .. n - 1 : Append(q, m)[k] = q[k]
  BY <1>1, <1>3
<1>. QED BY <1>2, <1>3, <1>4

LEMMA OwnReply ==
    ASSUME NEW q, NEW t, NEW pg, NEW S, OwnNet(q, t, pg, S), NEW n \in DOMAIN q, NEW r,
           q[n].kind \in {"answers", "save", "cell"} /\ r # Unanswered => (r.ok => Told(r.got, S[q[n].token])),
           q[n].kind = "login" /\ r # Unanswered =>
              (r.ok => r.got \in Account
                       /\ (q[n].by.via = "egov" => ProfileTold(q[n].by.profile, S[r.got])))
    PROVE  /\ OwnNet([q EXCEPT ![n].reply = r], t, pg, S)
           /\ \A fm, w : Undrafted(fm, w, q) => Undrafted(fm, w, [q EXCEPT ![n].reply = r])
<1>. DEFINE x == [q[n] EXCEPT !.reply = r]
            p == [q EXCEPT ![n] = x]
            T == {q[k] : k \in DOMAIN q} \cup {x}
<1>1. OwnMessage(q[n], t, pg, S) /\ Len(q) \in Nat /\ DOMAIN q = 1 .. Len(q)
      /\ q \in [1 .. Len(q) -> {q[k] : k \in DOMAIN q}]
  BY LenProperties DEF OwnNet, IsList
<1>2. /\ DOMAIN x = DOMAIN q[n] /\ x.kind = q[n].kind /\ x.token = q[n].token /\ x.live = q[n].live
      /\ x.items = q[n].items /\ x.by = q[n].by /\ x.reply = r
  BY <1>1 DEF OwnMessage
<1>3. p = [q EXCEPT ![n].reply = r]
  BY <1>1
<1>. HIDE DEF x
<1>4. OwnMessage(x, t, pg, S)
  BY <1>1, <1>2 DEF OwnMessage, IsWrite
<1>5. DOMAIN p = DOMAIN q /\ \A k \in DOMAIN q : p[k] = IF k = n THEN x ELSE q[k]
  BY <1>1
<1>6. IsList(p)
  <2>1. p = [k \in 1 .. Len(q) |-> IF k = n THEN x ELSE q[k]]
    BY <1>1
  <2>2. \A k \in 1 .. Len(q) : (IF k = n THEN x ELSE q[k]) \in T
    BY <1>1
  <2>. HIDE DEF p, T
  <2>3. p \in Seq(T)
    BY <1>1, <2>1, <2>2
  <2>. QED BY <2>3, ListFacts
<1>. HIDE DEF p
<1>7. \A k \in DOMAIN p : OwnMessage(p[k], t, pg, S)
  BY <1>4, <1>5 DEF OwnNet
<1>8. \A k \in DOMAIN p : p[k].kind = q[k].kind /\ p[k].live = q[k].live
  BY <1>2, <1>5
<1>9. InLine(p)
  BY <1>5, <1>8 DEF OwnNet, InLine, Before, Beside
<1>10. OwnNet(p, t, pg, S)
  BY <1>6, <1>7, <1>9 DEF OwnNet
<1>11. \A fm, w : Undrafted(fm, w, q) => Undrafted(fm, w, p)
  BY <1>5, <1>8 DEF Undrafted
<1>. QED BY <1>3, <1>10, <1>11

LEMMA StartedReply ==
    ASSUME NEW q, NEW t, NEW pg, NEW S, OwnNet(q, t, pg, S), NEW n \in DOMAIN q, NEW r, NEW l, Started(q, l),
           r # Unanswered \/ q[n].reply = Unanswered, l # None => ~(q[n].kind = "login" /\ q[n].reply = Unanswered)
    PROVE  Started([q EXCEPT ![n].reply = r], l)
<1>. DEFINE x == [q[n] EXCEPT !.reply = r]
            p == [q EXCEPT ![n] = x]
<1>1. OwnMessage(q[n], t, pg, S) /\ Len(q) \in Nat /\ DOMAIN q = 1 .. Len(q)
      /\ q \in [1 .. Len(q) -> {q[k] : k \in DOMAIN q}]
  BY LenProperties DEF OwnNet, IsList
<1>2. x.reply = r
  BY <1>1 DEF OwnMessage
<1>3. p = [q EXCEPT ![n].reply = r]
  BY <1>1
<1>. HIDE DEF x
<1>4. DOMAIN p = DOMAIN q /\ \A k \in DOMAIN q : p[k] = IF k = n THEN x ELSE q[k]
  BY <1>1
<1>. HIDE DEF p
<1>5. ASSUME l # None
      PROVE  \E m \in DOMAIN p :
                /\ p[m].kind = "login" /\ p[m].reply = Unanswered /\ p[m].by = l.by
                /\ \A k \in 1 .. m - 1 : p[k].reply # Unanswered
  <2>1. PICK m \in DOMAIN q : /\ q[m].kind = "login" /\ q[m].reply = Unanswered /\ q[m].by = l.by
                              /\ \A k \in 1 .. m - 1 : q[k].reply # Unanswered
    BY <1>5 DEF Started
  <2>2. m # n
    BY <1>5, <2>1
  <2>3. \A k \in 1 .. m - 1 : k \in DOMAIN q
    BY <1>1, <2>1
  <2>4. ASSUME NEW k \in 1 .. m - 1 PROVE p[k].reply # Unanswered
    <3>1. k \in DOMAIN q /\ q[k].reply # Unanswered
      BY <2>1, <2>3
    <3>. QED BY <1>2, <1>4, <3>1
  <2>. QED BY <1>4, <2>1, <2>2, <2>4
<1>6. Started(p, l)
  BY <1>5 DEF Started
<1>. QED BY <1>3, <1>6

\* The requests of a page that is gone keep their place and what they say.
LEMMA OwnDead ==
    ASSUME NEW q, IsList(q), NEW t, NEW pg, NEW S, NEW t2, NEW pg2,
           \A n \in DOMAIN q : IsWrite(q[n]) /\ OwnMessage(q[n], t, pg, S)
    PROVE  LET p == [n \in DOMAIN q |-> [q[n] EXCEPT !.live = FALSE]]
           IN  /\ OwnNet(p, t2, pg2, S) /\ DOMAIN p = DOMAIN q
               /\ \A n \in DOMAIN p : IsWrite(p[n]) /\ ~p[n].live
               /\ \A l : Started(q, l) => Started(p, l)
<1>. DEFINE dead(n) == [q[n] EXCEPT !.live = FALSE]
            T == {dead(n) : n \in DOMAIN q}
            p == [n \in DOMAIN q |-> dead(n)]
<1>1. ASSUME NEW n \in DOMAIN q
      PROVE  /\ OwnMessage(dead(n), t2, pg2, S) /\ ~dead(n).live /\ dead(n).kind = q[n].kind
             /\ dead(n).reply = q[n].reply /\ dead(n).by = q[n].by
  <2>1. OwnMessage(q[n], t, pg, S) /\ IsWrite(q[n])
    OBVIOUS
  <2>2. /\ DOMAIN dead(n) = DOMAIN q[n] /\ dead(n).kind = q[n].kind /\ dead(n).token = q[n].token
        /\ dead(n).items = q[n].items /\ dead(n).reply = q[n].reply /\ dead(n).by = q[n].by
        /\ dead(n).live = FALSE
    BY <2>1 DEF OwnMessage
  <2>. HIDE DEF dead
  <2>. QED BY <2>1, <2>2 DEF OwnMessage, IsWrite
<1>2. Len(q) \in Nat /\ DOMAIN q = 1 .. Len(q)
  BY LenProperties DEF IsList
<1>. HIDE DEF dead
<1>3. p \in Seq(T)
  BY <1>2
<1>4. IsList(p)
  <2>. HIDE DEF p, T
  <2>. QED BY <1>3, ListFacts
<1>5. DOMAIN p = DOMAIN q /\ \A n \in DOMAIN q : p[n] = dead(n)
  OBVIOUS
<1>. HIDE DEF p
<1>6. \A n \in DOMAIN p : OwnMessage(p[n], t2, pg2, S) /\ IsWrite(p[n]) /\ ~p[n].live
  BY <1>1, <1>5 DEF IsWrite
<1>7. InLine(p)
  BY <1>6 DEF InLine, Before, Beside, IsWrite
<1>8. ASSUME NEW l, Started(q, l) PROVE Started(p, l)
  <2>1. \A n \in DOMAIN q : p[n].kind = q[n].kind /\ p[n].reply = q[n].reply /\ p[n].by = q[n].by
    BY <1>1, <1>5
  <2>2. \A n \in DOMAIN q : \A k \in 1 .. n - 1 : k \in DOMAIN q
    BY <1>2
  <2>. QED BY <1>5, <1>8, <2>1, <2>2 DEF Started
<1>9. OwnNet(p, t2, pg2, S)
  BY <1>4, <1>6, <1>7 DEF OwnNet
<1>. QED BY <1>5, <1>6, <1>8, <1>9 DEF p, dead

\* What is left when the reads of some kinds are cancelled.
LEMMA Cancelled ==
    ASSUME NEW q, IsList(q), InLine(q), NEW kinds
    PROVE  /\ IsList(Cancel(q, kinds)) /\ InLine(Cancel(q, kinds))
           /\ \A n \in DOMAIN Cancel(q, kinds) :
                 Cancel(q, kinds)[n].kind \notin kinds /\ \E i \in DOMAIN q : Cancel(q, kinds)[n] = q[i]
           /\ "login" \notin kinds => \A l : Started(q, l) => Started(Cancel(q, kinds), l)
<1>. DEFINE I == {n \in DOMAIN q : q[n].kind \notin kinds}
            p == Cancel(q, kinds)
<1>1. Thins(p, q, I)
  BY PickedThins DEF Cancel
<1>. HIDE DEF p
<1>2. PICK h \in [DOMAIN p -> I] :
          /\ \A n \in DOMAIN p : p[n] = q[h[n]]
          /\ \A i, j \in DOMAIN p : i < j => h[i] < h[j]
  BY <1>1 DEF Thins
<1>3. \A n \in DOMAIN p : h[n] \in DOMAIN q /\ q[h[n]].kind \notin kinds
  BY <1>2
<1>4. InLine(p)
  <2>. SUFFICES ASSUME NEW i \in DOMAIN p, NEW j \in DOMAIN p
                PROVE  (i < j => Before(p[i], p[j])) /\ Beside(p[i], p[j])
    BY DEF InLine
  <2>1. p[i] = q[h[i]] /\ p[j] = q[h[j]] /\ h[i] \in DOMAIN q /\ h[j] \in DOMAIN q /\ (i < j => h[i] < h[j])
    BY <1>2, <1>3
  <2>. QED BY <2>1 DEF InLine
<1>5. \A n \in DOMAIN p : p[n].kind \notin kinds /\ \E i \in DOMAIN q : p[n] = q[i]
  BY <1>2, <1>3
<1>6. ASSUME "login" \notin kinds, NEW l, Started(q, l) PROVE Started(p, l)
  BY <1>1, <1>6, StartedThinned
<1>7. IsList(p)
  BY <1>1 DEF Thins
<1>. QED BY <1>4, <1>5, <1>6, <1>7 DEF p

\* A request just sent.
LEMMA OwnMsg ==
    ASSUME NEW kind \in {"me", "answers", "rows", "add"}, NEW t, NEW pg, NEW S, NEW tok,
           kind = "me" => tok = t.token /\ tok # None /\ (t.waiting \/ pg = "benefits"),
           kind = "answers" => tok = t.user /\ t.loading,
           kind \in {"rows", "add"} => tok \in Account,
           kind # "me" => t.user # None
    PROVE  OwnMessage(Msg(kind, tok), t, pg, S)
BY DEF OwnMessage, Msg, IsWrite

\* The session ended: its reads are cancelled.
LEMMA SignedOutNet ==
    ASSUME NEW t, t.token = None, t.user = None, ~t.waiting, tab.token # None,
           NEW q, IsList(q), InLine(q), NEW t2, NEW pg, NEW S,
           \A n \in DOMAIN q : q[n].kind \notin {"me", "answers"} => OwnMessage(q[n], t2, pg, S)
    PROVE  /\ OwnNet(ProvidedNet(t, q), t2, pg, S)
           /\ \A l : Started(q, l) => Started(ProvidedNet(t, q), l)
<1>. DEFINE a == Cancel(q, {"answers"})
            b == Cancel(a, {"me"})
<1>1. /\ IsList(a) /\ InLine(a)
      /\ \A n \in DOMAIN a : a[n].kind \notin {"answers"} /\ \E i \in DOMAIN q : a[n] = q[i]
      /\ \A l : Started(q, l) => Started(a, l)
  BY Cancelled
<1>. HIDE DEF a
<1>2. /\ IsList(b) /\ InLine(b)
      /\ \A n \in DOMAIN b : b[n].kind \notin {"me"} /\ \E i \in DOMAIN a : b[n] = a[i]
      /\ \A l : Started(a, l) => Started(b, l)
  BY <1>1, Cancelled
<1>3. (a \o <<>>) = a
  BY <1>1, Appended
<1>. HIDE DEF b
<1>4. (b \o <<>>) = b
  BY <1>2, Appended
<1>5. ProvidedNet(t, q) = b
  BY <1>3, <1>4 DEF ProvidedNet, a, b
<1>6. ASSUME NEW n \in DOMAIN b PROVE OwnMessage(b[n], t2, pg, S)
  <2>1. PICK i \in DOMAIN a : b[n] = a[i] /\ b[n].kind # "me"
    BY <1>2
  <2>2. PICK j \in DOMAIN q : a[i] = q[j] /\ a[i].kind # "answers"
    BY <1>1
  <2>. QED BY <2>1, <2>2
<1>. QED BY <1>1, <1>2, <1>5, <1>6 DEF OwnNet

\* Someone signed in: the answers are read, and then the session is checked.
LEMMA SignedInNet ==
    ASSUME NEW t, t.token # None, t.user = t.token, ~t.waiting, tab.user = None, ~tab.waiting, tab.token = None,
           NEW q, IsList(q), InLine(q), NEW t2, NEW S, t2.token = t.token, t2.user = t.user, t2.loading,
           \A n \in DOMAIN q : OwnMessage(q[n], t2, "benefits", S) /\ IsWrite(q[n]) /\ ~q[n].live
    PROVE  /\ OwnNet(ProvidedNet(t, q), t2, "benefits", S)
           /\ \A l : Started(q, l) => Started(ProvidedNet(t, q), l)
<1>. DEFINE a == Cancel(q, {"answers"})
            r == Msg("answers", t.token)
            b == Append(a, r)
            c == Cancel(b, {"me"})
            m == Msg("me", t.token)
            pg == "benefits"
<1>1. /\ IsList(a) /\ InLine(a)
      /\ \A n \in DOMAIN a : a[n].kind \notin {"answers"} /\ \E i \in DOMAIN q : a[n] = q[i]
      /\ \A l : Started(q, l) => Started(a, l)
  BY Cancelled
<1>. HIDE DEF a
<1>2. /\ OwnMessage(m, t2, pg, S) /\ OwnMessage(r, t2, pg, S)
      /\ m.kind = "me" /\ r.kind = "answers" /\ m.live /\ r.live
  <2>1. m.kind = "me" /\ r.kind = "answers" /\ m.live /\ r.live
    BY DEF Msg
  <2>. QED BY <2>1, OwnMsg
<1>. HIDE DEF m, r, pg
<1>3. OwnNet(a, t2, pg, S) /\ \A n \in DOMAIN a : IsWrite(a[n]) /\ ~a[n].live
  BY <1>1 DEF OwnNet, pg
<1>4. /\ OwnNet(b, t2, pg, S) /\ \A l : Started(a, l) => Started(b, l)
      /\ \A n \in DOMAIN b : b[n] = r \/ (IsWrite(b[n]) /\ ~b[n].live)
  <2>1. \A n \in DOMAIN a : Before(a[n], r) /\ Beside(a[n], r) /\ Beside(r, a[n])
    BY <1>2, <1>3 DEF IsWrite, Before, Beside
  <2>2. \A l : Started(a, l) => Started(b, l)
    BY <1>1, StartedAppend
  <2>3. OwnNet(b, t2, pg, S)
    BY <1>2, <1>3, <2>1, OwnAppend
  <2>4. /\ \A n \in DOMAIN b : n \in DOMAIN a \/ n = Len(a) + 1
        /\ b[Len(a) + 1] = r /\ \A n \in DOMAIN a : b[n] = a[n]
    BY <1>1, Appended
  <2>. HIDE DEF b
  <2>. QED BY <1>3, <2>2, <2>3, <2>4
<1>5. (a \o <<r>>) = b
  BY <1>1, Appended
<1>. HIDE DEF b
<1>6. /\ IsList(c) /\ InLine(c)
      /\ \A n \in DOMAIN c : c[n].kind \notin {"me"} /\ \E i \in DOMAIN b : c[n] = b[i]
      /\ \A l : Started(b, l) => Started(c, l)
  BY <1>4, Cancelled DEF OwnNet
<1>. HIDE DEF c
<1>7. OwnNet(c, t2, pg, S)
  BY <1>4, <1>6 DEF OwnNet
<1>8. OwnNet(Append(c, m), t2, pg, S)
  <2>1. \A n \in DOMAIN c : Before(c[n], m) /\ Beside(c[n], m) /\ Beside(m, c[n])
    BY <1>2, <1>4, <1>6 DEF IsWrite, Before, Beside
  <2>. QED BY <1>2, <1>7, <2>1, OwnAppend
<1>9. \A l : Started(c, l) => Started(Append(c, m), l)
  BY <1>6, StartedAppend
<1>10. (c \o <<m>>) = Append(c, m)
  BY <1>6, Appended
<1>11. ProvidedNet(t, q) = Append(c, m)
  <2>1. ProvidedNet(t, q) = Cancel(Cancel(q, {"answers"}) \o <<Msg("answers", t.token)>>, {"me"}) \o <<Msg("me", t.token)>>
    BY DEF ProvidedNet
  <2>. QED BY <1>5, <1>10, <2>1 DEF a, b, c, m, r
<1>. QED BY <1>1, <1>4, <1>6, <1>8, <1>9, <1>11 DEF pg

\* The session stands: the answers are read.
LEMMA StandingNet ==
    ASSUME NEW t, t.token # None, t.user = t.token, ~t.waiting, tab.waiting, tab.token = t.token,
           NEW q, IsList(q), InLine(q), NEW t2, NEW pg, NEW S, t2.token = t.token, t2.user = t.user,
           t2.loading, \A n \in DOMAIN q : q[n].kind # "me" /\ (q[n].kind # "answers" => OwnMessage(q[n], t2, pg, S))
    PROVE  /\ OwnNet(ProvidedNet(t, q), t2, pg, S)
           /\ \A n \in DOMAIN ProvidedNet(t, q) : ProvidedNet(t, q)[n].kind # "me"
           /\ \A l : Started(q, l) => Started(ProvidedNet(t, q), l)
<1>. DEFINE c == Cancel(q, {"answers"})
            r == Msg("answers", t.token)
<1>1. /\ IsList(c) /\ InLine(c)
      /\ \A n \in DOMAIN c : c[n].kind \notin {"answers"} /\ \E i \in DOMAIN q : c[n] = q[i]
      /\ \A l : Started(q, l) => Started(c, l)
  BY Cancelled
<1>2. OwnMessage(r, t2, pg, S) /\ r.kind = "answers"
  <2>1. r.kind = "answers"
    BY DEF Msg
  <2>. QED BY <2>1, OwnMsg
<1>. HIDE DEF c, r
<1>3. OwnNet(c, t2, pg, S) /\ \A n \in DOMAIN c : c[n].kind # "me"
  BY <1>1 DEF OwnNet
<1>4. OwnNet(Append(c, r), t2, pg, S)
  <2>1. \A n \in DOMAIN c : Before(c[n], r) /\ Beside(c[n], r) /\ Beside(r, c[n])
    BY <1>1, <1>2 DEF Before, Beside
  <2>. QED BY <1>2, <1>3, <2>1, OwnAppend
<1>5. \A l : Started(c, l) => Started(Append(c, r), l)
  BY <1>1, StartedAppend
<1>6. (c \o <<r>>) = Append(c, r)
  BY <1>1, Appended
<1>7. ProvidedNet(t, q) = Append(c, r)
  <2>1. ProvidedNet(t, q) = Cancel(q, {"answers"}) \o <<Msg("answers", t.token)>>
    BY DEF ProvidedNet
  <2>. QED BY <1>6, <2>1 DEF c, r
<1>8. \A n \in DOMAIN Append(c, r) : Append(c, r)[n].kind # "me"
  <2>1. \A n \in DOMAIN Append(c, r) : n \in DOMAIN c \/ n = Len(c) + 1
    BY <1>1, Appended
  <2>2. Append(c, r)[Len(c) + 1] = r /\ \A n \in DOMAIN c : Append(c, r)[n] = c[n]
    BY <1>1, Appended
  <2>. QED BY <1>2, <1>3, <2>1, <2>2
<1>. QED BY <1>1, <1>4, <1>5, <1>7, <1>8

\* What is shown of answers is among the words they are among.
LEMMA ShownTold ==
    ASSUME NEW t, NEW S, Told(t.answers, S), NEW f \in Scalar, AnswersMap(t)[f] # None
    PROVE  <<f, AnswersMap(t)[f]>> \in S
<1>1. \E i \in t.answers : i.field = f /\ i.row = None
  BY DEF AnswersMap
<1>2. \E i \in t.answers : i.field = f /\ AnswersMap(t)[f] = i.value
  BY <1>1 DEF AnswersMap
<1>. QED BY <1>2 DEF Told

\* A page that opens shows the words of who is there.
LEMMA OwnShow ==
    ASSUME NEW p, NEW t, NEW q, NEW S, Show(p, t, q), OwnTab(t, p, S), OwnNet(q, t, p, S)
    PROVE  /\ OwnSession(t, form', timer', net', S)
           /\ \A l : Started(q, l) => Started(net', l)
<1>. DEFINE fm(page) == Mounted(page, t)
<1>1. PICK page \in Landings(p, t) :
          /\ form' = [fm(page) EXCEPT !.evaluated = Evaluated(fm(page), t)]
          /\ net' = IF HasRepeater(page) /\ t.user # None THEN Append(q, Msg("rows", t.token)) ELSE q
          /\ timer' = {}
  BY DEF Show
<1>2. page = p \/ (page = "form" /\ p = "benefits" /\ ~t.loading /\ t.answers = {})
  BY <1>1 DEF Landings
<1>3. OwnTab(t, page, S)
  BY <1>2 DEF OwnTab
<1>4. \A m : OwnMessage(m, t, p, S) => OwnMessage(m, t, page, S)
  BY <1>2 DEF OwnMessage
<1>5. OwnNet(q, t, page, S)
  BY <1>4 DEF OwnNet
<1>6. /\ form'.page = page /\ form'.draft = fm(page).draft /\ ~form'.editing
      /\ DOMAIN form' = FormFields
  BY <1>1 DEF Mounted
<1>7. DOMAIN form'.draft = Scalar
  BY <1>6 DEF Mounted, AnswersMap
<1>8. ASSUME Drafting(form'), NEW f \in Scalar, form'.draft[f] # None
      PROVE  <<f, form'.draft[f]>> \in S[Who(t)]
  <2>1. page \in {"form", "benefit"}
    BY <1>6, <1>8 DEF Drafting
  <2>2. form'.draft[f] = AnswersMap(t)[f]
    BY <1>6, <2>1 DEF Mounted
  <2>3. Told(t.answers, S[Who(t)])
    BY <1>3, <2>1 DEF OwnTab
  <2>. QED BY <1>8, <2>2, <2>3, ShownTold
<1>9. \A m : OwnMessage(m, t, page, S) /\ m.kind = "me" => \A f \in Scalar : form'.draft[f] = None
  <2>. SUFFICES ASSUME page \in {"form", "benefit"} => t.answers = {}, NEW f \in Scalar PROVE form'.draft[f] = None
    BY <1>3 DEF OwnMessage, OwnTab
  <2>1. t.answers = {} => AnswersMap(t)[f] = None
    BY DEF AnswersMap
  <2>. QED BY <1>6, <2>1 DEF Mounted
<1>10. OwnForm(form', t, S)
  BY <1>6, <1>7, <1>8 DEF OwnForm
<1>11. OwnTimers(timer', t, page, S)
  BY <1>1 DEF OwnTimers
<1>12. OwnNet(net', t, page, S) /\ \A l : Started(q, l) => Started(net', l)
  <2>1. CASE HasRepeater(page) /\ t.user # None
    <3>. DEFINE m == Msg("rows", t.token)
    <3>1. OwnMessage(m, t, page, S) /\ m.kind = "rows"
      <4>1. m.kind = "rows"
        BY DEF Msg
      <4>2. t.token \in Account
        BY <1>3, <2>1 DEF OwnTab
      <4>. QED BY <2>1, <4>1, <4>2, OwnMsg
    <3>2. net' = Append(q, m)
      BY <1>1, <2>1
    <3>. HIDE DEF m
    <3>3. OwnNet(Append(q, m), t, page, S)
      <4>1. \A n \in DOMAIN q : Before(q[n], m) /\ Beside(q[n], m) /\ Beside(m, q[n])
        BY <1>5, <2>1, <3>1 DEF OwnNet, OwnMessage, Before, Beside
      <4>. QED BY <1>5, <3>1, <4>1, OwnAppend
    <3>4. \A l : Started(q, l) => Started(Append(q, m), l)
      BY <1>5, StartedAppend DEF OwnNet
    <3>. QED BY <3>2, <3>3, <3>4
  <2>2. CASE ~(HasRepeater(page) /\ t.user # None)
    BY <1>1, <1>5, <2>2
  <2>. QED BY <2>1, <2>2
<1>13. Undrafted(form', timer', net')
  BY <1>1, <1>9, <1>12 DEF OwnNet, Undrafted
<1>. QED BY <1>3, <1>6, <1>10, <1>11, <1>12, <1>13 DEF OwnSession

\* So does a page that stays.
LEMMA OwnKeep ==
    ASSUME NEW fm, NEW t, NEW q, NEW S, Keep(fm, t, q), OwnTab(t, fm.page, S), OwnNet(q, t, fm.page, S),
           OwnTimers(timer, t, fm.page, S),
           DOMAIN fm = FormFields,
           DOMAIN fm.draft = Scalar,
           Drafting(fm) => \A f \in Scalar : fm.draft[f] # None => <<f, fm.draft[f]>> \in S[Who(t)],
           Undrafted(fm, timer, q)
    PROVE  /\ OwnSession(t, form', timer', net', S)
           /\ \A l : Started(q, l) => Started(net', l)
<1>. DEFINE changed == t.token # tab.token
            known == IF changed THEN [fm EXCEPT !.captured = AnswersMap(tab)] ELSE fm
            fresh == Refreshed(known, t)
            seen == IF tab.loading /\ ~t.loading THEN Evaluated(known, t)
                    ELSE IF changed THEN Evaluated(known, [t EXCEPT !.answers = tab.answers])
                    ELSE fresh.evaluated
<1>1. CASE \E p \in Landings(fm.page, t) \ {fm.page} : Show(p, t, q)
  <2>1. PICK p \in Landings(fm.page, t) \ {fm.page} : Show(p, t, q)
    BY <1>1
  <2>2. p = "form" /\ fm.page = "benefits" /\ ~t.loading /\ t.answers = {}
    BY DEF Landings
  <2>3. OwnTab(t, p, S)
    BY <2>2 DEF OwnTab
  <2>4. \A m : OwnMessage(m, t, fm.page, S) => OwnMessage(m, t, p, S)
    BY <2>2 DEF OwnMessage
  <2>5. OwnNet(q, t, p, S)
    BY <2>4 DEF OwnNet
  <2>. QED BY <2>1, <2>3, <2>5, OwnShow
<1>2. CASE /\ form' = [fresh EXCEPT !.evaluated = seen]
           /\ net' = q /\ UNCHANGED timer
  <2>1. /\ known.page = fm.page /\ known.editing = fm.editing /\ known.draft = fm.draft
        /\ DOMAIN known = DOMAIN fm
    OBVIOUS
  <2>. HIDE DEF known
  <2>2. /\ DOMAIN fresh = DOMAIN fm /\ fresh.page = fm.page /\ fresh.editing = fm.editing
        /\ fresh.draft = [f \in Scalar |->
              IF fm.page \in {"form", "benefit"} /\ fm.draft[f] = None THEN AnswersMap(t)[f] ELSE fm.draft[f]]
    BY <2>1 DEF Refreshed
  <2>. HIDE DEF fresh, seen
  <2>3. /\ form'.page = fm.page /\ form'.editing = fm.editing /\ form'.draft = fresh.draft
        /\ form'.evaluated = seen /\ DOMAIN form' = DOMAIN fm
    BY <1>2, <2>2
  <2>4. ASSUME Drafting(form'), NEW f \in Scalar, form'.draft[f] # None
        PROVE  <<f, form'.draft[f]>> \in S[Who(t)]
    <3>1. Drafting(fm)
      BY <2>3, <2>4 DEF Drafting
    <3>2. CASE fm.page \in {"form", "benefit"} /\ fm.draft[f] = None
      <4>1. form'.draft[f] = AnswersMap(t)[f]
        BY <2>2, <2>3, <3>2
      <4>2. Told(t.answers, S[Who(t)])
        BY <3>2 DEF OwnTab
      <4>. QED BY <2>4, <4>1, <4>2, ShownTold
    <3>3. CASE ~(fm.page \in {"form", "benefit"} /\ fm.draft[f] = None)
      BY <2>2, <2>3, <2>4, <3>1, <3>3
    <3>. QED BY <3>2, <3>3
  <2>5. \A m : OwnMessage(m, t, fm.page, S) /\ m.kind = "me" /\ fm.page \in {"form", "benefit"} =>
            \A f \in Scalar : AnswersMap(t)[f] = None
    BY DEF OwnMessage, OwnTab, AnswersMap
  <2>6. OwnForm(form', t, S)
    BY <2>2, <2>3, <2>4 DEF OwnForm
  <2>7. Undrafted(form', timer', q)
    BY <1>2, <2>2, <2>3, <2>5 DEF Undrafted, OwnNet
  <2>. QED BY <1>2, <2>3, <2>6, <2>7 DEF OwnSession
<1>3. \/ \E p \in Landings(fm.page, t) \ {fm.page} : Show(p, t, q)
      \/ /\ form' = [fresh EXCEPT !.evaluated = seen]
         /\ net' = q /\ UNCHANGED timer
  BY DEF Keep
<1>. QED BY <1>1, <1>2, <1>3

\* More words are no harm.
LEMMA OwnWidens ==
    ASSUME NEW S, NEW S2, \A w \in Account \cup {Guest} : S[w] \subseteq S2[w], NEW s, NEW t, NEW fm, NEW T, NEW q,
           NEW l, OwnClient(s, t, fm, T, q, l, S)
    PROVE  OwnClient(s, t, fm, T, q, l, S2)
<1>1. Who(t) \in Account \cup {Guest} /\ t.token \in Account \cup {None} /\ (t.user # None => t.user \in Account)
  BY DEF OwnClient, OwnSession, OwnTab, Who
<1>2. OwnStore(s, S2)
  BY DEF OwnClient, OwnStore, Told, ProfileTold
<1>3. OwnTab(t, fm.page, S2)
  BY <1>1 DEF OwnClient, OwnSession, OwnTab, Told, ProfileTold
<1>4. OwnForm(fm, t, S2)
  BY <1>1 DEF OwnClient, OwnSession, OwnForm
<1>5. OwnTimers(T, t, fm.page, S2)
  BY <1>1 DEF OwnClient, OwnSession, OwnTimers
<1>6. ASSUME NEW m, OwnMessage(m, t, fm.page, S) PROVE OwnMessage(m, t, fm.page, S2)
  <2>1. m.kind \in {"save", "cell", "answers"} => S[m.token] \subseteq S2[m.token]
    BY <1>1, <1>6 DEF OwnMessage
  <2>2. m.kind = "login" /\ m.reply # Unanswered => (m.reply.ok => S[m.reply.got] \subseteq S2[m.reply.got])
    BY <1>6 DEF OwnMessage
  <2>. QED BY <1>6, <2>1, <2>2 DEF OwnMessage, Told, ProfileTold
<1>7. OwnNet(q, t, fm.page, S2)
  BY <1>6 DEF OwnClient, OwnSession, OwnNet
<1>8. Undrafted(fm, T, q)
  BY DEF OwnClient, OwnSession
<1>. QED BY <1>2, <1>3, <1>4, <1>5, <1>7, <1>8 DEF OwnClient, OwnSession

LEMMA OwnBookWidens ==
    ASSUME NEW S, NEW S2, \A a \in Account : S[a] \subseteq S2[a], NEW A, NEW R, OwnBook(A, R, S)
    PROVE  OwnBook(A, R, S2)
BY DEF OwnBook, BookTold, RowTold

\* A request whose page is gone does not depend on the tab, nor does the read of rows.
LEMMA DeadAnywhere ==
    ASSUME NEW m, NEW t, NEW pg, NEW S, OwnMessage(m, t, pg, S), ~m.live \/ m.kind = "rows",
           NEW t2, NEW pg2
    PROVE  OwnMessage(m, t2, pg2, S) /\ (~m.live => IsWrite(m))
BY DEF OwnMessage, IsWrite

\* What is left of the requests when the answer of one is delivered.
LEMMA OwnRemoved ==
    ASSUME NEW q, NEW t, NEW pg, NEW S, OwnNet(q, t, pg, S), NEW k \in DOMAIN q
    PROVE  /\ OwnNet(RemoveAt(q, k), t, pg, S)
           /\ \A n \in DOMAIN RemoveAt(q, k) : \E i \in DOMAIN q : i # k /\ RemoveAt(q, k)[n] = q[i]
           /\ \A l : Started(q, l) /\ q[k].reply # Unanswered => Started(RemoveAt(q, k), l)
<1>. DEFINE p == RemoveAt(q, k)
            I == DOMAIN q \ {k}
<1>1. Thins(p, q, I) /\ I \in SUBSET DOMAIN q
  BY RemovedThins DEF OwnNet
<1>. HIDE DEF p
<1>2. OwnNet(p, t, pg, S)
  BY <1>1, OwnThinned DEF OwnNet
<1>3. \A n \in DOMAIN p : \E i \in DOMAIN q : i # k /\ p[n] = q[i]
  BY <1>1 DEF Thins
<1>4. ASSUME NEW l, Started(q, l), q[k].reply # Unanswered PROVE Started(p, l)
  BY <1>1, <1>4, StartedThinned DEF OwnNet
<1>. QED BY <1>2, <1>3, <1>4 DEF p

LEMMA MergeTold ==
    ASSUME NEW A, NEW items, NEW S, Told(A, S), Told(Filled(items), S)
    PROVE  Told(Merge(A, items), S)
BY DEF Told, Filled, Merge

-----------------------------------------------------------------------------
(* The book *)

\* What a client is told of an account's answers are its words.
LEMMA AnswersTold ==
    ASSUME NEW scalars, NEW lists, NEW S, BookTold(scalars, lists, S)
    PROVE  Told(AnswersIn(scalars, lists), S)
<1>. SUFFICES ASSUME NEW i \in AnswersIn(scalars, lists) PROVE <<i.field, i.value>> \in S
  BY DEF Told
<1>1. CASE i \in Book!Item /\ i.field \in Scalar /\ i.value = scalars[i.field]
  <2>1. i.value # None
    BY <1>1, BrowserAssumption DEF Book!Item
  <2>. QED BY <1>1, <2>1 DEF BookTold
<1>2. CASE ~(i \in Book!Item /\ i.field \in Scalar /\ i.value = scalars[i.field])
  <2>1. PICK p \in {p \in Repeater \X (1 .. MaxRows) : p[2] <= Len(lists[p[1]])} :
          i \in {[field |-> c, row |-> lists[p[1]][p[2]].id, value |-> lists[p[1]][p[2]].cell[c]] :
                    c \in {c \in Book!Columns(p[1]) : lists[p[1]][p[2]].cell[c] # None}}
    BY <1>2 DEF AnswersIn
  <2>2. PICK c \in Book!Columns(p[1]) :
          /\ lists[p[1]][p[2]].cell[c] # None
          /\ i = [field |-> c, row |-> lists[p[1]][p[2]].id, value |-> lists[p[1]][p[2]].cell[c]]
    BY <2>1
  <2>3. p[1] \in Repeater /\ p[2] \in 1 .. MaxRows /\ p[2] <= Len(lists[p[1]]) /\ IsList(lists[p[1]])
    BY DEF BookTold
  <2>4. p[2] \in DOMAIN lists[p[1]]
    <3>1. Len(lists[p[1]]) \in Nat /\ DOMAIN lists[p[1]] = 1 .. Len(lists[p[1]])
      BY <2>3, LenProperties DEF IsList
    <3>. QED BY <2>3, <3>1
  <2>5. RowTold(p[1], lists[p[1]][p[2]], S)
    BY <2>3, <2>4 DEF BookTold
  <2>. QED BY <2>2, <2>5 DEF RowTold
<1>. QED BY <1>1, <1>2

\* A value put is one of the items', or the one there was.
LEMMA PutTold ==
    ASSUME NEW items, NEW S, Told(Filled(items), S), NEW f, NEW r, NEW old, old # None => <<f, old>> \in S
    PROVE  Book!Put(items, f, r, old) # None => <<f, Book!Put(items, f, r, old)>> \in S
<1>1. CASE \E i \in items : i.field = f /\ i.row = r
  <2>1. \E i \in items : i.field = f /\ Book!Put(items, f, r, old) = i.value
    BY <1>1 DEF Book!Put
  <2>. QED BY <2>1 DEF Told, Filled
<1>2. CASE ~\E i \in items : i.field = f /\ i.row = r
  BY <1>2 DEF Book!Put
<1>. QED BY <1>1, <1>2

LEMMA SaveOwn ==
    ASSUME NEW S, OwnBook(answer, rows, S), NEW u \in Account, NEW items, Told(Filled(items), S[u]),
           Book!Save(u, items)
    PROVE  OwnBook(answer', rows', S)
<1>. DEFINE A == [f \in Scalar |-> Book!Put(items, f, None, answer[u][f])]
            L(f) == [i \in DOMAIN rows[u][f] |-> Book!PutRow(items, f, rows[u][f][i])]
            R == [f \in Repeater |-> L(f)]
<1>1. answer' = [answer EXCEPT ![u] = A] /\ rows' = [rows EXCEPT ![u] = R]
  BY DEF Book!Save
<1>2. BookTold(answer[u], rows[u], S[u])
  BY DEF OwnBook
<1>3. \A f \in Scalar : A[f] # None => <<f, A[f]>> \in S[u]
  BY <1>2, PutTold DEF BookTold
<1>4. ASSUME NEW f \in Repeater
      PROVE  IsList(L(f)) /\ \A n \in DOMAIN L(f) : RowTold(f, L(f)[n], S[u])
  <2>1. IsList(rows[u][f]) /\ \A n \in DOMAIN rows[u][f] : RowTold(f, rows[u][f][n], S[u])
    BY <1>2 DEF BookTold
  <2>2. ASSUME NEW n \in DOMAIN rows[u][f] PROVE RowTold(f, Book!PutRow(items, f, rows[u][f][n]), S[u])
    <3>. DEFINE r == rows[u][f][n]
                new == [c \in Book!Columns(f) |-> Book!Put(items, c, r.id, r.cell[c])]
    <3>1. RowTold(f, r, S[u])
      BY <2>1
    <3>. HIDE DEF r
    <3>2. \A c \in Book!Columns(f) : new[c] # None => <<c, new[c]>> \in S[u]
      BY <3>1, PutTold DEF RowTold
    <3>3. Book!PutRow(items, f, r) = [r EXCEPT !.cell = new]
      BY DEF Book!PutRow, Book!Columns
    <3>4. DOMAIN new = Book!Columns(f)
      OBVIOUS
    <3>. HIDE DEF new
    <3>5. RowTold(f, [r EXCEPT !.cell = new], S[u])
      BY <3>1, <3>2, <3>4 DEF RowTold
    <3>. QED BY <3>3, <3>5 DEF r
  <2>3. IsList(L(f))
    <3>. DEFINE s == rows[u][f]
                x(i) == Book!PutRow(items, f, s[i])
                T == {x(i) : i \in DOMAIN s}
    <3>1. Len(s) \in Nat /\ DOMAIN s = 1 .. Len(s)
      BY <2>1, LenProperties DEF IsList
    <3>. HIDE DEF x
    <3>2. [i \in DOMAIN s |-> x(i)] \in Seq(T)
      BY <3>1
    <3>3. IsList([i \in DOMAIN s |-> x(i)])
      <4>. HIDE DEF T
      <4>. QED BY <3>2, ListFacts
    <3>. QED BY <3>3 DEF x
  <2>. QED BY <2>2, <2>3
<1>5. BookTold(A, R, S[u])
  <2>1. DOMAIN A = Scalar /\ DOMAIN R = Repeater /\ \A f \in Repeater : R[f] = L(f)
    OBVIOUS
  <2>. HIDE DEF A, R, L
  <2>. QED BY <1>3, <1>4, <2>1 DEF BookTold
<1>. HIDE DEF A, R
<1>. QED BY <1>1, <1>5 DEF OwnBook

LEMMA AddRowOwn ==
    ASSUME NEW S, OwnBook(answer, rows, S), NEW u \in Account, NEW g, NEW r, Book!AddRow(u, g, r)
    PROVE  OwnBook(answer', rows', S)
<1>. DEFINE b == Book!BlankRow(g, r)
            L == Append(rows[u][g], b)
            R == [rows[u] EXCEPT ![g] = L]
<1>1. BookTold(answer[u], rows[u], S[u]) /\ DOMAIN rows = Account
  BY DEF OwnBook
<1>2. rows' = [rows EXCEPT ![u] = R] /\ answer' = answer
  BY <1>1 DEF Book!AddRow
<1>3. RowTold(g, b, S[u])
  BY DEF Book!BlankRow, RowTold
<1>. HIDE DEF b
<1>4. g \in Repeater => IsList(L) /\ \A n \in DOMAIN L : RowTold(g, L[n], S[u])
  <2>. SUFFICES ASSUME g \in Repeater PROVE IsList(L) /\ \A n \in DOMAIN L : RowTold(g, L[n], S[u])
    OBVIOUS
  <2>. DEFINE s == rows[u][g]
  <2>1. IsList(s) /\ \A n \in DOMAIN s : RowTold(g, s[n], S[u])
    BY <1>1 DEF BookTold
  <2>. HIDE DEF s
  <2>2. /\ IsList(Append(s, b)) /\ Len(s) \in Nat /\ DOMAIN s = 1 .. Len(s)
        /\ DOMAIN Append(s, b) = 1 .. Len(s) + 1
        /\ \A n \in DOMAIN s : Append(s, b)[n] = s[n]
        /\ Append(s, b)[Len(s) + 1] = b
    BY <2>1, Appended
  <2>3. \A n \in DOMAIN Append(s, b) : n \in DOMAIN s \/ n = Len(s) + 1
    BY <2>2
  <2>4. \A n \in DOMAIN Append(s, b) : RowTold(g, Append(s, b)[n], S[u])
    BY <1>3, <2>1, <2>2, <2>3
  <2>. QED BY <2>2, <2>4 DEF s
<1>. HIDE DEF L
<1>5. BookTold(answer[u], R, S[u])
  <2>1. DOMAIN R = Repeater /\ \A f \in Repeater : R[f] = IF f = g THEN L ELSE rows[u][f]
    BY <1>1 DEF BookTold
  <2>. HIDE DEF R
  <2>. QED BY <1>1, <1>4, <2>1 DEF BookTold
<1>. HIDE DEF R
<1>. QED BY <1>2, <1>5 DEF OwnBook

LEMMA DeleteRowOwn ==
    ASSUME NEW S, OwnBook(answer, rows, S), NEW u \in Account, NEW g, NEW r, Book!DeleteRow(u, g, r)
    PROVE  OwnBook(answer', rows', S)
<1>. DEFINE s == rows[u][g]
            I == {i \in DOMAIN s : s[i].id # r}
            L == Book!Picked(s, I)
            R == [rows[u] EXCEPT ![g] = L]
<1>1. BookTold(answer[u], rows[u], S[u]) /\ DOMAIN rows = Account
  BY DEF OwnBook
<1>2. rows' = [rows EXCEPT ![u] = R] /\ answer' = answer
  BY <1>1 DEF Book!DeleteRow
<1>3. L = Picked(s, I)
  BY DEF Picked, Book!Picked, Cardinality, Book!Cardinality, IsFiniteSet, Book!IsFiniteSet
<1>4. g \in Repeater => IsList(L) /\ \A n \in DOMAIN L : RowTold(g, L[n], S[u])
  <2>. SUFFICES ASSUME g \in Repeater PROVE IsList(L) /\ \A n \in DOMAIN L : RowTold(g, L[n], S[u])
    OBVIOUS
  <2>1. IsList(s) /\ \A n \in DOMAIN s : RowTold(g, s[n], S[u])
    BY <1>1 DEF BookTold
  <2>2. I \in SUBSET DOMAIN s
    OBVIOUS
  <2>. HIDE DEF s, I, L
  <2>3. Thins(L, s, I)
    BY <1>3, <2>1, <2>2, PickedThins
  <2>4. IsList(L) /\ \A n \in DOMAIN L : \E i \in DOMAIN s : L[n] = s[i]
    BY <2>2, <2>3 DEF Thins
  <2>. QED BY <2>1, <2>4
<1>. HIDE DEF L, s, I
<1>5. BookTold(answer[u], R, S[u])
  <2>1. DOMAIN R = Repeater /\ \A f \in Repeater : R[f] = IF f = g THEN L ELSE rows[u][f]
    BY <1>1 DEF BookTold
  <2>. HIDE DEF R
  <2>. QED BY <1>1, <1>4, <2>1 DEF BookTold
<1>. HIDE DEF R
<1>. QED BY <1>2, <1>5 DEF OwnBook

-----------------------------------------------------------------------------
(* What the person does, and what the tab does of it *)

\* The person waits for what he sent, and requests are served in the order sent.
InTurn == InOrder /\ Settled /\ Patient

OwnAfter == OwnClient(store', tab', form', timer', net', login'["here"], said')

LEMMA ReloadOwn ==
    ASSUME OwnInv, Reload
    PROVE  OwnAfter
<1>. DEFINE t0 == Fresh(store)
            t == IF t0.waiting THEN t0
                 ELSE [t0 EXCEPT !.answers = store.guest.answers, !.groups = store.guest.groups,
                                 !.loading = FALSE]
            W == Writes(net)
            q == [n \in DOMAIN W |-> [W[n] EXCEPT !.live = FALSE]]
            f0 == Mounted(form.page, t0)
            fm == [f0 EXCEPT !.evaluated = Evaluated(f0, t0)]
            S == said
<1>1. /\ tab' = t /\ timer' = {} /\ store' = store /\ said' = said /\ login' = login
      /\ net' = IF t0.waiting THEN Append(q, Msg("me", t0.token)) ELSE q
      /\ IF t0.waiting THEN form' = fm
         ELSE \E p \in Landings(fm.page, t) :
                 form' = IF p # fm.page THEN Mounted(p, t)
                         ELSE [Refreshed(fm, t) EXCEPT !.evaluated = Evaluated(fm, t)]
  BY DEF Reload, server
<1>2. OwnStore(store, S) /\ OwnNet(net, tab, form.page, S) /\ Started(net, login["here"])
  BY DEF OwnInv, OwnClient, OwnSession
<1>3. /\ DOMAIN t0 = TabFields
      /\ t0.token = store.token /\ t0.user = None /\ t0.waiting = (store.token # None) /\ t0.profile = store.profile
      /\ t0.answers = {} /\ t0.loading
  BY DEF Fresh
<1>. HIDE DEF t0
<1>4. /\ DOMAIN t = DOMAIN t0 /\ t.token = store.token /\ t.user = None /\ t.waiting = t0.waiting
      /\ t.profile = store.profile
      /\ IF t0.waiting THEN t.answers = {} /\ t.loading ELSE t.answers = store.guest.answers /\ ~t.loading
  BY <1>3
<1>5. \A pg : OwnTab(t, pg, S)
  BY <1>2, <1>3, <1>4 DEF OwnTab, OwnStore, Told, Who
<1>6. /\ IsList(W) /\ \A n \in DOMAIN W : IsWrite(W[n]) /\ OwnMessage(W[n], tab, form.page, S)
      /\ Started(W, login["here"])
  <2>. DEFINE I == {n \in DOMAIN net : IsWrite(net[n])}
  <2>1. Thins(W, net, I) /\ I \in SUBSET DOMAIN net
    BY <1>2, PickedThins DEF OwnNet, Writes
  <2>. HIDE DEF W
  <2>2. IsList(W) /\ \A n \in DOMAIN W : \E i \in I : W[n] = net[i]
    BY <2>1 DEF Thins
  <2>3. \A n \in DOMAIN net : net[n].kind = "login" => n \in I
    BY DEF IsWrite
  <2>4. Started(W, login["here"])
    BY <1>2, <2>1, <2>3, StartedThinned DEF OwnNet
  <2>. QED BY <1>2, <2>2, <2>4 DEF OwnNet
<1>. HIDE DEF W
<1>7. /\ OwnNet(q, t, form'.page, S) /\ \A n \in DOMAIN q : IsWrite(q[n]) /\ ~q[n].live
      /\ Started(q, login["here"])
  <2>. HIDE DEF t
  <2>. QED BY <1>6, OwnDead
<1>. HIDE DEF q
<1>8. OwnNet(net', t, form'.page, S) /\ Started(net', login["here"])
  <2>1. CASE t0.waiting
    <3>. DEFINE m == Msg("me", t0.token)
    <3>1. m.kind = "me" /\ m.live
      BY DEF Msg
    <3>2. OwnMessage(m, t, form'.page, S)
      <4>. HIDE DEF t
      <4>. QED BY <1>3, <1>4, <2>1, OwnMsg
    <3>. HIDE DEF m, t
    <3>3. \A n \in DOMAIN q : Before(q[n], m) /\ Beside(q[n], m) /\ Beside(m, q[n])
      BY <1>7, <3>1 DEF IsWrite, Before, Beside
    <3>4. OwnNet(Append(q, m), t, form'.page, S)
      BY <1>7, <3>2, <3>3, OwnAppend
    <3>5. Started(Append(q, m), login["here"])
      BY <1>7, StartedAppend DEF OwnNet
    <3>. QED BY <1>1, <2>1, <3>4, <3>5 DEF m
  <2>2. CASE ~t0.waiting
    BY <1>1, <1>7, <2>2
  <2>. QED BY <2>1, <2>2
<1>. HIDE DEF t
<1>9. /\ f0.page = form.page /\ ~f0.editing /\ f0.evaluated = None
      /\ DOMAIN f0 = FormFields
      /\ DOMAIN f0.draft = Scalar
      /\ \A f \in Scalar : f0.draft[f] = None
  BY <1>3 DEF Mounted, AnswersMap
<1>. HIDE DEF f0
<1>10. /\ fm.page = form.page /\ ~fm.editing /\ fm.evaluated = None /\ fm.draft = f0.draft /\ DOMAIN fm = DOMAIN f0
  <2>1. Evaluated(f0, t0) = None
    BY <1>3, <1>9 DEF Evaluated
  <2>. QED BY <1>9, <2>1
<1>. HIDE DEF fm
<1>11. OwnForm(form', t, S)
  <2>1. CASE form' = fm
    BY <1>9, <1>10, <2>1 DEF OwnForm
  <2>2. ASSUME NEW p, form' = Mounted(p, t) PROVE OwnForm(form', t, S)
    <3>1. /\ form'.page = p /\ form'.evaluated = None /\ ~form'.editing
          /\ DOMAIN form' = FormFields
          /\ form'.draft = IF p \in {"form", "benefit"} THEN AnswersMap(t) ELSE [f \in Scalar |-> None]
      BY <2>2 DEF Mounted
    <3>2. DOMAIN form'.draft = Scalar
      BY <3>1 DEF AnswersMap
    <3>3. ASSUME p \in {"form", "benefit"}, NEW f \in Scalar, form'.draft[f] # None
          PROVE  <<f, form'.draft[f]>> \in S[Who(t)]
      <4>1. Told(t.answers, S[Who(t)])
        BY <1>5, <3>3 DEF OwnTab
      <4>2. form'.draft[f] = AnswersMap(t)[f]
        BY <3>1, <3>3
      <4>. QED BY <3>3, <4>1, <4>2, ShownTold
    <3>. QED BY <3>1, <3>2, <3>3 DEF OwnForm, Drafting
  <2>3. CASE ~t0.waiting /\ form' = [Refreshed(fm, t) EXCEPT !.evaluated = Evaluated(fm, t)]
    <3>1. /\ form'.page = form.page /\ ~form'.editing /\ form'.evaluated = Evaluated(fm, t)
          /\ DOMAIN form' = DOMAIN fm /\ DOMAIN form'.draft = Scalar
          /\ \A f \in Scalar : form'.draft[f] \in {None, AnswersMap(t)[f]}
      BY <1>9, <1>10, <2>3 DEF Refreshed
    <3>2. ASSUME Drafting(form'), NEW f \in Scalar, form'.draft[f] # None
          PROVE  <<f, form'.draft[f]>> \in S[Who(t)]
      <4>1. form'.draft[f] = AnswersMap(t)[f] /\ form.page # "benefits"
        BY <3>1, <3>2 DEF Drafting
      <4>. QED BY <1>5, <3>2, <4>1, ShownTold DEF OwnTab
    <3>. QED BY <1>9, <1>10, <3>1, <3>2 DEF OwnForm
  <2>. QED BY <1>1, <2>1, <2>2, <2>3
<1>12. OwnTimers(timer', t, form'.page, S)
  BY <1>1 DEF OwnTimers
<1>13. Undrafted(form', timer', net')
  <2>1. CASE t0.waiting
    BY <1>1, <1>9, <1>10, <2>1 DEF Undrafted
  <2>2. CASE ~t0.waiting
    BY <1>1, <1>7, <2>2 DEF Undrafted, IsWrite
  <2>. QED BY <2>1, <2>2
<1>. QED BY <1>1, <1>2, <1>4, <1>5, <1>8, <1>11, <1>12, <1>13 DEF OwnAfter, OwnClient, OwnSession

LEMMA VisitOwn ==
    ASSUME InTurn, OwnInv, NEW p, Visit(p)
    PROVE  OwnAfter
<1>1. /\ ~tab.waiting /\ ~tab.loading /\ \A n \in DOMAIN net : net[n].kind # "me"
      /\ Show(p, tab, net) /\ store' = store /\ tab' = tab /\ said' = said /\ login' = login
  BY DEF Visit, InTurn, Checked, server
<1>2. /\ OwnTab(tab, form.page, said) /\ OwnNet(net, tab, form.page, said) /\ OwnStore(store, said)
      /\ Started(net, login["here"]) /\ store.token = tab.token
  BY DEF OwnInv, OwnClient, OwnSession
<1>3. OwnTab(tab, p, said)
  BY <1>1, <1>2 DEF OwnTab
<1>4. \A m : OwnMessage(m, tab, form.page, said) /\ m.kind # "me" => OwnMessage(m, tab, p, said)
  BY DEF OwnMessage
<1>5. OwnNet(net, tab, p, said)
  BY <1>1, <1>2, <1>4 DEF OwnNet
<1>6. OwnSession(tab, form', timer', net', said) /\ Started(net', login["here"])
  BY <1>1, <1>2, <1>3, <1>5, OwnShow
<1>. QED BY <1>1, <1>2, <1>6 DEF OwnAfter, OwnClient

\* A guest's tab waits for a sign-in, or for the rows of a session that was refused.
LEMMA GuestNet ==
    ASSUME NEW q, NEW t, NEW pg, NEW S, OwnNet(q, t, pg, S), OwnTab(t, pg, S), t.user = None, ~t.waiting,
           NEW n \in DOMAIN q
    PROVE  (IsWrite(q[n]) \/ q[n].kind = "rows") /\ (q[n].live => q[n].kind \in {"login", "rows"})
<1>1. OwnMessage(q[n], t, pg, S)
  BY DEF OwnNet
<1>. QED BY <1>1 DEF OwnMessage, OwnTab, IsWrite

LEMMA SendLoginOwn ==
    ASSUME InTurn, OwnInv, NEW i, SendLogin(i)
    PROVE  OwnAfter
<1>. DEFINE m == [Msg("login", None) EXCEPT !.by = i]
<1>1. /\ ~Busy /\ ~tab.waiting /\ tab.user = None /\ form' = Mounted("home", tab) /\ timer' = {}
      /\ net' = Append(net, m) /\ store' = store /\ tab' = tab /\ said' = said /\ login' = login
  BY DEF SendLogin, InTurn, MayMove, server
<1>2. /\ OwnTab(tab, form.page, said) /\ OwnNet(net, tab, form.page, said) /\ OwnStore(store, said)
      /\ Started(net, login["here"]) /\ store.token = tab.token
  BY DEF OwnInv, OwnClient, OwnSession
<1>3. \A n \in DOMAIN net : FALSE
  <2>. SUFFICES ASSUME NEW n \in DOMAIN net PROVE FALSE
    OBVIOUS
  <2>1. IsPlain(net[n])
    BY <1>1, <1>2, GuestNet DEF IsPlain
  <2>. QED BY <1>1, <2>1 DEF Busy
<1>4. OwnTab(tab, "home", said)
  BY <1>1, <1>2 DEF OwnTab
<1>5. OwnNet(net, tab, "home", said)
  BY <1>2, <1>3 DEF OwnNet
<1>6. OwnMessage(m, tab, "home", said)
  BY <1>1 DEF OwnMessage, Msg, IsWrite
<1>. HIDE DEF m
<1>7. OwnNet(net', tab, "home", said) /\ Started(net', login["here"])
  BY <1>1, <1>2, <1>3, <1>5, <1>6, OwnAppend, StartedAppend DEF OwnNet
<1>8. /\ form'.page = "home" /\ ~form'.editing
      /\ DOMAIN form' = FormFields
      /\ DOMAIN form'.draft = Scalar
  BY <1>1 DEF Mounted
<1>9. OwnForm(form', tab, said)
  BY <1>8 DEF OwnForm, Drafting
<1>10. OwnTimers(timer', tab, "home", said)
  BY <1>1 DEF OwnTimers
<1>11. tab.token = None
  BY <1>1, <1>2 DEF OwnTab
<1>12. Undrafted(form', timer', net')
  BY <1>7, <1>11 DEF Undrafted, OwnNet, OwnMessage
<1>. QED BY <1>1, <1>2, <1>4, <1>7, <1>8, <1>9, <1>10, <1>12 DEF OwnAfter, OwnClient, OwnSession

\* Nothing of a guest outlives a logout, and nothing of the account comes to the guest.
LEMMA LogoutOwn ==
    ASSUME InTurn, OwnInv, Logout
    PROVE  OwnAfter
<1>. DEFINE t1 == SignedOut(tab)
            t == Provided(t1, store')
            q == ProvidedNet(t1, net)
<1>1. /\ ~Busy /\ tab.user # None /\ store' = Swept(store) /\ tab' = t /\ Show("home", t, q)
      /\ said' = [said EXCEPT ![Guest] = {}] /\ login' = login
  BY DEF Logout, InTurn, MayMove, server
<1>2. /\ OwnTab(tab, form.page, said) /\ OwnNet(net, tab, form.page, said) /\ OwnStore(store, said)
      /\ Started(net, login["here"]) /\ store.token = tab.token
  BY DEF OwnInv, OwnClient, OwnSession
<1>3. ~tab.waiting /\ tab.user = tab.token /\ tab.token # None
  BY <1>1, <1>2 DEF OwnTab
<1>4. /\ DOMAIN t1 = TabFields
      /\ t1.token = None /\ t1.user = None /\ t1.profile = None /\ t1.waiting = FALSE
  BY <1>2 DEF SignedOut, OwnTab
<1>. HIDE DEF t1
<1>5. /\ DOMAIN store' = {"token", "profile", "guest"} /\ store'.token = None /\ store'.profile = None
      /\ store'.guest.answers = {}
  BY <1>1, <1>2 DEF Swept, NoAnswers, OwnStore
<1>6. /\ DOMAIN t = DOMAIN t1 /\ t.token = None /\ t.user = None /\ t.profile = None /\ t.waiting = FALSE
      /\ t.answers = {}
  BY <1>3, <1>4, <1>5 DEF Provided
<1>. HIDE DEF t
<1>7. OwnTab(t, "home", said') /\ OwnStore(store', said')
  BY <1>4, <1>5, <1>6 DEF OwnTab, OwnStore, Told
<1>8. \A n \in DOMAIN net : net[n].kind \in {"me", "answers"}
  BY <1>1, <1>2 DEF OwnNet, OwnMessage, Busy, IsPlain
<1>9. OwnNet(q, t, "home", said') /\ Started(q, login["here"])
  BY <1>2, <1>3, <1>4, <1>8, SignedOutNet DEF OwnNet
<1>. HIDE DEF q
<1>10. OwnSession(t, form', timer', net', said') /\ Started(net', login["here"])
  BY <1>1, <1>6, <1>7, <1>9, OwnShow
<1>. QED BY <1>1, <1>5, <1>6, <1>7, <1>10 DEF OwnAfter, OwnClient

LEMMA ApplyLoginOwn ==
    ASSUME OwnInv, NEW k \in DOMAIN net, net[k].kind = "login", net[k].live, net[k].reply # Unanswered, net[k].reply.ok,
           ApplyLogin(net[k], RemoveAt(net, k)), said' = said, login' = login
    PROVE  OwnAfter
<1>. DEFINE m == net[k]
            q == RemoveAt(net, k)
            S == said
            t1 == [tab EXCEPT !.token = m.reply.got, !.user = m.reply.got,
                              !.profile = IF m.by.via = "egov" THEN m.by.profile ELSE @]
            t == Provided(t1, store')
            q1 == ProvidedNet(t1, q)
<1>1. /\ store' = [store EXCEPT !.token = m.reply.got, !.profile = IF m.by.via = "egov" THEN m.by.profile ELSE @]
      /\ tab' = t /\ Show("benefits", t, q1)
  BY Zenon DEF ApplyLogin
<1>2. /\ OwnTab(tab, form.page, S) /\ OwnNet(net, tab, form.page, S) /\ OwnStore(store, S)
      /\ Started(net, login["here"]) /\ store.token = tab.token
  BY DEF OwnInv, OwnClient, OwnSession
<1>3. /\ tab.user = None /\ ~tab.waiting /\ m.reply.got \in Account
      /\ (m.by.via = "egov" => ProfileTold(m.by.profile, S[m.reply.got]))
  BY <1>2 DEF OwnNet, OwnMessage
<1>4. tab.token = None /\ tab.profile = None /\ store.profile = None
  BY <1>2, <1>3 DEF OwnTab, OwnStore
<1>5. /\ OwnNet(q, tab, form.page, S) /\ Started(q, login["here"])
      /\ \A n \in DOMAIN q : \E i \in DOMAIN net : i # k /\ q[n] = net[i]
  BY <1>2, OwnRemoved
<1>6. \A n \in DOMAIN q : IsWrite(q[n]) /\ ~q[n].live
  <2>. SUFFICES ASSUME NEW n \in DOMAIN q PROVE IsWrite(q[n]) /\ ~q[n].live
    OBVIOUS
  <2>1. PICK i \in DOMAIN net : i # k /\ q[n] = net[i]
    BY <1>5
  <2>2. /\ IsWrite(net[i]) \/ net[i].kind = "rows"
        /\ net[i].live => net[i].kind \in {"login", "rows"}
    BY <1>2, <1>3, GuestNet
  <2>3. i < k \/ k < i
    <3>1. Len(net) \in Nat /\ DOMAIN net = 1 .. Len(net)
      BY <1>2, LenProperties DEF OwnNet, IsList
    <3>2. i \in Nat /\ k \in Nat
      BY <3>1
    <3>. QED BY <2>1, <3>2
  <2>4. ~(net[i].kind = "login" /\ net[i].live) /\ net[i].kind # "rows"
    <3>1. (i < k => Before(net[i], net[k])) /\ (k < i => Before(net[k], net[i])) /\ Beside(net[k], net[i])
      BY <1>2 DEF OwnNet, InLine
    <3>. QED BY <2>3, <3>1 DEF Before, Beside
  <2>. QED BY <2>1, <2>2, <2>4
<1>. HIDE DEF q
<1>7. /\ DOMAIN t1 = TabFields
      /\ t1.token = m.reply.got /\ t1.user = m.reply.got /\ t1.waiting = tab.waiting
      /\ t1.profile = IF m.by.via = "egov" THEN m.by.profile ELSE None
      /\ t1.token # None
  BY <1>2, <1>3, <1>4, SignInAssumption DEF OwnTab
<1>. HIDE DEF t1, m
<1>8. /\ DOMAIN t = DOMAIN t1 /\ t.token = t1.token /\ t.user = t1.user /\ t.waiting = t1.waiting
      /\ t.profile = t1.profile /\ t.loading
  BY <1>3, <1>7 DEF Provided
<1>. HIDE DEF t
<1>9. OwnTab(t, "benefits", S)
  BY <1>2, <1>3, <1>7, <1>8 DEF OwnTab
<1>10. OwnStore(store', S) /\ store'.token = t.token
  BY <1>1, <1>2, <1>3, <1>4, <1>7, <1>8 DEF OwnStore
<1>11. \A n \in DOMAIN q : OwnMessage(q[n], t, "benefits", S)
  BY <1>5, <1>6, DeadAnywhere DEF OwnNet
<1>12. OwnNet(q1, t, "benefits", S) /\ Started(q1, login["here"])
  BY <1>3, <1>4, <1>5, <1>6, <1>7, <1>8, <1>11, SignedInNet DEF OwnNet
<1>. HIDE DEF q1
<1>13. ~HasRepeater("benefits")
  BY DEF HasRepeater
<1>14. OwnSession(t, form', timer', net', S) /\ Started(net', login["here"])
  BY <1>1, <1>9, <1>12, <1>13, OwnShow
<1>. QED BY <1>1, <1>10, <1>14 DEF OwnAfter, OwnClient

\* While the session is checked nothing is waited for but answers and rows.
LEMMA SessionNet ==
    ASSUME NEW q, NEW t, NEW pg, NEW S, OwnNet(q, t, pg, S), NEW k \in DOMAIN q, q[k].kind = "me",
           NEW n \in DOMAIN RemoveAt(q, k)
    PROVE  LET m == RemoveAt(q, k)[n]
           IN  m.kind # "me" /\ (m.kind \in {"answers", "rows"} \/ (IsWrite(m) /\ ~m.live))
<1>1. PICK i \in DOMAIN q : i # k /\ RemoveAt(q, k)[n] = q[i]
  BY OwnRemoved
<1>2. i < k \/ k < i
  <2>1. Len(q) \in Nat /\ DOMAIN q = 1 .. Len(q)
    BY LenProperties DEF OwnNet, IsList
  <2>2. i \in Nat /\ k \in Nat
    BY <2>1
  <2>. QED BY <1>1, <2>2
<1>3. (i < k => Before(q[i], q[k])) /\ (k < i => Before(q[k], q[i])) /\ Beside(q[k], q[i])
  BY DEF OwnNet, InLine
<1>4. q[i].kind # "me" /\ (q[i].live => q[i].kind \in {"me", "answers", "rows"})
  BY <1>2, <1>3 DEF Before, Beside
<1>5. OwnMessage(q[i], t, pg, S)
  BY DEF OwnNet
<1>. QED BY <1>1, <1>4, <1>5 DEF OwnMessage

LEMMA SessionOkOwn ==
    ASSUME OwnInv, NEW k \in DOMAIN net, net[k].kind = "me", net[k].reply # Unanswered, net[k].reply.ok,
           SessionChecked(net[k], RemoveAt(net, k)), login' = login
    PROVE  OwnAfter
<1>. DEFINE m == net[k]
            q == RemoveAt(net, k)
            S == said
            t1 == [tab EXCEPT !.user = m.token, !.waiting = FALSE]
            t == Provided(t1, store)
            q1 == ProvidedNet(t1, q)
            page == IF Allowed(form.page, t) THEN form.page ELSE "home"
<1>1. /\ store' = store /\ tab' = t /\ said' = said
      /\ IF tab.waiting \/ ~Allowed(form.page, t) THEN Show(page, t, q1) ELSE Keep(form, t, q1)
  BY DEF SessionChecked
<1>2. /\ OwnTab(tab, form.page, S) /\ OwnNet(net, tab, form.page, S) /\ OwnStore(store, S)
      /\ Started(net, login["here"]) /\ store.token = tab.token
      /\ OwnForm(form, tab, S) /\ Undrafted(form, timer, net)
  BY DEF OwnInv, OwnClient, OwnSession
<1>3. /\ m.token = tab.token /\ m.token # None
      /\ timer = {} /\ \A f \in Scalar : form.draft[f] = None
  BY <1>2 DEF OwnNet, OwnMessage, Undrafted
<1>4. /\ OwnNet(q, tab, form.page, S) /\ Started(q, login["here"])
      /\ \A n \in DOMAIN q :
            q[n].kind # "me" /\ (q[n].kind \in {"answers", "rows"} \/ (IsWrite(q[n]) /\ ~q[n].live))
  BY <1>2, OwnRemoved, SessionNet
<1>5. /\ DOMAIN t1 = TabFields
      /\ t1.token = tab.token /\ t1.user = tab.token /\ t1.waiting = FALSE /\ t1.profile = tab.profile
      /\ t1.answers = tab.answers /\ t1.loading = tab.loading /\ t1.groups = tab.groups
  BY <1>2, <1>3 DEF OwnTab
<1>. HIDE DEF q, m
<1>6. CASE tab.waiting
  <2>1. t1 = [t1 EXCEPT !.loading = tab.loading]
    BY <1>5
  <2>. HIDE DEF t1
  <2>2. /\ DOMAIN t = DOMAIN t1 /\ t.token = tab.token /\ t.user = tab.token /\ t.waiting = FALSE
        /\ t.profile = tab.profile /\ t.loading /\ t.answers = {}
    BY <1>2, <1>3, <1>5, <1>6 DEF Provided, OwnTab
  <2>. HIDE DEF t, page
  <2>3. \A pg : OwnTab(t, pg, S)
    BY <1>2, <1>3, <1>5, <2>2 DEF OwnTab, Told
  <2>4. \A n \in DOMAIN q : q[n].kind # "answers" => OwnMessage(q[n], t, page, S)
    BY <1>4, DeadAnywhere DEF OwnNet
  <2>5. /\ OwnNet(q1, t, page, S) /\ Started(q1, login["here"])
        /\ \A n \in DOMAIN q1 : q1[n].kind # "me"
    BY <1>3, <1>4, <1>5, <1>6, <2>2, <2>4, StandingNet DEF OwnNet
  <2>. HIDE DEF q1
  <2>6. OwnSession(t, form', timer', net', S) /\ Started(net', login["here"])
    BY <1>1, <1>6, <2>3, <2>5, OwnShow
  <2>. QED BY <1>1, <1>2, <2>2, <2>6 DEF OwnAfter, OwnClient
<1>7. CASE ~tab.waiting
  <2>1. tab.user = tab.token /\ tab.waiting = FALSE
    BY <1>2, <1>7 DEF OwnTab
  <2>. HIDE DEF t1
  <2>2. t = t1 /\ q1 = q
    <3>1. t1.waiting = FALSE /\ t1.token = tab.token /\ (t1.user = None) = (tab.user = None)
      BY <1>5, <2>1
    <3>2. <<t1.waiting, t1.user = None, t1.token>> = <<tab.waiting, tab.user = None, tab.token>>
      BY <2>1, <3>1
    <3>. QED BY <2>1, <3>1, <3>2 DEF Provided, ProvidedNet
  <2>. HIDE DEF t, q1
  <2>3. Keep(form, t, q)
    <3>1. Allowed(form.page, t)
      BY <1>3, <1>5, <2>2 DEF Allowed
    <3>. QED BY <1>1, <1>7, <2>2, <3>1
  <2>4. OwnTab(t, form.page, S)
    BY <1>2, <1>3, <1>5, <2>1, <2>2 DEF OwnTab, Who
  <2>5. \A x : OwnMessage(x, tab, form.page, S) => OwnMessage(x, t, form.page, S)
    BY <1>5, <2>1, <2>2 DEF OwnMessage
  <2>6. OwnNet(q, t, form.page, S)
    BY <1>4, <2>5 DEF OwnNet
  <2>7. OwnTimers(timer, t, form.page, S) /\ Undrafted(form, timer, q)
    BY <1>3 DEF OwnTimers, Undrafted
  <2>8. /\ DOMAIN form = FormFields
        /\ DOMAIN form.draft = Scalar
    BY <1>2 DEF OwnForm
  <2>9. OwnSession(t, form', timer', net', S) /\ Started(net', login["here"])
    BY <1>3, <1>4, <2>3, <2>4, <2>6, <2>7, <2>8, OwnKeep
  <2>. QED BY <1>1, <1>2, <1>5, <2>2, <2>9 DEF OwnAfter, OwnClient
<1>. QED BY <1>6, <1>7

LEMMA SessionEndsOwn ==
    ASSUME OwnInv, NEW k \in DOMAIN net, net[k].kind = "me", net[k].reply # Unanswered, ~net[k].reply.ok,
           SessionChecked(net[k], RemoveAt(net, k)), login' = login
    PROVE  OwnAfter
<1>. DEFINE q == RemoveAt(net, k)
            S == said
            t1 == SignedOut(tab)
            s == [store EXCEPT !.token = None, !.profile = None]
            t == Provided(t1, s)
            q1 == ProvidedNet(t1, q)
            page == IF Allowed(form.page, t) THEN form.page ELSE "home"
<1>1. /\ store' = s /\ tab' = t /\ said' = said
      /\ IF tab.waiting \/ ~Allowed(form.page, t) THEN Show(page, t, q1) ELSE Keep(form, t, q1)
  BY DEF SessionChecked
<1>2. /\ OwnTab(tab, form.page, S) /\ OwnNet(net, tab, form.page, S) /\ OwnStore(store, S)
      /\ Started(net, login["here"]) /\ store.token = tab.token
      /\ OwnForm(form, tab, S) /\ Undrafted(form, timer, net)
  BY DEF OwnInv, OwnClient, OwnSession
<1>3. tab.token # None /\ timer = {} /\ \A f \in Scalar : form.draft[f] = None
  BY <1>2 DEF OwnNet, OwnMessage, Undrafted
<1>4. /\ OwnNet(q, tab, form.page, S) /\ Started(q, login["here"])
      /\ \A n \in DOMAIN q :
            q[n].kind # "me" /\ (q[n].kind \in {"answers", "rows"} \/ (IsWrite(q[n]) /\ ~q[n].live))
  BY <1>2, OwnRemoved, SessionNet
<1>. HIDE DEF q
<1>5. /\ DOMAIN t1 = TabFields
      /\ t1.token = None /\ t1.user = None /\ t1.profile = None /\ t1.waiting = FALSE
  BY <1>2 DEF SignedOut, OwnTab
<1>6. /\ DOMAIN s = {"token", "profile", "guest"} /\ s.token = None /\ s.profile = None
      /\ s.guest = store.guest
  BY <1>2 DEF OwnStore
<1>. HIDE DEF t1, s
<1>7. /\ DOMAIN t = DOMAIN t1 /\ t.token = None /\ t.user = None /\ t.profile = None /\ t.waiting = FALSE
      /\ t.answers = store.guest.answers /\ ~t.loading
  BY <1>3, <1>5, <1>6 DEF Provided
<1>. HIDE DEF t
<1>8. \A pg : OwnTab(t, pg, S)
  BY <1>2, <1>5, <1>7 DEF OwnTab, OwnStore, Who
<1>9. OwnStore(s, S)
  BY <1>2, <1>6 DEF OwnStore
<1>10. ASSUME NEW pg PROVE OwnNet(q1, t, pg, S) /\ Started(q1, login["here"])
  <2>1. \A n \in DOMAIN q : q[n].kind \notin {"me", "answers"} => OwnMessage(q[n], t, pg, S)
    BY <1>4, DeadAnywhere DEF OwnNet
  <2>. QED BY <1>3, <1>4, <1>5, <2>1, SignedOutNet DEF OwnNet
<1>. HIDE DEF q1, page
<1>11. OwnSession(t, form', timer', net', S) /\ Started(net', login["here"])
  <2>1. CASE Show(page, t, q1)
    BY <1>7, <1>8, <1>10, <2>1, OwnShow
  <2>2. CASE ~tab.waiting /\ Keep(form, t, q1)
    <3>1. OwnTimers(timer, t, form.page, S) /\ Undrafted(form, timer, q1)
      BY <1>3 DEF OwnTimers, Undrafted
    <3>2. /\ DOMAIN form = FormFields
          /\ DOMAIN form.draft = Scalar
      BY <1>2 DEF OwnForm
    <3>. QED BY <1>3, <1>8, <1>10, <2>2, <3>1, <3>2, OwnKeep
  <2>. QED BY <1>1, <2>1, <2>2 DEF page
<1>. QED BY <1>1, <1>6, <1>7, <1>9, <1>11 DEF OwnAfter, OwnClient

\* Answers that come back from a save are those of who sent it, who is still there.
LEMMA EndedOwn ==
    ASSUME OwnInv, NEW k \in DOMAIN net, net[k].kind \in {"save", "cell"}, net[k].live, net[k].reply # Unanswered,
           SaveEnded(net[k], RemoveAt(net, k)) \/ CellEnded(net[k], RemoveAt(net, k)), login' = login
    PROVE  OwnAfter
<1>. DEFINE m == net[k]
            q == RemoveAt(net, k)
            S == said
            t == IF ~m.reply.ok THEN tab ELSE [tab EXCEPT !.answers = m.reply.got]
            done == [form EXCEPT !.saving = FALSE, !.editing = @ /\ ~m.reply.ok]
            less == [form EXCEPT !.cells = @ \ UNION {Shown(@, i.row, i.field) : i \in m.items}]
<1>1. /\ store' = store /\ tab' = t /\ said' = said
      /\ Show("benefits", t, q) \/ Keep(done, t, q) \/ Keep(less, t, q)
  BY DEF SaveEnded, CellEnded
<1>2. /\ OwnTab(tab, form.page, S) /\ OwnNet(net, tab, form.page, S) /\ OwnStore(store, S)
      /\ Started(net, login["here"]) /\ store.token = tab.token
      /\ OwnForm(form, tab, S) /\ OwnTimers(timer, tab, form.page, S)
  BY DEF OwnInv, OwnClient, OwnSession
<1>3. /\ tab.user # None /\ m.token = tab.user /\ (m.reply.ok => Told(m.reply.got, S[m.token]))
  BY <1>2 DEF OwnNet, OwnMessage
<1>4. /\ OwnNet(q, tab, form.page, S) /\ Started(q, login["here"])
      /\ \A n \in DOMAIN q : \E i \in DOMAIN net : i # k /\ q[n] = net[i]
  BY <1>2, OwnRemoved
<1>5. \A n \in DOMAIN q : q[n].kind # "me"
  <2>1. ASSUME NEW i \in DOMAIN net PROVE net[i].kind # "me"
    <3>1. Beside(net[i], net[k])
      BY <1>2 DEF OwnNet, InLine
    <3>. QED BY <3>1 DEF Beside
  <2>. QED BY <1>4, <2>1
<1>6. /\ DOMAIN t = DOMAIN tab /\ t.token = tab.token /\ t.user = tab.user /\ t.waiting = tab.waiting
      /\ t.profile = tab.profile /\ t.loading = tab.loading
      /\ t.answers = tab.answers \/ Told(t.answers, S[Who(t)])
  BY <1>2, <1>3 DEF OwnTab, Who
<1>7. OwnTab(t, form.page, S) /\ OwnTab(t, "benefits", S)
  <2>. HIDE DEF t
  <2>. QED BY <1>2, <1>3, <1>6 DEF OwnTab, Who
<1>8. \A pg : OwnNet(q, t, pg, S)
  <2>. HIDE DEF t, q
  <2>1. \A pg, x : OwnMessage(x, tab, form.page, S) /\ x.kind # "me" => OwnMessage(x, t, pg, S)
    BY <1>6 DEF OwnMessage
  <2>. QED BY <1>4, <1>5, <2>1 DEF OwnNet
<1>9. /\ DOMAIN done = DOMAIN form /\ done.page = form.page /\ done.draft = form.draft
      /\ done.editing => form.editing
  BY <1>2 DEF OwnForm
<1>10. DOMAIN less = DOMAIN form /\ less.page = form.page /\ less.draft = form.draft /\ less.editing = form.editing
  BY <1>2 DEF OwnForm
<1>11. ASSUME NEW fm, Keep(fm, t, q), DOMAIN fm = DOMAIN form, fm.page = form.page, fm.draft = form.draft,
              fm.editing => form.editing
       PROVE  OwnSession(t, form', timer', net', S) /\ Started(net', login["here"])
  <2>. HIDE DEF t, q, done, less
  <2>1. /\ DOMAIN fm = FormFields
        /\ DOMAIN fm.draft = Scalar
        /\ Drafting(fm) => \A f \in Scalar : fm.draft[f] # None => <<f, fm.draft[f]>> \in S[Who(t)]
    BY <1>2, <1>6, <1>11 DEF OwnForm, Drafting, Who
  <2>2. OwnTimers(timer, t, fm.page, S)
    BY <1>2, <1>6, <1>11 DEF OwnTimers, Who
  <2>3. Undrafted(fm, timer, q)
    BY <1>5 DEF Undrafted
  <2>. QED BY <1>4, <1>7, <1>8, <1>11, <2>1, <2>2, <2>3, OwnKeep
<1>12. Show("benefits", t, q) => OwnSession(t, form', timer', net', S) /\ Started(net', login["here"])
  <2>. HIDE DEF t, q
  <2>. QED BY <1>4, <1>7, <1>8, OwnShow
<1>. HIDE DEF t, q, done, less
<1>. QED BY <1>1, <1>2, <1>6, <1>9, <1>10, <1>11, <1>12 DEF OwnAfter, OwnClient

LEMMA AnswersOwn ==
    ASSUME OwnInv, NEW k \in DOMAIN net, k = 1, net[k].kind = "answers", net[k].reply # Unanswered, net[k].reply.ok,
           tab' = [tab EXCEPT !.answers = net[k].reply.got, !.loading = FALSE],
           Keep(form, tab', RemoveAt(net, k)), UNCHANGED <<store, said, login>>
    PROVE  OwnAfter
<1>. DEFINE m == net[k]
            q == RemoveAt(net, k)
            S == said
            t == [tab EXCEPT !.answers = m.reply.got, !.loading = FALSE]
<1>1. Keep(form, t, q)
  OBVIOUS
<1>2. /\ OwnTab(tab, form.page, S) /\ OwnNet(net, tab, form.page, S) /\ OwnStore(store, S)
      /\ Started(net, login["here"]) /\ store.token = tab.token
      /\ OwnForm(form, tab, S) /\ OwnTimers(timer, tab, form.page, S) /\ Undrafted(form, timer, net)
  BY DEF OwnInv, OwnClient, OwnSession
<1>3. tab.user # None /\ tab.loading /\ m.token = tab.user /\ Told(m.reply.got, S[m.token])
  BY <1>2 DEF OwnNet, OwnMessage
<1>4. /\ OwnNet(q, tab, form.page, S) /\ Started(q, login["here"])
      /\ \A n \in DOMAIN q : \E i \in DOMAIN net : i # k /\ q[n] = net[i]
  BY <1>2, OwnRemoved
<1>5. \A n \in DOMAIN q : q[n].kind # "answers"
  <2>. SUFFICES ASSUME NEW n \in DOMAIN q PROVE q[n].kind # "answers"
    OBVIOUS
  <2>1. PICK i \in DOMAIN net : i # k /\ q[n] = net[i]
    BY <1>4
  <2>2. k < i
    <3>1. Len(net) \in Nat /\ DOMAIN net = 1 .. Len(net)
      BY <1>2, LenProperties DEF OwnNet, IsList
    <3>2. i \in Nat /\ i >= 1
      BY <3>1
    <3>. QED BY <2>1, <3>2
  <2>3. Before(net[k], net[i])
    BY <1>2, <2>2 DEF OwnNet, InLine
  <2>. QED BY <2>1, <2>3 DEF Before
<1>. HIDE DEF q, m
<1>6. /\ DOMAIN t = DOMAIN tab /\ t.token = tab.token /\ t.user = tab.user /\ t.waiting = tab.waiting
      /\ t.profile = tab.profile /\ ~t.loading /\ t.answers = m.reply.got
  BY <1>2 DEF OwnTab
<1>7. tab' = t
  BY DEF m
<1>. HIDE DEF t
<1>8. OwnTab(t, form.page, S)
  BY <1>2, <1>3, <1>6 DEF OwnTab, Who
<1>9. OwnNet(q, t, form.page, S)
  <2>1. tab.waiting = FALSE
    BY <1>2, <1>3 DEF OwnTab
  <2>2. \A x : OwnMessage(x, tab, form.page, S) /\ x.kind # "answers" => OwnMessage(x, t, form.page, S)
    BY <1>3, <1>6, <2>1 DEF OwnMessage
  <2>. QED BY <1>4, <1>5, <2>2 DEF OwnNet
<1>10. OwnTimers(timer, t, form.page, S)
  BY <1>2, <1>6 DEF OwnTimers, Who
<1>11. /\ DOMAIN form = FormFields
       /\ DOMAIN form.draft = Scalar
       /\ Drafting(form) => \A f \in Scalar : form.draft[f] # None => <<f, form.draft[f]>> \in S[Who(t)]
  BY <1>2, <1>6 DEF OwnForm, Who
<1>12. Undrafted(form, timer, q)
  BY <1>2, <1>4 DEF Undrafted
<1>13. OwnSession(t, form', timer', net', S) /\ Started(net', login["here"])
  BY <1>1, <1>4, <1>8, <1>9, <1>10, <1>11, <1>12, OwnKeep
<1>. QED BY <1>2, <1>6, <1>7, <1>13 DEF OwnAfter, OwnClient

\* The answer of another request, or one whose page is gone.
LEMMA RowsOwn ==
    ASSUME OwnInv, NEW k \in DOMAIN net, net[k].reply # Unanswered,
           \/ tab' = tab
           \/ net[k].live /\ net[k].kind \in {"rows", "add", "remove"}
              /\ \/ \E g : tab' = [tab EXCEPT !.groups = g]
                 \/ \E r : tab' = WithoutRow(tab, r),
           net' = RemoveAt(net, k), UNCHANGED <<store, form, timer, said, login>>
    PROVE  OwnAfter
<1>. DEFINE S == said
<1>1. /\ OwnTab(tab, form.page, S) /\ OwnNet(net, tab, form.page, S) /\ OwnStore(store, S)
      /\ Started(net, login["here"]) /\ store.token = tab.token
      /\ OwnForm(form, tab, S) /\ OwnTimers(timer, tab, form.page, S) /\ Undrafted(form, timer, net)
  BY DEF OwnInv, OwnClient, OwnSession
<1>2. /\ OwnNet(net', tab, form.page, S) /\ Started(net', login["here"])
      /\ \A n \in DOMAIN net' : \E i \in DOMAIN net : net'[n] = net[i]
  BY <1>1, OwnRemoved
<1>3. Undrafted(form', timer', net')
  BY <1>1, <1>2 DEF Undrafted
<1>4. CASE tab' = tab
  BY <1>1, <1>2, <1>4, <1>3 DEF OwnAfter, OwnClient, OwnSession
<1>5. CASE /\ net[k].live /\ net[k].kind \in {"rows", "add", "remove"}
           /\ \/ \E g : tab' = [tab EXCEPT !.groups = g]
              \/ \E r : tab' = WithoutRow(tab, r)
  <2>1. /\ DOMAIN tab' = DOMAIN tab /\ tab'.token = tab.token /\ tab'.user = tab.user
        /\ tab'.waiting = tab.waiting /\ tab'.profile = tab.profile /\ tab'.loading = tab.loading
        /\ tab'.answers \subseteq tab.answers
    BY <1>1, <1>5 DEF WithoutRow, OwnTab
  <2>2. OwnTab(tab', form.page, S)
    BY <1>1, <2>1 DEF OwnTab, Who, Told
  <2>3. \A x : OwnMessage(x, tab, form.page, S) => OwnMessage(x, tab', form.page, S)
    BY <2>1 DEF OwnMessage
  <2>4. OwnNet(net', tab', form.page, S)
    BY <1>2, <2>3 DEF OwnNet
  <2>5. OwnForm(form, tab', S) /\ OwnTimers(timer, tab', form.page, S)
    BY <1>1, <2>1 DEF OwnForm, OwnTimers, Who
  <2>. QED BY <1>1, <1>2, <1>3, <2>1, <2>2, <2>4, <2>5 DEF OwnAfter, OwnClient, OwnSession
<1>. QED BY <1>4, <1>5

LEMMA DeliverOwn ==
    ASSUME InTurn, OwnInv, NEW n \in DOMAIN net, Deliver(n)
    PROVE  OwnAfter
<1>. DEFINE m == net[n]
            q == RemoveAt(net, n)
<1>1. m.reply # Unanswered /\ n = 1 /\ login' = login
  BY DEF Deliver, InTurn, server
<1>2. OwnMessage(m, tab, form.page, said)
  BY DEF OwnInv, OwnClient, OwnSession, OwnNet
<1>3. CASE ~m.live \/ (~m.reply.ok /\ m.kind \notin {"me", "save", "cell"})
  <2>1. UNCHANGED <<store, tab, form, timer, kept, said>> /\ net' = q
    BY <1>3 DEF Deliver
  <2>. QED BY <1>1, <2>1, RowsOwn
<1>4. CASE ~(~m.live \/ (~m.reply.ok /\ m.kind \notin {"me", "save", "cell"}))
  <2>1. CASE m.kind = "me"
    <3>1. SessionChecked(m, q)
      BY <1>4, <2>1 DEF Deliver
    <3>. QED BY <1>1, <2>1, <3>1, SessionOkOwn, SessionEndsOwn
  <2>2. CASE m.kind = "save" \/ m.kind = "cell"
    <3>1. SaveEnded(m, q) \/ CellEnded(m, q)
      BY <1>4, <2>2 DEF Deliver
    <3>. QED BY <1>1, <1>4, <2>2, <3>1, EndedOwn
  <2>3. CASE m.kind = "login"
    <3>1. ApplyLogin(m, q) /\ said' = said
      BY <1>4, <2>3 DEF Deliver, ApplyLogin
    <3>. QED BY <1>1, <1>4, <2>3, <3>1, ApplyLoginOwn
  <2>4. CASE m.kind = "answers"
    <3>1. /\ tab' = [tab EXCEPT !.answers = m.reply.got, !.loading = FALSE]
          /\ Keep(form, tab', q) /\ UNCHANGED <<store, said>>
      BY <1>4, <2>4 DEF Deliver
    <3>. QED BY <1>1, <1>4, <2>4, <3>1, AnswersOwn
  <2>5. CASE m.kind \in {"rows", "add", "remove"}
    <3>1. /\ net' = q /\ UNCHANGED <<store, form, timer, said>>
          /\ \/ tab' = [tab EXCEPT !.groups = m.reply.got]
             \/ tab' = [tab EXCEPT !.groups = Append(tab.groups, m.reply.got)]
             \/ tab' = WithoutRow(tab, m.row)
      BY <1>4, <2>5 DEF Deliver
    <3>2. \/ \E g : tab' = [tab EXCEPT !.groups = g]
          \/ \E r : tab' = WithoutRow(tab, r)
      BY <3>1
    <3>. QED BY <1>1, <1>4, <2>5, <3>1, <3>2, RowsOwn
  <2>. QED BY <1>2, <2>1, <2>2, <2>3, <2>4, <2>5 DEF OwnMessage, IsWrite
<1>. QED BY <1>3, <1>4

\* The form starts and stops showing what can be edited.
LEMMA EditingOwn ==
    ASSUME OwnInv, StartEditing \/ CancelEditing
    PROVE  OwnAfter
<1>1. /\ form.page = "profile" /\ UNCHANGED <<store, tab, timer, net, said, login>>
      /\ \/ ~tab.loading /\ form' = [form EXCEPT !.editing = TRUE, !.draft = DisplayValues(tab)]
         \/ form' = [form EXCEPT !.editing = FALSE]
  BY DEF StartEditing, CancelEditing, server
<1>2. OwnClient(store, tab, form, timer, net, login["here"], said)
  BY DEF OwnInv
<1>3. /\ OwnTab(tab, "profile", said) /\ OwnForm(form, tab, said) /\ Undrafted(form, timer, net)
      /\ OwnNet(net, tab, "profile", said)
  BY <1>1, <1>2 DEF OwnClient, OwnSession
<1>4. CASE form' = [form EXCEPT !.editing = FALSE]
  <2>1. /\ DOMAIN form' = DOMAIN form /\ form'.page = form.page /\ form'.draft = form.draft
        /\ form'.editing = FALSE
    BY <1>3, <1>4 DEF OwnForm
  <2>2. OwnForm(form', tab, said)
    BY <1>1, <1>3, <2>1 DEF OwnForm, Drafting
  <2>3. Undrafted(form', timer', net')
    BY <1>1, <1>3, <2>1 DEF Undrafted
  <2>. QED BY <1>1, <1>2, <2>1, <2>2, <2>3 DEF OwnAfter, OwnClient, OwnSession
<1>5. CASE ~tab.loading /\ form' = [form EXCEPT !.editing = TRUE, !.draft = DisplayValues(tab)]
  <2>1. DOMAIN form' = DOMAIN form /\ form'.page = form.page /\ form'.draft = DisplayValues(tab)
    BY <1>3, <1>5 DEF OwnForm
  <2>2. tab.user = tab.token /\ Told(tab.answers, said[Who(tab)])
    BY <1>3, <1>5 DEF OwnTab
  <2>3. ASSUME NEW f \in Scalar, DisplayValues(tab)[f] # None PROVE <<f, DisplayValues(tab)[f]>> \in said[Who(tab)]
    <3>1. CASE DisplayValues(tab)[f] = AnswersMap(tab)[f]
      BY <2>2, <2>3, <3>1, ShownTold
    <3>2. CASE DisplayValues(tab)[f] # AnswersMap(tab)[f]
      <4>1. tab.profile # None /\ f \in EgovField /\ DisplayValues(tab)[f] = tab.profile[f]
        BY <3>2 DEF DisplayValues
      <4>2. tab.token # None /\ ProfileTold(tab.profile, said[tab.token])
        BY <1>3, <4>1 DEF OwnTab
      <4>. QED BY <2>2, <2>3, <4>1, <4>2 DEF ProfileTold, Who
    <3>. QED BY <3>1, <3>2
  <2>4. DOMAIN DisplayValues(tab) = Scalar
    BY DEF DisplayValues
  <2>5. OwnForm(form', tab, said)
    BY <1>1, <1>3, <2>1, <2>3, <2>4 DEF OwnForm
  <2>6. Undrafted(form', timer', net')
    BY <1>1, <1>3, <1>5 DEF Undrafted, OwnNet, OwnMessage, OwnTab
  <2>. QED BY <1>1, <1>2, <2>1, <2>5, <2>6 DEF OwnAfter, OwnClient, OwnSession
<1>. QED BY <1>1, <1>4, <1>5

\* What the person says is added to what was said by whoever is signed in.
LEMMA SayOwn ==
    ASSUME OwnInv, NEW items, Say(items)
    PROVE  /\ OwnClient(store, tab, form, timer, net, login["here"], said')
           /\ OwnBook(answer, rows, said') /\ DOMAIN said' = Account \cup {Guest}
           /\ Told(Filled(items), said'[Who(tab)])
<1>1. Who(tab) \in Account \cup {Guest} /\ DOMAIN said = Account \cup {Guest}
  BY DEF OwnInv, OwnClient, OwnSession, OwnTab, Who
<1>2. DOMAIN said' = Account \cup {Guest} /\ \A w \in Account \cup {Guest} : said[w] \subseteq said'[w]
  BY <1>1 DEF Say
<1>3. said'[Who(tab)] = said[Who(tab)] \cup {<<i.field, i.value>> : i \in {j \in items : j.value # None}}
  BY <1>1 DEF Say
<1>4. Told(Filled(items), said'[Who(tab)])
  BY <1>3 DEF Told, Filled
<1>5. OwnClient(store, tab, form, timer, net, login["here"], said')
  BY <1>2, OwnWidens DEF OwnInv
<1>6. OwnBook(answer, rows, said')
  BY <1>2, OwnBookWidens DEF OwnInv
<1>. QED BY <1>2, <1>4, <1>5, <1>6

GuestStore(answers, groups) == [store EXCEPT !.guest = [answers |-> answers, groups |-> groups]]
GuestTab(answers, groups) == [tab EXCEPT !.answers = answers, !.groups = groups]

\* What the session is after a guest's save, with the page and the requests as they were.
GuestKeeps(s, t, answers, S) ==
    /\ OwnStore(s, S) /\ s.token = t.token /\ t.answers = answers
    /\ t.user = None /\ t.waiting = FALSE /\ DOMAIN t = DOMAIN tab /\ t.loading = tab.loading
    /\ \A pg : OwnTab(t, pg, S) /\ OwnNet(net, t, pg, S)
    /\ \A n \in DOMAIN net : net[n].kind # "me"
    /\ OwnTimers(timer, t, form.page, S)
    /\ \A fm : OwnForm(fm, tab, S) => OwnForm(fm, t, S)

\* A guest's answers are saved at once, in the tab and in localStorage.
LEMMA GuestOwn ==
    ASSUME NEW l, NEW S, OwnClient(store, tab, form, timer, net, l, S), tab.user = None, ~tab.waiting,
           NEW answers, Told(answers, S[Guest]), NEW s, NEW t,
           \E groups : s = GuestStore(answers, groups), \E groups : t = GuestTab(answers, groups)
    PROVE  GuestKeeps(s, t, answers, S)
<1>1. /\ OwnTab(tab, form.page, S) /\ OwnNet(net, tab, form.page, S) /\ OwnStore(store, S)
      /\ store.token = tab.token /\ OwnTimers(timer, tab, form.page, S)
  BY DEF OwnClient, OwnSession
<1>2. /\ DOMAIN t = DOMAIN tab /\ t.token = tab.token /\ t.user = tab.user /\ t.waiting = tab.waiting
      /\ t.profile = tab.profile /\ t.loading = tab.loading /\ t.answers = answers
  BY <1>1 DEF OwnTab, GuestTab
<1>3. DOMAIN s = DOMAIN store /\ s.token = store.token /\ s.profile = store.profile /\ s.guest.answers = answers
  BY <1>1 DEF OwnStore, GuestStore
<1>4. OwnStore(s, S)
  BY <1>1, <1>3 DEF OwnStore
<1>5. Who(tab) = Guest /\ Who(t) = Guest /\ t.waiting = FALSE
  BY <1>1, <1>2 DEF Who, OwnTab
<1>6. \A pg : OwnTab(t, pg, S)
  BY <1>1, <1>2, <1>5 DEF OwnTab
<1>7. \A n \in DOMAIN net : net[n].kind # "me"
  BY <1>1, GuestNet DEF IsWrite
<1>8. \A m, pg : OwnMessage(m, tab, form.page, S) /\ m.kind # "me" => OwnMessage(m, t, pg, S)
  BY <1>2 DEF OwnMessage
<1>9. \A pg : OwnNet(net, t, pg, S)
  BY <1>1, <1>7, <1>8 DEF OwnNet
<1>10. OwnTimers(timer, t, form.page, S)
  BY <1>1, <1>2, <1>5 DEF OwnTimers
<1>11. \A fm : OwnForm(fm, tab, S) => OwnForm(fm, t, S)
  BY <1>5 DEF OwnForm
<1>. QED BY <1>1, <1>2, <1>3, <1>4, <1>5, <1>6, <1>7, <1>9, <1>10, <1>11 DEF GuestKeeps

\* A request that writes is sent by whoever is signed in, with that person's words.
LEMMA SendOwn ==
    ASSUME NEW l, NEW S, OwnClient(store, tab, form, timer, net, l, S), tab.user # None, ~tab.waiting,
           \A n \in DOMAIN net : net[n].kind # "me", NEW kind \in {"save", "cell", "add", "remove"}, NEW m,
           DOMAIN m = MessageFields, m.kind = kind,
           m.token = tab.token, m.live, m.reply = Unanswered,
           kind \in {"save", "cell"} => Told(Filled(m.items), S[Who(tab)])
    PROVE  /\ OwnNet(Append(net, m), tab, form.page, S) /\ Started(Append(net, m), l)
           /\ \A n \in DOMAIN Append(net, m) : Append(net, m)[n].kind # "me"
<1>1. /\ OwnTab(tab, form.page, S) /\ OwnNet(net, tab, form.page, S) /\ Started(net, l)
  BY DEF OwnClient, OwnSession
<1>2. tab.user = tab.token /\ tab.token \in Account /\ Who(tab) = tab.token
  BY <1>1 DEF OwnTab, Who
<1>3. OwnMessage(m, tab, form.page, S)
  BY <1>2 DEF OwnMessage, IsWrite
<1>4. \A n \in DOMAIN net : Before(net[n], m) /\ Beside(net[n], m) /\ Beside(m, net[n])
  BY DEF Before, Beside
<1>5. \A n \in DOMAIN Append(net, m) : Append(net, m)[n] = m \/ (n \in DOMAIN net /\ Append(net, m)[n] = net[n])
  <2>1. /\ \A n \in DOMAIN Append(net, m) : n \in DOMAIN net \/ n = Len(net) + 1
        /\ Append(net, m)[Len(net) + 1] = m /\ \A n \in DOMAIN net : Append(net, m)[n] = net[n]
    BY <1>1, Appended DEF OwnNet
  <2>. QED BY <2>1
<1>. QED BY <1>1, <1>3, <1>4, <1>5, OwnAppend, StartedAppend DEF OwnNet

LEMMA TypingOwn ==
    ASSUME InTurn, OwnInv, NEW f \in Scalar, NEW v, Typing(f, v)
    PROVE  OwnAfter
<1>. DEFINE i == [field |-> f, row |-> None, value |-> v]
            S == said'
<1>1. /\ UNCHANGED <<store, tab, timer, net, login>> /\ form' = [form EXCEPT !.draft[f] = v] /\ Say({i})
  BY DEF Typing, server
<1>2. OwnClient(store, tab, form, timer, net, login["here"], S) /\ Told(Filled({i}), S[Who(tab)])
  BY <1>1, SayOwn
<1>3. v # None => <<f, v>> \in S[Who(tab)]
  <2>1. i.field = f /\ i.value = v /\ (i.value # None => i \in Filled({i}))
    BY DEF Filled
  <2>. QED BY <1>2, <2>1 DEF Told
<1>. HIDE DEF S, i
<1>4. OwnForm(form, tab, S)
  BY <1>2 DEF OwnClient, OwnSession
<1>5. /\ DOMAIN form' = DOMAIN form /\ form'.page = form.page /\ form'.editing = form.editing
      /\ form'.evaluated = form.evaluated /\ form'.draft = [form.draft EXCEPT ![f] = v]
  BY <1>1, <1>4 DEF OwnForm
<1>6. DOMAIN form'.draft = Scalar /\ \A g \in Scalar : form'.draft[g] = IF g = f THEN v ELSE form.draft[g]
  BY <1>4, <1>5 DEF OwnForm
<1>7. OwnForm(form', tab, S)
  BY <1>3, <1>4, <1>5, <1>6 DEF OwnForm, Drafting
<1>8. Undrafted(form', timer', net')
  <2>1. \A n \in DOMAIN net : net[n].kind # "me"
    BY DEF Typing, Checked, InTurn
  <2>. QED BY <1>1, <2>1 DEF Undrafted
<1>. QED BY <1>1, <1>2, <1>5, <1>7, <1>8 DEF OwnAfter, OwnClient, OwnSession, S

LEMMA TypeAnsweredOwn ==
    ASSUME InTurn, OwnInv, NEW f, NEW v, TypeAnswered(f, v)
    PROVE  OwnAfter
<1>. DEFINE items == {[field |-> f, row |-> None, value |-> v]}
            S == said'
            m == [Msg("cell", tab.token) EXCEPT !.items = items]
<1>1. /\ \A n \in DOMAIN net : net[n].kind # "me"
      /\ UNCHANGED <<timer, login>> /\ Say(items) /\ ~tab.waiting /\ form.page = "answered"
      /\ IF tab.user = None THEN GuestSubmit(items, tab.groups, form) /\ UNCHANGED net
         ELSE net' = Append(net, m) /\ UNCHANGED <<store, tab, form>>
  BY DEF Checked, InTurn, TypeAnswered, server
<1>2. OwnClient(store, tab, form, timer, net, login["here"], S) /\ Told(Filled(items), S[Who(tab)])
  BY <1>1, SayOwn
<1>. HIDE DEF S, items
<1>3. OwnTab(tab, form.page, S) /\ OwnForm(form, tab, S) /\ Started(net, login["here"])
  BY <1>2 DEF OwnClient, OwnSession
<1>4. CASE tab.user = None
  <2>. DEFINE answers == Merge(tab.answers, items)
  <2>1. Who(tab) = Guest
    BY <1>4 DEF Who
  <2>2. Told(answers, S[Guest])
    BY <1>1, <1>2, <1>3, <1>4, <2>1, MergeTold DEF OwnTab
  <2>3. /\ store' = GuestStore(answers, tab.groups)
        /\ tab' = [tab EXCEPT !.answers = answers] /\ form' = form
    BY <1>1, <1>4 DEF GuestSubmit, SavedGuest, GuestStore
  <2>4. tab' = GuestTab(answers, tab.groups)
    BY <1>3, <2>3 DEF OwnTab, GuestTab
  <2>. HIDE DEF answers
  <2>5. /\ OwnStore(store', S) /\ store'.token = tab'.token /\ OwnTab(tab', form.page, S)
        /\ OwnNet(net, tab', form.page, S) /\ OwnTimers(timer, tab', form.page, S) /\ OwnForm(form, tab', S)
    <3>1. GuestKeeps(store', tab', answers, S)
      BY <1>1, <1>2, <1>4, <2>2, <2>3, <2>4, GuestOwn
    <3>. QED BY <1>1, <1>3, <3>1 DEF GuestKeeps
  <2>. QED BY <1>1, <1>3, <1>4, <2>3, <2>5 DEF OwnAfter, OwnClient, OwnSession, Undrafted, S
<1>5. CASE tab.user # None
  <2>1. /\ DOMAIN m = MessageFields /\ m.kind = "cell"
        /\ m.token = tab.token /\ m.live /\ m.reply = Unanswered /\ m.items = items
    BY DEF Msg
  <2>. HIDE DEF m
  <2>2. /\ OwnNet(Append(net, m), tab, form.page, S) /\ Started(Append(net, m), login["here"])
        /\ \A n \in DOMAIN Append(net, m) : Append(net, m)[n].kind # "me"
    BY <1>1, <1>2, <1>5, <2>1, SendOwn
  <2>. QED BY <1>1, <1>2, <1>5, <2>2 DEF OwnAfter, OwnClient, OwnSession, Undrafted, S
<1>. QED BY <1>4, <1>5

\* What a form holds is told by its person.
LEMMA DraftTold ==
    ASSUME NEW S, OwnForm(form, tab, S), Drafting(form)
    PROVE  Told(Filled(DraftItems), S[Who(tab)])
<1>. SUFFICES ASSUME NEW i \in DraftItems, i.value # None PROVE <<i.field, i.value>> \in S[Who(tab)]
  BY DEF Told, Filled
<1>1. PICK f \in Scalar : i = [field |-> f, row |-> None, value |-> form.draft[f]]
  BY DEF DraftItems, ItemsOf
<1>2. i.field = f /\ i.value = form.draft[f]
  BY <1>1
<1>. QED BY <1>2 DEF OwnForm

LEMMA SaveFormOwn ==
    ASSUME InTurn, OwnInv, SaveForm
    PROVE  OwnAfter
<1>. DEFINE S == said
            t == [tab EXCEPT !.answers = Merge(@, DraftItems)]
            m == [Msg("save", tab.token) EXCEPT !.items = DraftItems]
<1>1. /\ \A n \in DOMAIN net : net[n].kind # "me"
      /\ UNCHANGED <<login, said>> /\ ~tab.waiting /\ Drafting(form)
      /\ IF tab.user = None
         THEN /\ store' = [store EXCEPT !.guest = SavedGuest(DraftItems, tab.groups)]
              /\ tab' = t
              /\ IF form.page = "form" THEN Show("benefits", t, net)
                 ELSE /\ form' = [Refreshed(form, t) EXCEPT !.evaluated = Evaluated(form, t)]
                      /\ UNCHANGED <<net, timer>>
         ELSE /\ net' = Append(net, m) /\ form' = [form EXCEPT !.saving = TRUE]
              /\ UNCHANGED <<store, tab, timer>>
  BY DEF Checked, InTurn, SaveForm, server, Drafting
<1>2. OwnClient(store, tab, form, timer, net, login["here"], S)
  BY DEF OwnInv
<1>3. OwnTab(tab, form.page, S) /\ OwnForm(form, tab, S) /\ Started(net, login["here"])
  BY <1>2 DEF OwnClient, OwnSession
<1>4. Told(Filled(DraftItems), S[Who(tab)])
  BY <1>1, <1>3, DraftTold
<1>5. CASE tab.user = None
  <2>. DEFINE answers == Merge(tab.answers, DraftItems)
  <2>1. Who(tab) = Guest
    BY <1>5 DEF Who
  <2>2. Told(answers, S[Guest])
    BY <1>3, <1>4, <1>5, <2>1, MergeTold DEF OwnTab
  <2>3. t = GuestTab(answers, tab.groups)
    BY <1>3 DEF OwnTab, GuestTab
  <2>4. store' = GuestStore(answers, tab.groups)
    BY <1>1, <1>5 DEF SavedGuest, GuestStore
  <2>. HIDE DEF answers, t
  <2>5. /\ OwnStore(store', S) /\ store'.token = t.token /\ t.user = None /\ t.answers = answers
        /\ \A pg : OwnTab(t, pg, S) /\ OwnNet(net, t, pg, S)
        /\ OwnTimers(timer, t, form.page, S) /\ OwnForm(form, t, S)
    <3>1. GuestKeeps(store', t, answers, S)
      BY <1>1, <1>2, <1>5, <2>2, <2>3, <2>4, GuestOwn
    <3>. QED BY <1>3, <3>1 DEF GuestKeeps
  <2>6. CASE form.page = "form"
    <3>1. Show("benefits", t, net) /\ tab' = t
      BY <1>1, <1>5, <2>6
    <3>2. OwnSession(t, form', timer', net', S) /\ Started(net', login["here"])
      BY <1>3, <2>5, <3>1, OwnShow
    <3>. QED BY <1>1, <2>5, <3>1, <3>2 DEF OwnAfter, OwnClient
  <2>7. CASE form.page # "form"
    <3>. DEFINE fresh == Refreshed(form, t)
                e == Evaluated(form, t)
    <3>1. form' = [fresh EXCEPT !.evaluated = e] /\ net' = net /\ timer' = timer /\ tab' = t
      BY <1>1, <1>5, <2>7
    <3>. HIDE DEF e
    <3>2. /\ DOMAIN fresh = DOMAIN form /\ fresh.page = form.page /\ fresh.editing = form.editing
          /\ fresh.draft = [f \in Scalar |->
                IF form.page \in {"form", "benefit"} /\ form.draft[f] = None THEN AnswersMap(t)[f] ELSE form.draft[f]]
      BY <1>3 DEF Refreshed, OwnForm
    <3>. HIDE DEF fresh
    <3>3. /\ form'.page = form.page /\ form'.draft = fresh.draft
          /\ DOMAIN form' = DOMAIN form
      BY <1>3, <3>1, <3>2 DEF OwnForm
    <3>4. ASSUME NEW f \in Scalar, form'.draft[f] # None PROVE <<f, form'.draft[f]>> \in S[Who(t)]
      <4>1. form'.draft[f] = AnswersMap(t)[f] \/ form'.draft[f] = form.draft[f]
        BY <3>2, <3>3
      <4>2. Who(t) = Guest
        BY <2>5 DEF Who
      <4>3. form.draft[f] # None => <<f, form.draft[f]>> \in S[Guest]
        BY <1>1, <1>3, <2>1 DEF OwnForm
      <4>. QED
        <5>1. Told(t.answers, S[Guest])
          BY <2>2, <2>5
        <5>2. CASE form'.draft[f] = AnswersMap(t)[f]
          BY <3>4, <4>2, <5>1, <5>2, ShownTold
        <5>3. CASE form'.draft[f] = form.draft[f]
          BY <3>4, <4>2, <4>3, <5>3
        <5>. QED BY <4>1, <5>2, <5>3
    <3>5. OwnForm(form', t, S)
      BY <1>3, <3>2, <3>3, <3>4 DEF OwnForm
    <3>. QED BY <1>1, <1>3, <2>5, <3>1, <3>3, <3>5 DEF OwnAfter, OwnClient, OwnSession, Undrafted
  <2>. QED BY <2>6, <2>7
<1>6. CASE tab.user # None
  <2>1. /\ DOMAIN m = MessageFields /\ m.kind = "save"
        /\ m.token = tab.token /\ m.live /\ m.reply = Unanswered /\ m.items = DraftItems
    BY DEF Msg
  <2>2. /\ net' = Append(net, m) /\ form' = [form EXCEPT !.saving = TRUE]
        /\ UNCHANGED <<store, tab, timer>>
    BY <1>1, <1>6
  <2>. HIDE DEF m
  <2>3. /\ OwnNet(Append(net, m), tab, form.page, S) /\ Started(Append(net, m), login["here"])
        /\ \A n \in DOMAIN Append(net, m) : Append(net, m)[n].kind # "me"
    BY <1>1, <1>2, <1>3, <1>4, <1>6, <2>1, SendOwn
  <2>4. /\ DOMAIN form' = DOMAIN form /\ form'.page = form.page /\ form'.editing = form.editing
        /\ form'.draft = form.draft /\ form'.evaluated = form.evaluated
    BY <1>3, <2>2 DEF OwnForm
  <2>5. OwnForm(form', tab, S)
    BY <1>3, <2>4 DEF OwnForm, Drafting
  <2>. QED BY <1>1, <1>2, <2>2, <2>3, <2>4, <2>5 DEF OwnAfter, OwnClient, OwnSession, Undrafted
<1>. QED BY <1>5, <1>6

\* The cells that show, and other details of the page, do not matter.
LEMMA OwnCells ==
    ASSUME NEW S, NEW t, OwnForm(form, t, S), NEW cells
    PROVE  /\ OwnForm([form EXCEPT !.cells = cells], t, S)
           /\ [form EXCEPT !.cells = cells].page = form.page
<1>. DEFINE fm == [form EXCEPT !.cells = cells]
<1>1. /\ DOMAIN fm = DOMAIN form /\ fm.page = form.page /\ fm.editing = form.editing
      /\ fm.draft = form.draft /\ fm.evaluated = form.evaluated
  BY DEF OwnForm
<1>. HIDE DEF fm
<1>2. OwnForm(fm, t, S)
  BY <1>1 DEF OwnForm, Drafting
<1>. QED BY <1>1, <1>2 DEF fm

LEMMA TypeCellOwn ==
    ASSUME InTurn, OwnInv, NEW r, NEW c, NEW v, TypeCell(r, c, v)
    PROVE  OwnAfter
<1>. DEFINE items == {[field |-> c, row |-> r, value |-> v]}
            S == said'
            x == [row |-> r, field |-> c, value |-> v, token |-> tab.token,
                  guest |-> tab.user = None, groups |-> tab.groups]
            cells == (form.cells \ Shown(form.cells, r, c)) \cup {[row |-> r, field |-> c, value |-> v]}
<1>1. /\ \A n \in DOMAIN net : net[n].kind # "me"
      /\ UNCHANGED <<store, tab, net, login>> /\ Say(items) /\ ~tab.waiting /\ HasRepeater(form.page)
      /\ form' = [form EXCEPT !.cells = cells]
      /\ timer' = {y \in timer : Cell(y.row, y.field) # Cell(r, c)} \cup {x}
  BY DEF Checked, InTurn, TypeCell, server
<1>2. OwnClient(store, tab, form, timer, net, login["here"], S) /\ Told(Filled(items), S[Who(tab)])
  BY <1>1, SayOwn
<1>3. v # None => <<c, v>> \in S[Who(tab)]
  <2>. DEFINE i == [field |-> c, row |-> r, value |-> v]
  <2>1. i.field = c /\ i.value = v /\ (i.value # None => i \in Filled({i}))
    BY DEF Filled
  <2>. QED BY <1>2, <2>1 DEF Told
<1>. HIDE DEF S, cells, items
<1>4. OwnTab(tab, form.page, S) /\ OwnForm(form, tab, S) /\ OwnTimers(timer, tab, form.page, S)
  BY <1>2 DEF OwnClient, OwnSession
<1>5. OwnForm(form', tab, S) /\ form'.page = form.page
  BY <1>1, <1>4, OwnCells
<1>6. /\ x.guest <=> tab.user = None
      /\ ~x.guest => x.token = tab.user
      /\ x.value # None => <<x.field, x.value>> \in S[Who(tab)]
  BY <1>1, <1>3, <1>4 DEF OwnTab
<1>. HIDE DEF x
<1>7. OwnTimers(timer', tab, form.page, S)
  BY <1>1, <1>4, <1>6 DEF OwnTimers
<1>. QED BY <1>1, <1>2, <1>5, <1>7 DEF OwnAfter, OwnClient, OwnSession, Undrafted, S

LEMMA ElapseOwn ==
    ASSUME OwnInv, NEW x, Elapse(x)
    PROVE  OwnAfter
<1>. DEFINE S == said
            items == TimerItems(x)
            m == [Msg("cell", x.token) EXCEPT !.items = items]
            cells == form.cells \ Shown(form.cells, x.row, x.field)
<1>1. /\ UNCHANGED <<login, said>> /\ x \in timer /\ timer' = timer \ {x}
      /\ IF x.guest THEN GuestSubmit(items, x.groups, [form EXCEPT !.cells = cells]) /\ UNCHANGED net
         ELSE net' = Append(net, m) /\ UNCHANGED <<store, tab, form>>
  BY DEF Elapse, server
<1>2. OwnClient(store, tab, form, timer, net, login["here"], S)
  BY DEF OwnInv
<1>3. /\ OwnTab(tab, form.page, S) /\ OwnForm(form, tab, S) /\ Started(net, login["here"])
      /\ OwnTimers(timer, tab, form.page, S) /\ \A n \in DOMAIN net : net[n].kind # "me"
  BY <1>1, <1>2 DEF OwnClient, OwnSession, Undrafted
<1>4. /\ HasRepeater(form.page) /\ ~tab.waiting /\ (x.guest <=> tab.user = None) /\ (~x.guest => x.token = tab.user)
      /\ (x.value # None => <<x.field, x.value>> \in S[Who(tab)])
  BY <1>1, <1>3 DEF OwnTimers
<1>5. Told(Filled(items), S[Who(tab)])
  <2>1. \A i \in items : i.field = x.field /\ i.value = x.value
    BY DEF TimerItems
  <2>. QED BY <1>4, <2>1 DEF Told, Filled
<1>. HIDE DEF items, cells
<1>6. \A t : OwnTimers(timer, t, form.page, S) => OwnTimers(timer', t, form.page, S)
  BY <1>1 DEF OwnTimers
<1>7. CASE x.guest
  <2>. DEFINE answers == Merge(tab.answers, items)
  <2>1. tab.user = None /\ Who(tab) = Guest
    BY <1>4, <1>7 DEF Who
  <2>2. Told(answers, S[Guest])
    BY <1>3, <1>5, <2>1, MergeTold DEF OwnTab
  <2>3. /\ store' = GuestStore(answers, x.groups)
        /\ tab' = [tab EXCEPT !.answers = answers] /\ form' = [form EXCEPT !.cells = cells]
    BY <1>1, <1>7 DEF GuestSubmit, SavedGuest, GuestStore
  <2>4. tab' = GuestTab(answers, tab.groups)
    BY <1>3, <2>3 DEF OwnTab, GuestTab
  <2>. HIDE DEF answers
  <2>5. GuestKeeps(store', tab', answers, S)
    BY <1>2, <1>4, <2>1, <2>2, <2>3, <2>4, GuestOwn
  <2>6. OwnForm(form', tab, S) /\ form'.page = form.page
    BY <1>3, <2>3, OwnCells
  <2>. QED
    BY <1>1, <1>3, <1>6, <1>7, <2>5, <2>6 DEF GuestKeeps, OwnAfter, OwnClient, OwnSession, Undrafted
<1>8. CASE ~x.guest
  <2>1. tab.user # None /\ x.token = tab.token
    BY <1>3, <1>4, <1>8 DEF OwnTab
  <2>2. /\ DOMAIN m = MessageFields /\ m.kind = "cell"
        /\ m.token = tab.token /\ m.live /\ m.reply = Unanswered /\ m.items = items
    BY <2>1 DEF Msg
  <2>3. net' = Append(net, m) /\ UNCHANGED <<store, tab, form>>
    BY <1>1, <1>8
  <2>. HIDE DEF m
  <2>4. /\ OwnNet(Append(net, m), tab, form.page, S) /\ Started(Append(net, m), login["here"])
        /\ \A n \in DOMAIN Append(net, m) : Append(net, m)[n].kind # "me"
    BY <1>2, <1>3, <1>4, <1>5, <2>1, <2>2, SendOwn
  <2>. QED BY <1>1, <1>2, <1>3, <1>6, <2>3, <2>4 DEF OwnAfter, OwnClient, OwnSession, Undrafted
<1>. QED BY <1>7, <1>8

LEMMA HandleAddRowOwn ==
    ASSUME InTurn, OwnInv, HandleAddRow
    PROVE  OwnAfter
<1>. DEFINE S == said
            m == Msg("add", tab.token)
<1>1. /\ \A n \in DOMAIN net : net[n].kind # "me"
      /\ UNCHANGED <<login, said, form, timer>> /\ ~tab.waiting /\ HasRepeater(form.page)
      /\ IF tab.user = None
         THEN /\ \E groups : tab' = [tab EXCEPT !.groups = groups]
                             /\ store' = [store EXCEPT !.guest = [answers |-> tab.answers, groups |-> groups]]
              /\ UNCHANGED net
         ELSE net' = Append(net, m) /\ UNCHANGED <<store, tab>>
  BY DEF Checked, InTurn, HandleAddRow, server
<1>2. OwnClient(store, tab, form, timer, net, login["here"], S)
  BY DEF OwnInv
<1>3. OwnTab(tab, form.page, S) /\ OwnForm(form, tab, S) /\ Started(net, login["here"])
  BY <1>2 DEF OwnClient, OwnSession
<1>4. CASE tab.user = None
  <2>1. PICK groups : /\ tab' = [tab EXCEPT !.groups = groups]
                      /\ store' = [store EXCEPT !.guest = [answers |-> tab.answers, groups |-> groups]]
                      /\ UNCHANGED net
    BY <1>1, <1>4
  <2>2. Told(tab.answers, S[Guest])
    BY <1>3, <1>4 DEF OwnTab, Who
  <2>3. store' = GuestStore(tab.answers, groups) /\ tab' = GuestTab(tab.answers, groups)
    BY <1>3, <2>1 DEF GuestStore, GuestTab, OwnTab
  <2>4. GuestKeeps(store', tab', tab.answers, S)
    BY <1>1, <1>2, <1>4, <2>2, <2>3, GuestOwn
  <2>. QED BY <1>1, <1>3, <2>1, <2>4 DEF GuestKeeps, OwnAfter, OwnClient, OwnSession, Undrafted
<1>5. CASE tab.user # None
  <2>1. /\ DOMAIN m = MessageFields /\ m.kind = "add"
        /\ m.token = tab.token /\ m.live /\ m.reply = Unanswered
    BY DEF Msg
  <2>. HIDE DEF m
  <2>2. /\ OwnNet(Append(net, m), tab, form.page, S) /\ Started(Append(net, m), login["here"])
        /\ \A n \in DOMAIN Append(net, m) : Append(net, m)[n].kind # "me"
    BY <1>1, <1>2, <1>5, <2>1, SendOwn
  <2>. QED BY <1>1, <1>2, <1>5, <2>2 DEF OwnAfter, OwnClient, OwnSession, Undrafted
<1>. QED BY <1>4, <1>5

LEMMA HandleDeleteRowOwn ==
    ASSUME InTurn, OwnInv, NEW r, HandleDeleteRow(r)
    PROVE  OwnAfter
<1>. DEFINE S == said
            m == [Msg("remove", tab.token) EXCEPT !.row = r]
            cells == {x \in form.cells : x.row # r}
<1>1. /\ \A n \in DOMAIN net : net[n].kind # "me"
      /\ UNCHANGED <<login, said>> /\ ~tab.waiting /\ HasRepeater(form.page)
      /\ timer' \subseteq timer /\ form' = [form EXCEPT !.cells = cells]
      /\ IF tab.user = None
         THEN /\ tab' = WithoutRow(tab, r)
              /\ store' = [store EXCEPT !.guest = [answers |-> tab'.answers, groups |-> tab'.groups]]
              /\ UNCHANGED net
         ELSE net' = Append(net, m) /\ UNCHANGED <<store, tab>>
  BY DEF Checked, InTurn, HandleDeleteRow, server
<1>2. OwnClient(store, tab, form, timer, net, login["here"], S)
  BY DEF OwnInv
<1>3. /\ OwnTab(tab, form.page, S) /\ OwnForm(form, tab, S) /\ Started(net, login["here"])
      /\ OwnTimers(timer, tab, form.page, S)
  BY <1>2 DEF OwnClient, OwnSession
<1>. HIDE DEF cells
<1>4. \A t : OwnTimers(timer, t, form.page, S) => OwnTimers(timer', t, form.page, S)
  <2>1. timer' # {} => timer # {}
    BY <1>1
  <2>. QED BY <1>1, <2>1 DEF OwnTimers
<1>5. OwnForm(form', tab, S) /\ form'.page = form.page
  BY <1>1, <1>3, OwnCells
<1>6. CASE tab.user = None
  <2>. DEFINE answers == {i \in tab.answers : i.row # r}
  <2>1. /\ \E g : tab' = [tab EXCEPT !.groups = g, !.answers = answers]
        /\ store' = [store EXCEPT !.guest = [answers |-> tab'.answers, groups |-> tab'.groups]]
        /\ UNCHANGED net
    BY <1>1, <1>6 DEF WithoutRow
  <2>2. Told(answers, S[Guest])
    BY <1>3, <1>6 DEF OwnTab, Who, Told
  <2>. HIDE DEF answers
  <2>3. PICK g : tab' = [tab EXCEPT !.groups = g, !.answers = answers]
    BY <2>1
  <2>4. tab' = GuestTab(answers, g) /\ tab'.answers = answers
    BY <1>3, <2>3 DEF GuestTab, OwnTab
  <2>5. store' = GuestStore(answers, tab'.groups)
    BY <2>1, <2>4 DEF GuestStore
  <2>6. GuestKeeps(store', tab', answers, S)
    BY <1>1, <1>2, <1>6, <2>2, <2>4, <2>5, GuestOwn
  <2>. QED
    BY <1>1, <1>3, <1>4, <1>5, <2>1, <2>6 DEF GuestKeeps, OwnAfter, OwnClient, OwnSession, Undrafted
<1>7. CASE tab.user # None
  <2>1. /\ DOMAIN m = MessageFields /\ m.kind = "remove"
        /\ m.token = tab.token /\ m.live /\ m.reply = Unanswered
    BY DEF Msg
  <2>. HIDE DEF m
  <2>2. /\ OwnNet(Append(net, m), tab, form.page, S) /\ Started(Append(net, m), login["here"])
        /\ \A n \in DOMAIN Append(net, m) : Append(net, m)[n].kind # "me"
    BY <1>1, <1>2, <1>7, <2>1, SendOwn
  <2>. QED BY <1>1, <1>2, <1>3, <1>4, <1>5, <1>7, <2>2 DEF OwnAfter, OwnClient, OwnSession, Undrafted
<1>. QED BY <1>6, <1>7

-----------------------------------------------------------------------------
(* What the server does of it *)

\* A reply changes nothing else of the client.
LEMMA ReplyOwn ==
    ASSUME OwnInv, NEW n \in DOMAIN net, NEW r, Reply(n, r), r # Unanswered \/ net[n].reply = Unanswered,
           UNCHANGED <<store, tab, form, timer, said>>,
           login'["here"] = None
           \/ (login'["here"] = login["here"]
               /\ (login["here"] # None => net[n].kind # "login" \/ net[n].reply # Unanswered)),
           r.ok => /\ net[n].kind \in {"answers", "save", "cell"} => Told(r.got, said[net[n].token])
                   /\ net[n].kind # "login"
    PROVE  OwnAfter
<1>1. OwnClient(store, tab, form, timer, net, login["here"], said)
  BY DEF OwnInv
<1>2. OwnNet(net, tab, form.page, said) /\ Started(net, login["here"]) /\ Undrafted(form, timer, net)
  BY <1>1 DEF OwnClient, OwnSession
<1>3. net' = [net EXCEPT ![n].reply = r]
  BY DEF Reply
<1>4. OwnNet(net', tab, form.page, said) /\ Undrafted(form, timer, net')
  BY <1>2, <1>3, OwnReply
<1>5. Started(net', login'["here"])
  <2>1. CASE login'["here"] = None
    BY <2>1 DEF Started
  <2>2. CASE login'["here"] # None
    BY <1>2, <1>3, <2>2, StartedReply
  <2>. QED BY <2>1, <2>2
<1>. QED BY <1>1, <1>4, <1>5 DEF OwnAfter, OwnClient, OwnSession

LEMMA ReplyKinds ==
    /\ Refused.ok = FALSE /\ Refused # Unanswered
    /\ \A got : Yes(got).ok = TRUE /\ Yes(got).got = got /\ Yes(got) # Unanswered
BY DEF Refused, Yes, Unanswered

LEMMA ServeReadOwn ==
    ASSUME OwnInv, NEW n \in DOMAIN net, ServeRead(n)
    PROVE  OwnAfter
<1>. DEFINE m == net[n]
<1>1. /\ m.reply = Unanswered /\ m.kind \in {"me", "answers", "rows"} /\ UNCHANGED <<store, tab, form, timer, said, login>>
      /\ Reply(n, IF ~Authorized(m.token) THEN Refused
                  ELSE CASE m.kind = "me" -> Yes(None)
                         [] m.kind = "answers" -> Yes(AnswersOf(m.token))
                         [] OTHER -> Yes(RowsOf(m.token, Rep)))
  BY DEF ServeRead, server
<1>2. m.kind = "answers" => m.token \in Account
  BY <1>1 DEF OwnInv, OwnClient, OwnSession, OwnNet, OwnMessage, OwnTab
<1>3. m.kind = "answers" => Told(AnswersOf(m.token), said[m.token])
  BY <1>2, AnswersTold DEF OwnInv, OwnBook, AnswersOf
<1>4. PICK r : /\ Reply(n, r)
               /\ r = Refused \/ \E got : r = Yes(got) /\ (m.kind = "answers" => got = AnswersOf(m.token))
  BY <1>1
<1>5. r.ok => (m.kind \in {"answers", "save", "cell"} => Told(r.got, said[m.token])) /\ m.kind # "login"
  BY <1>1, <1>3, <1>4, ReplyKinds
<1>. QED BY <1>1, <1>4, <1>5, ReplyOwn

\* A write of an account adds to its book what the account said.
LEMMA ServeWriteOwn ==
    ASSUME OwnInv, NEW n \in DOMAIN net, ServeWrite(n)
    PROVE  OwnAfter /\ OwnBook(answer', rows', said')
<1>. DEFINE m == net[n]
            u == m.token
<1>1. m.reply = Unanswered /\ m.kind \in {"save", "cell", "add", "remove"} /\ UNCHANGED <<store, tab, form, timer, said, login>>
  BY DEF ServeWrite
<1>2. u \in Account /\ (m.kind \in {"save", "cell"} => Told(Filled(m.items), said[u])) /\ OwnBook(answer, rows, said)
  BY <1>1 DEF OwnInv, OwnClient, OwnSession, OwnNet, OwnMessage
<1>3. \/ Reply(n, Refused) /\ UNCHANGED <<answer, rows>>
      \/ m.kind \in {"save", "cell"} /\ Book!Save(u, m.items) /\ Reply(n, Yes(AnswersIn(answer'[u], rows'[u])))
      \/ m.kind = "add" /\ Book!AddRow(u, Rep, NewRow) /\ Reply(n, Yes(NewRow))
      \/ m.kind = "remove" /\ Book!DeleteRow(u, Rep, m.row) /\ Reply(n, Yes(None))
  BY <1>1 DEF ServeWrite
<1>4. OwnBook(answer', rows', said)
  <2>1. CASE UNCHANGED <<answer, rows>>
    BY <1>2, <2>1
  <2>2. CASE m.kind \in {"save", "cell"} /\ Book!Save(u, m.items)
    BY <1>2, <2>2, SaveOwn
  <2>3. CASE Book!AddRow(u, Rep, NewRow)
    BY <1>2, <2>3, AddRowOwn
  <2>4. CASE Book!DeleteRow(u, Rep, m.row)
    BY <1>2, <2>4, DeleteRowOwn
  <2>. QED BY <1>3, <2>1, <2>2, <2>3, <2>4
<1>5. Told(AnswersIn(answer'[u], rows'[u]), said[u])
  BY <1>2, <1>4, AnswersTold DEF OwnBook
<1>6. PICK r : /\ Reply(n, r)
               /\ \/ r = Refused
                  \/ \E got : r = Yes(got)
                              /\ (m.kind \in {"save", "cell"} => got = AnswersIn(answer'[u], rows'[u]))
  BY <1>3
<1>7. r.ok => (m.kind \in {"answers", "save", "cell"} => Told(r.got, said[u])) /\ m.kind # "login"
  BY <1>1, <1>5, <1>6, ReplyKinds
<1>8. OwnAfter
  BY <1>1, <1>6, <1>7, ReplyOwn
<1>. QED BY <1>1, <1>4, <1>8

LEMMA LoseOwn ==
    ASSUME OwnInv, NEW n \in DOMAIN net, Lose(n)
    PROVE  OwnAfter
<1>1. /\ net[n].kind = "login" => login["here"] = None
      /\ Reply(n, Refused) /\ UNCHANGED <<store, tab, form, timer, said, login>>
  BY DEF Lose, server
<1>. QED BY <1>1, ReplyKinds, ReplyOwn

\* What eGov vouches for is said by the account that signed in.
LEMMA VouchOwn ==
    ASSUME OwnInv, NEW b, NEW a \in Account, Vouch(b, a)
    PROVE  /\ OwnClient(store, tab, form, timer, net, login["here"], said')
           /\ OwnBook(answer, rows, said') /\ DOMAIN said' = Account \cup {Guest}
           /\ login[b].by.via = "egov" => ProfileTold(login[b].by.profile, said'[a])
<1>1. DOMAIN said = Account \cup {Guest}
  BY DEF OwnInv
<1>2. /\ DOMAIN said' = Account \cup {Guest} /\ \A w \in Account \cup {Guest} : said[w] \subseteq said'[w]
      /\ login[b].by.via = "egov" => ProfileTold(login[b].by.profile, said'[a])
  BY <1>1 DEF Vouch, ProfileTold
<1>3. OwnClient(store, tab, form, timer, net, login["here"], said')
  BY <1>2, OwnWidens DEF OwnInv
<1>4. OwnBook(answer, rows, said')
  BY <1>2, OwnBookWidens DEF OwnInv
<1>. QED BY <1>2, <1>3, <1>4

\* The sign-in that ends leaves the account no other answers than what it said, or
\* what eGov vouched for.
LEMMA FinishOwn ==
    ASSUME OwnInv, NEW b, NEW a \in Account, FinishLogin(b, a), Vouch(b, a)
    PROVE  OwnBook(answer', rows', said')
<1>. DEFINE i == login[b].by
<1>1. OwnBook(answer, rows, said') /\ (i.via = "egov" => ProfileTold(i.profile, said'[a]))
  BY VouchOwn
<1>2. (i.via = "egov" /\ Sync(i, a)) \/ UNCHANGED <<answer, rows>>
  BY DEF FinishLogin
<1>3. CASE i.via = "egov" /\ Sync(i, a)
  <2>. DEFINE items(done) == {[field |-> f, row |-> None, value |-> i.profile[f]] : f \in done}
  <2>1. PICK done \in SUBSET {f \in EgovField : i.profile[f] # None} : Book!Save(a, items(done))
    BY <1>3 DEF Sync
  <2>2. \A x \in items(done) : \E f \in EgovField : i.profile[f] # None /\ x.field = f /\ x.value = i.profile[f]
    BY <2>1
  <2>3. Told(Filled(items(done)), said'[a])
    BY <1>1, <1>3, <2>2 DEF Told, Filled, ProfileTold
  <2>. HIDE DEF items
  <2>. QED BY <1>1, <2>1, <2>3, SaveOwn
<1>4. CASE UNCHANGED <<answer, rows>>
  BY <1>1, <1>4
<1>. QED BY <1>2, <1>3, <1>4

LEMMA ServeLoginOwn ==
    ASSUME InTurn, SignInType, OwnInv, NEW n \in DOMAIN net, ServeLogin(n)
    PROVE  OwnAfter /\ OwnBook(answer', rows', said') /\ DOMAIN said' = Account \cup {Guest}
<1>. DEFINE m == net[n]
<1>1. /\ UNCHANGED <<store, tab, form, timer>> /\ m.reply = Unanswered /\ m.kind = "login"
      /\ \A k \in 1 .. n - 1 : net[k].reply # Unanswered
      /\ \/ /\ login["here"] = None /\ UNCHANGED <<net, said>>
            /\ \E i \in Identity : m.by = i /\ FindAccount("here", i)
         \/ /\ login["here"] # None
            /\ \E a \in Account :
                  /\ FinishLogin("here", a) /\ Vouch("here", a)
                  /\ Reply(n, IF account'[a].status = "active" THEN Yes(a) ELSE Refused)
         \/ LoginFails("here") /\ Reply(n, Refused) /\ UNCHANGED said
  BY DEF ServeLogin, Next1, InTurn
<1>2. /\ OwnClient(store, tab, form, timer, net, login["here"], said)
      /\ OwnBook(answer, rows, said) /\ DOMAIN said = Account \cup {Guest}
  BY DEF OwnInv
<1>3. DOMAIN login = Browser /\ "here" \in Browser
  BY BrowserAssumption DEF SignInType
<1>4. ASSUME NEW i \in Identity, m.by = i, FindAccount("here", i), UNCHANGED <<net, said>>
      PROVE  OwnAfter /\ OwnBook(answer', rows', said')
  <2>1. login'["here"].by = i /\ UNCHANGED <<answer, rows>>
    BY <1>3, <1>4 DEF FindAccount
  <2>2. Started(net', login'["here"])
    BY <1>1, <1>4, <2>1 DEF Started
  <2>. QED BY <1>1, <1>2, <1>4, <2>1, <2>2 DEF OwnAfter, OwnClient
<1>5. ASSUME login["here"] # None, NEW a \in Account, FinishLogin("here", a), Vouch("here", a),
             Reply(n, IF account'[a].status = "active" THEN Yes(a) ELSE Refused)
      PROVE  OwnAfter /\ OwnBook(answer', rows', said') /\ DOMAIN said' = Account \cup {Guest}
  <2>. DEFINE S == said'
              r == IF account'[a].status = "active" THEN Yes(a) ELSE Refused
  <2>1. /\ OwnClient(store, tab, form, timer, net, login["here"], S) /\ DOMAIN S = Account \cup {Guest}
        /\ login["here"].by.via = "egov" => ProfileTold(login["here"].by.profile, S[a])
    BY <1>5, VouchOwn
  <2>2. OwnBook(answer', rows', S)
    BY <1>5, FinishOwn
  <2>3. login'["here"] = None
    BY <1>3, <1>5 DEF FinishLogin
  <2>. HIDE DEF S
  <2>4. OwnNet(net, tab, form.page, S) /\ Started(net, login["here"]) /\ Undrafted(form, timer, net)
    BY <2>1 DEF OwnClient, OwnSession
  <2>5. m.by = login["here"].by
    <3>1. PICK k \in DOMAIN net : /\ net[k].kind = "login" /\ net[k].reply = Unanswered /\ net[k].by = login["here"].by
                                  /\ \A j \in 1 .. k - 1 : net[j].reply # Unanswered
      BY <1>5, <2>4 DEF Started
    <3>2. Len(net) \in Nat /\ DOMAIN net = 1 .. Len(net)
      BY <2>4, LenProperties DEF OwnNet, IsList
    <3>3. k \in Nat /\ n \in Nat /\ k >= 1 /\ n >= 1
      BY <3>2
    <3>4. k = n
      BY <1>1, <3>1, <3>3
    <3>. QED BY <3>1, <3>4
  <2>6. r.ok => r.got \in Account /\ (m.by.via = "egov" => ProfileTold(m.by.profile, S[r.got]))
    BY <2>1, <2>5, ReplyKinds
  <2>7. net' = [net EXCEPT ![n].reply = r]
    BY <1>5 DEF Reply
  <2>. HIDE DEF r
  <2>8. OwnNet(net', tab, form.page, S) /\ Undrafted(form, timer, net')
    BY <1>1, <2>4, <2>6, <2>7, OwnReply
  <2>9. Started(net', login'["here"])
    BY <2>3 DEF Started
  <2>. QED BY <1>1, <2>1, <2>2, <2>8, <2>9 DEF OwnAfter, OwnClient, OwnSession, S
<1>6. ASSUME LoginFails("here"), Reply(n, Refused), UNCHANGED said
      PROVE  OwnAfter /\ OwnBook(answer', rows', said')
  <2>1. login'["here"] = None /\ UNCHANGED <<answer, rows>>
    BY <1>3, <1>6 DEF LoginFails
  <2>. QED BY <1>1, <1>2, <1>6, <2>1, ReplyKinds, ReplyOwn
<1>. QED BY <1>1, <1>2, <1>4, <1>5, <1>6

\* What happens on another device is said there by the account's owner, or by eGov.
LEMMA ElsewhereOwn ==
    ASSUME SignInType, OwnInv, Elsewhere
    PROVE  OwnAfter /\ OwnBook(answer', rows', said') /\ DOMAIN said' = Account \cup {Guest}
<1>1. /\ UNCHANGED <<store, tab, form, timer, net>>
      /\ \/ \E i \in Identity : FindAccount("elsewhere", i) /\ UNCHANGED said
         \/ \E a \in Account : FinishLogin("elsewhere", a) /\ Vouch("elsewhere", a)
         \/ LoginFails("elsewhere") /\ UNCHANGED said
  BY DEF Elsewhere
<1>2. /\ OwnClient(store, tab, form, timer, net, login["here"], said)
      /\ OwnBook(answer, rows, said) /\ DOMAIN said = Account \cup {Guest}
  BY DEF OwnInv
<1>3. login'["here"] = login["here"]
  <2>1. \E x : login' = [login EXCEPT !["elsewhere"] = x]
    BY <1>1 DEF FindAccount, FinishLogin, LoginFails
  <2>2. DOMAIN login = Browser /\ "here" \in Browser
    BY BrowserAssumption DEF SignInType
  <2>. QED BY <2>1, <2>2
<1>4. CASE UNCHANGED said /\ UNCHANGED <<answer, rows>>
  BY <1>1, <1>2, <1>3, <1>4 DEF OwnAfter
<1>5. ASSUME NEW a \in Account, FinishLogin("elsewhere", a), Vouch("elsewhere", a)
      PROVE  OwnAfter /\ OwnBook(answer', rows', said') /\ DOMAIN said' = Account \cup {Guest}
  <2>1. OwnClient(store, tab, form, timer, net, login["here"], said') /\ DOMAIN said' = Account \cup {Guest}
    BY <1>5, VouchOwn
  <2>2. OwnBook(answer', rows', said')
    BY <1>5, FinishOwn
  <2>. QED BY <1>1, <1>3, <2>1, <2>2 DEF OwnAfter
<1>. QED BY <1>1, <1>2, <1>4, <1>5 DEF FindAccount, LoginFails

\* An answer that arrives says nothing new.
LEMMA DeliverSaid == ASSUME OwnInv, NEW n \in DOMAIN net, Deliver(n) PROVE said' = said
<1>. DEFINE m == net[n]
<1>1. OwnMessage(m, tab, form.page, said)
  BY DEF OwnInv, OwnClient, OwnSession, OwnNet
<1>2. m.kind \in {"me", "save", "cell", "login", "answers", "rows", "add", "remove"}
  BY <1>1 DEF OwnMessage, IsWrite
<1>. HIDE DEF m
<1>. QED BY <1>2 DEF Deliver, m, SessionChecked, SaveEnded, CellEnded, ApplyLogin

LEMMA InitOwn == Init => OwnInv
<1>. SUFFICES ASSUME Init PROVE OwnInv
  OBVIOUS
<1>1. /\ Book!Init /\ login = [b \in Browser |-> None]
      /\ store = [token |-> None, profile |-> None, guest |-> NoAnswers]
      /\ tab = [Fresh(store) EXCEPT !.loading = FALSE] /\ form = Mounted("home", tab)
      /\ timer = {} /\ net = <<>> /\ said = [w \in Account \cup {Guest} |-> {}]
  BY DEF Init, ServerInit
<1>2. OwnStore(store, said)
  BY <1>1 DEF OwnStore, NoAnswers, Told
<1>3. /\ DOMAIN tab = TabFields
      /\ tab.token = None /\ tab.user = None /\ tab.waiting = FALSE /\ tab.profile = None /\ tab.answers = {}
  BY <1>1 DEF Fresh
<1>4. OwnTab(tab, "home", said)
  BY <1>3 DEF OwnTab, Told
<1>5. /\ form.page = "home" /\ ~form.editing
      /\ DOMAIN form = FormFields
      /\ DOMAIN form.draft = Scalar
  BY <1>1 DEF Mounted
<1>6. OwnForm(form, tab, said)
  BY <1>5 DEF OwnForm, Drafting
<1>7. OwnTimers(timer, tab, "home", said)
  BY <1>1 DEF OwnTimers
<1>8. OwnNet(net, tab, "home", said) /\ Undrafted(form, timer, net)
  <2>1. IsList(net) /\ DOMAIN net = {}
    BY <1>1 DEF IsList
  <2>. QED BY <2>1 DEF OwnNet, InLine, Undrafted
<1>9. Started(net, login["here"])
  BY <1>1, BrowserAssumption DEF Started
<1>10. OwnBook(answer, rows, said)
  <2>1. /\ answer = [u \in Account |-> [f \in Scalar |-> None]]
        /\ rows = [u \in Account |-> [f \in Repeater |-> <<>>]]
    BY <1>1 DEF Book!Init
  <2>2. \A a \in Account : DOMAIN answer[a] = Scalar /\ \A f \in Scalar : answer[a][f] = None
    BY <2>1
  <2>3. \A a \in Account : DOMAIN rows[a] = Repeater /\ \A f \in Repeater : rows[a][f] = <<>>
    BY <2>1
  <2>4. IsList(<<>>) /\ DOMAIN <<>> = {}
    BY DEF IsList
  <2>. QED BY <2>1, <2>2, <2>3, <2>4 DEF OwnBook, BookTold
<1>. QED
  BY <1>1, <1>2, <1>3, <1>4, <1>5, <1>6, <1>7, <1>8, <1>9, <1>10 DEF OwnInv, OwnClient, OwnSession

\* Every step of the person, the tab and the server.
LEMMA NextOwn == ASSUME InTurn, SignInType, OwnInv, [Next]_vars PROVE OwnInv'
<1>. DEFINE Stays == UNCHANGED <<answer, rows>> /\ DOMAIN said' = Account \cup {Guest}
                    /\ \A a \in Account : said'[a] = said[a]
            Kept == OwnBook(answer', rows', said') /\ DOMAIN said' = Account \cup {Guest}
<1>1. OwnBook(answer, rows, said) /\ DOMAIN said = Account \cup {Guest}
  BY DEF OwnInv
<1>2. Stays => Kept
  BY <1>1, OwnBookWidens
<1>3. UNCHANGED <<answer, rows, said>> => Kept
  BY <1>1
<1>4. ASSUME NEW items, Say(items), UNCHANGED <<answer, rows>> PROVE Kept
  BY <1>4, SayOwn
<1>. HIDE DEF Stays, Kept
<1>5. CASE UNCHANGED vars
  <2>1. /\ UNCHANGED <<store, tab, form, timer, net, said>> /\ UNCHANGED <<account, login, home, answer, rows>>
    BY <1>5 DEF vars, client, server
  <2>. QED BY <1>3, <2>1 DEF OwnInv, Kept
<1>6. ASSUME OwnAfter, Kept PROVE OwnInv'
  BY <1>6 DEF OwnAfter, OwnInv, Kept
<1>7. CASE Reload
  BY <1>3, <1>6, <1>7, ReloadOwn DEF Reload, server
<1>8. CASE Logout
  <2>1. said' = [said EXCEPT ![Guest] = {}] /\ UNCHANGED <<answer, rows>>
    BY <1>8 DEF Logout, server
  <2>2. Stays
    BY <1>1, <2>1, BrowserAssumption DEF Stays
  <2>. QED BY <1>2, <1>6, <1>8, <2>2, LogoutOwn
<1>9. CASE StartEditing \/ CancelEditing
  <2>1. UNCHANGED <<answer, rows, said>>
    BY <1>9 DEF StartEditing, CancelEditing, server
  <2>. QED BY <1>3, <1>6, <1>9, <2>1, EditingOwn
<1>10. CASE SaveForm
  <2>1. UNCHANGED <<answer, rows, said>>
    BY <1>10 DEF SaveForm, server
  <2>. QED BY <1>3, <1>6, <1>10, <2>1, SaveFormOwn
<1>11. CASE HandleAddRow
  <2>1. UNCHANGED <<answer, rows, said>>
    BY <1>11 DEF HandleAddRow, server
  <2>. QED BY <1>3, <1>6, <1>11, <2>1, HandleAddRowOwn
<1>12. ASSUME NEW p, Visit(p) PROVE OwnInv'
  <2>1. UNCHANGED <<answer, rows, said>>
    BY <1>12 DEF Visit, server
  <2>. QED BY <1>3, <1>6, <1>12, <2>1, VisitOwn
<1>13. ASSUME NEW i, SendLogin(i) PROVE OwnInv'
  <2>1. UNCHANGED <<answer, rows, said>>
    BY <1>13 DEF SendLogin, server
  <2>. QED BY <1>3, <1>6, <1>13, <2>1, SendLoginOwn
<1>14. ASSUME NEW f \in Scalar, NEW v, Typing(f, v) \/ TypeAnswered(f, v) PROVE OwnInv'
  <2>1. UNCHANGED <<answer, rows>> /\ \E items : Say(items)
    BY <1>14 DEF Typing, TypeAnswered, server
  <2>. QED BY <1>4, <1>6, <1>14, <2>1, TypingOwn, TypeAnsweredOwn
<1>15. ASSUME NEW r, NEW c, NEW v, TypeCell(r, c, v) PROVE OwnInv'
  <2>1. UNCHANGED <<answer, rows>> /\ \E items : Say(items)
    BY <1>15 DEF TypeCell, server
  <2>. QED BY <1>4, <1>6, <1>15, <2>1, TypeCellOwn
<1>16. ASSUME NEW x, Elapse(x) PROVE OwnInv'
  <2>1. UNCHANGED <<answer, rows, said>>
    BY <1>16 DEF Elapse, server
  <2>. QED BY <1>3, <1>6, <1>16, <2>1, ElapseOwn
<1>17. ASSUME NEW r, HandleDeleteRow(r) PROVE OwnInv'
  <2>1. UNCHANGED <<answer, rows, said>>
    BY <1>17 DEF HandleDeleteRow, server
  <2>. QED BY <1>3, <1>6, <1>17, <2>1, HandleDeleteRowOwn
<1>18. ASSUME NEW n \in DOMAIN net, ServeRead(n) \/ Lose(n) PROVE OwnInv'
  <2>1. UNCHANGED <<answer, rows, said>>
    BY <1>18 DEF ServeRead, Lose, server
  <2>. QED BY <1>3, <1>6, <1>18, <2>1, ServeReadOwn, LoseOwn
<1>19. ASSUME NEW n \in DOMAIN net, Deliver(n) PROVE OwnInv'
  <2>1. UNCHANGED <<answer, rows>>
    BY <1>19 DEF Deliver, server
  <2>2. said' = said
    BY <1>19, DeliverSaid
  <2>. QED BY <1>3, <1>6, <1>19, <2>1, <2>2, DeliverOwn
<1>20. ASSUME NEW n \in DOMAIN net, ServeWrite(n) PROVE OwnInv'
  <2>1. UNCHANGED said
    BY <1>20 DEF ServeWrite
  <2>. QED BY <1>1, <1>6, <1>20, <2>1, ServeWriteOwn DEF Kept
<1>21. ASSUME NEW n \in DOMAIN net, ServeLogin(n) PROVE OwnInv'
  BY <1>6, <1>21, ServeLoginOwn DEF Kept
<1>22. CASE Elsewhere
  BY <1>6, <1>22, ElsewhereOwn DEF Kept
<1>23. CASE CloseAccount
  <2>1. /\ UNCHANGED <<store, tab, form, timer, net, said>> /\ UNCHANGED <<login, answer, rows>>
    BY <1>23 DEF CloseAccount, Close, client
  <2>2. OwnAfter
    BY <2>1 DEF OwnAfter, OwnInv
  <2>. QED BY <1>3, <1>6, <2>1, <2>2
<1>. QED
  BY <1>5, <1>7, <1>8, <1>9, <1>10, <1>11, <1>12, <1>13, <1>14, <1>15, <1>16, <1>17, <1>18, <1>19,
     <1>20, <1>21, <1>22, <1>23 DEF Next

LEMMA OwnAlways == ASSUME InTurn PROVE Spec => [](SignInInv /\ OwnInv)
<1>1. Init => SignInInv /\ OwnInv
  BY InitSignIn, InitOwn
<1>2. (SignInInv /\ OwnInv) /\ [Next]_vars => (SignInInv /\ OwnInv)'
  BY NextSignIn, NextOwn DEF SignInInv
<1>. QED BY <1>1, <1>2, PTL DEF Spec

\* An account holds only what its owner or eGov said of him, and the browser only what
\* its guest said since the last logout (OwnWords): whatever the accounts, the fields
\* and the number of edits, sign-ins, reloads and lost requests, if the requests are
\* served in the order sent and the person waits for what was sent before moving on
\* (auth.tsx:70-155, answers-store.tsx:70-160, auth.service.ts:58-158).
THEOREM OwnWordsAlways == ASSUME InOrder, Settled, Patient PROVE Spec => []OwnWords
<1>1. OwnInv => OwnWords
  <2>. SUFFICES ASSUME OwnInv PROVE OwnWords
    OBVIOUS
  <2>1. ASSUME NEW a \in Account, NEW i \in AnswersOf(a) PROVE <<i.field, i.value>> \in said[a]
    <3>1. Told(AnswersOf(a), said[a])
      BY AnswersTold DEF OwnInv, OwnBook, AnswersOf
    <3>. QED BY <3>1 DEF Told
  <2>2. \A i \in store.guest.answers : <<i.field, i.value>> \in said[Guest]
    BY DEF OwnInv, OwnClient, OwnStore, Told
  <2>. QED BY <2>1, <2>2 DEF OwnWords
<1>2. Spec => [](SignInInv /\ OwnInv)
  BY OwnAlways DEF InTurn
<1>. QED BY <1>1, <1>2, PTL

-----------------------------------------------------------------------------
(* What a guest is listed *)

CountShape == DOMAIN count = {"edits", "moves", "lost", "ended"}
Listed(t, fm) ==
    fm.page = "benefits" /\ t.user = None /\ fm.evaluated # None => fm.evaluated = AnswersMap(t)
ListInv == CountShape /\ ListIsCurrent

\* A list that opens is evaluated from the answers there are, or not yet.
LEMMA ShowListed == ASSUME NEW p, NEW t, NEW q, Show(p, t, q) PROVE Listed(t, form')
<1>. DEFINE fm(page) == Mounted(page, t)
<1>1. PICK page \in Landings(p, t) : form' = [fm(page) EXCEPT !.evaluated = Evaluated(fm(page), t)]
  BY DEF Show
<1>2. form'.page = page /\ form'.evaluated = Evaluated(fm(page), t) /\ fm(page).page = page /\ fm(page).evaluated = None
  BY <1>1 DEF Mounted
<1>. QED BY <1>2 DEF Listed, Evaluated

\* One that stays is evaluated again when the answers have loaded.
LEMMA KeepListed ==
    ASSUME NEW fm, NEW t, NEW q, Keep(fm, t, q), (tab.loading /\ ~t.loading) \/ t.user # None,
           DOMAIN fm = FormFields
    PROVE  Listed(t, form')
<1>. DEFINE known == IF t.token # tab.token THEN [fm EXCEPT !.captured = AnswersMap(tab)] ELSE fm
            fresh == Refreshed(known, t)
<1>1. CASE \E p \in Landings(fm.page, t) \ {fm.page} : Show(p, t, q)
  BY <1>1, ShowListed
<1>2. CASE t.user # None
  BY <1>2 DEF Listed
<1>3. CASE tab.loading /\ ~t.loading /\ t.user = None /\ form' = [fresh EXCEPT !.evaluated = Evaluated(known, t)]
  <2>1. known.page = fm.page /\ DOMAIN known = DOMAIN fm
    OBVIOUS
  <2>2. fresh.page = known.page /\ DOMAIN fresh = DOMAIN known
    BY <2>1 DEF Refreshed
  <2>. HIDE DEF known, fresh
  <2>3. form'.page = known.page /\ form'.evaluated = Evaluated(known, t)
    BY <1>3, <2>1, <2>2
  <2>. QED BY <1>3, <2>3 DEF Listed, Evaluated
<1>. QED BY <1>1, <1>2, <1>3 DEF Keep

LEMMA ReloadListed == ASSUME Reload PROVE Listed(tab', form')
<1>. DEFINE t0 == Fresh(store)
            t == IF t0.waiting THEN t0
                 ELSE [t0 EXCEPT !.answers = store.guest.answers, !.groups = store.guest.groups,
                                 !.loading = FALSE]
            f0 == Mounted(form.page, t0)
            fm == [f0 EXCEPT !.evaluated = Evaluated(f0, t0)]
            fresh == Refreshed(fm, t)
<1>1. /\ tab' = t
      /\ \/ t0.waiting /\ form' = fm
         \/ \E p : form' = Mounted(p, t)
         \/ ~t0.waiting /\ form' = [fresh EXCEPT !.evaluated = Evaluated(fm, t)]
  BY Zenon DEF Reload
<1>2. t0.loading /\ t0.user = None
  BY DEF Fresh
<1>3. t.user = None /\ (~t0.waiting => ~t.loading)
  BY DEF Fresh
<1>4. fm.page = form.page /\ fm.evaluated = None /\ fresh.page = form.page
      /\ DOMAIN fresh = FormFields
  BY <1>2 DEF Mounted, Evaluated, Refreshed
<1>. HIDE DEF t0, t, f0, fm, fresh
<1>5. ASSUME NEW p, form' = Mounted(p, t) PROVE form'.evaluated = None
  BY <1>5 DEF Mounted
<1>6. CASE ~t0.waiting /\ form' = [fresh EXCEPT !.evaluated = Evaluated(fm, t)]
  <2>1. form'.page = form.page /\ form'.evaluated = Evaluated(fm, t)
    BY <1>4, <1>6
  <2>. QED BY <1>1, <1>3, <1>4, <1>6, <2>1 DEF Listed, Evaluated
<1>. QED BY <1>1, <1>4, <1>5, <1>6 DEF Listed

LEMMA DeliverListed ==
    ASSUME OwnInv, ListInv, NEW n \in DOMAIN net, Deliver(n)
    PROVE  ListIsCurrent' /\ CountShape'
<1>. DEFINE m == net[n]
            q == RemoveAt(net, n)
            ends == m.kind = "me" /\ m.live /\ ~m.reply.ok /\ ~tab.waiting /\ ~tab.loading
<1>1. /\ OwnMessage(m, tab, form.page, said)
      /\ DOMAIN tab = TabFields
      /\ DOMAIN form = FormFields
      /\ tab.waiting => tab.loading
  BY DEF OwnInv, OwnClient, OwnSession, OwnNet, OwnTab, OwnForm
<1>2. CountShape' /\ count'.ended = (count.ended \/ ends)
  <2>1. count' = [count EXCEPT !.ended = @ \/ ends]
    BY DEF Deliver
  <2>. QED BY <2>1 DEF ListInv, CountShape
<1>3. Listed(tab', form') => ListIsCurrent'
  BY DEF Listed, ListIsCurrent
<1>4. CASE ~m.live \/ (~m.reply.ok /\ m.kind \notin {"me", "save", "cell"})
  <2>1. UNCHANGED <<tab, form>>
    BY <1>4 DEF Deliver
  <2>. QED BY <1>2, <2>1 DEF ListInv, ListIsCurrent
<1>5. CASE m.live /\ m.kind \in {"rows", "add", "remove"} /\ m.reply.ok
  <2>1. /\ form' = form
        /\ \/ m.kind = "rows" /\ tab' = [tab EXCEPT !.groups = m.reply.got]
           \/ m.kind = "add" /\ tab' = [tab EXCEPT !.groups = Append(@, m.reply.got)]
           \/ m.kind = "remove" /\ tab' = WithoutRow(tab, m.row)
    BY <1>5 DEF Deliver
  <2>2. tab'.user = tab.user /\ (m.kind = "rows" => AnswersMap(tab') = AnswersMap(tab))
    <3>1. tab'.user = tab.user /\ (m.kind = "rows" => tab'.answers = tab.answers)
      BY <1>1, <2>1 DEF WithoutRow
    <3>. QED BY <3>1 DEF AnswersMap
  <2>3. m.kind # "rows" => tab.user # None
    BY <1>1, <1>5 DEF OwnMessage
  <2>. QED BY <1>2, <1>3, <2>1, <2>2, <2>3 DEF ListInv, ListIsCurrent, Listed
<1>6. CASE m.live /\ m.kind = "login" /\ m.reply.ok
  <2>1. ApplyLogin(m, q)
    BY <1>6 DEF Deliver
  <2>. QED BY <1>2, <1>3, <2>1, ShowListed DEF ApplyLogin
<1>7. CASE m.live /\ m.kind \in {"save", "cell"}
  <2>1. SaveEnded(m, q) \/ CellEnded(m, q)
    BY <1>7 DEF Deliver
  <2>2. tab.user # None /\ tab'.user = tab.user
    BY <1>1, <1>7, <2>1 DEF OwnMessage, SaveEnded, CellEnded
  <2>. QED BY <1>2, <1>3, <2>2 DEF Listed
<1>8. CASE m.live /\ m.kind = "answers" /\ m.reply.ok
  <2>1. tab' = [tab EXCEPT !.answers = m.reply.got, !.loading = FALSE]
    BY <1>8 DEF Deliver
  <2>2. tab.user # None /\ tab'.user = tab.user
    BY <1>1, <1>8, <2>1 DEF OwnMessage
  <2>. QED BY <1>2, <1>3, <2>2 DEF Listed
<1>9. CASE m.live /\ m.kind = "me"
  <2>. DEFINE t1 == IF m.reply.ok THEN [tab EXCEPT !.user = m.token, !.waiting = FALSE] ELSE SignedOut(tab)
              t == Provided(t1, store')
              page == IF Allowed(form.page, t) THEN form.page ELSE "home"
              q1 == ProvidedNet(t1, q)
  <2>1. SessionChecked(m, q)
    BY <1>9 DEF Deliver
  <2>2. tab' = t /\ (Show(page, t, q1) \/ (~tab.waiting /\ Keep(form, t, q1)))
    BY <2>1 DEF SessionChecked
  <2>3. m.token # None /\ m.token = tab.token
    BY <1>1, <1>9 DEF OwnMessage
  <2>4. m.reply.ok => t.user # None
    BY <1>1, <2>3 DEF Provided
  <2>5. ~m.reply.ok => ~t.loading
    BY <1>1, <2>3 DEF Provided, SignedOut
  <2>. HIDE DEF t, page, q1
  <2>6. CASE Show(page, t, q1)
    BY <1>2, <1>3, <2>2, <2>6, ShowListed
  <2>7. CASE ~tab.waiting /\ Keep(form, t, q1) /\ (tab.loading \/ m.reply.ok)
    BY <1>1, <1>2, <1>3, <2>2, <2>4, <2>5, <2>7, KeepListed
  <2>8. CASE ~tab.waiting /\ ~tab.loading /\ ~m.reply.ok
    BY <1>2, <1>9, <2>8 DEF ListIsCurrent
  <2>. QED BY <2>2, <2>6, <2>7, <2>8
<1>. QED BY <1>1, <1>4, <1>5, <1>6, <1>7, <1>8, <1>9 DEF OwnMessage, IsWrite

\* Only its page opens a list; every other change of the answers is of another page.
LEMMA NextListed == ASSUME OwnInv, ListInv, [Next]_vars PROVE ListInv'
<1>. DEFINE Counted == \/ count' = count
                       \/ \E x : count' \in {[count EXCEPT !.moves = x], [count EXCEPT !.edits = x],
                                             [count EXCEPT !.moves = x, !.lost = TRUE]}
            Else == form.page # "benefits" /\ form'.page = form.page
<1>1. /\ DOMAIN form = FormFields
      /\ timer # {} => HasRepeater(form.page)
  BY DEF OwnInv, OwnClient, OwnSession, OwnForm, OwnTimers
<1>2. ASSUME Counted, UNCHANGED <<tab, form>> \/ Else \/ Listed(tab', form') PROVE ListInv'
  <2>1. CountShape' /\ count'.ended = count.ended
    BY <1>2 DEF ListInv, CountShape
  <2>. QED BY <1>2, <2>1 DEF ListInv, ListIsCurrent, Listed
<1>. HIDE DEF Counted, Else
<1>3. CASE UNCHANGED vars
  BY <1>2, <1>3 DEF vars, client, Counted
<1>4. CASE Reload
  BY <1>2, <1>4, ReloadListed DEF Reload, Move, Counted
<1>5. CASE Logout
  <2>1. Listed(tab', form') /\ count' = count
    BY <1>5, ShowListed DEF Logout
  <2>. QED BY <1>2, <2>1 DEF Counted
<1>6. CASE StartEditing \/ CancelEditing
  BY <1>1, <1>2, <1>6 DEF StartEditing, CancelEditing, Counted, Else
<1>7. CASE SaveForm
  <2>1. count' = count /\ (Else \/ Listed(tab', form'))
    <3>. DEFINE t == [tab EXCEPT !.answers = Merge(@, DraftItems)]
                fresh == Refreshed(form, t)
    <3>1. form.page # "benefits" /\ count' = count
      BY <1>7 DEF SaveForm
    <3>2. \/ Show("benefits", t, net) /\ tab' = t
          \/ \E e : form' = [fresh EXCEPT !.evaluated = e]
          \/ form' = [form EXCEPT !.saving = TRUE]
      BY <1>7, Zenon DEF SaveForm
    <3>3. fresh.page = form.page /\ "page" \in DOMAIN fresh
      BY <1>1 DEF Refreshed
    <3>. HIDE DEF t, fresh
    <3>. QED BY <1>1, <3>1, <3>2, <3>3, ShowListed DEF Else
  <2>. QED BY <1>2, <2>1 DEF Counted
<1>8. CASE HandleAddRow
  BY <1>1, <1>2, <1>8 DEF HandleAddRow, Edit, HasRepeater, Counted, Else
<1>9. ASSUME NEW p, Visit(p) PROVE ListInv'
  <2>1. Show(p, tab, net) /\ tab' = tab /\ Counted
    BY <1>9 DEF Visit, Move, Counted
  <2>. QED BY <1>2, <2>1, ShowListed
<1>10. ASSUME NEW i, SendLogin(i) PROVE ListInv'
  <2>1. form'.evaluated = None /\ Counted
    BY <1>10 DEF SendLogin, Move, Counted, Mounted
  <2>. QED BY <1>2, <2>1 DEF Listed
<1>11. ASSUME NEW f, NEW v, Typing(f, v) \/ TypeAnswered(f, v) PROVE ListInv'
  <2>1. Counted /\ form.page # "benefits"
    BY <1>11 DEF Typing, TypeAnswered, Edit, Counted
  <2>2. form'.page = form.page
    BY <1>1, <1>11 DEF Typing, TypeAnswered, GuestSubmit
  <2>. QED BY <1>2, <2>1, <2>2 DEF Else
<1>12. ASSUME NEW r, NEW c, NEW v, TypeCell(r, c, v) PROVE ListInv'
  BY <1>1, <1>2, <1>12 DEF TypeCell, Edit, HasRepeater, Counted, Else
<1>13. ASSUME NEW x, Elapse(x) PROVE ListInv'
  BY <1>1, <1>2, <1>13 DEF Elapse, GuestSubmit, HasRepeater, Counted, Else
<1>14. ASSUME NEW r, HandleDeleteRow(r) PROVE ListInv'
  BY <1>1, <1>2, <1>14 DEF HandleDeleteRow, Edit, HasRepeater, Counted, Else
<1>15. ASSUME NEW n \in DOMAIN net, ServeRead(n) \/ ServeWrite(n) \/ ServeLogin(n) \/ Lose(n) PROVE ListInv'
  <2>1. Counted /\ UNCHANGED <<tab, form>>
    BY <1>15, Zenon DEF ServeRead, ServeWrite, ServeLogin, Lose, Counted
  <2>. QED BY <1>2, <2>1
<1>16. CASE Elsewhere \/ CloseAccount
  <2>1. Counted /\ UNCHANGED <<tab, form>>
    BY <1>16 DEF Elsewhere, CloseAccount, Move, client, Counted
  <2>. QED BY <1>2, <2>1
<1>17. ASSUME NEW n \in DOMAIN net, Deliver(n) PROVE ListInv'
  BY <1>17, DeliverListed DEF ListInv
<1>. QED
  BY <1>3, <1>4, <1>5, <1>6, <1>7, <1>8, <1>9, <1>10, <1>11, <1>12, <1>13, <1>14, <1>15, <1>16, <1>17 DEF Next

\* The benefits a guest is listed are always those of the answers he has
\* (ListIsCurrent), under the same conditions, unless a session was refused after its
\* answers had arrived (EligibleBenefitsPage.tsx:40-52).
THEOREM ListAlwaysCurrent == ASSUME InOrder, Settled, Patient PROVE Spec => []ListIsCurrent
<1>1. Init => ListInv
  BY DEF Init, ListInv, CountShape, ListIsCurrent, Mounted
<1>2. OwnInv /\ ListInv /\ [Next]_vars => ListInv'
  BY NextListed
<1>3. Spec => [](SignInInv /\ OwnInv)
  BY OwnAlways DEF InTurn
<1>4. ListInv => ListIsCurrent
  BY DEF ListInv
<1>. QED BY <1>1, <1>2, <1>3, <1>4, PTL DEF Spec

-----------------------------------------------------------------------------
(* What the tab shows is what is kept *)

\* p has the answers of some kinds that q has, at the same places.
Counts(m, kinds) == m.kind \in kinds /\ Granted(m)
Steadily(q, p, kinds) ==
    /\ \A n \in DOMAIN q : Counts(q[n], kinds) => n \in DOMAIN p /\ p[n] = q[n]
    /\ \A n \in DOMAIN p : Counts(p[n], kinds) => n \in DOMAIN q /\ p[n] = q[n]

LEMMA SteadyAnswers ==
    ASSUME NEW q, NEW p, Steadily(q, p, {"answers", "save", "cell", "remove"}), NEW t, NEW told,
           AnswersCurrent(t, q, told), NEW t2, t2.answers = t.answers, t2.loading = t.loading
    PROVE  AnswersCurrent(t2, p, told)
<1>1. \A n \in DOMAIN p : Tells(p[n]) => n \in DOMAIN q /\ p[n] = q[n]
  BY DEF Steadily, Counts, Tells
<1>2. \A n \in DOMAIN q : Tells(q[n]) => n \in DOMAIN p /\ p[n] = q[n]
  BY DEF Steadily, Counts, Tells
<1>3. \A k : Latest(p, k) <=> Latest(q, k)
  BY <1>1, <1>2 DEF Latest
<1>4. \A k : Removals(p, k) = Removals(q, k)
  <2>. SUFFICES ASSUME NEW k PROVE Removals(p, k) = Removals(q, k)
    OBVIOUS
  <2>. DEFINE gone(s) == {j \in DOMAIN s : j > k /\ s[j].kind = "remove" /\ Granted(s[j])}
  <2>1. \A j \in gone(p) : j \in gone(q) /\ p[j] = q[j]
    BY DEF Steadily, Counts
  <2>2. \A j \in gone(q) : j \in gone(p) /\ p[j] = q[j]
    BY DEF Steadily, Counts
  <2>. HIDE DEF gone
  <2>3. {p[j].row : j \in gone(p)} = {q[j].row : j \in gone(q)}
    BY <2>1, <2>2
  <2>. QED BY <2>3 DEF Removals, gone
<1>5. ~t2.loading /\ Latest(p, 0) => Open(Left(t2.answers, Removals(p, 0))) = told
  BY <1>3, <1>4 DEF AnswersCurrent
<1>6. ASSUME NEW k \in DOMAIN p, Tells(p[k]), Latest(p, k)
      PROVE  Open(Left(p[k].reply.got, Removals(p, k))) = told
  BY <1>1, <1>3, <1>4, <1>6 DEF AnswersCurrent
<1>. QED BY <1>5, <1>6 DEF AnswersCurrent

LEMMA SteadyList ==
    ASSUME NEW q, NEW p, Steadily(q, p, {"add", "remove"}), NEW g, NEW k, NEW list, ListAfter(g, q, k, list)
    PROVE  ListAfter(g, p, k, list)
<1>1. \A n \in DOMAIN p : Alters(p[n]) /\ Granted(p[n]) => n \in DOMAIN q /\ p[n] = q[n]
  BY DEF Steadily, Counts, Alters
<1>2. \A n \in DOMAIN q : Alters(q[n]) /\ Granted(q[n]) => n \in DOMAIN p /\ p[n] = q[n]
  BY DEF Steadily, Counts, Alters
<1>. QED BY <1>1, <1>2 DEF ListAfter

LEMMA SteadyRows ==
    ASSUME NEW q, NEW p, Steadily(q, p, {"rows", "add", "remove"}), NEW t, NEW pg, NEW list,
           RowsCurrent(t, pg, q, list), NEW t2, NEW pg2, t2.groups = t.groups,
           HasRepeater(pg2) /\ (\A n \in DOMAIN p : p[n].kind # "rows") =>
              HasRepeater(pg) /\ \A n \in DOMAIN q : q[n].kind # "rows"
    PROVE  RowsCurrent(t2, pg2, p, list)
<1>. Steadily(q, p, {"add", "remove"})
  BY DEF Steadily, Counts
<1>1. HasRepeater(pg2) /\ (\A n \in DOMAIN p : p[n].kind # "rows") => ListAfter(t2.groups, p, 0, list)
  BY SteadyList DEF RowsCurrent
<1>2. ASSUME NEW k \in DOMAIN p, p[k].kind = "rows", Granted(p[k]) PROVE ListAfter(p[k].reply.got, p, k, list)
  <2>1. k \in DOMAIN q /\ p[k] = q[k]
    BY <1>2 DEF Steadily, Counts
  <2>2. ListAfter(q[k].reply.got, q, k, list)
    BY <1>2, <2>1 DEF RowsCurrent
  <2>. QED BY <2>1, <2>2, SteadyList
<1>. QED BY <1>1, <1>2 DEF RowsCurrent

\* A request just sent changes nothing of what is answered.
LEMMA SentSteadily ==
    ASSUME NEW q, IsList(q), NEW m, m.reply = Unanswered, NEW kinds
    PROVE  Steadily(q, Append(q, m), kinds)
<1>1. /\ DOMAIN Append(q, m) = 1 .. Len(q) + 1 /\ DOMAIN q = 1 .. Len(q) /\ Len(q) \in Nat
      /\ \A n \in DOMAIN q : Append(q, m)[n] = q[n]
      /\ Append(q, m)[Len(q) + 1] = m
  BY Appended
<1>2. \A n \in DOMAIN Append(q, m) : n \in DOMAIN q \/ n = Len(q) + 1
  BY <1>1
<1>3. \A n \in DOMAIN q : n \in DOMAIN Append(q, m)
  BY <1>1
<1>. QED BY <1>1, <1>2, <1>3 DEF Steadily, Counts, Granted

\* Neither does an answer that does not count.
LEMMA AnsweredSteadily ==
    ASSUME NEW q, IsList(q), NEW n \in DOMAIN q, q[n].reply = Unanswered, NEW p, DOMAIN p = DOMAIN q,
           \A k \in DOMAIN q : k # n => p[k] = q[k], NEW kinds, ~Counts(p[n], kinds)
    PROVE  Steadily(q, p, kinds)
BY DEF Steadily, Counts, Granted

\* p is q, with the answer r to the n-th request.
Replied(q, p, n, r) ==
    /\ n \in DOMAIN q /\ IsList(q) /\ DOMAIN p = DOMAIN q /\ \A k \in DOMAIN q : k # n => p[k] = q[k]
    /\ q[n].reply = Unanswered /\ p[n].reply = r /\ p[n].kind = q[n].kind /\ p[n].token = q[n].token
    /\ p[n].row = q[n].row /\ p[n].live = q[n].live
    /\ \A k \in DOMAIN q : k > n => q[k].reply = Unanswered

LEMMA ServedAnswers ==
    ASSUME NEW q, NEW p, NEW n, NEW r, Replied(q, p, n, r), Tells(p[n]), NEW t
    PROVE  AnswersCurrent(t, p, Open(r.got))
<1>1. Len(q) \in Nat /\ DOMAIN q = 1 .. Len(q)
  BY LenProperties DEF Replied, IsList
<1>2. n \in Nat /\ n > 0
  BY <1>1 DEF Replied
<1>3. \A k \in DOMAIN p : k > n => ~Granted(p[k])
  BY <1>2 DEF Replied, Granted
<1>4. ~Latest(p, 0)
  BY <1>2 DEF Latest, Replied
<1>5. ASSUME NEW k \in DOMAIN p, Tells(p[k]), Latest(p, k) PROVE k = n
  <2>1. k \in Nat
    BY <1>1 DEF Replied
  <2>2. ~(n > k)
    BY <1>5 DEF Latest, Replied
  <2>3. ~(k > n)
    BY <1>3, <1>5 DEF Tells
  <2>. QED BY <1>2, <2>1, <2>2, <2>3
<1>6. Left(p[n].reply.got, Removals(p, n)) = r.got \/ Open(Left(p[n].reply.got, Removals(p, n))) = Open(r.got)
  <2>1. Removals(p, n) = {}
    BY <1>3 DEF Removals
  <2>. QED BY <2>1 DEF Left, Open, Replied
<1>. QED BY <1>4, <1>5, <1>6 DEF AnswersCurrent

LEMMA ServedRemoval ==
    ASSUME NEW q, NEW p, NEW n, NEW r, Replied(q, p, n, r), q[n].kind = "remove", Granted(p[n]), NEW t, NEW told,
           AnswersCurrent(t, q, told)
    PROVE  AnswersCurrent(t, p, Left(told, {q[n].row}))
<1>1. Len(q) \in Nat /\ DOMAIN q = 1 .. Len(q)
  BY LenProperties DEF Replied, IsList
<1>2. n \in Nat /\ n > 0
  BY <1>1 DEF Replied
<1>3. \A k \in DOMAIN q : k > n => ~Granted(q[k])
  BY DEF Replied, Granted
<1>4. \A k : Latest(p, k) <=> Latest(q, k)
  <2>1. \A k \in DOMAIN q : Tells(p[k]) <=> Tells(q[k])
    BY DEF Replied, Tells
  <2>. QED BY <2>1 DEF Latest, Replied
<1>5. ASSUME NEW k \in Nat, k < n PROVE Removals(p, k) = Removals(q, k) \cup {q[n].row}
  <2>. DEFINE gone(s) == {j \in DOMAIN s : j > k /\ s[j].kind = "remove" /\ Granted(s[j])}
  <2>1. \A j : j \in gone(p) <=> j \in gone(q) \/ j = n
    BY <1>2, <1>5 DEF Replied
  <2>2. \A j \in gone(q) : p[j].row = q[j].row
    BY DEF Replied
  <2>3. p[n].row = q[n].row
    BY DEF Replied
  <2>. HIDE DEF gone
  <2>4. {p[j].row : j \in gone(p)} = {q[j].row : j \in gone(q)} \cup {q[n].row}
    BY <2>1, <2>2, <2>3
  <2>. QED BY <2>4 DEF Removals, gone
<1>6. ASSUME NEW a, NEW gone PROVE Open(Left(a, gone \cup {q[n].row})) = Left(Open(Left(a, gone)), {q[n].row})
  BY DEF Open, Left
<1>7. ~t.loading /\ Latest(p, 0) => Open(Left(t.answers, Removals(p, 0))) = Left(told, {q[n].row})
  <2>1. Removals(p, 0) = Removals(q, 0) \cup {q[n].row}
    BY <1>2, <1>5
  <2>. QED BY <1>4, <1>6, <2>1 DEF AnswersCurrent
<1>8. ASSUME NEW k \in DOMAIN p, Tells(p[k]), Latest(p, k)
      PROVE  Open(Left(p[k].reply.got, Removals(p, k))) = Left(told, {q[n].row})
  <2>1. k \in Nat /\ k # n /\ p[k] = q[k] /\ k \in DOMAIN q
    BY <1>1, <1>8 DEF Replied, Tells
  <2>2. k < n
    BY <1>2, <1>3, <1>8, <2>1 DEF Tells
  <2>3. Removals(p, k) = Removals(q, k) \cup {q[n].row}
    BY <1>5, <2>1, <2>2
  <2>4. Open(Left(q[k].reply.got, Removals(q, k))) = told
    BY <1>4, <1>8, <2>1 DEF AnswersCurrent
  <2>. QED BY <1>6, <2>1, <2>3, <2>4
<1>. QED BY <1>7, <1>8 DEF AnswersCurrent

LEMMA ServedRows ==
    ASSUME NEW q, NEW p, NEW n, NEW r, Replied(q, p, n, r), q[n].kind = "rows", Granted(p[n]), NEW t, NEW pg,
           RowsCurrent(t, pg, q, r.got)
    PROVE  RowsCurrent(t, pg, p, r.got)
<1>1. Len(q) \in Nat /\ DOMAIN q = 1 .. Len(q)
  BY LenProperties DEF Replied, IsList
<1>2. \A k \in DOMAIN p : k > n => ~Granted(p[k])
  <2>1. n \in Nat
    BY <1>1 DEF Replied
  <2>. QED BY <2>1 DEF Replied, Granted
<1>3. Steadily(q, p, {"add", "remove"})
  BY DEF Steadily, Counts, Replied, Granted
<1>4. \E k \in DOMAIN p : p[k].kind = "rows"
  BY DEF Replied
<1>5. ASSUME NEW k \in DOMAIN p, p[k].kind = "rows", Granted(p[k]) PROVE ListAfter(p[k].reply.got, p, k, r.got)
  <2>1. CASE k = n
    <3>1. p[k].reply.got = r.got
      BY <2>1 DEF Replied
    <3>. QED BY <1>2, <2>1, <3>1 DEF ListAfter
  <2>2. CASE k # n
    <3>1. k \in DOMAIN q /\ p[k] = q[k]
      BY <2>2 DEF Replied
    <3>2. ListAfter(q[k].reply.got, q, k, r.got)
      BY <1>5, <3>1 DEF RowsCurrent
    <3>. QED BY <1>3, <3>1, <3>2, SteadyList
  <2>. QED BY <2>1, <2>2
<1>. QED BY <1>4, <1>5 DEF RowsCurrent

LEMMA ServedAlters ==
    ASSUME NEW q, NEW p, NEW n, NEW r, Replied(q, p, n, r), Alters(q[n]), Granted(p[n]), NEW t, NEW pg, NEW t2,
           NEW pg2, Orderly(q, t2, pg2), NEW list, RowsCurrent(t, pg, q, list)
    PROVE  RowsCurrent(t, pg, p, Altered(list, p[n]))
<1>1. Len(q) \in Nat /\ DOMAIN q = 1 .. Len(q)
  BY LenProperties DEF Replied, IsList
<1>2. n \in Nat /\ n > 0 /\ n \in DOMAIN q /\ ~Granted(q[n]) /\ Alters(p[n])
  BY <1>1 DEF Replied, Granted, Alters
<1>3. \A j \in DOMAIN q : Alters(q[j]) => j = n
  BY <1>2 DEF Orderly
<1>4. \A j \in DOMAIN p : Alters(p[j]) => j = n
  BY <1>2, <1>3 DEF Replied
<1>5. ASSUME NEW g, NEW k \in Nat, k < n, ListAfter(g, q, k, list)
      PROVE  ListAfter(g, p, k, Altered(list, p[n]))
  <2>1. list = g
    BY <1>2, <1>3, <1>5 DEF ListAfter
  <2>2. n \in DOMAIN p /\ n > k
    BY <1>2, <1>5 DEF Replied
  <2>. QED BY <1>2, <1>4, <2>1, <2>2 DEF ListAfter
<1>6. HasRepeater(pg) /\ (\A k \in DOMAIN p : p[k].kind # "rows") => ListAfter(t.groups, p, 0, Altered(list, p[n]))
  <2>1. (\A k \in DOMAIN p : p[k].kind # "rows") => \A k \in DOMAIN q : q[k].kind # "rows"
    BY DEF Replied
  <2>. QED BY <1>2, <1>5, <2>1 DEF RowsCurrent
<1>7. ASSUME NEW k \in DOMAIN p, p[k].kind = "rows", Granted(p[k])
      PROVE  ListAfter(p[k].reply.got, p, k, Altered(list, p[n]))
  <2>1. k # n /\ k \in Nat /\ k \in DOMAIN q /\ p[k] = q[k]
    BY <1>1, <1>2, <1>7 DEF Replied, Alters
  <2>2. ~(n < k)
    BY <1>2, <1>7, <2>1 DEF Orderly
  <2>3. ListAfter(q[k].reply.got, q, k, list)
    BY <1>7, <2>1 DEF RowsCurrent
  <2>. QED BY <1>2, <1>5, <2>1, <2>2, <2>3
<1>. QED BY <1>6, <1>7 DEF RowsCurrent

\* p is q without its first request.
Shifted(q, p) ==
    /\ IsList(q) /\ 1 \in DOMAIN q /\ DOMAIN p = 1 .. Len(q) - 1
    /\ \A n \in DOMAIN p : p[n] = q[n + 1]

LEMMA RemovedFirst ==
    ASSUME NEW q, IsList(q), 1 \in DOMAIN q
    PROVE  Shifted(q, RemoveAt(q, 1))
<1>. DEFINE S == {q[n] : n \in DOMAIN q}
            a == SubSeq(q, 1, 0)
            b == SubSeq(q, 2, Len(q))
<1>1. q \in Seq(S) /\ Len(q) \in Nat /\ DOMAIN q = 1 .. Len(q) /\ \A n \in 1 .. Len(q) : q[n] \in S
  BY LenProperties DEF IsList
<1>2. Len(q) >= 1
  BY <1>1
<1>. HIDE DEF S
<1>3. a \in Seq(S) /\ Len(a) = 0
  BY <1>1
<1>4. b \in Seq(S) /\ Len(b) = Len(q) - 1 /\ \A n \in 1 .. Len(q) - 1 : b[n] = q[n + 1]
  <2>1. \A n \in 2 .. Len(q) : q[n] \in S
    BY <1>1
  <2>. QED BY <1>1, <1>2, <2>1
<1>5. RemoveAt(q, 1) = a \o b
  BY DEF RemoveAt
<1>. HIDE DEF a, b
<1>6. Len(a \o b) = Len(q) - 1 /\ a \o b \in Seq(S)
  <2>1. Len(a \o b) = Len(a) + Len(b) /\ a \o b \in Seq(S)
    BY <1>3, <1>4, ConcatProperties
  <2>. QED BY <1>1, <1>2, <1>3, <1>4, <2>1
<1>7. DOMAIN (a \o b) = 1 .. Len(q) - 1
  BY <1>6, LenProperties
<1>8. ASSUME NEW n \in 1 .. Len(q) - 1 PROVE (a \o b)[n] = q[n + 1]
  <2>1. (a \o b)[n] = IF n <= 0 THEN a[n] ELSE b[n - 0]
    BY <1>1, <1>3, <1>4, ConcatProperties
  <2>2. ~(n <= 0) /\ n - 0 = n
    BY <1>1
  <2>. QED BY <1>4, <2>1, <2>2
<1>. QED BY <1>5, <1>7, <1>8 DEF Shifted

LEMMA ShiftFacts ==
    ASSUME NEW q, NEW p, Shifted(q, p)
    PROVE  /\ \A n \in DOMAIN p : n \in Nat /\ n + 1 \in DOMAIN q /\ p[n] = q[n + 1]
           /\ \A i \in DOMAIN q : i \in Nat /\ (i # 1 => i > 1 /\ \E n \in DOMAIN p : i = n + 1)
<1>1. Len(q) \in Nat /\ DOMAIN q = 1 .. Len(q)
  BY LenProperties DEF Shifted, IsList
<1>2. DOMAIN p = 1 .. Len(q) - 1 /\ \A n \in DOMAIN p : p[n] = q[n + 1]
  BY DEF Shifted
<1>3. ASSUME NEW n \in DOMAIN p PROVE n \in Nat /\ n + 1 \in DOMAIN q
  BY <1>1, <1>2
<1>4. ASSUME NEW i \in DOMAIN q PROVE i \in Nat /\ (i # 1 => i > 1 /\ \E n \in DOMAIN p : i = n + 1)
  <2>1. i \in Nat /\ i >= 1 /\ i <= Len(q)
    BY <1>1
  <2>2. i # 1 => i - 1 \in 1 .. Len(q) - 1 /\ i = i - 1 + 1 /\ i > 1
    BY <1>1, <2>1
  <2>. QED BY <1>2, <2>1, <2>2
<1>. QED BY <1>2, <1>3, <1>4

LEMMA ShiftAfter ==
    ASSUME NEW q, NEW p, Shifted(q, p), NEW k \in Nat
    PROVE  /\ Latest(p, k) <=> Latest(q, k + 1)
           /\ Removals(p, k) = Removals(q, k + 1)
           /\ \A g, list : ListAfter(g, p, k, list) <=> ListAfter(g, q, k + 1, list)
<1>. DEFINE after(s, x) == {j \in DOMAIN s : j > x}
<1>1. ASSUME NEW n \in after(p, k) PROVE n + 1 \in after(q, k + 1) /\ p[n] = q[n + 1]
  <2>1. n \in DOMAIN p /\ n > k /\ n \in Nat /\ n + 1 \in DOMAIN q /\ p[n] = q[n + 1]
    BY ShiftFacts
  <2>2. n + 1 > k + 1
    BY <2>1
  <2>. QED BY <2>1, <2>2
<1>2. ASSUME NEW i \in after(q, k + 1) PROVE \E n \in after(p, k) : p[n] = q[i]
  <2>1. i \in DOMAIN q /\ i > k + 1 /\ i \in Nat
    BY ShiftFacts
  <2>2. i # 1
    BY <2>1
  <2>3. PICK n \in DOMAIN p : i = n + 1
    BY <2>1, <2>2, ShiftFacts
  <2>4. n \in Nat /\ p[n] = q[i]
    BY <2>3, ShiftFacts
  <2>5. n > k
    BY <2>1, <2>3, <2>4
  <2>. QED BY <2>3, <2>4, <2>5
<1>3. \A s, x : Latest(s, x) <=> \A j \in after(s, x) : ~Tells(s[j])
  BY DEF Latest
<1>4. \A s, x, y : y \in Removals(s, x) <=> \E j \in after(s, x) : s[j].kind = "remove" /\ Granted(s[j]) /\ y = s[j].row
  BY DEF Removals
<1>5. \A g, list, s, x : ListAfter(g, s, x, list)
        <=> /\ (\A j \in after(s, x) : ~(Alters(s[j]) /\ Granted(s[j]))) => list = g
            /\ \A j \in after(s, x) : Alters(s[j]) /\ Granted(s[j]) => list = Altered(g, s[j])
  BY DEF ListAfter
<1>. HIDE DEF after
<1>6. Latest(p, k) <=> Latest(q, k + 1)
  BY <1>1, <1>2, <1>3
<1>7. \A y : y \in Removals(p, k) <=> y \in Removals(q, k + 1)
  <2>1. ASSUME NEW y, y \in Removals(p, k) PROVE y \in Removals(q, k + 1)
    <3>1. PICK j \in after(p, k) : p[j].kind = "remove" /\ Granted(p[j]) /\ y = p[j].row
      BY <1>4, <2>1
    <3>2. j + 1 \in after(q, k + 1) /\ q[j + 1] = p[j]
      BY <1>1
    <3>3. \E i \in after(q, k + 1) : q[i].kind = "remove" /\ Granted(q[i]) /\ y = q[i].row
      BY <3>1, <3>2
    <3>. QED BY <1>4, <3>3
  <2>2. ASSUME NEW y, y \in Removals(q, k + 1) PROVE y \in Removals(p, k)
    <3>1. PICK i \in after(q, k + 1) : q[i].kind = "remove" /\ Granted(q[i]) /\ y = q[i].row
      BY <1>4, <2>2
    <3>2. PICK j \in after(p, k) : p[j] = q[i]
      BY <1>2
    <3>3. \E j2 \in after(p, k) : p[j2].kind = "remove" /\ Granted(p[j2]) /\ y = p[j2].row
      BY <3>1, <3>2
    <3>. QED BY <1>4, <3>3
  <2>. QED BY <2>1, <2>2
<1>8. Removals(p, k) = Removals(q, k + 1)
  <2>1. \A y : y \in Removals(p, k) <=> y \in Removals(q, k + 1)
    BY <1>7
  <2>. QED BY <2>1 DEF Removals
<1>9. ASSUME NEW g, NEW list PROVE ListAfter(g, p, k, list) <=> ListAfter(g, q, k + 1, list)
  <2>1. \A i \in after(q, k + 1) : \E n \in after(p, k) : p[n] = q[i]
    BY <1>2
  <2>2. \A n \in after(p, k) : \E i \in after(q, k + 1) : p[n] = q[i]
    BY <1>1
  <2>3. ListAfter(g, p, k, list) => ListAfter(g, q, k + 1, list)
    BY <1>5, <2>1, <2>2
  <2>4. ListAfter(g, q, k + 1, list) => ListAfter(g, p, k, list)
    BY <1>5, <2>1, <2>2
  <2>. QED BY <2>3, <2>4
<1>. QED BY <1>6, <1>8, <1>9

LEMMA ShiftAnswers ==
    ASSUME NEW q, NEW p, Shifted(q, p), NEW t, NEW told, AnswersCurrent(t, q, told), NEW t2,
           \/ Tells(q[1]) /\ t2.answers = q[1].reply.got
           \/ /\ ~Tells(q[1]) /\ t2.loading = t.loading
              /\ t2.answers = IF q[1].kind = "remove" /\ Granted(q[1])
                              THEN {i \in t.answers : i.row # q[1].row} ELSE t.answers
    PROVE  AnswersCurrent(t2, p, told)
<1>1. /\ Latest(p, 0) <=> Latest(q, 1)
      /\ Removals(p, 0) = Removals(q, 1)
  BY ShiftAfter
<1>2. 1 \in DOMAIN q /\ \A i \in DOMAIN q : i > 0 <=> (i = 1 \/ i > 1)
  BY ShiftFacts DEF Shifted
<1>3. ~t2.loading /\ Latest(p, 0) => Open(Left(t2.answers, Removals(p, 0))) = told
  <2>1. CASE Tells(q[1])
    BY <1>1, <1>2, <2>1 DEF AnswersCurrent
  <2>2. CASE ~Tells(q[1])
    <3>1. Latest(q, 0) <=> Latest(q, 1)
      BY <1>2, <2>2 DEF Latest
    <3>. DEFINE gone == IF q[1].kind = "remove" /\ Granted(q[1]) THEN {q[1].row} ELSE {}
    <3>2. Removals(q, 0) = Removals(q, 1) \cup gone
      BY <1>2 DEF Removals
    <3>3. Left(t2.answers, Removals(q, 1)) = Left(t.answers, Removals(q, 0))
      BY <2>2, <3>2 DEF Left
    <3>. QED BY <1>1, <2>2, <3>1, <3>3 DEF AnswersCurrent
  <2>. QED BY <2>1, <2>2
<1>4. ASSUME NEW k \in DOMAIN p, Tells(p[k]), Latest(p, k)
      PROVE  Open(Left(p[k].reply.got, Removals(p, k))) = told
  <2>1. k \in Nat /\ k + 1 \in DOMAIN q /\ p[k] = q[k + 1]
    BY ShiftFacts
  <2>2. (Latest(p, k) <=> Latest(q, k + 1)) /\ Removals(p, k) = Removals(q, k + 1)
    BY <2>1, ShiftAfter
  <2>. QED BY <1>4, <2>1, <2>2 DEF AnswersCurrent
<1>. QED BY <1>3, <1>4 DEF AnswersCurrent

LEMMA ShiftRows ==
    ASSUME NEW q, NEW p, Shifted(q, p), NEW t, NEW pg, NEW list, RowsCurrent(t, pg, q, list), NEW t2, NEW u,
           Orderly(q, u, pg),
           \/ q[1].kind = "rows" /\ Granted(q[1]) /\ t2.groups = q[1].reply.got
           \/ Alters(q[1]) /\ Granted(q[1]) /\ t2.groups = Altered(t.groups, q[1])
           \/ q[1].kind # "rows" /\ ~(Alters(q[1]) /\ Granted(q[1])) /\ t2.groups = t.groups
    PROVE  RowsCurrent(t2, pg, p, list)
<1>1. \A g : ListAfter(g, p, 0, list) <=> ListAfter(g, q, 1, list)
  BY ShiftAfter
<1>2. 1 \in DOMAIN q /\ \A i \in DOMAIN q : i \in Nat /\ (i > 0 <=> (i = 1 \/ i > 1))
  BY ShiftFacts DEF Shifted
<1>3. ASSUME NEW k \in DOMAIN p, p[k].kind = "rows", Granted(p[k]) PROVE ListAfter(p[k].reply.got, p, k, list)
  <2>1. k \in Nat /\ k + 1 \in DOMAIN q /\ p[k] = q[k + 1]
    BY ShiftFacts
  <2>2. ListAfter(q[k + 1].reply.got, q, k + 1, list)
    BY <1>3, <2>1 DEF RowsCurrent
  <2>. QED BY <2>1, <2>2, ShiftAfter
<1>4. ASSUME HasRepeater(pg), \A n \in DOMAIN p : p[n].kind # "rows" PROVE ListAfter(t2.groups, p, 0, list)
  <2>1. q[1].kind # "rows" => \A n \in DOMAIN q : q[n].kind # "rows"
    <3>. SUFFICES ASSUME q[1].kind # "rows", NEW n \in DOMAIN q, n # 1 PROVE q[n].kind # "rows"
      OBVIOUS
    <3>1. \E k \in DOMAIN p : n = k + 1
      BY ShiftFacts
    <3>. QED BY <1>4, <3>1, ShiftFacts
  <2>2. CASE q[1].kind = "rows" /\ Granted(q[1]) /\ t2.groups = q[1].reply.got
    BY <1>1, <1>2, <2>2 DEF RowsCurrent
  <2>3. CASE Alters(q[1]) /\ Granted(q[1]) /\ t2.groups = Altered(t.groups, q[1])
    <3>1. q[1].kind # "rows"
      BY <2>3 DEF Alters
    <3>2. list = Altered(t.groups, q[1])
      BY <1>2, <1>4, <2>1, <2>3, <3>1 DEF RowsCurrent, ListAfter
    <3>3. \A j \in DOMAIN q : j > 1 => ~Alters(q[j])
      BY <1>2, <2>3 DEF Orderly
    <3>4. ListAfter(t2.groups, q, 1, list)
      BY <2>3, <3>2, <3>3 DEF ListAfter
    <3>. QED BY <1>1, <3>4
  <2>4. CASE q[1].kind # "rows" /\ ~(Alters(q[1]) /\ Granted(q[1])) /\ t2.groups = t.groups
    <3>1. ListAfter(t.groups, q, 0, list)
      BY <1>4, <2>1, <2>4 DEF RowsCurrent
    <3>2. ListAfter(t.groups, q, 1, list)
      BY <1>2, <2>4, <3>1 DEF ListAfter
    <3>. QED BY <1>1, <2>4, <3>2
  <2>. QED BY <2>2, <2>3, <2>4
<1>. QED BY <1>3, <1>4 DEF RowsCurrent

\* p has some of the requests of q, and some that are just sent.
Renews(p, q, t) ==
    \A n \in DOMAIN p : \/ \E i \in DOMAIN q : p[n] = q[i]
                        \/ p[n].reply = Unanswered /\ (p[n].kind = "rows" => t.user # None)

LEMMA RenewsSent ==
    ASSUME NEW q, IsList(q), NEW m, m.reply = Unanswered, NEW t, m.kind = "rows" => t.user # None
    PROVE  Renews(Append(q, m), q, t)
<1>. DEFINE p == Append(q, m)
<1>1. \A n \in DOMAIN p : (n \in DOMAIN q /\ p[n] = q[n]) \/ p[n] = m
  <2>1. DOMAIN p = 1 .. Len(q) + 1 /\ DOMAIN q = 1 .. Len(q) /\ Len(q) \in Nat
    BY Appended
  <2>2. \A n \in DOMAIN p : n \in DOMAIN q \/ n = Len(q) + 1
    BY <2>1
  <2>. QED BY <2>2, Appended
<1>. HIDE DEF p
<1>2. \A n \in DOMAIN p : \/ \E i \in DOMAIN q : p[n] = q[i]
                          \/ p[n].reply = Unanswered /\ (p[n].kind = "rows" => t.user # None)
  BY <1>1
<1>3. Renews(p, q, t)
  BY <1>2 DEF Renews
<1>. QED BY <1>3 DEF p

LEMMA RenewsLeft ==
    ASSUME NEW q, NEW p, Shifted(q, p), NEW t
    PROVE  Renews(p, q, t)
<1>1. \A n \in DOMAIN p : \E i \in DOMAIN q : p[n] = q[i]
  BY ShiftFacts
<1>. QED BY <1>1 DEF Renews

LEMMA TurnedFrom ==
    ASSUME NEW t, NEW q, NEW used, Turned(t, q, used), NEW t2, NEW p, t2.user = None => t.user = None, Renews(p, q, t2)
    PROVE  Turned(t2, p, used)
<1>. USE DEF Renews
<1>1. ASSUME NEW i \in DOMAIN p, NEW j \in DOMAIN p, p[i].kind = "me", p[i].reply # Unanswered, ~p[i].reply.ok
      PROVE  p[i].token \notin used /\ (p[j].kind = "rows" => ~Granted(p[j]))
  <2>1. PICK k \in DOMAIN q : p[i] = q[k]
    BY <1>1
  <2>. QED BY <1>1, <2>1 DEF Turned, Granted
<1>2. ASSUME NEW n \in DOMAIN p, t2.user = None, p[n].kind = "rows" PROVE ~Granted(p[n]) /\ p[n].token \notin used
  BY <1>2 DEF Turned
<1>. QED BY <1>1, <1>2 DEF Turned

LEMMA ShiftOrderly ==
    ASSUME NEW q, NEW p, Shifted(q, p), NEW t, NEW pg, NEW used, Orderly(q, t, pg), NEW t2, t2.user = t.user,
           t2.waiting = t.waiting
    PROVE  Orderly(p, t2, pg) /\ (InService(q, used) => InService(p, used))
<1>1. \A n \in DOMAIN p : n \in Nat /\ n + 1 \in DOMAIN q /\ p[n] = q[n + 1]
  BY ShiftFacts
<1>2. \A i, j \in DOMAIN p : (i + 1 = j + 1 => i = j) /\ (i < j => i + 1 < j + 1)
  BY <1>1
<1>3. Orderly(p, t2, pg)
  <2>1. ASSUME NEW n \in DOMAIN p
        PROVE  /\ p[n].live
               /\ Alters(p[n]) \/ (p[n].kind = "rows" /\ t2.user # None) => p[n].token = t2.user
               /\ p[n].kind = "rows" => ~t2.waiting
               /\ Alters(p[n]) => HasRepeater(pg)
    BY <1>1 DEF Orderly
  <2>2. ASSUME NEW i \in DOMAIN p, NEW j \in DOMAIN p, Alters(p[i])
        PROVE  p[j].kind # "save" /\ (Alters(p[j]) => i = j) /\ (i < j => p[j].kind # "rows")
    <3>1. i + 1 \in DOMAIN q /\ j + 1 \in DOMAIN q /\ p[i] = q[i + 1] /\ p[j] = q[j + 1]
      BY <1>1
    <3>. QED BY <1>2, <2>2, <3>1 DEF Orderly
  <2>. QED BY <2>1, <2>2 DEF Orderly
<1>4. InService(q, used) => InService(p, used)
  <2>. SUFFICES ASSUME InService(q, used) PROVE InService(p, used)
    OBVIOUS
  <2>1. ASSUME NEW i \in DOMAIN p, NEW j \in DOMAIN p, i < j, p[i].reply = Unanswered PROVE p[j].reply = Unanswered
    <3>1. i + 1 \in DOMAIN q /\ j + 1 \in DOMAIN q /\ p[i] = q[i + 1] /\ p[j] = q[j + 1] /\ i + 1 < j + 1
      BY <1>1, <1>2, <2>1
    <3>. QED BY <2>1, <3>1 DEF InService
  <2>2. \A n \in DOMAIN p : p[n].kind = "rows" /\ p[n].reply # Unanswered => p[n].reply.ok \/ p[n].token \notin used
    BY <1>1 DEF InService
  <2>. QED BY <2>1, <2>2 DEF InService
<1>. QED BY <1>3, <1>4

\* An answer to the first request that has none.
LEMMA ReplyOrderly ==
    ASSUME NEW q, NEW p, NEW n, NEW r, Replied(q, p, n, r), r # Unanswered, \A k \in 1 .. n - 1 : q[k].reply # Unanswered,
           NEW t, NEW pg, NEW used, Orderly(q, t, pg),
           q[n].kind = "rows" => r.ok \/ q[n].token \notin used
    PROVE  Orderly(p, t, pg) /\ (InService(q, used) => InService(p, used))
<1>0. Len(q) \in Nat /\ DOMAIN q = 1 .. Len(q)
  BY LenProperties DEF Replied, IsList
<1>1. \A k \in DOMAIN p : /\ k \in DOMAIN q /\ k \in Nat /\ p[k].kind = q[k].kind /\ p[k].token = q[k].token
                          /\ p[k].live = q[k].live
  BY <1>0 DEF Replied
<1>2. Orderly(p, t, pg)
  BY <1>1 DEF Orderly, Alters
<1>3. InService(q, used) => InService(p, used)
  <2>. SUFFICES ASSUME InService(q, used) PROVE InService(p, used)
    OBVIOUS
  <2>1. ASSUME NEW i \in DOMAIN p, NEW j \in DOMAIN p, i < j, p[i].reply = Unanswered PROVE p[j].reply = Unanswered
    <3>1. i # n /\ q[i].reply = Unanswered /\ i \in DOMAIN q /\ j \in DOMAIN q
      BY <2>1 DEF Replied
    <3>2. i \in Nat /\ j \in Nat /\ n \in Nat /\ i >= 1
      BY <1>0, <3>1 DEF Replied
    <3>3. i > n
      BY <3>1, <3>2
    <3>4. j # n
      BY <2>1, <3>2, <3>3
    <3>. QED BY <2>1, <3>1, <3>4 DEF InService, Replied
  <2>2. \A k \in DOMAIN p : p[k].kind = "rows" /\ p[k].reply # Unanswered => p[k].reply.ok \/ p[k].token \notin used
    <3>. SUFFICES ASSUME NEW k \in DOMAIN p, p[k].kind = "rows", p[k].reply # Unanswered
                  PROVE  p[k].reply.ok \/ p[k].token \notin used
      OBVIOUS
    <3>1. CASE k = n
      BY <3>1 DEF Replied
    <3>2. CASE k # n
      BY <3>2 DEF Replied, InService
    <3>. QED BY <3>1, <3>2
  <2>. QED BY <2>1, <2>2 DEF InService
<1>. QED BY <1>2, <1>3

\* One more request.
LEMMA SendCurrent ==
    ASSUME NEW s, NEW t, NEW pg, NEW T, NEW q, NEW used, NEW A, NEW R, NEW lost,
           CurrentClient(s, t, pg, T, q, used, A, R, lost), IsList(q), NEW m, m.reply = Unanswered, m.live, NEW pg2, NEW T2,
           ~lost => \A x \in T2 : x.guest => x.groups = t.groups,
           t.user # None /\ HasRepeater(pg2) => m.kind = "rows" \/ HasRepeater(pg),
           m.kind = "rows" \/ Alters(m) => m.token = t.user, m.kind = "rows" => t.user # None /\ ~t.waiting,
           Alters(m) => HasRepeater(pg2) /\ \A n \in DOMAIN q : q[n].kind # "save",
           \A n \in DOMAIN q : Alters(q[n]) => HasRepeater(pg2) /\ ~Alters(m) /\ m.kind \notin {"rows", "save"}
    PROVE  CurrentClient(s, t, pg2, T2, Append(q, m), used, A, R, lost)
<1>. DEFINE p == Append(q, m)
            N == Len(q) + 1
<1>1. /\ DOMAIN p = 1 .. N /\ DOMAIN q = 1 .. Len(q) /\ Len(q) \in Nat
      /\ \A n \in DOMAIN q : p[n] = q[n]
      /\ p[N] = m
  BY Appended
<1>2. \A kinds : Steadily(q, p, kinds)
  BY SentSteadily
<1>. HIDE DEF p
<1>3. /\ \A n \in DOMAIN p : n \in DOMAIN q \/ n = N
      /\ N \in DOMAIN p /\ \A n \in DOMAIN q : n \in DOMAIN p /\ n < N
  BY <1>1
<1>4. ~(N < N) /\ \A n \in DOMAIN q : ~(N < n)
  BY <1>1
<1>. HIDE DEF N
<1>5. GuestCurrent(s, t, T2, lost)
  BY DEF CurrentClient, GuestCurrent
<1>6. Orderly(p, t, pg2)
  <2>1. ASSUME NEW n \in DOMAIN p
        PROVE  /\ p[n].live
               /\ Alters(p[n]) \/ (p[n].kind = "rows" /\ t.user # None) => p[n].token = t.user
               /\ p[n].kind = "rows" => ~t.waiting
               /\ Alters(p[n]) => HasRepeater(pg2)
    BY <1>1, <1>3 DEF CurrentClient, Orderly
  <2>2. ASSUME NEW i \in DOMAIN p, NEW j \in DOMAIN p, Alters(p[i])
        PROVE  p[j].kind # "save" /\ (Alters(p[j]) => i = j) /\ (i < j => p[j].kind # "rows")
    <3>1. CASE i \in DOMAIN q /\ j \in DOMAIN q
      BY <1>1, <2>2, <3>1 DEF CurrentClient, Orderly
    <3>2. CASE i \in DOMAIN q /\ j = N
      BY <1>1, <2>2, <3>2
    <3>3. CASE i = N /\ j \in DOMAIN q
      BY <1>1, <1>4, <2>2, <3>3
    <3>4. CASE i = N /\ j = N
      BY <1>1, <1>4, <2>2, <3>4 DEF Alters
    <3>. QED BY <1>3, <3>1, <3>2, <3>3, <3>4
  <2>. QED BY <2>1, <2>2 DEF Orderly
<1>7. ASSUME ~lost PROVE InService(p, used)
  <2>1. InService(q, used)
    BY <1>7 DEF CurrentClient
  <2>2. ASSUME NEW i \in DOMAIN p, NEW j \in DOMAIN p, i < j, p[i].reply = Unanswered PROVE p[j].reply = Unanswered
    BY <1>1, <1>3, <1>4, <2>1, <2>2 DEF InService
  <2>3. \A n \in DOMAIN p : p[n].kind = "rows" /\ p[n].reply # Unanswered => p[n].reply.ok \/ p[n].token \notin used
    BY <1>1, <1>3, <2>1 DEF InService
  <2>. QED BY <2>2, <2>3 DEF InService
<1>8. ASSUME ~lost, t.user # None PROVE AnswersCurrent(t, p, Open(AnswersIn(A[t.user], R[t.user])))
  BY <1>2, <1>8, SteadyAnswers DEF CurrentClient, UserCurrent
<1>9. ASSUME ~lost, t.user # None, t.user \in used PROVE RowsCurrent(t, pg2, p, Ids(R[t.user][Rep]))
  <2>1. RowsCurrent(t, pg, q, Ids(R[t.user][Rep]))
    BY <1>9 DEF CurrentClient, UserCurrent
  <2>2. HasRepeater(pg2) /\ (\A n \in DOMAIN p : p[n].kind # "rows") =>
              HasRepeater(pg) /\ \A n \in DOMAIN q : q[n].kind # "rows"
    BY <1>1, <1>3, <1>9
  <2>. QED BY <1>2, <2>1, <2>2, SteadyRows
<1>10. ASSUME ~lost PROVE Turned(t, p, used)
  <2>1. Renews(p, q, t)
    BY RenewsSent DEF p
  <2>2. Turned(t, q, used)
    BY <1>10 DEF CurrentClient
  <2>. QED BY <2>1, <2>2, TurnedFrom
<1>11. CurrentClient(s, t, pg2, T2, p, used, A, R, lost)
  BY <1>5, <1>6, <1>7, <1>8, <1>9, <1>10 DEF CurrentClient, UserCurrent
<1>. QED BY <1>11 DEF p

\* Another page, or other timers, with the requests as they were.
LEMMA StayCurrent ==
    ASSUME NEW s, NEW t, NEW pg, NEW T, NEW q, NEW used, NEW A, NEW R, NEW lost,
           CurrentClient(s, t, pg, T, q, used, A, R, lost), NEW pg2, NEW T2,
           ~lost => \A x \in T2 : x.guest => x.groups = t.groups,
           t.user # None /\ HasRepeater(pg2) => HasRepeater(pg),
           \A n \in DOMAIN q : Alters(q[n]) => HasRepeater(pg2)
    PROVE  CurrentClient(s, t, pg2, T2, q, used, A, R, lost)
BY DEF CurrentClient, GuestCurrent, Orderly, UserCurrent, RowsCurrent

\* A session that has just begun has asked for what it shows.
LEMMA FreshCurrent ==
    ASSUME NEW s, NEW t, NEW pg, NEW T, NEW lost, GuestCurrent(s, t, T, lost), NEW q, NEW used, NEW A, NEW R,
           t.user # None => t.loading /\ ~HasRepeater(pg),
           \A n \in DOMAIN q : q[n].live /\ q[n].reply = Unanswered /\ q[n].kind \in {"me", "answers"}
    PROVE  CurrentClient(s, t, pg, T, q, used, A, R, lost)
<1>1. \A n \in DOMAIN q : ~Granted(q[n]) /\ ~Alters(q[n]) /\ q[n].kind # "rows"
  BY DEF Granted, Alters
<1>2. Orderly(q, t, pg) /\ InService(q, used) /\ Turned(t, q, used)
  BY <1>1 DEF Orderly, InService, Turned
<1>3. UserCurrent(t, pg, q, used, A, R)
  BY <1>1 DEF UserCurrent, AnswersCurrent, RowsCurrent, Tells
<1>. QED BY <1>2, <1>3 DEF CurrentClient

\* A guest's tab, which may wait for the rows of a session that was refused.
LEMMA AloneCurrent ==
    ASSUME NEW s, NEW t, NEW pg, NEW T, NEW lost, GuestCurrent(s, t, T, lost), t.user = None, ~t.waiting,
           NEW q, NEW used, NEW A, NEW R, ~lost => InService(q, used) /\ Turned(t, q, used),
           \A n \in DOMAIN q : q[n].live /\ q[n].kind \in {"login", "rows"}
    PROVE  CurrentClient(s, t, pg, T, q, used, A, R, lost)
BY DEF CurrentClient, Orderly, Alters, UserCurrent

LEMMA ShowCurrent ==
    ASSUME NEW s, NEW t, NEW pg, NEW T, NEW q, NEW used, NEW A, NEW R, NEW lost,
           CurrentClient(s, t, pg, T, q, used, A, R, lost), IsList(q), NEW p, Show(p, t, q),
           t.user # None => t.token = t.user /\ ~t.waiting, \A n \in DOMAIN q : ~Alters(q[n])
    PROVE  CurrentClient(s, t, form'.page, timer', net', used, A, R, lost)
<1>1. PICK page \in Landings(p, t) :
          /\ form' = [Mounted(page, t) EXCEPT !.evaluated = Evaluated(Mounted(page, t), t)]
          /\ net' = IF HasRepeater(page) /\ t.user # None THEN Append(q, Msg("rows", t.token)) ELSE q
          /\ timer' = {}
  BY DEF Show
<1>2. form'.page = page
  BY <1>1 DEF Mounted
<1>3. CASE HasRepeater(page) /\ t.user # None
  <2>. DEFINE m == Msg("rows", t.token)
  <2>1. m.reply = Unanswered /\ m.live /\ m.kind = "rows" /\ m.token = t.user /\ ~Alters(m)
    BY <1>3 DEF Msg, Alters
  <2>2. net' = Append(q, m)
    BY <1>1, <1>3
  <2>. HIDE DEF m
  <2>3. CurrentClient(s, t, page, {}, Append(q, m), used, A, R, lost)
    BY <1>3, <2>1, SendCurrent
  <2>. QED BY <1>1, <1>2, <2>2, <2>3
<1>4. CASE ~(HasRepeater(page) /\ t.user # None)
  <2>1. CurrentClient(s, t, page, {}, q, used, A, R, lost)
    BY <1>4, StayCurrent
  <2>. QED BY <1>1, <1>2, <1>4, <2>1
<1>. QED BY <1>3, <1>4

\* A page that stays is the one it was, and is being saved as it was.
LEMMA KeepStays ==
    ASSUME NEW fm, NEW t, NEW q, Keep(fm, t, q),
           DOMAIN fm = FormFields
    PROVE  \/ \E p \in Landings(fm.page, t) \ {fm.page} : Show(p, t, q)
           \/ form'.page = fm.page /\ form'.saving = fm.saving /\ net' = q /\ UNCHANGED timer
<1>. DEFINE changed == t.token # tab.token
            known == IF changed THEN [fm EXCEPT !.captured = AnswersMap(tab)] ELSE fm
            seen == IF tab.loading /\ ~t.loading THEN Evaluated(known, t)
                    ELSE IF changed THEN Evaluated(known, [t EXCEPT !.answers = tab.answers])
                    ELSE Refreshed(known, t).evaluated
            f == Refreshed(known, t)
<1>1. \/ \E p \in Landings(fm.page, t) \ {fm.page} : Show(p, t, q)
      \/ form' = [f EXCEPT !.evaluated = seen] /\ net' = q /\ UNCHANGED timer
  BY DEF Keep
<1>2. known.page = fm.page /\ known.saving = fm.saving /\ DOMAIN known = DOMAIN fm
  OBVIOUS
<1>. HIDE DEF known, seen
<1>3. f.page = fm.page /\ f.saving = fm.saving /\ DOMAIN f = DOMAIN fm
  BY <1>2 DEF Refreshed
<1>. HIDE DEF f
<1>. QED BY <1>1, <1>3

LEMMA KeepCurrent ==
    ASSUME NEW s, NEW t, NEW fm, NEW q, NEW used, NEW A, NEW R, NEW lost,
           DOMAIN fm = FormFields,
           CurrentClient(s, t, fm.page, timer, q, used, A, R, lost), IsList(q), Keep(fm, t, q),
           t.user # None => t.token = t.user /\ ~t.waiting
    PROVE  CurrentClient(s, t, form'.page, timer', net', used, A, R, lost)
<1>1. ASSUME NEW p \in Landings(fm.page, t) \ {fm.page}, Show(p, t, q)
      PROVE  CurrentClient(s, t, form'.page, timer', net', used, A, R, lost)
  <2>1. ~HasRepeater(fm.page)
    BY <1>1 DEF Landings, HasRepeater
  <2>2. \A n \in DOMAIN q : ~Alters(q[n])
    BY <2>1 DEF CurrentClient, Orderly
  <2>. QED BY <1>1, <2>2, ShowCurrent
<1>. QED BY <1>1, KeepStays

CurrentAfter ==
    CurrentClient(store', tab', form'.page, timer', net', InUse(account), answer, rows, count.lost)

\* The tab, by the invariants.
LEMMA TabFacts ==
    ASSUME OwnInv, CurrentInv
    PROVE  /\ OwnTab(tab, form.page, said) /\ OwnNet(net, tab, form.page, said) /\ IsList(net)
           /\ OwnTimers(timer, tab, form.page, said) /\ store.token = tab.token
           /\ DOMAIN store = {"token", "profile", "guest"}
           /\ DOMAIN form = FormFields
           /\ tab.user # None => tab.token = tab.user /\ tab.user \in Account /\ ~tab.waiting
           /\ CurrentClient(store, tab, form.page, timer, net, InUse(account), answer, rows, count.lost)
           /\ GuestCurrent(store, tab, timer, count.lost) /\ Orderly(net, tab, form.page)
BY DEF OwnInv, OwnClient, OwnSession, OwnTab, OwnNet, OwnForm, OwnStore, CurrentInv, CurrentClient

LEMMA VisitCurrent ==
    ASSUME InTurn, OwnInv, CurrentInv, NEW p, Visit(p)
    PROVE  CurrentAfter
<1>1. ~Busy /\ Show(p, tab, net) /\ store' = store /\ tab' = tab
  BY DEF Visit, InTurn, MayMove
<1>2. \A n \in DOMAIN net : ~Alters(net[n])
  BY <1>1 DEF Busy, IsPlain, IsWrite, Alters
<1>3. CurrentClient(store, tab, form'.page, timer', net', InUse(account), answer, rows, count.lost)
  BY <1>1, <1>2, TabFacts, ShowCurrent
<1>. QED BY <1>1, <1>3 DEF CurrentAfter

LEMMA SendLoginCurrent ==
    ASSUME InTurn, OwnInv, CurrentInv, NEW i, SendLogin(i)
    PROVE  CurrentAfter
<1>. DEFINE m == [Msg("login", None) EXCEPT !.by = i]
<1>1. /\ ~Busy /\ ~tab.waiting /\ tab.user = None /\ form' = Mounted("home", tab) /\ timer' = {}
      /\ net' = Append(net, m) /\ store' = store /\ tab' = tab
  BY DEF SendLogin, InTurn, MayMove
<1>2. \A n \in DOMAIN net : FALSE
  <2>. SUFFICES ASSUME NEW n \in DOMAIN net PROVE FALSE
    OBVIOUS
  <2>1. IsPlain(net[n])
    BY <1>1, TabFacts, GuestNet DEF IsPlain
  <2>. QED BY <1>1, <2>1 DEF Busy
<1>3. m.reply = Unanswered /\ m.live /\ m.kind = "login" /\ ~Alters(m)
  BY DEF Msg, Alters
<1>4. form'.page = "home"
  BY <1>1 DEF Mounted
<1>. HIDE DEF m
<1>5. CurrentClient(store, tab, "home", {}, Append(net, m), InUse(account), answer, rows, count.lost)
  BY <1>1, <1>2, <1>3, TabFacts, SendCurrent
<1>. QED BY <1>1, <1>4, <1>5 DEF CurrentAfter

\* What is waited for after a reload.
LEMMA ReloadNet ==
    ASSUME InTurn, OwnInv, CurrentInv, Reload
    PROVE  \A n \in DOMAIN net' : net'[n].live /\ net'[n].reply = Unanswered /\ net'[n].kind \in {"me", "answers"}
<1>. DEFINE t0 == Fresh(store)
            W == Writes(net)
            q == [n \in DOMAIN W |-> [W[n] EXCEPT !.live = FALSE]]
            m == Msg("me", t0.token)
<1>1. ~Busy /\ net' = IF t0.waiting THEN Append(q, m) ELSE q
  BY DEF Reload, InTurn, MayMove
<1>2. IsList(W) /\ \A n \in DOMAIN W : FALSE
  <2>. DEFINE I == {n \in DOMAIN net : IsWrite(net[n])}
  <2>1. Thins(W, net, I)
    BY TabFacts, PickedThins DEF Writes
  <2>. HIDE DEF W
  <2>2. IsList(W) /\ \A n \in DOMAIN W : \E i \in I : W[n] = net[i]
    BY <2>1 DEF Thins
  <2>. QED BY <1>1, <2>2 DEF Busy, IsPlain
<1>. HIDE DEF W
<1>3. IsList(q) /\ \A n \in DOMAIN q : FALSE
  BY <1>2 DEF IsList
<1>. HIDE DEF q
<1>4. m.kind = "me" /\ m.reply = Unanswered /\ m.live
  BY DEF Msg
<1>. HIDE DEF m
<1>5. \A n \in DOMAIN Append(q, m) : Append(q, m)[n] = m
  BY <1>3, Appended
<1>. QED BY <1>1, <1>3, <1>4, <1>5

LEMMA ReloadCurrent ==
    ASSUME InTurn, OwnInv, CurrentInv, Reload
    PROVE  CurrentAfter
<1>. DEFINE t0 == Fresh(store)
            t == IF t0.waiting THEN t0
                 ELSE [t0 EXCEPT !.answers = store.guest.answers, !.groups = store.guest.groups,
                                 !.loading = FALSE]
<1>1. tab' = t /\ timer' = {} /\ store' = store
  BY DEF Reload
<1>2. GuestCurrent(store, t, {}, count.lost) /\ t.user = None
  BY DEF GuestCurrent, Fresh
<1>. HIDE DEF t
<1>3. CurrentClient(store, t, form'.page, {}, net', InUse(account), answer, rows, count.lost)
  BY <1>2, ReloadNet, FreshCurrent
<1>. QED BY <1>1, <1>3 DEF CurrentAfter

LEMMA ServiceThinned ==
    ASSUME NEW q, NEW I \in SUBSET DOMAIN q, NEW p, Thins(p, q, I), NEW used, InService(q, used)
    PROVE  InService(p, used)
<1>1. PICK h \in [DOMAIN p -> I] :
          /\ \A n \in DOMAIN p : p[n] = q[h[n]]
          /\ \A i, j \in DOMAIN p : i < j => h[i] < h[j]
  BY DEF Thins
<1>2. \A n \in DOMAIN p : h[n] \in DOMAIN q
  BY <1>1
<1>. QED BY <1>1, <1>2 DEF InService

\* When the session ends, rows may be left to wait for.
LEMMA EndedNet ==
    ASSUME NEW t, t.token = None, t.user = None, ~t.waiting, tab.token # None,
           NEW q, IsList(q), InLine(q), \A n \in DOMAIN q : q[n].kind \in {"me", "answers", "rows"}
    PROVE  /\ IsList(ProvidedNet(t, q)) /\ InLine(ProvidedNet(t, q))
           /\ \A n \in DOMAIN ProvidedNet(t, q) :
                 ProvidedNet(t, q)[n].kind = "rows" /\ \E i \in DOMAIN q : ProvidedNet(t, q)[n] = q[i]
           /\ \A used : InService(q, used) => InService(ProvidedNet(t, q), used)
<1>. DEFINE a == Cancel(q, {"answers"})
            b == Cancel(a, {"me"})
<1>1. /\ IsList(a) /\ InLine(a)
      /\ \A n \in DOMAIN a : a[n].kind \notin {"answers"} /\ \E i \in DOMAIN q : a[n] = q[i]
  BY Cancelled
<1>2. /\ IsList(b) /\ InLine(b)
      /\ \A n \in DOMAIN b : b[n].kind \notin {"me"} /\ \E i \in DOMAIN a : b[n] = a[i]
  <2>. HIDE DEF a
  <2>. QED BY <1>1, Cancelled
<1>3. ASSUME NEW used, InService(q, used) PROVE InService(b, used)
  <2>1. InService(a, used)
    BY <1>3, PickedThins, ServiceThinned DEF Cancel
  <2>. HIDE DEF a
  <2>. QED BY <1>1, <2>1, PickedThins, ServiceThinned DEF Cancel
<1>4. ProvidedNet(t, q) = b
  <2>1. (a \o <<>>) = a
    <3>. HIDE DEF a
    <3>. QED BY <1>1, Appended
  <2>2. (b \o <<>>) = b
    <3>. HIDE DEF b
    <3>. QED BY <1>2, Appended
  <2>. QED BY <2>1, <2>2 DEF ProvidedNet
<1>. HIDE DEF b
<1>5. ASSUME NEW n \in DOMAIN b PROVE b[n].kind = "rows" /\ \E i \in DOMAIN q : b[n] = q[i]
  <2>1. PICK i \in DOMAIN a : b[n] = a[i] /\ b[n].kind # "me"
    BY <1>2
  <2>2. PICK j \in DOMAIN q : a[i] = q[j] /\ a[i].kind # "answers"
    BY <1>1
  <2>. QED BY <2>1, <2>2
<1>. QED BY <1>2, <1>3, <1>4, <1>5

LEMMA LogoutCurrent ==
    ASSUME InTurn, OwnInv, CurrentInv, Logout
    PROVE  CurrentAfter
<1>. DEFINE t1 == SignedOut(tab)
            t == Provided(t1, store')
            q == ProvidedNet(t1, net)
<1>1. ~Busy /\ tab.user # None /\ tab' = t /\ Show("home", t, q)
  BY DEF Logout, InTurn, MayMove
<1>2. ~tab.waiting /\ tab.user = tab.token /\ tab.token # None
  BY <1>1, TabFacts
<1>3. /\ DOMAIN t1 = TabFields
      /\ t1.token = None /\ t1.user = None /\ t1.waiting = FALSE
  BY TabFacts DEF SignedOut, OwnTab
<1>. HIDE DEF t1
<1>4. t.user = None /\ t.answers = store'.guest.answers /\ t.groups = store'.guest.groups /\ ~t.loading
  BY <1>2, <1>3 DEF Provided
<1>. HIDE DEF t
<1>5. IsList(q) /\ \A n \in DOMAIN q : FALSE
  <2>1. \A n \in DOMAIN net : net[n].kind \in {"me", "answers"}
    BY <1>1, TabFacts DEF OwnNet, OwnMessage, Busy, IsPlain
  <2>2. IsList(q) /\ \A n \in DOMAIN q : q[n].kind = "rows" /\ \E i \in DOMAIN net : q[n] = net[i]
    BY <1>2, <1>3, <2>1, TabFacts, EndedNet DEF OwnNet
  <2>. HIDE DEF q
  <2>. QED BY <2>1, <2>2
<1>. HIDE DEF q
<1>6. GuestCurrent(store', t, {}, count.lost)
  BY <1>4 DEF GuestCurrent
<1>7. CurrentClient(store', t, "home", {}, q, InUse(account), answer, rows, count.lost)
  BY <1>4, <1>5, <1>6, FreshCurrent
<1>8. CurrentClient(store', t, form'.page, timer', net', InUse(account), answer, rows, count.lost)
  BY <1>1, <1>4, <1>5, <1>7, ShowCurrent
<1>. QED BY <1>1, <1>8 DEF CurrentAfter

\* The first answer arrives.
LEMMA ShiftCurrent ==
    ASSUME NEW s, NEW t, NEW pg, NEW T, NEW q, NEW used, NEW A, NEW R, NEW lost,
           CurrentClient(s, t, pg, T, q, used, A, R, lost), NEW p, Shifted(q, p), NEW t2, t2.user = t.user,
           t2.waiting = t.waiting, GuestCurrent(s, t2, T, lost), q[1].reply # Unanswered,
           t.user # None =>
              /\ \/ Tells(q[1]) /\ t2.answers = q[1].reply.got
                 \/ /\ ~Tells(q[1]) /\ t2.loading = t.loading
                    /\ t2.answers = IF q[1].kind = "remove" /\ Granted(q[1])
                                    THEN {i \in t.answers : i.row # q[1].row} ELSE t.answers
              /\ t2.groups = IF q[1].kind = "rows" /\ Granted(q[1]) THEN q[1].reply.got
                             ELSE IF Alters(q[1]) /\ Granted(q[1]) THEN Altered(t.groups, q[1]) ELSE t.groups
    PROVE  CurrentClient(s, t2, pg, T, p, used, A, R, lost)
<1>1. Orderly(p, t2, pg) /\ (InService(q, used) => InService(p, used))
  BY ShiftOrderly DEF CurrentClient
<1>2. ASSUME ~lost, t.user # None PROVE AnswersCurrent(t2, p, Open(AnswersIn(A[t.user], R[t.user])))
  <2>1. AnswersCurrent(t, q, Open(AnswersIn(A[t.user], R[t.user])))
    BY <1>2 DEF CurrentClient, UserCurrent
  <2>. QED BY <1>2, <2>1, ShiftAnswers
<1>3. ASSUME ~lost, t.user # None, t.user \in used PROVE RowsCurrent(t2, pg, p, Ids(R[t.user][Rep]))
  <2>1. RowsCurrent(t, pg, q, Ids(R[t.user][Rep])) /\ Orderly(q, t, pg)
    BY <1>3 DEF CurrentClient, UserCurrent
  <2>2. q[1].kind = "rows" => Granted(q[1])
    <3>1. 1 \in DOMAIN q /\ (q[1].kind = "rows" => q[1].token = t.user)
      BY <1>3 DEF Shifted, CurrentClient, Orderly
    <3>2. InService(q, used)
      BY <1>3 DEF CurrentClient
    <3>. QED BY <1>3, <3>1, <3>2 DEF InService, Granted
  <2>3. q[1].kind = "rows" => ~Alters(q[1])
    BY DEF Alters
  <2>. QED BY <1>3, <2>1, <2>2, <2>3, ShiftRows
<1>4. ASSUME ~lost PROVE Turned(t2, p, used)
  <2>1. Renews(p, q, t2)
    BY RenewsLeft
  <2>2. Turned(t, q, used)
    BY <1>4 DEF CurrentClient
  <2>. QED BY <2>1, <2>2, TurnedFrom
<1>. QED BY <1>1, <1>2, <1>3, <1>4 DEF CurrentClient, UserCurrent

\* An answer that brings no one in or out.
LEMMA EndedCurrent ==
    ASSUME OwnInv, CurrentInv, 1 \in DOMAIN net, net[1].reply # Unanswered, NEW t2, t2.user = tab.user, t2.waiting = tab.waiting,
           \/ tab.user # None \/ t2 = tab
           \/ count.lost /\ t2.loading = tab.loading /\ t2.answers = tab.answers,
           tab.user # None =>
              /\ \/ Tells(net[1]) /\ t2.answers = net[1].reply.got
                 \/ /\ ~Tells(net[1]) /\ t2.loading = tab.loading
                    /\ t2.answers = IF net[1].kind = "remove" /\ Granted(net[1])
                                    THEN {i \in tab.answers : i.row # net[1].row} ELSE tab.answers
              /\ t2.groups = IF net[1].kind = "rows" /\ Granted(net[1]) THEN net[1].reply.got
                             ELSE IF Alters(net[1]) /\ Granted(net[1]) THEN Altered(tab.groups, net[1])
                             ELSE tab.groups
    PROVE  CurrentClient(store, t2, form.page, timer, RemoveAt(net, 1), InUse(account), answer, rows, count.lost)
<1>1. Shifted(net, RemoveAt(net, 1))
  BY TabFacts, RemovedFirst
<1>2. GuestCurrent(store, t2, timer, count.lost)
  BY TabFacts DEF GuestCurrent, OwnTimers
<1>. QED BY <1>1, <1>2, TabFacts, ShiftCurrent

\* Also after a save of the form no change of the list is waited for.
LEMMA SavedNet ==
    ASSUME OwnInv, CurrentInv, 1 \in DOMAIN net, net[1].kind = "save"
    PROVE  \A n \in DOMAIN RemoveAt(net, 1) : ~Alters(RemoveAt(net, 1)[n])
<1>1. Shifted(net, RemoveAt(net, 1))
  BY TabFacts, RemovedFirst
<1>2. \A i \in DOMAIN net : ~Alters(net[i])
  BY TabFacts DEF Orderly
<1>. QED BY <1>1, <1>2, ShiftFacts

LEMMA SaveEndedCurrent ==
    ASSUME OwnInv, CurrentInv, 1 \in DOMAIN net, net[1].reply # Unanswered, net[1].kind \in {"save", "cell"},
           (SaveEnded(net[1], RemoveAt(net, 1)) /\ net[1].kind = "save") \/ CellEnded(net[1], RemoveAt(net, 1))
    PROVE  CurrentAfter
<1>. DEFINE m == net[1]
            q == RemoveAt(net, 1)
            t == IF ~m.reply.ok THEN tab ELSE [tab EXCEPT !.answers = m.reply.got]
            done == [form EXCEPT !.saving = FALSE, !.editing = @ /\ ~m.reply.ok]
            less == [form EXCEPT !.cells = @ \ UNION {Shown(@, i.row, i.field) : i \in m.items}]
<1>1. /\ store' = store /\ tab' = t
      /\ (Show("benefits", t, q) /\ m.kind = "save") \/ Keep(done, t, q) \/ Keep(less, t, q)
  BY DEF SaveEnded, CellEnded
<1>2. tab.user # None
  BY TabFacts DEF OwnNet, OwnMessage, Orderly
<1>3. /\ t.token = tab.token /\ t.user = tab.user /\ t.waiting = tab.waiting
      /\ t.loading = tab.loading /\ t.groups = tab.groups
      /\ t.answers = IF m.reply.ok THEN m.reply.got ELSE tab.answers
  BY TabFacts DEF OwnTab
<1>. HIDE DEF t
<1>4. Tells(m) <=> m.reply.ok
  BY DEF Tells, Granted
<1>5. m.kind # "rows" /\ ~Alters(m) /\ m.kind # "remove"
  BY DEF Alters
<1>6. CurrentClient(store, t, form.page, timer, q, InUse(account), answer, rows, count.lost)
  BY <1>2, <1>3, <1>4, <1>5, EndedCurrent
<1>7. DOMAIN done = DOMAIN form /\ done.page = form.page /\ DOMAIN less = DOMAIN form /\ less.page = form.page
  BY TabFacts
<1>8. IsList(q) /\ (t.user # None => t.token = t.user /\ ~t.waiting)
  BY <1>3, TabFacts, RemovedThins DEF Thins
<1>9. m.kind = "save" => \A n \in DOMAIN q : ~Alters(q[n])
  BY SavedNet
<1>. HIDE DEF q, m, done, less
<1>10. CurrentClient(store, t, form'.page, timer', net', InUse(account), answer, rows, count.lost)
  <2>1. CASE Show("benefits", t, q) /\ m.kind = "save"
    BY <1>6, <1>8, <1>9, <2>1, ShowCurrent
  <2>2. CASE Keep(done, t, q)
    BY <1>6, <1>7, <1>8, <2>2, TabFacts, KeepCurrent
  <2>3. CASE Keep(less, t, q)
    BY <1>6, <1>7, <1>8, <2>3, TabFacts, KeepCurrent
  <2>. QED BY <1>1, <2>1, <2>2, <2>3
<1>. QED BY <1>1, <1>10 DEF CurrentAfter

LEMMA AnswersCurrentAfter ==
    ASSUME OwnInv, CurrentInv, 1 \in DOMAIN net, net[1].kind = "answers", net[1].reply # Unanswered, net[1].reply.ok,
           tab' = [tab EXCEPT !.answers = net[1].reply.got, !.loading = FALSE],
           Keep(form, tab', RemoveAt(net, 1)), store' = store
    PROVE  CurrentAfter
<1>. DEFINE m == net[1]
            q == RemoveAt(net, 1)
            t == [tab EXCEPT !.answers = m.reply.got, !.loading = FALSE]
<1>1. tab' = t /\ Keep(form, t, q)
  OBVIOUS
<1>2. tab.user # None
  BY TabFacts DEF OwnNet, OwnMessage
<1>3. /\ t.token = tab.token /\ t.user = tab.user /\ t.waiting = tab.waiting
      /\ ~t.loading /\ t.groups = tab.groups /\ t.answers = m.reply.got
  BY TabFacts DEF OwnTab
<1>. HIDE DEF t
<1>4. Tells(m) /\ m.kind # "rows" /\ ~Alters(m)
  BY DEF Tells, Granted, Alters
<1>5. CurrentClient(store, t, form.page, timer, q, InUse(account), answer, rows, count.lost)
  BY <1>2, <1>3, <1>4, EndedCurrent
<1>6. IsList(q) /\ (t.user # None => t.token = t.user /\ ~t.waiting)
  BY <1>3, TabFacts, RemovedThins DEF Thins
<1>. HIDE DEF q, m
<1>7. CurrentClient(store, t, form'.page, timer', net', InUse(account), answer, rows, count.lost)
  BY <1>1, <1>5, <1>6, TabFacts, KeepCurrent
<1>. QED BY <1>1, <1>7 DEF CurrentAfter

LEMMA RowsCurrentAfter ==
    ASSUME OwnInv, CurrentInv, 1 \in DOMAIN net, net[1].reply # Unanswered,
           UNCHANGED <<store, form, timer>>, net' = RemoveAt(net, 1),
           \/ tab' = tab /\ ~net[1].reply.ok
           \/ net[1].reply.ok /\ net[1].kind = "rows" /\ tab' = [tab EXCEPT !.groups = net[1].reply.got]
           \/ net[1].reply.ok /\ net[1].kind = "add" /\ tab' = [tab EXCEPT !.groups = Append(@, net[1].reply.got)]
           \/ net[1].reply.ok /\ net[1].kind = "remove" /\ tab' = WithoutRow(tab, net[1].row)
    PROVE  CurrentAfter
<1>1. /\ DOMAIN tab = TabFields
      /\ net[1].live
  BY TabFacts DEF OwnTab, Orderly
<1>2. CASE tab' = tab /\ ~net[1].reply.ok
  <2>1. ~Granted(net[1]) /\ ~Tells(net[1])
    BY <1>2 DEF Tells, Granted
  <2>2. CurrentClient(store, tab, form.page, timer, RemoveAt(net, 1), InUse(account), answer, rows, count.lost)
    BY <2>1, EndedCurrent
  <2>. QED BY <1>2, <2>2 DEF CurrentAfter
<1>3. CASE net[1].reply.ok /\ net[1].kind \in {"rows", "add", "remove"}
  <2>1. Granted(net[1]) /\ ~Tells(net[1]) /\ (Alters(net[1]) <=> net[1].kind # "rows")
    BY <1>3 DEF Tells, Granted, Alters
  <2>2. tab.user # None \/ (count.lost /\ net[1].kind = "rows")
    BY <1>1, <1>3, <2>1, TabFacts DEF OwnNet, OwnMessage, CurrentClient, Turned
  <2>3. /\ tab'.user = tab.user /\ tab'.waiting = tab.waiting /\ tab'.loading = tab.loading
        /\ tab'.answers = IF net[1].kind = "remove" THEN {i \in tab.answers : i.row # net[1].row} ELSE tab.answers
        /\ tab'.groups = IF net[1].kind = "rows" THEN net[1].reply.got ELSE Altered(tab.groups, net[1])
    <3>1. CASE net[1].kind = "rows"
      BY <1>1, <1>3, <3>1
    <3>2. CASE net[1].kind = "add"
      BY <1>1, <1>3, <3>2 DEF Altered
    <3>3. CASE net[1].kind = "remove"
      BY <1>1, <1>3, <3>3 DEF Altered, WithoutRow
    <3>. QED BY <1>3, <3>1, <3>2, <3>3
  <2>. DEFINE t == tab'
  <2>. HIDE DEF t
  <2>4. CurrentClient(store, t, form.page, timer, RemoveAt(net, 1), InUse(account), answer, rows, count.lost)
    BY <2>1, <2>2, <2>3, EndedCurrent DEF t
  <2>. QED BY <2>4 DEF CurrentAfter, t
<1>. QED BY <1>2, <1>3

\* The session stands, or has just begun: its answers are read anew.
LEMMA AskedNet ==
    ASSUME NEW t, t.token # None, t.user = t.token, ~t.waiting, tab.waiting \/ tab.user = None,
           NEW q, IsList(q), \A n \in DOMAIN q : FALSE
    PROVE  /\ IsList(ProvidedNet(t, q))
           /\ \A n \in DOMAIN ProvidedNet(t, q) :
                 /\ ProvidedNet(t, q)[n].live /\ ProvidedNet(t, q)[n].reply = Unanswered
                 /\ ProvidedNet(t, q)[n].kind \in {"me", "answers"}
<1>. DEFINE c == Cancel(q, {"answers"})
            r == Msg("answers", t.token)
            b == Append(c, r)
            d == Cancel(b, {"me"})
            m == Msg("me", t.token)
            e == Append(d, m)
<1>1. /\ m.kind = "me" /\ m.live /\ m.reply = Unanswered
      /\ r.kind = "answers" /\ r.live /\ r.reply = Unanswered
  BY DEF Msg
<1>2. IsList(c) /\ \A n \in DOMAIN c : FALSE
  BY PickedThins DEF Cancel, Thins
<1>3. IsList(b) /\ (c \o <<r>>) = b /\ \A n \in DOMAIN b : b[n] = r
  <2>. HIDE DEF c, r
  <2>1. DOMAIN b = 1 .. Len(c) + 1 /\ DOMAIN c = 1 .. Len(c) /\ Len(c) \in Nat /\ b[Len(c) + 1] = r
    BY <1>2, Appended
  <2>2. \A n \in DOMAIN b : n \in DOMAIN c \/ n = Len(c) + 1
    BY <2>1
  <2>. QED BY <1>2, <2>1, <2>2, Appended
<1>4. IsList(d) /\ \A n \in DOMAIN d : d[n] = r
  <2>. HIDE DEF b, r
  <2>. DEFINE I == {n \in DOMAIN b : b[n].kind \notin {"me"}}
  <2>1. Thins(d, b, I)
    BY <1>3, PickedThins DEF Cancel
  <2>2. \A n \in I : b[n] = r
    BY <1>3
  <2>. HIDE DEF I, d
  <2>. QED BY <2>1, <2>2 DEF Thins
<1>5. IsList(e) /\ (d \o <<m>>) = e /\ \A n \in DOMAIN e : e[n] \in {r, m}
  <2>. HIDE DEF d, m, r
  <2>1. /\ DOMAIN e = 1 .. Len(d) + 1 /\ DOMAIN d = 1 .. Len(d) /\ Len(d) \in Nat /\ e[Len(d) + 1] = m
        /\ \A n \in DOMAIN d : e[n] = d[n]
    BY <1>4, Appended
  <2>2. \A n \in DOMAIN e : n \in DOMAIN d \/ n = Len(d) + 1
    BY <2>1
  <2>. QED BY <1>4, <2>1, <2>2, Appended
<1>6. ProvidedNet(t, q) = IF t.token = tab.token THEN b ELSE e
  <2>1. ~(t.waiting \/ <<t.waiting, t.user = None, t.token>> = <<tab.waiting, tab.user = None, tab.token>>)
    OBVIOUS
  <2>2. ProvidedNet(t, q) = IF t.token = tab.token THEN c \o <<r>> ELSE Cancel(c \o <<r>>, {"me"}) \o <<m>>
    BY <2>1 DEF ProvidedNet
  <2>. HIDE DEF c, r, m, b
  <2>. QED BY <1>3, <1>5, <2>2
<1>. HIDE DEF b, e, m, r
<1>. QED BY <1>1, <1>3, <1>5, <1>6

LEMMA SessionOkCurrent ==
    ASSUME OwnInv, CurrentInv, 1 \in DOMAIN net, net[1].kind = "me", net[1].reply # Unanswered, net[1].reply.ok,
           SessionChecked(net[1], RemoveAt(net, 1))
    PROVE  CurrentAfter
<1>. DEFINE m == net[1]
            q == RemoveAt(net, 1)
            t1 == [tab EXCEPT !.user = m.token, !.waiting = FALSE]
            t == Provided(t1, store)
            q1 == ProvidedNet(t1, q)
            page == IF Allowed(form.page, t) THEN form.page ELSE "home"
<1>1. /\ store' = store /\ tab' = t
      /\ IF tab.waiting \/ ~Allowed(form.page, t) THEN Show(page, t, q1) ELSE Keep(form, t, q1)
  BY DEF SessionChecked
<1>2. OwnTab(tab, form.page, said) /\ OwnNet(net, tab, form.page, said) /\ OwnTimers(timer, tab, form.page, said)
  BY TabFacts
<1>3. m.token = tab.token /\ m.token # None /\ (tab.waiting \/ form.page \in {"benefits", "form"})
  BY <1>2 DEF OwnNet, OwnMessage
<1>4. IsList(q) /\ (tab.waiting => \A n \in DOMAIN q : FALSE)
  <2>1. \A n \in DOMAIN q : q[n].kind \in {"answers", "rows"} \/ ~q[n].live
    BY <1>2, SessionNet
  <2>2. OwnNet(q, tab, form.page, said) /\ \A n \in DOMAIN q : \E i \in DOMAIN net : q[n] = net[i]
    BY <1>2, TabFacts, OwnRemoved DEF OwnInv, OwnClient
  <2>3. ASSUME tab.waiting, NEW n \in DOMAIN q PROVE FALSE
    <3>1. q[n].kind \in {"answers", "rows"} /\ q[n].kind # "rows" /\ OwnMessage(q[n], tab, form.page, said)
      BY <2>1, <2>2, <2>3, TabFacts DEF Orderly, OwnNet
    <3>. QED BY <1>2, <2>3, <3>1 DEF OwnMessage, OwnTab
  <2>. QED BY <2>2, <2>3 DEF OwnNet
<1>5. /\ DOMAIN t1 = TabFields
      /\ t1.token = tab.token /\ t1.user = tab.token /\ t1.waiting = FALSE
      /\ t1.answers = tab.answers /\ t1.loading = tab.loading /\ t1.groups = tab.groups
  BY <1>2, <1>3 DEF OwnTab
<1>6. CASE tab.waiting
  <2>. HIDE DEF q, m, t1
  <2>1. t.token = tab.token /\ t.user = tab.token /\ t.loading /\ ~t.waiting
    BY <1>2, <1>3, <1>5, <1>6 DEF Provided, OwnTab
  <2>. HIDE DEF t, page
  <2>2. /\ IsList(q1)
        /\ \A n \in DOMAIN q1 : q1[n].live /\ q1[n].reply = Unanswered /\ q1[n].kind \in {"me", "answers"}
    BY <1>3, <1>4, <1>5, <1>6, AskedNet
  <2>. HIDE DEF q1
  <2>3. GuestCurrent(store, t, {}, count.lost)
    BY <1>3, <2>1 DEF GuestCurrent
  <2>4. CurrentClient(store, t, "home", {}, q1, InUse(account), answer, rows, count.lost)
    BY <2>1, <2>2, <2>3, FreshCurrent DEF HasRepeater
  <2>5. \A n \in DOMAIN q1 : ~Alters(q1[n])
    BY <2>2 DEF Alters
  <2>6. CurrentClient(store, t, form'.page, timer', net', InUse(account), answer, rows, count.lost)
    BY <1>1, <1>6, <2>1, <2>2, <2>4, <2>5, ShowCurrent
  <2>. QED BY <1>1, <2>6 DEF CurrentAfter
<1>7. CASE ~tab.waiting
  <2>1. tab.user = tab.token /\ form.page \in {"benefits", "form"}
    BY <1>2, <1>3, <1>7 DEF OwnTab
  <2>2. ~Granted(m) \/ ~Tells(m)
    BY DEF Tells
  <2>. HIDE DEF t1
  <2>3. t = t1 /\ q1 = q
    <3>1. tab.waiting = FALSE /\ t1.waiting = FALSE /\ t1.token = tab.token
          /\ (t1.user = None) = (tab.user = None)
      BY <1>2, <1>5, <1>7, <2>1 DEF OwnTab
    <3>2. <<t1.waiting, t1.user = None, t1.token>> = <<tab.waiting, tab.user = None, tab.token>>
      BY <3>1
    <3>. QED BY <3>1, <3>2 DEF Provided, ProvidedNet
  <2>. HIDE DEF t, q1
  <2>4. Keep(form, t, q)
    <3>1. Allowed(form.page, t)
      BY <2>1 DEF Allowed
    <3>. QED BY <1>1, <1>7, <2>3, <3>1
  <2>5. ~Tells(m) /\ ~Alters(m) /\ m.kind # "rows" /\ m.kind # "remove"
    BY DEF Tells, Alters
  <2>6. t.user = tab.user /\ t.waiting = tab.waiting /\ t.loading = tab.loading /\ t.answers = tab.answers
        /\ t.groups = tab.groups /\ t.token = tab.token
    BY <1>2, <1>5, <1>7, <2>1, <2>3 DEF OwnTab
  <2>7. tab.user # None
    BY <1>3, <2>1
  <2>8. CurrentClient(store, t, form.page, timer, q, InUse(account), answer, rows, count.lost)
    BY <2>5, <2>6, <2>7, EndedCurrent
  <2>. HIDE DEF q, m
  <2>9. CurrentClient(store, t, form'.page, timer', net', InUse(account), answer, rows, count.lost)
    BY <1>4, <1>7, <2>1, <2>4, <2>6, <2>8, TabFacts, KeepCurrent
  <2>. QED BY <1>1, <2>9 DEF CurrentAfter
<1>. QED BY <1>6, <1>7

LEMMA SessionEndsCurrent ==
    ASSUME OwnInv, CurrentInv, 1 \in DOMAIN net, net[1].kind = "me", net[1].reply # Unanswered, ~net[1].reply.ok,
           SessionChecked(net[1], RemoveAt(net, 1))
    PROVE  CurrentAfter
<1>. DEFINE q == RemoveAt(net, 1)
            t1 == SignedOut(tab)
            s == [store EXCEPT !.token = None, !.profile = None]
            t == Provided(t1, s)
            q1 == ProvidedNet(t1, q)
            page == IF Allowed(form.page, t) THEN form.page ELSE "home"
<1>1. /\ store' = s /\ tab' = t
      /\ IF tab.waiting \/ ~Allowed(form.page, t) THEN Show(page, t, q1) ELSE Keep(form, t, q1)
  BY DEF SessionChecked
<1>2. OwnTab(tab, form.page, said) /\ OwnNet(net, tab, form.page, said) /\ OwnTimers(timer, tab, form.page, said)
  BY TabFacts
<1>3. tab.token # None /\ timer = {}
  BY <1>2, TabFacts DEF OwnNet, OwnMessage, OwnInv, OwnClient, OwnSession, Undrafted
<1>4. /\ OwnNet(q, tab, form.page, said)
      /\ \A n \in DOMAIN q : q[n].kind \in {"me", "answers", "rows"} /\ \E i \in DOMAIN net : q[n] = net[i]
  <2>1. \A n \in DOMAIN q : q[n].kind \in {"answers", "rows"} \/ ~q[n].live
    BY <1>2, SessionNet
  <2>2. OwnNet(q, tab, form.page, said) /\ \A n \in DOMAIN q : \E i \in DOMAIN net : q[n] = net[i]
    BY <1>2, TabFacts, OwnRemoved DEF OwnInv, OwnClient
  <2>. QED BY <2>1, <2>2, TabFacts DEF Orderly
<1>0. ASSUME ~count.lost PROVE InService(q, InUse(account))
  <2>1. Shifted(net, q)
    BY TabFacts, RemovedFirst
  <2>. QED BY <1>0, <2>1, TabFacts, ShiftOrderly DEF CurrentClient
<1>. HIDE DEF q
<1>5. /\ DOMAIN t1 = TabFields
      /\ t1.token = None /\ t1.user = None /\ t1.waiting = FALSE
  BY <1>2 DEF SignedOut, OwnTab
<1>6. s.guest = store.guest
  BY TabFacts
<1>. HIDE DEF t1, s
<1>7. /\ t.user = None /\ t.token = None /\ ~t.loading /\ ~t.waiting
      /\ t.answers = store.guest.answers /\ t.groups = store.guest.groups
  BY <1>3, <1>5, <1>6 DEF Provided
<1>. HIDE DEF t
<1>8. /\ IsList(q1) /\ \A n \in DOMAIN q1 : q1[n].kind = "rows" /\ \E i \in DOMAIN q : q1[n] = q[i]
      /\ ~count.lost => InService(q1, InUse(account))
  BY <1>0, <1>3, <1>4, <1>5, EndedNet DEF OwnNet
<1>. HIDE DEF q1, page
<1>9. ASSUME NEW pg PROVE CurrentClient(s, t, pg, {}, q1, InUse(account), answer, rows, count.lost)
  <2>1. GuestCurrent(s, t, {}, count.lost)
    BY <1>6, <1>7 DEF GuestCurrent
  <2>2. \A n \in DOMAIN q1 : q1[n].kind = "rows" /\ \E i \in DOMAIN net : q1[n] = net[i]
    BY <1>4, <1>8
  <2>3. ASSUME ~count.lost, NEW n \in DOMAIN q1 PROVE ~Granted(q1[n]) /\ q1[n].token \notin InUse(account)
    <3>1. PICK i \in DOMAIN net : net[i].kind = "rows" /\ q1[n] = net[i]
      BY <2>2
    <3>2. Turned(tab, net, InUse(account)) /\ net[1].token = tab.token
      BY <1>2, <2>3, TabFacts DEF CurrentClient, OwnNet, OwnMessage
    <3>3. ~Granted(net[i]) /\ tab.token \notin InUse(account)
      BY <3>1, <3>2 DEF Turned
    <3>4. net[i].token \notin InUse(account)
      BY <3>1, <3>2, <3>3, TabFacts DEF Turned, Orderly
    <3>. QED BY <3>1, <3>3, <3>4
  <2>4. ~count.lost => Turned(t, q1, InUse(account))
    BY <1>8, <2>3 DEF Turned
  <2>5. \A n \in DOMAIN q1 : q1[n].live
    BY <2>2, TabFacts DEF Orderly
  <2>. QED BY <1>7, <1>8, <2>1, <2>4, <2>5, AloneCurrent
<1>00. \A n \in DOMAIN q1 : ~Alters(q1[n])
  BY <1>8 DEF Alters
<1>10. CurrentClient(s, t, form'.page, timer', net', InUse(account), answer, rows, count.lost)
  <2>1. CASE Show(page, t, q1)
    <3>1. CurrentClient(s, t, page, {}, q1, InUse(account), answer, rows, count.lost)
      BY <1>9
    <3>. QED BY <1>7, <1>8, <1>00, <2>1, <3>1, ShowCurrent
  <2>2. CASE ~tab.waiting /\ Keep(form, t, q1)
    <3>1. CurrentClient(s, t, form.page, timer, q1, InUse(account), answer, rows, count.lost)
      BY <1>3, <1>9
    <3>. QED BY <1>7, <1>8, <2>2, <3>1, TabFacts, KeepCurrent
  <2>. QED BY <1>1, <2>1, <2>2 DEF page
<1>. QED BY <1>1, <1>10 DEF CurrentAfter

LEMMA ApplyLoginCurrent ==
    ASSUME OwnInv, CurrentInv, 1 \in DOMAIN net, net[1].kind = "login", net[1].reply # Unanswered, net[1].reply.ok,
           ApplyLogin(net[1], RemoveAt(net, 1))
    PROVE  CurrentAfter
<1>. DEFINE m == net[1]
            q == RemoveAt(net, 1)
            t1 == [tab EXCEPT !.token = m.reply.got, !.user = m.reply.got,
                              !.profile = IF m.by.via = "egov" THEN m.by.profile ELSE @]
            t == Provided(t1, store')
            q1 == ProvidedNet(t1, q)
<1>1. tab' = t /\ Show("benefits", t, q1)
  BY Zenon DEF ApplyLogin
<1>2. OwnTab(tab, form.page, said) /\ OwnNet(net, tab, form.page, said)
  BY TabFacts
<1>3. tab.user = None /\ ~tab.waiting /\ m.reply.got \in Account /\ tab.token = None
  BY <1>2, TabFacts DEF OwnNet, OwnMessage, OwnTab, Orderly
<1>4. OwnNet(q, tab, form.page, said) /\ \A n \in DOMAIN q : FALSE
  <2>1. OwnNet(q, tab, form.page, said) /\ \A n \in DOMAIN q : \E i \in DOMAIN net : i # 1 /\ q[n] = net[i]
    BY <1>2, TabFacts, OwnRemoved DEF OwnInv, OwnClient
  <2>. SUFFICES ASSUME NEW n \in DOMAIN q PROVE FALSE
    BY <2>1
  <2>2. PICK i \in DOMAIN net : i # 1
    BY <2>1
  <2>3. net[i].kind \in {"login", "rows"} /\ net[i].live /\ m.live
    BY <1>2, <1>3, TabFacts, GuestNet DEF Orderly
  <2>4. 1 < i
    <3>1. Len(net) \in Nat /\ DOMAIN net = 1 .. Len(net)
      BY <1>2, LenProperties DEF OwnNet, IsList
    <3>. QED BY <2>2, <3>1
  <2>5. Before(m, net[i]) /\ Beside(m, net[i])
    BY <1>2, <2>4 DEF OwnNet, InLine
  <2>. QED BY <2>3, <2>5 DEF Before, Beside
<1>. HIDE DEF q
<1>5. /\ DOMAIN t1 = TabFields
      /\ t1.token = m.reply.got /\ t1.user = m.reply.got /\ t1.waiting = FALSE /\ t1.token # None
  BY <1>2, <1>3, SignInAssumption DEF OwnTab
<1>. HIDE DEF t1, m
<1>6. t.token = t1.token /\ t.user = t1.user /\ t.loading /\ ~t.waiting
  BY <1>3, <1>5 DEF Provided
<1>. HIDE DEF t
<1>7. /\ IsList(q1)
      /\ \A n \in DOMAIN q1 : q1[n].live /\ q1[n].reply = Unanswered /\ q1[n].kind \in {"me", "answers"}
  BY <1>3, <1>4, <1>5, AskedNet DEF OwnNet
<1>. HIDE DEF q1
<1>8. GuestCurrent(store', t, {}, count.lost)
  BY <1>5, <1>6 DEF GuestCurrent
<1>9. CurrentClient(store', t, "home", {}, q1, InUse(account), answer, rows, count.lost)
  BY <1>6, <1>7, <1>8, FreshCurrent DEF HasRepeater
<1>10. \A n \in DOMAIN q1 : ~Alters(q1[n])
  BY <1>7 DEF Alters
<1>11. CurrentClient(store', t, form'.page, timer', net', InUse(account), answer, rows, count.lost)
  BY <1>1, <1>5, <1>6, <1>7, <1>9, <1>10, ShowCurrent
<1>. QED BY <1>1, <1>11 DEF CurrentAfter

LEMMA DeliverCurrent ==
    ASSUME InTurn, OwnInv, CurrentInv, NEW n \in DOMAIN net, Deliver(n)
    PROVE  CurrentAfter
<1>. DEFINE m == net[1]
            q == RemoveAt(net, 1)
<1>1. n = 1
  BY DEF Deliver, InTurn
<1>2. 1 \in DOMAIN net /\ m.reply # Unanswered /\ m.live /\ (m.kind \in {"me", "answers", "rows"} \/ IsWrite(m))
  BY <1>1, TabFacts DEF Deliver, Orderly, OwnNet, OwnMessage
<1>3. CASE ~m.reply.ok /\ m.kind \notin {"me", "save", "cell"}
  <2>1. UNCHANGED <<store, tab, form, timer>> /\ net' = q
    BY <1>1, <1>3 DEF Deliver
  <2>. QED BY <1>2, <1>3, <2>1, RowsCurrentAfter
<1>4. CASE ~(~m.reply.ok /\ m.kind \notin {"me", "save", "cell"})
  <2>1. CASE m.kind = "me"
    <3>1. SessionChecked(m, q)
      BY <1>1, <1>2, <1>4, <2>1 DEF Deliver
    <3>. QED BY <1>2, <2>1, <3>1, SessionOkCurrent, SessionEndsCurrent
  <2>2. CASE m.kind = "save" \/ m.kind = "cell"
    <3>1. (SaveEnded(m, q) /\ m.kind = "save") \/ CellEnded(m, q)
      BY <1>1, <1>2, <1>4, <2>2 DEF Deliver
    <3>. QED BY <1>2, <2>2, <3>1, SaveEndedCurrent
  <2>3. CASE m.kind = "login"
    <3>1. ApplyLogin(m, q)
      BY <1>1, <1>2, <1>4, <2>3 DEF Deliver
    <3>. QED BY <1>2, <1>4, <2>3, <3>1, ApplyLoginCurrent
  <2>4. CASE m.kind = "answers"
    <3>1. /\ tab' = [tab EXCEPT !.answers = m.reply.got, !.loading = FALSE]
          /\ Keep(form, tab', q) /\ store' = store
      BY <1>1, <1>2, <1>4, <2>4 DEF Deliver
    <3>. QED BY <1>2, <1>4, <2>4, <3>1, AnswersCurrentAfter
  <2>5. CASE m.kind \in {"rows", "add", "remove"}
    <3>1. /\ net' = q /\ UNCHANGED <<store, form, timer>>
          /\ \/ m.kind = "rows" /\ tab' = [tab EXCEPT !.groups = m.reply.got]
             \/ m.kind = "add" /\ tab' = [tab EXCEPT !.groups = Append(@, m.reply.got)]
             \/ m.kind = "remove" /\ tab' = WithoutRow(tab, m.row)
      BY <1>1, <1>2, <1>4, <2>5 DEF Deliver
    <3>. QED BY <1>2, <1>4, <2>5, <3>1, RowsCurrentAfter
  <2>. QED BY <1>2, <2>1, <2>2, <2>3, <2>4, <2>5 DEF IsWrite
<1>. QED BY <1>3, <1>4

\* What a guest does shows and is kept at once.
LEMMA GuestSaves ==
    ASSUME OwnInv, CurrentInv, tab.user = None, ~tab.waiting, NEW answers, NEW groups, NEW known, NEW s, NEW t,
           s = GuestStore(answers, known), t = GuestTab(answers, groups), ~count.lost => known = groups,
           NEW T, ~count.lost => \A x \in T : x.guest => x.groups = groups, NEW pg
    PROVE  /\ CurrentClient(s, t, pg, T, net, InUse(account), answer, rows, count.lost)
           /\ t.user = None /\ \A n \in DOMAIN net : ~Alters(net[n])
<1>1. \A n \in DOMAIN net : net[n].live /\ net[n].kind \in {"login", "rows"}
  BY TabFacts, GuestNet DEF Orderly
<1>2. /\ t.user = None /\ ~t.waiting /\ t.loading = tab.loading /\ t.answers = answers /\ t.groups = groups
      /\ s.guest = [answers |-> answers, groups |-> known]
  BY TabFacts DEF GuestStore, GuestTab, OwnTab
<1>3. ~tab.loading
  BY TabFacts DEF GuestCurrent
<1>4. GuestCurrent(s, t, T, count.lost)
  BY <1>2, <1>3 DEF GuestCurrent
<1>5. \A n \in DOMAIN net : ~Alters(net[n])
  BY <1>1 DEF Alters
<1>6. ~count.lost => InService(net, InUse(account)) /\ Turned(t, net, InUse(account))
  BY TabFacts, <1>2 DEF CurrentClient, Turned
<1>. QED BY <1>1, <1>2, <1>4, <1>5, <1>6, AloneCurrent

\* Details of the page do not matter.
LEMMA PageCurrent ==
    ASSUME OwnInv, CurrentInv, UNCHANGED <<store, tab, timer, net>>, form'.page = form.page
    PROVE  CurrentAfter
BY TabFacts DEF CurrentAfter

LEMMA TypingCurrent ==
    ASSUME OwnInv, CurrentInv, NEW f, NEW v, Typing(f, v) \/ StartEditing \/ CancelEditing
    PROVE  CurrentAfter
<1>1. UNCHANGED <<store, tab, timer, net>>
  BY DEF Typing, StartEditing, CancelEditing
<1>2. \/ form' = [form EXCEPT !.draft[f] = v]
      \/ form' = [form EXCEPT !.editing = TRUE, !.draft = DisplayValues(tab)]
      \/ form' = [form EXCEPT !.editing = FALSE]
  BY DEF Typing, StartEditing, CancelEditing
<1>3. form'.page = form.page
  BY <1>2, TabFacts
<1>. QED BY <1>1, <1>3, PageCurrent

LEMMA TypeAnsweredCurrent ==
    ASSUME OwnInv, CurrentInv, NEW f, NEW v, TypeAnswered(f, v)
    PROVE  CurrentAfter
<1>. DEFINE items == {[field |-> f, row |-> None, value |-> v]}
            m == [Msg("cell", tab.token) EXCEPT !.items = items]
<1>1. /\ timer' = timer /\ ~tab.waiting /\ form.page = "answered"
      /\ IF tab.user = None THEN GuestSubmit(items, tab.groups, form) /\ UNCHANGED net
         ELSE net' = Append(net, m) /\ UNCHANGED <<store, tab, form>>
  BY DEF TypeAnswered
<1>. HIDE DEF items
<1>2. CASE tab.user = None
  <2>. DEFINE answers == Merge(tab.answers, items)
  <2>1. /\ store' = GuestStore(answers, tab.groups)
        /\ tab' = [tab EXCEPT !.answers = answers] /\ form' = form /\ net' = net
    BY <1>1, <1>2 DEF GuestSubmit, SavedGuest, GuestStore
  <2>2. tab' = GuestTab(answers, tab.groups)
    BY <2>1, TabFacts DEF OwnTab, GuestTab
  <2>3. ~count.lost => \A x \in timer : x.guest => x.groups = tab.groups
    BY TabFacts DEF GuestCurrent
  <2>. HIDE DEF answers
  <2>. DEFINE s == GuestStore(answers, tab.groups)
              t == GuestTab(answers, tab.groups)
  <2>4. CurrentClient(s, t, form.page, timer, net, InUse(account), answer, rows, count.lost)
    BY <1>1, <1>2, <2>3, GuestSaves
  <2>. QED BY <1>1, <2>1, <2>2, <2>4 DEF CurrentAfter
<1>3. CASE tab.user # None
  <2>1. m.kind = "cell" /\ m.live /\ m.reply = Unanswered /\ ~Alters(m)
    BY DEF Msg, Alters
  <2>2. HasRepeater(form.page)
    BY <1>1 DEF HasRepeater
  <2>3. ~count.lost => \A x \in timer : x.guest => x.groups = tab.groups
    BY TabFacts DEF GuestCurrent
  <2>. HIDE DEF m
  <2>4. CurrentClient(store, tab, form.page, timer, Append(net, m), InUse(account), answer, rows, count.lost)
    BY <2>1, <2>2, <2>3, TabFacts, SendCurrent
  <2>. QED BY <1>1, <1>3, <2>4 DEF CurrentAfter
<1>. QED BY <1>2, <1>3

LEMMA SaveFormCurrent ==
    ASSUME InTurn, OwnInv, CurrentInv, SaveForm
    PROVE  CurrentAfter
<1>. DEFINE t == [tab EXCEPT !.answers = Merge(@, DraftItems)]
            m == [Msg("save", tab.token) EXCEPT !.items = DraftItems]
<1>1. /\ ~tab.waiting /\ ~Busy
      /\ IF tab.user = None
         THEN /\ store' = [store EXCEPT !.guest = SavedGuest(DraftItems, tab.groups)]
              /\ tab' = t
              /\ IF form.page = "form" THEN Show("benefits", t, net)
                 ELSE /\ form' = [Refreshed(form, t) EXCEPT !.evaluated = Evaluated(form, t)]
                      /\ UNCHANGED <<net, timer>>
         ELSE /\ net' = Append(net, m) /\ form' = [form EXCEPT !.saving = TRUE]
              /\ UNCHANGED <<store, tab, timer>>
  BY DEF SaveForm, InTurn, MayMove
<1>2. CASE tab.user = None
  <2>. DEFINE answers == Merge(tab.answers, DraftItems)
              s == GuestStore(answers, tab.groups)
  <2>1. t = GuestTab(answers, tab.groups) /\ s = GuestStore(answers, tab.groups)
    BY TabFacts DEF OwnTab, GuestTab
  <2>2. store' = s /\ tab' = t
    BY <1>1, <1>2 DEF SavedGuest, GuestStore
  <2>. HIDE DEF answers, t, s
  <2>3. ~count.lost => \A x \in timer : x.guest => x.groups = tab.groups
    BY TabFacts DEF GuestCurrent
  <2>4. /\ CurrentClient(s, t, form.page, timer, net, InUse(account), answer, rows, count.lost)
        /\ t.user = None /\ \A n \in DOMAIN net : ~Alters(net[n])
    BY <1>1, <1>2, <2>1, <2>3, GuestSaves
  <2>5. CurrentClient(s, t, form'.page, timer', net', InUse(account), answer, rows, count.lost)
    <3>1. CASE form.page = "form"
      <4>1. Show("benefits", t, net)
        BY <1>1, <1>2, <3>1
      <4>. QED BY <2>4, <4>1, TabFacts, ShowCurrent
    <3>2. CASE form.page # "form"
      <4>. DEFINE fresh == Refreshed(form, t)
                  e == Evaluated(form, t)
      <4>1. form' = [fresh EXCEPT !.evaluated = e] /\ net' = net /\ timer' = timer
        BY <1>1, <1>2, <3>2
      <4>. HIDE DEF e
      <4>2. DOMAIN fresh = DOMAIN form /\ fresh.page = form.page
        BY TabFacts DEF Refreshed
      <4>. HIDE DEF fresh
      <4>3. form'.page = form.page
        BY <4>1, <4>2, TabFacts
      <4>. QED BY <2>4, <4>1, <4>3
    <3>. QED BY <3>1, <3>2
  <2>. QED BY <2>2, <2>5 DEF CurrentAfter
<1>3. CASE tab.user # None
  <2>1. m.kind = "save" /\ m.live /\ m.reply = Unanswered /\ ~Alters(m)
    BY DEF Msg, Alters
  <2>2. \A n \in DOMAIN net : ~Alters(net[n])
    BY <1>1 DEF Busy, IsPlain, IsWrite, Alters
  <2>3. ~count.lost => \A x \in timer : x.guest => x.groups = tab.groups
    BY TabFacts DEF GuestCurrent
  <2>. HIDE DEF m
  <2>4. CurrentClient(store, tab, form.page, timer, Append(net, m), InUse(account), answer, rows, count.lost)
    BY <2>1, <2>2, <2>3, TabFacts, SendCurrent
  <2>5. form'.page = form.page
    BY <1>1, <1>3, TabFacts
  <2>. QED BY <1>1, <1>3, <2>4, <2>5 DEF CurrentAfter
<1>. QED BY <1>2, <1>3

LEMMA TypeCellCurrent ==
    ASSUME OwnInv, CurrentInv, NEW r, NEW c, NEW v, TypeCell(r, c, v)
    PROVE  CurrentAfter
<1>. DEFINE x == [row |-> r, field |-> c, value |-> v, token |-> tab.token,
                  guest |-> tab.user = None, groups |-> tab.groups]
            cells == (form.cells \ Shown(form.cells, r, c)) \cup {[row |-> r, field |-> c, value |-> v]}
<1>1. /\ UNCHANGED <<store, tab, net>>
      /\ form' = [form EXCEPT !.cells = cells]
      /\ timer' = {y \in timer : Cell(y.row, y.field) # Cell(r, c)} \cup {x}
  BY DEF TypeCell
<1>2. form'.page = form.page
  BY <1>1, TabFacts
<1>3. x.groups = tab.groups
  OBVIOUS
<1>. HIDE DEF x
<1>4. ~count.lost => \A y \in timer' : y.guest => y.groups = tab.groups
  BY <1>1, <1>3, TabFacts DEF GuestCurrent
<1>. DEFINE T == timer'
<1>. HIDE DEF T
<1>5. CurrentClient(store, tab, form.page, T, net, InUse(account), answer, rows, count.lost)
  BY <1>4, TabFacts, StayCurrent DEF Orderly, T
<1>. QED BY <1>1, <1>2, <1>5 DEF CurrentAfter, T

LEMMA ElapseCurrent ==
    ASSUME OwnInv, CurrentInv, NEW x, Elapse(x)
    PROVE  CurrentAfter
<1>. DEFINE items == TimerItems(x)
            m == [Msg("cell", x.token) EXCEPT !.items = items]
            cells == form.cells \ Shown(form.cells, x.row, x.field)
            T == timer \ {x}
<1>1. /\ x \in timer /\ timer' = T
      /\ IF x.guest THEN GuestSubmit(items, x.groups, [form EXCEPT !.cells = cells]) /\ UNCHANGED net
         ELSE net' = Append(net, m) /\ UNCHANGED <<store, tab, form>>
  BY DEF Elapse
<1>2. (x.guest <=> tab.user = None) /\ HasRepeater(form.page) /\ ~tab.waiting
  BY <1>1, TabFacts DEF OwnTimers
<1>3. x.guest /\ ~count.lost => x.groups = tab.groups
  BY <1>1, TabFacts DEF GuestCurrent
<1>4. ~count.lost => \A y \in T : y.guest => y.groups = tab.groups
  BY TabFacts DEF GuestCurrent
<1>. HIDE DEF items, cells, T
<1>5. CASE x.guest
  <2>. DEFINE answers == Merge(tab.answers, items)
  <2>1. /\ store' = GuestStore(answers, x.groups)
        /\ tab' = [tab EXCEPT !.answers = answers] /\ form' = [form EXCEPT !.cells = cells] /\ net' = net
    BY <1>1, <1>5 DEF GuestSubmit, SavedGuest, GuestStore
  <2>2. tab' = GuestTab(answers, tab.groups)
    BY <2>1, TabFacts DEF OwnTab, GuestTab
  <2>. HIDE DEF answers
  <2>. DEFINE s == GuestStore(answers, x.groups)
              t == GuestTab(answers, tab.groups)
  <2>3. CurrentClient(s, t, form.page, T, net, InUse(account), answer, rows, count.lost)
    BY <1>2, <1>3, <1>4, <1>5, GuestSaves
  <2>4. form'.page = form.page
    BY <2>1, TabFacts
  <2>. QED BY <1>1, <2>1, <2>2, <2>3, <2>4 DEF CurrentAfter
<1>6. CASE ~x.guest
  <2>1. m.kind = "cell" /\ m.live /\ m.reply = Unanswered /\ ~Alters(m)
    BY DEF Msg, Alters
  <2>. HIDE DEF m
  <2>2. CurrentClient(store, tab, form.page, T, Append(net, m), InUse(account), answer, rows, count.lost)
    BY <1>2, <1>4, <2>1, TabFacts, SendCurrent
  <2>. QED BY <1>1, <1>6, <2>2 DEF CurrentAfter
<1>. QED BY <1>5, <1>6

LEMMA HandleAddRowCurrent ==
    ASSUME InTurn, OwnInv, CurrentInv, HandleAddRow
    PROVE  CurrentAfter
<1>. DEFINE m == Msg("add", tab.token)
            groups == Append(tab.groups, NewRow)
<1>1. /\ ~Busy /\ UNCHANGED <<form, timer>> /\ ~tab.waiting /\ HasRepeater(form.page)
      /\ IF tab.user = None
         THEN /\ tab' = [tab EXCEPT !.groups = groups]
              /\ store' = [store EXCEPT !.guest = [answers |-> tab.answers, groups |-> groups]]
              /\ UNCHANGED net
         ELSE net' = Append(net, m) /\ UNCHANGED <<store, tab>>
  BY DEF HandleAddRow, InTurn, MayMove
<1>. HIDE DEF groups
<1>2. timer = {} /\ \A n \in DOMAIN net : ~Alters(net[n]) /\ net[n].kind # "save"
  BY <1>1 DEF Busy, IsPlain, IsWrite, Alters
<1>3. CASE tab.user = None
  <2>1. store' = GuestStore(tab.answers, groups) /\ net' = net
    BY <1>1, <1>3 DEF GuestStore
  <2>2. tab' = GuestTab(tab.answers, groups)
    BY <1>1, <1>3, TabFacts DEF OwnTab, GuestTab
  <2>. DEFINE s == GuestStore(tab.answers, groups)
              t == GuestTab(tab.answers, groups)
  <2>3. CurrentClient(s, t, form.page, timer, net, InUse(account), answer, rows, count.lost)
    BY <1>1, <1>2, <1>3, GuestSaves
  <2>. QED BY <1>1, <2>1, <2>2, <2>3 DEF CurrentAfter
<1>4. CASE tab.user # None
  <2>1. m.kind = "add" /\ m.live /\ m.reply = Unanswered /\ m.token = tab.user
    BY <1>4, TabFacts DEF Msg
  <2>. HIDE DEF m
  <2>2. CurrentClient(store, tab, form.page, timer, Append(net, m), InUse(account), answer, rows, count.lost)
    BY <1>1, <1>2, <2>1, TabFacts, SendCurrent
  <2>. QED BY <1>1, <1>4, <2>2 DEF CurrentAfter
<1>. QED BY <1>3, <1>4

LEMMA HandleDeleteRowCurrent ==
    ASSUME InTurn, OwnInv, CurrentInv, NEW r, HandleDeleteRow(r)
    PROVE  CurrentAfter
<1>. DEFINE m == [Msg("remove", tab.token) EXCEPT !.row = r]
            cells == {x \in form.cells : x.row # r}
            answers == {i \in tab.answers : i.row # r}
            groups == Picked(tab.groups, {n \in DOMAIN tab.groups : tab.groups[n] # r})
<1>1. /\ ~tab.waiting /\ HasRepeater(form.page) /\ timer' = timer \ Pending(r)
      /\ form' = [form EXCEPT !.cells = cells]
      /\ \A x \in timer : x.row = r
      /\ \A n \in DOMAIN net : ~IsWrite(net[n])
      /\ IF tab.user = None
         THEN /\ tab' = WithoutRow(tab, r)
              /\ store' = [store EXCEPT !.guest = [answers |-> tab'.answers, groups |-> tab'.groups]]
              /\ UNCHANGED net
         ELSE net' = Append(net, m) /\ UNCHANGED <<store, tab>>
  BY DEF HandleDeleteRow, InTurn
<1>2. timer' = {} /\ \A n \in DOMAIN net : ~Alters(net[n]) /\ net[n].kind # "save"
  BY <1>1 DEF Pending, IsWrite, Alters
<1>. HIDE DEF cells, answers, groups
<1>3. form'.page = form.page
  BY <1>1, TabFacts
<1>4. CASE tab.user = None
  <2>1. tab' = [tab EXCEPT !.groups = groups, !.answers = answers]
    BY <1>1, <1>4 DEF WithoutRow, groups, answers
  <2>2. tab' = GuestTab(answers, groups) /\ tab'.answers = answers /\ tab'.groups = groups
    BY <2>1, TabFacts DEF OwnTab, GuestTab
  <2>3. store' = GuestStore(answers, groups) /\ net' = net
    BY <1>1, <1>4, <2>2 DEF GuestStore
  <2>. DEFINE s == GuestStore(answers, groups)
              t == GuestTab(answers, groups)
  <2>4. CurrentClient(s, t, form.page, {}, net, InUse(account), answer, rows, count.lost)
    BY <1>1, <1>4, GuestSaves
  <2>. QED BY <1>2, <1>3, <2>2, <2>3, <2>4 DEF CurrentAfter
<1>5. CASE tab.user # None
  <2>1. m.kind = "remove" /\ m.live /\ m.reply = Unanswered /\ m.token = tab.user
    BY <1>5, TabFacts DEF Msg
  <2>. HIDE DEF m
  <2>2. CurrentClient(store, tab, form.page, {}, Append(net, m), InUse(account), answer, rows, count.lost)
    BY <1>1, <1>2, <2>1, TabFacts, SendCurrent
  <2>. QED BY <1>1, <1>2, <1>3, <1>5, <2>2 DEF CurrentAfter
<1>. QED BY <1>4, <1>5

-----------------------------------------------------------------------------
(* The book and what is told of it *)

InScalars(x, scalars) ==
    x \in Book!Item /\ x.field \in Scalar /\ x.row = None /\ x.value = scalars[x.field]
InRow(x, f, r) ==
    \E c \in Book!Columns(f) : r.cell[c] # None /\ x = [field |-> c, row |-> r.id, value |-> r.cell[c]]
InRows(x, lists) == \E f \in Repeater : \E n \in DOMAIN lists[f] : InRow(x, f, lists[f][n])

\* Every row is told.
LEMMA AnswersMember ==
    ASSUME NEW scalars, NEW lists,
           \A f \in Repeater : IsList(lists[f]) /\ \A n \in DOMAIN lists[f] : n <= MaxRows, NEW x
    PROVE  x \in AnswersIn(scalars, lists) <=> InScalars(x, scalars) \/ InRows(x, lists)
<1>. DEFINE P == {p \in Repeater \X (1 .. MaxRows) : p[2] <= Len(lists[p[1]])}
            Cells(p) == {[field |-> c, row |-> lists[p[1]][p[2]].id, value |-> lists[p[1]][p[2]].cell[c]] :
                            c \in {c \in Book!Columns(p[1]) : lists[p[1]][p[2]].cell[c] # None}}
<1>1. \A p \in P : x \in Cells(p) <=> InRow(x, p[1], lists[p[1]][p[2]])
  BY DEF InRow
<1>2. ASSUME NEW p \in P PROVE p[1] \in Repeater /\ p[2] \in DOMAIN lists[p[1]]
  <2>1. p[1] \in Repeater /\ p[2] \in 1 .. MaxRows /\ p[2] <= Len(lists[p[1]])
    OBVIOUS
  <2>2. Len(lists[p[1]]) \in Nat /\ DOMAIN lists[p[1]] = 1 .. Len(lists[p[1]])
    BY <2>1, LenProperties DEF IsList
  <2>. QED BY <2>1, <2>2, BrowserAssumption
<1>3. ASSUME NEW f \in Repeater, NEW n \in DOMAIN lists[f] PROVE <<f, n>> \in P
  <2>1. Len(lists[f]) \in Nat /\ DOMAIN lists[f] = 1 .. Len(lists[f])
    BY LenProperties DEF IsList
  <2>2. n \in Nat /\ n >= 1 /\ n <= MaxRows /\ n <= Len(lists[f])
    BY <2>1
  <2>3. n \in 1 .. MaxRows
    BY <2>2, BrowserAssumption
  <2>. QED BY <2>2, <2>3
<1>4. (\E p \in P : x \in Cells(p)) <=> InRows(x, lists)
  <2>1. ASSUME NEW p \in P, x \in Cells(p) PROVE InRows(x, lists)
    <3>. HIDE DEF P, Cells
    <3>. QED BY <1>1, <1>2, <2>1 DEF InRows
  <2>2. ASSUME NEW f \in Repeater, NEW n \in DOMAIN lists[f], InRow(x, f, lists[f][n])
        PROVE  \E p \in P : x \in Cells(p)
    <3>1. <<f, n>> \in P /\ <<f, n>>[1] = f /\ <<f, n>>[2] = n
      BY <1>3
    <3>. HIDE DEF P, Cells
    <3>. QED BY <1>1, <2>2, <3>1
  <2>. HIDE DEF P, Cells
  <2>. QED BY <2>1, <2>2 DEF InRows
<1>5. x \in AnswersIn(scalars, lists) <=> InScalars(x, scalars) \/ \E p \in P : x \in Cells(p)
  BY DEF AnswersIn, InScalars
<1>. QED BY <1>4, <1>5

\* A value put is that of the item to the question, if there is one.
LEMMA PutEffect ==
    ASSUME NEW items, NEW f, NEW r, NEW old
    PROVE  /\ (\A i \in items : ~(i.field = f /\ i.row = r)) => Book!Put(items, f, r, old) = old
           /\ \A k \in items :
                 /\ k.field = f /\ k.row = r
                 /\ \A i \in items : i.field = f /\ i.row = r => i = k
                 => Book!Put(items, f, r, old) = k.value
BY DEF Book!Put

\* What is there of a row or a cell after a save.
LEMMA SaveEach ==
    ASSUME NEW S, OwnBook(answer, rows, S), NEW u \in Account, NEW items, Book!Save(u, items)
    PROVE  /\ DOMAIN rows' = Account /\ \A a \in Account : a # u => rows'[a] = rows[a]
           /\ DOMAIN rows'[u] = Repeater
           /\ \A f \in Repeater :
                 /\ DOMAIN rows'[u][f] = DOMAIN rows[u][f]
                 /\ \A n \in DOMAIN rows[u][f] :
                       /\ rows'[u][f][n].id = rows[u][f][n].id
                       /\ \A c \in Book!Columns(f) :
                             rows'[u][f][n].cell[c] = Book!Put(items, c, rows[u][f][n].id, rows[u][f][n].cell[c])
<1>. DEFINE L(f) == [n \in DOMAIN rows[u][f] |-> Book!PutRow(items, f, rows[u][f][n])]
            R == [f \in Repeater |-> L(f)]
<1>1. rows' = [rows EXCEPT ![u] = R] /\ DOMAIN rows = Account
  BY DEF Book!Save, OwnBook
<1>2. ASSUME NEW f \in Repeater, NEW n \in DOMAIN rows[u][f]
      PROVE  /\ L(f)[n].id = rows[u][f][n].id
             /\ \A c \in Book!Columns(f) :
                   L(f)[n].cell[c] = Book!Put(items, c, rows[u][f][n].id, rows[u][f][n].cell[c])
  <2>. DEFINE r == rows[u][f][n]
              new == [c \in Book!Columns(f) |-> Book!Put(items, c, r.id, r.cell[c])]
  <2>1. DOMAIN r = {"id", "cell"}
    BY DEF OwnBook, BookTold, RowTold
  <2>2. L(f)[n] = [r EXCEPT !.cell = new]
    BY DEF Book!PutRow, Book!Columns
  <2>. HIDE DEF r, L
  <2>3. \A c \in Book!Columns(f) : new[c] = Book!Put(items, c, r.id, r.cell[c])
    OBVIOUS
  <2>. HIDE DEF new
  <2>4. L(f)[n].id = r.id /\ L(f)[n].cell = new
    BY <2>1, <2>2
  <2>. QED BY <2>3, <2>4 DEF r
<1>3. \A f \in Repeater : DOMAIN L(f) = DOMAIN rows[u][f]
  OBVIOUS
<1>4. DOMAIN R = Repeater /\ \A f \in Repeater : R[f] = L(f)
  OBVIOUS
<1>. HIDE DEF L, R
<1>5. rows'[u] = R /\ DOMAIN rows' = Account /\ \A a \in Account : a # u => rows'[a] = rows[a]
  BY <1>1
<1>. QED BY <1>2, <1>3, <1>4, <1>5

\* A save changes no list.
LEMMA SaveLists ==
    ASSUME NEW S, OwnBook(answer, rows, S), NEW u \in Account, NEW items, Book!Save(u, items), BookRows(rows)
    PROVE  /\ BookRows(rows')
           /\ \A a \in Account, f \in Repeater : Ids(rows'[a][f]) = Ids(rows[a][f])
           /\ \A a \in Account : a # u => answer'[a] = answer[a] /\ rows'[a] = rows[a]
<1>1. /\ \A a \in Account : a # u => rows'[a] = rows[a]
      /\ \A f \in Repeater : /\ DOMAIN rows'[u][f] = DOMAIN rows[u][f]
                             /\ \A n \in DOMAIN rows[u][f] : rows'[u][f][n].id = rows[u][f][n].id
  BY SaveEach
<1>2. \A a \in Account, f \in Repeater :
          /\ DOMAIN rows'[a][f] = DOMAIN rows[a][f]
          /\ \A n \in DOMAIN rows[a][f] : rows'[a][f][n].id = rows[a][f][n].id
  BY <1>1
<1>3. BookRows(rows')
  BY <1>2 DEF BookRows
<1>4. \A a \in Account, f \in Repeater : Ids(rows'[a][f]) = Ids(rows[a][f])
  BY <1>2 DEF Ids
<1>5. \A a \in Account : a # u => answer'[a] = answer[a]
  BY SaveEffect DEF OwnBook
<1>. QED BY <1>1, <1>3, <1>4, <1>5

\* A sync changes no open answer.
LEMMA SyncOpen ==
    ASSUME NEW S, OwnBook(answer, rows, S), NEW u \in Account, NEW items, Book!Save(u, items), BookRows(rows),
           \A i \in items : i.field \in EgovField, NEW S2, OwnBook(answer', rows', S2), NEW a \in Account
    PROVE  Open(AnswersIn(answer'[a], rows'[a])) = Open(AnswersIn(answer[a], rows[a]))
<1>1. CASE a # u
  BY <1>1, SaveLists
<1>2. CASE a = u
  <2>1. \A f \in Repeater :
            /\ DOMAIN rows'[u][f] = DOMAIN rows[u][f]
            /\ \A n \in DOMAIN rows[u][f] :
                  /\ rows'[u][f][n].id = rows[u][f][n].id
                  /\ \A c \in Book!Columns(f) :
                        rows'[u][f][n].cell[c] = Book!Put(items, c, rows[u][f][n].id, rows[u][f][n].cell[c])
    BY SaveEach
  <2>2. \A f \in Repeater : \A c \in Book!Columns(f) : ~\E i \in items : i.field = c
    BY SignInAssumption DEF Book!Columns
  <2>3. ASSUME NEW x, NEW f \in Repeater, NEW n \in DOMAIN rows[u][f]
        PROVE  InRow(x, f, rows'[u][f][n]) <=> InRow(x, f, rows[u][f][n])
    <3>1. \A c \in Book!Columns(f) : rows'[u][f][n].cell[c] = rows[u][f][n].cell[c]
      BY <2>1, <2>2, PutEffect
    <3>2. rows'[u][f][n].id = rows[u][f][n].id
      BY <2>1
    <3>. QED BY <3>1, <3>2 DEF InRow
  <2>4. \A x : InRows(x, rows'[u]) <=> InRows(x, rows[u])
    BY <2>1, <2>3 DEF InRows
  <2>5. \A f \in Scalar : f \notin EgovField => answer'[u][f] = answer[u][f]
    BY SaveEffect DEF OwnBook
  <2>6. \A x : x.field \notin EgovField => (InScalars(x, answer'[u]) <=> InScalars(x, answer[u]))
    BY <2>5 DEF InScalars
  <2>7. \A f \in Repeater : IsList(rows[u][f]) /\ \A n \in DOMAIN rows[u][f] : n <= MaxRows
    BY DEF OwnBook, BookTold, BookRows
  <2>8. \A f \in Repeater : IsList(rows'[u][f]) /\ \A n \in DOMAIN rows'[u][f] : n <= MaxRows
    <3>1. \A f \in Repeater : IsList(rows'[u][f])
      BY DEF OwnBook, BookTold
    <3>. QED BY <2>1, <2>7, <3>1
  <2>9. \A x : x \in AnswersIn(answer[u], rows[u]) <=> InScalars(x, answer[u]) \/ InRows(x, rows[u])
    BY <2>7, AnswersMember
  <2>10. \A x : x \in AnswersIn(answer'[u], rows'[u]) <=> InScalars(x, answer'[u]) \/ InRows(x, rows'[u])
    BY <2>8, AnswersMember
  <2>. QED BY <1>2, <2>4, <2>6, <2>9, <2>10 DEF Open
<1>. QED BY <1>1, <1>2

\* A row shows after the others, and is blank.
LEMMA AddRowLists ==
    ASSUME NEW S, OwnBook(answer, rows, S), NEW u \in Account, NEW r, Book!AddRow(u, Rep, r), r # None,
           BookRows(rows), NEW S2, OwnBook(answer', rows', S2)
    PROVE  /\ BookRows(rows') /\ Ids(rows'[u][Rep]) = Append(Ids(rows[u][Rep]), r)
           /\ \A a \in Account : /\ a # u => rows'[a] = rows[a]
                                 /\ AnswersIn(answer'[a], rows'[a]) = AnswersIn(answer[a], rows[a])
<1>. DEFINE b == Book!BlankRow(Rep, r)
            s == rows[u][Rep]
            L == Append(s, b)
<1>0. Rep \in Repeater
  BY BrowserAssumption
<1>1. /\ DOMAIN rows = Account /\ DOMAIN rows[u] = Repeater /\ IsList(s) /\ Len(s) < MaxRows
      /\ rows' = [rows EXCEPT ![u] = [rows[u] EXCEPT ![Rep] = L]] /\ answer' = answer
  BY <1>0 DEF OwnBook, BookTold, Book!AddRow
<1>2. b.id = r /\ \A c \in Book!Columns(Rep) : b.cell[c] = None
  BY DEF Book!BlankRow
<1>. HIDE DEF b
<1>3. /\ Len(s) \in Nat /\ DOMAIN s = 1 .. Len(s) /\ DOMAIN L = 1 .. Len(s) + 1
      /\ \A n \in DOMAIN s : L[n] = s[n]
      /\ L[Len(s) + 1] = b
  BY <1>1, Appended
<1>4. \A n \in DOMAIN L : n \in DOMAIN s \/ (n = Len(s) + 1 /\ n <= MaxRows)
  BY <1>1, <1>3, BrowserAssumption
<1>. HIDE DEF L
<1>5. /\ \A a \in Account : a # u => rows'[a] = rows[a]
      /\ \A f \in Repeater : rows'[u][f] = IF f = Rep THEN L ELSE rows[u][f]
  BY <1>1
<1>6. BookRows(rows')
  <2>1. \A n \in DOMAIN L : n <= MaxRows /\ L[n].id # None
    BY <1>0, <1>2, <1>3, <1>4 DEF BookRows
  <2>. QED BY <1>5, <2>1 DEF BookRows
<1>7. Ids(L) = Append(Ids(s), r)
  <2>. DEFINE I == Ids(s)
  <2>1. DOMAIN I = DOMAIN s /\ \A n \in DOMAIN s : I[n] = s[n].id
    BY DEF Ids
  <2>2. IsList(I)
    <3>. DEFINE V == {s[n].id : n \in DOMAIN s}
    <3>1. [n \in 1 .. Len(s) |-> s[n].id] \in Seq(V)
      BY <1>3
    <3>2. I \in Seq(V)
      BY <1>3, <3>1 DEF Ids
    <3>. HIDE DEF V, I
    <3>. QED BY <3>2, ListFacts
  <2>. HIDE DEF I
  <2>3. /\ Len(I) \in Nat /\ DOMAIN I = 1 .. Len(I) /\ DOMAIN Append(I, r) = 1 .. Len(I) + 1
        /\ \A n \in DOMAIN I : Append(I, r)[n] = I[n]
        /\ Append(I, r)[Len(I) + 1] = r
    BY <2>2, Appended
  <2>4. Len(I) = Len(s)
    BY <1>3, <2>1, <2>3
  <2>5. Append(I, r) \in Seq({I[n] : n \in DOMAIN I} \cup {r})
    <3>. DEFINE V == {I[n] : n \in DOMAIN I}
    <3>1. I \in Seq(V \cup {r})
      BY <2>2, <2>3 DEF IsList
    <3>. HIDE DEF V
    <3>. QED BY <3>1 DEF V
  <2>6. Append(I, r) = [n \in DOMAIN L |-> L[n].id]
    <3>1. \A n \in DOMAIN L : Append(I, r)[n] = L[n].id
      BY <1>2, <1>3, <1>4, <2>1, <2>3, <2>4
    <3>2. DOMAIN Append(I, r) = DOMAIN L
      BY <1>3, <2>3, <2>4
    <3>3. \A V : \A q \in Seq(V) : q = [n \in DOMAIN q |-> q[n]]
      BY LenProperties
    <3>4. Append(I, r) = [n \in DOMAIN Append(I, r) |-> Append(I, r)[n]]
      BY <2>5, <3>3
    <3>. QED BY <3>1, <3>2, <3>4
  <2>. QED BY <2>6 DEF Ids, I
<1>8. \A x : InRows(x, rows'[u]) <=> InRows(x, rows[u])
  <2>1. \A x : ~InRow(x, Rep, b)
    BY <1>2 DEF InRow
  <2>2. \A x : (\E n \in DOMAIN L : InRow(x, Rep, L[n])) <=> (\E n \in DOMAIN s : InRow(x, Rep, s[n]))
    <3>1. \A n \in DOMAIN s : n \in DOMAIN L
      BY <1>3
    <3>. QED BY <1>3, <1>4, <2>1, <3>1
  <2>. QED BY <1>5, <2>2 DEF InRows
<1>9. ASSUME NEW a \in Account PROVE AnswersIn(answer'[a], rows'[a]) = AnswersIn(answer[a], rows[a])
  <2>1. CASE a # u
    BY <1>1, <1>5, <2>1
  <2>2. CASE a = u
    <3>1. \A f \in Repeater : IsList(rows[u][f]) /\ \A n \in DOMAIN rows[u][f] : n <= MaxRows
      BY DEF OwnBook, BookTold, BookRows
    <3>2. \A f \in Repeater : IsList(rows'[u][f]) /\ \A n \in DOMAIN rows'[u][f] : n <= MaxRows
      BY <1>6 DEF OwnBook, BookTold, BookRows
    <3>3. \A x : x \in AnswersIn(answer[u], rows[u]) <=> InScalars(x, answer[u]) \/ InRows(x, rows[u])
      BY <3>1, AnswersMember
    <3>4. \A x : x \in AnswersIn(answer'[u], rows'[u]) <=> InScalars(x, answer'[u]) \/ InRows(x, rows'[u])
      BY <3>2, AnswersMember
    <3>5. \A x : x \in AnswersIn(answer'[u], rows'[u]) <=> x \in AnswersIn(answer[u], rows[u])
      BY <1>1, <1>8, <3>3, <3>4
    <3>6. \A A, B : (\A x : x \in A <=> x \in B) => A = B
      OBVIOUS
    <3>7. AnswersIn(answer'[u], rows'[u]) = AnswersIn(answer[u], rows[u])
      BY <3>5, <3>6
    <3>. QED BY <2>2, <3>7
  <2>. QED BY <2>1, <2>2
<1>. QED BY <1>0, <1>5, <1>6, <1>7, <1>9

\* A row goes with its cells.
LEMMA DeleteRowLists ==
    ASSUME NEW S, OwnBook(answer, rows, S), NEW u \in Account, NEW r, Book!DeleteRow(u, Rep, r),
           BookRows(rows), NEW S2, OwnBook(answer', rows', S2)
    PROVE  /\ BookRows(rows') /\ \A a \in Account : a # u => answer'[a] = answer[a] /\ rows'[a] = rows[a]
           /\ Ids(rows'[u][Rep]) = Picked(Ids(rows[u][Rep]), {n \in DOMAIN Ids(rows[u][Rep]) : Ids(rows[u][Rep])[n] # r})
           /\ AnswersIn(answer'[u], rows'[u]) = Left(AnswersIn(answer[u], rows[u]), {r})
<1>. DEFINE s == rows[u][Rep]
            I == {i \in DOMAIN s : s[i].id # r}
            Nth(n) == CHOOSE i \in I : Cardinality({j \in I : j <= i}) = n
            N == Cardinality(I)
            L == Picked(s, I)
<1>0. Rep \in Repeater
  BY BrowserAssumption
<1>1. DOMAIN rows = Account /\ DOMAIN rows[u] = Repeater /\ IsList(s) /\ \E i \in DOMAIN s : s[i].id = r
  BY <1>0 DEF OwnBook, BookTold, Book!DeleteRow, Book!HasRow
<1>2. r # None
  BY <1>0, <1>1 DEF BookRows
<1>3. rows' = [rows EXCEPT ![u] = [rows[u] EXCEPT ![Rep] = L]] /\ answer' = answer
  <2>1. Book!Picked(s, I) = L
    BY DEF Picked, Book!Picked, Cardinality, Book!Cardinality, IsFiniteSet, Book!IsFiniteSet
  <2>. HIDE DEF L
  <2>. QED BY <1>1, <2>1 DEF Book!DeleteRow
<1>4. Len(s) \in Nat /\ DOMAIN s = 1 .. Len(s) /\ I \in SUBSET DOMAIN s
  BY <1>1, LenProperties DEF IsList
<1>5. IsFiniteSet(I) /\ N \in Nat /\ N <= Len(s) /\ I \in SUBSET Nat
  <2>1. IsFiniteSet(1 .. Len(s)) /\ Cardinality(1 .. Len(s)) = Len(s)
    BY <1>4, FS_Interval
  <2>. QED BY <1>4, <2>1, FS_Subset, FS_CardinalityType
<1>6. \A n \in 1 .. N : Nth(n) \in I
  BY <1>5, Ranked
<1>7. L = [n \in 1 .. N |-> s[Nth(n)]]
  BY DEF Picked
<1>8. Thins(L, s, I)
  BY <1>1, <1>4, PickedThins
<1>9. Picked(Ids(s), {n \in DOMAIN Ids(s) : Ids(s)[n] # r}) = [n \in 1 .. N |-> Ids(s)[Nth(n)]]
  <2>1. {n \in DOMAIN Ids(s) : Ids(s)[n] # r} = I
    BY DEF Ids
  <2>2. Picked(Ids(s), I) = [n \in 1 .. N |-> Ids(s)[Nth(n)]]
    BY DEF Picked
  <2>. QED BY <2>1, <2>2
<1>. HIDE DEF L, Nth, N
<1>10. Ids(L) = Picked(Ids(s), {n \in DOMAIN Ids(s) : Ids(s)[n] # r})
  <2>1. \A n \in 1 .. N : L[n].id = Ids(s)[Nth(n)]
    BY <1>4, <1>6, <1>7 DEF Ids
  <2>2. DOMAIN L = 1 .. N
    BY <1>7
  <2>. QED BY <1>9, <2>1, <2>2 DEF Ids
<1>11. /\ \A a \in Account : a # u => rows'[a] = rows[a]
       /\ \A f \in Repeater : rows'[u][f] = IF f = Rep THEN L ELSE rows[u][f]
  BY <1>1, <1>3
<1>12. \A n \in DOMAIN L : \E i \in DOMAIN s : s[i].id # r /\ L[n] = s[i]
  BY <1>8 DEF Thins
<1>13. \A i \in DOMAIN s : s[i].id # r => \E n \in DOMAIN L : L[n] = s[i]
  BY <1>8 DEF Thins
<1>14. BookRows(rows')
  <2>1. \A n \in DOMAIN L : n <= MaxRows /\ L[n].id # None
    <3>1. \A n \in DOMAIN L : n \in DOMAIN s
      BY <1>4, <1>5, <1>7
    <3>. QED BY <1>0, <1>12, <3>1 DEF BookRows
  <2>. QED BY <1>11, <2>1 DEF BookRows
<1>15. ASSUME NEW x PROVE InRows(x, rows'[u]) <=> InRows(x, rows[u]) /\ x.row # r
  <2>1. \A i \in DOMAIN s : InRow(x, Rep, s[i]) => x.row = s[i].id
    BY DEF InRow
  <2>2. (\E n \in DOMAIN L : InRow(x, Rep, L[n])) <=> (\E i \in DOMAIN s : InRow(x, Rep, s[i])) /\ x.row # r
    <3>1. ASSUME NEW n \in DOMAIN L, InRow(x, Rep, L[n]) PROVE (\E i \in DOMAIN s : InRow(x, Rep, s[i])) /\ x.row # r
      BY <1>12, <2>1, <3>1
    <3>2. ASSUME NEW i \in DOMAIN s, InRow(x, Rep, s[i]), x.row # r PROVE \E n \in DOMAIN L : InRow(x, Rep, L[n])
      BY <1>13, <2>1, <3>2
    <3>. QED BY <3>1, <3>2
  <2>3. \A f \in Repeater : DOMAIN rows[u][f] = {} \/ f = Rep
    BY DEF BookRows
  <2>. QED BY <1>0, <1>11, <2>2, <2>3 DEF InRows
<1>16. AnswersIn(answer'[u], rows'[u]) = Left(AnswersIn(answer[u], rows[u]), {r})
  <2>1. \A f \in Repeater : IsList(rows[u][f]) /\ \A n \in DOMAIN rows[u][f] : n <= MaxRows
    BY DEF OwnBook, BookTold, BookRows
  <2>2. \A f \in Repeater : IsList(rows'[u][f]) /\ \A n \in DOMAIN rows'[u][f] : n <= MaxRows
    BY <1>14 DEF OwnBook, BookTold, BookRows
  <2>3. \A x : x \in AnswersIn(answer[u], rows[u]) <=> InScalars(x, answer[u]) \/ InRows(x, rows[u])
    BY <2>1, AnswersMember
  <2>4. \A x : x \in AnswersIn(answer'[u], rows'[u]) <=> InScalars(x, answer'[u]) \/ InRows(x, rows'[u])
    BY <2>2, AnswersMember
  <2>5. \A x : InScalars(x, answer'[u]) <=> InScalars(x, answer[u]) /\ x.row # r
    BY <1>2, <1>3 DEF InScalars
  <2>6. \A x : x \in AnswersIn(answer'[u], rows'[u]) <=> x \in AnswersIn(answer[u], rows[u]) /\ x.row # r
    BY <1>15, <2>3, <2>4, <2>5
  <2>. DEFINE told == AnswersIn(answer[u], rows[u])
              rest == AnswersIn(answer'[u], rows'[u])
  <2>. HIDE DEF told, rest
  <2>7. \A x : x \in rest <=> x \in told /\ x.row # r
    BY <2>6 DEF told, rest
  <2>8. rest = Left(told, {r})
    BY <2>7 DEF Left
  <2>. QED BY <2>8 DEF told, rest
<1>. QED BY <1>0, <1>3, <1>10, <1>11, <1>14, <1>16

-----------------------------------------------------------------------------
(* What the server does of it *)

LEMMA AnsweredNet ==
    ASSUME OwnInv, CurrentInv, NEW n \in DOMAIN net, NEW r, Reply(n, r)
    PROVE  /\ DOMAIN net' = DOMAIN net /\ \A k \in DOMAIN net : k # n => net'[k] = net[k]
           /\ net'[n].reply = r /\ net'[n].kind = net[n].kind /\ net'[n].token = net[n].token
           /\ net'[n].row = net[n].row /\ net'[n].live = net[n].live /\ net'[n].items = net[n].items
           /\ Orderly(net', tab, form.page)
<1>1. net' = [net EXCEPT ![n] = [net[n] EXCEPT !.reply = r]] /\ Orderly(net, tab, form.page)
  BY TabFacts DEF Reply
<1>2. DOMAIN net[n] = MessageFields
  BY TabFacts DEF OwnNet, OwnMessage
<1>. DEFINE m == [net[n] EXCEPT !.reply = r]
<1>3. /\ m.reply = r /\ m.kind = net[n].kind /\ m.token = net[n].token /\ m.row = net[n].row
      /\ m.live = net[n].live /\ m.items = net[n].items
  BY <1>2
<1>. HIDE DEF m
<1>4. DOMAIN net' = DOMAIN net /\ net'[n] = m /\ \A k \in DOMAIN net : k # n => net'[k] = net[k]
  BY <1>1 DEF m
<1>5. \A k \in DOMAIN net : net'[k].kind = net[k].kind /\ net'[k].token = net[k].token /\ net'[k].live = net[k].live
  BY <1>3, <1>4
<1>6. Orderly(net', tab, form.page)
  BY <1>1, <1>4, <1>5 DEF Orderly, Alters
<1>. QED BY <1>3, <1>4, <1>6

\* The one that is answered is the first without an answer.
LEMMA RepliedNet ==
    ASSUME InTurn, OwnInv, CurrentInv, ~count.lost, NEW n \in DOMAIN net, NEW r, Reply(n, r), r # Unanswered,
           net[n].reply = Unanswered, Next1(n), net[n].kind = "rows" => r.ok \/ net[n].token \notin InUse(account)
    PROVE  Replied(net, net', n, r) /\ InService(net', InUse(account))
<1>1. InService(net, InUse(account)) /\ Orderly(net, tab, form.page) /\ IsList(net)
  BY TabFacts DEF CurrentClient
<1>2. Replied(net, net', n, r)
  BY <1>1, AnsweredNet DEF InService, Replied
<1>3. \A k \in 1 .. n - 1 : net[k].reply # Unanswered
  BY DEF Next1, InTurn
<1>. QED BY <1>1, <1>2, <1>3, ReplyOrderly

\* A session that is refused, or rows, are those of an account not in use.
LEMMA ReplyTurned ==
    ASSUME OwnInv, CurrentInv, ~count.lost, NEW n \in DOMAIN net, NEW r, Reply(n, r), net[n].reply = Unanswered,
           net[n].kind \in {"me", "rows"} => IF net[n].token \in InUse(account) THEN r.ok ELSE ~r.ok
    PROVE  Turned(tab, net', InUse(account))
<1>. DEFINE used == InUse(account)
<1>1. /\ DOMAIN net' = DOMAIN net /\ \A k \in DOMAIN net : k # n => net'[k] = net[k]
      /\ net'[n].reply = r /\ net'[n].kind = net[n].kind /\ net'[n].token = net[n].token
  BY AnsweredNet
<1>2. InService(net, used) /\ Turned(tab, net, used) /\ Orderly(net, tab, form.page)
  BY TabFacts DEF CurrentClient
<1>3. /\ \A k \in DOMAIN net : net[k].kind = "me" => net[k].token = tab.token
      /\ \A k \in DOMAIN net : net[k].kind = "rows" /\ tab.user # None => net[k].token = tab.token
  BY <1>2, TabFacts DEF OwnNet, OwnMessage, Orderly
<1>4. \A i, j \in DOMAIN net : net[i].kind = "me" /\ net[j].kind = "rows" => i < j
  BY TabFacts DEF OwnNet, IsList, InLine, Before
<1>. HIDE DEF used
<1>5. ASSUME NEW i \in DOMAIN net', NEW j \in DOMAIN net',
             net'[i].kind = "me", net'[i].reply # Unanswered, ~net'[i].reply.ok
      PROVE  net'[i].token \notin used /\ (net'[j].kind = "rows" => ~Granted(net'[j]))
  <2>1. net'[i].token \notin used
    <3>1. CASE i = n
      BY <1>1, <1>5, <3>1 DEF used
    <3>2. CASE i # n
      BY <1>1, <1>2, <1>5, <3>2 DEF Turned
    <3>. QED BY <3>1, <3>2
  <2>2. CASE j = n
    <3>. SUFFICES ASSUME net[n].kind = "rows", i # n PROVE ~r.ok
      BY <1>1, <1>5, <2>1, <2>2 DEF Granted
    <3>1. net[n].token \notin used
      <4>1. CASE tab.user = None
        BY <1>2, <4>1 DEF Turned
      <4>2. CASE tab.user # None
        <5>1. net[n].token = tab.token /\ net'[i].token = tab.token
          BY <1>1, <1>3, <1>5, <4>2
        <5>. QED BY <2>1, <5>1
      <4>. QED BY <4>1, <4>2
    <3>. QED BY <3>1 DEF used
  <2>3. CASE j # n /\ i = n
    <3>. SUFFICES ASSUME net[j].kind = "rows" PROVE ~Granted(net[j])
      BY <1>1, <2>1, <2>3
    <3>1. n < j
      BY <1>1, <1>4, <1>5, <2>3
    <3>2. net[j].reply = Unanswered
      BY <1>1, <1>2, <3>1 DEF InService
    <3>. QED BY <3>2 DEF Granted
  <2>4. CASE j # n /\ i # n
    BY <1>1, <1>2, <1>5, <2>4 DEF Granted, Turned
  <2>. QED BY <2>1, <2>2, <2>3, <2>4
<1>6. ASSUME NEW k \in DOMAIN net', tab.user = None, net'[k].kind = "rows"
      PROVE  ~Granted(net'[k]) /\ net'[k].token \notin used
  BY <1>1, <1>2, <1>6 DEF Granted, Turned, used
<1>. QED BY <1>5, <1>6 DEF Turned, used

LEMMA ServedCurrent ==
    ASSUME OwnInv, CurrentInv, NEW n \in DOMAIN net, NEW r, Reply(n, r), UNCHANGED <<store, tab, form, timer>>,
           BookRows(rows'), DOMAIN count' = {"edits", "moves", "lost", "ended"}, count.lost => count'.lost,
           ~count'.lost => /\ InService(net', InUse(account')) /\ Turned(tab, net', InUse(account'))
                           /\ UserCurrent(tab, form.page, net', InUse(account'), answer', rows')
    PROVE  CurrentInv'
<1>1. Orderly(net', tab, form.page) /\ GuestCurrent(store, tab, timer, count'.lost)
  BY AnsweredNet, TabFacts DEF GuestCurrent
<1>2. CurrentClient(store', tab', form'.page, timer', net', InUse(account'), answer', rows', count'.lost)
  BY <1>1 DEF CurrentClient
<1>. QED BY <1>2 DEF CurrentInv, InUse

LEMMA ServeReadCurrent ==
    ASSUME InTurn, OwnInv, CurrentInv, NEW n \in DOMAIN net, ServeRead(n)
    PROVE  CurrentInv'
<1>. DEFINE m == net[n]
            used == InUse(account)
            told == Open(AnswersIn(answer[tab.user], rows[tab.user]))
            list == Ids(rows[tab.user][Rep])
<1>1. /\ m.reply = Unanswered /\ Next1(n) /\ m.kind \in {"me", "answers", "rows"}
      /\ UNCHANGED <<server, store, tab, form, timer, kept, said, count>>
  BY DEF ServeRead
<1>2. PICK r : /\ Reply(n, r)
               /\ r = IF ~Authorized(m.token) THEN Refused
                      ELSE CASE m.kind = "me" -> Yes(None)
                             [] m.kind = "answers" -> Yes(AnswersOf(m.token))
                             [] OTHER -> Yes(RowsOf(m.token, Rep))
  BY DEF ServeRead
<1>3. /\ r = Refused \/ r.ok
      /\ r = Refused => ~r.ok /\ m.token \notin used
      /\ m.kind \in {"me", "rows"} /\ r.ok => m.token \in used
      /\ r # Unanswered
  <2>1. m.kind \in {"me", "rows"} => m.token \in Account
    BY TabFacts DEF OwnNet, OwnMessage, OwnTab
  <2>. QED BY <1>2, <2>1, ReplyKinds DEF Authorized, MayUse, InUse
<1>4. /\ r # Refused /\ m.kind = "answers" => r.got = AnswersOf(m.token)
      /\ r # Refused /\ m.kind = "rows" => r.got = RowsOf(m.token, Rep)
  BY <1>2, ReplyKinds
<1>5. /\ m.kind = "answers" => m.token = tab.user
      /\ m.kind = "rows" /\ tab.user # None => m.token = tab.user
  BY TabFacts DEF OwnNet, OwnMessage, Orderly
<1>6. /\ DOMAIN net' = DOMAIN net /\ \A k \in DOMAIN net : k # n => net'[k] = net[k]
      /\ net'[n].reply = r /\ net'[n].kind = m.kind /\ net'[n].token = m.token
  BY <1>2, AnsweredNet
<1>7. ASSUME ~count.lost PROVE Replied(net, net', n, r) /\ InService(net', used) /\ Turned(tab, net', used)
  BY <1>1, <1>2, <1>3, <1>7, RepliedNet, ReplyTurned
<1>8. ASSUME ~count.lost, tab.user # None PROVE AnswersCurrent(tab, net', told)
  <2>0. AnswersCurrent(tab, net, told)
    BY <1>8, TabFacts DEF CurrentClient, UserCurrent
  <2>1. CASE m.kind = "answers" /\ r # Refused
    <3>1. Tells(net'[n]) /\ r.got = AnswersIn(answer[tab.user], rows[tab.user])
      BY <1>3, <1>4, <1>5, <1>6, <2>1 DEF Tells, Granted, AnswersOf
    <3>. QED BY <1>7, <1>8, <3>1, ServedAnswers
  <2>2. CASE ~(m.kind = "answers" /\ r # Refused)
    <3>1. ~Counts(net'[n], {"answers", "save", "cell", "remove"})
      BY <1>1, <1>3, <1>6, <2>2 DEF Counts, Granted
    <3>2. Steadily(net, net', {"answers", "save", "cell", "remove"})
      BY <1>1, <1>6, <3>1, TabFacts, AnsweredSteadily
    <3>. QED BY <2>0, <3>2, SteadyAnswers
  <2>. QED BY <2>1, <2>2
<1>9. ASSUME ~count.lost, tab.user # None, tab.user \in used PROVE RowsCurrent(tab, form.page, net', list)
  <2>0. RowsCurrent(tab, form.page, net, list)
    BY <1>9, TabFacts DEF CurrentClient, UserCurrent
  <2>1. CASE m.kind = "rows" /\ r # Refused
    <3>1. Granted(net'[n]) /\ r.got = list
      BY <1>3, <1>4, <1>5, <1>6, <1>9, <2>1 DEF Granted, RowsOf, Ids
    <3>. QED BY <1>7, <1>9, <2>0, <2>1, <3>1, ServedRows
  <2>2. CASE ~(m.kind = "rows" /\ r # Refused)
    <3>1. ~Counts(net'[n], {"rows", "add", "remove"})
      BY <1>1, <1>3, <1>6, <2>2 DEF Counts, Granted
    <3>2. Steadily(net, net', {"rows", "add", "remove"})
      BY <1>1, <1>6, <3>1, TabFacts, AnsweredSteadily
    <3>3. (\A k \in DOMAIN net' : net'[k].kind # "rows") => \A k \in DOMAIN net : net[k].kind # "rows"
      BY <1>6
    <3>. QED BY <2>0, <3>2, <3>3, SteadyRows
  <2>. QED BY <2>1, <2>2
<1>10. ~count.lost => UserCurrent(tab, form.page, net', used, answer, rows)
  BY <1>8, <1>9 DEF UserCurrent
<1>11. UNCHANGED <<account, answer, rows, count>>
  BY <1>1 DEF server
<1>. QED BY <1>1, <1>2, <1>7, <1>10, <1>11, ServedCurrent DEF CurrentInv

LEMMA ServeWriteCurrent ==
    ASSUME InTurn, OwnInv, CurrentInv, NEW n \in DOMAIN net, ServeWrite(n)
    PROVE  CurrentInv'
<1>. DEFINE m == net[n]
            u == m.token
            used == InUse(account)
            T == {"answers", "save", "cell", "remove"}
            L == {"rows", "add", "remove"}
<1>1. /\ m.reply = Unanswered /\ Next1(n) /\ m.kind \in {"save", "cell", "add", "remove"}
      /\ UNCHANGED <<account, store, tab, form, timer, said, count>>
  BY DEF ServeWrite
<1>2. \/ Reply(n, Refused) /\ UNCHANGED <<answer, rows>>
      \/ m.kind \in {"save", "cell"} /\ Book!Save(u, m.items) /\ Reply(n, Yes(AnswersIn(answer'[u], rows'[u])))
      \/ m.kind = "add" /\ Book!AddRow(u, Rep, NewRow) /\ NewRow # None /\ Reply(n, Yes(NewRow))
      \/ m.kind = "remove" /\ Book!DeleteRow(u, Rep, m.row) /\ Reply(n, Yes(None))
  BY <1>1 DEF ServeWrite
<1>3. OwnBook(answer, rows, said) /\ OwnBook(answer', rows', said') /\ BookRows(rows)
  BY ServeWriteOwn DEF OwnInv, CurrentInv
<1>4. u \in Account /\ m.live /\ (m.kind \in {"add", "remove"} => Alters(m))
  BY <1>1, TabFacts DEF OwnNet, OwnMessage, Orderly, Alters
<1>5. u = tab.user
  BY <1>1, <1>4, TabFacts DEF OwnNet, OwnMessage, Orderly
<1>6. PICK r : /\ Reply(n, r)
               /\ \/ r = Refused /\ UNCHANGED <<answer, rows>>
                  \/ /\ m.kind \in {"save", "cell"} /\ Book!Save(u, m.items)
                     /\ r = Yes(AnswersIn(answer'[u], rows'[u]))
                  \/ m.kind = "add" /\ Book!AddRow(u, Rep, NewRow) /\ NewRow # None /\ r = Yes(NewRow)
                  \/ m.kind = "remove" /\ Book!DeleteRow(u, Rep, m.row) /\ r = Yes(None)
  BY <1>2
<1>7. r # Unanswered /\ m.kind # "rows"
  BY <1>1, <1>6, ReplyKinds
<1>8. /\ DOMAIN net' = DOMAIN net /\ \A k \in DOMAIN net : k # n => net'[k] = net[k]
      /\ net'[n].reply = r /\ net'[n].kind = m.kind /\ net'[n].token = m.token /\ net'[n].row = m.row
  BY <1>6, AnsweredNet
<1>9. (\A k \in DOMAIN net' : net'[k].kind # "rows") => \A k \in DOMAIN net : net[k].kind # "rows"
  BY <1>8
<1>10. ASSUME NEW kinds, ~Counts(net'[n], kinds) PROVE Steadily(net, net', kinds)
  BY <1>1, <1>8, <1>10, TabFacts, AnsweredSteadily
<1>11. ASSUME ~count.lost PROVE Replied(net, net', n, r) /\ InService(net', used) /\ Turned(tab, net', used)
  BY <1>1, <1>6, <1>7, <1>11, RepliedNet, ReplyTurned
<1>12. ASSUME ~count.lost
       PROVE  /\ AnswersCurrent(tab, net, Open(AnswersIn(answer[u], rows[u])))
              /\ u \in used => RowsCurrent(tab, form.page, net, Ids(rows[u][Rep]))
  BY <1>4, <1>5, <1>12, TabFacts, SignInAssumption DEF CurrentClient, UserCurrent
<1>. DEFINE Goal == /\ BookRows(rows')
                    /\ ~count.lost =>
                          /\ AnswersCurrent(tab, net', Open(AnswersIn(answer'[u], rows'[u])))
                          /\ u \in used => RowsCurrent(tab, form.page, net', Ids(rows'[u][Rep]))
<1>13. ASSUME r = Refused /\ UNCHANGED <<answer, rows>> PROVE Goal
  <2>1. ~Counts(net'[n], T) /\ ~Counts(net'[n], L)
    BY <1>8, <1>13, ReplyKinds DEF Counts, Granted
  <2>2. Steadily(net, net', T) /\ Steadily(net, net', L)
    BY <1>10, <2>1
  <2>3. /\ ~count.lost => AnswersCurrent(tab, net', Open(AnswersIn(answer[u], rows[u])))
        /\ ~count.lost /\ u \in used => RowsCurrent(tab, form.page, net', Ids(rows[u][Rep]))
    BY <1>9, <1>12, <2>2, SteadyAnswers, SteadyRows
  <2>4. answer' = answer /\ rows' = rows
    BY <1>13
  <2>. QED BY <1>3, <2>3, <2>4
<1>14. ASSUME m.kind \in {"save", "cell"} /\ Book!Save(u, m.items) /\ r = Yes(AnswersIn(answer'[u], rows'[u])) PROVE Goal
  <2>1. r.ok /\ r.got = AnswersIn(answer'[u], rows'[u])
    BY <1>14, ReplyKinds
  <2>2. ~Counts(net'[n], L) /\ Tells(net'[n])
    BY <1>7, <1>8, <1>14, <2>1 DEF Counts, Tells, Granted
  <2>3. Steadily(net, net', L)
    BY <1>10, <2>2
  <2>4. BookRows(rows') /\ Ids(rows'[u][Rep]) = Ids(rows[u][Rep])
    BY <1>3, <1>4, <1>14, SaveLists, BrowserAssumption
  <2>5. ~count.lost => AnswersCurrent(tab, net', Open(AnswersIn(answer'[u], rows'[u])))
    <3>1. ~count.lost => AnswersCurrent(tab, net', Open(r.got))
      BY <1>11, <2>2, ServedAnswers
    <3>. QED BY <2>1, <3>1
  <2>6. ~count.lost /\ u \in used => RowsCurrent(tab, form.page, net', Ids(rows'[u][Rep]))
    <3>1. ~count.lost /\ u \in used => RowsCurrent(tab, form.page, net', Ids(rows[u][Rep]))
      BY <1>9, <1>12, <2>3, SteadyRows
    <3>. QED BY <2>4, <3>1
  <2>. QED BY <2>4, <2>5, <2>6
<1>15. ASSUME m.kind = "add" /\ Book!AddRow(u, Rep, NewRow) /\ NewRow # None /\ r = Yes(NewRow) PROVE Goal
  <2>1. r.ok /\ r.got = NewRow
    BY <1>15, ReplyKinds
  <2>2. ~Counts(net'[n], T) /\ Granted(net'[n])
    BY <1>7, <1>8, <1>15, <2>1 DEF Counts, Granted
  <2>3. Steadily(net, net', T)
    BY <1>10, <2>2
  <2>4. /\ BookRows(rows') /\ Ids(rows'[u][Rep]) = Append(Ids(rows[u][Rep]), NewRow)
        /\ AnswersIn(answer'[u], rows'[u]) = AnswersIn(answer[u], rows[u])
    BY <1>3, <1>4, <1>15, AddRowLists
  <2>5. Altered(Ids(rows[u][Rep]), net'[n]) = Ids(rows'[u][Rep])
    BY <1>8, <1>15, <2>1, <2>4 DEF Altered
  <2>6. ~count.lost /\ u \in used => RowsCurrent(tab, form.page, net', Ids(rows'[u][Rep]))
    BY <1>4, <1>11, <1>12, <1>15, <2>2, <2>5, ServedAlters, TabFacts
  <2>7. ~count.lost => AnswersCurrent(tab, net', Open(AnswersIn(answer'[u], rows'[u])))
    <3>1. ~count.lost => AnswersCurrent(tab, net', Open(AnswersIn(answer[u], rows[u])))
      BY <1>12, <2>3, SteadyAnswers
    <3>. QED BY <2>4, <3>1
  <2>. QED BY <2>4, <2>6, <2>7
<1>16. ASSUME m.kind = "remove" /\ Book!DeleteRow(u, Rep, m.row) /\ r = Yes(None) PROVE Goal
  <2>1. r.ok
    BY <1>16, ReplyKinds
  <2>2. Granted(net'[n])
    BY <1>7, <1>8, <1>16, <2>1 DEF Granted
  <2>3. /\ BookRows(rows')
        /\ Ids(rows'[u][Rep]) = Picked(Ids(rows[u][Rep]), {k \in DOMAIN Ids(rows[u][Rep]) : Ids(rows[u][Rep])[k] # m.row})
        /\ Open(AnswersIn(answer'[u], rows'[u])) = Left(Open(AnswersIn(answer[u], rows[u])), {m.row})
    <3>1. /\ BookRows(rows')
          /\ Ids(rows'[u][Rep]) = Picked(Ids(rows[u][Rep]), {k \in DOMAIN Ids(rows[u][Rep]) : Ids(rows[u][Rep])[k] # m.row})
          /\ AnswersIn(answer'[u], rows'[u]) = Left(AnswersIn(answer[u], rows[u]), {m.row})
      BY <1>3, <1>4, <1>16, DeleteRowLists
    <3>2. Open(Left(AnswersIn(answer[u], rows[u]), {m.row})) = Left(Open(AnswersIn(answer[u], rows[u])), {m.row})
      BY DEF Open, Left
    <3>. QED BY <3>1, <3>2
  <2>4. Altered(Ids(rows[u][Rep]), net'[n]) = Ids(rows'[u][Rep])
    BY <1>8, <1>16, <2>3 DEF Altered
  <2>5. ~count.lost /\ u \in used => RowsCurrent(tab, form.page, net', Ids(rows'[u][Rep]))
    BY <1>4, <1>11, <1>12, <1>16, <2>2, <2>4, ServedAlters, TabFacts
  <2>6. ~count.lost => AnswersCurrent(tab, net', Open(AnswersIn(answer'[u], rows'[u])))
    BY <1>11, <1>12, <1>16, <2>2, <2>3, ServedRemoval
  <2>. QED BY <2>3, <2>5, <2>6
<1>17. Goal
  BY <1>6, <1>13, <1>14, <1>15, <1>16
<1>18. ~count.lost => UserCurrent(tab, form.page, net', used, answer', rows')
  BY <1>5, <1>17 DEF UserCurrent
<1>. QED BY <1>1, <1>6, <1>11, <1>17, <1>18, ServedCurrent DEF CurrentInv

\* What is lost is never mistaken for an answer.
LEMMA LoseCurrent ==
    ASSUME OwnInv, CurrentInv, NEW n \in DOMAIN net, Lose(n)
    PROVE  CurrentInv'
<1>1. /\ Reply(n, Refused) /\ UNCHANGED <<server, store, tab, form, timer>>
      /\ count' = [count EXCEPT !.moves = @ + 1, !.lost = TRUE]
  BY DEF Lose
<1>2. DOMAIN count' = {"edits", "moves", "lost", "ended"} /\ count'.lost
  BY <1>1 DEF CurrentInv
<1>. QED BY <1>1, <1>2, ServedCurrent DEF CurrentInv, server

\* Whoever may use his account after a sign-in, and had one, could before.
LEMMA FinishInUse ==
    ASSUME SignInInv, NEW b \in Browser, NEW a \in Account, FinishLogin(b, a)
    PROVE  /\ Stored(a)' /\ \A c \in Account : Stored(c) => Stored(c)'
           /\ \A c \in Account : Stored(c) /\ c \in InUse(account') => c \in InUse(account)
<1>. DEFINE i == login[b].by
            found == login[b].found
            bind == login[b].bind
<1>1. login[b] \in LoginRecord /\ login[b] # None
  BY DEF FinishLogin, SignInInv, SignInType
<1>2. i \in Identity /\ found \in Account \cup {None} /\ bind \in BOOLEAN
  BY <1>1 DEF LoginRecord
<1>3. Settles(i, found, bind, a) /\ (found # None => Stored(found) /\ account[found].email = i.email)
  BY <1>1 DEF FinishLogin, SignInInv, FoundMatches
<1>4. Stored(a)' /\ \A c \in Account : Stored(c) => Stored(c)'
  BY <1>2, <1>3, SettlesKeeps
<1>5. CASE found = None
  <2>. DEFINE x == NewAccount(i)
  <2>1. account' = [account EXCEPT ![a] = x] /\ ~Stored(a)
    BY <1>3, <1>5 DEF Settles, Stored
  <2>. HIDE DEF x
  <2>. QED BY <1>4, <2>1 DEF InUse
<1>6. CASE found # None
  <2>. DEFINE x == [account[a] EXCEPT !.google = i.sub]
  <2>1. account' = account \/ account' = [account EXCEPT ![a] = x]
    BY <1>3, <1>6 DEF Settles
  <2>2. a = found /\ Stored(a) /\ account[a] \in AccountRecord
    BY <1>2, <1>3, <1>6 DEF Settles, SignInInv, SignInType, Stored
  <2>3. x.status = account[a].status
    BY <2>2 DEF AccountRecord
  <2>. HIDE DEF x
  <2>. QED BY <1>4, <2>1, <2>2, <2>3 DEF InUse, Stored, SignInInv, SignInType
<1>. QED BY <1>4, <1>5, <1>6

\* Nobody but the tab changes what it is told, unless it is a synced answer.
LEMMA FinishBook ==
    ASSUME OwnInv, BookRows(rows), NEW b, NEW a \in Account, FinishLogin(b, a), Vouch(b, a)
    PROVE  /\ BookRows(rows')
           /\ \A c \in Account : /\ Open(AnswersIn(answer'[c], rows'[c])) = Open(AnswersIn(answer[c], rows[c]))
                                 /\ Ids(rows'[c][Rep]) = Ids(rows[c][Rep])
<1>. DEFINE i == login[b].by
<1>1. OwnBook(answer, rows, said) /\ OwnBook(answer', rows', said')
  BY FinishOwn DEF OwnInv
<1>2. Sync(i, a) \/ UNCHANGED <<answer, rows>>
  BY DEF FinishLogin
<1>3. CASE Sync(i, a)
  <2>. DEFINE items(done) == {[field |-> f, row |-> None, value |-> i.profile[f]] : f \in done}
  <2>1. PICK done \in SUBSET {f \in EgovField : i.profile[f] # None} : Book!Save(a, items(done))
    BY <1>3 DEF Sync
  <2>2. \A x \in items(done) : x.field \in EgovField
    BY <2>1
  <2>. HIDE DEF items
  <2>3. BookRows(rows') /\ \A c \in Account : Ids(rows'[c][Rep]) = Ids(rows[c][Rep])
    BY <1>1, <2>1, SaveLists, BrowserAssumption
  <2>4. ASSUME NEW c \in Account PROVE Open(AnswersIn(answer'[c], rows'[c])) = Open(AnswersIn(answer[c], rows[c]))
    BY <1>1, <2>1, <2>2, SyncOpen
  <2>. QED BY <2>3, <2>4
<1>4. CASE UNCHANGED <<answer, rows>>
  BY <1>4
<1>. QED BY <1>2, <1>3, <1>4

\* The accounts and the answers the tab knows nothing of.
LEMMA OthersCurrent ==
    ASSUME NEW s, NEW t, NEW pg, NEW T, NEW q, NEW used, NEW A, NEW R, NEW lost,
           CurrentClient(s, t, pg, T, q, used, A, R, lost), NEW used2, NEW A2, NEW R2,
           t.user \in used2 => t.user \in used, \A n \in DOMAIN q : q[n].token \in used2 => q[n].token \in used,
           t.user # None => /\ Open(AnswersIn(A2[t.user], R2[t.user])) = Open(AnswersIn(A[t.user], R[t.user]))
                            /\ Ids(R2[t.user][Rep]) = Ids(R[t.user][Rep])
    PROVE  CurrentClient(s, t, pg, T, q, used2, A2, R2, lost)
<1>1. Orderly(q, t, pg) /\ GuestCurrent(s, t, T, lost)
  BY DEF CurrentClient
<1>2. InService(q, used) /\ Turned(t, q, used) => InService(q, used2) /\ Turned(t, q, used2)
  BY DEF InService, Turned
<1>3. UserCurrent(t, pg, q, used, A, R) => UserCurrent(t, pg, q, used2, A2, R2)
  BY DEF UserCurrent
<1>. QED BY <1>1, <1>2, <1>3 DEF CurrentClient

LEMMA SignedFacts ==
    ASSUME Signed, OwnInv, CurrentInv
    PROVE  /\ tab.user # None => tab.user \in Account /\ Stored(tab.user)
           /\ \A n \in DOMAIN net : net[n].token \in Account => Stored(net[n].token)
BY TabFacts, SignInAssumption DEF Signed, SoundClient, SoundTab, SoundNet, SoundMessage, Known

LEMMA ServeLoginCurrent ==
    ASSUME InTurn, SignInInv, OwnInv, CurrentInv, NEW n \in DOMAIN net, ServeLogin(n)
    PROVE  CurrentInv'
<1>. DEFINE m == net[n]
<1>1. /\ UNCHANGED <<store, tab, form, timer, count>> /\ m.reply = Unanswered /\ m.kind = "login" /\ Next1(n)
      /\ \/ UNCHANGED <<net, account, answer, rows>>
         \/ \E a \in Account :
               /\ FinishLogin("here", a) /\ Vouch("here", a)
               /\ Reply(n, IF account'[a].status = "active" THEN Yes(a) ELSE Refused)
         \/ LoginFails("here") /\ Reply(n, Refused)
  BY DEF ServeLogin, FindAccount
<1>2. CASE UNCHANGED <<net, account, answer, rows>>
  BY <1>1, <1>2 DEF CurrentInv, InUse
<1>3. CASE ~UNCHANGED <<net, account, answer, rows>>
  <2>1. BookRows(rows')
    BY <1>1, <1>3, FinishBook DEF CurrentInv, LoginFails
  <2>2. PICK r : Reply(n, r) /\ r # Unanswered
    BY <1>1, <1>3, ReplyKinds
  <2>3. tab.user = None
    BY <1>1, TabFacts DEF OwnNet, OwnMessage, Orderly
  <2>4. ASSUME ~count.lost PROVE InService(net', InUse(account')) /\ Turned(tab, net', InUse(account'))
    <3>1. InService(net', InUse(account)) /\ Orderly(net', tab, form.page)
      BY <1>1, <2>2, <2>4, RepliedNet, AnsweredNet
    <3>2. m.live /\ n \in DOMAIN net
      BY TabFacts DEF Orderly
    <3>3. \A k \in DOMAIN net : net[k].kind \notin {"me", "rows"}
      BY <1>1, <3>2, TabFacts DEF OwnNet, InLine, Beside
    <3>4. \A k \in DOMAIN net' : net'[k].kind \notin {"me", "rows"}
      BY <2>2, <3>3, AnsweredNet
    <3>. QED BY <3>1, <3>4 DEF InService, Turned
  <2>5. UserCurrent(tab, form.page, net', InUse(account'), answer', rows')
    BY <2>3 DEF UserCurrent
  <2>. QED BY <1>1, <2>1, <2>2, <2>4, <2>5, ServedCurrent DEF CurrentInv
<1>. QED BY <1>2, <1>3

LEMMA ElsewhereCurrent ==
    ASSUME SignInInv, Signed, OwnInv, CurrentInv, Elsewhere
    PROVE  CurrentInv'
<1>1. /\ UNCHANGED <<store, tab, form, timer, net>>
      /\ count' = count \/ count' = [count EXCEPT !.moves = @ + 1]
      /\ \/ UNCHANGED <<account, answer, rows>>
         \/ \E a \in Account : FinishLogin("elsewhere", a) /\ Vouch("elsewhere", a)
  BY DEF Elsewhere, Move, FindAccount, LoginFails
<1>2. DOMAIN count' = {"edits", "moves", "lost", "ended"} /\ count'.lost = count.lost
  BY <1>1 DEF CurrentInv
<1>3. CASE UNCHANGED <<account, answer, rows>>
  BY <1>1, <1>2, <1>3 DEF CurrentInv, InUse
<1>4. CASE \E a \in Account : FinishLogin("elsewhere", a) /\ Vouch("elsewhere", a)
  <2>1. PICK a \in Account : FinishLogin("elsewhere", a) /\ Vouch("elsewhere", a)
    BY <1>4
  <2>2. /\ BookRows(rows')
        /\ \A c \in Account : /\ Open(AnswersIn(answer'[c], rows'[c])) = Open(AnswersIn(answer[c], rows[c]))
                              /\ Ids(rows'[c][Rep]) = Ids(rows[c][Rep])
    BY <2>1, FinishBook DEF CurrentInv
  <2>3. tab.user \in InUse(account') => tab.user \in InUse(account)
    <3>1. tab.user = None => tab.user \notin InUse(account')
      BY SignInAssumption DEF InUse
    <3>. QED BY <2>1, <3>1, SignedFacts, FinishInUse, BrowserAssumption
  <2>4. \A n \in DOMAIN net : net[n].token \in InUse(account') => net[n].token \in InUse(account)
    BY <2>1, SignedFacts, FinishInUse, BrowserAssumption DEF InUse
  <2>5. CurrentClient(store, tab, form.page, timer, net, InUse(account'), answer', rows', count.lost)
    BY <2>2, <2>3, <2>4, SignedFacts, TabFacts, OthersCurrent
  <2>. QED BY <1>1, <1>2, <2>2, <2>5 DEF CurrentInv, InUse
<1>. QED BY <1>1, <1>3, <1>4

LEMMA CloseCurrent ==
    ASSUME SignInInv, CurrentInv, OwnInv, CloseAccount
    PROVE  CurrentInv'
<1>1. /\ UNCHANGED <<store, tab, form, timer, net, answer, rows>>
      /\ count' = [count EXCEPT !.moves = @ + 1]
      /\ \E a \in Account : Close(a)
  BY DEF CloseAccount, Move, Close, client
<1>2. DOMAIN count' = {"edits", "moves", "lost", "ended"} /\ count'.lost = count.lost
  BY <1>1 DEF CurrentInv
<1>3. PICK a \in Account, s \in {"inactive", "deleted"} :
          MayUse(a) /\ account' = [account EXCEPT ![a].status = s]
  BY <1>1 DEF Close
<1>4. \A c \in InUse(account') : c \in InUse(account)
  <2>. SUFFICES ASSUME NEW c \in InUse(account'), c # a PROVE c \in InUse(account)
    BY <1>3 DEF InUse, MayUse
  <2>. QED BY <1>3 DEF InUse, SignInInv, SignInType
<1>5. CurrentClient(store, tab, form.page, timer, net, InUse(account'), answer, rows, count.lost)
  BY <1>4, TabFacts, OthersCurrent
<1>. QED BY <1>1, <1>2, <1>5 DEF CurrentInv, InUse

\* Accounts stay.
LEMMA StoredStays ==
    ASSUME SignInInv, Next
    PROVE  Known \subseteq Known'
<1>1. CASE UNCHANGED accounts
  BY <1>1 DEF accounts, Known, Stored
<1>2. CASE SignInStep
  <2>1. ASSUME NEW b \in Browser, NEW a \in Account, FinishLogin(b, a) PROVE Known \subseteq Known'
    BY <2>1, FinishInUse DEF Known
  <2>2. ASSUME NEW a \in Account, Close(a) PROVE Known \subseteq Known'
    <3>1. PICK s \in {"inactive", "deleted"} : account' = [account EXCEPT ![a].status = s]
      BY <2>2 DEF Close
    <3>. DEFINE x == [account[a] EXCEPT !.status = s]
    <3>2. account[a] \in AccountRecord /\ account' = [account EXCEPT ![a] = x]
      BY <2>2, <3>1, SignInAssumption DEF Close, MayUse, SignInInv, SignInType
    <3>3. x \in AccountRecord
      BY <3>2 DEF AccountRecord
    <3>. HIDE DEF x
    <3>. QED BY <3>2, <3>3, SignInAssumption DEF Known, Stored, SignInInv, SignInType
  <2>3. (\E b \in Browser, i \in Identity : FindAccount(b, i)) \/ (\E b \in Browser : LoginFails(b)) => account' = account
    BY DEF FindAccount, LoginFails
  <2>. QED BY <1>2, <2>1, <2>2, <2>3 DEF SignInStep, Known, Stored
<1>. QED BY <1>1, <1>2, OnlySignIn

LEMMA NextSigned == ASSUME SignInInv, Signed, [Next]_vars PROVE Signed'
<1>1. CASE UNCHANGED vars
  BY <1>1 DEF vars, server, client, Signed, Known, Stored
<1>2. CASE Next
  <2>1. Known \subseteq Known'
    BY <1>2, StoredStays
  <2>2. CASE SoundClient(store', tab', timer', net', Known, Known)
    BY <2>1, <2>2, SoundWidens DEF Signed
  <2>3. CASE \E n \in DOMAIN net : ServeLogin(n)
    <3>1. PICK n \in DOMAIN net : ServeLogin(n)
      BY <2>3
    <3>. DEFINE K == Known'
    <3>2. SoundClient(store, tab, timer, net, K, K)
      BY <2>1, SoundWidens DEF Signed
    <3>3. \A a \in Account : FinishLogin("here", a) => a \in K
      BY BrowserAssumption, FinishInUse DEF Known
    <3>. HIDE DEF K
    <3>4. SoundClient(store', tab', timer', net', K, K)
      BY <3>1, <3>2, <3>3, ServeLoginSound
    <3>. QED BY <3>4 DEF Signed, K
  <2>4. None \notin Known
    BY SignInAssumption DEF Known
  <2>. QED BY <1>2, <2>2, <2>3, <2>4, ClientStep DEF Signed
<1>. QED BY <1>1, <1>2

LEMMA InitSigned == Init => Signed
<1>. SUFFICES ASSUME Init PROVE Signed
  OBVIOUS
<1>1. SoundStore(store, Known) /\ SoundTab(tab, Known)
  BY DEF Init, Fresh, SoundStore, SoundTab
<1>2. timer = {} /\ net = <<>>
  BY DEF Init
<1>3. SoundNet(net, tab.token, Known, Known)
  <2>1. net \in Seq({})
    BY <1>2
  <2>. QED BY <2>1, SoundSeq
<1>. QED BY <1>1, <1>2, <1>3 DEF Signed, SoundClient, SoundTimers

LEMMA InitCurrent == Init => CurrentInv
<1>. SUFFICES ASSUME Init PROVE CurrentInv
  OBVIOUS
<1>1. /\ Book!Init /\ store = [token |-> None, profile |-> None, guest |-> NoAnswers]
      /\ tab = [Fresh(store) EXCEPT !.loading = FALSE] /\ form = Mounted("home", tab)
      /\ timer = {} /\ net = <<>> /\ count = [edits |-> 0, moves |-> 0, lost |-> FALSE, ended |-> FALSE]
  BY DEF Init, ServerInit
<1>2. BookRows(rows)
  <2>1. rows = [u \in Account |-> [f \in Repeater |-> <<>>]]
    BY <1>1 DEF Book!Init
  <2>. QED BY <2>1 DEF BookRows
<1>3. tab.user = None /\ ~tab.loading /\ tab.answers = {} /\ tab.groups = <<>>
  BY <1>1 DEF Fresh
<1>4. GuestCurrent(store, tab, timer, count.lost)
  BY <1>1, <1>3 DEF GuestCurrent, NoAnswers
<1>5. CurrentClient(store, tab, form.page, timer, net, InUse(account), answer, rows, count.lost)
  <2>1. \A n \in DOMAIN net : FALSE
    BY <1>1
  <2>. QED BY <1>3, <1>4, <2>1, FreshCurrent
<1>. QED BY <1>1, <1>2, <1>5 DEF CurrentInv

\* Every step keeps what the tab shows, or will show, what is kept.
LEMMA NextCurrent ==
    ASSUME InTurn, SignInInv, Signed, OwnInv, CurrentInv, [Next]_vars
    PROVE  CurrentInv'
<1>1. CASE UNCHANGED vars
  BY <1>1 DEF vars, server, client, CurrentInv, InUse
<1>. DEFINE Aside == UNCHANGED <<account, answer, rows>> /\ DOMAIN count' = DOMAIN count /\ count'.lost = count.lost
<1>2. ASSUME CurrentAfter, Aside PROVE CurrentInv'
  BY <1>2 DEF CurrentAfter, CurrentInv, InUse
<1>3. Move \/ Edit \/ UNCHANGED count => DOMAIN count' = DOMAIN count /\ count'.lost = count.lost
  BY DEF Move, Edit, CurrentInv
<1>. HIDE DEF Aside
<1>4. CASE Reload
  <2>1. Aside
    BY <1>3, <1>4 DEF Reload, server, Aside
  <2>. QED BY <1>2, <1>4, <2>1, ReloadCurrent
<1>5. CASE Logout
  <2>1. Aside
    BY <1>3, <1>5 DEF Logout, server, Aside
  <2>. QED BY <1>2, <1>5, <2>1, LogoutCurrent
<1>6. CASE StartEditing \/ CancelEditing
  <2>1. Aside
    BY <1>3, <1>6 DEF StartEditing, CancelEditing, server, Aside
  <2>. QED BY <1>2, <1>6, <2>1, TypingCurrent
<1>7. CASE SaveForm
  <2>1. Aside
    BY <1>3, <1>7 DEF SaveForm, server, Aside
  <2>. QED BY <1>2, <1>7, <2>1, SaveFormCurrent
<1>8. CASE HandleAddRow
  <2>1. Aside
    BY <1>3, <1>8 DEF HandleAddRow, server, Aside
  <2>. QED BY <1>2, <1>8, <2>1, HandleAddRowCurrent
<1>9. ASSUME NEW p, Visit(p) PROVE CurrentInv'
  <2>1. Aside
    BY <1>3, <1>9 DEF Visit, server, Aside
  <2>. QED BY <1>2, <1>9, <2>1, VisitCurrent
<1>10. ASSUME NEW i, SendLogin(i) PROVE CurrentInv'
  <2>1. Aside
    BY <1>3, <1>10 DEF SendLogin, server, Aside
  <2>. QED BY <1>2, <1>10, <2>1, SendLoginCurrent
<1>11. ASSUME NEW f \in Scalar, NEW v, Typing(f, v) \/ TypeAnswered(f, v) PROVE CurrentInv'
  <2>1. Aside
    BY <1>3, <1>11 DEF Typing, TypeAnswered, server, Aside
  <2>. QED BY <1>2, <1>11, <2>1, TypingCurrent, TypeAnsweredCurrent
<1>12. ASSUME NEW r, NEW c, NEW v, TypeCell(r, c, v) PROVE CurrentInv'
  <2>1. Aside
    BY <1>3, <1>12 DEF TypeCell, server, Aside
  <2>. QED BY <1>2, <1>12, <2>1, TypeCellCurrent
<1>13. ASSUME NEW x, Elapse(x) PROVE CurrentInv'
  <2>1. Aside
    BY <1>3, <1>13 DEF Elapse, server, Aside
  <2>. QED BY <1>2, <1>13, <2>1, ElapseCurrent
<1>14. ASSUME NEW r, HandleDeleteRow(r) PROVE CurrentInv'
  <2>1. Aside
    BY <1>3, <1>14 DEF HandleDeleteRow, server, Aside
  <2>. QED BY <1>2, <1>14, <2>1, HandleDeleteRowCurrent
<1>15. ASSUME NEW n \in DOMAIN net, Deliver(n) PROVE CurrentInv'
  <2>1. DOMAIN count' = DOMAIN count /\ count'.lost = count.lost
    BY <1>15 DEF Deliver, CurrentInv
  <2>2. Aside
    BY <1>15, <2>1 DEF Deliver, server, Aside
  <2>. QED BY <1>2, <1>15, <2>2, DeliverCurrent
<1>16. ASSUME NEW n \in DOMAIN net, ServeRead(n) \/ ServeWrite(n) \/ ServeLogin(n) \/ Lose(n) PROVE CurrentInv'
  BY <1>16, ServeReadCurrent, ServeWriteCurrent, ServeLoginCurrent, LoseCurrent
<1>17. Elsewhere \/ CloseAccount => CurrentInv'
  BY ElsewhereCurrent, CloseCurrent
<1>. QED
  BY <1>1, <1>4, <1>5, <1>6, <1>7, <1>8, <1>9, <1>10, <1>11, <1>12, <1>13, <1>14, <1>15, <1>16, <1>17 DEF Next

\* When all is saved and answered, what the tab shows is what is kept for this person
\* (ShownIsStored): whatever the accounts, the fields, the rows and the number of edits,
\* saves, reloads, sign-ins and closed accounts, if the requests are served in the order
\* sent and the person waits for what was sent before moving on
\* (answers-store.tsx:70-160, auth.tsx:70-155).
THEOREM ShownAlwaysStored == ASSUME InOrder, Settled, Patient PROVE Spec => []ShownIsStored
<1>. DEFINE Inv == SignInInv /\ Signed /\ OwnInv /\ CurrentInv
<1>1. Inv => ShownIsStored
  <2>. SUFFICES ASSUME OwnInv, CurrentInv, Quiet, ~tab.waiting, ~tab.loading, ~count.lost,
                       tab.user # None => MayUse(tab.user)
                PROVE  /\ Open(tab.answers) = Open(StoredAnswers)
                       /\ tab.user = None \/ HasRepeater(form.page) => tab.groups = StoredRows
    BY DEF ShownIsStored
  <2>1. \A n \in DOMAIN net : FALSE
    BY DEF Quiet
  <2>2. CASE tab.user = None
    BY <2>2, TabFacts DEF GuestCurrent, StoredAnswers, StoredRows
  <2>3. CASE tab.user # None
    <3>1. /\ AnswersCurrent(tab, net, Open(AnswersOf(tab.user)))
          /\ tab.user \in InUse(account) => RowsCurrent(tab, form.page, net, RowsOf(tab.user, Rep))
      BY <2>3, TabFacts DEF CurrentClient, UserCurrent, AnswersOf, RowsOf, Ids
    <3>2. tab.user \in InUse(account)
      BY <2>3, TabFacts DEF MayUse, InUse
    <3>3. Open(tab.answers) = Open(AnswersOf(tab.user))
      <4>1. Removals(net, 0) = {} /\ Latest(net, 0)
        BY <2>1 DEF Removals, Latest
      <4>2. Open(Left(tab.answers, {})) = Open(tab.answers)
        BY DEF Open, Left
      <4>. QED BY <3>1, <4>1, <4>2 DEF AnswersCurrent
    <3>4. HasRepeater(form.page) => tab.groups = RowsOf(tab.user, Rep)
      BY <2>1, <3>1, <3>2 DEF RowsCurrent, ListAfter
    <3>. QED BY <2>3, <3>3, <3>4 DEF StoredAnswers, StoredRows
  <2>. QED BY <2>2, <2>3
<1>2. Init => Inv
  BY InitSignIn, InitSigned, InitOwn, InitCurrent
<1>3. Inv /\ [Next]_vars => Inv'
  BY NextSignIn, NextSigned, NextOwn, NextCurrent DEF SignInInv, InTurn
<1>. QED BY <1>1, <1>2, <1>3, PTL DEF Spec

-----------------------------------------------------------------------------
(* What was shown as saved is kept *)

LEMMA LastExists ==
    ASSUME NEW q, IsList(q), NEW k, NEW n \in DOMAIN q, Touches(q[n], k)
    PROVE  \E m \in DOMAIN q : m >= n /\ LastOn(q, m, k)
<1>. DEFINE I == {j \in DOMAIN q : Touches(q[j], k)}
            N == Cardinality(I)
<1>1. Len(q) \in Nat /\ DOMAIN q = 1 .. Len(q)
  BY LenProperties DEF IsList
<1>2. I \in SUBSET Nat /\ I \in SUBSET DOMAIN q /\ n \in I
  BY <1>1
<1>3. IsFiniteSet(I) /\ N \in Nat
  <2>1. IsFiniteSet(1 .. Len(q))
    BY <1>1, FS_Interval
  <2>. QED BY <1>1, <1>2, <2>1, FS_Subset, FS_CardinalityType
<1>4. N # 0
  BY <1>2, <1>3, FS_EmptySet
<1>5. PICK i \in I : Cardinality({j \in I : j <= i}) = N
  <2>1. N \in 1 .. N
    BY <1>3, <1>4
  <2>. HIDE DEF I, N
  <2>2. I \in SUBSET Nat /\ IsFiniteSet(I) /\ N \in 1 .. Cardinality(I)
    BY <1>2, <1>3, <2>1 DEF N
  <2>. QED BY <2>2, Ranked
<1>6. {j \in I : j <= i} = I
  BY <1>3, <1>5, FS_Subset
<1>7. \A j \in I : j <= i
  BY <1>6
<1>8. i \in DOMAIN q /\ i \in Nat /\ i >= n
  BY <1>1, <1>2, <1>7
<1>9. \A j \in DOMAIN q : j > i => ~Touches(q[j], k)
  BY <1>1, <1>7, <1>8
<1>. QED BY <1>8, <1>9 DEF LastOn

\* Without writes in the queue.
Idling(q) == \A n \in DOMAIN q : ~Saves(q[n]) /\ q[n].kind # "remove"

LEMMA IdleLasts ==
    ASSUME NEW q, Idling(q), NEW k, NEW T, NEW A
    PROVE  /\ InQueue(q)
           /\ Lasts(k, T, q, A) <=> /\ k \in Book!Item
                                    /\ \A x \in T : Same(x, k) => x.value = k.value
                                    /\ Timed(T, k) \/ k \in A
<1>1. \A n \in DOMAIN q : ~LastOn(q, n, k) /\ ~Removes(q[n], k)
  BY DEF Idling, LastOn, Touches, Removes
<1>2. InQueue(q)
  BY DEF InQueue, Idling
<1>. QED BY <1>1, <1>2 DEF Lasts, Delayed

LEMMA LastsAppend ==
    ASSUME NEW q, IsList(q), NEW m, NEW k, NEW T, NEW T2, NEW A, Lasts(k, T, q, A),
           \A x : Same(x, k) => (x \in T <=> x \in T2), ~Touches(m, k), ~Removes(m, k)
    PROVE  Lasts(k, T2, Append(q, m), A)
<1>. DEFINE p == Append(q, m)
<1>1. /\ Len(q) \in Nat /\ DOMAIN q = 1 .. Len(q) /\ DOMAIN p = 1 .. Len(q) + 1
      /\ \A n \in DOMAIN q : p[n] = q[n]
      /\ p[Len(q) + 1] = m
  BY Appended
<1>. HIDE DEF p
<1>2. Timed(T2, k) <=> Timed(T, k)
  BY DEF Timed
<1>3. \A n \in DOMAIN p : n \in DOMAIN q \/ n = Len(q) + 1
  BY <1>1
<1>4. \A n : n \in DOMAIN p /\ LastOn(p, n, k) <=> n \in DOMAIN q /\ LastOn(q, n, k)
  BY <1>1, <1>3 DEF LastOn
<1>5. Delayed(T2, p, k) <=> Delayed(T, q, k)
  BY <1>1, <1>2, <1>4 DEF Delayed
<1>6. \A n \in DOMAIN p : Removes(p[n], k) => n \in DOMAIN q /\ Removes(q[n], k)
  BY <1>1, <1>3
<1>. QED BY <1>1, <1>2, <1>4, <1>5, <1>6 DEF Lasts, p

LEMMA LastsSent ==
    ASSUME NEW q, IsList(q), NEW m, Saves(m), m.reply = Unanswered, NEW k \in Book!Item, k \in m.items,
           NEW T, NEW A, \A x \in T : Same(x, k) => x.value = k.value
    PROVE  Lasts(k, T, Append(q, m), A)
<1>. DEFINE p == Append(q, m)
<1>1. /\ Len(q) \in Nat /\ DOMAIN p = 1 .. Len(q) + 1
      /\ p[Len(q) + 1] = m
  BY Appended
<1>. HIDE DEF p
<1>2. Touches(m, k) /\ ~Granted(m)
  BY DEF Touches, Same, Granted
<1>3. Len(q) + 1 \in DOMAIN p /\ LastOn(p, Len(q) + 1, k)
  BY <1>1, <1>2 DEF LastOn
<1>4. \A n \in DOMAIN p : LastOn(p, n, k) => n = Len(q) + 1
  BY <1>1, <1>2 DEF LastOn
<1>5. Delayed(T, p, k)
  BY <1>1, <1>2, <1>3 DEF Delayed
<1>. QED BY <1>1, <1>4, <1>5 DEF Lasts, p

LEMMA LastsTimed ==
    ASSUME NEW q, NEW k \in Book!Item, NEW T, NEW A, Timed(T, k), \A x \in T : Same(x, k) => x.value = k.value
    PROVE  Lasts(k, T, q, A)
BY DEF Lasts, Delayed

\* Another page, or other timers of other questions.
LEMMA LastsAside ==
    ASSUME NEW q, NEW k, NEW T, NEW T2, NEW A, NEW A2, Lasts(k, T, q, A),
           \A x : Same(x, k) => (x \in T <=> x \in T2), k \in A => k \in A2
    PROVE  Lasts(k, T2, q, A2)
<1>1. Timed(T2, k) <=> Timed(T, k)
  BY DEF Timed
<1>. QED BY <1>1 DEF Lasts, Delayed

\* p is q with the answer r to the n-th request.
Answers(q, p, n, r) ==
    /\ n \in DOMAIN q /\ DOMAIN p = DOMAIN q /\ \A j \in DOMAIN q : j # n => p[j] = q[j]
    /\ p[n].reply = r /\ p[n].kind = q[n].kind /\ p[n].items = q[n].items /\ p[n].row = q[n].row

LEMMA AnswersSame ==
    ASSUME NEW q, NEW p, NEW n, NEW r, Answers(q, p, n, r), NEW k
    PROVE  /\ \A j \in DOMAIN q : p[j].items = q[j].items /\ (Touches(p[j], k) <=> Touches(q[j], k))
           /\ \A j \in DOMAIN q : LastOn(p, j, k) <=> LastOn(q, j, k)
           /\ r # Unanswered => \A j \in DOMAIN q : Removes(p[j], k) => Removes(q[j], k) /\ j # n
<1>1. \A j \in DOMAIN q : p[j].items = q[j].items /\ p[j].kind = q[j].kind /\ p[j].row = q[j].row
  BY DEF Answers
<1>2. \A j \in DOMAIN q : p[j].items = q[j].items /\ (Touches(p[j], k) <=> Touches(q[j], k))
  BY <1>1 DEF Touches, Saves
<1>3. \A j \in DOMAIN q : LastOn(p, j, k) <=> LastOn(q, j, k)
  BY <1>2 DEF Answers, LastOn
<1>. QED BY <1>1, <1>2, <1>3 DEF Answers, Removes

\* A write refused is still to be written, or told to have been refused.
LEMMA LastsRefused ==
    ASSUME NEW q, NEW p, NEW n, Answers(q, p, n, Refused), NEW k, NEW T, NEW A, Lasts(k, T, q, A)
    PROVE  Lasts(k, T, p, A)
<1>1. /\ \A j \in DOMAIN q : p[j].items = q[j].items /\ (LastOn(p, j, k) <=> LastOn(q, j, k))
      /\ \A j \in DOMAIN q : Removes(p[j], k) => Removes(q[j], k)
  BY AnswersSame, ReplyKinds
<1>2. DOMAIN p = DOMAIN q /\ ~Granted(p[n]) /\ \A j \in DOMAIN q : j # n => p[j] = q[j]
  BY ReplyKinds DEF Answers, Granted
<1>3. Delayed(T, q, k) => Delayed(T, p, k)
  BY <1>1, <1>2 DEF Delayed
<1>. QED BY <1>1, <1>2, <1>3 DEF Lasts

\* A request that saves nothing is answered: what was there stays, or was to be
\* written after a row is deleted.
LEMMA LastsServed ==
    ASSUME NEW q, NEW p, NEW n, NEW r, r # Unanswered, Answers(q, p, n, r), ~Saves(q[n]),
           NEW k, NEW T, NEW A, Lasts(k, T, q, A), NEW A2, Removes(q[n], k) \/ (k \in A => k \in A2)
    PROVE  Lasts(k, T, p, A2)
<1>1. /\ \A j \in DOMAIN q : p[j].items = q[j].items /\ (LastOn(p, j, k) <=> LastOn(q, j, k))
      /\ \A j \in DOMAIN q : Removes(p[j], k) => Removes(q[j], k)
  BY AnswersSame
<1>2. n \in DOMAIN q /\ DOMAIN p = DOMAIN q /\ \A j \in DOMAIN q : j # n => p[j] = q[j]
  BY DEF Answers
<1>3. ~LastOn(q, n, k)
  BY DEF LastOn, Touches
<1>4. Delayed(T, q, k) => Delayed(T, p, k)
  BY <1>1, <1>2, <1>3 DEF Delayed
<1>5. Delayed(T, p, k) \/ k \in A2
  BY <1>2, <1>4 DEF Lasts
<1>. QED BY <1>1, <1>2, <1>4, <1>5 DEF Lasts

\* A request is granted that saves answers, all before it answered: they are there,
\* the others stay.
LEMMA LastsGranted ==
    ASSUME NEW q, IsList(q), InQueue(q), NEW p, NEW n, NEW r, r # Unanswered, Answers(q, p, n, r), Saves(q[n]),
           q[n].reply = Unanswered, \A j \in 1 .. n - 1 : q[j].reply # Unanswered,
           NEW k, NEW T, NEW A, Lasts(k, T, q, A), NEW A2,
           k \in q[n].items => k \in A2, ~Touches(q[n], k) /\ k \in A => k \in A2
    PROVE  Lasts(k, T, p, A2)
<1>1. /\ \A j \in DOMAIN q : p[j].items = q[j].items /\ (LastOn(p, j, k) <=> LastOn(q, j, k))
      /\ \A j \in DOMAIN q : Removes(p[j], k) => Removes(q[j], k) /\ j # n
  BY AnswersSame
<1>2. n \in DOMAIN q /\ DOMAIN p = DOMAIN q /\ \A j \in DOMAIN q : j # n => p[j] = q[j]
  BY DEF Answers
<1>3. Len(q) \in Nat /\ DOMAIN q = 1 .. Len(q)
  BY LenProperties DEF IsList
<1>4. \A j \in DOMAIN q : j # n /\ LastOn(q, j, k) /\ ~Granted(q[j]) => Delayed(T, p, k)
  BY <1>1, <1>2 DEF Delayed
<1>5. Delayed(T, p, k) \/ k \in A2
  <2>1. CASE Timed(T, k)
    BY <2>1 DEF Delayed
  <2>2. CASE ~Timed(T, k) /\ Touches(q[n], k)
    <3>1. PICK m \in DOMAIN q : m >= n /\ LastOn(q, m, k)
      BY <1>2, <2>2, LastExists
    <3>2. CASE m = n
      BY <3>1, <3>2, <2>2, <1>2 DEF Lasts
    <3>3. CASE m # n
      <4>1. n < m
        BY <1>2, <1>3, <3>1, <3>3
      <4>2. ~Granted(q[m])
        BY <1>2, <3>1, <4>1 DEF InQueue, LastOn, Touches
      <4>. QED BY <1>4, <3>1, <3>3, <4>2
    <3>. QED BY <3>2, <3>3
  <2>3. CASE ~Timed(T, k) /\ ~Touches(q[n], k)
    <3>1. ~LastOn(q, n, k)
      BY <2>3 DEF LastOn
    <3>. QED BY <1>4, <2>3, <3>1 DEF Lasts, Delayed
  <2>. QED BY <2>1, <2>2, <2>3
<1>6. \A j \in DOMAIN q : j # n /\ Removes(q[j], k) => Delayed(T, p, k)
  <2>. SUFFICES ASSUME NEW j \in DOMAIN q, j # n, Removes(q[j], k)
                PROVE  FALSE
    OBVIOUS
  <2>1. q[j].kind = "remove" /\ q[j].reply = Unanswered
    BY DEF Removes
  <2>2. j > n
    BY <1>2, <1>3, <2>1
  <2>. QED BY <1>2, <2>1, <2>2 DEF InQueue
<1>. QED BY <1>1, <1>2, <1>5, <1>6 DEF Lasts

\* The first answer arrives: of a request granted, or that does not save k.
LEMMA LastsShift ==
    ASSUME NEW q, NEW p, Shifted(q, p), q[1].reply # Unanswered, NEW k, Granted(q[1]) \/ ~Touches(q[1], k),
           NEW T, NEW A, Lasts(k, T, q, A)
    PROVE  Lasts(k, T, p, A)
<1>1. /\ \A n \in DOMAIN p : n \in Nat /\ n + 1 \in DOMAIN q /\ p[n] = q[n + 1]
      /\ \A i \in DOMAIN q : i \in Nat /\ (i # 1 => i > 1 /\ \E n \in DOMAIN p : i = n + 1)
  BY ShiftFacts
<1>2. \A n \in DOMAIN p : LastOn(p, n, k) <=> LastOn(q, n + 1, k)
  <2>. SUFFICES ASSUME NEW n \in DOMAIN p
                PROVE  LastOn(p, n, k) <=> LastOn(q, n + 1, k)
    OBVIOUS
  <2>1. ASSUME LastOn(p, n, k), NEW j \in DOMAIN q, j > n + 1
        PROVE  ~Touches(q[j], k)
    <3>1. PICK i \in DOMAIN p : j = i + 1
      BY <1>1, <2>1
    <3>2. i > n
      BY <1>1, <2>1, <3>1
    <3>. QED BY <1>1, <2>1, <3>1, <3>2 DEF LastOn
  <2>2. ASSUME LastOn(q, n + 1, k), NEW j \in DOMAIN p, j > n
        PROVE  ~Touches(p[j], k)
    BY <1>1, <2>2 DEF LastOn
  <2>. QED BY <1>1, <2>1, <2>2 DEF LastOn
<1>3. LastOn(q, 1, k) => Granted(q[1])
  BY DEF LastOn
<1>4. Delayed(T, q, k) => Delayed(T, p, k)
  <2>. SUFFICES ASSUME NEW n \in DOMAIN q, LastOn(q, n, k), ~Granted(q[n])
                PROVE  Delayed(T, p, k)
    BY DEF Delayed
  <2>1. PICK i \in DOMAIN p : n = i + 1
    BY <1>1, <1>3
  <2>. QED BY <1>1, <1>2, <2>1 DEF Delayed
<1>5. \A n \in DOMAIN p : LastOn(p, n, k) => Timed(T, k) \/ k \in p[n].items
  BY <1>1, <1>2 DEF Lasts
<1>6. \A n \in DOMAIN p : Removes(p[n], k) => Delayed(T, p, k)
  BY <1>1, <1>4 DEF Lasts
<1>. QED BY <1>4, <1>5, <1>6 DEF Lasts

LEMMA QueueAppend ==
    ASSUME NEW q, IsList(q), InQueue(q), NEW m, m.reply = Unanswered,
           Saves(m) => \A x, y \in m.items : Same(x, y) => x = y,
           m.kind = "remove" => \A n \in DOMAIN q : ~Saves(q[n])
    PROVE  InQueue(Append(q, m))
<1>. DEFINE p == Append(q, m)
<1>1. /\ Len(q) \in Nat /\ DOMAIN q = 1 .. Len(q) /\ DOMAIN p = 1 .. Len(q) + 1
      /\ \A n \in DOMAIN q : p[n] = q[n]
      /\ p[Len(q) + 1] = m
  BY Appended
<1>. HIDE DEF p
<1>2. \A n \in DOMAIN p : n \in DOMAIN q \/ n = Len(q) + 1
  BY <1>1
<1>3. \A i, j \in DOMAIN p : i < j => i \in DOMAIN q
  BY <1>1
<1>4. ~Granted(m)
  BY DEF Granted
<1>5. \A i, j \in DOMAIN p : i < j /\ p[i].reply = Unanswered /\ Saves(p[j]) => ~Granted(p[j])
  BY <1>1, <1>2, <1>3, <1>4 DEF InQueue
<1>6. \A i, j \in DOMAIN p : i < j /\ p[j].kind = "remove" => ~Saves(p[i])
  BY <1>1, <1>2, <1>3 DEF InQueue
<1>7. \A n \in DOMAIN p : Saves(p[n]) => \A x, y \in p[n].items : Same(x, y) => x = y
  BY <1>1, <1>2 DEF InQueue
<1>. QED BY <1>5, <1>6, <1>7 DEF InQueue, p

LEMMA QueueAnswered ==
    ASSUME NEW q, IsList(q), InQueue(q), NEW p, NEW n, NEW r, Answers(q, p, n, r), r # Unanswered,
           r = Refused \/ \A j \in 1 .. n - 1 : q[j].reply # Unanswered
    PROVE  InQueue(p)
<1>1. Len(q) \in Nat /\ DOMAIN q = 1 .. Len(q)
  BY LenProperties DEF IsList
<1>2. \A j \in DOMAIN q : p[j].items = q[j].items /\ p[j].kind = q[j].kind /\ (Saves(p[j]) <=> Saves(q[j]))
  BY DEF Answers, Saves
<1>3. \A i, j \in DOMAIN q : i < j /\ p[i].reply = Unanswered /\ Saves(p[j]) => ~Granted(p[j])
  <2>. SUFFICES ASSUME NEW i \in DOMAIN q, NEW j \in DOMAIN q, i < j, p[i].reply = Unanswered, Saves(p[j])
                PROVE  ~Granted(p[j])
    OBVIOUS
  <2>1. i # n /\ p[i] = q[i]
    BY DEF Answers
  <2>2. CASE j = n /\ r = Refused
    BY <2>2, ReplyKinds DEF Granted, Answers
  <2>3. CASE j = n /\ r # Refused
    BY <1>1, <2>1, <2>3
  <2>4. CASE j # n
    BY <1>2, <2>1, <2>4 DEF Answers, InQueue
  <2>. QED BY <2>2, <2>3, <2>4
<1>. QED BY <1>2, <1>3 DEF InQueue, Answers

LEMMA QueueShift ==
    ASSUME NEW q, NEW p, Shifted(q, p), InQueue(q)
    PROVE  InQueue(p)
<1>1. \A n \in DOMAIN p : n \in Nat /\ n + 1 \in DOMAIN q /\ p[n] = q[n + 1]
  BY ShiftFacts
<1>2. \A i, j \in DOMAIN p : i < j => i + 1 < j + 1
  BY <1>1
<1>. QED BY <1>1, <1>2 DEF InQueue

-----------------------------------------------------------------------------
(* What is kept of a save *)

LEMMA SavePuts ==
    ASSUME NEW S, OwnBook(answer, rows, S), NEW u \in Account, NEW items, Book!Save(u, items), BookRows(rows),
           NEW S2, OwnBook(answer', rows', S2), NEW k \in Book!Item
    PROVE  /\ k \in items /\ (\A i \in items : Same(i, k) => i = k) => k \in AnswersIn(answer'[u], rows'[u])
           /\ k \in AnswersIn(answer[u], rows[u]) /\ (\A i \in items : ~Same(i, k))
              => k \in AnswersIn(answer'[u], rows'[u])
<1>1. \A f \in Repeater :
          /\ DOMAIN rows'[u][f] = DOMAIN rows[u][f]
          /\ \A n \in DOMAIN rows[u][f] :
                /\ rows'[u][f][n].id = rows[u][f][n].id
                /\ \A c \in Book!Columns(f) :
                      rows'[u][f][n].cell[c] = Book!Put(items, c, rows[u][f][n].id, rows[u][f][n].cell[c])
  BY SaveEach
<1>2. \A f \in Scalar : answer'[u][f] = Book!Put(items, f, None, answer[u][f])
  BY DEF OwnBook, Book!Save
<1>3. /\ \A f \in Repeater : IsList(rows[u][f]) /\ \A n \in DOMAIN rows[u][f] : n <= MaxRows
      /\ \A f \in Repeater : IsList(rows'[u][f]) /\ \A n \in DOMAIN rows'[u][f] : n <= MaxRows
  <2>1. \A f \in Repeater : IsList(rows'[u][f]) /\ IsList(rows[u][f])
    BY DEF OwnBook, BookTold
  <2>. QED BY <1>1, <2>1 DEF BookRows
<1>4. \A x : x \in AnswersIn(answer[u], rows[u]) <=> InScalars(x, answer[u]) \/ InRows(x, rows[u])
  BY <1>3, AnswersMember
<1>5. \A x : x \in AnswersIn(answer'[u], rows'[u]) <=> InScalars(x, answer'[u]) \/ InRows(x, rows'[u])
  BY <1>3, AnswersMember
<1>6. k = [field |-> k.field, row |-> k.row, value |-> k.value] /\ k.value # None
  BY BrowserAssumption DEF Book!Item
<1>7. ASSUME k \in items, \A i \in items : Same(i, k) => i = k
      PROVE  k \in AnswersIn(answer'[u], rows'[u])
  <2>1. \A old : Book!Put(items, k.field, k.row, old) = k.value
    BY <1>7, PutEffect DEF Same
  <2>2. CASE k.field \in Scalar
    <3>1. k.row = None
      BY <1>7, <2>2 DEF Book!Save, Book!SavableBy
    <3>2. InScalars(k, answer'[u])
      BY <1>2, <2>1, <2>2, <3>1 DEF InScalars
    <3>. QED BY <1>5, <3>2
  <2>3. CASE k.field \notin Scalar
    <3>. DEFINE g == Parent[k.field]
    <3>1. k.field \in Subfield /\ Book!HasRow(rows[u][g], k.row)
      BY <1>7, <2>3 DEF Book!Save, Book!SavableBy
    <3>2. g \in Repeater /\ k.field \in Book!Columns(g)
      BY <3>1, BrowserAssumption DEF Book!Columns
    <3>3. PICK n \in DOMAIN rows[u][g] : rows[u][g][n].id = k.row
      BY <3>1 DEF Book!HasRow
    <3>. HIDE DEF g
    <3>4. rows'[u][g][n].id = k.row /\ rows'[u][g][n].cell[k.field] = k.value /\ n \in DOMAIN rows'[u][g]
      BY <1>1, <2>1, <3>2, <3>3
    <3>5. InRow(k, g, rows'[u][g][n])
      BY <1>6, <3>2, <3>4 DEF InRow
    <3>. QED BY <1>5, <3>2, <3>4, <3>5 DEF InRows
  <2>. QED BY <2>2, <2>3
<1>8. ASSUME k \in AnswersIn(answer[u], rows[u]), \A i \in items : ~Same(i, k)
      PROVE  k \in AnswersIn(answer'[u], rows'[u])
  <2>1. \A old : Book!Put(items, k.field, k.row, old) = old
    BY <1>8, PutEffect DEF Same
  <2>2. CASE InScalars(k, answer[u])
    <3>1. InScalars(k, answer'[u])
      BY <1>2, <2>1, <2>2 DEF InScalars
    <3>. QED BY <1>5, <3>1
  <2>3. CASE InRows(k, rows[u])
    <3>0. PICK f \in Repeater : \E n \in DOMAIN rows[u][f] : InRow(k, f, rows[u][f][n])
      BY <2>3 DEF InRows
    <3>1. PICK n \in DOMAIN rows[u][f] : InRow(k, f, rows[u][f][n])
      BY <3>0
    <3>2. PICK c \in Book!Columns(f) :
              /\ rows[u][f][n].cell[c] # None
              /\ k = [field |-> c, row |-> rows[u][f][n].id, value |-> rows[u][f][n].cell[c]]
      BY <3>1 DEF InRow
    <3>3. k.field = c /\ k.row = rows[u][f][n].id /\ k.value = rows[u][f][n].cell[c]
      BY <3>2
    <3>4. rows'[u][f][n].cell[c] = Book!Put(items, k.field, k.row, k.value)
      BY <1>1, <3>1, <3>2, <3>3
    <3>5. rows'[u][f][n].id = k.row /\ rows'[u][f][n].cell[c] = k.value /\ n \in DOMAIN rows'[u][f]
      BY <1>1, <2>1, <3>1, <3>3, <3>4
    <3>6. InRow(k, f, rows'[u][f][n])
      BY <1>6, <3>3, <3>5 DEF InRow
    <3>. QED BY <1>5, <3>1, <3>5, <3>6 DEF InRows
  <2>. QED BY <1>4, <1>8, <2>2, <2>3
<1>. QED BY <1>7, <1>8

-----------------------------------------------------------------------------
(* Without a write in the queue *)

LEMMA IdleKept ==
    ASSUME NEW q, Idling(q), NEW K, NEW A
    PROVE  KeptNet(q, {}, K, A) <=> K \subseteq A /\ K \subseteq Book!Item
BY IdleLasts DEF KeptNet, Timed

LEMMA IdleSent ==
    ASSUME NEW q, IsList(q), Idling(q), NEW m, ~Saves(m), m.kind # "remove"
    PROVE  /\ IsList(Append(q, m)) /\ Idling(Append(q, m))
           /\ q \o <<m>> = Append(q, m) /\ q \o <<>> = q
<1>. DEFINE p == Append(q, m)
<1>1. /\ IsList(p) /\ q \o <<m>> = p /\ q \o <<>> = q
      /\ Len(q) \in Nat /\ DOMAIN q = 1 .. Len(q) /\ DOMAIN p = 1 .. Len(q) + 1
      /\ \A n \in DOMAIN q : p[n] = q[n]
      /\ p[Len(q) + 1] = m
  BY Appended
<1>. HIDE DEF p
<1>2. \A n \in DOMAIN p : n \in DOMAIN q \/ n = Len(q) + 1
  BY <1>1
<1>3. Idling(p)
  BY <1>1, <1>2 DEF Idling
<1>. QED BY <1>1, <1>3 DEF p

LEMMA IdleCancel ==
    ASSUME NEW q, IsList(q), Idling(q), NEW kinds
    PROVE  IsList(Cancel(q, kinds)) /\ Idling(Cancel(q, kinds))
<1>. DEFINE p == Cancel(q, kinds)
            I == {n \in DOMAIN q : q[n].kind \notin kinds}
<1>1. Thins(p, q, I)
  BY PickedThins DEF Cancel
<1>. HIDE DEF p
<1>2. IsList(p) /\ \A n \in DOMAIN p : \E i \in DOMAIN q : p[n] = q[i]
  BY <1>1 DEF Thins
<1>3. Idling(p)
  BY <1>2 DEF Idling
<1>. QED BY <1>2, <1>3 DEF p

LEMMA IdleProvided ==
    ASSUME NEW q, IsList(q), Idling(q), NEW t
    PROVE  IsList(ProvidedNet(t, q)) /\ Idling(ProvidedNet(t, q))
<1>. DEFINE me == Msg("me", t.token)
            ans == Msg("answers", t.token)
            asked == IF \/ t.waiting
                        \/ <<t.waiting, t.user = None, t.token>> = <<tab.waiting, tab.user = None, tab.token>>
                     THEN q ELSE Cancel(q, {"answers"}) \o (IF t.user = None THEN <<>> ELSE <<ans>>)
            rest == Cancel(asked, {"me"})
<1>1. ~Saves(me) /\ me.kind # "remove" /\ ~Saves(ans) /\ ans.kind # "remove"
  BY DEF Msg, Saves
<1>2. ProvidedNet(t, q) \in {asked, rest \o (IF t.token = None THEN <<>> ELSE <<me>>)}
  BY DEF ProvidedNet
<1>. HIDE DEF me, ans
<1>3. IsList(asked) /\ Idling(asked)
  <2>1. IsList(Cancel(q, {"answers"})) /\ Idling(Cancel(q, {"answers"}))
    BY IdleCancel
  <2>. QED BY <1>1, <2>1, IdleSent
<1>. HIDE DEF asked
<1>4. IsList(rest) /\ Idling(rest)
  BY <1>3, IdleCancel
<1>. HIDE DEF rest
<1>5. /\ IsList(rest \o <<me>>) /\ Idling(rest \o <<me>>)
      /\ IsList(rest \o <<>>) /\ Idling(rest \o <<>>)
  BY <1>1, <1>4, IdleSent
<1>. QED BY <1>2, <1>3, <1>5

\* A page that opens, without timers, sends no write.
LEMMA ShowKept ==
    ASSUME NEW q, IsList(q), NEW K, NEW A, KeptNet(q, {}, K, A), NEW p, NEW t, Show(p, t, q)
    PROVE  timer' = {} /\ KeptNet(net', {}, K, A)
<1>. DEFINE m == Msg("rows", t.token)
<1>1. timer' = {} /\ net' \in {q, Append(q, m)}
  BY DEF Show
<1>2. m.kind = "rows" /\ m.reply = Unanswered
  BY DEF Msg
<1>. HIDE DEF m
<1>3. ~Saves(m) /\ \A k : ~Touches(m, k) /\ ~Removes(m, k)
  BY <1>2 DEF Saves, Touches, Removes
<1>4. InQueue(q) => InQueue(Append(q, m))
  BY <1>2, <1>3, QueueAppend
<1>5. ASSUME NEW k \in K PROVE Lasts(k, {}, Append(q, m), A)
  <2>1. Lasts(k, {}, q, A)
    BY DEF KeptNet
  <2>. QED BY <1>3, <2>1, LastsAppend
<1>6. KeptNet(Append(q, m), {}, K, A)
  BY <1>4, <1>5 DEF KeptNet
<1>. QED BY <1>1, <1>6

\* Nor one that stays: only the list of benefits may make way for the form.
LEMMA KeepKept ==
    ASSUME NEW q, IsList(q), NEW K, NEW A, KeptNet(q, timer, K, A), NEW fm, NEW t, Keep(fm, t, q),
           fm.page = "benefits" => timer = {}
    PROVE  KeptNet(net', timer', K, A)
<1>1. CASE \E p \in Landings(fm.page, t) \ {fm.page} : Show(p, t, q)
  <2>1. PICK p \in Landings(fm.page, t) \ {fm.page} : Show(p, t, q)
    BY <1>1
  <2>2. fm.page = "benefits"
    BY <2>1 DEF Landings
  <2>. QED BY <2>1, <2>2, ShowKept
<1>2. CASE net' = q /\ timer' = timer
  BY <1>2
<1>. QED BY <1>1, <1>2 DEF Keep

-----------------------------------------------------------------------------
(* What the person does *)

KeptAfter == KeptNet(net', timer', kept', Held')

LEMMA HeldSame ==
    ASSUME UNCHANGED <<answer, rows>>, store'.guest.answers = store.guest.answers, tab'.token = tab.token
    PROVE  Held' = Held
BY DEF Held, AnswersOf

LEMMA QuietIdle == ASSUME ~Busy PROVE timer = {} /\ Idling(net)
BY DEF Busy, IsPlain, IsWrite, Idling, Saves

\* A guest's tab waits for sign-ins only.
LEMMA GuestIdle ==
    ASSUME OwnInv, CurrentInv, tab.user = None, ~tab.waiting
    PROVE  /\ Idling(net) /\ tab.token = None
           /\ Held = tab.answers /\ tab.answers = store.guest.answers
<1>1. \A n \in DOMAIN net : net[n].kind \in {"login", "rows"}
  BY TabFacts, GuestNet DEF Orderly
<1>2. Idling(net)
  BY <1>1 DEF Idling, Saves
<1>3. tab.token = None
  BY TabFacts DEF OwnTab
<1>. QED BY <1>2, <1>3, TabFacts DEF GuestCurrent, Held

LEMMA VisitKept ==
    ASSUME InTurn, OwnInv, CurrentInv, KeptInv, NEW p, Visit(p)
    PROVE  KeptAfter
<1>1. ~Busy /\ Show(p, tab, net) /\ UNCHANGED <<store, tab, kept, answer, rows>>
  BY DEF Visit, InTurn, MayMove, server
<1>2. timer = {} /\ Held' = Held
  BY <1>1, QuietIdle, HeldSame
<1>3. KeptNet(net, {}, kept, Held)
  BY <1>2 DEF KeptInv
<1>4. timer' = {} /\ KeptNet(net', {}, kept, Held)
  BY <1>1, <1>3, TabFacts, ShowKept
<1>. QED BY <1>1, <1>2, <1>4 DEF KeptAfter

LEMMA SendLoginKept ==
    ASSUME InTurn, OwnInv, CurrentInv, KeptInv, NEW i, SendLogin(i)
    PROVE  KeptAfter
<1>. DEFINE m == [Msg("login", None) EXCEPT !.by = i]
<1>1. ~Busy /\ net' = Append(net, m) /\ timer' = {} /\ UNCHANGED <<store, tab, kept, answer, rows>>
  BY DEF SendLogin, InTurn, MayMove, server
<1>2. ~Saves(m) /\ m.kind # "remove"
  BY DEF Msg, Saves
<1>. HIDE DEF m
<1>3. timer = {} /\ Idling(net) /\ Held' = Held
  BY <1>1, QuietIdle, HeldSame
<1>4. KeptNet(net, {}, kept, Held) /\ Idling(Append(net, m))
  BY <1>2, <1>3, TabFacts, IdleSent DEF KeptInv
<1>5. KeptNet(Append(net, m), {}, kept, Held)
  BY <1>3, <1>4, IdleKept
<1>. QED BY <1>1, <1>3, <1>5 DEF KeptAfter

LEMMA ReloadKept ==
    ASSUME InTurn, OwnInv, CurrentInv, KeptInv, Reload
    PROVE  KeptAfter
<1>1. ~Busy /\ timer' = {} /\ tab'.token = store.token /\ UNCHANGED <<store, kept, answer, rows>>
  BY DEF Reload, InTurn, MayMove, server, Fresh
<1>2. timer = {} /\ Idling(net) /\ Held' = Held
  BY <1>1, QuietIdle, TabFacts, HeldSame
<1>3. Idling(net')
  BY ReloadNet DEF Idling, Saves
<1>4. KeptNet(net, {}, kept, Held)
  BY <1>2 DEF KeptInv
<1>5. KeptNet(net', {}, kept, Held)
  BY <1>2, <1>3, <1>4, IdleKept
<1>. QED BY <1>1, <1>2, <1>5 DEF KeptAfter

\* Who leaves, or comes, is shown nothing as saved yet.
LEMMA AnewKept ==
    ASSUME NEW q, IsList(q), Idling(q), NEW t, NEW u, NEW p, NEW fm,
           Show(p, u, ProvidedNet(t, q)) \/ (timer = {} /\ Keep(fm, u, ProvidedNet(t, q))), kept' = {}
    PROVE  KeptAfter
<1>. DEFINE q1 == ProvidedNet(t, q)
<1>1. IsList(q1) /\ Idling(q1)
  BY IdleProvided
<1>. HIDE DEF q1
<1>2. KeptNet(q1, {}, kept', Held')
  BY <1>1, IdleKept
<1>3. CASE Show(p, u, q1)
  BY <1>1, <1>2, <1>3, ShowKept DEF KeptAfter
<1>4. CASE timer = {} /\ Keep(fm, u, q1)
  <2>1. KeptNet(q1, timer, kept', Held')
    BY <1>2, <1>4
  <2>. QED BY <1>1, <1>4, <2>1, KeepKept DEF KeptAfter
<1>. QED BY <1>3, <1>4 DEF q1

LEMMA LogoutKept ==
    ASSUME InTurn, OwnInv, CurrentInv, Logout
    PROVE  KeptAfter
<1>. DEFINE t1 == SignedOut(tab)
<1>1. ~Busy /\ kept' = {} /\ Show("home", Provided(t1, store'), ProvidedNet(t1, net))
  BY DEF Logout, InTurn, MayMove
<1>. QED BY <1>1, QuietIdle, TabFacts, AnewKept

LEMMA IdleRemoved ==
    ASSUME NEW q, IsList(q), Idling(q), NEW n \in DOMAIN q
    PROVE  IsList(RemoveAt(q, n)) /\ Idling(RemoveAt(q, n))
<1>1. Thins(RemoveAt(q, n), q, DOMAIN q \ {n})
  BY RemovedThins
<1>2. IsList(RemoveAt(q, n)) /\ \A j \in DOMAIN RemoveAt(q, n) : \E i \in DOMAIN q : RemoveAt(q, n)[j] = q[i]
  BY <1>1 DEF Thins
<1>. QED BY <1>2 DEF Idling

LEMMA ApplyLoginKept ==
    ASSUME OwnInv, CurrentInv, 1 \in DOMAIN net, net[1].kind = "login", ApplyLogin(net[1], RemoveAt(net, 1))
    PROVE  KeptAfter
<1>. DEFINE m == net[1]
            q == RemoveAt(net, 1)
            t1 == [tab EXCEPT !.token = m.reply.got, !.user = m.reply.got,
                              !.profile = IF m.by.via = "egov" THEN m.by.profile ELSE @]
<1>1. kept' = {} /\ Show("benefits", Provided(t1, store'), ProvidedNet(t1, q))
  BY Zenon DEF ApplyLogin
<1>2. tab.user = None /\ ~tab.waiting
  BY TabFacts DEF OwnNet, OwnMessage, Orderly
<1>3. IsList(q) /\ Idling(q)
  BY <1>2, TabFacts, GuestIdle, IdleRemoved
<1>. HIDE DEF q, t1
<1>. QED BY <1>1, <1>3, AnewKept

LEMMA SessionKept ==
    ASSUME OwnInv, CurrentInv, KeptInv, 1 \in DOMAIN net, net[1].kind = "me",
           SessionChecked(net[1], RemoveAt(net, 1)), UNCHANGED <<answer, rows>>
    PROVE  KeptAfter
<1>. DEFINE m == net[1]
            q == RemoveAt(net, 1)
            t1 == IF m.reply.ok THEN [tab EXCEPT !.user = m.token, !.waiting = FALSE] ELSE SignedOut(tab)
            s == IF m.reply.ok THEN store ELSE [store EXCEPT !.token = None, !.profile = None]
            t == Provided(t1, s)
            q1 == ProvidedNet(t1, q)
            page == IF Allowed(form.page, t) THEN form.page ELSE "home"
<1>1. /\ store' = s /\ tab' = t
      /\ Show(page, t, q1) \/ Keep(form, t, q1) 
      /\ kept' = IF m.reply.ok THEN kept ELSE {}
  BY DEF SessionChecked
<1>2. OwnTab(tab, form.page, said) /\ OwnNet(net, tab, form.page, said) /\ OwnTimers(timer, tab, form.page, said)
  BY TabFacts
<1>3. timer = {}
  BY DEF OwnInv, OwnClient, OwnSession, Undrafted
<1>4. Idling(net)
  <2>1. \A n \in DOMAIN net : net[n].kind \in {"me", "answers", "rows"}
    BY <1>2, TabFacts DEF OwnNet, InLine, Beside, Orderly
  <2>. QED BY <2>1 DEF Idling, Saves
<1>5. IsList(q) /\ Idling(q)
  BY <1>4, TabFacts, IdleRemoved
<1>. HIDE DEF q, page
<1>6. CASE ~m.reply.ok
  BY <1>1, <1>3, <1>5, <1>6, AnewKept
<1>7. CASE m.reply.ok
  <2>1. t1.token = tab.token /\ s = store
    BY <1>2, <1>7 DEF OwnTab
  <2>2. Held' = Held
    <3>1. tab'.token = tab.token
      BY <1>1, <1>2, <1>7, <2>1 DEF Provided, OwnTab
    <3>. QED BY <1>1, <2>1, <3>1, HeldSame
  <2>. HIDE DEF t1, t
  <2>3. KeptNet(net, {}, kept, Held)
    BY <1>3 DEF KeptInv
  <2>4. IsList(q1) /\ Idling(q1)
    BY <1>5, IdleProvided
  <2>5. KeptNet(q1, {}, kept, Held)
    BY <1>4, <2>3, <2>4, IdleKept
  <2>. HIDE DEF q1
  <2>6. KeptNet(net', timer', kept, Held)
    <3>1. CASE Show(page, t, q1)
      BY <2>4, <2>5, <3>1, ShowKept
    <3>2. CASE Keep(form, t, q1)
      BY <1>3, <2>4, <2>5, <3>2, KeepKept
    <3>. QED BY <1>1, <3>1, <3>2
  <2>. QED BY <1>1, <1>7, <2>2, <2>6 DEF KeptAfter
<1>. QED BY <1>6, <1>7

\* The first answer arrives.
LEMMA ShiftKept ==
    ASSUME NEW q, IsList(q), 1 \in DOMAIN q, q[1].reply # Unanswered, NEW T, NEW K, NEW A, KeptNet(q, T, K, A),
           NEW K2 \in SUBSET K, Granted(q[1]) \/ \A k \in K2 : ~Touches(q[1], k)
    PROVE  IsList(RemoveAt(q, 1)) /\ KeptNet(RemoveAt(q, 1), T, K2, A)
<1>. DEFINE p == RemoveAt(q, 1)
<1>1. Shifted(q, p) /\ IsList(p)
  BY RemovedFirst, RemovedThins DEF Thins
<1>. HIDE DEF p
<1>2. InQueue(p)
  BY <1>1, QueueShift DEF KeptNet
<1>3. ASSUME NEW k \in K2 PROVE Lasts(k, T, p, A)
  <2>1. Lasts(k, T, q, A)
    BY DEF KeptNet
  <2>. QED BY <1>1, <2>1, LastsShift
<1>. QED BY <1>1, <1>2, <1>3 DEF KeptNet, p

LEMMA EndedKept ==
    ASSUME OwnInv, CurrentInv, KeptInv, 1 \in DOMAIN net, net[1].reply # Unanswered, net[1].kind \in {"save", "cell"},
           SaveEnded(net[1], RemoveAt(net, 1)) \/ CellEnded(net[1], RemoveAt(net, 1)), UNCHANGED <<answer, rows>>
    PROVE  KeptAfter
<1>. DEFINE m == net[1]
            q == RemoveAt(net, 1)
            t == IF ~m.reply.ok THEN tab ELSE [tab EXCEPT !.answers = m.reply.got]
            done == [form EXCEPT !.saving = FALSE, !.editing = @ /\ ~m.reply.ok]
            less == [form EXCEPT !.cells = @ \ UNION {Shown(@, i.row, i.field) : i \in m.items}]
<1>1. /\ store' = store /\ tab' = t
      /\ (Show("benefits", t, q) /\ form.saving) \/ Keep(done, t, q) \/ Keep(less, t, q)
      /\ IF m.reply.ok THEN kept' = kept ELSE Forget(m.items)
  BY DEF SaveEnded, CellEnded
<1>2. Held' = Held
  <2>1. t.token = tab.token
    BY TabFacts DEF OwnTab
  <2>. QED BY <1>1, <2>1, HeldSame
<1>3. done.page = form.page /\ less.page = form.page
  BY TabFacts
<1>4. form.page = "benefits" \/ form.saving => timer = {}
  BY TabFacts DEF OwnTimers, HasRepeater, KeptInv, Unhurried
<1>5. kept' \subseteq kept /\ (Granted(m) \/ \A k \in kept' : ~Touches(m, k))
  <2>1. CASE m.reply.ok
    BY <1>1, <2>1 DEF Granted
  <2>2. CASE ~m.reply.ok
    BY <1>1, <2>2 DEF Forget, Touches, Same
  <2>. QED BY <2>1, <2>2
<1>6. IsList(q) /\ KeptNet(q, timer, kept', Held)
  BY <1>5, TabFacts, ShiftKept DEF KeptInv
<1>. HIDE DEF q, t, done, less
<1>7. KeptNet(net', timer', kept', Held)
  <2>1. CASE Show("benefits", t, q) /\ form.saving
    BY <1>4, <1>6, <2>1, ShowKept
  <2>2. CASE Keep(done, t, q)
    BY <1>3, <1>4, <1>6, <2>2, KeepKept
  <2>3. CASE Keep(less, t, q)
    BY <1>3, <1>4, <1>6, <2>3, KeepKept
  <2>. QED BY <1>1, <2>1, <2>2, <2>3
<1>. QED BY <1>2, <1>7 DEF KeptAfter

LEMMA AnswersKept ==
    ASSUME OwnInv, CurrentInv, KeptInv, 1 \in DOMAIN net, net[1].kind = "answers", net[1].reply # Unanswered,
           tab' = [tab EXCEPT !.answers = net[1].reply.got, !.loading = FALSE],
           Keep(form, tab', RemoveAt(net, 1)), UNCHANGED <<store, kept, answer, rows>>
    PROVE  KeptAfter
<1>. DEFINE q == RemoveAt(net, 1)
<1>1. tab'.token = tab.token
  BY TabFacts DEF OwnTab
<1>2. Held' = Held
  BY <1>1, HeldSame
<1>3. \A k : ~Touches(net[1], k)
  BY DEF Touches, Saves
<1>4. IsList(q) /\ KeptNet(q, timer, kept, Held)
  BY <1>3, TabFacts, ShiftKept DEF KeptInv
<1>5. form.page = "benefits" => timer = {}
  BY TabFacts DEF OwnTimers, HasRepeater
<1>. HIDE DEF q
<1>6. KeptNet(net', timer', kept, Held)
  BY <1>4, <1>5, KeepKept DEF q
<1>. QED BY <1>2, <1>6 DEF KeptAfter

LEMMA RowsKept ==
    ASSUME OwnInv, CurrentInv, KeptInv, 1 \in DOMAIN net, net[1].kind \notin {"save", "cell"}, net[1].reply # Unanswered,
           net' = RemoveAt(net, 1), tab'.token = tab.token, UNCHANGED <<store, timer, kept, answer, rows>>
    PROVE  KeptAfter
<1>1. Held' = Held
  BY HeldSame
<1>2. \A k : ~Touches(net[1], k)
  BY DEF Touches, Saves
<1>3. KeptNet(net', timer, kept, Held)
  BY <1>2, TabFacts, ShiftKept DEF KeptInv
<1>. QED BY <1>1, <1>3 DEF KeptAfter

LEMMA DeliverKept ==
    ASSUME InTurn, OwnInv, CurrentInv, KeptInv, NEW n \in DOMAIN net, Deliver(n)
    PROVE  KeptAfter
<1>. DEFINE m == net[1]
            q == RemoveAt(net, 1)
<1>1. n = 1
  BY DEF Deliver, InTurn
<1>2. /\ 1 \in DOMAIN net /\ m.reply # Unanswered /\ m.live /\ (m.kind \in {"me", "answers", "rows"} \/ IsWrite(m))
      /\ UNCHANGED <<answer, rows>>
  BY <1>1, TabFacts DEF Deliver, Orderly, OwnNet, OwnMessage, server
<1>3. CASE ~m.reply.ok /\ m.kind \notin {"me", "save", "cell"}
  <2>1. UNCHANGED <<store, tab, form, timer, kept>> /\ net' = q
    BY <1>1, <1>3 DEF Deliver
  <2>. QED BY <1>2, <1>3, <2>1, RowsKept
<1>4. CASE ~(~m.reply.ok /\ m.kind \notin {"me", "save", "cell"})
  <2>1. CASE m.kind = "me"
    <3>1. SessionChecked(m, q)
      BY <1>1, <1>2, <1>4, <2>1 DEF Deliver
    <3>. QED BY <1>2, <2>1, <3>1, SessionKept
  <2>2. CASE m.kind = "save" \/ m.kind = "cell"
    <3>1. SaveEnded(m, q) \/ CellEnded(m, q)
      BY <1>1, <1>2, <1>4, <2>2 DEF Deliver
    <3>. QED BY <1>2, <2>2, <3>1, EndedKept
  <2>3. CASE m.kind = "login"
    <3>1. ApplyLogin(m, q)
      BY <1>1, <1>2, <1>4, <2>3 DEF Deliver
    <3>. QED BY <1>2, <2>3, <3>1, ApplyLoginKept
  <2>4. CASE m.kind = "answers"
    <3>1. /\ tab' = [tab EXCEPT !.answers = m.reply.got, !.loading = FALSE]
          /\ Keep(form, tab', q) /\ UNCHANGED <<store, kept>>
      BY <1>1, <1>2, <1>4, <2>4 DEF Deliver
    <3>. QED BY <1>2, <2>4, <3>1, AnswersKept
  <2>5. CASE m.kind \in {"rows", "add", "remove"}
    <3>1. /\ net' = q /\ UNCHANGED <<store, timer, kept>>
          /\ \/ m.kind = "rows" /\ tab' = [tab EXCEPT !.groups = m.reply.got]
             \/ m.kind = "add" /\ tab' = [tab EXCEPT !.groups = Append(@, m.reply.got)]
             \/ m.kind = "remove" /\ tab' = WithoutRow(tab, m.row)
      BY <1>1, <1>2, <1>4, <2>5 DEF Deliver
    <3>2. tab'.token = tab.token
      BY <3>1, TabFacts DEF OwnTab, WithoutRow
    <3>. QED BY <1>2, <2>5, <3>1, <3>2, RowsKept
  <2>. QED BY <1>2, <2>1, <2>2, <2>3, <2>4, <2>5 DEF IsWrite
<1>. QED BY <1>3, <1>4

\* What is shown as saved once items are saved, or sent, with their timers.
Writing(T, K, T2, items, K2) ==
    /\ T2 \subseteq T /\ \A x \in T : x \in T2 \/ \E i \in items : Same(x, i)
    /\ \A k \in K2 :
          /\ k \in Book!Item /\ \A x \in T2 : Same(x, k) => x.value = k.value
          /\ k \in items \/ (k \in K /\ \A i \in items : ~Same(i, k))

LEMMA WritingSame ==
    ASSUME NEW T, NEW K, NEW T2, NEW items, NEW K2, Writing(T, K, T2, items, K2), NEW k \in K2, k \notin items
    PROVE  k \in K /\ \A x : Same(x, k) => (x \in T <=> x \in T2)
BY DEF Writing, Same

\* A guest's answers are saved at once.
LEMMA GuestKept ==
    ASSUME NEW q, Idling(q), NEW T, NEW K, NEW A, KeptNet(q, T, K, A),
           NEW T2, NEW items, NEW K2, Writing(T, K, T2, items, K2)
    PROVE  KeptNet(q, T2, K2, Merge(A, items))
<1>1. InQueue(q)
  BY DEF KeptNet
<1>2. ASSUME NEW k \in K2 PROVE Lasts(k, T2, q, Merge(A, items))
  <2>1. k \in Book!Item /\ k.value # None /\ \A x \in T2 : Same(x, k) => x.value = k.value
    BY BrowserAssumption DEF Writing, Book!Item
  <2>2. CASE k \in items
    <3>1. k \in Merge(A, items)
      BY <2>1, <2>2 DEF Merge
    <3>. QED BY <2>1, <3>1, IdleLasts
  <2>3. CASE k \notin items
    <3>1. k \in K /\ \A x : Same(x, k) => (x \in T <=> x \in T2)
      BY <2>3, WritingSame
    <3>2. Timed(T, k) \/ k \in A
      BY <3>1, IdleLasts DEF KeptNet
    <3>3. Timed(T, k) => Timed(T2, k)
      BY <3>1 DEF Timed
    <3>4. k \in A => k \in Merge(A, items)
      BY <2>3 DEF Writing, Merge, Same
    <3>. QED BY <2>1, <3>2, <3>3, <3>4, IdleLasts
  <2>. QED BY <2>2, <2>3
<1>. QED BY <1>1, <1>2 DEF KeptNet

\* Those of whoever is signed in are sent.
LEMMA SentKept ==
    ASSUME NEW q, IsList(q), NEW T, NEW K, NEW A, KeptNet(q, T, K, A),
           NEW m, Saves(m), m.reply = Unanswered, \A x, y \in m.items : Same(x, y) => x = y,
           NEW T2, NEW K2, Writing(T, K, T2, m.items, K2)
    PROVE  KeptNet(Append(q, m), T2, K2, A)
<1>0. m.kind # "remove"
  BY DEF Saves
<1>1. InQueue(Append(q, m))
  BY <1>0, QueueAppend DEF KeptNet
<1>2. ASSUME NEW k \in K2 PROVE Lasts(k, T2, Append(q, m), A)
  <2>1. CASE k \in m.items
    BY <2>1, LastsSent DEF Writing
  <2>2. CASE k \notin m.items
    <3>1. k \in K /\ \A x : Same(x, k) => (x \in T <=> x \in T2)
      BY <2>2, WritingSame
    <3>2. ~Touches(m, k) /\ ~Removes(m, k)
      BY <1>0, <2>2 DEF Writing, Touches, Removes
    <3>. QED BY <3>1, <3>2, LastsAppend DEF KeptNet
  <2>. QED BY <2>1, <2>2
<1>. QED BY <1>1, <1>2 DEF KeptNet
LEMMA MergeWriting ==
    ASSUME NEW q, NEW T, NEW K, NEW A, KeptNet(q, T, K, A), NEW items,
           \A i \in items : i.value # None => i \in Book!Item, \A i \in items : \A x \in T : ~Same(x, i)
    PROVE  Writing(T, K, T, items, Merge(K, items))
<1>. SUFFICES ASSUME NEW k \in Merge(K, items)
              PROVE  /\ k \in Book!Item /\ \A x \in T : Same(x, k) => x.value = k.value
                     /\ k \in items \/ (k \in K /\ \A i \in items : ~Same(i, k))
  BY DEF Writing
<1>1. CASE k \in items /\ k.value # None
  BY <1>1
<1>2. CASE k \in K /\ \A i \in items : <<i.field, i.row>> # <<k.field, k.row>>
  <2>1. Lasts(k, T, q, A)
    BY <1>2 DEF KeptNet
  <2>2. \A i \in items : ~Same(i, k)
    BY <1>2 DEF Same
  <2>. QED BY <1>2, <2>1, <2>2 DEF Lasts
<1>. QED BY <1>1, <1>2 DEF Merge

\* What changes neither the answers nor the requests.
LEMMA StillKept ==
    ASSUME KeptInv, UNCHANGED <<store, tab, timer, net, kept, answer, rows>>
    PROVE  KeptAfter
<1>1. Held' = Held
  BY HeldSame
<1>. QED BY <1>1 DEF KeptInv, KeptAfter

\* A save of a guest.
LEMMA GuestSaveKept ==
    ASSUME OwnInv, CurrentInv, KeptInv, tab.user = None, ~tab.waiting, NEW items, NEW groups,
           store' = [store EXCEPT !.guest = SavedGuest(items, groups)], tab' = [tab EXCEPT !.answers = Merge(@, items)],
           NEW T2, NEW K2, Writing(timer, kept, T2, items, K2)
    PROVE  KeptNet(net, T2, K2, Held')
<1>1. Idling(net) /\ tab.token = None /\ Held = tab.answers
  BY GuestIdle
<1>2. tab'.token = None
  BY <1>1, TabFacts DEF OwnTab
<1>3. store'.guest = SavedGuest(items, groups)
  BY TabFacts
<1>4. Held' = Merge(Held, items)
  BY <1>1, <1>2, <1>3 DEF Held, SavedGuest
<1>5. KeptNet(net, timer, kept, Held)
  BY DEF KeptInv
<1>. QED BY <1>1, <1>4, <1>5, GuestKept

\* One of whoever is signed in.
LEMMA UserSaveKept ==
    ASSUME OwnInv, CurrentInv, KeptInv, UNCHANGED <<store, tab, answer, rows>>, NEW kind \in {"save", "cell"}, NEW token,
           NEW items, \A x, y \in items : Same(x, y) => x = y,
           net' = Append(net, [Msg(kind, token) EXCEPT !.items = items]), Writing(timer, kept, timer', items, kept')
    PROVE  KeptAfter
<1>. DEFINE m == [Msg(kind, token) EXCEPT !.items = items]
<1>1. m.kind = kind /\ m.reply = Unanswered /\ m.items = items
  BY DEF Msg
<1>2. Saves(m)
  BY <1>1 DEF Saves
<1>. HIDE DEF m
<1>. DEFINE T == timer'
            K == kept'
<1>. HIDE DEF T, K
<1>3. Writing(timer, kept, T, m.items, K)
  BY <1>1 DEF T, K
<1>4. KeptNet(Append(net, m), T, K, Held)
  BY <1>1, <1>2, <1>3, TabFacts, SentKept DEF KeptInv
<1>5. Held' = Held
  BY HeldSame
<1>. QED BY <1>4, <1>5 DEF KeptAfter, T, K, m

LEMMA TypeAnsweredKept ==
    ASSUME OwnInv, CurrentInv, KeptInv, Signed, NEW f \in Scalar, NEW v \in Value, TypeAnswered(f, v)
    PROVE  KeptAfter
<1>. DEFINE i == [field |-> f, row |-> None, value |-> v]
<1>1. /\ timer' = timer /\ ~tab.waiting /\ Hold({i}) /\ UNCHANGED <<answer, rows>>
      /\ IF tab.user = None THEN GuestSubmit({i}, tab.groups, form) /\ UNCHANGED net
         ELSE net' = Append(net, [Msg("cell", tab.token) EXCEPT !.items = {i}]) /\ UNCHANGED <<store, tab, form>>
  BY DEF TypeAnswered, server
<1>2. i \in Book!Item /\ i.field \in Scalar
  BY DEF Book!Item
<1>3. \A x \in timer : ~Same(x, i)
  BY <1>2, SignInAssumption DEF Signed, SoundClient, SoundTimers, Same
<1>. HIDE DEF i
<1>4. kept' = Merge(kept, {i}) /\ Writing(timer, kept, timer, {i}, Merge(kept, {i}))
  BY <1>1, <1>2, <1>3, MergeWriting DEF Hold, KeptInv
<1>5. CASE tab.user = None
  <2>1. /\ store' = [store EXCEPT !.guest = SavedGuest({i}, tab.groups)]
        /\ tab' = [tab EXCEPT !.answers = Merge(@, {i})] /\ net' = net
    BY <1>1, <1>5 DEF GuestSubmit
  <2>2. KeptNet(net, timer, Merge(kept, {i}), Held')
    BY <1>1, <1>4, <1>5, <2>1, GuestSaveKept
  <2>. QED BY <1>1, <1>4, <2>1, <2>2 DEF KeptAfter
<1>6. CASE tab.user # None
  <2>1. Writing(timer, kept, timer', {i}, kept')
    BY <1>1, <1>4
  <2>2. \A x, y \in {i} : Same(x, y) => x = y
    OBVIOUS
  <2>3. /\ UNCHANGED <<store, tab, answer, rows>>
        /\ net' = Append(net, [Msg("cell", tab.token) EXCEPT !.items = {i}])
    BY <1>1, <1>6
  <2>. DEFINE items == {i}
  <2>. HIDE DEF items
  <2>4. /\ Writing(timer, kept, timer', items, kept') /\ (\A x, y \in items : Same(x, y) => x = y)
        /\ UNCHANGED <<store, tab, answer, rows>>
        /\ net' = Append(net, [Msg("cell", tab.token) EXCEPT !.items = items])
    BY <2>1, <2>2, <2>3 DEF items
  <2>. QED BY <2>4, UserSaveKept
<1>. QED BY <1>5, <1>6
LEMMA SaveFormKept ==
    ASSUME InTurn, OwnInv, CurrentInv, KeptInv, SaveForm
    PROVE  KeptAfter
<1>. DEFINE t == [tab EXCEPT !.answers = Merge(@, DraftItems)]
<1>1. /\ ~tab.waiting /\ ~Busy /\ Drafting(form) /\ Hold(ItemsOf(Editable)) /\ UNCHANGED <<answer, rows>>
      /\ IF tab.user = None
         THEN /\ store' = [store EXCEPT !.guest = SavedGuest(DraftItems, tab.groups)]
              /\ tab' = t
              /\ IF form.page = "form" THEN Show("benefits", t, net)
                 ELSE UNCHANGED <<net, timer>>
         ELSE /\ net' = Append(net, [Msg("save", tab.token) EXCEPT !.items = DraftItems])
              /\ UNCHANGED <<store, tab, timer>>
  BY DEF SaveForm, InTurn, MayMove, Drafting, server
<1>. HIDE DEF t
<1>2. timer = {} /\ ItemsOf(Editable) = DraftItems
  BY <1>1, QuietIdle DEF DraftItems, Editable, Answerable
<1>3. \A x, y \in DraftItems : Same(x, y) => x = y
  BY DEF DraftItems, ItemsOf, Same
<1>4. \A i \in DraftItems : i.value # None => i \in Book!Item
  <2>. SUFFICES ASSUME NEW i \in DraftItems, i.value # None
                PROVE  i \in Book!Item
    OBVIOUS
  <2>1. PICK f \in Scalar : i = [field |-> f, row |-> None, value |-> form.draft[f]]
    BY DEF DraftItems, ItemsOf
  <2>2. <<i.field, i.value>> \in said[Who(tab)]
    <3>1. Told(Filled(DraftItems), said[Who(tab)])
      BY <1>1, DraftTold DEF OwnInv, OwnClient, OwnSession
    <3>. QED BY <3>1 DEF Told, Filled
  <2>3. Who(tab) \in Account \cup {Guest}
    BY TabFacts DEF Who
  <2>4. <<i.field, i.value>>[2] \in Value \cup {None}
    BY <2>2, <2>3 DEF KeptInv, SaidValues
  <2>5. form.draft[f] \in Value
    BY <2>1, <2>4
  <2>. QED BY <2>1, <2>5 DEF Book!Item
<1>. DEFINE items == DraftItems
<1>. HIDE DEF items
<1>5. kept' = Merge(kept, items) /\ Writing(timer, kept, timer, items, Merge(kept, items))
  BY <1>1, <1>2, <1>4, MergeWriting DEF Hold, KeptInv, items
<1>6. CASE tab.user = None
  <2>1. KeptNet(net, timer, kept', Held')
    <3>1. Writing(timer, kept, timer, items, kept')
      BY <1>5
    <3>. QED BY <1>1, <1>6, <3>1, GuestSaveKept DEF t, items
  <2>2. KeptNet(net', timer', kept', Held')
    <3>1. CASE form.page = "form"
      <4>1. Show("benefits", t, net) /\ KeptNet(net, {}, kept', Held')
        BY <1>1, <1>2, <1>6, <2>1, <3>1
      <4>. QED BY <4>1, TabFacts, ShowKept
    <3>2. CASE form.page # "form"
      BY <1>1, <1>6, <2>1, <3>2
    <3>. QED BY <3>1, <3>2
  <2>. QED BY <2>2 DEF KeptAfter
<1>7. CASE tab.user # None
  <2>1. Writing(timer, kept, timer', items, kept')
    BY <1>1, <1>5, <1>7
  <2>. QED BY <1>1, <1>3, <1>7, <2>1, UserSaveKept DEF items
<1>. QED BY <1>6, <1>7

LEMMA TypeCellKept ==
    ASSUME KeptInv, NEW r \in Row, NEW c \in Subfield, NEW v \in Value, TypeCell(r, c, v)
    PROVE  KeptAfter
<1>. DEFINE i == [field |-> c, row |-> r, value |-> v]
            x == [row |-> r, field |-> c, value |-> v, token |-> tab.token,
                  guest |-> tab.user = None, groups |-> tab.groups]
            T == {y \in timer : Cell(y.row, y.field) # Cell(r, c)} \cup {x}
            K == Merge(kept, {i})
<1>1. timer' = T /\ kept' = K /\ UNCHANGED <<store, tab, net, answer, rows>>
  BY DEF TypeCell, Hold, server
<1>2. Held' = Held
  BY <1>1, HeldSame
<1>3. /\ x.field = c /\ x.row = r /\ x.value = v /\ i.field = c /\ i.row = r /\ i.value = v
      /\ i \in Book!Item
  BY DEF Book!Item
<1>. HIDE DEF x, i
<1>4. ASSUME NEW k \in K PROVE Lasts(k, T, net, Held)
  <2>1. CASE k \in {i}
    <3>1. Timed(T, k) /\ \A y \in T : Same(y, k) => y.value = k.value
      BY <1>3, <2>1 DEF Timed, Same, Cell
    <3>. QED BY <1>3, <2>1, <3>1, LastsTimed
  <2>2. CASE k \notin {i}
    <3>1. k \in kept /\ ~Same(k, i)
      BY <1>3, <2>2 DEF Merge, Same
    <3>2. \A y : Same(y, k) => (y \in timer <=> y \in T)
      BY <1>3, <3>1 DEF Same, Cell
    <3>. QED BY <3>1, <3>2, LastsAside DEF KeptInv, KeptNet
  <2>. QED BY <2>1, <2>2
<1>. HIDE DEF T, K
<1>5. KeptNet(net, T, K, Held)
  BY <1>4 DEF KeptInv, KeptNet
<1>. QED BY <1>1, <1>2, <1>5 DEF KeptAfter

LEMMA ElapseKept ==
    ASSUME OwnInv, CurrentInv, KeptInv, NEW x, Elapse(x)
    PROVE  KeptAfter
<1>. DEFINE i == [field |-> x.field, row |-> x.row, value |-> x.value]
            T == timer \ {x}
<1>1. /\ x \in timer /\ timer' = T /\ kept' = kept /\ UNCHANGED <<answer, rows>> /\ TimerItems(x) = {i}
      /\ IF x.guest
         THEN /\ store' = [store EXCEPT !.guest = SavedGuest({i}, x.groups)]
              /\ tab' = [tab EXCEPT !.answers = Merge(@, {i})] /\ net' = net
         ELSE net' = Append(net, [Msg("cell", x.token) EXCEPT !.items = {i}]) /\ UNCHANGED <<store, tab>>
  BY DEF Elapse, GuestSubmit, TimerItems, server
<1>2. (x.guest <=> tab.user = None) /\ ~tab.waiting
  BY <1>1, TabFacts DEF OwnTimers
<1>3. i.field = x.field /\ i.row = x.row /\ i.value = x.value /\ Same(x, i)
  BY DEF Same
<1>4. Writing(timer, kept, T, {i}, kept)
  <2>1. T \subseteq timer /\ \A y \in timer : y \in T \/ \E j \in {i} : Same(y, j)
    BY <1>3
  <2>2. ASSUME NEW k \in kept
        PROVE  /\ k \in Book!Item /\ \A y \in T : Same(y, k) => y.value = k.value
               /\ k = i \/ ~Same(i, k)
    <3>1. k \in Book!Item /\ \A y \in timer : Same(y, k) => y.value = k.value
      BY DEF KeptInv, KeptNet, Lasts
    <3>2. ASSUME Same(i, k) PROVE k = i
      <4>1. k.field = i.field /\ k.row = i.row /\ k.value = i.value
        BY <1>1, <1>3, <3>1, <3>2 DEF Same
      <4>2. k = [field |-> k.field, row |-> k.row, value |-> k.value]
        BY <3>1 DEF Book!Item
      <4>. QED BY <1>3, <4>1, <4>2
    <3>. QED BY <3>1, <3>2
  <2>. HIDE DEF T, i
  <2>. QED BY <2>1, <2>2 DEF Writing
<1>. HIDE DEF T, i
<1>5. CASE x.guest
  <2>1. KeptNet(net, T, kept, Held')
    BY <1>1, <1>2, <1>4, <1>5, GuestSaveKept
  <2>. QED BY <1>1, <1>5, <2>1 DEF KeptAfter
<1>6. CASE ~x.guest
  <2>1. Writing(timer, kept, timer', {i}, kept') /\ \A y, z \in {i} : Same(y, z) => y = z
    BY <1>1, <1>4
  <2>2. /\ UNCHANGED <<store, tab, answer, rows>>
        /\ net' = Append(net, [Msg("cell", x.token) EXCEPT !.items = {i}])
    BY <1>1, <1>6
  <2>. DEFINE items == {i}
  <2>. HIDE DEF items
  <2>3. /\ Writing(timer, kept, timer', items, kept') /\ (\A y, z \in items : Same(y, z) => y = z)
        /\ UNCHANGED <<store, tab, answer, rows>>
        /\ net' = Append(net, [Msg("cell", x.token) EXCEPT !.items = items])
    BY <2>1, <2>2 DEF items
  <2>. QED BY <2>3, UserSaveKept
<1>. QED BY <1>5, <1>6
LEMMA HandleAddRowKept ==
    ASSUME InTurn, OwnInv, CurrentInv, KeptInv, HandleAddRow
    PROVE  KeptAfter
<1>. DEFINE m == Msg("add", tab.token)
            groups == Append(tab.groups, NewRow)
<1>1. /\ ~Busy /\ UNCHANGED <<timer, kept, answer, rows>> /\ ~tab.waiting
      /\ IF tab.user = None
         THEN /\ tab' = [tab EXCEPT !.groups = groups]
              /\ store' = [store EXCEPT !.guest = [answers |-> tab.answers, groups |-> groups]]
              /\ UNCHANGED net
         ELSE net' = Append(net, m) /\ UNCHANGED <<store, tab>>
  BY DEF HandleAddRow, InTurn, MayMove, server
<1>. HIDE DEF groups
<1>2. timer = {} /\ Idling(net)
  BY <1>1, QuietIdle
<1>3. Held' = Held
  <2>1. CASE tab.user = None
    <3>1. tab.token = None /\ Held = tab.answers
      BY <1>1, <2>1, GuestIdle
    <3>2. tab'.token = tab.token /\ store'.guest = [answers |-> tab.answers, groups |-> groups]
      BY <1>1, <2>1, TabFacts DEF OwnTab
    <3>3. store'.guest.answers = tab.answers
      BY <3>2
    <3>. QED BY <3>1, <3>2, <3>3 DEF Held
  <2>2. CASE tab.user # None
    BY <1>1, <2>2, HeldSame
  <2>. QED BY <2>1, <2>2
<1>4. ~Saves(m) /\ m.kind # "remove"
  BY DEF Msg, Saves
<1>. HIDE DEF m
<1>5. KeptNet(net, {}, kept, Held)
  BY <1>2 DEF KeptInv
<1>6. Idling(net')
  BY <1>1, <1>2, <1>4, TabFacts, IdleSent
<1>. DEFINE q == net'
<1>. HIDE DEF q
<1>7. KeptNet(q, {}, kept, Held)
  BY <1>2, <1>5, <1>6, IdleKept DEF q
<1>. QED BY <1>1, <1>2, <1>3, <1>7 DEF KeptAfter, q

\* No answer of a row that is deleted is shown any more.
LEMMA HandleDeleteRowKept ==
    ASSUME InTurn, OwnInv, CurrentInv, KeptInv, NEW r, HandleDeleteRow(r)
    PROVE  KeptAfter
<1>. DEFINE m == [Msg("remove", tab.token) EXCEPT !.row = r]
            K == {k \in kept : k.row # r}
            groups == Picked(tab.groups, {n \in DOMAIN tab.groups : tab.groups[n] # r})
            answers == {i \in tab.answers : i.row # r}
<1>1. /\ ~tab.waiting /\ timer' = timer \ Pending(r) /\ kept' = K /\ UNCHANGED <<answer, rows>>
      /\ \A x \in timer : x.row = r
      /\ \A n \in DOMAIN net : ~IsWrite(net[n])
      /\ IF tab.user = None
         THEN /\ tab' = [tab EXCEPT !.groups = groups, !.answers = answers]
              /\ store' = [store EXCEPT !.guest = [answers |-> tab'.answers, groups |-> tab'.groups]]
              /\ UNCHANGED net
         ELSE net' = Append(net, m) /\ UNCHANGED <<store, tab>>
  BY DEF HandleDeleteRow, InTurn, WithoutRow, server
<1>2. timer' = {} /\ Idling(net)
  BY <1>1 DEF Pending, IsWrite, Idling, Saves
<1>3. K \subseteq Held /\ K \subseteq Book!Item /\ \A k \in K : k.row # r
  <2>. SUFFICES ASSUME NEW k \in kept, k.row # r
                PROVE  k \in Held /\ k \in Book!Item
    OBVIOUS
  <2>1. Lasts(k, timer, net, Held)
    BY DEF KeptInv, KeptNet
  <2>2. ~Timed(timer, k)
    BY <1>1 DEF Timed, Same
  <2>. QED BY <1>2, <2>1, <2>2, IdleLasts
<1>. HIDE DEF K, groups, answers
<1>4. CASE tab.user = None
  <2>1. tab.token = None /\ Held = tab.answers
    BY <1>1, <1>4, GuestIdle
  <2>2. tab'.token = None /\ tab'.answers = answers
    BY <1>1, <1>4, <2>1, TabFacts DEF OwnTab
  <2>3. store'.guest.answers = answers
    BY <1>1, <1>4, <2>2, TabFacts
  <2>4. Held' = answers
    BY <2>2, <2>3 DEF Held
  <2>5. K \subseteq Held'
    BY <1>3, <2>1, <2>4 DEF answers
  <2>6. KeptNet(net, {}, K, Held')
    BY <1>2, <1>3, <2>5, IdleKept
  <2>. QED BY <1>1, <1>2, <1>4, <2>6 DEF KeptAfter
<1>5. CASE tab.user # None
  <2>1. m.kind = "remove" /\ m.reply = Unanswered /\ m.row = r
    BY DEF Msg
  <2>2. ~Saves(m) /\ \A k \in K : ~Touches(m, k) /\ ~Removes(m, k)
    BY <1>3, <2>1 DEF Saves, Touches, Removes
  <2>. HIDE DEF m
  <2>3. KeptNet(net, {}, K, Held)
    BY <1>2, <1>3, IdleKept
  <2>4. InQueue(Append(net, m))
    BY <1>2, <2>1, <2>2, <2>3, TabFacts, QueueAppend DEF Idling, KeptNet
  <2>5. ASSUME NEW k \in K PROVE Lasts(k, {}, Append(net, m), Held)
    <3>1. Lasts(k, {}, net, Held)
      BY <2>3 DEF KeptNet
    <3>. QED BY <2>2, <3>1, TabFacts, LastsAppend
  <2>6. Held' = Held
    BY <1>1, <1>5, HeldSame
  <2>7. KeptNet(Append(net, m), {}, K, Held)
    BY <2>4, <2>5 DEF KeptNet
  <2>. QED BY <1>1, <1>2, <1>5, <2>6, <2>7 DEF KeptAfter
<1>. QED BY <1>4, <1>5

-----------------------------------------------------------------------------
(* What the server does *)

LEMMA ReplyAnswers ==
    ASSUME OwnInv, CurrentInv, NEW n \in DOMAIN net, NEW r, Reply(n, r)
    PROVE  Answers(net, net', n, r)
BY AnsweredNet DEF Answers

LEMMA ServeReadKept ==
    ASSUME InTurn, OwnInv, CurrentInv, KeptInv, NEW n \in DOMAIN net, ServeRead(n)
    PROVE  KeptAfter
<1>1. /\ net[n].kind \in {"me", "answers", "rows"} /\ \A j \in 1 .. n - 1 : net[j].reply # Unanswered
      /\ UNCHANGED <<store, tab, timer, kept, answer, rows>>
  BY DEF ServeRead, Next1, InTurn, server
<1>2. PICK r : Reply(n, r) /\ r # Unanswered
  BY ReplyKinds DEF ServeRead
<1>3. Answers(net, net', n, r) /\ ~Saves(net[n]) /\ Held' = Held
  BY <1>1, <1>2, ReplyAnswers, HeldSame DEF Saves
<1>. DEFINE q == net'
<1>. HIDE DEF q
<1>4. Answers(net, q, n, r)
  BY <1>3 DEF q
<1>5. InQueue(q)
  BY <1>1, <1>2, <1>4, TabFacts, QueueAnswered DEF KeptInv, KeptNet
<1>6. ASSUME NEW k \in kept PROVE Lasts(k, timer, q, Held)
  <2>1. Lasts(k, timer, net, Held)
    BY DEF KeptInv, KeptNet
  <2>. QED BY <1>2, <1>3, <1>4, <2>1, LastsServed
<1>7. KeptNet(q, timer, kept, Held)
  BY <1>5, <1>6 DEF KeptNet
<1>. QED BY <1>1, <1>3, <1>7 DEF KeptAfter, q

LEMMA LoseKept ==
    ASSUME OwnInv, CurrentInv, KeptInv, NEW n \in DOMAIN net, Lose(n)
    PROVE  KeptAfter
<1>1. Reply(n, Refused) /\ UNCHANGED <<store, tab, timer, kept, answer, rows>>
  BY DEF Lose, server
<1>. DEFINE q == net'
<1>2. Answers(net, q, n, Refused)
  BY <1>1, ReplyAnswers
<1>. HIDE DEF q
<1>3. Held' = Held
  BY <1>1, HeldSame
<1>4. InQueue(q)
  BY <1>2, ReplyKinds, TabFacts, QueueAnswered DEF KeptInv, KeptNet
<1>5. ASSUME NEW k \in kept PROVE Lasts(k, timer, q, Held)
  <2>1. Lasts(k, timer, net, Held)
    BY DEF KeptInv, KeptNet
  <2>. QED BY <1>2, <2>1, LastsRefused
<1>6. KeptNet(q, timer, kept, Held)
  BY <1>4, <1>5 DEF KeptNet
<1>. QED BY <1>1, <1>3, <1>6 DEF KeptAfter, q
\* The account in whose book a request writes is that of whoever is signed in.
LEMMA WriterHeld ==
    ASSUME OwnInv, CurrentInv, NEW n \in DOMAIN net, net[n].kind \in {"save", "cell", "add", "remove"},
           UNCHANGED <<store, tab>>
    PROVE  /\ net[n].token \in Account /\ OwnBook(answer, rows, said) /\ BookRows(rows)
           /\ Held = AnswersIn(answer[net[n].token], rows[net[n].token])
           /\ Held' = AnswersIn(answer'[net[n].token], rows'[net[n].token])
<1>1. net[n].token \in Account /\ net[n].token = tab.user /\ tab.user # None
  BY TabFacts, SignInAssumption DEF OwnNet, OwnMessage, Orderly, Alters
<1>2. tab.token = net[n].token /\ tab.token # None
  BY <1>1, TabFacts
<1>. QED BY <1>1, <1>2 DEF Held, AnswersOf, OwnInv, CurrentInv

LEMMA ServeWriteKept ==
    ASSUME InTurn, OwnInv, CurrentInv, KeptInv, NEW n \in DOMAIN net, ServeWrite(n)
    PROVE  KeptAfter
<1>. DEFINE m == net[n]
            u == m.token
            q == net'
<1>1. /\ m.reply = Unanswered /\ \A j \in 1 .. n - 1 : net[j].reply # Unanswered
      /\ m.kind \in {"save", "cell", "add", "remove"} /\ UNCHANGED <<store, tab, timer, kept>>
  BY DEF ServeWrite, Next1, InTurn
<1>2. PICK r : /\ Reply(n, r)
               /\ \/ r = Refused /\ UNCHANGED <<answer, rows>>
                  \/ m.kind \in {"save", "cell"} /\ Book!Save(u, m.items) /\ r # Unanswered
                  \/ m.kind = "add" /\ Book!AddRow(u, Rep, NewRow) /\ NewRow # None /\ r # Unanswered
                  \/ m.kind = "remove" /\ Book!DeleteRow(u, Rep, m.row) /\ r # Unanswered
  BY <1>1, ReplyKinds DEF ServeWrite
<1>3. r # Unanswered /\ Answers(net, q, n, r)
  BY <1>2, ReplyKinds, ReplyAnswers
<1>4. /\ u \in Account /\ OwnBook(answer, rows, said) /\ BookRows(rows)
      /\ Held = AnswersIn(answer[u], rows[u]) /\ Held' = AnswersIn(answer'[u], rows'[u])
  BY <1>1, WriterHeld
<1>5. OwnBook(answer', rows', said')
  BY ServeWriteOwn
<1>. DEFINE A == Held
            A2 == Held'
<1>. HIDE DEF q, A, A2
<1>6. InQueue(q)
  BY <1>1, <1>3, TabFacts, QueueAnswered DEF KeptInv, KeptNet
<1>7. InQueue(net) /\ \A k \in kept : k \in Book!Item /\ Lasts(k, timer, net, A)
  BY DEF KeptInv, KeptNet, Lasts, A
<1>8. CASE r = Refused /\ UNCHANGED <<answer, rows>>
  <2>1. A2 = A
    BY <1>4, <1>8 DEF A, A2
  <2>. QED BY <1>3, <1>7, <1>8, <2>1, LastsRefused, <1>6, <1>1 DEF KeptAfter, KeptNet, q, A2
<1>9. CASE m.kind \in {"save", "cell"} /\ Book!Save(u, m.items)
  <2>. SUFFICES ASSUME NEW k \in kept PROVE Lasts(k, timer, q, A2)
    BY <1>1, <1>6 DEF KeptAfter, KeptNet, q, A2
  <2>1. Saves(m) /\ \A i \in m.items : k \in m.items /\ Same(i, k) => i = k
    BY <1>7, <1>9 DEF Saves, InQueue
  <2>2. /\ k \in m.items /\ (\A i \in m.items : Same(i, k) => i = k) => k \in A2
        /\ k \in A /\ (\A i \in m.items : ~Same(i, k)) => k \in A2
    BY <1>4, <1>5, <1>7, <1>9, SavePuts DEF A, A2
  <2>3. (k \in m.items => k \in A2) /\ (~Touches(m, k) /\ k \in A => k \in A2)
    BY <2>1, <2>2 DEF Touches
  <2>. QED BY <1>1, <1>3, <1>7, <2>1, <2>3, TabFacts, LastsGranted
<1>10. CASE m.kind = "add" /\ Book!AddRow(u, Rep, NewRow) /\ NewRow # None
  <2>1. A2 = A
    BY <1>4, <1>5, <1>10, AddRowLists DEF A, A2
  <2>2. ~Saves(m)
    BY <1>10 DEF Saves
  <2>3. ASSUME NEW k \in kept PROVE Lasts(k, timer, q, A2)
    BY <1>3, <1>7, <2>1, <2>2, LastsServed
  <2>. QED BY <1>1, <1>6, <2>3 DEF KeptAfter, KeptNet, q, A2
<1>11. CASE m.kind = "remove" /\ Book!DeleteRow(u, Rep, m.row)
  <2>1. A2 = Left(A, {m.row})
    BY <1>4, <1>5, <1>11, DeleteRowLists DEF A, A2
  <2>2. ~Saves(m)
    BY <1>11 DEF Saves
  <2>3. ASSUME NEW k \in kept PROVE Lasts(k, timer, q, A2)
    <3>1. Removes(m, k) \/ (k \in A => k \in A2)
      BY <1>1, <1>11, <2>1 DEF Removes, Left
    <3>. QED BY <1>3, <1>7, <2>2, <3>1, LastsServed
  <2>. QED BY <1>1, <1>6, <2>3 DEF KeptAfter, KeptNet, q, A2
<1>. QED BY <1>2, <1>8, <1>9, <1>10, <1>11

LEMMA ServeLoginKept ==
    ASSUME InTurn, OwnInv, CurrentInv, KeptInv, NEW n \in DOMAIN net, ServeLogin(n)
    PROVE  KeptAfter
<1>. DEFINE q == net'
<1>1. /\ UNCHANGED <<store, tab, timer, kept>> /\ net[n].kind = "login"
      /\ \A j \in 1 .. n - 1 : net[j].reply # Unanswered
      /\ net' = net \/ \E r : Reply(n, r) /\ r # Unanswered
  BY ReplyKinds DEF ServeLogin, Next1, InTurn
<1>2. tab.user = None /\ ~tab.waiting
  BY <1>1, TabFacts DEF OwnNet, OwnMessage, Orderly
<1>3. Held' = Held
  BY <1>1, <1>2, GuestIdle DEF Held
<1>4. CASE net' = net
  BY <1>1, <1>3, <1>4 DEF KeptInv, KeptAfter
<1>5. CASE \E r : Reply(n, r) /\ r # Unanswered
  <2>1. PICK r : Reply(n, r) /\ r # Unanswered
    BY <1>5
  <2>2. Answers(net, q, n, r) /\ ~Saves(net[n])
    BY <1>1, <2>1, ReplyAnswers DEF Saves
  <2>. HIDE DEF q
  <2>3. InQueue(q)
    BY <1>1, <2>1, <2>2, TabFacts, QueueAnswered DEF KeptInv, KeptNet
  <2>4. ASSUME NEW k \in kept PROVE Lasts(k, timer, q, Held)
    <3>1. Lasts(k, timer, net, Held)
      BY DEF KeptInv, KeptNet
    <3>. QED BY <2>1, <2>2, <3>1, LastsServed
  <2>5. KeptNet(q, timer, kept, Held)
    BY <2>3, <2>4 DEF KeptNet
  <2>. QED BY <1>1, <1>3, <2>5 DEF KeptAfter, q
<1>. QED BY <1>1, <1>4, <1>5
\* A sync on another device leaves what was shown as saved, which is not synced.
LEMMA SyncKept ==
    ASSUME SignInInv, FoundBound, Signed, OwnInv, CurrentInv, OpenKept, NEW b \in Browser, NEW a \in Account,
           FinishLogin(b, a), Vouch(b, a), UNCHANGED <<store, tab>>, NEW k \in kept, k \in Book!Item, k \in Held
    PROVE  k \in Held'
<1>. DEFINE i == login[b].by
            u == tab.token
            items(D) == {[field |-> f, row |-> None, value |-> i.profile[f]] : f \in D}
<1>1. \/ UNCHANGED <<answer, rows>>
      \/ i.via = "egov" /\ \E D \in SUBSET EgovField : Book!Save(a, items(D))
  BY DEF FinishLogin, Sync
<1>2. /\ i \in Identity /\ \A c \in Account : Stored(c) => account'[c].egov = account[c].egov
      /\ i.via = "egov" => account'[a].egov = i.sub
  BY FinishBound
<1>3. OwnBook(answer, rows, said) /\ OwnBook(answer', rows', said') /\ BookRows(rows)
  BY FinishOwn DEF OwnInv, CurrentInv
<1>4. u # None => u \in Account /\ Stored(u)
  BY DEF Signed, SoundClient, SoundTab, Known
<1>5. /\ u = None => Held' = Held
      /\ u # None => Held = AnswersIn(answer[u], rows[u]) /\ Held' = AnswersIn(answer'[u], rows'[u])
  BY DEF Held, AnswersOf
<1>. HIDE DEF i, u
<1>6. CASE u = None \/ UNCHANGED <<answer, rows>>
  BY <1>5, <1>6
<1>7. CASE u # None /\ i.via = "egov" /\ \E D \in SUBSET EgovField : Book!Save(a, items(D))
  <2>1. PICK D \in SUBSET EgovField : Book!Save(a, items(D))
    BY <1>7
  <2>2. \A x \in items(D) : x.field \in EgovField
    OBVIOUS
  <2>. HIDE DEF items
  <2>3. CASE u # a
    <3>1. answer'[u] = answer[u] /\ rows'[u] = rows[u]
      BY <1>3, <1>4, <1>7, <2>1, <2>3, SaveLists
    <3>. QED BY <1>5, <1>7, <3>1
  <2>4. CASE u = a
    <3>1. account[u].egov # None
      BY <1>2, <1>4, <1>7, <2>4, SignInAssumption
    <3>2. k.field \notin EgovField
      BY <1>7, <3>1 DEF OpenKept, u
    <3>3. \A x \in items(D) : ~Same(x, k)
      BY <2>2, <3>2 DEF Same
    <3>. QED BY <1>3, <1>5, <1>7, <2>1, <2>4, <3>3, SavePuts
  <2>. QED BY <2>3, <2>4
<1>. QED BY <1>1, <1>6, <1>7

LEMMA ElsewhereKept ==
    ASSUME SignInInv, FoundBound, Signed, OwnInv, CurrentInv, KeptInv, Elsewhere
    PROVE  KeptAfter
<1>1. /\ UNCHANGED <<store, tab, timer, net, kept>>
      /\ UNCHANGED <<answer, rows>> \/ \E a \in Account : FinishLogin("elsewhere", a) /\ Vouch("elsewhere", a)
  BY DEF Elsewhere, FindAccount, LoginFails
<1>2. ASSUME NEW a \in Account, FinishLogin("elsewhere", a), Vouch("elsewhere", a)
      PROVE  KeptAfter
  <2>. SUFFICES ASSUME NEW k \in kept
                PROVE  Lasts(k, timer, net, Held')
    BY <1>1 DEF KeptInv, KeptAfter, KeptNet
  <2>1. Lasts(k, timer, net, Held) /\ k \in Book!Item
    BY DEF KeptInv, KeptNet, Lasts
  <2>2. k \in Held => k \in Held'
    BY <1>1, <1>2, <2>1, SyncKept, BrowserAssumption DEF KeptInv
  <2>. DEFINE A2 == Held'
  <2>. HIDE DEF A2
  <2>3. Lasts(k, timer, net, A2)
    BY <2>1, <2>2, LastsAside DEF A2
  <2>. QED BY <2>3 DEF A2
<1>. QED BY <1>1, <1>2, StillKept

LEMMA CloseKept == ASSUME KeptInv, CloseAccount PROVE KeptAfter
<1>1. UNCHANGED <<store, tab, timer, net, kept, answer, rows>>
  BY DEF CloseAccount, Close, client
<1>. QED BY <1>1, StillKept

\* What the net, the timers and the answers keep, every step keeps.
LEMMA NextKeptAfter ==
    ASSUME InTurn, SignInInv, FoundBound, Signed, OwnInv, CurrentInv, KeptInv, Next
    PROVE  KeptAfter
<1>1. ASSUME NEW f, NEW v, Typing(f, v) \/ StartEditing \/ CancelEditing PROVE KeptAfter
  <2>1. UNCHANGED <<store, tab, timer, net, kept, answer, rows>>
    BY <1>1 DEF Typing, StartEditing, CancelEditing, server
  <2>. QED BY <2>1, StillKept
<1>2. Reload \/ Logout \/ SaveForm \/ HandleAddRow \/ Elsewhere \/ CloseAccount => KeptAfter
  BY ReloadKept, LogoutKept, SaveFormKept, HandleAddRowKept, ElsewhereKept, CloseKept
<1>3. ASSUME NEW x, Visit(x) \/ SendLogin(x) \/ Elapse(x) \/ HandleDeleteRow(x) PROVE KeptAfter
  BY <1>3, VisitKept, SendLoginKept, ElapseKept, HandleDeleteRowKept
<1>4. ASSUME NEW f \in Scalar, NEW v \in Value, TypeAnswered(f, v) PROVE KeptAfter
  BY <1>4, TypeAnsweredKept
<1>5. ASSUME NEW r \in Row, NEW c \in Subfield, NEW v \in Value, TypeCell(r, c, v) PROVE KeptAfter
  BY <1>5, TypeCellKept
<1>6. ASSUME NEW n \in DOMAIN net, ServeRead(n) \/ ServeWrite(n) \/ ServeLogin(n) \/ Lose(n) \/ Deliver(n)
      PROVE  KeptAfter
  BY <1>6, ServeReadKept, ServeWriteKept, ServeLoginKept, LoseKept, DeliverKept
<1>. QED BY <1>1, <1>2, <1>3, <1>4, <1>5, <1>6, Zenon DEF Next
-----------------------------------------------------------------------------
(* What else every step keeps *)

LEMMA KeepUnhurried ==
    ASSUME NEW fm, NEW t, NEW q, Keep(fm, t, q), fm.saving => timer = {},
           DOMAIN fm = FormFields
    PROVE  Unhurried'
BY KeepStays DEF Show, Unhurried

\* An answer that arrives starts no timer, and no save.
LEMMA DeliverUnhurried ==
    ASSUME OwnInv, CurrentInv, Unhurried, NEW n \in DOMAIN net, Deliver(n)
    PROVE  Unhurried'
<1>. DEFINE m == net[n]
            q == RemoveAt(net, n)
            read == [tab EXCEPT !.answers = m.reply.got, !.loading = FALSE]
<1>1. m.kind \in {"me", "save", "cell", "login", "answers", "rows", "add", "remove"}
  BY TabFacts DEF OwnNet, OwnMessage, IsWrite
<1>2. \/ UNCHANGED <<form, timer>>
      \/ SessionChecked(m, q) \/ SaveEnded(m, q) \/ CellEnded(m, q) \/ ApplyLogin(m, q)
      \/ Keep(form, read, q)
  <2>. HIDE DEF m, q, read
  <2>. QED BY <1>1 DEF Deliver, m, q, read
<1>. HIDE DEF m, q, read
<1>3. ASSUME NEW t, NEW r, NEW p, NEW s, Show(p, t, r) \/ Keep(form, s, r) PROVE Unhurried'
  <2>1. CASE Show(p, t, r)
    BY <2>1 DEF Show, Unhurried
  <2>2. CASE Keep(form, s, r)
    BY <2>2, TabFacts, KeepUnhurried DEF Unhurried
  <2>. QED BY <1>3, <2>1, <2>2
<1>4. CASE SessionChecked(m, q)
  <2>1. \E t, r, p : Show(p, t, r) \/ Keep(form, t, r)
    BY <1>4, Zenon DEF SessionChecked
  <2>. QED BY <1>3, <2>1
<1>5. CASE SaveEnded(m, q)
  <2>. DEFINE done == [form EXCEPT !.saving = FALSE, !.editing = @ /\ ~m.reply.ok]
  <2>1. ~done.saving /\ DOMAIN done = DOMAIN form
    BY TabFacts
  <2>2. \E t, r, p : Show(p, t, r) \/ Keep(done, t, r)
    BY <1>5, Zenon DEF SaveEnded
  <2>. HIDE DEF done
  <2>. QED BY <1>3, <2>1, <2>2, TabFacts, KeepUnhurried
<1>6. CASE CellEnded(m, q)
  <2>. DEFINE fm == [form EXCEPT !.cells = @ \ UNION {Shown(@, i.row, i.field) : i \in m.items}]
  <2>1. fm.saving = form.saving /\ DOMAIN fm = DOMAIN form
    BY TabFacts
  <2>2. \E t, r : Keep(fm, t, r)
    BY <1>6, Zenon DEF CellEnded
  <2>. HIDE DEF fm
  <2>. QED BY <2>1, <2>2, TabFacts, KeepUnhurried DEF Unhurried
<1>7. CASE ApplyLogin(m, q)
  <2>1. \E t, r, p : Show(p, t, r)
    BY <1>7, Zenon DEF ApplyLogin
  <2>. QED BY <1>3, <2>1
<1>8. CASE UNCHANGED <<form, timer>>
  BY <1>8 DEF Unhurried
<1>. QED BY <1>2, <1>3, <1>4, <1>5, <1>6, <1>7, <1>8

LEMMA NextUnhurried ==
    ASSUME InTurn, OwnInv, CurrentInv, Unhurried, Next
    PROVE  Unhurried'
<1>. DEFINE Slow == timer' = {} \/ (form'.saving = form.saving /\ timer' \subseteq timer)
<1>1. Slow => Unhurried'
  BY DEF Unhurried
<1>2. ~Busy => timer = {}
  BY DEF Busy
<1>3. ASSUME NEW f, NEW v, Typing(f, v) \/ TypeAnswered(f, v) PROVE Slow
  BY <1>3, TabFacts DEF Typing, TypeAnswered, GuestSubmit
<1>4. CASE SaveForm
  <2>1. timer = {}
    BY <1>2, <1>4 DEF SaveForm, MayMove, InTurn
  <2>2. timer' = {} \/ timer' = timer
    BY <1>4 DEF SaveForm, Show
  <2>. QED BY <1>1, <2>1, <2>2
<1>5. ASSUME NEW r, NEW c, NEW v, TypeCell(r, c, v) PROVE Unhurried'
  <2>1. ~form.saving /\ \E cells : form' = [form EXCEPT !.cells = cells]
    BY <1>5 DEF TypeCell, InTurn
  <2>2. ~form'.saving
    BY <2>1, TabFacts
  <2>. QED BY <2>2 DEF Unhurried
<1>6. ASSUME NEW x, Elapse(x) PROVE Slow
  <2>1. timer' \subseteq timer /\ (form' = form \/ \E cells : form' = [form EXCEPT !.cells = cells])
    BY <1>6 DEF Elapse, GuestSubmit
  <2>. QED BY <2>1, TabFacts
<1>7. ASSUME NEW r, HandleDeleteRow(r) PROVE Slow
  <2>1. timer' \subseteq timer /\ \E cells : form' = [form EXCEPT !.cells = cells]
    BY <1>7 DEF HandleDeleteRow
  <2>. QED BY <2>1, TabFacts
<1>8. CASE StartEditing \/ CancelEditing
  BY <1>1, <1>8, TabFacts DEF StartEditing, CancelEditing
<1>9. Reload \/ Logout => timer' = {}
  BY DEF Reload, Logout, Show
<1>10. ASSUME NEW p, Visit(p) \/ SendLogin(p) PROVE timer' = {}
  BY <1>10 DEF Visit, SendLogin, Show
<1>11. HandleAddRow \/ Elsewhere \/ CloseAccount => UNCHANGED <<form, timer>>
  BY DEF HandleAddRow, Elsewhere, CloseAccount, client
<1>12. ASSUME NEW n \in DOMAIN net, ServeRead(n) \/ ServeWrite(n) \/ ServeLogin(n) \/ Lose(n)
       PROVE  UNCHANGED <<form, timer>>
  BY <1>12 DEF ServeRead, ServeWrite, ServeLogin, Lose
<1>13. ASSUME NEW n \in DOMAIN net, Deliver(n) PROVE Unhurried'
  BY <1>13, DeliverUnhurried
<1>. HIDE DEF Slow
<1>14. UNCHANGED <<form, timer>> => Slow
  BY DEF Slow
<1>15. timer' = {} => Slow
  BY DEF Slow
<1>. QED
  BY <1>1, <1>3, <1>4, <1>5, <1>6, <1>7, <1>8, <1>9, <1>10, <1>11, <1>12, <1>13, <1>14, <1>15, Zenon DEF Next
\* What is said are values.
LEMMA SaySaid ==
    ASSUME OwnInv, SaidValues, NEW items, Say(items), \A i \in items : i.value \in Value \cup {None}
    PROVE  SaidValues'
<1>. DEFINE told == {<<i.field, i.value>> : i \in {j \in items : j.value # None}}
<1>1. said' = [said EXCEPT ![Who(tab)] = @ \cup told] /\ DOMAIN said = Account \cup {Guest}
  BY DEF Say, OwnInv
<1>2. \A p \in told : p[2] \in Value \cup {None}
  OBVIOUS
<1>. HIDE DEF told
<1>. QED BY <1>1, <1>2 DEF SaidValues

LEMMA VouchSaid ==
    ASSUME OwnInv, SaidValues, NEW b, NEW a, login[b].by \in Identity, Vouch(b, a)
    PROVE  SaidValues'
<1>. DEFINE told == {<<f, login[b].by.profile[f]>> : f \in EgovField}
<1>1. said' \in {said, [said EXCEPT ![a] = @ \cup told]} /\ DOMAIN said = Account \cup {Guest}
  BY DEF Vouch, OwnInv
<1>2. \A p \in told : p[2] \in Value \cup {None}
  BY BrowserAssumption
<1>. HIDE DEF told
<1>. QED BY <1>1, <1>2 DEF SaidValues

LEMMA NextSaid ==
    ASSUME SignInInv, FoundBound, OwnInv, SaidValues, Next
    PROVE  SaidValues'
<1>1. said' = said => SaidValues'
  BY DEF SaidValues
<1>2. CASE Logout
  <2>1. said' = [said EXCEPT ![Guest] = {}]
    BY <1>2 DEF Logout
  <2>. QED BY <2>1 DEF OwnInv, SaidValues
<1>3. ASSUME NEW f \in Scalar, NEW v \in Value, Typing(f, v) \/ TypeAnswered(f, v) PROVE SaidValues'
  <2>. DEFINE items == {[field |-> f, row |-> None, value |-> v]}
  <2>1. Say(items)
    BY <1>3, Zenon DEF Typing, TypeAnswered
  <2>2. \A i \in items : i.value \in Value \cup {None}
    OBVIOUS
  <2>. HIDE DEF items
  <2>. QED BY <2>1, <2>2, SaySaid
<1>4. ASSUME NEW r \in Row, NEW c \in Subfield, NEW v \in Value, TypeCell(r, c, v) PROVE SaidValues'
  <2>. DEFINE items == {[field |-> c, row |-> r, value |-> v]}
  <2>1. Say(items)
    BY <1>4, Zenon DEF TypeCell
  <2>2. \A i \in items : i.value \in Value \cup {None}
    OBVIOUS
  <2>. HIDE DEF items
  <2>. QED BY <2>1, <2>2, SaySaid
<1>5. ASSUME NEW b \in Browser, NEW a \in Account, FinishLogin(b, a), Vouch(b, a) PROVE SaidValues'
  BY <1>5, FinishBound, VouchSaid
<1>6. ASSUME NEW n \in DOMAIN net, ServeLogin(n) PROVE SaidValues'
  BY <1>1, <1>5, <1>6, BrowserAssumption DEF ServeLogin
<1>7. CASE Elsewhere
  BY <1>1, <1>5, <1>7, BrowserAssumption DEF Elsewhere
<1>8. ASSUME NEW n \in DOMAIN net, Deliver(n) PROVE said' = said
  BY <1>8, DeliverSaid
<1>9. ASSUME NEW n \in DOMAIN net, ServeRead(n) \/ ServeWrite(n) \/ Lose(n) PROVE said' = said
  BY <1>9 DEF ServeRead, ServeWrite, Lose
<1>10. ASSUME NEW x, Visit(x) \/ SendLogin(x) \/ Elapse(x) \/ HandleDeleteRow(x) PROVE said' = said
  BY <1>10 DEF Visit, SendLogin, Elapse, HandleDeleteRow
<1>11. Reload \/ StartEditing \/ CancelEditing \/ SaveForm \/ HandleAddRow \/ CloseAccount => said' = said
  BY DEF Reload, StartEditing, CancelEditing, SaveForm, HandleAddRow, CloseAccount, client
<1>. QED BY <1>1, <1>2, <1>3, <1>4, <1>6, <1>7, <1>8, <1>9, <1>10, <1>11, Zenon DEF Next
\* What was shown stays open while the same account is signed in, as no account
\* that there is gets an eGov id.
LEMMA OpenStays ==
    ASSUME SignInInv, FoundBound, Signed, Next, tab'.token = tab.token,
           tab.token # None => \A k \in kept' : k.field \in EgovField => account[tab.token].egov = None
    PROVE  OpenKept'
<1>1. tab.token # None => tab.token \in Account /\ Stored(tab.token)
  BY DEF Signed, SoundClient, SoundTab, Known
<1>2. tab.token # None => account'[tab.token].egov = account[tab.token].egov
  BY <1>1, BoundStep
<1>. QED BY <1>2 DEF OpenKept

LEMMA FewerOpen ==
    ASSUME SignInInv, FoundBound, Signed, OpenKept, Next, tab'.token = tab.token, kept' \subseteq kept
    PROVE  OpenKept'
BY OpenStays DEF OpenKept

\* A page shows as saved only what is not locked.
LEMMA MoreOpen ==
    ASSUME SignInInv, FoundBound, Signed, OwnInv, CurrentInv, OpenKept, Next, ~tab.waiting, tab'.token = tab.token,
           NEW items, Hold(items), \A i \in items : ~IsEgovFieldLocked(i.field, tab.user)
    PROVE  OpenKept'
<1>1. tab.token = tab.user
  BY TabFacts DEF OwnTab
<1>2. kept' \subseteq kept \cup items
  BY DEF Hold, Merge
<1>3. ASSUME tab.token # None, NEW k \in kept', k.field \in EgovField PROVE account[tab.token].egov = None
  BY <1>1, <1>2, <1>3 DEF OpenKept, IsEgovFieldLocked
<1>. QED BY <1>3, OpenStays

LEMMA DeliverOpen ==
    ASSUME OwnInv, CurrentInv, NEW n \in DOMAIN net, Deliver(n)
    PROVE  (tab'.token = tab.token /\ kept' \subseteq kept) \/ kept' = {}
<1>. DEFINE m == net[n]
            q == RemoveAt(net, n)
            Good == (tab'.token = tab.token /\ kept' \subseteq kept) \/ kept' = {}
<1>1. m.kind \in {"me", "save", "cell", "login", "answers", "rows", "add", "remove"}
  BY TabFacts DEF OwnNet, OwnMessage, IsWrite
<1>2. \/ UNCHANGED <<tab, kept>>
      \/ SessionChecked(m, q) \/ SaveEnded(m, q) \/ CellEnded(m, q) \/ ApplyLogin(m, q)
      \/ UNCHANGED kept /\ \/ tab' = [tab EXCEPT !.answers = m.reply.got, !.loading = FALSE]
                           \/ tab' = [tab EXCEPT !.groups = m.reply.got]
                           \/ tab' = [tab EXCEPT !.groups = Append(@, m.reply.got)]
                           \/ tab' = WithoutRow(tab, m.row)
  <2>. HIDE DEF m, q
  <2>. QED BY <1>1 DEF Deliver, m, q
<1>. HIDE DEF m, q
<1>3. CASE SessionChecked(m, q)
  <2>. DEFINE t1 == [tab EXCEPT !.user = m.token, !.waiting = FALSE]
  <2>1. CASE m.reply.ok
    <3>1. tab' = Provided(t1, store) /\ kept' = kept
      BY <1>3, <2>1 DEF SessionChecked
    <3>2. DOMAIN t1 = DOMAIN tab /\ t1.token = tab.token
      BY TabFacts DEF OwnTab
    <3>. HIDE DEF t1
    <3>3. tab'.token = tab.token
      BY <3>1, <3>2, TabFacts DEF Provided, OwnTab
    <3>. QED BY <3>1, <3>3
  <2>2. CASE ~m.reply.ok
    BY <1>3, <2>2 DEF SessionChecked
  <2>. QED BY <2>1, <2>2
<1>4. CASE SaveEnded(m, q) \/ CellEnded(m, q)
  <2>1. tab' \in {tab, [tab EXCEPT !.answers = m.reply.got]} /\ (Forget(m.items) \/ kept' = kept)
    BY <1>4 DEF SaveEnded, CellEnded
  <2>2. tab'.token = tab.token
    BY <2>1, TabFacts DEF OwnTab
  <2>. QED BY <2>1, <2>2 DEF Forget
<1>5. CASE ApplyLogin(m, q)
  BY <1>5 DEF ApplyLogin
<1>. QED BY <1>2, <1>3, <1>4, <1>5, TabFacts DEF OwnTab, WithoutRow

LEMMA NextOpenKept ==
    ASSUME SignInInv, FoundBound, Signed, OwnInv, CurrentInv, OpenKept, Next
    PROVE  OpenKept'
<1>1. tab'.token = tab.token /\ kept' \subseteq kept => OpenKept'
  BY FewerOpen
<1>2. kept' = {} => OpenKept'
  BY DEF OpenKept
<1>3. ASSUME NEW answers, NEW groups, tab' = [tab EXCEPT !.answers = answers] \/ tab' = [tab EXCEPT !.groups = groups]
                                      \/ tab' = [tab EXCEPT !.answers = answers, !.groups = groups]
      PROVE  tab'.token = tab.token
  BY <1>3, TabFacts DEF OwnTab
<1>4. ASSUME NEW f \in Scalar, NEW v \in Value, TypeAnswered(f, v) PROVE OpenKept'
  <2>. DEFINE items == {[field |-> f, row |-> None, value |-> v]}
  <2>1. /\ ~tab.waiting /\ ~IsEgovFieldLocked(f, tab.user) /\ Hold(items)
        /\ tab' = tab \/ tab' = [tab EXCEPT !.answers = Merge(@, items)]
    BY <1>4, Zenon DEF TypeAnswered, GuestSubmit
  <2>2. \A i \in items : ~IsEgovFieldLocked(i.field, tab.user)
    BY <2>1
  <2>3. tab'.token = tab.token
    BY <2>1, TabFacts DEF OwnTab
  <2>. HIDE DEF items
  <2>. QED BY <2>1, <2>2, <2>3, MoreOpen
<1>5. CASE SaveForm
  <2>. DEFINE items == ItemsOf(Editable)
  <2>1. /\ ~tab.waiting /\ Hold(items)
        /\ tab' = tab \/ tab' = [tab EXCEPT !.answers = Merge(@, DraftItems)]
    BY <1>5, Zenon DEF SaveForm
  <2>2. \A i \in items : ~IsEgovFieldLocked(i.field, tab.user)
    BY DEF ItemsOf, Editable
  <2>3. tab'.token = tab.token
    BY <2>1, TabFacts DEF OwnTab
  <2>. HIDE DEF items
  <2>. QED BY <2>1, <2>2, <2>3, MoreOpen
<1>6. ASSUME NEW r \in Row, NEW c \in Subfield, NEW v \in Value, TypeCell(r, c, v) PROVE OpenKept'
  <2>. DEFINE items == {[field |-> c, row |-> r, value |-> v]}
  <2>1. ~tab.waiting /\ Hold(items) /\ tab' = tab
    BY <1>6, Zenon DEF TypeCell
  <2>2. \A i \in items : ~IsEgovFieldLocked(i.field, tab.user)
    BY SignInAssumption DEF IsEgovFieldLocked
  <2>. HIDE DEF items
  <2>. QED BY <2>1, <2>2, MoreOpen
<1>7. ASSUME NEW n \in DOMAIN net, Deliver(n) PROVE OpenKept'
  BY <1>1, <1>2, <1>7, DeliverOpen
<1>8. CASE Reload
  <2>1. tab'.token = store.token /\ kept' = kept
    BY <1>8 DEF Reload, Fresh
  <2>. QED BY <1>1, <2>1, TabFacts
<1>9. CASE Logout
  BY <1>2, <1>9 DEF Logout
<1>10. ASSUME NEW x, Elapse(x) PROVE OpenKept'
  <2>1. kept' = kept /\ (tab' = tab \/ \E answers : tab' = [tab EXCEPT !.answers = answers])
    BY <1>10 DEF Elapse, GuestSubmit
  <2>. QED BY <1>1, <1>3, <2>1
<1>11. ASSUME NEW r, HandleDeleteRow(r) PROVE OpenKept'
  <2>1. kept' \subseteq kept /\ (tab' = tab \/ \E answers, groups : tab' = [tab EXCEPT !.groups = groups, !.answers = answers])
    BY <1>11 DEF HandleDeleteRow, WithoutRow
  <2>2. tab'.token = tab.token
    BY <2>1, TabFacts DEF OwnTab
  <2>. QED BY <1>1, <2>1, <2>2
<1>12. CASE HandleAddRow
  <2>1. kept' = kept /\ (tab' = tab \/ \E groups : tab' = [tab EXCEPT !.groups = groups])
    BY <1>12 DEF HandleAddRow
  <2>. QED BY <1>1, <1>3, <2>1
<1>13. ASSUME NEW f, NEW v, Typing(f, v) \/ StartEditing \/ CancelEditing PROVE UNCHANGED <<tab, kept>>
  BY <1>13 DEF Typing, StartEditing, CancelEditing
<1>14. ASSUME NEW x, Visit(x) \/ SendLogin(x) PROVE UNCHANGED <<tab, kept>>
  BY <1>14 DEF Visit, SendLogin
<1>15. Elsewhere \/ CloseAccount => UNCHANGED <<tab, kept>>
  BY DEF Elsewhere, CloseAccount, client
<1>16. ASSUME NEW n \in DOMAIN net, ServeRead(n) \/ ServeWrite(n) \/ ServeLogin(n) \/ Lose(n)
       PROVE  UNCHANGED <<tab, kept>>
  BY <1>16 DEF ServeRead, ServeWrite, ServeLogin, Lose
<1>17. UNCHANGED <<tab, kept>> => OpenKept'
  BY <1>1
<1>. QED
  BY <1>4, <1>5, <1>6, <1>7, <1>8, <1>9, <1>10, <1>11, <1>12, <1>13, <1>14, <1>15, <1>16, <1>17, Zenon DEF Next

LEMMA InitKept == Init => FoundBound /\ KeptInv
<1>. SUFFICES ASSUME Init PROVE FoundBound /\ KeptInv
  OBVIOUS
<1>1. /\ login = [b \in Browser |-> None] /\ form = Mounted("home", tab)
      /\ timer = {} /\ net = <<>> /\ kept = {} /\ said = [w \in Account \cup {Guest} |-> {}]
  BY DEF Init, ServerInit
<1>2. FoundBound
  BY <1>1 DEF FoundBound
<1>3. Unhurried /\ SaidValues /\ OpenKept
  BY <1>1 DEF Unhurried, SaidValues, OpenKept
<1>4. KeptNet(net, timer, kept, Held)
  BY <1>1 DEF KeptNet, InQueue
<1>. QED BY <1>2, <1>3, <1>4 DEF KeptInv

LEMMA NextKept ==
    ASSUME InTurn, SignInInv, FoundBound, Signed, OwnInv, CurrentInv, KeptInv, [Next]_vars
    PROVE  FoundBound' /\ KeptInv'
<1>1. CASE UNCHANGED vars
  <2>1. UNCHANGED <<account, login, answer, rows, store, tab, form, timer, net, kept, said>>
    BY <1>1 DEF vars, server, client
  <2>2. FoundBound' /\ Unhurried' /\ SaidValues' /\ OpenKept'
    BY <2>1 DEF FoundBound, KeptInv, Unhurried, SaidValues, OpenKept
  <2>3. KeptAfter
    BY <2>1, StillKept
  <2>. QED BY <2>2, <2>3 DEF KeptInv, KeptAfter
<1>2. CASE Next
  <2>1. FoundBound'
    BY <1>2, BoundStep
  <2>2. Unhurried' /\ SaidValues' /\ OpenKept'
    BY <1>2, NextUnhurried, NextSaid, NextOpenKept DEF KeptInv
  <2>3. KeptAfter
    BY <1>2, NextKeptAfter
  <2>. QED BY <2>1, <2>2, <2>3 DEF KeptInv, KeptAfter
<1>. QED BY <1>1, <1>2

\* What the person last typed into a cell, or saved in a form, and was not told was
\* refused, is stored once all is answered (KeptIsStored), a newer edit made while an
\* older one was being saved included: for every number of accounts, fields, rows and
\* edits, if the requests are served in the order sent and the person waits for what was
\* sent before moving on (FieldForm.tsx:131-149).
THEOREM KeptAlwaysStored == ASSUME InOrder, Settled, Patient PROVE Spec => []KeptIsStored
<1>. DEFINE Inv == SignInInv /\ Signed /\ OwnInv /\ CurrentInv /\ FoundBound /\ KeptInv
<1>1. Inv => KeptIsStored
  <2>. SUFFICES ASSUME OwnInv, CurrentInv, KeptInv, Quiet, ~tab.waiting
                PROVE  kept \subseteq StoredAnswers
    BY DEF KeptIsStored
  <2>1. timer = {} /\ Idling(net)
    BY DEF Quiet, Idling
  <2>2. kept \subseteq Held
    BY <2>1, IdleKept DEF KeptInv
  <2>3. Held = StoredAnswers
    BY TabFacts DEF OwnTab, Held, StoredAnswers
  <2>. QED BY <2>2, <2>3
<1>2. Init => Inv
  BY InitSignIn, InitSigned, InitOwn, InitCurrent, InitKept
<1>3. Inv /\ [Next]_vars => Inv'
  BY NextSignIn, NextSigned, NextOwn, NextCurrent, NextKept DEF SignInInv, InTurn
<1>. QED BY <1>1, <1>2, <1>3, PTL DEF Spec

=============================================================================
