------------------------- MODULE BrowserAccountsProofs --------------------------
(***************************************************************************)
(* One identity, one account, whatever browsers sign in at the same time; and *)
(* what eGov vouched for stands.  With the facts about lists of messages that *)
(* BrowserSessionProofs uses too.                                            *)
(***************************************************************************)
EXTENDS BrowserSessionInvariants, FiniteSetTheorems, SequenceTheorems, TLAPS

USE DEF FormFields, TabFields, MessageFields

SignInStep ==
    \/ \E b \in Browser, i \in Identity : FindAccount(b, i)
    \/ \E b \in Browser, a \in Account : FinishLogin(b, a)
    \/ \E b \in Browser : LoginFails(b)
    \/ \E a \in Account : Close(a)

accounts == <<account, login, home>>

LEMMA InitSignIn == Init => SignInInv
<1>1. ServerInit => SignInType
    BY DEF ServerInit, SignInType
<1>2. ServerInit => EmailsUnique /\ BoundByEmail /\ FoundMatches /\ HomeMatches
    BY DEF ServerInit, EmailsUnique, BoundByEmail, FoundMatches, HomeMatches, Stored
<1>3. Init => ServerInit
    BY Zenon DEF Init
<1> QED BY <1>1, <1>2, <1>3 DEF SignInInv

\* Only the sign-in steps and the closing of an account touch the accounts.
LEMMA OnlySignIn == Next => SignInStep \/ UNCHANGED accounts
<1> SUFFICES ASSUME Next PROVE SignInStep \/ UNCHANGED accounts
    OBVIOUS
<1> USE BrowserAssumption
<1>1. ASSUME Reload PROVE UNCHANGED accounts
    BY <1>1, Zenon DEF Reload, server, accounts
<1>2. ASSUME Logout PROVE UNCHANGED accounts
    BY <1>2, Zenon DEF Logout, server, accounts
<1>3. ASSUME StartEditing \/ CancelEditing PROVE UNCHANGED accounts
    BY <1>3, Zenon DEF StartEditing, CancelEditing, server, accounts
<1>4. ASSUME SaveForm PROVE UNCHANGED accounts
    BY <1>4, Zenon DEF SaveForm, server, accounts
<1>5. ASSUME HandleAddRow PROVE UNCHANGED accounts
    BY <1>5, Zenon DEF HandleAddRow, server, accounts
<1>6. ASSUME NEW p \in Page, Visit(p) PROVE UNCHANGED accounts
    BY <1>6, Zenon DEF Visit, server, accounts
<1>7. ASSUME NEW i \in Identity, SendLogin(i) PROVE UNCHANGED accounts
    BY <1>7, Zenon DEF SendLogin, server, accounts
<1>8. ASSUME NEW f \in Scalar, NEW v \in Value, Typing(f, v) \/ TypeAnswered(f, v)
      PROVE UNCHANGED accounts
    BY <1>8, Zenon DEF Typing, TypeAnswered, server, accounts
<1>9. ASSUME NEW r \in Row, NEW c \in Subfield, NEW v \in Value, TypeCell(r, c, v)
      PROVE UNCHANGED accounts
    BY <1>9, Zenon DEF TypeCell, server, accounts
<1>10. ASSUME NEW x \in timer, Elapse(x) PROVE UNCHANGED accounts
    BY <1>10, Zenon DEF Elapse, server, accounts
<1>11. ASSUME NEW r \in Row, HandleDeleteRow(r) PROVE UNCHANGED accounts
    BY <1>11, Zenon DEF HandleDeleteRow, server, accounts
<1>12. ASSUME NEW n \in DOMAIN net, ServeRead(n) \/ ServeWrite(n) \/ Lose(n) \/ Deliver(n)
       PROVE UNCHANGED accounts
    BY <1>12, Zenon DEF ServeRead, ServeWrite, Lose, Deliver, server, accounts
<1>13. ASSUME NEW n \in DOMAIN net, ServeLogin(n) PROVE SignInStep
    BY <1>13, Zenon DEF ServeLogin, SignInStep
<1>14. ASSUME Elsewhere PROVE SignInStep
    BY <1>14, Zenon DEF Elsewhere, SignInStep
<1>15. ASSUME CloseAccount PROVE SignInStep
    BY <1>15, Zenon DEF CloseAccount, SignInStep
<1> QED BY <1>1, <1>2, <1>3, <1>4, <1>5, <1>6, <1>7, <1>8, <1>9, <1>10, <1>11, <1>12, <1>13,
       <1>14, <1>15, Zenon DEF Next

\* What the end of a sign-in does: a new account under a free address, or the one
\* found, bound to the identity.
LEMMA SettlesEffect ==
    ASSUME NEW i \in Identity, NEW a \in Account, NEW found \in Account \cup {None}, NEW bind \in BOOLEAN,
           SignInType, Settles(i, found, bind, a), found # None => Stored(found) /\ account[found].email = i.email
    PROVE  /\ account' \in [Account -> AccountRecord \cup {None}]
           /\ \A c \in Account : c # a => account'[c] = account[c]
           /\ account'[a] # None
           /\ account'[a].email = i.email
           /\ \/ account[a] = None /\ EmailFree(i)
              \/ Stored(a) /\ account[a].email = i.email
           /\ \A s : s \in {account'[a].google, account'[a].egov} =>
                 s \in {None, i.sub} \/ (Stored(a) /\ s \in {account[a].google, account[a].egov})
<1>1. CASE found = None
  <2> DEFINE n == NewAccount(i)
  <2>1. n \in AccountRecord /\ n.email = i.email /\ n.google \in {None, i.sub} /\ n.egov \in {None, i.sub}
      BY DEF NewAccount, AccountRecord
  <2>2. n # None
      BY <2>1, SignInAssumption
  <2>3. account' = [account EXCEPT ![a] = n] /\ account[a] = None /\ EmailFree(i)
      BY <1>1 DEF Settles
  <2> HIDE DEF n
  <2>4. account'[a] = n /\ \A c \in Account : c # a => account'[c] = account[c]
      BY <2>3 DEF SignInType
  <2>5. account' \in [Account -> AccountRecord \cup {None}]
      BY <2>1, <2>3 DEF SignInType
  <2> QED BY <2>1, <2>2, <2>3, <2>4, <2>5
<1>2. CASE found # None
  <2> DEFINE n == IF bind THEN [account[a] EXCEPT !.google = i.sub] ELSE account[a]
  <2>1. a = found /\ Stored(a) /\ account[a].email = i.email /\ account[a] \in AccountRecord
      BY <1>2 DEF Settles, Stored, SignInType
  <2>2. account' = [account EXCEPT ![a] = n]
      BY <1>2 DEF Settles, SignInType
  <2>3. n \in AccountRecord /\ n.email = i.email /\ n.google \in {account[a].google, i.sub} /\ n.egov = account[a].egov
      BY <2>1 DEF AccountRecord
  <2>4. n # None
      BY <2>3, SignInAssumption
  <2> HIDE DEF n
  <2>5. account'[a] = n /\ \A c \in Account : c # a => account'[c] = account[c]
      BY <2>2 DEF SignInType
  <2>6. account' \in [Account -> AccountRecord \cup {None}]
      BY <2>2, <2>3 DEF SignInType
  <2> QED BY <2>1, <2>3, <2>4, <2>5, <2>6
<1> QED BY <1>1, <1>2

\* So the accounts keep their addresses, unique and the ones of their ids.
LEMMA SettlesKeeps ==
    ASSUME NEW i \in Identity, NEW a \in Account, NEW found \in Account \cup {None}, NEW bind \in BOOLEAN,
           SignInInv, Settles(i, found, bind, a), found # None => Stored(found) /\ account[found].email = i.email
    PROVE  /\ account' \in [Account -> AccountRecord \cup {None}]
           /\ EmailsUnique' /\ BoundByEmail'
           /\ Stored(a)' /\ account'[a].email = i.email
           /\ \A c \in Account : Stored(c) => Stored(c)' /\ account'[c].email = account[c].email
<1>1. /\ account' \in [Account -> AccountRecord \cup {None}]
      /\ \A c \in Account : c # a => account'[c] = account[c]
      /\ account'[a] # None
      /\ account'[a].email = i.email
      /\ \/ account[a] = None /\ EmailFree(i)
         \/ Stored(a) /\ account[a].email = i.email
      /\ \A s : s \in {account'[a].google, account'[a].egov} =>
            s \in {None, i.sub} \/ (Stored(a) /\ s \in {account[a].google, account[a].egov})
    BY SettlesEffect DEF SignInInv
<1>2. \A c \in Account : Stored(c) => Stored(c)' /\ account'[c].email = account[c].email
    BY <1>1 DEF Stored
<1>3. EmailsUnique'
  <2> SUFFICES ASSUME NEW b \in Account, NEW c \in Account, account'[b] # None, account'[c] # None,
                      account'[b].email = account'[c].email
               PROVE b = c
      BY DEF EmailsUnique, Stored
  <2>1. ASSUME NEW d \in Account, d # a, account'[d] # None PROVE account'[d].email # i.email
    <3>1. account[d] # None /\ account'[d] = account[d]
        BY <1>1, <2>1
    <3> QED BY <1>1, <2>1, <3>1 DEF SignInInv, EmailsUnique, Stored, EmailFree
  <2> QED BY <1>1, <2>1 DEF SignInInv, EmailsUnique, Stored
<1>4. BoundByEmail'
  <2> SUFFICES ASSUME NEW c \in Account, NEW j \in Identity, account'[c] # None,
                      j.sub \in {account'[c].google, account'[c].egov}
               PROVE account'[c].email = j.email
      BY DEF BoundByEmail, Stored
  <2>1. CASE c # a
      BY <1>1, <2>1 DEF SignInInv, BoundByEmail, Stored
  <2>2. CASE c = a
    <3>1. CASE j.sub = i.sub
        BY <1>1, <2>2, <3>1, SignInAssumption
    <3>2. CASE Stored(a) /\ j.sub \in {account[a].google, account[a].egov}
        BY <1>1, <2>2, <3>2 DEF SignInInv, BoundByEmail, Stored
    <3> QED BY <1>1, <2>2, <3>1, <3>2, SignInAssumption
  <2> QED BY <2>1, <2>2
<1> QED BY <1>1, <1>2, <1>3, <1>4 DEF Stored

\* An account a sign-in may find has the address of the identity.
LEMMA MatchesEmail ==
    ASSUME NEW i \in Identity, SignInInv, NEW a \in Matches(i)
    PROVE  a \in Account /\ Stored(a) /\ account[a].email = i.email
BY DEF SignInInv, BoundByEmail, Stored, Matches, ByGoogle, ByEgov, ByEmail, Live

LEMMA StepFindAccount ==
    ASSUME NEW b \in Browser, NEW i \in Identity, SignInInv, FindAccount(b, i)
    PROVE  SignInInv'
<1>1. PICK a \in Matches(i) \cup {None} :
           (a = None <=> Matches(i) = {}) /\ login' = [login EXCEPT ![b] = [by |-> i, found |-> a, bind |-> a # None /\ ~Bound(i, a)]]
    BY DEF FindAccount
<1> DEFINE r == [by |-> i, found |-> a, bind |-> a # None /\ ~Bound(i, a)]
<1>2. a # None => a \in Account /\ Stored(a) /\ account[a].email = i.email
    BY MatchesEmail
<1>3. r \in LoginRecord /\ r.by = i /\ r.found = a
    BY <1>2 DEF LoginRecord
<1>4. login' = [login EXCEPT ![b] = r] /\ account' = account /\ home' = home
    BY <1>1 DEF FindAccount
<1> HIDE DEF r
<1>5. SignInType'
    BY <1>3, <1>4 DEF SignInInv, SignInType
<1>6. FoundMatches'
    BY <1>2, <1>3, <1>4 DEF SignInInv, SignInType, FoundMatches, Stored
<1> QED BY <1>4, <1>5, <1>6 DEF SignInInv, EmailsUnique, BoundByEmail, HomeMatches, Stored

LEMMA StepFinishLogin ==
    ASSUME NEW b \in Browser, NEW a \in Account, SignInInv, FinishLogin(b, a)
    PROVE  SignInInv' /\ \A i \in Identity : home[i] # None => home'[i] = home[i]
<1> DEFINE i == login[b].by
           found == login[b].found
           bind == login[b].bind
<1>1. login[b] \in LoginRecord /\ login[b] # None
    BY DEF FinishLogin, SignInInv, SignInType
<1>2. i \in Identity /\ found \in Account \cup {None} /\ bind \in BOOLEAN
    BY <1>1 DEF LoginRecord
<1>3. found # None => Stored(found) /\ account[found].email = i.email
    BY <1>1 DEF SignInInv, FoundMatches
<1>4. /\ Settles(i, found, bind, a)
      /\ home' = [home EXCEPT ![i] = a]
      /\ login' = [login EXCEPT ![b] = None]
    BY DEF FinishLogin
<1> HIDE DEF i, found, bind
<1>5. /\ account' \in [Account -> AccountRecord \cup {None}]
      /\ EmailsUnique' /\ BoundByEmail'
      /\ Stored(a)' /\ account'[a].email = i.email
      /\ \A c \in Account : Stored(c) => Stored(c)' /\ account'[c].email = account[c].email
    BY <1>2, <1>3, <1>4, SettlesKeeps
<1>6. SignInType'
    BY <1>2, <1>4, <1>5 DEF SignInInv, SignInType
<1>7. FoundMatches'
  <2> SUFFICES ASSUME NEW d \in Browser, login'[d] # None, login'[d].found # None
               PROVE account'[login'[d].found] # None /\ account'[login'[d].found].email = login'[d].by.email
      BY DEF FoundMatches, Stored
  <2>1. login'[d] = login[d]
      BY <1>4 DEF SignInInv, SignInType
  <2>2. login[d].found \in Account
      BY <2>1 DEF SignInInv, SignInType, LoginRecord
  <2> QED BY <1>5, <2>1, <2>2 DEF SignInInv, FoundMatches, Stored
<1>8. HomeMatches'
  <2> SUFFICES ASSUME NEW j \in Identity, home'[j] # None
               PROVE account'[home'[j]] # None /\ account'[home'[j]].email = j.email
      BY DEF HomeMatches, Stored
  <2>1. CASE j = i
      BY <1>2, <1>4, <1>5, <2>1 DEF SignInInv, SignInType, Stored
  <2>2. CASE j # i
    <3>1. home'[j] = home[j] /\ home[j] \in Account
        BY <1>4, <2>2 DEF SignInInv, SignInType
    <3> QED BY <1>5, <3>1 DEF SignInInv, HomeMatches, Stored
  <2> QED BY <2>1, <2>2
<1>9. ASSUME NEW j \in Identity, home[j] # None PROVE home'[j] = home[j]
  <2>1. CASE j # i
      BY <1>4, <2>1 DEF SignInInv, SignInType
  <2>2. CASE j = i
    <3>1. home[j] \in Account /\ Stored(home[j]) /\ account[home[j]].email = i.email
        BY <1>9, <2>2 DEF SignInInv, SignInType, HomeMatches
    <3>2. home[j] = a
        BY <1>5, <3>1 DEF EmailsUnique
    <3> QED BY <1>4, <2>2, <3>2 DEF SignInInv, SignInType
  <2> QED BY <2>1, <2>2
<1> QED BY <1>5, <1>6, <1>7, <1>8, <1>9 DEF SignInInv

LEMMA StepLoginFails ==
    ASSUME NEW b \in Browser, SignInInv, LoginFails(b)
    PROVE  SignInInv'
<1>1. login' = [login EXCEPT ![b] = None] /\ account' = account /\ home' = home
    BY DEF LoginFails
<1>2. SignInType'
    BY <1>1 DEF SignInInv, SignInType
<1>3. FoundMatches'
    BY <1>1 DEF SignInInv, SignInType, FoundMatches, Stored
<1> QED BY <1>1, <1>2, <1>3 DEF SignInInv, EmailsUnique, BoundByEmail, HomeMatches, Stored

LEMMA StepClose ==
    ASSUME NEW a \in Account, SignInInv, Close(a)
    PROVE  SignInInv'
<1>1. Stored(a) /\ account[a] \in AccountRecord
    BY DEF Close, MayUse, SignInInv, SignInType, Stored
<1>2. PICK s \in {"inactive", "deleted"} : account' = [account EXCEPT ![a].status = s]
    BY DEF Close
<1> DEFINE n == [account[a] EXCEPT !.status = s]
<1>3. account' = [account EXCEPT ![a] = n]
    BY <1>2 DEF SignInInv, SignInType
<1>4. /\ n \in AccountRecord
      /\ n.email = account[a].email /\ n.google = account[a].google /\ n.egov = account[a].egov
    BY <1>1 DEF AccountRecord
<1> HIDE DEF n
<1>5. /\ account' \in [Account -> AccountRecord \cup {None}]
      /\ account'[a] = n /\ \A c \in Account : c # a => account'[c] = account[c]
    BY <1>3, <1>4 DEF SignInInv, SignInType
<1>6. \A c \in Account : Stored(c)' <=> Stored(c)
    BY <1>1, <1>4, <1>5, SignInAssumption DEF Stored
<1>7. \A c \in Account : /\ account'[c].email = account[c].email
                         /\ account'[c].google = account[c].google
                         /\ account'[c].egov = account[c].egov
    BY <1>4, <1>5
<1>8. login' = login /\ home' = home
    BY DEF Close
<1>9. SignInType'
    BY <1>5, <1>8 DEF SignInInv, SignInType
<1>10. EmailsUnique' /\ BoundByEmail'
    BY <1>6, <1>7 DEF SignInInv, EmailsUnique, BoundByEmail
<1>11. FoundMatches'
  <2>1. \A b \in Browser : login[b] # None /\ login[b].found # None => login[b].found \in Account
      BY DEF SignInInv, SignInType, LoginRecord
  <2> QED BY <1>6, <1>7, <1>8, <2>1 DEF SignInInv, FoundMatches, Stored
<1>12. HomeMatches'
  <2>1. \A i \in Identity : home[i] # None => home[i] \in Account
      BY DEF SignInInv, SignInType
  <2> QED BY <1>6, <1>7, <1>8, <2>1 DEF SignInInv, HomeMatches, Stored
<1> QED BY <1>9, <1>10, <1>11, <1>12 DEF SignInInv

\* Every step keeps the invariant, and every identity its account.
LEMMA NextSignIn ==
    ASSUME SignInInv, [Next]_vars
    PROVE  SignInInv' /\ \A i \in Identity : home[i] # None => home'[i] = home[i]
<1>1. CASE UNCHANGED accounts
    BY <1>1 DEF accounts, SignInInv, SignInType, EmailsUnique, BoundByEmail, FoundMatches,
       HomeMatches, Stored
<1>2. CASE SignInStep
  <2>1. ASSUME NEW b \in Browser, NEW i \in Identity, FindAccount(b, i)
        PROVE SignInInv' /\ home' = home
      BY <2>1, StepFindAccount DEF FindAccount
  <2>2. ASSUME NEW b \in Browser, LoginFails(b) PROVE SignInInv' /\ home' = home
      BY <2>2, StepLoginFails DEF LoginFails
  <2>3. ASSUME NEW a \in Account, Close(a) PROVE SignInInv' /\ home' = home
      BY <2>3, StepClose DEF Close
  <2> QED BY <1>2, <2>1, <2>2, <2>3, StepFinishLogin DEF SignInStep
<1>3. UNCHANGED vars => UNCHANGED accounts
    BY Zenon DEF vars, server, accounts
<1> QED BY <1>1, <1>2, <1>3, OnlySignIn

\* The invariant leaves one account to an identity.
LEMMA OneByEmail == SignInInv => OneAccountPerIdentity
<1> SUFFICES ASSUME SignInInv, NEW i \in Identity
             PROVE Cardinality(ByGoogle(i) \cup ByEgov(i)) <= 1
    BY DEF OneAccountPerIdentity
<1> DEFINE S == ByGoogle(i) \cup ByEgov(i)
<1>1. \A a, b \in S : a = b
    BY DEF SignInInv, EmailsUnique, BoundByEmail, Stored, ByGoogle, ByEgov, Live
<1> HIDE DEF S
<1>2. CASE S = {}
    BY <1>2, FS_EmptySet DEF S
<1>3. CASE S # {}
  <2>1. PICK a : a \in S
      BY <1>3
  <2>2. S = {a}
      BY <1>1, <2>1
  <2>3. Cardinality({a}) = 1
      BY FS_Singleton
  <2> QED BY <2>2, <2>3 DEF S
<1> QED BY <1>2, <1>3

\* However two first sign-ins of one person overlap, on whatever browsers, with
\* accounts bound, closed and deleted in between, a Google or eGov id stands on
\* one account at most (auth.service.ts:45-158).
THEOREM OneAccount == Spec => []OneAccountPerIdentity
<1>1. Init => SignInInv
    BY InitSignIn
<1>2. SignInInv /\ [Next]_vars => SignInInv'
    BY NextSignIn
<1>3. SignInInv => OneAccountPerIdentity
    BY OneByEmail
<1> QED BY <1>1, <1>2, <1>3, PTL DEF Spec

\* An identity is let into the account it came into before, for ever
\* (auth.service.ts:58-86, 141-158).
THEOREM SameAccountAlways == Spec => SameAccount
<1>1. Init => SignInInv
    BY InitSignIn
<1>2. SignInInv /\ [Next]_vars => SignInInv'
    BY NextSignIn
<1>3. SignInInv /\ [Next]_vars => [\A i \in Identity : home[i] # None => home'[i] = home[i]]_server
    BY NextSignIn
<1> QED BY <1>1, <1>2, <1>3, PTL DEF Spec, SameAccount
-----------------------------------------------------------------------------
(* Lists of messages *)

\* The numbers 1 .. Cardinality(I) are the ranks of the positions I.
LEMMA Ranked ==
    ASSUME NEW I \in SUBSET Nat, IsFiniteSet(I), NEW n \in 1 .. Cardinality(I)
    PROVE  \E i \in I : Cardinality({j \in I : j <= i}) = n
<1>. DEFINE Upto(i) == {j \in I : j <= i}
            rank == [i \in I |-> Cardinality(Upto(i))]
            N == Cardinality(I)
<1>1. N \in Nat
  BY FS_CardinalityType
<1>2. ASSUME NEW i \in I
      PROVE  /\ IsFiniteSet(Upto(i)) /\ Cardinality(Upto(i)) \in 1 .. N
  <2>1. Upto(i) \in SUBSET I /\ i \in Upto(i)
    OBVIOUS
  <2>2. IsFiniteSet(Upto(i)) /\ Cardinality(Upto(i)) <= N /\ Cardinality(Upto(i)) \in Nat
    BY <2>1, FS_Subset, FS_CardinalityType
  <2>3. Cardinality(Upto(i)) # 0
    BY <2>1, <2>2, FS_EmptySet
  <2>. QED BY <1>1, <2>2, <2>3
<1>3. ASSUME NEW i \in I, NEW k \in I, i < k
      PROVE  Cardinality(Upto(i)) # Cardinality(Upto(k))
  <2>1. i \in Nat /\ k \in Nat /\ I \subseteq Nat
    OBVIOUS
  <2>2. Upto(i) \in SUBSET Upto(k)
    <3>1. \A j \in I : j <= i => j <= k
      BY <1>3, <2>1
    <3>. QED BY <3>1
  <2>3. k \in Upto(k) /\ k \notin Upto(i)
    BY <1>3, <2>1
  <2>. QED BY <1>2, <2>2, <2>3, FS_Subset
<1>4. rank \in [I -> 1 .. N]
  BY <1>2
<1>5. ASSUME NEW i \in I, NEW k \in I, rank[i] = rank[k]
      PROVE  i = k
  <2>1. i \in Nat /\ k \in Nat
    OBVIOUS
  <2>2. Cardinality(Upto(i)) = Cardinality(Upto(k))
    BY <1>5
  <2>. QED BY <1>3, <2>1, <2>2
<1>6. rank \in Injection(I, 1 .. N)
  BY <1>4, <1>5 DEF Injection, IsInjective
<1>7. IsFiniteSet(1 .. N) /\ Cardinality(1 .. N) = N
  BY <1>1, FS_Interval
<1>8. rank \in Surjection(I, 1 .. N)
  BY <1>6, <1>7, FS_Injection
<1>9. PICK i \in I : rank[i] = n
  BY <1>8 DEF Surjection
<1>. QED BY <1>9


LEMMA ListFacts ==
    ASSUME NEW S, NEW q \in Seq(S)
    PROVE  IsList(q) /\ (\A n \in DOMAIN q : q[n] \in S) /\ Len(q) \in Nat /\ DOMAIN q = 1 .. Len(q)
<1>1. Len(q) \in Nat /\ DOMAIN q = 1 .. Len(q) /\ q \in [1 .. Len(q) -> S]
  BY LenProperties
<1>2. q \in [1 .. Len(q) -> {q[n] : n \in DOMAIN q}]
  BY <1>1
<1>3. \A T, n : n \in Nat /\ q \in [1 .. n -> T] => q \in Seq(T)
  OBVIOUS
<1>. QED BY <1>1, <1>2, <1>3 DEF IsList

\* A filtered list holds only what passed the filter.
LEMMA PickedList ==
    ASSUME NEW q, IsList(q), NEW I \in SUBSET DOMAIN q
    PROVE  Picked(q, I) \in Seq({q[n] : n \in I})
<1>. DEFINE Nth(n) == CHOOSE i \in I : Cardinality({j \in I : j <= i}) = n
            N == Cardinality(I)
<1>1. I \in SUBSET Nat /\ IsFiniteSet(I) /\ N \in Nat
  <2>1. Len(q) \in Nat /\ DOMAIN q = 1 .. Len(q)
    BY LenProperties DEF IsList
  <2>2. IsFiniteSet(1 .. Len(q))
    BY <2>1, FS_Interval
  <2>. QED BY <2>1, <2>2, FS_Subset, FS_CardinalityType
<1>2. ASSUME NEW n \in 1 .. N PROVE Nth(n) \in I
  BY <1>1, Ranked
<1>3. [n \in 1 .. N |-> q[Nth(n)]] \in Seq({q[n] : n \in I})
  <2>. HIDE DEF Nth, N
  <2>. QED BY <1>1, <1>2
<1>. QED BY <1>3 DEF Picked

LEMMA RemoveAtSeq ==
    ASSUME NEW S, NEW s \in Seq(S), NEW k \in DOMAIN s
    PROVE  RemoveAt(s, k) \in Seq(S)
<1>1. Len(s) \in Nat /\ DOMAIN s = 1 .. Len(s)
  BY LenProperties
<1>2. \A i \in 1 .. Len(s) : s[i] \in S
  BY ElementOfSeq
<1>3. SubSeq(s, 1, k - 1) \in Seq(S) /\ SubSeq(s, k + 1, Len(s)) \in Seq(S)
  BY <1>1, <1>2, SubSeqProperties
<1>. QED BY <1>3, ConcatProperties DEF RemoveAt
-----------------------------------------------------------------------------
(* What a client may do to the synced answers *)

\* More accounts do not make a client less sound.
LEMMA SoundWidens ==
    ASSUME NEW s, NEW t, NEW T, NEW q, NEW K, NEW F, NEW K2, NEW F2,
           SoundClient(s, t, T, q, K, F), K \subseteq K2, F \subseteq F2
    PROVE  SoundClient(s, t, T, q, K2, F2)
<1>1. ASSUME NEW m, NEW tok, SoundMessage(m, tok, K, F) PROVE SoundMessage(m, tok, K2, F2)
  BY <1>1 DEF SoundMessage
<1>2. SoundNet(q, t.token, K2, F2)
  BY <1>1 DEF SoundClient, SoundNet
<1>. QED BY <1>2 DEF SoundClient, SoundStore, SoundTab, SoundTimers

LEMMA SoundSeq ==
    ASSUME NEW S, NEW tok, NEW K, NEW F, \A m \in S : SoundMessage(m, tok, K, F), NEW q \in Seq(S)
    PROVE  SoundNet(q, tok, K, F)
BY ListFacts DEF SoundNet

LEMMA SoundAppend ==
    ASSUME NEW q, NEW tok, NEW K, NEW F, SoundNet(q, tok, K, F), NEW m, SoundMessage(m, tok, K, F)
    PROVE  SoundNet(Append(q, m), tok, K, F)
<1>. DEFINE S == {q[n] : n \in DOMAIN q} \cup {m}
<1>1. \A x \in S : SoundMessage(x, tok, K, F)
  BY DEF SoundNet
<1>2. q \in Seq(S)
  <2>1. q \in Seq({q[n] : n \in DOMAIN q})
    BY DEF SoundNet, IsList
  <2>2. \A n \in 1 .. Len(q) : q[n] \in S
    BY <2>1, LenProperties
  <2>3. Len(q) \in Nat /\ q \in [1 .. Len(q) -> {q[n] : n \in DOMAIN q}]
    BY <2>1, LenProperties
  <2>. HIDE DEF S
  <2>. QED BY <2>2, <2>3
<1>3. Append(q, m) \in Seq(S)
  BY <1>2, AppendProperties
<1>. HIDE DEF S
<1>. QED BY <1>1, <1>3, SoundSeq

LEMMA SoundPicked ==
    ASSUME NEW q, IsList(q), NEW tok, NEW K, NEW F,
           NEW I \in SUBSET DOMAIN q, \A n \in I : SoundMessage(q[n], tok, K, F)
    PROVE  SoundNet(Picked(q, I), tok, K, F)
<1>. DEFINE S == {q[n] : n \in I}
<1>1. \A x \in S : SoundMessage(x, tok, K, F)
  OBVIOUS
<1>2. Picked(q, I) \in Seq(S)
  BY PickedList
<1>. HIDE DEF S
<1>. QED BY <1>1, <1>2, SoundSeq

LEMMA SoundRemoved ==
    ASSUME NEW q, NEW tok, NEW K, NEW F, SoundNet(q, tok, K, F), NEW n \in DOMAIN q
    PROVE  SoundNet(RemoveAt(q, n), tok, K, F)
<1>. DEFINE S == {q[k] : k \in DOMAIN q}
<1>1. \A x \in S : SoundMessage(x, tok, K, F)
  BY DEF SoundNet
<1>2. RemoveAt(q, n) \in Seq(S)
  BY RemoveAtSeq DEF SoundNet, IsList
<1>. HIDE DEF S
<1>. QED BY <1>1, <1>2, SoundSeq

\* An answer to a request.
LEMMA SoundReply ==
    ASSUME NEW q, NEW tok, NEW K, NEW F, SoundNet(q, tok, K, F), NEW n \in DOMAIN q, NEW r,
           q[n].kind = "login" /\ r # Unanswered => (r.ok => r.got \in K)
    PROVE  SoundNet([q EXCEPT ![n].reply = r], tok, K, F)
<1>. DEFINE p == [q EXCEPT ![n].reply = r]
            x == [q[n] EXCEPT !.reply = r]
            S == {q[k] : k \in DOMAIN q} \cup {x}
<1>1. SoundMessage(q[n], tok, K, F)
  BY DEF SoundNet
<1>2. /\ DOMAIN x = DOMAIN q[n] /\ x.kind = q[n].kind /\ x.token = q[n].token
      /\ x.items = q[n].items /\ x.reply = r
  BY <1>1 DEF SoundMessage
<1>. HIDE DEF x
<1>3. SoundMessage(x, tok, K, F)
  BY <1>1, <1>2 DEF SoundMessage
<1>4. \A m \in S : SoundMessage(m, tok, K, F)
  BY <1>3 DEF SoundNet
<1>5. Len(q) \in Nat /\ DOMAIN q = 1 .. Len(q) /\ q \in [1 .. Len(q) -> {q[k] : k \in DOMAIN q}]
  BY LenProperties DEF SoundNet, IsList
<1>6. p = [k \in 1 .. Len(q) |-> IF k = n THEN x ELSE q[k]]
  BY <1>5 DEF x
<1>7. \A k \in 1 .. Len(q) : (IF k = n THEN x ELSE q[k]) \in S
  BY <1>5
<1>. HIDE DEF p, S
<1>8. p \in Seq(S)
  BY <1>5, <1>6, <1>7
<1>9. SoundNet(p, tok, K, F)
  BY <1>4, <1>8, SoundSeq
<1>. QED BY <1>9 DEF p

\* Only a read of the session depends on the token of the tab.
LEMMA SoundElsewhere ==
    ASSUME NEW m, NEW tok, NEW tok2, NEW K, NEW F, SoundMessage(m, tok, K, F), m.kind # "me"
    PROVE  SoundMessage(m, tok2, K, F)
BY DEF SoundMessage

LEMMA SoundMsg ==
    ASSUME NEW K, NEW F, NEW kind, NEW tok \in K \cup {None}, NEW tok2,
           kind \notin {"me", "save", "cell"} \/ (kind = "me" /\ tok2 = tok /\ tok # None)
    PROVE  SoundMessage(Msg(kind, tok), tok2, K, F)
BY DEF SoundMessage, Msg

LEMMA SoundCancel ==
    ASSUME NEW q, NEW tok, NEW tok2, NEW K, NEW F, SoundNet(q, tok, K, F), NEW kinds,
           tok = tok2 \/ "me" \in kinds
    PROVE  SoundNet(Cancel(q, kinds), tok2, K, F)
<1>. DEFINE I == {n \in DOMAIN q : q[n].kind \notin kinds}
<1>1. \A n \in I : SoundMessage(q[n], tok2, K, F)
  BY SoundElsewhere DEF SoundNet
<1>2. IsList(q) /\ I \in SUBSET DOMAIN q
  BY DEF SoundNet
<1>. HIDE DEF I
<1>3. SoundNet(Picked(q, I), tok2, K, F)
  BY <1>1, <1>2, SoundPicked
<1>. QED BY <1>3 DEF Cancel, I

\* One more message, or none.
LEMMA SoundConcat ==
    ASSUME NEW q, NEW tok, NEW K, NEW F, SoundNet(q, tok, K, F), NEW m, SoundMessage(m, tok, K, F)
    PROVE  SoundNet(q \o <<m>>, tok, K, F) /\ SoundNet(q \o <<>>, tok, K, F)
<1>. DEFINE S == {q[n] : n \in DOMAIN q} \cup {m}
<1>1. \A x \in S : SoundMessage(x, tok, K, F)
  BY DEF SoundNet
<1>2. q \in Seq(S)
  <2>1. q \in Seq({q[n] : n \in DOMAIN q})
    BY DEF SoundNet, IsList
  <2>2. \A n \in 1 .. Len(q) : q[n] \in S
    BY <2>1, LenProperties
  <2>3. Len(q) \in Nat /\ q \in [1 .. Len(q) -> {q[n] : n \in DOMAIN q}]
    BY <2>1, LenProperties
  <2>. HIDE DEF S
  <2>. QED BY <2>2, <2>3
<1>3. <<m>> \in Seq(S) /\ <<>> \in Seq(S)
  OBVIOUS
<1>. HIDE DEF S
<1>4. q \o <<m>> \in Seq(S) /\ q \o <<>> \in Seq(S)
  BY <1>2, <1>3, ConcatProperties
<1>. QED BY <1>1, <1>4, SoundSeq

\* The providers read the session and the answers of the token they have.
LEMMA SoundProvided ==
    ASSUME NEW t, NEW s, NEW K, SoundTab(t, K)
    PROVE  SoundTab(Provided(t, s), K) /\ Provided(t, s).token = t.token /\ Provided(t, s).user = t.user
BY DEF Provided, SoundTab

LEMMA SoundProvidedNet ==
    ASSUME NEW t, NEW q, NEW K, NEW F, SoundTab(t, K), SoundNet(q, tab.token, K, F)
    PROVE  SoundNet(ProvidedNet(t, q), t.token, K, F)
<1>. DEFINE read == Cancel(q, {"answers"}) \o (IF t.user = None THEN <<>> ELSE <<Msg("answers", t.token)>>)
<1>1. t.token \in K \cup {None}
  BY DEF SoundTab
<1>2. SoundNet(read, tab.token, K, F)
  <2>1. SoundNet(Cancel(q, {"answers"}), tab.token, K, F)
    BY SoundCancel
  <2>2. SoundMessage(Msg("answers", t.token), tab.token, K, F)
    BY <1>1, SoundMsg
  <2>. QED BY <2>1, <2>2, SoundConcat
<1>. HIDE DEF read
<1>3. ASSUME NEW asked, SoundNet(asked, tab.token, K, F), t.token # tab.token
      PROVE  SoundNet(Cancel(asked, {"me"}) \o (IF t.token = None THEN <<>> ELSE <<Msg("me", t.token)>>), t.token, K, F)
  <2>1. SoundNet(Cancel(asked, {"me"}), t.token, K, F)
    BY <1>3, SoundCancel
  <2>2. SoundMessage(Msg("answers", t.token), t.token, K, F)
    BY <1>1, SoundMsg
  <2>3. t.token # None => SoundMessage(Msg("me", t.token), t.token, K, F)
    BY <1>1, SoundMsg
  <2>4. SoundNet(Cancel(asked, {"me"}) \o <<>>, t.token, K, F)
    BY <2>1, <2>2, SoundConcat
  <2>5. t.token # None => SoundNet(Cancel(asked, {"me"}) \o <<Msg("me", t.token)>>, t.token, K, F)
    BY <2>1, <2>3, SoundConcat
  <2>. QED BY <2>4, <2>5
<1>4. \E asked \in {q, read} :
          ProvidedNet(t, q) = IF t.token = tab.token THEN asked
                              ELSE Cancel(asked, {"me"}) \o (IF t.token = None THEN <<>> ELSE <<Msg("me", t.token)>>)
  BY Zenon DEF ProvidedNet, read
<1>. QED BY <1>2, <1>3, <1>4

\* A page that opens reads the rows; one that stays may make way for another.
LEMMA SoundShow ==
    ASSUME NEW p, NEW t, NEW q, NEW K, NEW F, Show(p, t, q), SoundTab(t, K), SoundNet(q, t.token, K, F)
    PROVE  SoundNet(net', t.token, K, F) /\ timer' = {}
<1>1. t.token \in K \cup {None}
  BY DEF SoundTab
<1>2. SoundMessage(Msg("rows", t.token), t.token, K, F)
  BY <1>1, SoundMsg
<1>3. SoundNet(Append(q, Msg("rows", t.token)), t.token, K, F)
  BY <1>2, SoundAppend
<1>4. net' \in {q, Append(q, Msg("rows", t.token))} /\ timer' = {}
  BY DEF Show
<1>. QED BY <1>3, <1>4

LEMMA SoundKeep ==
    ASSUME NEW fm, NEW t, NEW q, NEW K, NEW F, Keep(fm, t, q), SoundTab(t, K), SoundNet(q, t.token, K, F)
    PROVE  SoundNet(net', t.token, K, F) /\ timer' \in {{}, timer}
<1>1. CASE \E p \in Landings(fm.page, t) \ {fm.page} : Show(p, t, q)
  BY <1>1, SoundShow
<1>2. CASE net' = q /\ UNCHANGED timer
  BY <1>2
<1>3. (\E p \in Landings(fm.page, t) \ {fm.page} : Show(p, t, q)) \/ (net' = q /\ UNCHANGED timer)
  BY Zenon DEF Keep
<1>. QED BY <1>1, <1>2, <1>3

\* Requests of a page that is gone: their answers do nothing.
LEMMA SoundDead ==
    ASSUME NEW q, NEW tok, NEW K, NEW F, SoundNet(q, tok, K, F)
    PROVE  SoundNet([n \in DOMAIN q |-> [q[n] EXCEPT !.live = FALSE]], tok, K, F)
<1>. DEFINE dead(n) == [q[n] EXCEPT !.live = FALSE]
            S == {dead(n) : n \in DOMAIN q}
<1>1. ASSUME NEW n \in DOMAIN q PROVE SoundMessage(dead(n), tok, K, F)
  <2>1. SoundMessage(q[n], tok, K, F)
    BY DEF SoundNet
  <2>2. /\ DOMAIN dead(n) = DOMAIN q[n] /\ dead(n).kind = q[n].kind /\ dead(n).token = q[n].token
        /\ dead(n).items = q[n].items /\ dead(n).reply = q[n].reply
    BY <2>1 DEF SoundMessage
  <2>. HIDE DEF dead
  <2>. QED BY <2>1, <2>2 DEF SoundMessage
<1>2. Len(q) \in Nat /\ DOMAIN q = 1 .. Len(q)
  BY LenProperties DEF SoundNet, IsList
<1>3. \A m \in S : SoundMessage(m, tok, K, F)
  BY <1>1
<1>4. [n \in DOMAIN q |-> dead(n)] \in Seq(S)
  <2>. HIDE DEF dead
  <2>. QED BY <1>2
<1>5. SoundNet([n \in DOMAIN q |-> dead(n)], tok, K, F)
  <2>. HIDE DEF dead, S
  <2>. QED BY <1>3, <1>4, SoundSeq
<1>. QED BY <1>5

LEMMA ReloadSound ==
    ASSUME NEW K, NEW F, SoundClient(store, tab, timer, net, K, F), Reload
    PROVE  SoundClient(store', tab', timer', net', K, F)
<1>. DEFINE t0 == Fresh(store)
            t == IF t0.waiting THEN t0
                 ELSE [t0 EXCEPT !.answers = store.guest.answers, !.groups = store.guest.groups,
                                 !.loading = FALSE]
            W == Writes(net)
            q == [n \in DOMAIN W |-> [W[n] EXCEPT !.live = FALSE]]
<1>1. /\ tab' = t /\ timer' = {} /\ store' = store
      /\ net' = IF t0.waiting THEN Append(q, Msg("me", t0.token)) ELSE q
  BY Zenon DEF Reload
<1>2. store.token \in K \cup {None}
  BY DEF SoundClient, SoundStore
<1>3. SoundTab(t0, K) /\ t0.token = store.token /\ (t0.waiting => t0.token # None)
  BY <1>2 DEF SoundTab, Fresh
<1>4. SoundTab(t, K) /\ t.token = store.token
  <2>. HIDE DEF t0
  <2>. QED BY <1>3 DEF SoundTab
<1>5. SoundNet(W, store.token, K, F)
  <2>. DEFINE I == {n \in DOMAIN net : IsWrite(net[n])}
  <2>1. \A n \in I : SoundMessage(net[n], store.token, K, F)
    BY SoundElsewhere DEF SoundClient, SoundNet, IsWrite
  <2>2. IsList(net) /\ I \in SUBSET DOMAIN net
    BY DEF SoundClient, SoundNet
  <2>. HIDE DEF I
  <2>3. SoundNet(Picked(net, I), store.token, K, F)
    BY <2>1, <2>2, SoundPicked
  <2>. QED BY <2>3 DEF Writes, I
<1>. HIDE DEF t0, W
<1>6. SoundNet(q, store.token, K, F)
  BY <1>5, SoundDead
<1>. HIDE DEF q
<1>7. t0.waiting => SoundMessage(Msg("me", t0.token), store.token, K, F)
  BY <1>2, <1>3, SoundMsg
<1>8. t0.waiting => SoundNet(Append(q, Msg("me", t0.token)), store.token, K, F)
  BY <1>6, <1>7, SoundAppend
<1>9. SoundNet(net', store.token, K, F)
  BY <1>1, <1>6, <1>8
<1>10. SoundTimers(timer', K)
  BY <1>1 DEF SoundTimers
<1>11. SoundStore(store', K) /\ SoundTab(tab', K) /\ tab'.token = store.token
  <2>. HIDE DEF t
  <2>. QED BY <1>1, <1>4 DEF SoundClient
<1>. QED BY <1>9, <1>10, <1>11 DEF SoundClient

LEMMA VisitSound ==
    ASSUME NEW K, NEW F, SoundClient(store, tab, timer, net, K, F), NEW p, Visit(p)
    PROVE  SoundClient(store', tab', timer', net', K, F)
<1>1. Show(p, tab, net) /\ store' = store /\ tab' = tab
  BY Zenon DEF Visit
<1>2. SoundNet(net', tab.token, K, F) /\ timer' = {}
  BY <1>1, SoundShow DEF SoundClient
<1>. QED BY <1>1, <1>2 DEF SoundClient, SoundTimers

LEMMA SendLoginSound ==
    ASSUME NEW K, NEW F, SoundClient(store, tab, timer, net, K, F), NEW i, SendLogin(i)
    PROVE  SoundClient(store', tab', timer', net', K, F)
<1>. DEFINE m == [Msg("login", None) EXCEPT !.by = i]
<1>1. net' = Append(net, m) /\ timer' = {} /\ store' = store /\ tab' = tab
  BY Zenon DEF SendLogin
<1>2. SoundMessage(m, tab.token, K, F)
  BY DEF SoundMessage, Msg
<1>. HIDE DEF m
<1>3. SoundNet(net', tab.token, K, F)
  BY <1>1, <1>2, SoundAppend DEF SoundClient
<1>. QED BY <1>1, <1>3 DEF SoundClient, SoundTimers

LEMMA LogoutSound ==
    ASSUME NEW K, NEW F, SoundClient(store, tab, timer, net, K, F), Logout
    PROVE  SoundClient(store', tab', timer', net', K, F)
<1>. DEFINE t1 == SignedOut(tab)
            t == Provided(t1, store')
<1>1. store' = Swept(store) /\ tab' = t /\ Show("home", t, ProvidedNet(t1, net))
  BY Zenon DEF Logout
<1>2. SoundTab(t1, K)
  BY DEF SoundClient, SoundTab, SignedOut
<1>. HIDE DEF t1
<1>3. SoundNet(ProvidedNet(t1, net), t1.token, K, F)
  BY <1>2, SoundProvidedNet DEF SoundClient
<1>4. SoundTab(t, K) /\ t.token = t1.token
  BY <1>2, SoundProvided
<1>. HIDE DEF t
<1>5. SoundNet(net', t.token, K, F) /\ timer' = {}
  BY <1>1, <1>3, <1>4, SoundShow
<1>6. SoundStore(store', K)
  BY <1>1 DEF SoundClient, SoundStore, Swept
<1>. QED BY <1>1, <1>4, <1>5, <1>6 DEF SoundClient, SoundTimers

LEMMA ApplyLoginSound ==
    ASSUME NEW K, NEW F, SoundClient(store, tab, timer, net, K, F), NEW m, NEW q,
           SoundNet(q, tab.token, K, F), m.reply.got \in K, ApplyLogin(m, q)
    PROVE  SoundClient(store', tab', timer', net', K, F)
<1>. DEFINE t1 == [tab EXCEPT !.token = m.reply.got, !.user = m.reply.got,
                              !.profile = IF m.by.via = "egov" THEN m.by.profile ELSE @]
            t == Provided(t1, store')
<1>1. /\ store' = [store EXCEPT !.token = m.reply.got, !.profile = IF m.by.via = "egov" THEN m.by.profile ELSE @]
      /\ tab' = t /\ Show("benefits", t, ProvidedNet(t1, q))
  BY Zenon DEF ApplyLogin
<1>2. SoundTab(t1, K)
  BY DEF SoundClient, SoundTab
<1>. HIDE DEF t1
<1>3. SoundNet(ProvidedNet(t1, q), t1.token, K, F)
  BY <1>2, SoundProvidedNet
<1>4. SoundTab(t, K) /\ t.token = t1.token
  BY <1>2, SoundProvided
<1>. HIDE DEF t
<1>5. SoundNet(net', t.token, K, F) /\ timer' = {}
  BY <1>1, <1>3, <1>4, SoundShow
<1>6. SoundStore(store', K)
  BY <1>1 DEF SoundClient, SoundStore
<1>. QED BY <1>1, <1>4, <1>5, <1>6 DEF SoundClient, SoundTimers

LEMMA SessionCheckedSound ==
    ASSUME NEW K, NEW F, SoundClient(store, tab, timer, net, K, F), NEW m, NEW q,
           SoundNet(q, tab.token, K, F), m.token = tab.token, SessionChecked(m, q)
    PROVE  SoundClient(store', tab', timer', net', K, F)
<1>. DEFINE t1 == IF m.reply.ok THEN [tab EXCEPT !.user = m.token, !.waiting = FALSE] ELSE SignedOut(tab)
            s == IF m.reply.ok THEN store ELSE [store EXCEPT !.token = None, !.profile = None]
            t == Provided(t1, s)
            q1 == ProvidedNet(t1, q)
            page == IF Allowed(form.page, t) THEN form.page ELSE "home"
<1>1. store' = s /\ tab' = t /\ (Show(page, t, q1) \/ Keep(form, t, q1))
  BY Zenon DEF SessionChecked
<1>2. SoundTab(t1, K)
  BY DEF SoundClient, SoundTab, SignedOut
<1>3. SoundStore(s, K)
  BY DEF SoundClient, SoundStore
<1>. HIDE DEF t1, s
<1>4. SoundNet(q1, t1.token, K, F)
  BY <1>2, SoundProvidedNet
<1>5. SoundTab(t, K) /\ t.token = t1.token
  BY <1>2, SoundProvided
<1>. HIDE DEF t, q1, page
<1>6. SoundNet(net', t.token, K, F) /\ timer' \in {{}, timer}
  BY <1>1, <1>4, <1>5, SoundShow, SoundKeep
<1>. QED BY <1>1, <1>3, <1>5, <1>6 DEF SoundClient, SoundTimers

\* The end of a save changes what the tab shows, not who it is.
LEMMA SaveEndedSound ==
    ASSUME NEW K, NEW F, SoundClient(store, tab, timer, net, K, F), NEW m, NEW q,
           SoundNet(q, tab.token, K, F), SaveEnded(m, q) \/ CellEnded(m, q)
    PROVE  SoundClient(store', tab', timer', net', K, F)
<1>. DEFINE t == IF ~m.reply.ok THEN tab ELSE [tab EXCEPT !.answers = m.reply.got]
<1>1. store' = store /\ tab' = t
  BY Zenon DEF SaveEnded, CellEnded
<1>2. Show("benefits", t, q) \/ \E fm : Keep(fm, t, q)
  BY Zenon DEF SaveEnded, CellEnded
<1>3. SoundTab(t, K) /\ t.token = tab.token
  BY DEF SoundClient, SoundTab
<1>. HIDE DEF t
<1>4. SoundNet(net', t.token, K, F) /\ timer' \in {{}, timer}
  BY <1>2, <1>3, SoundShow, SoundKeep
<1>. QED BY <1>1, <1>3, <1>4 DEF SoundClient, SoundTimers

LEMMA DeliverSound ==
    ASSUME NEW K, NEW F, SoundClient(store, tab, timer, net, K, F), NEW n \in DOMAIN net, Deliver(n)
    PROVE  SoundClient(store', tab', timer', net', K, F)
<1>. DEFINE m == net[n]
            q == RemoveAt(net, n)
            quiet == net' = q /\ store' = store /\ timer' = timer /\ SoundTab(tab', K) /\ tab'.token = tab.token
<1>1. SoundNet(q, tab.token, K, F)
  BY SoundRemoved DEF SoundClient
<1>2. SoundMessage(m, tab.token, K, F) /\ m.reply # Unanswered
  BY DEF SoundClient, SoundNet, Deliver
<1>3. SoundTab(tab, K)
  BY DEF SoundClient
<1>4. CASE ~m.live \/ (~m.reply.ok /\ m.kind \notin {"me", "save", "cell"})
  <2>1. UNCHANGED <<store, tab, timer>> /\ net' = q
    BY <1>4, Zenon DEF Deliver
  <2>. QED BY <1>1, <2>1 DEF SoundClient
<1>5. CASE ~(~m.live \/ (~m.reply.ok /\ m.kind \notin {"me", "save", "cell"}))
  <2>. DEFINE act(k) == m.kind = k
  <2>1. CASE m.kind = "me"
    <3>1. SessionChecked(m, q)
      BY <1>5, <2>1 DEF Deliver
    <3>2. m.token = tab.token
      BY <1>2, <2>1 DEF SoundMessage
    <3>. HIDE DEF m, q
    <3>. QED BY <1>1, <3>1, <3>2, SessionCheckedSound
  <2>2. CASE m.kind = "save" \/ m.kind = "cell"
    <3>1. SaveEnded(m, q) \/ CellEnded(m, q)
      BY <1>5, <2>2 DEF Deliver
    <3>. HIDE DEF m, q
    <3>. QED BY <1>1, <3>1, SaveEndedSound
  <2>3. CASE m.kind = "login"
    <3>1. ApplyLogin(m, q)
      BY <1>5, <2>3 DEF Deliver
    <3>2. m.reply.got \in K
      BY <1>2, <1>5, <2>3 DEF SoundMessage
    <3>. HIDE DEF m, q
    <3>. QED BY <1>1, <3>1, <3>2, ApplyLoginSound
  <2>4. CASE m.kind = "answers"
    <3>. DEFINE t == [tab EXCEPT !.answers = m.reply.got, !.loading = FALSE]
    <3>1. tab' = t /\ Keep(form, t, q) /\ store' = store
      BY <1>5, <2>4 DEF Deliver
    <3>2. SoundTab(t, K) /\ t.token = tab.token
      BY <1>3 DEF SoundTab
    <3>. HIDE DEF t, q
    <3>3. SoundNet(net', t.token, K, F) /\ timer' \in {{}, timer}
      BY <1>1, <3>1, <3>2, SoundKeep
    <3>. QED BY <3>1, <3>2, <3>3 DEF SoundClient, SoundTimers
  <2>5. CASE m.kind \notin {"me", "save", "cell", "login", "answers"}
    <3>1. /\ net' = q /\ store' = store /\ timer' = timer
          /\ \/ tab' = [tab EXCEPT !.groups = m.reply.got]
             \/ tab' = [tab EXCEPT !.groups = Append(@, m.reply.got)]
             \/ tab' = WithoutRow(tab, m.row)
      BY <1>5, <2>5 DEF Deliver
    <3>2. SoundTab(tab', K) /\ tab'.token = tab.token
      BY <1>3, <3>1 DEF SoundTab, WithoutRow
    <3>. QED BY <1>1, <3>1, <3>2 DEF SoundClient
  <2>. QED BY <2>1, <2>2, <2>3, <2>4, <2>5
<1>. QED BY <1>4, <1>5

\* What the pages do without a request, and the requests about rows.
LEMMA LocalSound ==
    ASSUME NEW K, NEW F, SoundClient(store, tab, timer, net, K, F),
           \/ StartEditing \/ CancelEditing
           \/ \E f \in Scalar, v \in Value : Typing(f, v)
    PROVE  SoundClient(store', tab', timer', net', K, F)
<1>1. UNCHANGED <<store, tab, timer, net>>
  BY Zenon DEF StartEditing, CancelEditing, Typing
<1>. QED BY <1>1

LEMMA TypeCellSound ==
    ASSUME NEW K, NEW F, SoundClient(store, tab, timer, net, K, F), NEW r, NEW c, NEW v, TypeCell(r, c, v)
    PROVE  SoundClient(store', tab', timer', net', K, F)
<1>. DEFINE x == [row |-> r, field |-> c, value |-> v, token |-> tab.token,
                  guest |-> tab.user = None, groups |-> tab.groups]
<1>1. /\ UNCHANGED <<store, tab, net>> /\ c \in Subfield
      /\ timer' = {y \in timer : Cell(y.row, y.field) # Cell(r, c)} \cup {x}
  BY Zenon DEF TypeCell
<1>2. x.field = c /\ (~x.guest => x.token \in K)
  BY DEF SoundClient, SoundTab
<1>. HIDE DEF x
<1>3. SoundTimers(timer', K)
  BY <1>1, <1>2 DEF SoundClient, SoundTimers
<1>. QED BY <1>1, <1>3 DEF SoundClient

\* Whoever is signed in sends no synced field that eGov filled.
LEMMA OpenToFree ==
    ASSUME NEW K, NEW F, \A a \in K : a \in F \/ account[a].egov # None, None \notin K,
           SoundTab(tab, K), tab.user # None, NEW f, ~IsEgovFieldLocked(f, tab.user)
    PROVE  tab.token \in K /\ (tab.token \in F \/ f \notin EgovField)
BY DEF SoundTab, IsEgovFieldLocked

LEMMA TypeAnsweredSound ==
    ASSUME NEW K, NEW F, SoundClient(store, tab, timer, net, K, F), None \notin K,
           \A a \in K : a \in F \/ account[a].egov # None,
           NEW f \in Scalar, NEW v, TypeAnswered(f, v)
    PROVE  SoundClient(store', tab', timer', net', K, F)
<1>. DEFINE items == {[field |-> f, row |-> None, value |-> v]}
            m == [Msg("cell", tab.token) EXCEPT !.items = items]
<1>1. ~IsEgovFieldLocked(f, tab.user) /\ timer' = timer
  BY Zenon DEF TypeAnswered
<1>2. CASE tab.user = None
  <2>1. GuestSubmit(items, tab.groups, form) /\ net' = net
    BY <1>2, Zenon DEF TypeAnswered
  <2>2. /\ store' = [store EXCEPT !.guest = SavedGuest(items, tab.groups)]
        /\ tab' = [tab EXCEPT !.answers = Merge(@, items)]
    BY <2>1, Zenon DEF GuestSubmit
  <2>3. SoundStore(store', K) /\ SoundTab(tab', K) /\ tab'.token = tab.token
    BY <2>2 DEF SoundClient, SoundStore, SoundTab
  <2>. QED BY <1>1, <2>1, <2>3 DEF SoundClient
<1>3. CASE tab.user # None
  <2>1. net' = Append(net, m) /\ store' = store /\ tab' = tab
    BY <1>3, Zenon DEF TypeAnswered
  <2>2. tab.token \in K /\ (tab.token \in F \/ f \notin EgovField)
    BY <1>1, <1>3, OpenToFree DEF SoundClient
  <2>3. SoundMessage(m, tab.token, K, F)
    BY <2>2 DEF SoundMessage, Msg
  <2>. HIDE DEF m
  <2>4. SoundNet(net', tab.token, K, F)
    BY <2>1, <2>3, SoundAppend DEF SoundClient
  <2>. QED BY <1>1, <2>1, <2>4 DEF SoundClient
<1>. QED BY <1>2, <1>3

LEMMA SaveFormSound ==
    ASSUME NEW K, NEW F, SoundClient(store, tab, timer, net, K, F), None \notin K,
           \A a \in K : a \in F \/ account[a].egov # None, SaveForm
    PROVE  SoundClient(store', tab', timer', net', K, F)
<1>1. CASE tab.user = None
  <2>. DEFINE t == [tab EXCEPT !.answers = Merge(@, DraftItems)]
  <2>1. /\ store' = [store EXCEPT !.guest = SavedGuest(DraftItems, tab.groups)] /\ tab' = t
        /\ Show("benefits", t, net) \/ UNCHANGED <<net, timer>>
    BY <1>1, Zenon DEF SaveForm
  <2>2. SoundStore(store', K)
    BY <2>1 DEF SoundClient, SoundStore
  <2>3. SoundTab(t, K) /\ t.token = tab.token
    BY DEF SoundClient, SoundTab
  <2>. HIDE DEF t
  <2>4. SoundNet(net', t.token, K, F) /\ timer' \in {{}, timer}
    BY <2>1, <2>3, SoundShow DEF SoundClient
  <2>. QED BY <2>1, <2>2, <2>3, <2>4 DEF SoundClient, SoundTimers
<1>2. CASE tab.user # None
  <2>. DEFINE m == [Msg("save", tab.token) EXCEPT !.items = DraftItems]
  <2>1. net' = Append(net, m) /\ store' = store /\ tab' = tab /\ timer' = timer
    BY <1>2, Zenon DEF SaveForm
  <2>2. SoundTab(tab, K)
    BY DEF SoundClient
  <2>3. tab.token \in K
    BY <1>2, <2>2 DEF SoundTab
  <2>4. tab.token \in F \/ \A i \in DraftItems : i.field \notin EgovField
    BY <1>2, <2>2, OpenToFree DEF DraftItems, ItemsOf, Answerable
  <2>5. SoundMessage(m, tab.token, K, F)
    BY <2>3, <2>4 DEF SoundMessage, Msg
  <2>. HIDE DEF m
  <2>6. SoundNet(net', tab.token, K, F)
    BY <2>1, <2>5, SoundAppend DEF SoundClient
  <2>. QED BY <2>1, <2>6 DEF SoundClient
<1>. QED BY <1>1, <1>2

\* A timer saves one cell of a row, and those are never synced.
LEMMA ElapseSound ==
    ASSUME NEW K, NEW F, SoundClient(store, tab, timer, net, K, F), NEW x, Elapse(x)
    PROVE  SoundClient(store', tab', timer', net', K, F)
<1>1. x \in timer /\ timer' = timer \ {x}
  BY DEF Elapse
<1>2. x.field \in Subfield /\ (~x.guest => x.token \in K) /\ SoundTimers(timer', K)
  BY <1>1 DEF SoundClient, SoundTimers
<1>3. CASE x.guest
  <2>1. net' = net /\ \E fm : GuestSubmit(TimerItems(x), x.groups, fm)
    BY <1>3, Zenon DEF Elapse
  <2>2. /\ store' = [store EXCEPT !.guest = SavedGuest(TimerItems(x), x.groups)]
        /\ tab' = [tab EXCEPT !.answers = Merge(@, TimerItems(x))]
    BY <2>1, Zenon DEF GuestSubmit
  <2>3. SoundStore(store', K) /\ SoundTab(tab', K) /\ tab'.token = tab.token
    BY <2>2 DEF SoundClient, SoundStore, SoundTab
  <2>. QED BY <1>2, <2>1, <2>3 DEF SoundClient
<1>4. CASE ~x.guest
  <2>. DEFINE m == [Msg("cell", x.token) EXCEPT !.items = TimerItems(x)]
  <2>1. net' = Append(net, m) /\ store' = store /\ tab' = tab
    BY <1>4, Zenon DEF Elapse
  <2>2. x.field \notin EgovField
    BY <1>2, SignInAssumption
  <2>3. SoundMessage(m, tab.token, K, F)
    BY <1>2, <1>4, <2>2 DEF SoundMessage, Msg, TimerItems
  <2>. HIDE DEF m
  <2>4. SoundNet(net', tab.token, K, F)
    BY <2>1, <2>3, SoundAppend DEF SoundClient
  <2>. QED BY <1>2, <2>1, <2>4 DEF SoundClient
<1>. QED BY <1>3, <1>4

LEMMA AddRowSound ==
    ASSUME NEW K, NEW F, SoundClient(store, tab, timer, net, K, F), HandleAddRow
    PROVE  SoundClient(store', tab', timer', net', K, F)
<1>1. timer' = timer /\ SoundTab(tab, K)
  BY Zenon DEF HandleAddRow, SoundClient
<1>2. CASE tab.user = None
  <2>1. /\ net' = net
        /\ \E g : /\ tab' = [tab EXCEPT !.groups = g]
                  /\ store' = [store EXCEPT !.guest = [answers |-> tab.answers, groups |-> g]]
    BY <1>2, Zenon DEF HandleAddRow
  <2>2. SoundStore(store', K) /\ SoundTab(tab', K) /\ tab'.token = tab.token
    BY <1>1, <2>1 DEF SoundClient, SoundStore, SoundTab
  <2>. QED BY <1>1, <2>1, <2>2 DEF SoundClient
<1>3. CASE tab.user # None
  <2>1. net' = Append(net, Msg("add", tab.token)) /\ store' = store /\ tab' = tab
    BY <1>3, Zenon DEF HandleAddRow
  <2>2. SoundMessage(Msg("add", tab.token), tab.token, K, F)
    BY <1>1, SoundMsg DEF SoundTab
  <2>3. SoundNet(net', tab.token, K, F)
    BY <2>1, <2>2, SoundAppend DEF SoundClient
  <2>. QED BY <1>1, <2>1, <2>3 DEF SoundClient
<1>. QED BY <1>2, <1>3

LEMMA DeleteRowSound ==
    ASSUME NEW K, NEW F, SoundClient(store, tab, timer, net, K, F), NEW r, HandleDeleteRow(r)
    PROVE  SoundClient(store', tab', timer', net', K, F)
<1>1. SoundTab(tab, K)
  BY DEF SoundClient
<1>2. SoundTimers(timer', K)
  BY DEF HandleDeleteRow, SoundClient, SoundTimers
<1>3. CASE tab.user = None
  <2>1. /\ net' = net /\ tab' = WithoutRow(tab, r)
        /\ store' = [store EXCEPT !.guest = [answers |-> tab'.answers, groups |-> tab'.groups]]
    BY <1>3, Zenon DEF HandleDeleteRow
  <2>2. SoundStore(store', K) /\ SoundTab(tab', K) /\ tab'.token = tab.token
    BY <1>1, <2>1 DEF SoundClient, SoundStore, SoundTab, WithoutRow
  <2>. QED BY <1>2, <2>1, <2>2 DEF SoundClient
<1>4. CASE tab.user # None
  <2>. DEFINE m == [Msg("remove", tab.token) EXCEPT !.row = r]
  <2>1. net' = Append(net, m) /\ store' = store /\ tab' = tab
    BY <1>4, Zenon DEF HandleDeleteRow
  <2>2. SoundMessage(m, tab.token, K, F)
    BY <1>1 DEF SoundMessage, SoundTab, Msg
  <2>. HIDE DEF m
  <2>3. SoundNet(net', tab.token, K, F)
    BY <2>1, <2>2, SoundAppend DEF SoundClient
  <2>. QED BY <1>2, <2>1, <2>3 DEF SoundClient
<1>. QED BY <1>3, <1>4

\* The server answers, or the network does.
LEMMA ServeSound ==
    ASSUME NEW K, NEW F, SoundClient(store, tab, timer, net, K, F), NEW n \in DOMAIN net,
           ServeRead(n) \/ ServeWrite(n) \/ Lose(n)
    PROVE  SoundClient(store', tab', timer', net', K, F)
<1>1. UNCHANGED <<store, tab, timer>>
  BY Zenon DEF ServeRead, ServeWrite, Lose
<1>2. PICK r : Reply(n, r) /\ (net[n].kind = "login" => r = Refused)
  <2>1. CASE ServeRead(n)
    BY <2>1 DEF ServeRead
  <2>2. CASE ServeWrite(n)
    <3>1. net[n].kind # "login"
      BY <2>2 DEF ServeWrite
    <3>2. \E r : Reply(n, r)
      <4>. HIDE DEF Reply
      <4>1. CASE net[n].kind \in {"save", "cell"}
        BY <2>2, <4>1 DEF ServeWrite
      <4>2. CASE net[n].kind = "add"
        BY <2>2, <4>2 DEF ServeWrite
      <4>3. CASE net[n].kind = "remove"
        BY <2>2, <4>3 DEF ServeWrite
      <4>. QED BY <2>2, <4>1, <4>2, <4>3 DEF ServeWrite
    <3>. QED BY <3>1, <3>2
  <2>3. CASE Lose(n)
    BY <2>3, Zenon DEF Lose
  <2>. QED BY <2>1, <2>2, <2>3
<1>3. net[n].kind = "login" /\ r # Unanswered => (r.ok => r.got \in K)
  BY <1>2 DEF Refused
<1>4. SoundNet(net', tab.token, K, F)
  BY <1>2, <1>3, SoundReply DEF SoundClient, Reply
<1>. QED BY <1>1, <1>4 DEF SoundClient

\* A sign-in that ends names the account it settled on.
LEMMA ServeLoginSound ==
    ASSUME NEW K, NEW F, SoundClient(store, tab, timer, net, K, F), NEW n \in DOMAIN net, ServeLogin(n),
           \A a \in Account : FinishLogin("here", a) => a \in K
    PROVE  SoundClient(store', tab', timer', net', K, F)
<1>1. UNCHANGED <<store, tab, timer>>
  BY Zenon DEF ServeLogin
<1>2. CASE net' = net
  BY <1>1, <1>2
<1>3. CASE \E r : Reply(n, r) /\ (r = Refused \/ \E a \in K : r = Yes(a))
  <2>1. PICK r : Reply(n, r) /\ (r = Refused \/ \E a \in K : r = Yes(a))
    BY <1>3
  <2>2. r.ok => r.got \in K
    BY <2>1 DEF Refused, Yes
  <2>3. SoundNet(net', tab.token, K, F)
    BY <2>1, <2>2, SoundReply DEF SoundClient, Reply
  <2>. QED BY <1>1, <2>3 DEF SoundClient
<1>4. net' = net \/ \E r : Reply(n, r) /\ (r = Refused \/ \E a \in K : r = Yes(a))
  <2>1. CASE login["here"] = None
    BY <2>1, Zenon DEF ServeLogin
  <2>2. CASE login["here"] # None
    <3>1. \/ \E a \in Account : FinishLogin("here", a) /\ (Reply(n, Yes(a)) \/ Reply(n, Refused))
          \/ Reply(n, Refused)
      BY <2>2, Zenon DEF ServeLogin
    <3>. QED BY <3>1, Zenon
  <2>. QED BY <2>1, <2>2
<1>. QED BY <1>2, <1>3, <1>4

-----------------------------------------------------------------------------
(* What eGov vouched for stands *)

\* A save changes an answer to a value it names for that field.
LEMMA SaveEffect ==
    ASSUME NEW u \in Account, NEW items, DOMAIN answer = Account, Book!Save(u, items)
    PROVE  /\ DOMAIN answer' = Account
           /\ \A a \in Account : a # u => answer'[a] = answer[a]
           /\ \A f \in Scalar : \/ answer'[u][f] = answer[u][f]
                                \/ \E i \in items : i.field = f /\ answer'[u][f] = i.value
<1>1. answer' = [answer EXCEPT ![u] = [f \in Scalar |-> Book!Put(items, f, None, answer[u][f])]]
  BY DEF Book!Save
<1>2. ASSUME NEW f, NEW old
      PROVE  Book!Put(items, f, None, old) = old
             \/ \E i \in items : i.field = f /\ Book!Put(items, f, None, old) = i.value
  <2>1. CASE \E i \in items : i.field = f /\ i.row = None
    BY <2>1 DEF Book!Put
  <2>2. CASE ~\E i \in items : i.field = f /\ i.row = None
    BY <2>2 DEF Book!Put
  <2>. QED BY <2>1, <2>2
<1>3. \A f \in Scalar : answer'[u][f] = Book!Put(items, f, None, answer[u][f])
  BY <1>1
<1>. QED BY <1>1, <1>2, <1>3

\* No sign-in changes the eGov id of an account there is.
LEMMA SettlesEgov ==
    ASSUME NEW i \in Identity, NEW a \in Account, NEW found \in Account \cup {None}, NEW bind \in BOOLEAN,
           SignInType, Settles(i, found, bind, a), found # None => Stored(found)
    PROVE  /\ \A c \in Account : c # a => account'[c] = account[c]
           /\ Stored(a) => account'[a].egov = account[a].egov
           /\ found = None => ~Stored(a) /\ account'[a].egov = IF i.via = "egov" THEN i.sub ELSE None
           /\ found # None => a = found
<1>1. CASE found = None
  <2>. DEFINE r == NewAccount(i)
  <2>1. r.egov = IF i.via = "egov" THEN i.sub ELSE None
    BY DEF NewAccount
  <2>2. account' = [account EXCEPT ![a] = r] /\ account[a] = None
    BY <1>1 DEF Settles
  <2>. HIDE DEF r
  <2>. QED BY <1>1, <2>1, <2>2 DEF SignInType, Stored
<1>2. CASE found # None
  <2>1. a = found /\ Stored(a) /\ account[a] \in AccountRecord
    BY <1>2 DEF Settles, Stored, SignInType
  <2>2. CASE bind
    <3>. DEFINE r == [account[a] EXCEPT !.google = i.sub]
    <3>1. r.egov = account[a].egov
      BY <2>1 DEF AccountRecord
    <3>2. account' = [account EXCEPT ![a] = r]
      BY <1>2, <2>2 DEF Settles
    <3>. HIDE DEF r
    <3>. QED BY <1>2, <2>1, <3>1, <3>2 DEF SignInType
  <2>3. CASE ~bind
    BY <1>2, <2>1, <2>3 DEF Settles
  <2>. QED BY <2>2, <2>3
<1>. QED BY <1>1, <1>2

\* An account found for an eGov identity stays bound to it.
LEMMA FindBound ==
    ASSUME NEW b \in Browser, NEW i \in Identity, SignInInv, FoundBound, FindAccount(b, i)
    PROVE  FoundBound'
<1>1. PICK a \in Matches(i) \cup {None} :
          login' = [login EXCEPT ![b] = [by |-> i, found |-> a, bind |-> a # None /\ ~Bound(i, a)]]
  BY DEF FindAccount
<1>. DEFINE r == [by |-> i, found |-> a, bind |-> a # None /\ ~Bound(i, a)]
<1>2. account' = account
  BY DEF FindAccount
<1>3. login' = [login EXCEPT ![b] = r] /\ r.by = i /\ r.found = a
  BY <1>1
<1>. HIDE DEF r
<1>4. i.via = "egov" /\ a # None => account[a].egov = i.sub
  BY DEF Matches, ByEgov
<1>. QED BY <1>2, <1>3, <1>4 DEF SignInInv, SignInType, FoundBound

LEMMA FinishBound ==
    ASSUME NEW b \in Browser, NEW a \in Account, SignInInv, FoundBound, FinishLogin(b, a)
    PROVE  /\ FoundBound' /\ Stored(a)' /\ login[b].by \in Identity
           /\ \A c \in Account : c # a => account'[c] = account[c]
           /\ \A c \in Account : Stored(c) => Stored(c)' /\ account'[c].egov = account[c].egov
           /\ login[b].by.via = "egov" => account'[a].egov = login[b].by.sub
<1>. DEFINE i == login[b].by
            found == login[b].found
            bind == login[b].bind
<1>1. login[b] \in LoginRecord /\ login[b] # None
  BY DEF FinishLogin, SignInInv, SignInType
<1>2. i \in Identity /\ found \in Account \cup {None} /\ bind \in BOOLEAN
  BY <1>1 DEF LoginRecord
<1>3. found # None => Stored(found) /\ account[found].email = i.email
  BY <1>1 DEF SignInInv, FoundMatches
<1>4. i.via = "egov" /\ found # None => account[found].egov = i.sub
  BY <1>1 DEF FoundBound
<1>5. Settles(i, found, bind, a) /\ login' = [login EXCEPT ![b] = None]
  BY DEF FinishLogin
<1>. HIDE DEF i, found, bind
<1>6. Stored(a)' /\ \A c \in Account : Stored(c) => Stored(c)'
  BY <1>2, <1>3, <1>5, SettlesKeeps
<1>7. /\ \A c \in Account : c # a => account'[c] = account[c]
      /\ Stored(a) => account'[a].egov = account[a].egov
      /\ found = None => ~Stored(a) /\ account'[a].egov = IF i.via = "egov" THEN i.sub ELSE None
      /\ found # None => a = found
  BY <1>2, <1>3, <1>5, SettlesEgov DEF SignInInv
<1>8. i.via = "egov" => account'[a].egov = i.sub
  BY <1>3, <1>4, <1>7
<1>9. FoundBound'
  <2>. SUFFICES ASSUME NEW d \in Browser, login'[d] # None, login'[d].by.via = "egov", login'[d].found # None
                PROVE  account'[login'[d].found].egov = login'[d].by.sub
    BY DEF FoundBound
  <2>1. login'[d] = login[d]
    BY <1>5 DEF SignInInv, SignInType
  <2>2. login[d].found \in Account /\ Stored(login[d].found)
    BY <2>1 DEF SignInInv, SignInType, LoginRecord, FoundMatches
  <2>3. account[login[d].found].egov = login[d].by.sub
    BY <2>1 DEF FoundBound
  <2>. QED BY <1>7, <2>1, <2>2, <2>3
<1>. QED BY <1>2, <1>6, <1>7, <1>8, <1>9 DEF i

LEMMA FailsBound ==
    ASSUME NEW b \in Browser, SignInInv, FoundBound, LoginFails(b)
    PROVE  FoundBound'
BY DEF LoginFails, SignInInv, SignInType, FoundBound

LEMMA CloseBound ==
    ASSUME NEW a \in Account, SignInInv, FoundBound, Close(a)
    PROVE  FoundBound' /\ \A c \in Account : (Stored(c)' <=> Stored(c)) /\ account'[c].egov = account[c].egov
<1>1. Stored(a) /\ account[a] \in AccountRecord
  BY DEF Close, MayUse, SignInInv, SignInType, Stored
<1>2. PICK s \in {"inactive", "deleted"} : account' = [account EXCEPT ![a].status = s]
  BY DEF Close
<1>. DEFINE r == [account[a] EXCEPT !.status = s]
<1>3. r \in AccountRecord /\ r.egov = account[a].egov
  BY <1>1 DEF AccountRecord
<1>4. account' = [account EXCEPT ![a] = r]
  BY <1>2 DEF SignInInv, SignInType
<1>. HIDE DEF r
<1>5. \A c \in Account : (Stored(c)' <=> Stored(c)) /\ account'[c].egov = account[c].egov
  BY <1>1, <1>3, <1>4, SignInAssumption DEF SignInInv, SignInType, Stored
<1>6. login' = login
  BY DEF Close
<1>7. \A b \in Browser : login[b] # None /\ login[b].found # None => login[b].found \in Account
  BY DEF SignInInv, SignInType, LoginRecord
<1>. QED BY <1>5, <1>6, <1>7 DEF FoundBound

\* Accounts stay, with the eGov id they were made with.
LEMMA BoundStep ==
    ASSUME SignInInv, FoundBound, Next
    PROVE  FoundBound' /\ \A c \in Account : Stored(c) => Stored(c)' /\ account'[c].egov = account[c].egov
<1>1. CASE UNCHANGED accounts
  BY <1>1 DEF accounts, FoundBound, Stored
<1>2. ASSUME NEW b \in Browser, NEW i \in Identity, FindAccount(b, i) PROVE FoundBound' /\ account' = account
  BY <1>2, FindBound DEF FindAccount
<1>3. ASSUME NEW b \in Browser, LoginFails(b) PROVE FoundBound' /\ account' = account
  BY <1>3, FailsBound DEF LoginFails
<1>4. (\E b \in Browser, a \in Account : FinishLogin(b, a)) \/ (\E a \in Account : Close(a))
      => FoundBound' /\ \A c \in Account : Stored(c) => Stored(c)' /\ account'[c].egov = account[c].egov
  BY FinishBound, CloseBound
<1>. QED BY <1>1, <1>2, <1>3, <1>4, OnlySignIn DEF SignInStep, Stored

LEMMA FinishEgov ==
    ASSUME NEW b \in Browser, NEW a \in Account, SignInInv, EgovInv, OneProfile, FinishLogin(b, a)
    PROVE  EgovInv'
<1>. DEFINE i == login[b].by
            done(D) == {[field |-> f, row |-> None, value |-> i.profile[f]] : f \in D}
<1>1. answer' = answer \/ (i.via = "egov" /\ \E D \in SUBSET EgovField : Book!Save(a, done(D)))
  BY DEF FinishLogin, Sync
<1>2. /\ FoundBound' /\ Stored(a)' /\ i \in Identity
      /\ \A c \in Account : c # a => account'[c] = account[c]
      /\ \A c \in Account : Stored(c) => Stored(c)' /\ account'[c].egov = account[c].egov
      /\ i.via = "egov" => account'[a].egov = i.sub
  BY FinishBound DEF EgovInv
<1>. HIDE DEF i
<1>3. /\ DOMAIN answer' = Account
      /\ \A c \in Account : c # a => answer'[c] = answer[c]
      /\ \A f \in EgovField : answer'[a][f] = answer[a][f] \/ (i.via = "egov" /\ answer'[a][f] = i.profile[f])
  <2>1. CASE answer' = answer
    BY <2>1 DEF EgovInv
  <2>2. CASE i.via = "egov" /\ \E D \in SUBSET EgovField : Book!Save(a, done(D))
    <3>1. PICK D \in SUBSET EgovField : Book!Save(a, done(D))
      BY <2>2
    <3>2. \A x \in done(D) : x.value = i.profile[x.field]
      OBVIOUS
    <3>. HIDE DEF done
    <3>3. /\ DOMAIN answer' = Account
          /\ \A c \in Account : c # a => answer'[c] = answer[c]
          /\ \A f \in Scalar : \/ answer'[a][f] = answer[a][f]
                               \/ \E x \in done(D) : x.field = f /\ answer'[a][f] = x.value
      BY <3>1, SaveEffect DEF EgovInv
    <3>. QED BY <2>2, <3>2, <3>3, SignInAssumption
  <2>. QED BY <1>1, <2>1, <2>2
<1>4. Blank'
  BY <1>2, <1>3 DEF EgovInv, Blank, Stored
<1>5. Stands'
  <2>. SUFFICES ASSUME NEW j \in Identity, NEW f \in EgovField, NEW c \in Account,
                       j.via = "egov", account'[c] # None, account'[c].egov = j.sub
                PROVE  answer'[c][f] \in {None, j.profile[f]}
    BY DEF Stands, Stored
  <2>1. CASE c # a
    BY <1>2, <1>3, <2>1 DEF EgovInv, Stands, Stored
  <2>2. CASE c = a
    <3>1. i.via = "egov" => i.profile = j.profile
      BY <1>2, <2>2 DEF OneProfile
    <3>2. answer[a][f] \in {None, j.profile[f]}
      <4>1. CASE Stored(a)
        BY <1>2, <2>2, <4>1 DEF EgovInv, Stands
      <4>2. CASE ~Stored(a)
        BY <4>2 DEF EgovInv, Blank
      <4>. QED BY <4>1, <4>2
    <3>. QED BY <1>3, <2>2, <3>1, <3>2
  <2>. QED BY <2>1, <2>2
<1>. QED BY <1>2, <1>3, <1>4, <1>5 DEF EgovInv

LEMMA CloseEgov ==
    ASSUME NEW a \in Account, SignInInv, EgovInv, Close(a)
    PROVE  EgovInv'
<1>1. FoundBound' /\ \A c \in Account : (Stored(c)' <=> Stored(c)) /\ account'[c].egov = account[c].egov
  BY CloseBound DEF EgovInv
<1>2. answer' = answer
  BY DEF Close
<1>. QED BY <1>1, <1>2 DEF EgovInv, Blank, Stands

\* A save the server takes leaves the synced answers of a bound account alone.
LEMMA WriteEgov ==
    ASSUME EgovInv, SignInInv, NEW n \in DOMAIN net, SoundMessage(net[n], tab.token, Known, Free), ServeWrite(n)
    PROVE  EgovInv'
<1>. DEFINE m == net[n]
<1>1. account' = account /\ login' = login
  BY Zenon DEF ServeWrite
<1>2. answer' = answer \/ (m.kind \in {"save", "cell"} /\ Book!Save(m.token, m.items))
  <2>1. CASE m.kind \in {"save", "cell"}
    BY <2>1 DEF ServeWrite
  <2>2. CASE m.kind = "add"
    BY <2>2 DEF ServeWrite, Book!AddRow
  <2>3. CASE m.kind = "remove"
    BY <2>3 DEF ServeWrite, Book!DeleteRow
  <2>. QED BY <2>1, <2>2, <2>3 DEF ServeWrite
<1>3. CASE answer' = answer
  BY <1>1, <1>3 DEF EgovInv, Blank, Stands, FoundBound, Stored
<1>4. CASE m.kind \in {"save", "cell"} /\ Book!Save(m.token, m.items)
  <2>1. m.token \in Known /\ (m.token \in Free \/ \A x \in m.items : x.field \notin EgovField)
    BY <1>4 DEF SoundMessage
  <2>2. m.token \in Account
    BY <2>1 DEF Known
  <2>3. /\ DOMAIN answer' = Account
        /\ \A c \in Account : c # m.token => answer'[c] = answer[c]
        /\ \A f \in Scalar : \/ answer'[m.token][f] = answer[m.token][f]
                             \/ \E x \in m.items : x.field = f /\ answer'[m.token][f] = x.value
    BY <1>4, <2>2, SaveEffect DEF EgovInv
  <2>. HIDE DEF m
  <2>4. m.token \in Free \/ \A f \in EgovField : answer'[m.token][f] = answer[m.token][f]
    BY <2>1, <2>3, SignInAssumption
  <2>5. Blank'
    BY <1>1, <2>1, <2>3 DEF EgovInv, Blank, Stored, Known
  <2>6. Stands'
    BY <1>1, <2>3, <2>4, SignInAssumption DEF EgovInv, Stands, Stored, Free
  <2>. QED BY <1>1, <2>3, <2>5, <2>6 DEF EgovInv, FoundBound
<1>. QED BY <1>2, <1>3, <1>4

LEMMA InitSound == Init => SoundInv
<1>. SUFFICES ASSUME Init PROVE SoundInv
  OBVIOUS
<1>1. ServerInit
  BY Zenon DEF Init
<1>2. EgovInv
  BY <1>1, SignInAssumption DEF ServerInit, Book!Init, EgovInv, Blank, Stands, FoundBound, Stored
<1>3. SoundStore(store, Known) /\ SoundTab(tab, Known)
  BY DEF Init, Fresh, SoundStore, SoundTab
<1>4. timer = {} /\ net = <<>>
  BY DEF Init
<1>5. SoundNet(net, tab.token, Known, Free)
  <2>1. net \in Seq({})
    BY <1>4
  <2>. QED BY <2>1, SoundSeq
<1>. QED BY <1>2, <1>3, <1>4, <1>5, InitSignIn DEF SoundInv, SoundClient, SoundTimers

\* What the tab does is sound for the accounts it knows.
LEMMA ClientStep ==
    ASSUME NEW K, NEW F, SoundClient(store, tab, timer, net, K, F), None \notin K,
           \A a \in K : a \in F \/ account[a].egov # None, Next
    PROVE  \/ SoundClient(store', tab', timer', net', K, F)
           \/ \E n \in DOMAIN net : ServeLogin(n)
<1>. DEFINE Goal == SoundClient(store', tab', timer', net', K, F)
<1>1. SoundClient(store, tab, timer, net, K, F)
  OBVIOUS
<1>2. None \notin K /\ \A a \in K : a \in F \/ account[a].egov # None
  OBVIOUS
<1>3. Reload \/ Logout \/ SaveForm \/ HandleAddRow => Goal
  BY <1>1, <1>2, ReloadSound, LogoutSound, SaveFormSound, AddRowSound
<1>4. StartEditing \/ CancelEditing \/ (\E f \in Scalar, v \in Value : Typing(f, v)) => Goal
  BY <1>1, LocalSound
<1>5. ASSUME NEW p, Visit(p) PROVE Goal
  BY <1>1, <1>5, VisitSound
<1>6. ASSUME NEW i, SendLogin(i) PROVE Goal
  BY <1>1, <1>6, SendLoginSound
<1>7. ASSUME NEW f \in Scalar, NEW v, TypeAnswered(f, v) PROVE Goal
  BY <1>1, <1>2, <1>7, TypeAnsweredSound
<1>8. ASSUME NEW r, NEW c, NEW v, TypeCell(r, c, v) PROVE Goal
  BY <1>1, <1>8, TypeCellSound
<1>9. ASSUME NEW x, Elapse(x) PROVE Goal
  BY <1>1, <1>9, ElapseSound
<1>10. ASSUME NEW r, HandleDeleteRow(r) PROVE Goal
  BY <1>1, <1>10, DeleteRowSound
<1>11. ASSUME NEW n \in DOMAIN net, ServeRead(n) \/ ServeWrite(n) \/ Lose(n) PROVE Goal
  BY <1>1, <1>11, ServeSound
<1>12. ASSUME NEW n \in DOMAIN net, Deliver(n) PROVE Goal
  BY <1>1, <1>12, DeliverSound
<1>13. Elsewhere \/ CloseAccount => UNCHANGED <<store, tab, timer, net>>
  BY Zenon DEF Elsewhere, CloseAccount, client
<1>14. UNCHANGED <<store, tab, timer, net>> => Goal
  BY <1>1
<1>. QED
  BY <1>3, <1>4, <1>5, <1>6, <1>7, <1>8, <1>9, <1>10, <1>11, <1>12, <1>13, <1>14, Zenon DEF Next

\* A step changes answers by a sign-in, by a save of the tab, or not at all.
LEMMA OnlySaves == Next => SignInStep \/ (\E n \in DOMAIN net : ServeWrite(n)) \/ UNCHANGED <<accounts, answer>>
<1>. SUFFICES ASSUME Next, ~(\E n \in DOMAIN net : ServeWrite(n)) PROVE SignInStep \/ UNCHANGED <<accounts, answer>>
  BY Zenon, OnlySignIn DEF accounts
<1>1. ASSUME \/ Reload \/ Logout \/ StartEditing \/ CancelEditing \/ SaveForm \/ HandleAddRow
             \/ \E p \in Page : Visit(p)
             \/ \E i \in Identity : SendLogin(i)
             \/ \E f \in Scalar, v \in Value : Typing(f, v) \/ TypeAnswered(f, v)
             \/ \E r \in Row, c \in Subfield, v \in Value : TypeCell(r, c, v)
             \/ \E x \in timer : Elapse(x)
             \/ \E r \in Row : HandleDeleteRow(r)
      PROVE UNCHANGED <<accounts, answer>>
  BY <1>1, Zenon DEF Reload, Logout, StartEditing, CancelEditing, SaveForm, HandleAddRow, Visit,
     SendLogin, Typing, TypeAnswered, TypeCell, Elapse, HandleDeleteRow, server, accounts
<1>2. ASSUME NEW n \in DOMAIN net, ServeRead(n) \/ Lose(n) \/ Deliver(n)
      PROVE UNCHANGED <<accounts, answer>>
  BY <1>2, Zenon DEF ServeRead, Lose, Deliver, server, accounts
<1>3. ASSUME NEW n \in DOMAIN net, ServeLogin(n) PROVE SignInStep
  BY <1>3, BrowserAssumption, Zenon DEF ServeLogin, SignInStep
<1>4. ASSUME Elsewhere PROVE SignInStep
  BY <1>4, BrowserAssumption, Zenon DEF Elsewhere, SignInStep
<1>5. ASSUME CloseAccount PROVE SignInStep
  BY <1>5, Zenon DEF CloseAccount, SignInStep
<1>. QED BY <1>1, <1>2, <1>3, <1>4, <1>5, Zenon DEF Next

LEMMA ServerStep ==
    ASSUME SoundInv, OneProfile, Next
    PROVE  EgovInv'
<1>1. SignInInv /\ EgovInv /\ FoundBound'
  BY BoundStep DEF SoundInv, EgovInv
<1>2. CASE UNCHANGED <<accounts, answer>>
  BY <1>1, <1>2 DEF accounts, EgovInv, Blank, Stands, Stored
<1>3. ASSUME NEW n \in DOMAIN net, ServeWrite(n) PROVE EgovInv'
  BY <1>1, <1>3, WriteEgov DEF SoundInv, SoundClient, SoundNet
<1>4. ASSUME NEW b \in Browser, NEW i \in Identity, FindAccount(b, i) PROVE EgovInv'
  BY <1>1, <1>4 DEF FindAccount, EgovInv, Blank, Stands, Stored
<1>5. ASSUME NEW b \in Browser, LoginFails(b) PROVE EgovInv'
  BY <1>1, <1>5 DEF LoginFails, EgovInv, Blank, Stands, Stored
<1>6. (\E b \in Browser, a \in Account : FinishLogin(b, a)) \/ (\E a \in Account : Close(a)) => EgovInv'
  BY <1>1, FinishEgov, CloseEgov
<1>. QED BY <1>2, <1>3, <1>4, <1>5, <1>6, OnlySaves DEF SignInStep

LEMMA NextSound ==
    ASSUME SoundInv, OneProfile, [Next]_vars
    PROVE  SoundInv'
<1>1. SignInInv'
  BY NextSignIn DEF SoundInv
<1>2. CASE UNCHANGED vars
  BY <1>2 DEF vars, server, client, SoundInv, SignInInv, SignInType, EmailsUnique, BoundByEmail,
     FoundMatches, HomeMatches, EgovInv, Blank, Stands, FoundBound, Known, Free, Stored
<1>3. CASE Next
  <2>1. EgovInv' /\ \A c \in Account : Stored(c) => Stored(c)' /\ account'[c].egov = account[c].egov
    BY <1>3, ServerStep, BoundStep DEF SoundInv, EgovInv
  <2>2. Known \subseteq Known' /\ Free \subseteq Free'
    BY <2>1 DEF Known, Free
  <2>3. CASE SoundClient(store', tab', timer', net', Known, Free)
    BY <1>1, <2>1, <2>2, <2>3, SoundWidens DEF SoundInv
  <2>4. CASE \E n \in DOMAIN net : ServeLogin(n)
    <3>1. PICK n \in DOMAIN net : ServeLogin(n)
      BY <2>4
    <3>. DEFINE K == Known'
                F == Free'
    <3>2. SoundClient(store, tab, timer, net, K, F)
      BY <2>2, SoundWidens DEF SoundInv
    <3>3. \A a \in Account : FinishLogin("here", a) => a \in K
      BY BrowserAssumption, FinishBound DEF SoundInv, EgovInv, Known
    <3>. HIDE DEF K, F
    <3>4. SoundClient(store', tab', timer', net', K, F)
      BY <3>1, <3>2, <3>3, ServeLoginSound
    <3>. QED BY <1>1, <2>1, <3>4 DEF SoundInv, K, F
  <2>5. None \notin Known /\ \A a \in Known : a \in Free \/ account[a].egov # None
    BY SignInAssumption DEF Known, Free
  <2>. QED BY <1>3, <2>3, <2>4, <2>5, ClientStep DEF SoundInv
<1>. QED BY <1>2, <1>3

\* If eGov tells the same of a person at every sign-in, the synced answers of an
\* account are its profile's, whatever is typed, saved, delayed or lost in the tab,
\* and whichever sign-ins and closed accounts come in between
\* (egovAnswerSync.service.ts, FormPage.tsx:60-62, egov-field-lock.ts).
THEOREM EgovValuesAlwaysStand == ASSUME OneProfile PROVE Spec => []EgovValuesStand
<1>1. Init => SoundInv
  BY InitSound
<1>2. SoundInv /\ [Next]_vars => SoundInv'
  BY NextSound
<1>3. SoundInv => EgovValuesStand
  BY DEF SoundInv, EgovInv, Stands, EgovValuesStand, ByEgov, Live, Stored
<1>. QED BY <1>1, <1>2, <1>3, PTL DEF Spec


-----------------------------------------------------------------------------
(* Lists that lose some of their members, and lists that get one more *)

\* p has the members of q at the positions I, in order.
Thins(p, q, I) ==
    /\ IsList(p)
    /\ \E h \in [DOMAIN p -> I] :
          /\ \A n \in DOMAIN p : p[n] = q[h[n]]
          /\ \A i, j \in DOMAIN p : i < j => h[i] < h[j]
          /\ \A i \in I : \E n \in DOMAIN p : h[n] = i

LEMMA PickedThins ==
    ASSUME NEW q, IsList(q), NEW I \in SUBSET DOMAIN q
    PROVE  Thins(Picked(q, I), q, I)
<1>. DEFINE Upto(i) == {j \in I : j <= i}
            Nth(n) == CHOOSE i \in I : Cardinality(Upto(i)) = n
            N == Cardinality(I)
            h == [n \in 1 .. N |-> Nth(n)]
            p == Picked(q, I)
<1>1. I \in SUBSET Nat /\ IsFiniteSet(I) /\ N \in Nat
  <2>1. Len(q) \in Nat /\ DOMAIN q = 1 .. Len(q)
    BY LenProperties DEF IsList
  <2>2. IsFiniteSet(1 .. Len(q))
    BY <2>1, FS_Interval
  <2>. QED BY <2>1, <2>2, FS_Subset, FS_CardinalityType
<1>2. ASSUME NEW n \in 1 .. N PROVE Nth(n) \in I /\ Cardinality(Upto(Nth(n))) = n
  BY <1>1, Ranked
<1>3. p = [n \in 1 .. N |-> q[Nth(n)]]
  BY DEF Picked
<1>4. IsList(p)
  <2>1. p \in Seq({q[n] : n \in I})
    BY PickedList
  <2>. HIDE DEF p
  <2>. QED BY <2>1, ListFacts
<1>5. ASSUME NEW i \in I PROVE IsFiniteSet(Upto(i)) /\ Cardinality(Upto(i)) \in 1 .. N
  <2>1. Upto(i) \in SUBSET I /\ i \in Upto(i)
    BY <1>1
  <2>2. IsFiniteSet(Upto(i)) /\ Cardinality(Upto(i)) <= N /\ Cardinality(Upto(i)) \in Nat
    BY <1>1, <2>1, FS_Subset, FS_CardinalityType
  <2>3. Cardinality(Upto(i)) # 0
    BY <2>1, <2>2, FS_EmptySet
  <2>. QED BY <1>1, <2>2, <2>3
<1>6. ASSUME NEW i \in I, NEW j \in I, j <= i PROVE Cardinality(Upto(j)) <= Cardinality(Upto(i))
  <2>1. Upto(j) \in SUBSET Upto(i)
    BY <1>1, <1>6
  <2>. QED BY <1>5, <2>1, FS_Subset
<1>7. ASSUME NEW i \in I, NEW j \in I, j < i PROVE Cardinality(Upto(j)) # Cardinality(Upto(i))
  <2>1. Upto(j) \in SUBSET Upto(i) /\ i \in Upto(i) /\ i \notin Upto(j)
    BY <1>1, <1>7
  <2>. QED BY <1>5, <2>1, FS_Subset
<1>. HIDE DEF Upto, Nth, N, p
<1>8. h \in [1 .. N -> I] /\ DOMAIN p = 1 .. N /\ \A n \in DOMAIN p : p[n] = q[h[n]]
  BY <1>2, <1>3
<1>9. ASSUME NEW i \in DOMAIN p, NEW j \in DOMAIN p, i < j PROVE h[i] < h[j]
  <2>1. h[i] \in I /\ h[j] \in I /\ h[i] \in Nat /\ h[j] \in Nat
    BY <1>1, <1>8
  <2>2. Cardinality(Upto(h[i])) = i /\ Cardinality(Upto(h[j])) = j /\ i \in Nat /\ j \in Nat
    BY <1>1, <1>2, <1>8
  <2>3. ~(h[j] <= h[i])
    BY <1>6, <1>9, <2>1, <2>2
  <2>. QED BY <2>1, <2>3
<1>10. ASSUME NEW i \in I PROVE \E n \in DOMAIN p : h[n] = i
  <2>. DEFINE n == Cardinality(Upto(i))
  <2>1. n \in 1 .. N
    BY <1>5
  <2>2. h[n] \in I /\ Cardinality(Upto(h[n])) = n
    BY <1>2, <1>8, <2>1
  <2>3. h[n] = i
    BY <1>1, <1>7, <2>2
  <2>. QED BY <1>8, <2>1, <2>3
<1>. HIDE DEF h
<1>11. Thins(p, q, I)
  BY <1>4, <1>8, <1>9, <1>10 DEF Thins
<1>. QED BY <1>11 DEF p

LEMMA RemovedThins ==
    ASSUME NEW q, IsList(q), NEW k \in DOMAIN q
    PROVE  Thins(RemoveAt(q, k), q, DOMAIN q \ {k})
<1>. DEFINE S == {q[n] : n \in DOMAIN q}
            p == RemoveAt(q, k)
            h == [n \in 1 .. Len(q) - 1 |-> IF n < k THEN n ELSE n + 1]
<1>1. q \in Seq(S) /\ Len(q) \in Nat /\ DOMAIN q = 1 .. Len(q) /\ q \in [1 .. Len(q) -> S]
  BY LenProperties DEF IsList
<1>2. p \in Seq(S)
  BY <1>1, RemoveAtSeq
<1>3. IsList(p)
  <2>. HIDE DEF p, S
  <2>. QED BY <1>2, ListFacts
<1>4. DOMAIN p = 1 .. Len(q) - 1 /\ \A n \in 1 .. Len(q) - 1 : p[n] = q[h[n]]
  <2>. DEFINE a == SubSeq(q, 1, k - 1)
              b == SubSeq(q, k + 1, Len(q))
  <2>. HIDE DEF S
  <2>1. k \in 1 .. Len(q)
    BY <1>1
  <2>2. /\ a \in Seq(S) /\ Len(a) = k - 1
        /\ \A n \in 1 .. k - 1 : a[n] = q[n]
    <3>1. \A n \in 1 .. k - 1 : q[n] \in S
      BY <1>1, <2>1
    <3>. QED BY <1>1, <2>1, <3>1
  <2>3. /\ b \in Seq(S) /\ Len(b) = Len(q) - k
        /\ \A n \in 1 .. Len(q) - k : b[n] = q[n + k]
    <3>1. \A n \in k + 1 .. Len(q) : q[n] \in S
      BY <1>1, <2>1
    <3>. QED BY <1>1, <2>1, <3>1
  <2>4. p = a \o b
    BY DEF RemoveAt
  <2>. HIDE DEF a, b, p, h
  <2>5. Len(p) = Len(q) - 1 /\ DOMAIN p = 1 .. Len(q) - 1
    <3>1. Len(p) = Len(a) + Len(b)
      BY <2>2, <2>3, <2>4, ConcatProperties
    <3>2. Len(p) = Len(q) - 1
      BY <1>1, <2>1, <2>2, <2>3, <3>1
    <3>. QED BY <1>2, <3>2, LenProperties
  <2>6. ASSUME NEW n \in 1 .. Len(q) - 1 PROVE p[n] = q[h[n]]
    <3>1. p[n] = IF n <= k - 1 THEN a[n] ELSE b[n - (k - 1)]
      BY <1>1, <2>1, <2>2, <2>3, <2>4, <2>6, ConcatProperties
    <3>2. CASE n < k
      BY <1>1, <2>1, <2>2, <3>1, <3>2 DEF h
    <3>3. CASE ~(n < k)
      <4>1. n - (k - 1) \in 1 .. Len(q) - k /\ n - (k - 1) + k = n + 1
        BY <1>1, <2>1, <3>3
      <4>. QED BY <1>1, <2>1, <2>3, <3>1, <3>3, <4>1 DEF h
    <3>. QED BY <3>2, <3>3
  <2>. QED BY <2>5, <2>6
<1>5. /\ h \in [1 .. Len(q) - 1 -> DOMAIN q \ {k}]
      /\ \A i, j \in 1 .. Len(q) - 1 : i < j => h[i] < h[j]
  <2>1. k \in 1 .. Len(q)
    BY <1>1
  <2>2. Len(q) \in Nat /\ k \in Nat
    BY <1>1
  <2>3. ASSUME NEW n \in 1 .. Len(q) - 1
        PROVE  (IF n < k THEN n ELSE n + 1) \in 1 .. Len(q) /\ (IF n < k THEN n ELSE n + 1) # k
    BY <2>1, <2>2
  <2>4. DOMAIN q = 1 .. Len(q)
    BY <1>1
  <2>5. h \in [1 .. Len(q) - 1 -> DOMAIN q \ {k}]
    BY <2>3, <2>4
  <2>6. \A i, j \in 1 .. Len(q) - 1 : i < j => h[i] < h[j]
    BY <2>1, <2>2
  <2>. QED BY <2>5, <2>6
<1>6. ASSUME NEW i \in DOMAIN q \ {k} PROVE \E n \in 1 .. Len(q) - 1 : h[n] = i
  <2>1. CASE i < k
    <3>1. i \in 1 .. Len(q) - 1 /\ h[i] = i
      BY <1>1, <2>1
    <3>. QED BY <3>1
  <2>2. CASE ~(i < k)
    <3>1. k \in Nat /\ i \in Nat /\ Len(q) \in Nat /\ 1 <= k /\ i <= Len(q) /\ k < i
      <4>1. Len(q) \in Nat /\ DOMAIN q = 1 .. Len(q)
        BY <1>1
      <4>2. k \in 1 .. Len(q) /\ i \in 1 .. Len(q) /\ i # k
        BY <4>1
      <4>. QED BY <2>2, <4>1, <4>2
    <3>2. i - 1 \in 1 .. Len(q) - 1 /\ ~(i - 1 < k) /\ i - 1 + 1 = i
      BY <3>1
    <3>3. h[i - 1] = i
      BY <3>2
    <3>. QED BY <3>2, <3>3
  <2>. QED BY <2>1, <2>2
<1>. HIDE DEF p, h
<1>7. h \in [DOMAIN p -> DOMAIN q \ {k}] /\ \A n \in DOMAIN p : p[n] = q[h[n]]
  BY <1>4, <1>5
<1>8. \A i, j \in DOMAIN p : i < j => h[i] < h[j]
  BY <1>4, <1>5
<1>9. \A i \in DOMAIN q \ {k} : \E n \in DOMAIN p : h[n] = i
  BY <1>4, <1>6
<1>10. Thins(p, q, DOMAIN q \ {k})
  BY <1>3, <1>7, <1>8, <1>9 DEF Thins
<1>. QED BY <1>10 DEF p

\* One more member.
LEMMA Appended ==
    ASSUME NEW q, IsList(q), NEW m
    PROVE  /\ IsList(Append(q, m)) /\ q \o <<m>> = Append(q, m) /\ q \o <<>> = q
           /\ Len(q) \in Nat /\ DOMAIN q = 1 .. Len(q) /\ DOMAIN Append(q, m) = 1 .. Len(q) + 1
           /\ \A n \in DOMAIN q : Append(q, m)[n] = q[n]
           /\ Append(q, m)[Len(q) + 1] = m
<1>. DEFINE S == {q[n] : n \in DOMAIN q} \cup {m}
<1>1. Len(q) \in Nat /\ DOMAIN q = 1 .. Len(q) /\ q \in [1 .. Len(q) -> {q[n] : n \in DOMAIN q}]
  BY LenProperties DEF IsList
<1>2. q \in Seq(S) /\ m \in S
  <2>1. \A n \in 1 .. Len(q) : q[n] \in S
    BY <1>1
  <2>2. m \in S
    OBVIOUS
  <2>. HIDE DEF S
  <2>. QED BY <1>1, <2>1, <2>2
<1>. HIDE DEF S
<1>3. Append(q, m) \in Seq(S)
  BY <1>2, AppendProperties
<1>4. IsList(Append(q, m))
  BY <1>3, ListFacts
<1>5. /\ Len(Append(q, m)) = Len(q) + 1 /\ Append(q, m)[Len(q) + 1] = m
      /\ \A n \in 1 .. Len(q) : Append(q, m)[n] = q[n]
  BY <1>2, AppendProperties
<1>6. DOMAIN Append(q, m) = 1 .. Len(q) + 1
  BY <1>3, <1>5, LenProperties
<1>7. q \o <<m>> = Append(q, m)
  BY <1>2
<1>8. q \o <<>> = q
  BY <1>2
<1>. QED BY <1>1, <1>4, <1>5, <1>6, <1>7, <1>8
=================================================================================
