-------------------------------- MODULE SignIn --------------------------------
(***************************************************************************)
(* Accounts and the ways into them: auth.service.ts, the eGov profile sync   *)
(* and the token check.  An identity is what Google or eGov vouches for.  The *)
(* find and the write of a sign-in are two steps: others come in between.     *)
(***************************************************************************)
EXTENDS Naturals, FiniteSets, SequencesExt

CONSTANTS
    Account,        \* ids of accounts
    Browser,        \* where people sign in
    Identity,       \* [via : {"google", "egov"}, sub, email, profile] records
    Scalar, Repeater, Subfield, Parent, Value, Row, MaxRows,
    EgovField,      \* the scalar fields the profile fills in
    UnlockGoogle,   \* VITE_UNLOCK_GOOGLE_SYNCED_FIELDS
    None

VARIABLES
    account,        \* DimUser
    login,          \* the sign-in of each browser, and the account it found
    home,           \* the account each identity came into last
    answer, rows    \* the answers of the accounts

server == <<account, login, home, answer, rows>>

Book == INSTANCE AnswerBook WITH User <- Account

AccountRecord ==
    [google : {i.sub : i \in Identity} \cup {None}, egov : {i.sub : i \in Identity} \cup {None},
     email : {i.email : i \in Identity}, status : {"active", "inactive", "deleted"}]

LoginRecord == [by : Identity, found : Account \cup {None}, bind : BOOLEAN]

\* An id that Google or eGov vouches for always comes with the same address.
ASSUME SignInAssumption ==
    /\ None \notin Account \cup AccountRecord \cup LoginRecord
    /\ \A i \in Identity : i.sub # None
    /\ \A i, j \in Identity : i.sub = j.sub => i.email = j.email
    /\ EgovField \subseteq Scalar /\ Scalar \cap Subfield = {}

Live(a) == account[a] # None /\ account[a].status # "deleted"
MayUse(a) == account[a] # None /\ account[a].status = "active"

ServerInit ==
    /\ account = [a \in Account |-> None] /\ home = [i \in Identity |-> None]
    /\ login = [b \in Browser |-> None]
    /\ Book!Init

-----------------------------------------------------------------------------
ByGoogle(i) == {a \in Account : Live(a) /\ account[a].google = i.sub}
ByEgov(i) == {a \in Account : Live(a) /\ account[a].egov = i.sub}
ByEmail(i) == {a \in Account : Live(a) /\ account[a].email = i.email}

\* The accounts a sign-in may settle on: the ones with this id, and for Google
\* else the ones of this address.
Matches(i) ==
    IF i.via = "egov" THEN ByEgov(i) ELSE IF ByGoogle(i) # {} THEN ByGoogle(i) ELSE ByEmail(i)

\* The account is found by the id itself, not by its address.
Bound(i, a) == i.sub = (IF i.via = "google" THEN account[a].google ELSE account[a].egov)

FindAccount(b, i) ==
    /\ login[b] = None
    /\ \E a \in Matches(i) \cup {None} :
          /\ a = None <=> Matches(i) = {}
          /\ login' = [login EXCEPT ![b] =
                [by |-> i, found |-> a, bind |-> a # None /\ ~Bound(i, a)]]
    /\ UNCHANGED <<account, home, answer, rows>>

NewAccount(i) ==
    [google |-> IF i.via = "google" THEN i.sub ELSE None,
     egov |-> IF i.via = "egov" THEN i.sub ELSE None,
     email |-> i.email, status |-> "active"]

\* Mutation: nothing keeps an address unique.
EmailFreeMutant(i) == TRUE

\* The address is unique, deleted accounts included.
EmailFree(i) == \A a \in Account : account[a] # None => account[a].email # i.email

\* An account found by its address is bound to the Google id, one found by the id
\* is left as it is; without either, a new one is made.
Settles(i, found, bind, a) ==
    IF found = None
    THEN EmailFree(i) /\ account[a] = None /\ account' = [account EXCEPT ![a] = NewAccount(i)]
    ELSE /\ a = found
         /\ account' = IF bind THEN [account EXCEPT ![a].google = i.sub] ELSE account

\* The sync of an eGov profile saves each field on its own: any of them may
\* fail, and none keeps the user out.
Sync(i, a) ==
    \E done \in SUBSET {f \in EgovField : i.profile[f] # None} :
        Book!Save(a, {[field |-> f, row |-> None, value |-> i.profile[f]] : f \in done})

\* A closed account is bound before it is turned away.
FinishLogin(b, a) ==
    /\ login[b] # None
    /\ LET i == login[b].by
       IN  /\ Settles(i, login[b].found, login[b].bind, a)
           /\ IF i.via = "egov" /\ account'[a].status = "active" THEN Sync(i, a)
              ELSE UNCHANGED <<answer, rows>>
           /\ home' = [home EXCEPT ![i] = a]
    /\ login' = [login EXCEPT ![b] = None]

\* The address was taken in the meantime, or by an account this identity is not
\* bound to.
LoginFails(b) ==
    /\ login[b] # None /\ login[b].found = None /\ ~EmailFree(login[b].by)
    /\ login' = [login EXCEPT ![b] = None]
    /\ UNCHANGED <<account, home, answer, rows>>

\* A superadmin closes an account (user.service.ts).
Close(a) ==
    /\ MayUse(a)
    /\ \E s \in {"inactive", "deleted"} : account' = [account EXCEPT ![a].status = s]
    /\ UNCHANGED <<login, home, answer, rows>>

-----------------------------------------------------------------------------
\* What a client is told of its answers: one record per answered field or cell.
AnswersIn(scalars, lists) ==
    {i \in Book!Item : i.field \in Scalar /\ i.row = None /\ i.value = scalars[i.field]}
    \cup
    UNION {{[field |-> c, row |-> lists[p[1]][p[2]].id, value |-> lists[p[1]][p[2]].cell[c]] :
               c \in {c \in Book!Columns(p[1]) : lists[p[1]][p[2]].cell[c] # None}} :
           p \in {p \in Repeater \X (1 .. MaxRows) : p[2] <= Len(lists[p[1]])}}

AnswersOf(a) == AnswersIn(answer[a], rows[a])

RowsOf(a, f) == [n \in DOMAIN rows[a][f] |-> rows[a][f][n].id]

\* Mutation: whoever signed in with Google may edit the synced fields.
IsEgovFieldLockedMutant(f, a) ==
    f \in EgovField /\ a # None /\ ~(UnlockGoogle /\ account[a].google # None)

\* A guest's fields are open; so are those of someone who only has Google, if so
\* configured.
IsEgovFieldLocked(f, a) ==
    /\ f \in EgovField /\ a # None
    /\ ~(UnlockGoogle /\ account[a].google # None /\ account[a].egov = None)

-----------------------------------------------------------------------------
\* An identity that comes back is let into the account it came into before,
\* whatever was bound, closed or signed in elsewhere since
\* (auth.service.ts:58-86, 141-158).
SameAccount ==
    [][\A i \in Identity : home[i] # None => home'[i] = home[i]]_server

\* Two first sign-ins of one person at once do not leave two accounts with the
\* same Google or eGov id, which no index makes unique (schema.prisma:76-77).
OneAccountPerIdentity ==
    \A i \in Identity : Cardinality(ByGoogle(i) \cup ByEgov(i)) <= 1

\* What eGov vouched for is never overwritten by its owner: "synced live from the
\* identity provider (single source of truth)" (FormPage.tsx:60-62).
EgovValuesStand ==
    \A i \in Identity, f \in EgovField : i.via = "egov" =>
        \A a \in ByEgov(i) : answer[a][f] \in {None, i.profile[f]}
=============================================================================
