--------------------------- MODULE BenefitFormProofs ---------------------------
(***************************************************************************)
(* The benefit form over the benefit services: conditions are on fields     *)
(* that can be answered, the announcement of a benefit forgets nobody, no    *)
(* save reaches beyond its author's jurisdiction, what is deleted stays      *)
(* deleted, and what was saved is on its author's list.                     *)
(***************************************************************************)
EXTENDS BenefitForm, FiniteSetTheorems, SequenceTheorems, TLAPS

-----------------------------------------------------------------------------
(* Sequences *)

\* Every position up to the size of a set of numbers is the rank of one of them.
LEMMA Ranked ==
    ASSUME NEW I \in SUBSET Nat, IsFiniteSet(I), NEW n \in 1 .. Cardinality(I)
    PROVE  \E i \in I : Cardinality({j \in I : j <= i}) = n
<1>. DEFINE Upto(i) == {j \in I : j <= i}
            rank == [i \in I |-> Cardinality(Upto(i))]
            N == Cardinality(I)
<1>1. N \in Nat
  BY FS_CardinalityType
<1>2. ASSUME NEW i \in I
      PROVE  /\ IsFiniteSet(Upto(i)) /\ Cardinality(Upto(i)) \in 1 .. N
  <2>1. Upto(i) \in SUBSET I /\ i \in Upto(i)
    OBVIOUS
  <2>2. IsFiniteSet(Upto(i)) /\ Cardinality(Upto(i)) <= N /\ Cardinality(Upto(i)) \in Nat
    BY <2>1, FS_Subset, FS_CardinalityType
  <2>3. Cardinality(Upto(i)) # 0
    BY <2>1, <2>2, FS_EmptySet
  <2>. QED
    BY <1>1, <2>2, <2>3
<1>3. ASSUME NEW i \in I, NEW k \in I, i < k
      PROVE  Cardinality(Upto(i)) # Cardinality(Upto(k))
  <2>1. i \in Nat /\ k \in Nat /\ I \subseteq Nat
    OBVIOUS
  <2>2. Upto(i) \in SUBSET Upto(k)
    <3>1. \A j \in I : j <= i => j <= k
      BY <1>3, <2>1
    <3>. QED
      BY <3>1
  <2>3. k \in Upto(k) /\ k \notin Upto(i)
    BY <1>3, <2>1
  <2>. QED
    BY <1>2, <2>2, <2>3, FS_Subset
<1>4. rank \in [I -> 1 .. N]
  BY <1>2
<1>5. ASSUME NEW i \in I, NEW k \in I, rank[i] = rank[k]
      PROVE  i = k
  <2>1. i \in Nat /\ k \in Nat
    OBVIOUS
  <2>2. Cardinality(Upto(i)) = Cardinality(Upto(k))
    BY <1>5
  <2>. QED
    BY <1>3, <2>1, <2>2
<1>6. rank \in Injection(I, 1 .. N)
  BY <1>4, <1>5 DEF Injection, IsInjective
<1>7. IsFiniteSet(1 .. N) /\ Cardinality(1 .. N) = N
  BY <1>1, FS_Interval
<1>8. rank \in Surjection(I, 1 .. N)
  BY <1>6, <1>7, FS_Injection
<1>9. PICK i \in I : rank[i] = n
  BY <1>8 DEF Surjection
<1>. QED
  BY <1>9

LEMMA PickedSeq ==
    ASSUME NEW S, NEW s \in Seq(S), NEW I \in SUBSET DOMAIN s
    PROVE  Picked(s, I) \in Seq(S)
<1>. DEFINE Nth(n) == CHOOSE i \in I : Cardinality({j \in I : j <= i}) = n
            N == Cardinality(I)
<1>1. I \in SUBSET Nat /\ IsFiniteSet(I) /\ N \in Nat
  <2>1. Len(s) \in Nat /\ DOMAIN s = 1 .. Len(s)
    BY LenProperties
  <2>2. IsFiniteSet(1 .. Len(s))
    BY <2>1, FS_Interval
  <2>. QED
    BY <2>1, <2>2, FS_Subset, FS_CardinalityType
<1>2. ASSUME NEW n \in 1 .. N PROVE s[Nth(n)] \in S
  <2>1. Nth(n) \in I
    BY <1>1, Ranked
  <2>2. Nth(n) \in 1 .. Len(s)
    BY <2>1, LenProperties
  <2>. QED
    BY <2>2, ElementOfSeq
<1>3. [n \in 1 .. N |-> s[Nth(n)]] \in Seq(S)
  <2>. HIDE DEF Nth, N
  <2>. QED
    BY <1>1, <1>2
<1>. QED
  BY <1>3 DEF Picked

-----------------------------------------------------------------------------
(* Types *)

Deletion == [op : {"row", "file"}, id : Nat, file : Nat]
Call == [op : {"bundle", "row", "file"}, id : Nat, file : Nat]

TreeRow == [op : {"none", "ALL", "ANY"}, leaves : SUBSET Field]

FormState ==
    [user : User, id : Benefit \cup {None}, loaded : BOOLEAN, nationwide : BOOLEAN,
     codes : SUBSET Place, base : SUBSET Place, groups : SUBSET Group,
     items : Seq(BundleItem), gone : [Range(Kinds) -> Seq(Nat)],
     goneFiles : [Range(Kinds) -> Seq(Nat \X Nat)],
     tree : TreeRow, original : TreeRow, fields : SUBSET Field]

LEMMA KindsRange == Range(Kinds) = {"requirements", "utilizations", "how-to-apply"}
BY DEF Range, Kinds

LEMMA NewFilesSeq ==
    ASSUME NEW n \in Nat
    PROVE  NewFiles(n) \in Seq(BOOLEAN)
<1>1. [f \in 1 .. n |-> TRUE] \in [1 .. n -> BOOLEAN]
  OBVIOUS
<1>. QED
  BY <1>1 DEF NewFiles

\* A bundle adds rows, and files to rows; it touches nothing else of a row.
LEMMA WithItemsRows ==
    ASSUME item \in Seq(ItemRow), NEW b \in Benefit, NEW items \in Seq(BundleItem)
    PROVE  /\ WithItems(b, items) \in Seq(ItemRow)
           /\ \A i \in DOMAIN item :
                 /\ i \in DOMAIN WithItems(b, items)
                 /\ WithItems(b, items)[i].live = item[i].live
                 /\ \A f \in DOMAIN item[i].files :
                       /\ f \in DOMAIN WithItems(b, items)[i].files
                       /\ WithItems(b, items)[i].files[f] = item[i].files[f]
<1>. DEFINE extra(i) == IF \E it \in Range(items) : it.id = i
                        THEN (CHOOSE it \in Range(items) : it.id = i).fresh ELSE 0
            Row(it) == [benefit |-> b, kind |-> it.kind, live |-> TRUE,
                        files |-> NewFiles(it.fresh)]
            more(i) == [item[i] EXCEPT !.files = @ \o NewFiles(extra(i))]
            edited == [i \in DOMAIN item |-> more(i)]
            created == Picked(items, {k \in DOMAIN items : items[k].id = 0})
            rows == [k \in DOMAIN created |-> Row(created[k])]
<1>1. \A i : extra(i) \in Nat
  <2>1. Range(items) \subseteq BundleItem
    BY LenProperties, ElementOfSeq DEF Range
  <2>2. \A it \in BundleItem : it.fresh \in Nat
    BY DEF BundleItem
  <2>. QED
    BY <2>1, <2>2
<1>2. Len(item) \in Nat /\ DOMAIN item = 1 .. Len(item)
  BY LenProperties
<1>3. ASSUME NEW i \in DOMAIN item
      PROVE  /\ more(i) \in ItemRow
             /\ more(i).live = item[i].live
             /\ \A f \in DOMAIN item[i].files :
                   f \in DOMAIN more(i).files /\ more(i).files[f] = item[i].files[f]
  <2>1. item[i] \in ItemRow
    BY <1>2, ElementOfSeq
  <2>2. item[i].files \in Seq(BOOLEAN) /\ NewFiles(extra(i)) \in Seq(BOOLEAN)
    BY <1>1, <2>1, NewFilesSeq DEF ItemRow
  <2>. DEFINE s == item[i].files
              t == NewFiles(extra(i))
  <2>3. /\ s \o t \in Seq(BOOLEAN)
        /\ Len(s \o t) = Len(s) + Len(t)
        /\ \A f \in 1 .. Len(s) : (s \o t)[f] = s[f]
        /\ Len(s) \in Nat /\ DOMAIN s = 1 .. Len(s) /\ Len(t) \in Nat
        /\ DOMAIN (s \o t) = 1 .. Len(s \o t)
    <3>. HIDE DEF s, t
    <3>1. s \in Seq(BOOLEAN) /\ t \in Seq(BOOLEAN)
      BY <2>2 DEF s, t
    <3>. QED
      BY <3>1, ConcatProperties, LenProperties
  <2>4. more(i) = [item[i] EXCEPT !.files = s \o t]
    OBVIOUS
  <2>. HIDE DEF s, t, more
  <2>5. /\ more(i) \in ItemRow
        /\ more(i).live = item[i].live /\ more(i).files = s \o t
    BY <2>1, <2>3, <2>4 DEF ItemRow
  <2>6. s = item[i].files
    BY DEF s
  <2>. QED
    BY <2>3, <2>5, <2>6
<1>. HIDE DEF extra
<1>4. edited \in Seq(ItemRow) /\ Len(edited) = Len(item)
  <2>. HIDE DEF more
  <2>1. edited \in [1 .. Len(item) -> ItemRow]
    BY <1>2, <1>3
  <2>. QED
    BY <1>2, <2>1
<1>5. created \in Seq(BundleItem)
  BY PickedSeq
<1>6. rows \in Seq(ItemRow)
  <2>. HIDE DEF created
  <2>1. Len(created) \in Nat /\ DOMAIN created = 1 .. Len(created)
    BY <1>5, LenProperties
  <2>2. ASSUME NEW k \in 1 .. Len(created) PROVE Row(created[k]) \in ItemRow
    <3>1. created[k] \in BundleItem
      BY <1>5, ElementOfSeq
    <3>2. created[k].kind \in Range(Kinds) /\ NewFiles(created[k].fresh) \in Seq(BOOLEAN)
      BY <3>1, NewFilesSeq DEF BundleItem
    <3>. QED
      BY <3>2 DEF ItemRow
  <2>3. rows \in [1 .. Len(created) -> ItemRow]
    <3>. HIDE DEF Row
    <3>. QED
      BY <2>1, <2>2
  <2>. QED
    BY <2>1, <2>3
<1>7. WithItems(b, items) = edited \o rows
  BY DEF WithItems, extra
<1>. HIDE DEF edited, rows
<1>8. /\ edited \o rows \in Seq(ItemRow)
      /\ Len(edited \o rows) = Len(edited) + Len(rows)
      /\ Len(rows) \in Nat
      /\ \A i \in 1 .. Len(edited) : (edited \o rows)[i] = edited[i]
  <2>1. /\ edited \o rows \in Seq(ItemRow)
        /\ Len(edited \o rows) = Len(edited) + Len(rows)
        /\ \A i \in 1 .. Len(edited) + Len(rows) : (edited \o rows)[i] =
              IF i <= Len(edited) THEN edited[i] ELSE rows[i - Len(edited)]
    <3>1. edited \in Seq(ItemRow) /\ rows \in Seq(ItemRow)
      BY <1>4, <1>6
    <3>. QED
      BY <3>1, ConcatProperties, Zenon
  <2>2. Len(rows) \in Nat /\ Len(edited) \in Nat
    BY <1>4, <1>6, LenProperties
  <2>. QED
    BY <2>1, <2>2
<1>9. DOMAIN (edited \o rows) = 1 .. Len(edited \o rows)
  BY <1>8, LenProperties
<1>10. \A i \in DOMAIN item : edited[i] = more(i)
  BY DEF edited
<1>. HIDE DEF more
<1>. QED
  BY <1>2, <1>3, <1>4, <1>7, <1>8, <1>9, <1>10

LEMMA LocalItemsSeq ==
    ASSUME item \in Seq(ItemRow), NEW b \in Benefit
    PROVE  LocalItems(b) \in Seq(BundleItem)
<1>. DEFINE Local(i) == [id |-> i, kind |-> item[i].kind, fresh |-> 0,
                         files |-> {f \in DOMAIN item[i].files : item[i].files[f]}]
            all == [i \in DOMAIN item |-> Local(i)]
            I == {i \in DOMAIN item : ItemExists(b, i)}
<1>1. Len(item) \in Nat /\ DOMAIN item = 1 .. Len(item)
  BY LenProperties
<1>2. ASSUME NEW i \in 1 .. Len(item) PROVE Local(i) \in BundleItem
  <2>1. item[i] \in ItemRow
    BY ElementOfSeq
  <2>2. item[i].kind \in Range(Kinds) /\ item[i].files \in Seq(BOOLEAN)
    BY <2>1 DEF ItemRow
  <2>3. DOMAIN item[i].files = 1 .. Len(item[i].files) /\ Len(item[i].files) \in Nat
    BY <2>2, LenProperties
  <2>4. {f \in DOMAIN item[i].files : item[i].files[f]} \in SUBSET Nat
    BY <2>3
  <2>. QED
    BY <1>1, <2>2, <2>4 DEF BundleItem
<1>3. all \in Seq(BundleItem) /\ DOMAIN all = DOMAIN item
  <2>. HIDE DEF Local
  <2>1. all \in [1 .. Len(item) -> BundleItem]
    BY <1>1, <1>2
  <2>. QED
    BY <1>1, <2>1
<1>4. I \in SUBSET DOMAIN all
  BY <1>3
<1>. HIDE DEF all, I
<1>5. Picked(all, I) \in Seq(BundleItem)
  BY <1>3, <1>4, PickedSeq
<1>. QED
  BY <1>5 DEF LocalItems, all, I

LEMMA DeletionsSeq ==
    ASSUME NEW f \in FormState
    PROVE  Deletions(f) \in Seq(Deletion)
<1>. DEFINE Rows(k) == [n \in DOMAIN f.gone[k] |->
                          [op |-> "row", id |-> f.gone[k][n], file |-> 0]]
            Files(k) == [n \in DOMAIN f.goneFiles[k] |->
                          [op |-> "file", id |-> f.goneFiles[k][n][1],
                           file |-> f.goneFiles[k][n][2]]]
<1>1. ASSUME NEW k \in Range(Kinds)
      PROVE  Rows(k) \in Seq(Deletion) /\ Files(k) \in Seq(Deletion)
  <2>1. f.gone[k] \in Seq(Nat) /\ f.goneFiles[k] \in Seq(Nat \X Nat)
    BY DEF FormState
  <2>. DEFINE g == f.gone[k]
              h == f.goneFiles[k]
  <2>2. g \in Seq(Nat) /\ h \in Seq(Nat \X Nat)
    BY <2>1
  <2>. HIDE DEF g, h
  <2>3. /\ Len(g) \in Nat /\ DOMAIN g = 1 .. Len(g) /\ \A n \in 1 .. Len(g) : g[n] \in Nat
        /\ Len(h) \in Nat /\ DOMAIN h = 1 .. Len(h)
        /\ \A n \in 1 .. Len(h) : h[n] \in Nat \X Nat
    BY <2>2, LenProperties, ElementOfSeq
  <2>4. \A n \in 1 .. Len(h) : h[n][1] \in Nat /\ h[n][2] \in Nat
    BY <2>3
  <2>5. /\ [n \in DOMAIN g |-> [op |-> "row", id |-> g[n], file |-> 0]]
             \in [1 .. Len(g) -> Deletion]
        /\ [n \in DOMAIN h |-> [op |-> "file", id |-> h[n][1], file |-> h[n][2]]]
             \in [1 .. Len(h) -> Deletion]
    BY <2>3, <2>4 DEF Deletion
  <2>6. /\ [n \in DOMAIN g |-> [op |-> "row", id |-> g[n], file |-> 0]] \in Seq(Deletion)
        /\ [n \in DOMAIN h |-> [op |-> "file", id |-> h[n][1], file |-> h[n][2]]]
             \in Seq(Deletion)
    BY <2>3, <2>5
  <2>. QED
    BY <2>6 DEF g, h
<1>2. Kinds[1] \in Range(Kinds) /\ Kinds[2] \in Range(Kinds) /\ Kinds[3] \in Range(Kinds)
  BY DEF Kinds, Range
<1>3. Deletions(f) = (Rows(Kinds[1]) \o Files(Kinds[1]))
                     \o (Rows(Kinds[2]) \o Files(Kinds[2]))
                     \o (Rows(Kinds[3]) \o Files(Kinds[3]))
  BY DEF Deletions
<1>. HIDE DEF Rows, Files
<1>4. \A k \in Range(Kinds) : Rows(k) \o Files(k) \in Seq(Deletion)
  BY <1>1, ConcatProperties
<1>. QED
  BY <1>2, <1>3, <1>4, ConcatProperties

Bundle ==
    [nationwide : BOOLEAN, codes : SUBSET Place, groups : SUBSET Group,
     items : Seq(BundleItem), tree : TreeRow]

LEMMA PayloadTyped ==
    ASSUME NEW f \in FormState
    PROVE  Payload(f) \in Bundle
<1>1. /\ f.user \in User /\ f.nationwide \in BOOLEAN /\ f.codes \in SUBSET Place
      /\ f.groups \in SUBSET Group /\ f.items \in Seq(BundleItem) /\ f.tree \in TreeRow
  BY DEF FormState
<1>2. Jurisdiction(f.user) \in SUBSET Place
  <2>1. CASE f.user.scope \in NationalLevel
    BY <2>1 DEF Jurisdiction
  <2>2. CASE f.user.scope \notin NationalLevel
    <3>1. f.user.code \in Place
      BY <1>1, <2>2, BenefitAssumption
    <3>. QED
      BY <2>2, <3>1 DEF Jurisdiction
  <2>. QED
    BY <2>1, <2>2
<1>3. NoTree \in TreeRow
  BY DEF NoTree, TreeRow
<1>4. EffectiveCodes(f) \in SUBSET Place
  BY <1>1, <1>2 DEF EffectiveCodes
<1>. QED
  BY <1>1, <1>3, <1>4 DEF Payload, Bundle

StoreTyped ==
    /\ benefit \in [Benefit -> BenefitRow]
    /\ item \in Seq(ItemRow)
    /\ tree \in [Benefit -> TreeRow]
    /\ field \in SUBSET Field
    /\ job \in [Benefit -> SUBSET Applicant]

FormTyped ==
    /\ phase \in {"closed", "open", "saving", "failed"}
    /\ form \in FormState
    /\ upload # None => /\ upload \in [row : Nat, items : Seq(BundleItem)]
                       /\ upload.row \in 1 .. Len(upload.items)

\* Only the first request of a save is the bundle, and it has an id to create.
QueueTyped ==
    /\ queue \in Seq(Call) /\ checked \in BOOLEAN
    /\ queue # <<>> => Tail(queue) \in Seq(Deletion)
    /\ phase = "saving" => queue # <<>>

CanCreate ==
    phase = "saving" /\ form.id = None /\ Head(queue).op = "bundle" =>
        \E b \in Benefit : benefit[b].state = "absent"

FormInv == StoreTyped /\ FormTyped /\ QueueTyped /\ CanCreate

LEMMA BlankTyped ==
    ASSUME StoreTyped, NEW u \in User
    PROVE  Blank(u) \in FormState
<1>1. NoRows \in [Range(Kinds) -> Seq(Nat)] /\ NoRows \in [Range(Kinds) -> Seq(Nat \X Nat)]
  BY DEF NoRows
<1>2. EmptyTree \in TreeRow /\ <<>> \in Seq(BundleItem)
  BY DEF EmptyTree, TreeRow
<1>3. field \ Subfield \in SUBSET Field
  BY DEF StoreTyped
<1>. QED
  BY <1>1, <1>2, <1>3 DEF Blank, FormState

LEMMA FormInit == Init => FormInv
<1>. SUFFICES ASSUME Init PROVE FormInv
  OBVIOUS
<1>1. StoreTyped
  <2>1. PICK row \in BenefitRow, t \in Tree \cup {NoTree} :
          /\ benefit = [b \in Benefit |-> IF b \in Seeded THEN row ELSE Absent]
          /\ tree = [b \in Benefit |-> IF b \in Seeded THEN t ELSE NoTree]
    BY DEF Init
  <2>2. Absent \in BenefitRow
    BY DEF Absent, BenefitRow
  <2>3. NoTree \in TreeRow /\ Tree \subseteq TreeRow
    BY BenefitAssumption DEF NoTree, TreeRow
  <2>4. benefit \in [Benefit -> BenefitRow] /\ tree \in [Benefit -> TreeRow]
    BY <2>1, <2>2, <2>3
  <2>5. item \in Seq(ItemRow)
    <3>1. PICK b \in Seeded :
            item = <<[benefit |-> b, kind |-> Kinds[2], live |-> TRUE, files |-> <<TRUE>>]>>
      BY DEF Init
    <3>2. Kinds[2] \in Range(Kinds) /\ <<TRUE>> \in Seq(BOOLEAN) /\ b \in Benefit
      BY BenefitFormAssumption DEF Kinds, Range
    <3>3. [benefit |-> b, kind |-> Kinds[2], live |-> TRUE, files |-> <<TRUE>>] \in ItemRow
      BY <3>2 DEF ItemRow
    <3>. QED
      BY <3>1, <3>3
  <2>6. field \in SUBSET Field /\ job \in [Benefit -> SUBSET Applicant]
    BY DEF Init
  <2>. QED
    BY <2>4, <2>5, <2>6 DEF StoreTyped
<1>2. form \in FormState
  <2>1. PICK u \in User : form = [Blank(u) EXCEPT !.fields = {}]
    BY BenefitFormAssumption DEF Init
  <2>2. Blank(u) \in FormState
    BY <1>1, BlankTyped
  <2>. QED
    BY <2>1, <2>2 DEF FormState
<1>3. phase = "closed" /\ upload = None /\ queue = <<>> /\ checked = FALSE
  BY DEF Init
<1>4. FormTyped /\ CanCreate
  BY <1>2, <1>3 DEF FormTyped, CanCreate
<1>5. QueueTyped
  <2>1. queue \in Seq(Call)
    BY <1>3
  <2>2. checked \in BOOLEAN
    BY <1>3
  <2>. QED
    BY <1>3, <2>1, <2>2 DEF QueueTyped
<1>. QED
  BY <1>1, <1>4, <1>5 DEF FormInv

-----------------------------------------------------------------------------
(* Each request of a save keeps the types of what is stored *)

LEMMA SavedRow ==
    ASSUME NEW u \in User, NEW row \in BenefitRow, NEW d \in Bundle
    PROVE  /\ Saved(u, row, d) \in BenefitRow
           /\ Saved(u, row, d).state = row.state
           /\ Saved(u, row, d).nationwide = d.nationwide
           /\ Saved(u, row, d).codes = IF d.nationwide THEN {} ELSE d.codes
<1>1. OwnGroup(u) \in Group \cup {None}
  BY BenefitAssumption DEF OwnGroup
<1>2. GroupPlan(u, d.groups) \in SUBSET Group
  BY <1>1 DEF GroupPlan, Bundle
<1>3. d.nationwide \in BOOLEAN /\ d.codes \in SUBSET Place
  BY DEF Bundle
<1>. QED
  BY <1>1, <1>2, <1>3 DEF Saved, BenefitRow

LEMMA ValidReaches ==
    ASSUME NEW u \in User, NEW row \in BenefitRow, NEW d \in Bundle, ValidInput(u, d)
    PROVE  Saved(u, row, d).nationwide \/ Saved(u, row, d).codes # {}
BY SavedRow DEF ValidInput, Bundle

LEMMA CreateTyped ==
    ASSUME StoreTyped, NEW u \in User, NEW b \in Benefit, NEW d \in Bundle,
           CreateBenefitBundle(u, b, d)
    PROVE  StoreTyped'
<1>1. d.items \in Seq(BundleItem) /\ d.tree \in TreeRow
  BY DEF Bundle
<1>2. item' \in Seq(ItemRow)
  BY <1>1, WithItemsRows DEF StoreTyped, CreateBenefitBundle
<1>3. tree' \in [Benefit -> TreeRow]
  BY <1>1 DEF StoreTyped, CreateBenefitBundle
<1>4. job' \in [Benefit -> SUBSET Applicant] /\ field' \in SUBSET Field
  BY DEF StoreTyped, CreateBenefitBundle
<1>5. benefit' \in [Benefit -> BenefitRow]
  <2>1. [benefit[b] EXCEPT !.state = "live"] \in BenefitRow
    BY DEF StoreTyped, BenefitRow
  <2>2. Saved(u, [benefit[b] EXCEPT !.state = "live"], d) \in BenefitRow
    BY <2>1, SavedRow
  <2>. QED
    BY <2>2 DEF StoreTyped, CreateBenefitBundle
<1>. QED
  BY <1>2, <1>3, <1>4, <1>5 DEF StoreTyped

LEMMA EditTyped ==
    ASSUME StoreTyped, NEW u \in User, NEW b \in Benefit, NEW d \in Bundle,
           EditBenefitBundle(u, b, d)
    PROVE  StoreTyped'
<1>1. d.items \in Seq(BundleItem) /\ d.tree \in TreeRow
  BY DEF Bundle
<1>2. item' \in Seq(ItemRow)
  BY <1>1, WithItemsRows DEF StoreTyped, EditBenefitBundle
<1>3. tree' \in [Benefit -> TreeRow]
  BY <1>1 DEF StoreTyped, EditBenefitBundle
<1>4. job' \in [Benefit -> SUBSET Applicant] /\ field' \in SUBSET Field
  BY DEF StoreTyped, EditBenefitBundle
<1>5. benefit' \in [Benefit -> BenefitRow]
  <2>1. Saved(u, benefit[b], d) \in BenefitRow
    BY SavedRow DEF StoreTyped
  <2>. QED
    BY <2>1 DEF StoreTyped, EditBenefitBundle
<1>. QED
  BY <1>2, <1>3, <1>4, <1>5 DEF StoreTyped

\* Another author's form sends no tree.
LEMMA PeerFormTyped ==
    ASSUME StoreTyped, NEW u \in User, NEW b \in Benefit,
           NEW wide \in BOOLEAN, NEW codes \in SUBSET Place, NEW groups \in SUBSET Group
    PROVE  LET d == Payload(PeerForm(u, b, wide, codes, groups))
           IN d \in Bundle /\ d.tree = NoTree
<1>. DEFINE f == PeerForm(u, b, wide, codes, groups)
<1>1. Blank(u) \in FormState /\ LocalItems(b) \in Seq(BundleItem)
  BY BlankTyped, LocalItemsSeq DEF StoreTyped
<1>2. f \in FormState
  BY <1>1 DEF FormState, PeerForm
<1>3. f.id = b /\ f.tree = Blank(u).tree /\ f.original = Blank(u).original
  BY <1>1 DEF FormState, PeerForm
<1>4. Blank(u).tree = Blank(u).original
  BY DEF Blank
<1>. HIDE DEF f
<1>5. ~IncludeTree(f)
  BY <1>3, <1>4, BenefitAssumption DEF IncludeTree
<1>6. Payload(f).tree = NoTree
  BY <1>5 DEF Payload
<1>7. Payload(f) \in Bundle
  BY <1>2, PayloadTyped
<1>. QED
  BY <1>6, <1>7 DEF f

\* Another author's save changes the reach of one live benefit, to one that his
\* own authority covers, and may add what a bundle adds to the rows.
LEMMA PeerMovesTyped ==
    ASSUME StoreTyped, NEW u \in User, NEW b \in Benefit, PeerMovesBenefit(u, b)
    PROVE  /\ StoreTyped' /\ Live(b) /\ UNCHANGED <<tree, field, job, texted>>
           /\ UNCHANGED <<ui, restarted>> /\ writer'[b] = "peer"
           /\ overtaken' = (overtaken \/ (checked /\ b = form.id))
           /\ benefit'[b].state = benefit[b].state
           /\ benefit'[b].nationwide \/ benefit'[b].codes # {}
           /\ \A c \in Benefit : c # b => benefit'[c] = benefit[c] /\ writer'[c] = writer[c]
           /\ \A i \in DOMAIN item :
                 /\ item'[i].live = item[i].live
                 /\ \A f \in DOMAIN item[i].files : item'[i].files[f] = item[i].files[f]
<1>1. PICK wide \in BOOLEAN, codes \in SUBSET Place, groups \in SUBSET Group :
        LET d == Payload(PeerForm(u, b, wide, codes, groups))
        IN ValidInput(u, d) /\ EditBenefitBundle(u, b, d)
  <2>1. benefit[b].nationwide \in BOOLEAN /\ benefit[b].groups \in SUBSET Group
    BY DEF StoreTyped, BenefitRow
  <2>2. NewPlaces(u, b) \in SUBSET (SUBSET Place)
    BY DEF NewPlaces
  <2>. QED
    BY <2>1, <2>2 DEF PeerMovesBenefit
<1>. DEFINE d == Payload(PeerForm(u, b, wide, codes, groups))
<1>2. /\ ValidInput(u, d) /\ EditBenefitBundle(u, b, d)
      /\ d \in Bundle /\ d.tree = NoTree
  BY <1>1, PeerFormTyped
<1>. HIDE DEF d
<1>3. StoreTyped' /\ UNCHANGED <<tree, field, job, texted>>
  <2>1. tree' = tree
    BY <1>2 DEF EditBenefitBundle, StoreTyped
  <2>. QED
    BY <1>2, <2>1, EditTyped DEF EditBenefitBundle
<1>4. d.items \in Seq(BundleItem) /\ item' = WithItems(b, d.items)
  BY <1>2 DEF EditBenefitBundle, Bundle
<1>5. benefit' = [benefit EXCEPT ![b] = Saved(u, @, d)] /\ benefit[b] \in BenefitRow
  BY <1>2 DEF EditBenefitBundle, StoreTyped
<1>6. /\ benefit'[b] = Saved(u, benefit[b], d)
      /\ \A c \in Benefit : c # b => benefit'[c] = benefit[c]
  BY <1>5 DEF StoreTyped
<1>7. /\ Saved(u, benefit[b], d).state = benefit[b].state
      /\ Saved(u, benefit[b], d).nationwide \/ Saved(u, benefit[b], d).codes # {}
  BY <1>2, <1>5, SavedRow, ValidReaches
<1>8. \A i \in DOMAIN item :
        /\ item'[i].live = item[i].live
        /\ \A f \in DOMAIN item[i].files : item'[i].files[f] = item[i].files[f]
  BY <1>4, WithItemsRows DEF StoreTyped
<1>9. /\ Live(b) /\ UNCHANGED <<ui, restarted>> /\ writer'[b] = "peer"
      /\ \A c \in Benefit : c # b => writer'[c] = writer[c]
      /\ overtaken' = (overtaken \/ (checked /\ b = form.id))
  BY DEF PeerMovesBenefit, CanModify
<1>. QED
  BY <1>3, <1>6, <1>7, <1>8, <1>9

LEMMA DeleteItemTyped ==
    ASSUME StoreTyped, NEW i \in Nat, DeleteItem(i)
    PROVE  /\ StoreTyped'
           /\ \A j \in DOMAIN item :
                 /\ j \in DOMAIN item' /\ item'[j].files = item[j].files
                 /\ ~item[j].live => ~item'[j].live
<1>1. item \in Seq(ItemRow)
  BY DEF StoreTyped
<1>2. Len(item) \in Nat /\ DOMAIN item = 1 .. Len(item)
  BY <1>1, LenProperties
<1>3. item' \in Seq(ItemRow)
  <2>1. CASE i \in 1 .. Len(item)
    <3>1. item[i] \in ItemRow
      BY <1>1, <2>1, ElementOfSeq
    <3>3. [item[i] EXCEPT !.live = FALSE] \in ItemRow
      BY <3>1 DEF ItemRow
    <3>2. item' = [item EXCEPT ![i] = [item[i] EXCEPT !.live = FALSE]]
      BY DEF DeleteItem
    <3>. QED
      BY <1>1, <2>1, <3>2, <3>3, ExceptSeq
  <2>2. CASE i \notin 1 .. Len(item)
    <3>1. item' = item
      BY <1>1, <1>2, <2>2 DEF DeleteItem
    <3>. QED
      BY <1>1, <3>1
  <2>. QED
    BY <2>1, <2>2
<1>4. ASSUME NEW j \in DOMAIN item
      PROVE  /\ j \in DOMAIN item' /\ item'[j].files = item[j].files
             /\ ~item[j].live => ~item'[j].live
  <2>1. item[j] \in ItemRow
    BY <1>1, <1>2, ElementOfSeq
  <2>. QED
    BY <1>2, <2>1 DEF DeleteItem, ItemRow
<1>. QED
  BY <1>3, <1>4 DEF StoreTyped, DeleteItem

LEMMA DeleteFileTyped ==
    ASSUME StoreTyped, NEW i \in Nat, NEW f \in Nat, DeleteFile(i, f)
    PROVE  /\ StoreTyped'
           /\ \A j \in DOMAIN item :
                 /\ j \in DOMAIN item' /\ item'[j].live = item[j].live
                 /\ \A g \in DOMAIN item[j].files :
                       ~item[j].files[g] => ~item'[j].files[g]
<1>1. item \in Seq(ItemRow)
  BY DEF StoreTyped
<1>2. Len(item) \in Nat /\ DOMAIN item = 1 .. Len(item)
  BY <1>1, LenProperties
<1>3. ASSUME NEW j \in 1 .. Len(item)
      PROVE  /\ [item[j].files EXCEPT ![f] = FALSE] \in Seq(BOOLEAN)
             /\ item[j] \in ItemRow
  <2>1. item[j] \in ItemRow
    BY <1>1, ElementOfSeq
  <2>2. item[j].files \in Seq(BOOLEAN)
    BY <2>1 DEF ItemRow
  <2>. DEFINE s == item[j].files
  <2>3. s \in Seq(BOOLEAN)
    BY <2>2
  <2>. HIDE DEF s
  <2>4. Len(s) \in Nat /\ s \in [1 .. Len(s) -> BOOLEAN]
    BY <2>3, LenProperties
  <2>5. [s EXCEPT ![f] = FALSE] \in [1 .. Len(s) -> BOOLEAN]
    BY <2>4
  <2>6. [s EXCEPT ![f] = FALSE] \in Seq(BOOLEAN)
    BY <2>4, <2>5
  <2>. QED
    BY <2>1, <2>6 DEF s
<1>4. item' \in Seq(ItemRow)
  <2>1. CASE i \in 1 .. Len(item)
    <3>1. [item[i] EXCEPT !.files = [item[i].files EXCEPT ![f] = FALSE]] \in ItemRow
      BY <1>3, <2>1 DEF ItemRow
    <3>2. item' = [item EXCEPT ![i] =
                     [item[i] EXCEPT !.files = [item[i].files EXCEPT ![f] = FALSE]]]
      BY DEF DeleteFile
    <3>. QED
      BY <1>1, <2>1, <3>1, <3>2, ExceptSeq
  <2>2. CASE i \notin 1 .. Len(item)
    <3>1. item' = item
      BY <1>1, <1>2, <2>2 DEF DeleteFile
    <3>. QED
      BY <1>1, <3>1
  <2>. QED
    BY <2>1, <2>2
<1>5. ASSUME NEW j \in DOMAIN item
      PROVE  /\ j \in DOMAIN item' /\ item'[j].live = item[j].live
             /\ \A g \in DOMAIN item[j].files :
                   ~item[j].files[g] => ~item'[j].files[g]
  <2>1. item[j] \in ItemRow
    BY <1>2, <1>3
  <2>2. CASE i = j
    <3>1. item'[j] = [item[j] EXCEPT !.files = [item[j].files EXCEPT ![f] = FALSE]]
      BY <1>2, <2>2 DEF DeleteFile
    <3>. QED
      BY <1>2, <2>1, <3>1 DEF DeleteFile, ItemRow
  <2>3. CASE i # j
    <3>1. item'[j] = item[j]
      BY <1>2, <2>3 DEF DeleteFile
    <3>. QED
      BY <1>2, <3>1 DEF DeleteFile
  <2>. QED
    BY <2>2, <2>3
<1>. QED
  BY <1>4, <1>5 DEF StoreTyped, DeleteFile

LEMMA HeadIsCall ==
    ASSUME FormInv, phase = "saving"
    PROVE  /\ Head(queue) \in Call /\ queue # <<>>
           /\ Tail(queue) \in Seq(Deletion)
           /\ Head(queue).op \in {"bundle", "row", "file"}
           /\ Head(queue).id \in Nat /\ Head(queue).file \in Nat
<1>1. queue \in Seq(Call) /\ queue # <<>> /\ Tail(queue) \in Seq(Deletion)
  BY DEF FormInv, QueueTyped
<1>2. Head(queue) \in Call
  BY <1>1, HeadTailProperties
<1>. QED
  BY <1>1, <1>2 DEF Call

\* The four things the head of the queue can do to the store.
LEMMA EffectCases ==
    ASSUME FormInv, phase = "saving", Effect(Head(queue))
    PROVE  \/ /\ Head(queue).op = "bundle" /\ form.id = None
              /\ \E b \in Benefit : /\ benefit[b].state = "absent"
                                    /\ CreateBenefitBundle(form.user, b, Payload(form))
           \/ /\ Head(queue).op = "bundle" /\ form.id \in Benefit
              /\ EditBenefitBundle(form.user, form.id, Payload(form))
           \/ Head(queue).op = "row" /\ DeleteItem(Head(queue).id)
           \/ Head(queue).op = "file" /\ DeleteFile(Head(queue).id, Head(queue).file)
<1>. DEFINE h == Head(queue)
<1>1. h.op \in {"bundle", "row", "file"}
  BY HeadIsCall
<1>2. form.id \in Benefit \cup {None}
  BY DEF FormInv, FormTyped, FormState
<1>. HIDE DEF h
<1>3. CASE h.op = "bundle" /\ form.id = None
  <2>. DEFINE x == CHOOSE b \in Benefit : benefit[b].state = "absent"
  <2>1. x \in Benefit /\ benefit[x].state = "absent"
    BY <1>3 DEF FormInv, CanCreate, h
  <2>. HIDE DEF x
  <2>2. CreateBenefitBundle(form.user, x, Payload(form))
    BY <1>3 DEF Effect, h, x
  <2>. QED
    BY <1>3, <2>1, <2>2 DEF h
<1>4. CASE h.op = "bundle" /\ form.id # None
  BY <1>2, <1>4 DEF Effect, h
<1>5. CASE h.op = "row"
  BY <1>5 DEF Effect, h
<1>6. CASE h.op = "file"
  BY <1>6 DEF Effect, h
<1>. QED
  BY <1>1, <1>3, <1>4, <1>5, <1>6

LEMMA EffectTyped ==
    ASSUME FormInv, phase = "saving", Effect(Head(queue))
    PROVE  StoreTyped'
<1>1. StoreTyped /\ form.user \in User /\ Payload(form) \in Bundle
  BY PayloadTyped DEF FormInv, FormTyped, FormState
<1>2. Head(queue).id \in Nat /\ Head(queue).file \in Nat
  BY HeadIsCall
<1>. QED
  BY <1>1, <1>2, EffectCases, CreateTyped, EditTyped, DeleteItemTyped, DeleteFileTyped

-----------------------------------------------------------------------------
(* Every step keeps the types *)

LEMMA EditStep ==
    ASSUME FormInv, NEW new \in FormState, Edit(new)
    PROVE  FormInv'
<1>1. StoreTyped'
  BY DEF FormInv, Edit, store, StoreTyped
<1>2. FormTyped' /\ QueueTyped'
  BY DEF FormInv, FormTyped, QueueTyped, Edit
<1>3. phase # "saving" /\ phase' = phase
  BY DEF Edit, Editable
<1>4. CanCreate'
  BY <1>3 DEF CanCreate
<1>. QED
  BY <1>1, <1>2, <1>4 DEF FormInv

\* A change of the form's rows, of what they lose and of its tree.
LEMMA RemoveAtSeq ==
    ASSUME NEW S, NEW s \in Seq(S), NEW k \in DOMAIN s
    PROVE  RemoveAt(s, k) \in Seq(S)
<1>1. Len(s) \in Nat /\ DOMAIN s = 1 .. Len(s)
  BY LenProperties
<1>2. \A i \in 1 .. Len(s) : s[i] \in S
  BY ElementOfSeq
<1>3. SubSeq(s, 1, k - 1) \in Seq(S) /\ SubSeq(s, k + 1, Len(s)) \in Seq(S)
  BY <1>1, <1>2, SubSeqProperties
<1>. QED
  BY <1>3, ConcatProperties DEF RemoveAt

LEMMA RemoveItemStep ==
    ASSUME FormInv, NEW k \in DOMAIN form.items, RemoveItem(k)
    PROVE  FormInv'
<1>1. form \in FormState /\ form.items \in Seq(BundleItem)
  BY DEF FormInv, FormTyped, FormState
<1>2. RemoveAt(form.items, k) \in Seq(BundleItem)
  BY <1>1, RemoveAtSeq
<1>3. form.items[k] \in BundleItem
  BY <1>1, LenProperties, ElementOfSeq
<1>. DEFINE kind == form.items[k].kind
            id == form.items[k].id
            gone == [form.gone EXCEPT ![kind] = IF id = 0 THEN @ ELSE Append(@, id)]
            new == [form EXCEPT !.items = RemoveAt(@, k), !.gone = gone]
<1>4. kind \in Range(Kinds) /\ id \in Nat
  BY <1>3 DEF BundleItem
<1>. HIDE DEF kind, id
<1>5. gone \in [Range(Kinds) -> Seq(Nat)]
  <2>1. form.gone \in [Range(Kinds) -> Seq(Nat)]
    BY <1>1 DEF FormState
  <2>2. Append(form.gone[kind], id) \in Seq(Nat)
    BY <1>4, <2>1
  <2>. QED
    BY <1>4, <2>1, <2>2
<1>6. new \in FormState
  <2>. HIDE DEF gone
  <2>. QED
    BY <1>1, <1>2, <1>5 DEF FormState
<1>7. Edit(new)
  BY DEF RemoveItem, kind, id
<1>. HIDE DEF new
<1>. QED
  BY <1>6, <1>7, EditStep

LEMMA RemoveFileStep ==
    ASSUME FormInv, NEW k \in DOMAIN form.items, RemoveFile(k)
    PROVE  FormInv'
<1>1. form \in FormState /\ form.items \in Seq(BundleItem)
  BY DEF FormInv, FormTyped, FormState
<1>2. k \in 1 .. Len(form.items) /\ form.items[k] \in BundleItem
  BY <1>1, LenProperties, ElementOfSeq
<1>3. /\ form.items[k].kind \in Range(Kinds) /\ form.items[k].id \in Nat
      /\ form.items[k].files \in SUBSET Nat /\ form.items[k].fresh \in Nat
  BY <1>2 DEF BundleItem
<1>4. ASSUME NEW it \in BundleItem PROVE [form.items EXCEPT ![k] = it] \in Seq(BundleItem)
  BY <1>1, <1>2, ExceptSeq
<1>5. ASSUME NEW f \in form.items[k].files,
             Edit([form EXCEPT !.items[k].files = @ \ {f},
                               !.goneFiles[form.items[k].kind] = Append(@, <<form.items[k].id, f>>)])
      PROVE  FormInv'
  <2>. DEFINE items == [form.items EXCEPT ![k] = [form.items[k] EXCEPT !.files = @ \ {f}]]
              kind == form.items[k].kind
              pair == <<form.items[k].id, f>>
              gone == [form.goneFiles EXCEPT ![kind] = Append(@, pair)]
              new == [form EXCEPT !.items = items, !.goneFiles = gone]
  <2>1. items \in Seq(BundleItem)
    <3>1. [form.items[k] EXCEPT !.files = @ \ {f}] \in BundleItem
      BY <1>2, <1>3 DEF BundleItem
    <3>. QED
      BY <1>4, <3>1
  <2>2. kind \in Range(Kinds) /\ pair \in Nat \X Nat
    BY <1>3
  <2>3. Edit(new)
    <3>1. new = [form EXCEPT !.items[k].files = @ \ {f},
                             !.goneFiles[form.items[k].kind] = Append(@, <<form.items[k].id, f>>)]
      OBVIOUS
    <3>. QED
      BY <1>5, <3>1
  <2>. HIDE DEF items, kind, pair
  <2>4. gone \in [Range(Kinds) -> Seq(Nat \X Nat)]
    <3>1. form.goneFiles \in [Range(Kinds) -> Seq(Nat \X Nat)]
      BY <1>1 DEF FormState
    <3>2. Append(form.goneFiles[kind], pair) \in Seq(Nat \X Nat)
      BY <2>2, <3>1
    <3>. QED
      BY <2>2, <3>1, <3>2
  <2>. HIDE DEF gone
  <2>5. new \in FormState
    BY <1>1, <2>1, <2>4 DEF FormState
  <2>. HIDE DEF new
  <2>. QED
    BY <2>3, <2>5, EditStep
<1>6. ASSUME form.items[k].fresh > 0, Edit([form EXCEPT !.items[k].fresh = @ - 1])
      PROVE  FormInv'
  <2>. DEFINE items == [form.items EXCEPT ![k] = [form.items[k] EXCEPT !.fresh = @ - 1]]
              new == [form EXCEPT !.items = items]
  <2>1. items \in Seq(BundleItem)
    <3>1. [form.items[k] EXCEPT !.fresh = @ - 1] \in BundleItem
      BY <1>2, <1>3, <1>6 DEF BundleItem
    <3>. QED
      BY <1>4, <3>1
  <2>2. Edit(new)
    <3>1. new = [form EXCEPT !.items[k].fresh = @ - 1]
      OBVIOUS
    <3>. QED
      BY <1>6, <3>1
  <2>. HIDE DEF items
  <2>3. new \in FormState
    BY <1>1, <2>1 DEF FormState
  <2>. HIDE DEF new
  <2>. QED
    BY <2>2, <2>3, EditStep
<1>. QED
  BY <1>5, <1>6 DEF RemoveFile

LEMMA AddItemStep == FormInv /\ AddItem => FormInv'
<1>. SUFFICES ASSUME FormInv, AddItem PROVE FormInv'
  OBVIOUS
<1>1. PICK kind \in Range(Kinds) :
        Edit([form EXCEPT !.items =
                Append(@, [id |-> 0, kind |-> kind, fresh |-> 0, files |-> {}])])
  BY DEF AddItem
<1>. DEFINE it == [id |-> 0, kind |-> kind, fresh |-> 0, files |-> {}]
            new == [form EXCEPT !.items = Append(@, it)]
<1>2. form \in FormState /\ form.items \in Seq(BundleItem)
  BY DEF FormInv, FormTyped, FormState
<1>3. it \in BundleItem
  BY DEF BundleItem
<1>4. Edit(new)
  BY <1>1
<1>. HIDE DEF it
<1>5. Append(form.items, it) \in Seq(BundleItem)
  BY <1>2, <1>3
<1>6. new \in FormState
  BY <1>2, <1>5 DEF FormState
<1>. HIDE DEF new
<1>. QED
  BY <1>4, <1>6, EditStep

\* The scope, the groups and the tree.
LEMMA ScopeSteps ==
    ASSUME FormInv, SetNationwide \/ PickPlaces \/ RemovePlace \/ SetGroups \/ EditTree
    PROVE  FormInv'
<1>1. form \in FormState
  BY DEF FormInv, FormTyped
<1>2. /\ form.nationwide \in BOOLEAN /\ form.codes \in SUBSET Place
      /\ form.base \in SUBSET Place
  BY <1>1 DEF FormState
<1>3. CASE SetNationwide
  <2>1. (~form.nationwide) \in BOOLEAN
    BY <1>2
  <2>2. [form EXCEPT !.nationwide = ~@] \in FormState
    BY <1>1, <2>1 DEF FormState
  <2>. QED
    BY <1>3, <2>2, EditStep DEF SetNationwide
<1>4. CASE PickPlaces
  <2>1. PICK T \in Picks(form.user) : Edit([form EXCEPT !.codes = form.base \cup T])
    BY <1>4 DEF PickPlaces
  <2>2. T \in SUBSET Place
    BY DEF Picks
  <2>3. [form EXCEPT !.codes = form.base \cup T] \in FormState
    BY <1>1, <1>2, <2>2 DEF FormState
  <2>. QED
    BY <2>1, <2>3, EditStep
<1>5. CASE RemovePlace
  <2>1. PICK c \in form.base \cap form.codes :
          Edit([form EXCEPT !.codes = @ \ {c}, !.base = form.codes \ {c}])
    BY <1>5 DEF RemovePlace
  <2>2. [form EXCEPT !.codes = @ \ {c}, !.base = form.codes \ {c}] \in FormState
    BY <1>1, <1>2 DEF FormState
  <2>. QED
    BY <2>1, <2>2, EditStep
<1>6. CASE SetGroups
  <2>1. PICK G \in SUBSET Group : Edit([form EXCEPT !.groups = G])
    BY <1>6 DEF SetGroups
  <2>2. [form EXCEPT !.groups = G] \in FormState
    BY <1>1 DEF FormState
  <2>. QED
    BY <2>1, <2>2, EditStep
<1>7. CASE EditTree
  <2>1. PICK t \in Tree : Edit([form EXCEPT !.tree = t])
    BY <1>7 DEF EditTree
  <2>2. t \in TreeRow
    BY BenefitAssumption DEF TreeRow
  <2>3. [form EXCEPT !.tree = t] \in FormState
    BY <1>1, <2>2 DEF FormState
  <2>. QED
    BY <2>1, <2>3, EditStep
<1>. QED
  BY <1>3, <1>4, <1>5, <1>6, <1>7

LEMMA OpenStep ==
    ASSUME FormInv, NEW u \in User, OpenCreate(u) \/ \E b \in Benefit : OpenEdit(u, b)
    PROVE  FormInv'
<1>1. Blank(u) \in FormState
  BY BlankTyped DEF FormInv
<1>2. Fresh
  BY DEF OpenCreate, OpenEdit
<1>3. form' \in FormState
  <2>1. CASE OpenCreate(u)
    <3>1. OwnGroup(u) \in Group \cup {None}
      BY BenefitAssumption DEF OwnGroup
    <3>2. (u.scope \in NationalLevel) \in BOOLEAN /\ {OwnGroup(u)} \ {None} \in SUBSET Group
      BY <3>1
    <3>. QED
      BY <1>1, <2>1, <3>2 DEF OpenCreate, FormState
  <2>2. ASSUME NEW b \in Benefit, OpenEdit(u, b) PROVE form' \in FormState
    <3>1. benefit[b] \in BenefitRow
      BY DEF FormInv, StoreTyped
    <3>2. /\ benefit[b].nationwide \in BOOLEAN /\ benefit[b].codes \in SUBSET Place
          /\ benefit[b].groups \in SUBSET Group
      BY <3>1 DEF BenefitRow
    <3>. QED
      BY <1>1, <2>2, <3>2 DEF OpenEdit, FormState
  <2>. QED
    BY <2>1, <2>2
<1>4. StoreTyped'
  BY <1>2 DEF FormInv, Fresh, store, StoreTyped
<1>5. phase' = "open" /\ upload' = None /\ queue' = <<>> /\ checked' = FALSE
  BY <1>2 DEF Fresh
<1>6. FormTyped' /\ CanCreate'
  BY <1>3, <1>5 DEF FormTyped, CanCreate
<1>7. QueueTyped'
  <2>1. queue' \in Seq(Call)
    BY <1>5
  <2>2. checked' \in BOOLEAN
    BY <1>5
  <2>. QED
    BY <1>5, <2>1, <2>2 DEF QueueTyped
<1>. QED
  BY <1>4, <1>6, <1>7 DEF FormInv

LEMMA LoadStep ==
    ASSUME FormInv, NEW b \in Benefit, Load(b)
    PROVE  FormInv'
<1>1. form \in FormState /\ StoreTyped
  BY DEF FormInv, FormTyped
<1>2. FormLoaded(b) \in FormState
  <2>1. LocalItems(b) \in Seq(BundleItem)
    BY <1>1, LocalItemsSeq DEF StoreTyped
  <2>2. LoadedTree(b) \in TreeRow
    BY <1>1 DEF LoadedTree, EmptyTree, TreeRow, StoreTyped
  <2>. HIDE DEF LoadedTree
  <2>. QED
    BY <1>1, <2>1, <2>2 DEF FormLoaded, FormState
<1>3. form' \in FormState
  BY <1>1, <1>2 DEF Load
<1>4. StoreTyped'
  BY <1>1 DEF Load, store, StoreTyped
<1>5. FormTyped'
  BY <1>3 DEF FormInv, FormTyped, Load
<1>6. QueueTyped'
  BY DEF FormInv, QueueTyped, Load
<1>7. form'.id = form.id
  BY <1>1 DEF Load, FormLoaded, FormState
<1>8. CanCreate'
  BY <1>7 DEF FormInv, CanCreate, Load, store
<1>. QED
  BY <1>4, <1>5, <1>6, <1>8 DEF FormInv

LEMMA QuietSteps ==
    ASSUME FormInv,
           \/ Close \/ FinishUpload
           \/ \E k \in DOMAIN form.items : StartUpload(k)
    PROVE  FormInv'
<1>1. form \in FormState /\ form.items \in Seq(BundleItem)
  BY DEF FormInv, FormTyped, FormState
<1>2. StoreTyped'
  BY DEF FormInv, Close, FinishUpload, StartUpload, store, StoreTyped
<1>3. CASE Close
  BY <1>2, <1>3 DEF FormInv, FormTyped, QueueTyped, CanCreate, Close
<1>4. ASSUME NEW k \in DOMAIN form.items, StartUpload(k) PROVE FormInv'
  <2>1. k \in Nat /\ k \in 1 .. Len(form.items)
    BY <1>1, LenProperties
  <2>2. upload' = [row |-> k, items |-> form.items]
    BY <1>4 DEF StartUpload
  <2>3. upload' \in [row : Nat, items : Seq(BundleItem)] /\ upload'.row \in 1 .. Len(upload'.items)
    BY <1>1, <2>1, <2>2
  <2>4. phase # "saving"
    BY <1>4 DEF StartUpload, Editable
  <2>. QED
    BY <1>2, <1>4, <2>3, <2>4 DEF FormInv, FormTyped, QueueTyped, CanCreate, StartUpload
<1>5. CASE FinishUpload
  <2>. DEFINE k == upload.row
              s == upload.items
  <2>1. s \in Seq(BundleItem) /\ k \in 1 .. Len(s)
    BY <1>5 DEF FormInv, FormTyped, FinishUpload
  <2>. HIDE DEF s, k
  <2>2. s[k] \in BundleItem
    BY <2>1, ElementOfSeq
  <2>3. [s EXCEPT ![k] = [s[k] EXCEPT !.fresh = @ + 1]] \in Seq(BundleItem)
    <3>1. [s[k] EXCEPT !.fresh = @ + 1] \in BundleItem
      BY <2>2 DEF BundleItem
    <3>. QED
      BY <2>1, <3>1, ExceptSeq
  <2>4. form' \in FormState /\ form'.id = form.id
    <3>1. CASE UNCHANGED form
      BY <1>1, <3>1
    <3>2. CASE form' = [form EXCEPT !.items = [s EXCEPT ![k].fresh = @ + 1]]
      BY <1>1, <2>3, <3>2 DEF FormState
    <3>. QED
      BY <1>5, <3>1, <3>2 DEF FinishUpload, s, k
  <2>5. FormTyped'
    BY <1>5, <2>4 DEF FormInv, FormTyped, FinishUpload
  <2>6. QueueTyped' /\ CanCreate'
    BY <1>5, <2>4 DEF FormInv, QueueTyped, CanCreate, FinishUpload, store
  <2>. QED
    BY <1>2, <2>5, <2>6 DEF FormInv
<1>. QED
  BY <1>3, <1>4, <1>5

LEMMA SaveStep == FormInv /\ Save => FormInv'
<1>. SUFFICES ASSUME FormInv, Save PROVE FormInv'
  OBVIOUS
<1>. DEFINE first == [op |-> "bundle", id |-> 0, file |-> 0]
            rest == Deletions(form)
<1>1. form \in FormState
  BY DEF FormInv, FormTyped
<1>2. rest \in Seq(Deletion)
  BY <1>1, DeletionsSeq
<1>3. queue' = <<first>> \o rest
  BY DEF Save
<1>4. first \in Call /\ Deletion \subseteq Call
  BY DEF Call, Deletion
<1>. HIDE DEF first, rest
<1>5. rest \in Seq(Call) /\ <<first>> \in Seq(Call)
  BY <1>2, <1>4, SeqMonotonic
<1>6. queue' \in Seq(Call) /\ queue' # <<>>
  BY <1>3, <1>5, ConcatProperties, ConcatEqualIffEmpty
<1>7. Tail(queue') = rest
  <2>1. /\ Len(rest) \in Nat /\ Len(<<first>>) = 1
        /\ Len(<<first>> \o rest) = 1 + Len(rest)
        /\ \A i \in 1 .. 1 + Len(rest) : (<<first>> \o rest)[i] =
              IF i <= 1 THEN <<first>>[i] ELSE rest[i - 1]
    BY <1>5, ConcatProperties, LenProperties
  <2>2. /\ Tail(queue') \in Seq(Call) /\ Len(Tail(queue')) = Len(queue') - 1
        /\ \A i \in 1 .. Len(Tail(queue')) : Tail(queue')[i] = queue'[i + 1]
    BY <1>6, HeadTailProperties
  <2>3. Len(Tail(queue')) = Len(rest)
    BY <1>3, <2>1, <2>2
  <2>4. \A i \in 1 .. Len(rest) : Tail(queue')[i] = rest[i]
    BY <1>3, <2>1, <2>2, <2>3
  <2>. QED
    BY <1>5, <2>2, <2>3, <2>4, SeqEqual
<1>8. QueueTyped'
  BY <1>2, <1>6, <1>7 DEF Save, QueueTyped
<1>9. StoreTyped' /\ FormTyped'
  BY DEF FormInv, FormTyped, StoreTyped, Save, store
<1>10. CanCreate'
  BY DEF Save, CanCreate, store
<1>. QED
  BY <1>8, <1>9, <1>10 DEF FormInv

LEMMA FailTyped ==
    ASSUME FormInv, StoreTyped', Fail
    PROVE  FormInv'
<1>1. phase' = "failed" /\ queue' = <<>> /\ checked' = FALSE /\ UNCHANGED <<form, upload>>
  BY DEF Fail
<1>2. FormTyped' /\ CanCreate'
  BY <1>1 DEF FormInv, FormTyped, CanCreate
<1>3. QueueTyped'
  <2>1. queue' \in Seq(Call)
    BY <1>1
  <2>2. checked' \in BOOLEAN
    BY <1>1
  <2>. QED
    BY <1>1, <2>1, <2>2 DEF QueueTyped
<1>. QED
  BY <1>2, <1>3 DEF FormInv

\* What follows the bundle in the queue is no bundle.
LEMMA AnsweredTyped ==
    ASSUME FormInv, StoreTyped', phase = "saving", Answered
    PROVE  /\ FormInv'
           /\ phase' = "saving" => Head(queue').op # "bundle"
<1>1. /\ queue \in Seq(Call) /\ queue # <<>> /\ Tail(queue) \in Seq(Deletion)
  BY DEF FormInv, QueueTyped
<1>2. queue' = Tail(queue) /\ checked' = FALSE /\ UNCHANGED <<form, upload>>
  BY DEF Answered
<1>3. queue' \in Seq(Call) /\ Len(queue') = Len(queue) - 1 /\ Len(queue) \in Nat
  BY <1>1, <1>2, HeadTailProperties, LenProperties
<1>4. phase' \in {"closed", "saving"} /\ (phase' = "saving" => queue' # <<>>)
  <2>1. CASE Len(queue) = 1
    BY <2>1 DEF Answered
  <2>2. CASE Len(queue) # 1
    <3>1. phase' = "saving"
      BY <2>2 DEF Answered
    <3>2. Len(queue') # 0
      BY <1>3, <2>2
    <3>3. queue' # <<>>
      BY <3>2
    <3>. QED
      BY <3>1, <3>3
  <2>. QED
    BY <2>1, <2>2
<1>5. queue' # <<>> => Head(queue') \in Deletion /\ Tail(queue') \in Seq(Deletion)
  BY <1>1, <1>2, HeadTailProperties
<1>6. phase' = "saving" => Head(queue').op # "bundle"
  BY <1>4, <1>5 DEF Deletion
<1>7. QueueTyped'
  <2>1. checked' \in BOOLEAN
    BY <1>2
  <2>. QED
    BY <1>3, <1>4, <1>5, <2>1 DEF QueueTyped
<1>8. FormTyped' /\ CanCreate'
  BY <1>2, <1>4, <1>6 DEF FormInv, FormTyped, CanCreate
<1>. QED
  BY <1>6, <1>7, <1>8 DEF FormInv

LEMMA ServerSteps ==
    ASSUME FormInv, Check \/ Apply \/ RolledBack
    PROVE  FormInv'
<1>1. CASE Check
  <2>1. StoreTyped'
    BY <1>1 DEF FormInv, Check, store, StoreTyped
  <2>2. CASE Fail
    BY <2>1, <2>2, FailTyped
  <2>3. CASE ~Fail
    <3>1. checked' = TRUE /\ UNCHANGED <<phase, form, upload, queue>> /\ UNCHANGED store
      BY <1>1, <2>3 DEF Check
    <3>2. checked' \in BOOLEAN
      BY <3>1
    <3>3. QueueTyped'
      BY <3>1, <3>2 DEF FormInv, QueueTyped
    <3>. QED
      BY <2>1, <3>1, <3>3 DEF FormInv, FormTyped, CanCreate, store
  <2>. QED
    BY <2>2, <2>3
<1>2. CASE Apply
  <2>1. phase = "saving" /\ StoreTyped'
    BY <1>2, EffectTyped DEF Apply
  <2>. QED
    BY <1>2, <2>1, FailTyped, AnsweredTyped DEF Apply
<1>3. CASE RolledBack
  <2>1. StoreTyped'
    BY <1>3 DEF FormInv, RolledBack, store, StoreTyped
  <2>. QED
    BY <1>3, <2>1, FailTyped DEF RolledBack
<1>. QED
  BY <1>1, <1>2, <1>3

LEMMA PeerSteps ==
    ASSUME FormInv,
           \/ \E b \in Benefit : PeerDeletesBenefit(b) \/ Announce(b)
           \/ \E u \in Peer, b \in Benefit : PeerMovesBenefit(u, b)
           \/ \E f \in Field : PeerRemovesField(f)
           \/ ServerRestart
    PROVE  FormInv'
<1>1. StoreTyped
  BY DEF FormInv
<1>2. UNCHANGED ui
  BY DEF PeerDeletesBenefit, PeerMovesBenefit, Announce, PeerRemovesField, ServerRestart
<1>3. FormTyped' /\ QueueTyped'
  BY <1>2 DEF FormInv, FormTyped, QueueTyped, ui
<1>4. StoreTyped' /\ \A b \in Benefit : benefit[b].state = "absent" => benefit'[b].state = "absent"
  <2>1. ASSUME NEW b \in Benefit, PeerDeletesBenefit(b)
        PROVE  /\ StoreTyped'
               /\ \A c \in Benefit : benefit[c].state = "absent" => benefit'[c].state = "absent"
    <3>1. benefit' = [benefit EXCEPT ![b] =
                        [benefit[b] EXCEPT !.state = "deleted", !.codes = {}, !.groups = {}]]
      BY <2>1 DEF PeerDeletesBenefit, DeleteBenefit
    <3>2. benefit[b] \in BenefitRow /\ benefit[b].state = "live"
      BY <1>1, <2>1 DEF PeerDeletesBenefit, Live, StoreTyped
    <3>3. [benefit[b] EXCEPT !.state = "deleted", !.codes = {}, !.groups = {}] \in BenefitRow
      BY <3>2 DEF BenefitRow
    <3>4. benefit' \in [Benefit -> BenefitRow]
      BY <1>1, <3>1, <3>3 DEF StoreTyped
    <3>5. \A c \in Benefit : benefit[c].state = "absent" => benefit'[c].state = "absent"
      BY <1>1, <3>1, <3>2 DEF StoreTyped
    <3>. QED
      BY <1>1, <2>1, <3>4, <3>5 DEF PeerDeletesBenefit, DeleteBenefit, StoreTyped
  <2>2. ASSUME NEW f \in Field, PeerRemovesField(f)
        PROVE  StoreTyped' /\ benefit' = benefit
    <3>1. \A b \in Benefit : Unbound(tree[b], f) \in TreeRow
      BY <1>1 DEF StoreTyped, TreeRow, Unbound
    <3>. QED
      BY <1>1, <2>2, <3>1 DEF PeerRemovesField, RemoveField, StoreTyped
  <2>3. ASSUME NEW b \in Benefit, Announce(b)
        PROVE  StoreTyped' /\ benefit' = benefit
    BY <1>1, <2>3 DEF Announce, NotifyNext, StoreTyped
  <2>4. ASSUME ServerRestart
        PROVE  StoreTyped' /\ benefit' = benefit
    BY <1>1, <2>4 DEF ServerRestart, Restart, StoreTyped
  <2>5. ASSUME NEW u \in Peer, NEW b \in Benefit, PeerMovesBenefit(u, b)
        PROVE  /\ StoreTyped'
               /\ \A c \in Benefit : benefit[c].state = "absent" => benefit'[c].state = "absent"
    <3>1. u \in User
      BY BenefitFormAssumption
    <3>. QED
      BY <1>1, <2>5, <3>1, PeerMovesTyped
  <2>. QED
    BY <2>1, <2>2, <2>3, <2>4, <2>5
<1>5. CanCreate'
  BY <1>2, <1>4 DEF FormInv, CanCreate, ui
<1>. QED
  BY <1>3, <1>4, <1>5 DEF FormInv

LEMMA FormStep == FormInv /\ [Next]_vars => FormInv'
<1>. SUFFICES ASSUME FormInv, [Next]_vars PROVE FormInv'
  OBVIOUS
<1>1. CASE \E u \in User : OpenCreate(u) \/ \E b \in Benefit : OpenEdit(u, b)
  BY <1>1, OpenStep
<1>2. CASE \E b \in Benefit : Load(b)
  BY <1>2, LoadStep
<1>3. CASE \/ \E b \in Benefit : PeerDeletesBenefit(b) \/ Announce(b)
           \/ \E u \in Peer, b \in Benefit : PeerMovesBenefit(u, b)
           \/ \E f \in Field : PeerRemovesField(f)
           \/ ServerRestart
  BY <1>3, PeerSteps
<1>4. CASE SetNationwide \/ PickPlaces \/ RemovePlace \/ SetGroups \/ EditTree
  BY <1>4, ScopeSteps
<1>5. CASE AddItem
  BY <1>5, AddItemStep
<1>6. CASE \E k \in DOMAIN form.items : RemoveItem(k) \/ RemoveFile(k)
  BY <1>6, RemoveItemStep, RemoveFileStep
<1>7. CASE Close \/ FinishUpload \/ \E k \in DOMAIN form.items : StartUpload(k)
  BY <1>7, QuietSteps
<1>8. CASE Save
  BY <1>8, SaveStep
<1>9. CASE Check \/ Apply \/ RolledBack
  BY <1>9, ServerSteps
<1>10. CASE UNCHANGED vars
  BY <1>10 DEF vars, store, ui, FormInv, StoreTyped, FormTyped, QueueTyped, CanCreate
<1>. QED
  BY <1>1, <1>2, <1>3, <1>4, <1>5, <1>6, <1>7, <1>8, <1>9, <1>10 DEF Next

\* What writes to the store: a request of the save, and everybody else.
LEMMA WhoWrites ==
    ASSUME Next
    PROVE  \/ Apply \/ ServerRestart \/ UNCHANGED <<store, restarted, writer>>
           \/ \E b \in Benefit : Announce(b) \/ PeerDeletesBenefit(b)
           \/ \E u \in User, b \in Benefit : PeerMovesBenefit(u, b)
           \/ \E f \in Field : PeerRemovesField(f)
<1>1. ASSUME NEW u \in User, OpenCreate(u) \/ \E b \in Benefit : OpenEdit(u, b)
      PROVE  UNCHANGED <<store, restarted, writer>>
  BY <1>1 DEF OpenCreate, OpenEdit, Fresh, history
<1>2. ASSUME NEW b \in Benefit, Load(b)
      PROVE  UNCHANGED <<store, restarted, writer>>
  BY <1>2 DEF Load, history
<1>3. CASE SetNationwide \/ PickPlaces \/ RemovePlace \/ SetGroups \/ EditTree \/ AddItem
  BY <1>3 DEF SetNationwide, PickPlaces, RemovePlace, SetGroups, EditTree, AddItem, Edit, history
<1>4. ASSUME NEW k \in DOMAIN form.items, RemoveItem(k) \/ RemoveFile(k) \/ StartUpload(k)
      PROVE  UNCHANGED <<store, restarted, writer>>
  BY <1>4 DEF RemoveItem, RemoveFile, StartUpload, Edit, history
<1>5. CASE FinishUpload \/ Close \/ Save \/ Check \/ RolledBack
  BY <1>5 DEF FinishUpload, Close, Save, Check, Fail, RolledBack, history
<1>. QED
  BY <1>1, <1>2, <1>3, <1>4, <1>5, BenefitFormAssumption DEF Next

LEMMA FormTypeCorrect == Spec => []FormInv
BY FormInit, FormStep, PTL DEF Spec

-----------------------------------------------------------------------------
(* What is deleted stays deleted *)

\* Neither a save in flight, nor anything later, brings back a benefit, a row or
\* a file: every update names its row by its id, and none of them revives one.
THEOREM DeletedRemainsDeleted == Spec => DeletedStaysDeleted
<1>. DEFINE Stay ==
       /\ \A b \in Benefit : benefit[b].state = "deleted" => benefit'[b].state = "deleted"
       /\ \A i \in DOMAIN item :
             /\ ~item[i].live => ~item'[i].live
             /\ \A f \in DOMAIN item[i].files : ~item[i].files[f] => ~item'[i].files[f]
<1>1. ASSUME FormInv, Next PROVE Stay
  <2>1. StoreTyped
    BY <1>1 DEF FormInv
  <2>2. CASE \E b \in Benefit : PeerDeletesBenefit(b)
    <3>1. PICK b \in Benefit : PeerDeletesBenefit(b)
      BY <2>2
    <3>. QED
      BY <2>1, <3>1 DEF PeerDeletesBenefit, DeleteBenefit, StoreTyped, BenefitRow
  <2>3. CASE Apply
    <3>1. form.user \in User /\ Payload(form) \in Bundle /\ phase = "saving"
      BY <1>1, <2>3, PayloadTyped DEF FormInv, FormTyped, FormState, Apply
    <3>2. Effect(Head(queue))
      BY <2>3 DEF Apply
    <3>3. Payload(form).items \in Seq(BundleItem)
      BY <3>1 DEF Bundle
    <3>4. ASSUME NEW b \in Benefit, benefit[b].state = "absent",
                 CreateBenefitBundle(form.user, b, Payload(form))
          PROVE  Stay
      <4>1. item' = WithItems(b, Payload(form).items)
        BY <3>4 DEF CreateBenefitBundle
      <4>2. benefit' = [benefit EXCEPT
                          ![b] = Saved(form.user, [@ EXCEPT !.state = "live"], Payload(form))]
        BY <3>4 DEF CreateBenefitBundle
      <4>3. \A c \in Benefit : benefit[c].state = "deleted" => benefit'[c].state = "deleted"
        BY <2>1, <3>4, <4>2 DEF StoreTyped
      <4>. QED
        BY <2>1, <3>3, <4>1, <4>3, WithItemsRows DEF StoreTyped
    <3>5. ASSUME NEW b \in Benefit, EditBenefitBundle(form.user, b, Payload(form))
          PROVE  Stay
      <4>1. item' = WithItems(b, Payload(form).items)
        BY <3>5 DEF EditBenefitBundle
      <4>2. benefit' = [benefit EXCEPT ![b] = Saved(form.user, @, Payload(form))]
        BY <3>5 DEF EditBenefitBundle
      <4>3. Saved(form.user, benefit[b], Payload(form)).state = benefit[b].state
        BY <2>1, <3>1, SavedRow DEF StoreTyped
      <4>4. \A c \in Benefit : benefit[c].state = "deleted" => benefit'[c].state = "deleted"
        BY <2>1, <4>2, <4>3 DEF StoreTyped
      <4>. QED
        BY <2>1, <3>3, <4>1, <4>4, WithItemsRows DEF StoreTyped
    <3>6. Head(queue).id \in Nat /\ Head(queue).file \in Nat
      BY <1>1, <3>1, HeadIsCall
    <3>7. ASSUME DeleteItem(Head(queue).id) PROVE Stay
      BY <2>1, <3>6, <3>7, DeleteItemTyped DEF DeleteItem
    <3>8. ASSUME DeleteFile(Head(queue).id, Head(queue).file) PROVE Stay
      BY <2>1, <3>6, <3>8, DeleteFileTyped DEF DeleteFile
    <3>. QED
      BY <1>1, <3>1, <3>2, <3>4, <3>5, <3>7, <3>8, EffectCases
  <2>4. CASE \E u \in User, b \in Benefit : PeerMovesBenefit(u, b)
    <3>1. PICK u \in User, b \in Benefit : PeerMovesBenefit(u, b)
      BY <2>4
    <3>2. \A c \in Benefit : benefit'[c].state = benefit[c].state
      BY <2>1, <3>1, PeerMovesTyped
    <3>. QED
      BY <2>1, <3>1, <3>2, PeerMovesTyped
  <2>5. CASE UNCHANGED <<benefit, item>>
    BY <2>5
  <2>. QED
    BY <1>1, <2>2, <2>3, <2>4, <2>5, WhoWrites
    DEF store, ServerRestart, Restart, Announce, NotifyNext, PeerRemovesField, RemoveField
<1>2. ASSUME FormInv, [Next]_vars PROVE [Stay]_vars
  BY <1>1, <1>2
<1>. QED
  BY <1>2, FormTypeCorrect, PTL DEF Spec, DeletedStaysDeleted

-----------------------------------------------------------------------------
(* Conditions are on fields that can be answered *)

\* The form offers, and holds conditions on, fields that are there still.
FormCurrent ==
    phase # "closed" =>
        /\ form.fields \subseteq field \ Subfield
        /\ form.tree.leaves \subseteq field

TreesCurrent == \A b \in Benefit : tree[b].leaves \subseteq field \ Subfield

AnswerableInv == FormInv /\ FormCurrent /\ TreesCurrent

LEMMA AnswerableInit == Init => AnswerableInv
<1>. SUFFICES ASSUME Init PROVE AnswerableInv
  OBVIOUS
<1>1. FormInv
  BY FormInit
<1>2. FormCurrent
  BY DEF Init, FormCurrent
<1>3. TreesCurrent
  <2>1. PICK t \in Tree \cup {NoTree} :
          /\ t.leaves \cap Subfield = {}
          /\ tree = [b \in Benefit |-> IF b \in Seeded THEN t ELSE NoTree]
    BY DEF Init
  <2>2. t.leaves \subseteq Field /\ NoTree.leaves = {}
    BY BenefitAssumption DEF NoTree
  <2>3. field = Field
    BY DEF Init
  <2>. QED
    BY <2>1, <2>2, <2>3 DEF TreesCurrent
<1>. QED
  BY <1>1, <1>2, <1>3 DEF AnswerableInv

LEMMA AnswerableStep ==
    ASSUME QuietFields = TRUE, AnswerableInv, [Next]_vars
    PROVE  AnswerableInv'
<1>1. FormInv /\ FormInv'
  BY FormStep DEF AnswerableInv
<1>2. form \in FormState /\ StoreTyped
  BY <1>1 DEF FormInv, FormTyped
<1>3. CASE \E u \in User : OpenCreate(u) \/ \E b \in Benefit : OpenEdit(u, b)
  <2>1. PICK u \in User : OpenCreate(u) \/ \E b \in Benefit : OpenEdit(u, b)
    BY <1>3
  <2>2. Blank(u) \in FormState /\ Blank(u).fields = field \ Subfield /\ Blank(u).tree = EmptyTree
    BY <1>2, BlankTyped DEF Blank
  <2>3. form'.fields = field \ Subfield /\ form'.tree.leaves = {}
    <3>1. CASE OpenCreate(u)
      <4>1. form'.fields = field \ Subfield /\ form'.tree = EmptyTree
        BY <2>2, <3>1 DEF OpenCreate, FormState
      <4>. QED
        BY <4>1 DEF EmptyTree
    <3>2. CASE \E b \in Benefit : OpenEdit(u, b)
      <4>1. form'.fields = field \ Subfield /\ form'.tree = EmptyTree
        BY <2>2, <3>2 DEF OpenEdit, FormState
      <4>. QED
        BY <4>1 DEF EmptyTree
    <3>. QED
      BY <2>1, <3>1, <3>2
  <2>4. UNCHANGED store
    BY <2>1 DEF OpenCreate, OpenEdit, Fresh
  <2>. QED
    BY <1>1, <2>3, <2>4 DEF AnswerableInv, FormCurrent, TreesCurrent, store
<1>4. CASE \E b \in Benefit : Load(b)
  <2>1. PICK b \in Benefit : Load(b)
    BY <1>4
  <2>2. LoadedTree(b).leaves \subseteq field
    BY DEF LoadedTree, EmptyTree, AnswerableInv, TreesCurrent
  <2>3. FormLoaded(b).fields = form.fields /\ FormLoaded(b).tree = LoadedTree(b)
    BY <1>2 DEF FormLoaded, FormState
  <2>4. UNCHANGED store /\ phase' = phase
    BY <2>1 DEF Load
  <2>5. FormCurrent'
    BY <2>1, <2>2, <2>3, <2>4 DEF Load, AnswerableInv, FormCurrent, store
  <2>. QED
    BY <1>1, <2>4, <2>5 DEF AnswerableInv, TreesCurrent, store
<1>5. CASE \E f \in Field : PeerRemovesField(f)
  <2>1. PICK f \in Field : PeerRemovesField(f)
    BY <1>5
  <2>2. phase = "closed" /\ phase' = "closed"
    BY <2>1 DEF PeerRemovesField, ui
  <2>3. \A b \in Benefit : tree'[b].leaves = tree[b].leaves \ {f}
    BY <1>2, <2>1 DEF PeerRemovesField, RemoveField, Unbound, StoreTyped, TreeRow
  <2>4. field' = field \ {f}
    BY <2>1 DEF PeerRemovesField, RemoveField
  <2>. QED
    BY <1>1, <2>2, <2>3, <2>4 DEF AnswerableInv, FormCurrent, TreesCurrent
<1>6. CASE Apply
  <2>1. /\ form.user \in User /\ Payload(form) \in Bundle /\ phase = "saving"
        /\ Effect(Head(queue))
    BY <1>1, <1>6, PayloadTyped DEF FormInv, FormTyped, FormState, Apply
  <2>2. form' = form
    BY <1>6 DEF Apply, Answered, Fail
  <2>3. Payload(form).tree.leaves \subseteq field
    <3>1. Payload(form).tree = IF IncludeTree(form) THEN form.tree ELSE NoTree
      BY DEF Payload
    <3>. QED
      BY <2>1, <3>1 DEF NoTree, AnswerableInv, FormCurrent
  <2>4. ASSUME NEW b \in Benefit, CreateBenefitBundle(form.user, b, Payload(form))
        PROVE  field' = field /\ TreesCurrent'
    BY <1>2, <2>3, <2>4
    DEF CreateBenefitBundle, CanBuildTree, AnswerableInv, TreesCurrent, StoreTyped
  <2>5. ASSUME NEW b \in Benefit, EditBenefitBundle(form.user, b, Payload(form))
        PROVE  field' = field /\ TreesCurrent'
    BY <1>2, <2>3, <2>5
    DEF EditBenefitBundle, CanBuildTree, AnswerableInv, TreesCurrent, StoreTyped
  <2>6. ASSUME DeleteItem(Head(queue).id) \/ DeleteFile(Head(queue).id, Head(queue).file)
        PROVE  field' = field /\ TreesCurrent'
    BY <2>6 DEF DeleteItem, DeleteFile, AnswerableInv, TreesCurrent
  <2>7. field' = field /\ TreesCurrent'
    BY <1>1, <2>1, <2>4, <2>5, <2>6, EffectCases
  <2>. QED
    BY <1>1, <2>1, <2>2, <2>7 DEF AnswerableInv, FormCurrent
<1>7. CASE EditTree
  <2>1. PICK t \in Tree : t.leaves \subseteq form.fields /\ Edit([form EXCEPT !.tree = t])
    BY <1>7 DEF EditTree
  <2>2. form'.tree = t /\ form'.fields = form.fields /\ phase' = phase /\ UNCHANGED store
    BY <1>2, <2>1 DEF Edit, FormState
  <2>3. FormCurrent /\ TreesCurrent
    BY DEF AnswerableInv
  <2>4. field' = field /\ tree' = tree
    BY <2>2 DEF store
  <2>5. TreesCurrent'
    BY <2>3, <2>4 DEF TreesCurrent
  <2>6. FormCurrent'
    <3>1. SUFFICES ASSUME phase' # "closed"
                   PROVE  form'.fields \subseteq field' \ Subfield /\ form'.tree.leaves \subseteq field'
      BY DEF FormCurrent
    <3>2. form.fields \subseteq field \ Subfield
      BY <2>2, <2>3, <3>1 DEF FormCurrent
    <3>3. t.leaves \subseteq field
      BY <2>1, <3>2
    <3>4. form'.fields = form.fields /\ form'.tree.leaves = t.leaves
      BY <2>2
    <3>5. field' \ Subfield = field \ Subfield
      BY <2>4
    <3>. QED
      BY <2>4, <3>2, <3>3, <3>4, <3>5
  <2>. QED
    BY <1>1, <2>5, <2>6 DEF AnswerableInv
<1>8. CASE \/ SetNationwide \/ PickPlaces \/ RemovePlace \/ SetGroups \/ AddItem
           \/ \E k \in DOMAIN form.items : RemoveItem(k) \/ RemoveFile(k)
  <2>1. form'.tree = form.tree /\ form'.fields = form.fields
    <3>1. CASE SetNationwide \/ SetGroups \/ AddItem
      BY <1>2, <3>1 DEF SetNationwide, SetGroups, AddItem, Edit, FormState
    <3>2. CASE PickPlaces \/ RemovePlace
      BY <1>2, <3>2 DEF PickPlaces, RemovePlace, Edit, FormState
    <3>3. ASSUME NEW k, RemoveItem(k) PROVE form'.tree = form.tree /\ form'.fields = form.fields
      BY <1>2, <3>3 DEF RemoveItem, Edit, FormState
    <3>4. ASSUME NEW k, RemoveFile(k) PROVE form'.tree = form.tree /\ form'.fields = form.fields
      BY <1>2, <3>4 DEF RemoveFile, Edit, FormState
    <3>. QED
      BY <1>8, <3>1, <3>2, <3>3, <3>4
  <2>2. phase' = phase /\ UNCHANGED store
    BY <1>8 DEF SetNationwide, PickPlaces, RemovePlace, SetGroups, AddItem, RemoveItem,
         RemoveFile, Edit
  <2>. QED
    BY <1>1, <2>1, <2>2 DEF AnswerableInv, FormCurrent, TreesCurrent, store
<1>9. CASE FinishUpload
  <2>1. form'.tree = form.tree /\ form'.fields = form.fields /\ phase' = phase /\ UNCHANGED store
    BY <1>2, <1>9 DEF FinishUpload, FormState
  <2>. QED
    BY <1>1, <2>1 DEF AnswerableInv, FormCurrent, TreesCurrent, store
<1>10. CASE \/ Close \/ Save \/ Check \/ RolledBack \/ ServerRestart \/ UNCHANGED vars
            \/ \E k \in DOMAIN form.items : StartUpload(k)
            \/ \E b \in Benefit : PeerDeletesBenefit(b) \/ Announce(b)
  <2>1. UNCHANGED <<form, field, tree>>
    BY <1>10 DEF Close, Save, Check, Fail, RolledBack, ServerRestart, Restart, StartUpload,
         PeerDeletesBenefit, DeleteBenefit, Announce, NotifyNext, ui, store, vars
  <2>2. phase' # "closed" => phase # "closed"
    BY <1>10 DEF Close, Save, Editable, Check, Fail, RolledBack, ServerRestart, StartUpload,
         PeerDeletesBenefit, Announce, ui, vars
  <2>. QED
    BY <1>1, <2>1, <2>2 DEF AnswerableInv, FormCurrent, TreesCurrent
<1>11. CASE \E u \in Peer, b \in Benefit : PeerMovesBenefit(u, b)
  <2>1. UNCHANGED <<form, field, tree, phase>>
    BY <1>2, <1>11, BenefitFormAssumption, PeerMovesTyped DEF ui
  <2>. QED
    BY <1>1, <2>1 DEF AnswerableInv, FormCurrent, TreesCurrent
<1>. QED
  BY <1>3, <1>4, <1>5, <1>6, <1>7, <1>8, <1>9, <1>10, <1>11 DEF Next

\* With no field deleted while a form is open, every condition of a live benefit is
\* on a field that exists and that has an answer of its own.
THEOREM LeavesStayAnswerable ==
    ASSUME QuietFields = TRUE
    PROVE  Spec => []LeavesAnswerable
<1>1. AnswerableInv => LeavesAnswerable
  BY DEF AnswerableInv, TreesCurrent, LeavesAnswerable
<1>. QED
  BY <1>1, AnswerableInit, AnswerableStep, PTL DEF Spec

-----------------------------------------------------------------------------
(* An announcement forgets nobody *)

\* Who fails nothing and may live anywhere.
Qualifies(a) == Fails[a] = {} /\ Residence[a] = None

\* While no field is gone, no tree is an empty ANY, which nobody passes.
NoEmptyAny(t) == t.op = "ANY" => t.leaves # {}

TreesPassable ==
    field = Field =>
        (\A b \in Benefit : NoEmptyAny(tree[b])) /\ NoEmptyAny(form.tree)

\* A benefit is announced to an applicant once, after it is there.
ToldOnce ==
    \A b \in Benefit, a \in Applicant :
        benefit[b].state = "absent" \/ a \in job[b] => <<b, a>> \notin texted

\* Whose turn has come has been told as he should be.
Served(b, a) ==
    /\ writer[b] = "created" => (<<b, a>> \in texted) = ~Excluded(a, b)
    /\ Qualifies(a) => <<b, a>> \in texted

TellingInv ==
    /\ FormInv /\ TreesPassable /\ ToldOnce
    /\ \A b \in Benefit \ Seeded : (Live(b) /\ ~restarted /\ field = Field) =>
         \A a \in Applicant \ Unreachable : a \in job[b] \/ Served(b, a)

LEMMA TellingInit ==
    ASSUME \A t \in Tree : NoEmptyAny(t)
    PROVE  Init => TellingInv
<1>. SUFFICES ASSUME Init PROVE TellingInv
  OBVIOUS
<1>1. FormInv
  BY FormInit
<1>2. TreesPassable
  <2>1. PICK t \in Tree \cup {NoTree} :
          tree = [b \in Benefit |-> IF b \in Seeded THEN t ELSE NoTree]
    BY DEF Init
  <2>2. NoEmptyAny(NoTree) /\ NoEmptyAny(EmptyTree)
    BY DEF NoEmptyAny, NoTree, EmptyTree
  <2>3. form.tree = EmptyTree
    BY DEF Init, Blank
  <2>. QED
    BY <2>1, <2>2, <2>3 DEF TreesPassable
<1>3. \A b \in Benefit \ Seeded : ~Live(b)
  <2>1. PICK row \in BenefitRow :
          benefit = [b \in Benefit |-> IF b \in Seeded THEN row ELSE Absent]
    BY DEF Init
  <2>. QED
    BY <2>1 DEF Live, Absent
<1>4. ToldOnce
  BY DEF Init, ToldOnce
<1>. QED
  BY <1>1, <1>2, <1>3, <1>4 DEF TellingInv

LEMMA PassableStep ==
    ASSUME \A t \in Tree : NoEmptyAny(t), FormInv, TreesPassable, [Next]_vars
    PROVE  TreesPassable'
<1>1. form \in FormState /\ StoreTyped
  BY DEF FormInv, FormTyped
<1>2. NoEmptyAny(NoTree) /\ NoEmptyAny(EmptyTree)
  BY DEF NoEmptyAny, NoTree, EmptyTree
<1>3. CASE \E u \in User : OpenCreate(u) \/ \E b \in Benefit : OpenEdit(u, b)
  <2>1. PICK u \in User : OpenCreate(u) \/ \E b \in Benefit : OpenEdit(u, b)
    BY <1>3
  <2>2. Blank(u) \in FormState /\ Blank(u).tree = EmptyTree
    BY <1>1, BlankTyped DEF Blank
  <2>3. form'.tree = EmptyTree
    BY <2>1, <2>2 DEF OpenCreate, OpenEdit, FormState
  <2>4. UNCHANGED store
    BY <2>1 DEF OpenCreate, OpenEdit, Fresh
  <2>. QED
    BY <1>2, <2>3, <2>4 DEF TreesPassable, store
<1>4. CASE \E b \in Benefit : Load(b)
  <2>1. PICK b \in Benefit : Load(b)
    BY <1>4
  <2>2. FormLoaded(b).tree = LoadedTree(b)
    BY <1>1 DEF FormLoaded, FormState
  <2>3. UNCHANGED store
    BY <2>1 DEF Load
  <2>. QED
    BY <1>2, <2>1, <2>2, <2>3 DEF Load, LoadedTree, TreesPassable, store
<1>5. CASE \E f \in Field : PeerRemovesField(f)
  BY <1>1, <1>5 DEF PeerRemovesField, RemoveField, StoreTyped, TreesPassable
<1>6. CASE Apply
  <2>1. FormInv /\ phase = "saving" /\ Effect(Head(queue)) /\ UNCHANGED form
    BY <1>6 DEF Apply, Answered, Fail
  <2>2. Payload(form).tree = NoTree \/ Payload(form).tree = form.tree
    BY DEF Payload
  <2>. DEFINE d == Payload(form)
  <2>3. field' = field /\ (\A b \in Benefit :
          tree'[b] = tree[b] \/ tree'[b] = NoTree \/ tree'[b] = form.tree)
    <3>1. ASSUME NEW b \in Benefit, CreateBenefitBundle(form.user, b, d)
          PROVE  field' = field /\ \A c \in Benefit : tree'[c] = tree[c] \/ tree'[c] = d.tree
      BY <1>1, <3>1 DEF CreateBenefitBundle, StoreTyped
    <3>2. ASSUME NEW b \in Benefit, EditBenefitBundle(form.user, b, d)
          PROVE  field' = field /\ \A c \in Benefit : tree'[c] = tree[c] \/ tree'[c] = d.tree
      BY <1>1, <3>2 DEF EditBenefitBundle, StoreTyped
    <3>3. ASSUME DeleteItem(Head(queue).id) \/ DeleteFile(Head(queue).id, Head(queue).file)
          PROVE  field' = field /\ tree' = tree
      BY <3>3 DEF DeleteItem, DeleteFile
    <3>. HIDE DEF d
    <3>4. field' = field /\ \A c \in Benefit : tree'[c] = tree[c] \/ tree'[c] = d.tree
      BY <2>1, <3>1, <3>2, <3>3, EffectCases DEF d
    <3>. QED
      BY <2>2, <3>4 DEF d
  <2>. QED
    BY <1>2, <2>1, <2>3 DEF TreesPassable
<1>7. CASE EditTree
  <2>1. PICK t \in Tree : Edit([form EXCEPT !.tree = t])
    BY <1>7 DEF EditTree
  <2>2. form'.tree = t /\ UNCHANGED store
    BY <1>1, <2>1 DEF Edit, FormState
  <2>. QED
    BY <2>2 DEF TreesPassable, store
<1>8. CASE \/ SetNationwide \/ PickPlaces \/ RemovePlace \/ SetGroups \/ AddItem
           \/ \E k \in DOMAIN form.items : RemoveItem(k) \/ RemoveFile(k)
  <2>1. form'.tree = form.tree
    BY <1>1, <1>8 DEF SetNationwide, PickPlaces, RemovePlace, SetGroups, AddItem, RemoveItem,
         RemoveFile, Edit, FormState
  <2>2. UNCHANGED store
    BY <1>8 DEF SetNationwide, PickPlaces, RemovePlace, SetGroups, AddItem, RemoveItem,
         RemoveFile, Edit
  <2>. QED
    BY <2>1, <2>2 DEF TreesPassable, store
<1>9. CASE FinishUpload
  <2>1. form'.tree = form.tree /\ UNCHANGED store
    BY <1>1, <1>9 DEF FinishUpload, FormState
  <2>. QED
    BY <2>1 DEF TreesPassable, store
<1>10. CASE \/ Close \/ Save \/ Check \/ RolledBack \/ ServerRestart \/ UNCHANGED vars
            \/ \E k \in DOMAIN form.items : StartUpload(k)
            \/ \E b \in Benefit : PeerDeletesBenefit(b) \/ Announce(b)
  <2>1. UNCHANGED <<form, field, tree>>
    BY <1>10 DEF Close, Save, Check, Fail, RolledBack, ServerRestart, Restart, StartUpload,
         PeerDeletesBenefit, DeleteBenefit, Announce, NotifyNext, ui, store, vars
  <2>. QED
    BY <2>1 DEF TreesPassable
<1>11. CASE \E u \in Peer, b \in Benefit : PeerMovesBenefit(u, b)
  <2>1. UNCHANGED <<form, field, tree>>
    BY <1>1, <1>11, BenefitFormAssumption, PeerMovesTyped DEF ui
  <2>. QED
    BY <2>1 DEF TreesPassable
<1>. QED
  BY <1>3, <1>4, <1>5, <1>6, <1>7, <1>8, <1>9, <1>10, <1>11 DEF Next

LEMMA ToldOnceStep ==
    ASSUME FormInv, ToldOnce, [Next]_vars
    PROVE  ToldOnce'
<1>1. StoreTyped
  BY DEF FormInv
<1>2. ASSUME UNCHANGED <<job, texted>>,
             \A b \in Benefit : benefit'[b].state = "absent" => benefit[b].state = "absent"
      PROVE  ToldOnce'
  BY <1>2 DEF ToldOnce
<1>3. CASE Apply
  <2>1. /\ form.user \in User /\ Payload(form) \in Bundle /\ phase = "saving"
        /\ Effect(Head(queue))
    BY <1>3, PayloadTyped DEF FormInv, FormTyped, FormState, Apply
  <2>2. ASSUME NEW b \in Benefit, benefit[b].state = "absent",
               CreateBenefitBundle(form.user, b, Payload(form))
        PROVE  ToldOnce'
    <3>1. /\ benefit' = [benefit EXCEPT
                           ![b] = Saved(form.user, [@ EXCEPT !.state = "live"], Payload(form))]
          /\ job' = [job EXCEPT ![b] = Applicant] /\ UNCHANGED texted
      BY <2>2 DEF CreateBenefitBundle
    <3>2. \A c \in Benefit : c # b => benefit'[c] = benefit[c] /\ job'[c] = job[c]
      BY <1>1, <3>1 DEF StoreTyped
    <3>. QED
      BY <2>2, <3>1, <3>2 DEF ToldOnce
  <2>3. ASSUME NEW b \in Benefit, EditBenefitBundle(form.user, b, Payload(form))
        PROVE  ToldOnce'
    <3>1. benefit' = [benefit EXCEPT ![b] = Saved(form.user, @, Payload(form))]
          /\ UNCHANGED <<job, texted>>
      BY <2>3 DEF EditBenefitBundle
    <3>2. Saved(form.user, benefit[b], Payload(form)).state = benefit[b].state
      BY <1>1, <2>1, SavedRow DEF StoreTyped
    <3>3. \A c \in Benefit : benefit'[c].state = "absent" => benefit[c].state = "absent"
      BY <1>1, <3>1, <3>2 DEF StoreTyped
    <3>. QED
      BY <1>2, <3>1, <3>3
  <2>4. ASSUME DeleteItem(Head(queue).id) \/ DeleteFile(Head(queue).id, Head(queue).file)
        PROVE  ToldOnce'
    BY <1>2, <2>4 DEF DeleteItem, DeleteFile
  <2>. QED
    BY <2>1, <2>2, <2>3, <2>4, EffectCases
<1>4. CASE \E b \in Benefit : Announce(b)
  <2>0. PICK b \in Benefit : Announce(b)
    BY <1>4
  <2>1. PICK a \in job[b] :
          /\ job' = [job EXCEPT ![b] = @ \ {a}]
          /\ texted' = IF Live(b) /\ ~Excluded(a, b) /\ a \notin Unreachable
                       THEN texted \cup {<<b, a>>} ELSE texted
          /\ UNCHANGED benefit
    BY <2>0 DEF Announce, NotifyNext
  <2>2. /\ job'[b] = job[b] \ {a} /\ (\A c \in Benefit : c # b => job'[c] = job[c])
        /\ \A c \in Benefit, x \in Applicant : <<c, x>> \in texted' =>
              <<c, x>> \in texted \/ (c = b /\ x = a /\ Live(b))
    BY <1>1, <2>1 DEF StoreTyped
  <2>. QED
    BY <2>1, <2>2 DEF ToldOnce, Live
<1>5. CASE ServerRestart
  BY <1>5 DEF ServerRestart, Restart, ToldOnce
<1>6. CASE \E b \in Benefit : PeerDeletesBenefit(b)
  BY <1>1, <1>2, <1>6 DEF PeerDeletesBenefit, DeleteBenefit, StoreTyped, BenefitRow, Live
<1>7. CASE \E u \in User, b \in Benefit : PeerMovesBenefit(u, b)
  <2>1. PICK u \in User, b \in Benefit : PeerMovesBenefit(u, b)
    BY <1>7
  <2>2. \A c \in Benefit : benefit'[c].state = benefit[c].state
    BY <1>1, <2>1, PeerMovesTyped
  <2>. QED
    BY <1>1, <1>2, <2>1, <2>2, PeerMovesTyped
<1>8. CASE \/ UNCHANGED <<store, restarted, writer>> \/ UNCHANGED vars
           \/ \E f \in Field : PeerRemovesField(f)
  BY <1>2, <1>8 DEF store, vars, PeerRemovesField, RemoveField
<1>. QED
  BY <1>3, <1>4, <1>5, <1>6, <1>7, <1>8, WhoWrites

LEMMA TellingStep ==
    ASSUME \A t \in Tree : NoEmptyAny(t), TellingInv, [Next]_vars
    PROVE  TellingInv'
<1>1. FormInv /\ FormInv' /\ TreesPassable' /\ ToldOnce /\ ToldOnce'
  BY FormStep, PassableStep, ToldOnceStep DEF TellingInv
<1>2. StoreTyped
  BY <1>1 DEF FormInv
<1>. DEFINE Same(c) ==
       \/ ~Live(c)'
       \/ /\ benefit'[c] = benefit[c] /\ tree'[c] = tree[c] /\ writer'[c] = writer[c]
       \/ /\ Live(c) /\ writer'[c] # "created"
<1>3. ASSUME UNCHANGED <<job, texted, restarted, field>>, \A b \in Benefit : Same(b)
      PROVE  TellingInv'
  <2>1. ASSUME NEW b \in Benefit \ Seeded, Live(b)', ~restarted', field' = Field,
               NEW a \in Applicant \ Unreachable
        PROVE  a \in job'[b] \/ Served(b, a)'
    <3>1. Live(b)
      BY <1>3, <2>1 DEF Live
    <3>2. a \in job[b] \/ Served(b, a)
      BY <1>3, <2>1, <3>1 DEF TellingInv
    <3>3. CASE benefit'[b] = benefit[b] /\ tree'[b] = tree[b] /\ writer'[b] = writer[b]
      BY <1>3, <3>2, <3>3 DEF Served, Excluded, LivesElsewhere, Qualifies
    <3>4. CASE writer'[b] # "created"
      BY <1>3, <3>2, <3>4 DEF Served, Qualifies
    <3>. QED
      BY <1>3, <2>1, <3>3, <3>4
  <2>. QED
    BY <1>1, <2>1 DEF TellingInv
<1>4. CASE Apply
  <2>1. /\ form.user \in User /\ Payload(form) \in Bundle /\ phase = "saving"
        /\ Effect(Head(queue)) /\ UNCHANGED restarted
        /\ writer' = [b \in Benefit |->
              IF Head(queue).op = "bundle" /\ Subject(b)
              THEN IF form.id = None THEN "created" ELSE "form" ELSE writer[b]]
    BY <1>1, <1>4, PayloadTyped DEF FormInv, FormTyped, FormState, Apply, Answered, Fail
  <2>2. ASSUME NEW b \in Benefit, form.id = None,
               CreateBenefitBundle(form.user, b, Payload(form))
        PROVE  TellingInv'
    <3>1. /\ benefit' = [benefit EXCEPT
                           ![b] = Saved(form.user, [@ EXCEPT !.state = "live"], Payload(form))]
          /\ job' = [job EXCEPT ![b] = Applicant] /\ UNCHANGED <<field, texted>>
          /\ tree' = [tree EXCEPT ![b] = Payload(form).tree]
      BY <2>2 DEF CreateBenefitBundle
    <3>2. \A c \in Benefit : c # b =>
             benefit'[c] = benefit[c] /\ tree'[c] = tree[c] /\ job'[c] = job[c]
      BY <1>2, <3>1 DEF StoreTyped
    <3>3. job'[b] = Applicant
      BY <1>2, <3>1 DEF StoreTyped
    <3>4. \A c \in Benefit : c # b => writer'[c] = writer[c]
      <4>1. ASSUME NEW c \in Benefit, c # b PROVE ~Subject(c)
        BY <2>2, <3>2, <4>1 DEF Subject, Live
      <4>. QED
        BY <2>1, <4>1
    <3>5. ASSUME NEW c \in Benefit \ Seeded, Live(c)', ~restarted', field' = Field,
                 NEW a \in Applicant \ Unreachable
          PROVE  a \in job'[c] \/ Served(c, a)'
      <4>1. CASE c = b
        BY <3>3, <4>1
      <4>2. CASE c # b
        <5>1. Live(c) /\ ~restarted /\ field = Field
          BY <2>1, <3>1, <3>2, <3>5, <4>2 DEF Live
        <5>2. a \in job[c] \/ Served(c, a)
          BY <3>5, <5>1 DEF TellingInv
        <5>. QED
          BY <3>1, <3>2, <3>4, <4>2, <5>2 DEF Served, Excluded, LivesElsewhere, Qualifies
      <4>. QED
        BY <4>1, <4>2
    <3>. QED
      BY <1>1, <3>5 DEF TellingInv
  <2>3. ASSUME form.id \in Benefit, Head(queue).op = "bundle",
               EditBenefitBundle(form.user, form.id, Payload(form))
        PROVE  TellingInv'
    <3>. DEFINE b == form.id
    <3>1. /\ benefit' = [benefit EXCEPT ![b] = Saved(form.user, @, Payload(form))]
          /\ tree' = [tree EXCEPT ![b] = IF Payload(form).tree = NoTree THEN @ ELSE Payload(form).tree]
          /\ UNCHANGED <<field, job, texted>>
      BY <2>3 DEF EditBenefitBundle
    <3>2. Saved(form.user, benefit[b], Payload(form)).state = benefit[b].state
      BY <1>2, <2>1, <2>3, SavedRow DEF StoreTyped
    <3>3. benefit'[b].state = benefit[b].state /\ \A c \in Benefit : c # b =>
             benefit'[c] = benefit[c] /\ tree'[c] = tree[c]
      BY <1>2, <2>3, <3>1, <3>2 DEF StoreTyped
    <3>4. b # None
      BY <2>3, BenefitAssumption
    <3>5. writer'[b] = "form" /\ \A c \in Benefit : c # b => writer'[c] = writer[c]
      BY <2>1, <2>3, <3>4 DEF Subject
    <3>6. \A c \in Benefit : Same(c)
      BY <3>3, <3>5 DEF Live
    <3>. HIDE DEF Same
    <3>. QED
      BY <1>3, <2>1, <3>1, <3>6
  <2>4. ASSUME Head(queue).op # "bundle",
               DeleteItem(Head(queue).id) \/ DeleteFile(Head(queue).id, Head(queue).file)
        PROVE  TellingInv'
    <3>1. UNCHANGED <<benefit, tree, field, job, texted>>
      BY <2>4 DEF DeleteItem, DeleteFile
    <3>2. \A c \in Benefit : writer'[c] = writer[c]
      BY <2>1, <2>4
    <3>3. \A c \in Benefit : Same(c)
      BY <3>1, <3>2
    <3>. HIDE DEF Same
    <3>. QED
      BY <1>3, <2>1, <3>1, <3>3
  <2>. QED
    BY <1>1, <2>1, <2>2, <2>3, <2>4, EffectCases
<1>5. CASE \E b \in Benefit : Announce(b)
  <2>1. PICK b \in Benefit : Announce(b)
    BY <1>5
  <2>2. PICK a \in job[b] :
          /\ job' = [job EXCEPT ![b] = @ \ {a}]
          /\ texted' = IF Live(b) /\ ~Excluded(a, b) /\ a \notin Unreachable
                       THEN texted \cup {<<b, a>>} ELSE texted
          /\ UNCHANGED <<benefit, item, tree, field>>
    BY <2>1 DEF Announce, NotifyNext
  <2>3. UNCHANGED <<restarted, writer>>
    BY <2>1 DEF Announce, history
  <2>4. /\ \A c \in Benefit : job[c] \subseteq job'[c] \cup (IF c = b THEN {a} ELSE {})
        /\ \A c \in Benefit, x \in Applicant :
              (c # b \/ x # a) => (<<c, x>> \in texted' <=> <<c, x>> \in texted)
    BY <1>2, <2>2 DEF StoreTyped
  <2>5. a \in Applicant /\ <<b, a>> \notin texted
    BY <1>1, <1>2, <2>2 DEF ToldOnce, StoreTyped
  <2>6. \A x \in Applicant, c \in Benefit : Excluded(x, c)' <=> Excluded(x, c)
    BY <2>2 DEF Excluded, LivesElsewhere
  <2>7. ASSUME Live(b), field = Field, a \notin Unreachable PROVE Served(b, a)'
    <3>1. (<<b, a>> \in texted') <=> ~Excluded(a, b)
      BY <2>2, <2>5, <2>7
    <3>2. ASSUME Qualifies(a) PROVE ~Excluded(a, b)
      <4>1. NoEmptyAny(tree[b])
        BY <2>7 DEF TellingInv, TreesPassable
      <4>2. ~FailsRules(a, tree[b])
        BY <3>2, <4>1 DEF FailsRules, Qualifies, NoEmptyAny
      <4>. QED
        BY <3>2, <4>2 DEF Excluded, LivesElsewhere, Qualifies
    <3>3. <<b, a>> \in texted' <=> ~Excluded(a, b)'
      BY <2>5, <2>6, <3>1
    <3>. QED
      BY <3>1, <3>2, <3>3 DEF Served, Qualifies
  <2>8. ASSUME NEW c \in Benefit \ Seeded, Live(c)', ~restarted', field' = Field,
               NEW x \in Applicant \ Unreachable
        PROVE  x \in job'[c] \/ Served(c, x)'
    <3>1. Live(c) /\ ~restarted /\ field = Field
      BY <2>2, <2>3, <2>8 DEF Live
    <3>2. x \in job[c] \/ Served(c, x)
      BY <2>8, <3>1 DEF TellingInv
    <3>3. CASE c = b /\ x = a
      BY <2>7, <2>8, <3>1, <3>3
    <3>4. CASE c # b \/ x # a
      <4>1. /\ <<c, x>> \in texted' <=> <<c, x>> \in texted
            /\ Excluded(x, c)' <=> Excluded(x, c)
        BY <2>4, <2>6, <3>4
      <4>2. Served(c, x) => Served(c, x)'
        BY <2>3, <4>1 DEF Served, Qualifies
      <4>. QED
        BY <2>4, <3>2, <3>4, <4>2
    <3>. QED
      BY <3>3, <3>4
  <2>. QED
    BY <1>1, <2>8 DEF TellingInv
<1>6. CASE ServerRestart
  BY <1>1, <1>6 DEF ServerRestart, TellingInv
<1>7. CASE \E b \in Benefit : PeerDeletesBenefit(b)
  <2>1. PICK b \in Benefit : PeerDeletesBenefit(b)
    BY <1>7
  <2>2. UNCHANGED <<job, texted, restarted, field, tree, writer>>
    BY <2>1 DEF PeerDeletesBenefit, DeleteBenefit, history
  <2>3. \A c \in Benefit : ~Live(c)' \/ benefit'[c] = benefit[c]
    BY <1>2, <2>1 DEF PeerDeletesBenefit, DeleteBenefit, StoreTyped, BenefitRow, Live
  <2>. QED
    BY <1>3, <2>2, <2>3
<1>8. CASE \E f \in Field : PeerRemovesField(f)
  <2>1. field' # Field
    BY <1>2, <1>8 DEF PeerRemovesField, RemoveField, StoreTyped
  <2>. QED
    BY <1>1, <2>1 DEF TellingInv
<1>9. CASE \E u \in User, b \in Benefit : PeerMovesBenefit(u, b)
  <2>1. PICK u \in User, b \in Benefit : PeerMovesBenefit(u, b)
    BY <1>9
  <2>2. /\ UNCHANGED <<tree, field, job, texted, restarted>> /\ Live(b)
        /\ writer'[b] = "peer"
        /\ \A c \in Benefit : c # b => benefit'[c] = benefit[c] /\ writer'[c] = writer[c]
    BY <1>2, <2>1, PeerMovesTyped
  <2>3. \A c \in Benefit : Same(c)
    BY <2>2
  <2>. HIDE DEF Same
  <2>. QED
    BY <1>3, <2>2, <2>3
<1>10. CASE UNCHANGED <<store, restarted, writer>>
  BY <1>3, <1>10 DEF store
<1>11. CASE UNCHANGED vars
  BY <1>3, <1>11 DEF vars, store, history
<1>. QED
  BY <1>4, <1>5, <1>6, <1>7, <1>8, <1>9, <1>10, <1>11, WhoWrites

\* When the announcement of a benefit nobody edited meanwhile is over, exactly the
\* applicants have been told who can be reached and are not excluded, by the rules
\* or by where they live; and, unless somebody submits an ANY group without
\* conditions, which nobody passes, of any new benefit everyone has who fails
\* nothing and may live anywhere, whatever failed for others.
THEOREM NobodyIsForgotten ==
    ASSUME \A t \in Tree : NoEmptyAny(t)
    PROVE  Spec => []NobodyForgotten
<1>1. TellingInv => NobodyForgotten
  BY DEF TellingInv, NobodyForgotten, Served, Qualifies
<1>. QED
  BY <1>1, TellingInit, TellingStep, PTL DEF Spec

-----------------------------------------------------------------------------
(* No save reaches beyond its author's jurisdiction *)

\* What the checks of the first request found is so still when it is applied,
\* unless another author has moved the benefit: a deletion in between only takes
\* places away.
CheckedWithin ==
    phase = "saving" /\ checked =>
        /\ form.id \in Benefit /\ ~overtaken => Within(form.user, benefit[form.id])
        /\ Head(queue).op = "bundle" => ValidInput(form.user, Payload(form))

\* What a load or an upload leaves alone of a form.
SameScope(f, g) ==
    /\ f.user = g.user /\ f.id = g.id /\ f.nationwide = g.nationwide
    /\ f.codes = g.codes /\ f.groups = g.groups

LEMMA ValidByScope ==
    ASSUME NEW f, NEW g, SameScope(f, g), ValidInput(f.user, Payload(f))
    PROVE  ValidInput(g.user, Payload(g))
<1>1. EffectiveCodes(f) = EffectiveCodes(g)
  BY DEF SameScope, EffectiveCodes
<1>2. /\ Payload(f).nationwide = Payload(g).nationwide
      /\ Payload(f).codes = Payload(g).codes /\ Payload(f).groups = Payload(g).groups
  BY <1>1 DEF SameScope, Payload
<1>. QED
  BY <1>2 DEF ValidInput, SameScope

LEMMA CanModifyWithin ==
    ASSUME NEW u, NEW b, CanModify(u, b)
    PROVE  Within(u, benefit[b])
BY DEF CanModify, Within, ResolvePsgcCodesForUser

LEMMA ValidWithin ==
    ASSUME NEW u \in User, NEW row \in BenefitRow, NEW d \in Bundle, ValidInput(u, d)
    PROVE  /\ Within(u, Saved(u, row, d))
           /\ Saved(u, row, d).nationwide \/ Saved(u, row, d).codes # {}
<1>1. d.nationwide \in BOOLEAN
  BY DEF Bundle
<1>2. CASE d.nationwide
  BY <1>2, SavedRow DEF ValidInput, Within
<1>3. CASE ~d.nationwide
  BY <1>3, SavedRow DEF ValidInput, Within, ResolvePsgcCodesForUser
<1>. QED
  BY <1>1, <1>2, <1>3

LEMMA CheckedStep ==
    ASSUME FormInv, CheckedWithin, [Next]_vars
    PROVE  CheckedWithin'
<1>1. form \in FormState /\ StoreTyped
  BY DEF FormInv, FormTyped
<1>2. ASSUME UNCHANGED <<phase, checked, queue, benefit, overtaken>>, SameScope(form, form')
      PROVE  CheckedWithin'
  <2>1. ValidInput(form.user, Payload(form)) => ValidInput(form'.user, Payload(form'))
    BY <1>2, ValidByScope
  <2>. QED
    BY <1>2, <2>1 DEF CheckedWithin, SameScope
<1>3. ASSUME phase' # "saving" \/ checked' = FALSE PROVE CheckedWithin'
  BY <1>3 DEF CheckedWithin
<1>4. CASE \E u \in User : OpenCreate(u) \/ \E b \in Benefit : OpenEdit(u, b)
  BY <1>3, <1>4 DEF OpenCreate, OpenEdit, Fresh
<1>5. CASE \E b \in Benefit : Load(b)
  <2>1. PICK b \in Benefit : Load(b)
    BY <1>5
  <2>2. SameScope(form, FormLoaded(b)) /\ SameScope(form, form)
    BY <1>1 DEF SameScope, FormLoaded, FormState
  <2>. QED
    BY <1>2, <2>1, <2>2 DEF Load, store, history
<1>6. CASE \/ SetNationwide \/ PickPlaces \/ RemovePlace \/ SetGroups \/ EditTree \/ AddItem
           \/ \E k \in DOMAIN form.items : RemoveItem(k) \/ RemoveFile(k) \/ StartUpload(k)
  <2>1. phase # "saving" /\ phase' = phase
    BY <1>6 DEF SetNationwide, PickPlaces, RemovePlace, SetGroups, EditTree, AddItem, RemoveItem,
         RemoveFile, StartUpload, Edit, Editable
  <2>. QED
    BY <1>3, <2>1
<1>7. CASE FinishUpload
  <2>1. SameScope(form, form')
    BY <1>1, <1>7 DEF FinishUpload, SameScope, FormState
  <2>. QED
    BY <1>2, <1>7, <2>1 DEF FinishUpload, store, history
<1>8. CASE Close \/ Save \/ RolledBack \/ Apply
  BY <1>3, <1>8 DEF Close, Save, RolledBack, Apply, Answered, Fail
<1>9. CASE Check
  <2>1. CASE Fail
    BY <1>3, <2>1 DEF Fail
  <2>2. CASE ~Fail
    <3>1. Admitted(Head(queue)) /\ UNCHANGED <<phase, form, queue, benefit>> /\ phase = "saving"
      BY <1>9, <2>2 DEF Check, store
    <3>2. Head(queue).op \in {"bundle", "row", "file"}
      BY <3>1, HeadIsCall
    <3>3. form.id \in Benefit => form.id # None
      BY BenefitAssumption
    <3>. DEFINE h == Head(queue)
    <3>4. CASE h.op = "bundle"
      BY <3>1, <3>3, <3>4, CanModifyWithin DEF Admitted, CheckedWithin
    <3>5. CASE h.op = "row"
      BY <3>1, <3>5, CanModifyWithin DEF Admitted, CheckedWithin, CanDeleteItem
    <3>6. CASE h.op = "file"
      BY <3>1, <3>6, CanModifyWithin DEF Admitted, CheckedWithin, CanDeleteFile
    <3>. QED
      BY <3>2, <3>4, <3>5, <3>6
  <2>. QED
    BY <2>1, <2>2
<1>10. CASE \E b \in Benefit : PeerDeletesBenefit(b)
  <2>1. PICK b \in Benefit : PeerDeletesBenefit(b)
    BY <1>10
  <2>2. UNCHANGED <<phase, form, queue, checked, overtaken>>
    BY <2>1 DEF PeerDeletesBenefit, ui, history
  <2>3. \A c \in Benefit : /\ benefit'[c].nationwide = benefit[c].nationwide
                          /\ benefit'[c].codes \subseteq benefit[c].codes
    BY <1>1, <2>1 DEF PeerDeletesBenefit, DeleteBenefit, StoreTyped, BenefitRow
  <2>4. \A c \in Benefit : Within(form.user, benefit[c]) => Within(form.user, benefit'[c])
    BY <2>3 DEF Within
  <2>. QED
    BY <2>2, <2>4 DEF CheckedWithin
<1>11. CASE \/ ServerRestart \/ \E b \in Benefit : Announce(b)
            \/ \E f \in Field : PeerRemovesField(f)
  <2>1. UNCHANGED <<phase, form, queue, checked, benefit, overtaken>>
    BY <1>11 DEF ServerRestart, Restart, Announce, NotifyNext, PeerRemovesField, RemoveField, ui,
         history
  <2>. QED
    BY <2>1 DEF CheckedWithin
<1>12. CASE UNCHANGED vars
  BY <1>12 DEF vars, ui, store, history, CheckedWithin
<1>13. CASE \E u \in Peer, b \in Benefit : PeerMovesBenefit(u, b)
  <2>1. PICK u \in User, b \in Benefit : PeerMovesBenefit(u, b)
    BY <1>13, BenefitFormAssumption
  <2>2. /\ UNCHANGED <<phase, form, queue, checked>>
        /\ overtaken' = (overtaken \/ (checked /\ b = form.id))
        /\ \A c \in Benefit : c # b => benefit'[c] = benefit[c]
    BY <1>1, <2>1, PeerMovesTyped DEF ui
  <2>. QED
    BY <2>2 DEF CheckedWithin
<1>. QED
  BY <1>4, <1>5, <1>6, <1>7, <1>8, <1>9, <1>10, <1>11, <1>12, <1>13 DEF Next

LEMMA CheckedInvariant == Spec => [](FormInv /\ CheckedWithin)
<1>1. Init => CheckedWithin
  BY DEF Init, CheckedWithin
<1>. QED
  BY <1>1, FormInit, FormStep, CheckedStep, PTL DEF Spec

\* Every request of a save that changes something is about a benefit within the
\* author's jurisdiction, unless another author moved it between the request's
\* checks and its transaction, and what it writes never reaches beyond it.
THEOREM SavesStayWithin == Spec => WithinJurisdiction
<1>. DEFINE Held ==
       (checked /\ ~checked' /\ (benefit' # benefit \/ item' # item)) =>
         \A b \in Benefit : (benefit'[b] # benefit[b] \/ b = form.id) =>
            /\ Live(b) /\ ~overtaken => Within(form.user, benefit[b])
            /\ benefit'[b] # benefit[b] \/ ~overtaken => Within(form.user, benefit'[b])
<1>1. ASSUME FormInv, CheckedWithin, Next PROVE Held
  <2>1. StoreTyped
    BY <1>1 DEF FormInv
  <2>2. CASE Apply
    <3>1. /\ form.user \in User /\ Payload(form) \in Bundle /\ phase = "saving"
          /\ Effect(Head(queue)) /\ checked
      BY <1>1, <2>2, PayloadTyped DEF FormInv, FormTyped, FormState, Apply
    <3>2. form.id \in Benefit /\ ~overtaken => Within(form.user, benefit[form.id])
      BY <1>1, <3>1 DEF CheckedWithin
    <3>3. ASSUME NEW b \in Benefit, benefit[b].state = "absent", Head(queue).op = "bundle",
                 form.id = None, CreateBenefitBundle(form.user, b, Payload(form))
          PROVE  Held
      <4>. DEFINE row == [benefit[b] EXCEPT !.state = "live"]
      <4>1. row \in BenefitRow
        BY <2>1 DEF StoreTyped, BenefitRow
      <4>2. Within(form.user, Saved(form.user, row, Payload(form)))
        BY <1>1, <3>1, <3>3, <4>1, ValidWithin DEF CheckedWithin
      <4>3. benefit' = [benefit EXCEPT ![b] = Saved(form.user, row, Payload(form))]
        BY <3>3 DEF CreateBenefitBundle
      <4>4. None \notin Benefit
        BY BenefitAssumption
      <4>5. ~Live(b)
        BY <3>3 DEF Live
      <4>. HIDE DEF row
      <4>6. /\ benefit'[b] = Saved(form.user, row, Payload(form))
            /\ \A c \in Benefit : c # b => benefit'[c] = benefit[c]
        BY <2>1, <4>3 DEF StoreTyped
      <4>. QED
        BY <3>3, <4>2, <4>4, <4>5, <4>6
    <3>4. ASSUME form.id \in Benefit, Head(queue).op = "bundle",
                 EditBenefitBundle(form.user, form.id, Payload(form))
          PROVE  Held
      <4>. DEFINE b == form.id
      <4>1. benefit[b] \in BenefitRow
        BY <2>1, <3>4 DEF StoreTyped
      <4>2. Within(form.user, Saved(form.user, benefit[b], Payload(form)))
        BY <1>1, <3>1, <3>4, <4>1, ValidWithin DEF CheckedWithin
      <4>3. benefit' = [benefit EXCEPT ![b] = Saved(form.user, @, Payload(form))]
        BY <3>4 DEF EditBenefitBundle
      <4>4. /\ benefit'[b] = Saved(form.user, benefit[b], Payload(form))
            /\ \A c \in Benefit : c # b => benefit'[c] = benefit[c]
        BY <2>1, <3>4, <4>3 DEF StoreTyped
      <4>. QED
        BY <3>2, <3>4, <4>2, <4>4
    <3>5. ASSUME DeleteItem(Head(queue).id) \/ DeleteFile(Head(queue).id, Head(queue).file)
          PROVE  Held
      BY <3>2, <3>5 DEF DeleteItem, DeleteFile
    <3>. QED
      BY <1>1, <3>1, <3>3, <3>4, <3>5, EffectCases
  <2>3. CASE \/ UNCHANGED checked \/ UNCHANGED <<benefit, item>>
    BY <2>3
  <2>4. CASE \/ \E b \in Benefit : PeerDeletesBenefit(b)
             \/ \E u \in User, b \in Benefit : PeerMovesBenefit(u, b)
    <3>1. UNCHANGED checked
      BY <2>4 DEF PeerDeletesBenefit, PeerMovesBenefit, ui
    <3>. QED
      BY <2>3, <3>1
  <2>. QED
    BY <1>1, <2>2, <2>3, <2>4, WhoWrites
    DEF store, ServerRestart, Restart, Announce, NotifyNext, PeerRemovesField, RemoveField
<1>2. ASSUME FormInv, CheckedWithin, [Next]_vars PROVE [Held]_vars
  BY <1>1, <1>2
<1>. QED
  BY <1>2, CheckedInvariant, PTL DEF Spec, WithinJurisdiction

-----------------------------------------------------------------------------
(* What was saved is on its author's list *)

\* The authority over a place and the reach of a benefit are two readings of the
\* same code: whose authority covers a place has its code begin with his own.
LEMMA AuthorityIsPrefix ==
    ASSUME NEW u \in User, u.scope \notin NationalLevel, NEW c \in Place,
           IsUserAuthorizedForLocation(u, c)
    PROVE  u.code # <<>> /\ (IsPrefix(c, u.code) \/ IsPrefix(u.code, c))
<1>1. /\ u.scope \in LocalLevel /\ u.code # <<>> /\ u.code \in Place
      /\ c \in Seq(Nat) /\ u.code \in Seq(Nat)
  BY BenefitAssumption
<1>2. c = u.code \/ (Level(u.scope) < Len(c) /\ SubSeq(c, 1, Level(u.scope)) = u.code)
  BY DEF IsUserAuthorizedForLocation
<1>3. Level(u.scope) \in 1 .. 4
  BY <1>1 DEF Level, LocalLevel
<1>4. CASE c = u.code
  <2>1. Len(c) <= Len(c)
    BY <1>1, LenProperties
  <2>. QED
    BY <1>1, <1>4, <2>1 DEF IsPrefix
<1>5. CASE Level(u.scope) < Len(c) /\ SubSeq(c, 1, Level(u.scope)) = u.code
  <2>. DEFINE n == Level(u.scope)
  <2>1. n \in 1 .. 4 /\ n < Len(c) /\ SubSeq(c, 1, n) = u.code /\ Len(c) \in Nat
    BY <1>1, <1>3, <1>5, LenProperties
  <2>. HIDE DEF n
  <2>2. \A i \in 1 .. n : c[i] \in Nat
    BY <1>1, <2>1, ElementOfSeq
  <2>3. Len(u.code) = n
    BY <2>1, <2>2, SubSeqProperties
  <2>4. SubSeq(u.code, 1, Len(u.code)) = SubSeq(c, 1, Len(u.code))
    BY <1>1, <2>1, <2>3, SubSeqFull
  <2>. QED
    BY <1>1, <2>1, <2>3, <2>4 DEF IsPrefix
<1>. QED
  BY <1>1, <1>2, <1>4, <1>5

LEMMA WithinIsVisible ==
    ASSUME NEW u \in User, NEW row \in BenefitRow, Within(u, row),
           row.nationwide \/ row.codes # {}
    PROVE  IsBenefitVisibleToScope(row, u)
<1>1. row.codes \in SUBSET Place /\ row.nationwide \in BOOLEAN
  BY DEF BenefitRow
<1>2. CASE row.nationwide \/ u.scope \in NationalLevel
  BY <1>2 DEF IsBenefitVisibleToScope
<1>3. CASE ~row.nationwide /\ u.scope \notin NationalLevel
  <2>1. PICK c \in row.codes : IsUserAuthorizedForLocation(u, c)
    BY <1>3 DEF Within
  <2>2. u.code # <<>> /\ (IsPrefix(c, u.code) \/ IsPrefix(u.code, c))
    BY <1>1, <1>3, <2>1, AuthorityIsPrefix
  <2>. QED
    BY <2>2 DEF IsBenefitVisibleToScope
<1>. QED
  BY <1>2, <1>3

\* A live benefit is for everybody or for some place.
ReachKnown == \A b \in Benefit : Live(b) => benefit[b].nationwide \/ benefit[b].codes # {}

\* What a request of a save leaves of the benefit it is about.
LEMMA ApplyListed ==
    ASSUME FormInv, CheckedWithin, ReachKnown, Apply
    PROVE  \A b \in Benefit :
              Subject(b) /\ Live(b)' /\ (overtaken => Head(queue).op = "bundle") =>
              IsBenefitVisibleToScope(benefit'[b], form.user)
<1>1. /\ form.user \in User /\ Payload(form) \in Bundle /\ phase = "saving"
      /\ Effect(Head(queue)) /\ checked /\ StoreTyped
  BY PayloadTyped DEF FormInv, FormTyped, FormState, Apply
<1>2. None \notin Benefit
  BY BenefitAssumption
<1>3. ASSUME NEW b \in Benefit, benefit[b].state = "absent", Head(queue).op = "bundle",
             form.id = None, CreateBenefitBundle(form.user, b, Payload(form)),
             NEW c \in Benefit, Subject(c), Live(c)'
      PROVE  IsBenefitVisibleToScope(benefit'[c], form.user)
  <2>. DEFINE row == [benefit[b] EXCEPT !.state = "live"]
  <2>1. row \in BenefitRow
    BY <1>1 DEF StoreTyped, BenefitRow
  <2>2. benefit' = [benefit EXCEPT ![b] = Saved(form.user, row, Payload(form))]
    BY <1>3 DEF CreateBenefitBundle
  <2>. HIDE DEF row
  <2>3. benefit[c].state = "absent" /\ benefit'[c].state = "live"
    BY <1>3 DEF Subject, Live
  <2>4. c = b /\ benefit'[c] = Saved(form.user, row, Payload(form))
    BY <1>1, <2>2, <2>3 DEF StoreTyped
  <2>5. ValidInput(form.user, Payload(form))
    BY <1>1, <1>3 DEF CheckedWithin
  <2>6. /\ Within(form.user, Saved(form.user, row, Payload(form)))
        /\ \/ Saved(form.user, row, Payload(form)).nationwide
           \/ Saved(form.user, row, Payload(form)).codes # {}
        /\ Saved(form.user, row, Payload(form)) \in BenefitRow
    BY <1>1, <2>1, <2>5, ValidWithin, SavedRow
  <2>. QED
    BY <1>1, <2>4, <2>6, WithinIsVisible
<1>4. ASSUME form.id \in Benefit, Head(queue).op = "bundle",
             EditBenefitBundle(form.user, form.id, Payload(form)),
             NEW c \in Benefit, Subject(c), Live(c)'
      PROVE  IsBenefitVisibleToScope(benefit'[c], form.user)
  <2>1. c = form.id /\ benefit[c] \in BenefitRow
    BY <1>1, <1>2, <1>4 DEF Subject, StoreTyped
  <2>2. benefit' = [benefit EXCEPT ![c] = Saved(form.user, @, Payload(form))]
    BY <1>4, <2>1 DEF EditBenefitBundle
  <2>3. benefit'[c] = Saved(form.user, benefit[c], Payload(form))
    BY <1>1, <2>2 DEF StoreTyped
  <2>4. ValidInput(form.user, Payload(form))
    BY <1>1, <1>4 DEF CheckedWithin
  <2>5. /\ Within(form.user, Saved(form.user, benefit[c], Payload(form)))
        /\ \/ Saved(form.user, benefit[c], Payload(form)).nationwide
           \/ Saved(form.user, benefit[c], Payload(form)).codes # {}
        /\ Saved(form.user, benefit[c], Payload(form)) \in BenefitRow
    BY <1>1, <2>1, <2>4, ValidWithin, SavedRow
  <2>. QED
    BY <1>1, <2>3, <2>5, WithinIsVisible
<1>5. ASSUME \/ Head(queue).op = "row" /\ DeleteItem(Head(queue).id)
             \/ Head(queue).op = "file" /\ DeleteFile(Head(queue).id, Head(queue).file),
             NEW c \in Benefit, Subject(c), Live(c)', ~overtaken
      PROVE  IsBenefitVisibleToScope(benefit'[c], form.user)
  <2>1. benefit' = benefit /\ Head(queue).op # "bundle"
    BY <1>5 DEF DeleteItem, DeleteFile
  <2>2. Live(c)
    BY <1>5, <2>1 DEF Live
  <2>3. c = form.id
    BY <1>5, <2>2 DEF Subject, Live
  <2>. QED
    BY <1>1, <1>5, <2>1, <2>2, <2>3, WithinIsVisible DEF CheckedWithin, ReachKnown, StoreTyped
<1>. QED
  BY <1>1, <1>3, <1>4, <1>5, EffectCases

LEMMA ReachStep ==
    ASSUME FormInv, CheckedWithin, ReachKnown, [Next]_vars
    PROVE  ReachKnown'
<1>1. StoreTyped
  BY DEF FormInv
<1>2. ASSUME \A b \in Benefit : Live(b)' => benefit'[b] = benefit[b]
      PROVE  ReachKnown'
  BY <1>2 DEF ReachKnown, Live
<1>3. CASE Apply
  <2>1. /\ form.user \in User /\ Payload(form) \in Bundle /\ phase = "saving" /\ checked
        /\ Effect(Head(queue))
    BY <1>3, PayloadTyped DEF FormInv, FormTyped, FormState, Apply
  <2>2. ASSUME NEW b \in Benefit, NEW row \in BenefitRow, Head(queue).op = "bundle",
               benefit' = [benefit EXCEPT ![b] = Saved(form.user, row, Payload(form))]
        PROVE  ReachKnown'
    <3>1. ValidInput(form.user, Payload(form))
      BY <2>1, <2>2 DEF CheckedWithin
    <3>2. \/ Saved(form.user, row, Payload(form)).nationwide
          \/ Saved(form.user, row, Payload(form)).codes # {}
      BY <2>1, <3>1, ValidReaches
    <3>3. /\ benefit'[b] = Saved(form.user, row, Payload(form))
          /\ \A c \in Benefit : c # b => benefit'[c] = benefit[c]
      BY <1>1, <2>2 DEF StoreTyped
    <3>. QED
      BY <3>2, <3>3 DEF ReachKnown, Live
  <2>3. ASSUME NEW b \in Benefit, Head(queue).op = "bundle",
               CreateBenefitBundle(form.user, b, Payload(form))
        PROVE  ReachKnown'
    <3>1. [benefit[b] EXCEPT !.state = "live"] \in BenefitRow
      BY <1>1 DEF StoreTyped, BenefitRow
    <3>. QED
      BY <2>2, <2>3, <3>1 DEF CreateBenefitBundle
  <2>4. ASSUME form.id \in Benefit, Head(queue).op = "bundle",
               EditBenefitBundle(form.user, form.id, Payload(form))
        PROVE  ReachKnown'
    <3>1. benefit[form.id] \in BenefitRow
      BY <1>1, <2>4 DEF StoreTyped
    <3>. QED
      BY <2>2, <2>4, <3>1 DEF EditBenefitBundle
  <2>5. ASSUME DeleteItem(Head(queue).id) \/ DeleteFile(Head(queue).id, Head(queue).file)
        PROVE  ReachKnown'
    BY <1>2, <2>5 DEF DeleteItem, DeleteFile
  <2>. QED
    BY <2>1, <2>3, <2>4, <2>5, EffectCases
<1>4. CASE \E b \in Benefit : PeerDeletesBenefit(b)
  BY <1>1, <1>2, <1>4 DEF PeerDeletesBenefit, DeleteBenefit, StoreTyped, BenefitRow, Live
<1>5. CASE \E u \in User, b \in Benefit : PeerMovesBenefit(u, b)
  <2>1. PICK u \in User, b \in Benefit : PeerMovesBenefit(u, b)
    BY <1>5
  <2>2. /\ benefit'[b].nationwide \/ benefit'[b].codes # {}
        /\ \A c \in Benefit : c # b => benefit'[c] = benefit[c]
    BY <1>1, <2>1, PeerMovesTyped
  <2>. QED
    BY <2>2 DEF ReachKnown, Live
<1>6. CASE UNCHANGED benefit
  BY <1>2, <1>6
<1>. QED
  BY <1>3, <1>4, <1>5, <1>6, WhoWrites
  DEF vars, store, ServerRestart, Restart, Announce, NotifyNext, PeerRemovesField, RemoveField

LEMMA ReachInit == Init => ReachKnown
<1>. SUFFICES ASSUME Init PROVE ReachKnown
  OBVIOUS
<1>1. PICK row \in BenefitRow :
        /\ IF row.nationwide THEN row.groups # {} /\ row.codes = {} ELSE row.codes # {}
        /\ benefit = [b \in Benefit |-> IF b \in Seeded THEN row ELSE Absent]
  BY DEF Init
<1>. QED
  BY <1>1 DEF ReachKnown, Live, Absent

\* When a form reports success, the benefit it saved is on its author's own list,
\* unless it has been deleted since or another author moved it while the last
\* request, a deletion of a row or a file, was under way.
THEOREM SavesAreListed == Spec => SavedIsListed
<1>. DEFINE Held ==
       Reports => \A b \in Benefit :
            Subject(b) /\ Live(b)' /\ (overtaken => Head(queue).op = "bundle")
            => IsBenefitVisibleToScope(benefit[b], form.user)'
<1>1. ASSUME FormInv, CheckedWithin, ReachKnown, [Next]_vars PROVE [Held]_vars
  <2>1. CASE Apply
    <3>1. UNCHANGED form
      BY <2>1 DEF Apply, Answered, Fail
    <3>. QED
      BY <1>1, <2>1, <3>1, ApplyListed
  <2>2. CASE ~Apply
    <3>1. ~Reports
      BY <1>1, <2>2 DEF Reports, Next, OpenCreate, OpenEdit, Fresh, Load, SetNationwide,
           PickPlaces, RemovePlace, SetGroups, EditTree, AddItem, RemoveItem, RemoveFile, Edit,
           StartUpload, FinishUpload, Close, Save, Check, Fail, RolledBack, Announce,
           PeerDeletesBenefit, PeerMovesBenefit, PeerRemovesField, ServerRestart, ui, vars
    <3>. QED
      BY <3>1
  <2>. QED
    BY <2>1, <2>2
<1>. QED
  BY <1>1, CheckedInvariant, ReachInit, ReachStep, PTL DEF Spec, SavedIsListed
=============================================================================
