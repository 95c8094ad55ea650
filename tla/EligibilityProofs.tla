--------------------------- MODULE EligibilityProofs ---------------------------
(***************************************************************************)
(* Facts about the three-valued engine, for every catalog and every set of  *)
(* answers; and the laws of the engine for every set of well-formed catalogs: *)
(* any number of fields, answers and benefits, trees of any size and depth.   *)
(* And of the quiz: with one tab and saves that do not fail halfway it never   *)
(* rewrites a real answer, for every catalog; and if no question's driver has a *)
(* driver, it always has a question to show and leaves no answer on a question *)
(* that is hidden.                                                           *)
(***************************************************************************)
EXTENDS AnswerMoreQuiz, FiniteSetTheorems, TLAPS

-----------------------------------------------------------------------------
\* Well-founded induction without an operator parameter: among the elements of
\* a set with bounded ranks one has the least rank.
Ranking(r, D, M) == M \in Nat /\ r \in [D -> 0 .. M]
HasLeast(r, T) == \E x \in T : \A y \in T : ~(r[y] < r[x])

LEMMA LeastRank ==
    ASSUME NEW M, NEW D, NEW r, Ranking(r, D, M),
           NEW T \in SUBSET D, T # {}
    PROVE  HasLeast(r, T)
<1>. USE DEF Ranking, HasLeast
<1> DEFINE S == 0 .. M
           Heads == {0 .. r[x] : x \in T}
<1>1. IsWellFoundedOn(StrictSubsetOrdering(S), FiniteSubsetsOf(S))
  BY FS_StrictSubsetOrderingWellFounded
<1>2. FiniteSubsetsOf(S) = SUBSET S
  <2>1. IsFiniteSet(S)
    BY FS_Interval
  <2>. QED  BY <2>1, FS_FiniteSubsetsOfFinite
<1>3. Heads \subseteq SUBSET S /\ Heads # {}
  <2>1. \A x \in T : (0 .. r[x]) \in SUBSET S
    OBVIOUS
  <2>. QED  BY <2>1
<1>4. PICK A \in Heads : \A B \in Heads : <<B, A>> \notin StrictSubsetOrdering(S)
  <2> HIDE DEF S, Heads
  <2>. QED  BY <1>1, <1>2, <1>3, WFMin
<1>5. PICK x \in T : A = 0 .. r[x]
  BY <1>4
<1>6. ASSUME NEW y \in T, r[y] < r[x]  PROVE FALSE
  <2>1. r[x] \in 0 .. M /\ r[y] \in 0 .. M
    OBVIOUS
  <2>2. r[x] \in 0 .. r[x] /\ r[x] \notin 0 .. r[y]
    BY <1>6, <2>1
  <2>3. /\ (0 .. r[y]) \subseteq (0 .. r[x])
        /\ (0 .. r[x]) \subseteq S
    BY <1>6, <2>1
  <2>4. <<0 .. r[y], 0 .. r[x]>> \in StrictSubsetOrdering(S)
    BY <2>2, <2>3 DEF StrictSubsetOrdering
  <2>. QED
    BY <2>4, <1>4, <1>5
<1>. QED
  BY <1>6

\* F[g][n] depends on g only at elements of smaller rank.
Ranked(F, D, V, r) ==
    /\ F \in [[D -> V] -> [D -> V]]
    /\ \A g, h \in [D -> V], n \in D :
          (\A k \in D : r[k] < r[n] => g[k] = h[k]) => F[g][n] = F[h][n]

\* A definition by recursion on ranks has a solution.
LEMMA RecursionExists ==
    ASSUME NEW M \in Nat, NEW D, NEW r \in [D -> 0 .. M],
           NEW V, V # {}, NEW F, Ranked(F, D, V, r)
    PROVE  \E f \in [D -> V] : f = F[f]
<1> DEFINE Solves(f, m) == \A n \in D : r[n] < m => f[n] = F[f][n]
           Bad == {m \in 0 .. (M + 1) : ~ \E f \in [D -> V] : Solves(f, m)}
<1>1. ASSUME NEW g \in [D -> V] PROVE F[g] \in [D -> V]
  BY DEF Ranked
<1>2. ASSUME NEW g \in [D -> V], NEW h \in [D -> V], NEW n \in D,
             \A k \in D : r[k] < r[n] => g[k] = h[k]
      PROVE  F[g][n] = F[h][n]
  BY <1>2 DEF Ranked
<1>3. ASSUME Bad # {} PROVE FALSE
  <2> DEFINE id == [m \in 0 .. (M + 1) |-> m]
  <2>1. PICK x \in Bad : \A y \in Bad : ~(y < x)
    <3>1. id \in [0 .. (M + 1) -> 0 .. (M + 1)] /\ M + 1 \in Nat
      OBVIOUS
    <3>2. Bad \in SUBSET (0 .. (M + 1))
      OBVIOUS
    <3>3. PICK x \in Bad : \A y \in Bad : ~(id[y] < id[x])
      <4>1. Ranking(id, 0 .. (M + 1), M + 1)
        BY <3>1 DEF Ranking
      <4> HIDE DEF Bad, id
      <4>2. HasLeast(id, Bad)
        BY <1>3, <3>2, <4>1, LeastRank
      <4>. QED  BY <4>2 DEF HasLeast
    <3>. QED  BY <3>3
  <2>2. x \in 0 .. (M + 1) /\ \A n \in D : r[n] \in 0 .. M
    OBVIOUS
  <2>3. x # 0
    <3>1. PICK v \in V : TRUE
      OBVIOUS
    <3>2. [n \in D |-> v] \in [D -> V]
      OBVIOUS
    <3>3. Solves([n \in D |-> v], 0)
      BY <2>2
    <3>. QED  BY <3>2, <3>3
  <2>4. PICK f \in [D -> V] : Solves(f, x - 1)
    <3>1. x - 1 \in 0 .. (M + 1) /\ x - 1 < x
      BY <2>2, <2>3
    <3>2. x - 1 \notin Bad
      BY <3>1, <2>1
    <3>. QED  BY <3>1, <3>2
  <2>5. ASSUME NEW n \in D, r[n] < x PROVE F[f][n] = F[F[f]][n]
    <3>1. \A k \in D : r[k] < r[n] => f[k] = F[f][k]
      BY <2>2, <2>4, <2>5
    <3>2. F[f] \in [D -> V]
      BY <1>1
    <3>. QED  BY <3>1, <3>2, <1>2
  <2>6. F[f] \in [D -> V]
    BY <1>1
  <2>7. Solves(F[f], x)
    BY <2>5
  <2>. QED  BY <2>6, <2>7
<1>4. PICK f \in [D -> V] : Solves(f, M + 1)
  <2>1. M + 1 \in 0 .. (M + 1)
    OBVIOUS
  <2>. QED  BY <1>3, <2>1
<1>5. \A n \in D : f[n] = F[f][n]
  <2>1. \A n \in D : r[n] \in 0 .. M
    OBVIOUS
  <2>. QED  BY <1>4, <2>1
<1>6. f = F[f]
  BY <1>1, <1>5
<1>. QED
  BY <1>6

-----------------------------------------------------------------------------
\* Information order: an open status may still become anything.
Refines(x, y) == x = "PENDING" \/ x = y

\* combine() returns a status (benefitEligibility.service.ts:227-239).
THEOREM CombineType ==
    ASSUME NEW op \in LogicalOperator, NEW results
    PROVE  Combine(op, results) \in Status
BY DEF Combine, Decisive, Neutral, LogicalOperator, Status

\* combine() is open only when some child is open.
THEOREM CombineOpen ==
    ASSUME NEW op \in LogicalOperator, NEW results,
           Combine(op, results) = "PENDING"
    PROVE  "PENDING" \in results /\ Decisive(op) \notin results
BY DEF Combine, Decisive, Neutral, LogicalOperator

\* combine() is monotone: when every child keeps what it has decided, so does
\* the group.  A decided group therefore never reopens and never flips as the
\* open questions below it get answered.
THEOREM CombineMonotone ==
    ASSUME NEW op \in LogicalOperator, NEW Kids,
           NEW before \in [Kids -> Status], NEW after \in [Kids -> Status],
           \A k \in Kids : Refines(before[k], after[k])
    PROVE  Refines(Combine(op, {before[k] : k \in Kids}),
                   Combine(op, {after[k] : k \in Kids}))
<1> DEFINE b == {before[k] : k \in Kids}
           a == {after[k] : k \in Kids}
<1>1. CASE Decisive(op) \in b
  <2>1. PICK k \in Kids : before[k] = Decisive(op)
    BY <1>1
  <2>2. after[k] = Decisive(op)
    BY <2>1 DEF Refines, Decisive
  <2>3. Decisive(op) \in a
    BY <2>2
  <2>. QED
    BY <1>1, <2>3 DEF Combine, Refines
<1>2. CASE Decisive(op) \notin b /\ "PENDING" \in b
  BY <1>2 DEF Combine, Refines
<1>3. CASE Decisive(op) \notin b /\ "PENDING" \notin b
  <2>1. \A k \in Kids : before[k] = after[k]
    BY <1>3 DEF Refines
  <2>2. a = b
    BY <2>1
  <2>. QED
    BY <2>2 DEF Refines
<1>. QED
  BY <1>1, <1>2, <1>3

\* evaluateLeafNode returns a status.
LEMMA LeafType ==
    ASSUME NEW leaf, NEW given, NEW hidden
    PROVE  LeafStatus(leaf, given, hidden) \in Status
BY DEF LeafStatus, Status

\* A leaf that tests no presence keeps a decided status while real answers and
\* hidden questions stay what they are (benefitEligibility.service.ts:248-305).
THEOREM LeafMonotone ==
    ASSUME NEW leaf, leaf.presence = FALSE,
           NEW before \in Answers, NEW after \in Answers,
           leaf.field \in Field,
           NEW hiddenBefore, NEW hiddenAfter,
           before[leaf.field] \in Value => after[leaf.field] = before[leaf.field],
           leaf.field \in hiddenBefore /\ before[leaf.field] \notin Value
             => leaf.field \in hiddenAfter /\ after[leaf.field] \notin Value
    PROVE  Refines(LeafStatus(leaf, before, hiddenBefore),
                   LeafStatus(leaf, after, hiddenAfter))
<1>1. CASE before[leaf.field] \in Value
  <2>1. after[leaf.field] = before[leaf.field]
    BY <1>1
  <2>. QED
    BY <1>1, <2>1 DEF LeafStatus, Refines
<1>2. CASE before[leaf.field] \notin Value /\ leaf.field \in hiddenBefore
  <2>1. leaf.field \in hiddenAfter /\ after[leaf.field] \notin Value
    BY <1>2
  <2>. QED
    BY <1>2, <2>1 DEF LeafStatus, Refines
<1>3. CASE before[leaf.field] \notin Value /\ leaf.field \notin hiddenBefore
  BY <1>3 DEF LeafStatus, Refines
<1>. QED
  BY <1>1, <1>2, <1>3

\* What the quiz asks for has no real answer yet, residency included
\* (benefitEligibility.service.ts:60-72).
THEOREM AskedIsUnanswered ==
    ASSUME NEW cat, NEW b, NEW given,
           NEW f \in UnansweredFieldIds(cat, b, given)
    PROVE  given[f] \notin Value
<1>1. CASE f \in ResidencyPending(cat, b, given)
  BY <1>1 DEF ResidencyPending, ResidencyStatus
<1>2. CASE f \notin ResidencyPending(cat, b, given)
  BY <1>2 DEF UnansweredFieldIds, WithoutRepeaterSubfields
<1>. QED
  BY <1>1, <1>2

-----------------------------------------------------------------------------
\* What the nodes of a tree are.
LEMMA NodeShape ==
    ASSUME NEW tree \in Tree, NEW n \in DOMAIN tree
    PROVE  /\ IsGroup(tree[n]) => /\ tree[n].op \in LogicalOperator
                                  /\ tree[n].kids \subseteq DOMAIN tree
                                  /\ \A k \in tree[n].kids : k > n
           /\ ~IsGroup(tree[n]) => /\ tree[n].field \in Field
                                   /\ tree[n].accepts \subseteq Answer
                                   /\ tree[n].presence \in BOOLEAN
<1>1. tree \in Seq(Node) /\ tree[n] \in Node /\ DOMAIN tree = 1 .. Len(tree)
  BY DEF Tree
<1>2. /\ tree[n].kind = "group" => tree[n].op \in LogicalOperator
      /\ tree[n].kind # "group" => /\ tree[n].field \in Field
                                   /\ tree[n].accepts \subseteq Answer
                                   /\ tree[n].presence \in BOOLEAN
  BY <1>1 DEF Node
<1>3. IsGroup(tree[n]) => tree[n].kids \subseteq (n + 1) .. Len(tree)
  BY DEF Tree
<1>. QED
  BY <1>1, <1>2, <1>3 DEF IsGroup

\* The rank of a node: how many nodes come after it.
LEMMA NodeRanks ==
    ASSUME NEW tree \in Tree
    PROVE  LET r == [n \in DOMAIN tree |-> Len(tree) - n]
           IN  /\ Len(tree) \in Nat
               /\ r \in [DOMAIN tree -> 0 .. Len(tree)]
               /\ \A n \in DOMAIN tree :
                    IsGroup(tree[n]) => \A k \in tree[n].kids : k \in DOMAIN tree /\ r[k] < r[n]
<1>1. Len(tree) \in Nat /\ DOMAIN tree = 1 .. Len(tree)
  BY DEF Tree
<1>. QED
  BY <1>1, NodeShape

\* Induction on trees: a set of nodes that holds every node whose kids it
\* holds holds them all.
LEMMA TreeInduction ==
    ASSUME NEW tree \in Tree, NEW Good \in SUBSET DOMAIN tree,
           \A n \in DOMAIN tree :
              (IsGroup(tree[n]) => tree[n].kids \subseteq Good) => n \in Good
    PROVE  Good = DOMAIN tree
<1> DEFINE r == [n \in DOMAIN tree |-> Len(tree) - n]
           Bad == DOMAIN tree \ Good
<1>1. SUFFICES ASSUME Bad # {} PROVE FALSE
  OBVIOUS
<1>2. /\ Len(tree) \in Nat
      /\ r \in [DOMAIN tree -> 0 .. Len(tree)]
      /\ \A n \in DOMAIN tree :
            IsGroup(tree[n]) => \A k \in tree[n].kids : k \in DOMAIN tree /\ r[k] < r[n]
  BY NodeRanks
<1>3. PICK n \in Bad : \A m \in Bad : ~(r[m] < r[n])
  <2>1. Bad \in SUBSET DOMAIN tree
    OBVIOUS
  <2>2. Ranking(r, DOMAIN tree, Len(tree))
    BY <1>2 DEF Ranking
  <2> HIDE DEF r, Bad
  <2>3. HasLeast(r, Bad)
    BY <1>1, <2>1, <2>2, LeastRank
  <2>. QED  BY <2>3 DEF HasLeast
<1>4. IsGroup(tree[n]) => tree[n].kids \subseteq Good
  <2> HIDE DEF r
  <2>. QED  BY <1>2, <1>3
<1>. QED
  BY <1>4

\* evaluateTreeNode gives every node the status its recursion prescribes.
Evaluates(s, tree, given, hidden) ==
    /\ s \in [DOMAIN tree -> Status]
    /\ \A n \in DOMAIN tree :
         s[n] = IF IsGroup(tree[n])
                THEN Combine(tree[n].op, {s[k] : k \in tree[n].kids})
                ELSE LeafStatus(tree[n], given, hidden)

LEMMA NodeStatusEquation ==
    ASSUME NEW tree \in Tree, NEW given, NEW hidden
    PROVE  Evaluates(NodeStatus(tree, given, hidden), tree, given, hidden)
<1>. USE DEF Evaluates
<1> DEFINE D == DOMAIN tree
           M == Len(tree)
           r == [n \in D |-> M - n]
           Rhs(s, n) == IF IsGroup(tree[n])
                        THEN Combine(tree[n].op, {s[k] : k \in tree[n].kids})
                        ELSE LeafStatus(tree[n], given, hidden)
           F == [g \in [D -> Status] |-> [n \in D |-> Rhs(g, n)]]
           Solution(s) == s = [n \in D |-> Rhs(s, n)]
<1>1. NodeStatus(tree, given, hidden) = CHOOSE s : Solution(s)
  BY DEF NodeStatus
<1>2. /\ M \in Nat /\ r \in [D -> 0 .. M]
      /\ \A n \in D : IsGroup(tree[n]) => \A k \in tree[n].kids : k \in D /\ r[k] < r[n]
  BY NodeRanks
<1>3. ASSUME NEW s, NEW n \in D PROVE Rhs(s, n) \in Status
  BY <1>3, NodeShape, CombineType, LeafType
<1>4. F \in [[D -> Status] -> [D -> Status]]
  <2> HIDE DEF Rhs, D
  <2>. QED  BY <1>3
<1>5. ASSUME NEW g \in [D -> Status], NEW h \in [D -> Status], NEW n \in D,
             \A k \in D : r[k] < r[n] => g[k] = h[k]
      PROVE  F[g][n] = F[h][n]
  <2>1. Rhs(g, n) = Rhs(h, n)
    <3>1. CASE IsGroup(tree[n])
      <4>1. \A k \in tree[n].kids : g[k] = h[k]
        <5> HIDE DEF r, D
        <5>. QED  BY <1>2, <1>5, <3>1
      <4>. QED  BY <4>1, <3>1
    <3>. QED  BY <3>1
  <2> HIDE DEF Rhs, D
  <2>. QED  BY <2>1
<1>6. PICK f \in [D -> Status] : f = F[f]
  <2>1. Status # {}
    BY DEF Status
  <2>2. Ranked(F, D, Status, r)
    <3> HIDE DEF F, D, r
    <3>. QED  BY <1>4, <1>5 DEF Ranked
  <2> HIDE DEF F, D, r, M
  <2>. QED  BY <1>2, <2>1, <2>2, RecursionExists
<1>7. Solution(f)
  <2> HIDE DEF Rhs, D
  <2>. QED  BY <1>6
<1> DEFINE s == NodeStatus(tree, given, hidden)
<1>8. Solution(s)
  <2> HIDE DEF Solution
  <2>. QED  BY <1>1, <1>7
<1>9. s \in [D -> Status] /\ \A n \in D : s[n] = Rhs(s, n)
  <2> HIDE DEF s, Rhs, D
  <2>. QED  BY <1>3, <1>8
<1>. QED
  BY <1>9

\* isClientTreeVisible likewise.
LEMMA NodeVisibleEquation ==
    ASSUME NEW tree \in Tree, NEW given
    PROVE  LET s == NodeVisible(tree, given)
           IN  /\ s \in [DOMAIN tree -> BOOLEAN]
               /\ \A n \in DOMAIN tree :
                    /\ ~IsGroup(tree[n]) =>
                         (s[n] <=> /\ given[tree[n].field] \in Value
                                   /\ given[tree[n].field] \in tree[n].accepts)
                    /\ IsGroup(tree[n]) /\ tree[n].op = "ALL" =>
                         (s[n] <=> \A k \in tree[n].kids : s[k])
                    /\ IsGroup(tree[n]) /\ tree[n].op # "ALL" =>
                         (s[n] <=> \E k \in tree[n].kids : s[k])
<1> DEFINE D == DOMAIN tree
           M == Len(tree)
           r == [n \in D |-> M - n]
           Rhs(s, n) ==
              IF ~IsGroup(tree[n])
              THEN /\ given[tree[n].field] \in Value
                   /\ given[tree[n].field] \in tree[n].accepts
              ELSE IF tree[n].op = "ALL"
                   THEN \A k \in tree[n].kids : s[k]
                   ELSE \E k \in tree[n].kids : s[k]
           F == [g \in [D -> BOOLEAN] |-> [n \in D |-> Rhs(g, n)]]
           Solution(s) == s = [n \in D |-> Rhs(s, n)]
<1>1. NodeVisible(tree, given) = CHOOSE s : Solution(s)
  BY DEF NodeVisible
<1>2. /\ M \in Nat /\ r \in [D -> 0 .. M]
      /\ \A n \in D : IsGroup(tree[n]) => \A k \in tree[n].kids : k \in D /\ r[k] < r[n]
  BY NodeRanks
<1>3. ASSUME NEW s, NEW n \in D PROVE Rhs(s, n) \in BOOLEAN
  OBVIOUS
<1>4. F \in [[D -> BOOLEAN] -> [D -> BOOLEAN]]
  <2> HIDE DEF Rhs, D
  <2>. QED  BY <1>3
<1>5. ASSUME NEW g \in [D -> BOOLEAN], NEW h \in [D -> BOOLEAN], NEW n \in D,
             \A k \in D : r[k] < r[n] => g[k] = h[k]
      PROVE  F[g][n] = F[h][n]
  <2>1. Rhs(g, n) = Rhs(h, n)
    <3>1. CASE IsGroup(tree[n])
      <4>1. \A k \in tree[n].kids : g[k] = h[k]
        <5> HIDE DEF r, D
        <5>. QED  BY <1>2, <1>5, <3>1
      <4>. QED  BY <4>1, <3>1
    <3>. QED  BY <3>1
  <2> HIDE DEF Rhs, D
  <2>. QED  BY <2>1
<1>6. PICK f \in [D -> BOOLEAN] : f = F[f]
  <2>1. Ranked(F, D, BOOLEAN, r)
    <3> HIDE DEF F, D, r
    <3>. QED  BY <1>4, <1>5 DEF Ranked
  <2>2. BOOLEAN # {}
    OBVIOUS
  <2> DEFINE V == BOOLEAN
  <2>3. Ranked(F, D, V, r) /\ V # {}
    BY <2>1, <2>2
  <2>4. \E f \in [D -> V] : f = F[f]
    <3> HIDE DEF F, D, r, M, V
    <3>. QED  BY <1>2, <2>3, RecursionExists
  <2>. QED  BY <2>4
<1>7. Solution(f)
  <2> HIDE DEF Rhs, D
  <2>. QED  BY <1>6
<1> DEFINE s == NodeVisible(tree, given)
<1>8. Solution(s)
  <2> HIDE DEF Solution
  <2>. QED  BY <1>1, <1>7
<1>9. s \in [D -> BOOLEAN] /\ \A n \in D : s[n] = Rhs(s, n)
  <2> HIDE DEF s, Rhs, D
  <2>. QED  BY <1>3, <1>8
<1>. QED
  BY <1>9

\* The open questions of a node are the open leaves below it, reached through
\* open groups only.
LEMMA NodePendingEquation ==
    ASSUME NEW tree \in Tree, NEW given, NEW hidden
    PROVE  LET s == NodeStatus(tree, given, hidden)
               p == NodePending(tree, given, hidden)
           IN  /\ p \in [DOMAIN tree -> SUBSET Field]
               /\ \A n \in DOMAIN tree :
                    /\ s[n] # "PENDING" => p[n] = {}
                    /\ s[n] = "PENDING" /\ IsGroup(tree[n]) =>
                         p[n] = UNION {p[k] : k \in tree[n].kids}
                    /\ s[n] = "PENDING" /\ ~IsGroup(tree[n]) => p[n] = {tree[n].field}
<1> DEFINE D == DOMAIN tree
           M == Len(tree)
           V == SUBSET Field
           r == [n \in D |-> M - n]
           s == NodeStatus(tree, given, hidden)
           Rhs(p, n) ==
              IF s[n] # "PENDING" THEN {}
              ELSE IF IsGroup(tree[n])
                   THEN UNION {p[k] : k \in tree[n].kids}
                   ELSE {tree[n].field}
           F == [g \in [D -> V] |-> [n \in D |-> Rhs(g, n)]]
           Solution(p) == p = [n \in D |-> Rhs(p, n)]
<1>1. NodePending(tree, given, hidden) = CHOOSE p : Solution(p)
  BY DEF NodePending
<1>2. /\ M \in Nat /\ r \in [D -> 0 .. M]
      /\ \A n \in D : IsGroup(tree[n]) => \A k \in tree[n].kids : k \in D /\ r[k] < r[n]
  BY NodeRanks
<1>3. ASSUME NEW p \in [D -> V], NEW n \in D PROVE Rhs(p, n) \in V
  <2>1. IsGroup(tree[n]) => \A k \in tree[n].kids : p[k] \in V
    <3> HIDE DEF V, D, r
    <3>. QED  BY <1>2, <1>3
  <2>2. ~IsGroup(tree[n]) => tree[n].field \in Field
    BY NodeShape
  <2> HIDE DEF s
  <2>. QED  BY <2>1, <2>2
<1>4. F \in [[D -> V] -> [D -> V]]
  <2> HIDE DEF Rhs, D, V
  <2>. QED  BY <1>3
<1>5. ASSUME NEW g \in [D -> V], NEW h \in [D -> V], NEW n \in D,
             \A k \in D : r[k] < r[n] => g[k] = h[k]
      PROVE  F[g][n] = F[h][n]
  <2>1. Rhs(g, n) = Rhs(h, n)
    <3>1. CASE IsGroup(tree[n])
      <4>1. \A k \in tree[n].kids : g[k] = h[k]
        <5> HIDE DEF r, D
        <5>. QED  BY <1>2, <1>5, <3>1
      <4> HIDE DEF s
      <4>. QED  BY <4>1, <3>1
    <3>. QED  BY <3>1
  <2> HIDE DEF Rhs, D, V
  <2>. QED  BY <2>1
<1>6. PICK f \in [D -> V] : f = F[f]
  <2>1. Ranked(F, D, V, r)
    <3> HIDE DEF F, D, r, V
    <3>. QED  BY <1>4, <1>5 DEF Ranked
  <2>2. V # {}
    OBVIOUS
  <2> HIDE DEF F, D, r, M, V
  <2>. QED  BY <1>2, <2>1, <2>2, RecursionExists
<1>7. Solution(f)
  <2> HIDE DEF Rhs, D, V
  <2>. QED  BY <1>6
<1> DEFINE p == NodePending(tree, given, hidden)
<1>8. Solution(p)
  <2> HIDE DEF Solution
  <2>. QED  BY <1>1, <1>7
<1> DEFINE Good == {n \in D : p[n] \in V}
<1>9. Good = D
  <2>1. ASSUME NEW n \in D, IsGroup(tree[n]) => tree[n].kids \subseteq Good
        PROVE  n \in Good
    <3>1. p[n] = Rhs(p, n)
      <4> HIDE DEF p, Rhs, D
      <4>. QED  BY <1>8
    <3>2. IsGroup(tree[n]) => \A k \in tree[n].kids : p[k] \in V
      BY <2>1
    <3>3. ~IsGroup(tree[n]) => tree[n].field \in Field
      BY NodeShape
    <3> HIDE DEF p, s
    <3>. QED  BY <3>1, <3>2, <3>3
  <2> HIDE DEF Good
  <2>2. Good \in SUBSET DOMAIN tree
    BY DEF Good
  <2>. QED  BY <2>1, <2>2, TreeInduction
<1>10. p \in [D -> V] /\ \A n \in D : p[n] = Rhs(p, n)
  <2> HIDE DEF p, Rhs, D, V
  <2>1. \A n \in D : p[n] \in V
    BY <1>9
  <2>. QED  BY <1>8, <2>1
<1>11. ASSUME NEW n \in D
       PROVE  /\ s[n] # "PENDING" => p[n] = {}
              /\ s[n] = "PENDING" /\ IsGroup(tree[n]) =>
                   p[n] = UNION {p[k] : k \in tree[n].kids}
              /\ s[n] = "PENDING" /\ ~IsGroup(tree[n]) => p[n] = {tree[n].field}
  <2>1. p[n] = Rhs(p, n)
    BY <1>10
  <2> HIDE DEF p, s
  <2>. QED  BY <2>1
<1>. QED
  BY <1>10, <1>11

-----------------------------------------------------------------------------
\* Induction on 0 .. M.
LEMMA BoundedInduction ==
    ASSUME NEW M \in Nat, NEW Good \in SUBSET (0 .. M),
           0 \in Good, \A i \in 1 .. M : i - 1 \in Good => i \in Good
    PROVE  Good = 0 .. M
<1> DEFINE D == 0 .. M
           r == [i \in D |-> i]
           Bad == D \ Good
<1>1. SUFFICES ASSUME Bad # {} PROVE FALSE
  OBVIOUS
<1>2. r \in [D -> 0 .. M] /\ Bad \in SUBSET D
  OBVIOUS
<1>3. PICK i \in Bad : \A j \in Bad : ~(r[j] < r[i])
  <2>1. Ranking(r, D, M)
    BY <1>2 DEF Ranking
  <2> HIDE DEF r, Bad, D
  <2>2. HasLeast(r, Bad)
    BY <1>1, <1>2, <2>1, LeastRank
  <2>. QED  BY <2>2 DEF HasLeast
<1>4. i \in 1 .. M /\ i - 1 \in D /\ i - 1 < i
  OBVIOUS
<1>5. i - 1 \in Good
  BY <1>3, <1>4
<1>. QED
  BY <1>4, <1>5

LEMMA ReferencesType ==
    ASSUME NEW cat, WellFormed(cat), NEW f \in Field
    PROVE  References(cat.vis[f], f) \subseteq Field
<1>1. cat.vis[f] \in Tree
  BY DEF WellFormed
<1>. QED
  BY <1>1, NodeShape DEF References, LeafFields

LEMMA ExpandType ==
    ASSUME NEW cat, WellFormed(cat), NEW fields \in SUBSET Field
    PROVE  Expand(cat, fields) \in SUBSET Field /\ fields \subseteq Expand(cat, fields)
BY ReferencesType DEF Expand

\* expandWithVisibilityDeps, one pass after the other.
LEMMA PassesEquation ==
    ASSUME NEW cat, WellFormed(cat), NEW fields \in SUBSET Field
    PROVE  LET c == Passes(cat, fields)
               M == Cardinality(Field)
           IN  /\ M \in Nat
               /\ c \in [0 .. M -> SUBSET Field]
               /\ c[0] = fields
               /\ \A i \in 1 .. M : c[i] = Expand(cat, c[i - 1])
<1> DEFINE M == Cardinality(Field)
           D == 0 .. M
           V == SUBSET Field
           r == [i \in D |-> i]
           Rhs(c, i) == IF i = 0 THEN fields ELSE Expand(cat, c[i - 1])
           F == [g \in [D -> V] |-> [i \in D |-> Rhs(g, i)]]
           Solution(c) == c = [i \in D |-> Rhs(c, i)]
<1>1. Passes(cat, fields) = CHOOSE c : Solution(c)
  BY DEF Passes
<1>2. M \in Nat /\ r \in [D -> 0 .. M]
  BY EligibilityAssumption, FS_CardinalityType DEF EligibilityAssumption
<1> HIDE DEF M
<1>3. ASSUME NEW c \in [D -> V], NEW i \in D PROVE Rhs(c, i) \in V
  <2>1. CASE i = 0
    BY <2>1
  <2>2. CASE i # 0
    <3>1. c[i - 1] \in V
      BY <1>2, <2>2
    <3>. QED  BY <2>2, <3>1, ExpandType
  <2>. QED  BY <2>1, <2>2
<1>4. F \in [[D -> V] -> [D -> V]]
  <2> HIDE DEF Rhs, D, V
  <2>. QED  BY <1>3
<1>5. ASSUME NEW g \in [D -> V], NEW h \in [D -> V], NEW i \in D,
             \A k \in D : r[k] < r[i] => g[k] = h[k]
      PROVE  F[g][i] = F[h][i]
  <2>1. i # 0 => g[i - 1] = h[i - 1]
    <3>1. i # 0 => i - 1 \in D /\ i - 1 < i
      BY <1>2
    <3>. QED  BY <1>5, <3>1
  <2>2. Rhs(g, i) = Rhs(h, i)
    BY <2>1
  <2> HIDE DEF Rhs, D, V
  <2>. QED  BY <2>2
<1>6. PICK f \in [D -> V] : f = F[f]
  <2>1. Ranked(F, D, V, r)
    <3> HIDE DEF F, D, r, V
    <3>. QED  BY <1>4, <1>5 DEF Ranked
  <2>2. V # {}
    OBVIOUS
  <2> HIDE DEF F, D, r, V
  <2>. QED  BY <1>2, <2>1, <2>2, RecursionExists
<1>7. Solution(f)
  <2> HIDE DEF Rhs, D, V
  <2>. QED  BY <1>6
<1> DEFINE c == Passes(cat, fields)
<1>8. Solution(c)
  <2> HIDE DEF Solution
  <2>. QED  BY <1>1, <1>7
<1>9. \A i \in D : c[i] = Rhs(c, i)
  <2> HIDE DEF c, Rhs, D
  <2>. QED  BY <1>8
<1> DEFINE Good == {i \in D : c[i] \in V}
<1>10. Good = D
  <2> HIDE DEF c
  <2>1. 0 \in Good
    BY <1>2, <1>9
  <2>2. ASSUME NEW i \in 1 .. M, i - 1 \in Good PROVE i \in Good
    <3>1. c[i - 1] \in V /\ i \in D /\ i # 0
      BY <1>2, <2>2
    <3>2. c[i] = Expand(cat, c[i - 1])
      BY <1>9, <3>1
    <3>. QED  BY <3>1, <3>2, ExpandType
  <2>3. Good \in SUBSET (0 .. M)
    OBVIOUS
  <2> HIDE DEF Good
  <2>. QED  BY <1>2, <2>1, <2>2, <2>3, BoundedInduction
<1>11. c \in [D -> V]
  <2>1. \A i \in D : c[i] \in V
    BY <1>10
  <2> HIDE DEF c, Rhs, D, V
  <2>. QED  BY <1>8, <2>1
<1>12. c[0] = fields /\ \A i \in 1 .. M : c[i] = Expand(cat, c[i - 1])
  <2> HIDE DEF c
  <2>. QED  BY <1>2, <1>9
<1>. QED
  BY <1>2, <1>11, <1>12 DEF M

\* The question list is complete: it holds the benefit's own questions, and
\* the driver of every question in it as well as every live follow-up of one,
\* so that the quiz can always render what it asks
\* (benefitEligibility.service.ts:143-166, "expand until nothing new turns up
\* either way").  The loop ends after at most one pass per field.
THEOREM QuestionsClosed ==
    ASSUME NEW cat, WellFormed(cat), NEW fields \in SUBSET Field
    PROVE  LET all == ExpandWithVisibilityDeps(cat, fields)
           IN  /\ all \subseteq Field /\ fields \subseteq all
               /\ Expand(cat, all) = all
<1> DEFINE M == Cardinality(Field)
           c == Passes(cat, fields)
           Closed(i) == Expand(cat, c[i]) = c[i]
           Good == {i \in 0 .. M : /\ fields \subseteq c[i]
                                   /\ Closed(i) \/ Cardinality(c[i]) >= i}
<1>1. /\ M \in Nat
      /\ c \in [0 .. M -> SUBSET Field]
      /\ c[0] = fields
      /\ \A i \in 1 .. M : c[i] = Expand(cat, c[i - 1])
  BY PassesEquation
<1> HIDE DEF c
<1>2. \A i \in 0 .. M : IsFiniteSet(c[i]) /\ Cardinality(c[i]) \in Nat
  <2>1. ASSUME NEW i \in 0 .. M PROVE IsFiniteSet(c[i]) /\ Cardinality(c[i]) \in Nat
    <3>1. c[i] \in SUBSET Field /\ IsFiniteSet(Field)
      BY <1>1, EligibilityAssumption DEF EligibilityAssumption
    <3>2. IsFiniteSet(c[i])
      BY <3>1, FS_Subset
    <3>. QED  BY <3>2, FS_CardinalityType
  <2>. QED  BY <2>1
<1>3. Good = 0 .. M
  <2>1. 0 \in Good
    BY <1>1, <1>2
  <2>2. ASSUME NEW i \in 1 .. M, i - 1 \in Good PROVE i \in Good
    <3>1. i \in 0 .. M /\ i - 1 \in 0 .. M
      BY <1>1
    <3>2. c[i] = Expand(cat, c[i - 1]) /\ c[i - 1] \in SUBSET Field
      BY <1>1, <3>1
    <3>3. c[i - 1] \subseteq c[i]
      BY <3>2, ExpandType
    <3>4. CASE Closed(i - 1)
      BY <2>2, <3>1, <3>2, <3>4
    <3>5. CASE ~Closed(i - 1)
      <4>1. Cardinality(c[i - 1]) >= i - 1 /\ c[i - 1] # c[i]
        BY <2>2, <3>2, <3>5
      <4>2. Cardinality(c[i - 1]) <= Cardinality(c[i])
            /\ Cardinality(c[i - 1]) # Cardinality(c[i])
        BY <1>2, <3>1, <3>3, <4>1, FS_Subset
      <4>3. Cardinality(c[i - 1]) \in Nat /\ Cardinality(c[i]) \in Nat
        BY <1>2, <3>1
      <4>4. Cardinality(c[i]) >= i
        BY <4>1, <4>2, <4>3
      <4>. QED  BY <2>2, <3>1, <3>3, <4>4
    <3>. QED  BY <3>4, <3>5
  <2>3. Good \in SUBSET (0 .. M)
    OBVIOUS
  <2> HIDE DEF Good, M
  <2>. QED  BY <1>1, <2>1, <2>2, <2>3, BoundedInduction
<1>4. M \in 0 .. M
  BY <1>1
<1>5. fields \subseteq c[M] /\ c[M] \in SUBSET Field
      /\ (Closed(M) \/ Cardinality(c[M]) >= M)
  BY <1>1, <1>3, <1>4
<1>6. Closed(M)
  <2>1. CASE Cardinality(c[M]) >= M
    <3>1. IsFiniteSet(Field)
      BY EligibilityAssumption DEF EligibilityAssumption
    <3>2. Cardinality(c[M]) <= M /\ (M = Cardinality(c[M]) => Field = c[M])
      BY <1>5, <3>1, FS_Subset
    <3>3. Cardinality(c[M]) \in Nat
      BY <1>2, <1>4
    <3>4. c[M] = Field
      BY <1>1, <2>1, <3>2, <3>3
    <3>. QED  BY <3>4, ExpandType
  <2>. QED  BY <2>1, <1>5
<1>. QED
  BY <1>5, <1>6 DEF ExpandWithVisibilityDeps, c

-----------------------------------------------------------------------------
\* evaluateTreeNode is monotone: when every condition keeps what it has
\* decided, so does the tree, however it is nested.
THEOREM TreeMonotone ==
    ASSUME NEW tree \in Tree, NEW before, NEW after,
           NEW hiddenBefore, NEW hiddenAfter,
           \A n \in DOMAIN tree : ~IsGroup(tree[n]) =>
              Refines(LeafStatus(tree[n], before, hiddenBefore),
                      LeafStatus(tree[n], after, hiddenAfter))
    PROVE  Refines(TreeStatus(tree, before, hiddenBefore),
                   TreeStatus(tree, after, hiddenAfter))
<1> DEFINE D == DOMAIN tree
           s == NodeStatus(tree, before, hiddenBefore)
           t == NodeStatus(tree, after, hiddenAfter)
           Good == {n \in D : Refines(s[n], t[n])}
<1>1. /\ s \in [D -> Status] /\ t \in [D -> Status]
      /\ \A n \in D :
           /\ s[n] = IF IsGroup(tree[n])
                     THEN Combine(tree[n].op, {s[k] : k \in tree[n].kids})
                     ELSE LeafStatus(tree[n], before, hiddenBefore)
           /\ t[n] = IF IsGroup(tree[n])
                     THEN Combine(tree[n].op, {t[k] : k \in tree[n].kids})
                     ELSE LeafStatus(tree[n], after, hiddenAfter)
  <2>1. Evaluates(s, tree, before, hiddenBefore) /\ Evaluates(t, tree, after, hiddenAfter)
    BY NodeStatusEquation
  <2> HIDE DEF s, t
  <2>. QED  BY <2>1 DEF Evaluates
<1> HIDE DEF s, t
<1>2. Good = D
  <2>1. ASSUME NEW n \in D, IsGroup(tree[n]) => tree[n].kids \subseteq Good
        PROVE  n \in Good
    <3>1. CASE IsGroup(tree[n])
      <4> DEFINE Kids == tree[n].kids
                 sk == [k \in Kids |-> s[k]]
                 tk == [k \in Kids |-> t[k]]
      <4>1. /\ tree[n].op \in LogicalOperator
            /\ Kids \subseteq D
            /\ \A k \in Kids : Refines(s[k], t[k])
        BY <2>1, <3>1, NodeShape
      <4>2. /\ sk \in [Kids -> Status] /\ tk \in [Kids -> Status]
            /\ \A k \in Kids : Refines(sk[k], tk[k])
        BY <1>1, <4>1
      <4>3. Refines(Combine(tree[n].op, {sk[k] : k \in Kids}),
                    Combine(tree[n].op, {tk[k] : k \in Kids}))
        <5> HIDE DEF sk, tk, Kids
        <5>. QED  BY <4>1, <4>2, CombineMonotone
      <4>4. /\ {sk[k] : k \in Kids} = {s[k] : k \in Kids}
            /\ {tk[k] : k \in Kids} = {t[k] : k \in Kids}
        OBVIOUS
      <4>. QED  BY <1>1, <3>1, <4>3, <4>4
    <3>2. CASE ~IsGroup(tree[n])
      BY <1>1, <3>2
    <3>. QED  BY <3>1, <3>2
  <2>2. Good \in SUBSET DOMAIN tree
    OBVIOUS
  <2> HIDE DEF Good
  <2>. QED  BY <2>1, <2>2, TreeInduction
<1>3. CASE tree = <<>>
  BY <1>3 DEF TreeStatus, Refines
<1>4. CASE tree # <<>>
  <2>1. 1 \in D
    BY <1>4 DEF Tree
  <2>. QED  BY <1>2, <1>4, <2>1 DEF TreeStatus, s, t
<1>. QED
  BY <1>3, <1>4

\* Whether a question is shown depends on the answers its tree reads only
\* (benefitEligibility.service.ts:81-96).
LEMMA VisibleLocal ==
    ASSUME NEW tree \in Tree, NEW before, NEW after,
           \A f \in LeafFields(tree) : before[f] = after[f]
    PROVE  Visible(tree, before) <=> Visible(tree, after)
<1> DEFINE D == DOMAIN tree
           s == NodeVisible(tree, before)
           t == NodeVisible(tree, after)
           Good == {n \in D : s[n] = t[n]}
<1>1. /\ s \in [D -> BOOLEAN] /\ t \in [D -> BOOLEAN]
      /\ \A n \in D :
           /\ ~IsGroup(tree[n]) =>
                /\ s[n] <=> /\ before[tree[n].field] \in Value
                            /\ before[tree[n].field] \in tree[n].accepts
                /\ t[n] <=> /\ after[tree[n].field] \in Value
                            /\ after[tree[n].field] \in tree[n].accepts
           /\ IsGroup(tree[n]) /\ tree[n].op = "ALL" =>
                /\ s[n] <=> \A k \in tree[n].kids : s[k]
                /\ t[n] <=> \A k \in tree[n].kids : t[k]
           /\ IsGroup(tree[n]) /\ tree[n].op # "ALL" =>
                /\ s[n] <=> \E k \in tree[n].kids : s[k]
                /\ t[n] <=> \E k \in tree[n].kids : t[k]
  BY NodeVisibleEquation
<1> HIDE DEF s, t
<1>2. Good = D
  <2>1. ASSUME NEW n \in D, IsGroup(tree[n]) => tree[n].kids \subseteq Good
        PROVE  n \in Good
    <3>1. CASE IsGroup(tree[n])
      <4>1. \A k \in tree[n].kids : s[k] = t[k]
        BY <2>1, <3>1
      <4>2. s[n] <=> t[n]
        BY <1>1, <3>1, <4>1
      <4>3. s[n] \in BOOLEAN /\ t[n] \in BOOLEAN
        BY <1>1
      <4>. QED  BY <4>2, <4>3
    <3>2. CASE ~IsGroup(tree[n])
      <4>1. before[tree[n].field] = after[tree[n].field]
        BY <3>2 DEF LeafFields
      <4>2. s[n] <=> t[n]
        BY <1>1, <3>2, <4>1
      <4>3. s[n] \in BOOLEAN /\ t[n] \in BOOLEAN
        BY <1>1
      <4>. QED  BY <4>2, <4>3
    <3>. QED  BY <3>1, <3>2
  <2>2. Good \in SUBSET DOMAIN tree
    OBVIOUS
  <2> HIDE DEF Good
  <2>. QED  BY <2>1, <2>2, TreeInduction
<1>3. CASE tree = <<>>
  BY <1>3 DEF Visible
<1>4. CASE tree # <<>>
  <2>1. 1 \in D
    BY <1>4 DEF Tree
  <2>2. s[1] = t[1]
    BY <1>2, <2>1
  <2>. QED  BY <1>4, <2>2 DEF Visible, s, t
<1>. QED
  BY <1>3, <1>4

\* combine() returns its neutral value only when every child has it.
LEMMA CombineWitness ==
    ASSUME NEW op \in LogicalOperator, NEW results \in SUBSET Status, results # {}
    PROVE  Combine(op, results) \in results
BY DEF Combine, Decisive, Neutral, LogicalOperator, Status

\* The status of a tree without empty groups is the status of one of its
\* conditions.
THEOREM StatusWitness ==
    ASSUME NEW tree \in Tree, tree # <<>>, Populated(tree), NEW given, NEW hidden
    PROVE  \E n \in DOMAIN tree :
              /\ ~IsGroup(tree[n])
              /\ LeafStatus(tree[n], given, hidden) = TreeStatus(tree, given, hidden)
<1> DEFINE D == DOMAIN tree
           s == NodeStatus(tree, given, hidden)
           Leaf(m) == ~IsGroup(tree[m])
           Good == {n \in D : \E m \in D : Leaf(m) /\ LeafStatus(tree[m], given, hidden) = s[n]}
<1>1. /\ s \in [D -> Status]
      /\ \A n \in D :
           s[n] = IF IsGroup(tree[n])
                  THEN Combine(tree[n].op, {s[k] : k \in tree[n].kids})
                  ELSE LeafStatus(tree[n], given, hidden)
  <2>1. Evaluates(s, tree, given, hidden)
    BY NodeStatusEquation
  <2> HIDE DEF s
  <2>. QED  BY <2>1 DEF Evaluates
<1> HIDE DEF s
<1>2. Good = D
  <2>1. ASSUME NEW n \in D, IsGroup(tree[n]) => tree[n].kids \subseteq Good
        PROVE  n \in Good
    <3>1. CASE IsGroup(tree[n])
      <4> DEFINE results == {s[k] : k \in tree[n].kids}
      <4>1. tree[n].op \in LogicalOperator /\ tree[n].kids \subseteq D /\ tree[n].kids # {}
        BY <3>1, NodeShape DEF Populated
      <4>2. results \in SUBSET Status /\ results # {}
        BY <1>1, <4>1
      <4>3. s[n] \in results
        <5> HIDE DEF results
        <5>1. Combine(tree[n].op, results) \in results
          BY <4>1, <4>2, CombineWitness
        <5>. QED  BY <1>1, <3>1, <5>1 DEF results
      <4>4. PICK k \in tree[n].kids : s[n] = s[k]
        BY <4>3
      <4>5. k \in Good
        BY <2>1, <3>1, <4>4
      <4>. QED  BY <4>4, <4>5
    <3>2. CASE ~IsGroup(tree[n])
      BY <1>1, <3>2
    <3>. QED  BY <3>1, <3>2
  <2>2. Good \in SUBSET DOMAIN tree
    OBVIOUS
  <2> HIDE DEF Good
  <2>. QED  BY <2>1, <2>2, TreeInduction
<1>3. 1 \in D
  BY DEF Tree
<1>. QED
  BY <1>2, <1>3 DEF TreeStatus, s

\* What a benefit names as still pending is exactly what keeps it open: some
\* open condition when it is open, nothing when it is decided
\* (benefitEligibility.service.ts:215-239).
THEOREM PendingExplained ==
    ASSUME NEW tree \in Tree, NEW given, NEW hidden
    PROVE  LET pending == PendingFields(tree, given, hidden)
           IN  /\ TreeStatus(tree, given, hidden) = "PENDING" <=> pending # {}
               /\ \A f \in pending : \E n \in DOMAIN tree :
                    /\ ~IsGroup(tree[n]) /\ tree[n].field = f
                    /\ LeafStatus(tree[n], given, hidden) = "PENDING"
<1> DEFINE D == DOMAIN tree
           s == NodeStatus(tree, given, hidden)
           p == NodePending(tree, given, hidden)
           Asked(f) == \E m \in D : /\ ~IsGroup(tree[m]) /\ tree[m].field = f
                                    /\ LeafStatus(tree[m], given, hidden) = "PENDING"
           Good == {n \in D : (s[n] = "PENDING" <=> p[n] # {}) /\ \A f \in p[n] : Asked(f)}
<1>1. /\ s \in [D -> Status]
      /\ \A n \in D :
           s[n] = IF IsGroup(tree[n])
                  THEN Combine(tree[n].op, {s[k] : k \in tree[n].kids})
                  ELSE LeafStatus(tree[n], given, hidden)
  <2>1. Evaluates(s, tree, given, hidden)
    BY NodeStatusEquation
  <2> HIDE DEF s
  <2>. QED  BY <2>1 DEF Evaluates
<1>2. \A n \in D :
         /\ s[n] # "PENDING" => p[n] = {}
         /\ s[n] = "PENDING" /\ IsGroup(tree[n]) =>
              p[n] = UNION {p[k] : k \in tree[n].kids}
         /\ s[n] = "PENDING" /\ ~IsGroup(tree[n]) => p[n] = {tree[n].field}
  BY NodePendingEquation
<1> HIDE DEF s, p
<1>3. Good = D
  <2>1. ASSUME NEW n \in D, IsGroup(tree[n]) => tree[n].kids \subseteq Good
        PROVE  n \in Good
    <3>1. CASE s[n] # "PENDING"
      BY <1>2, <3>1
    <3>2. CASE s[n] = "PENDING" /\ IsGroup(tree[n])
      <4>1. p[n] = UNION {p[k] : k \in tree[n].kids}
        BY <1>2, <3>2
      <4>2. "PENDING" \in {s[k] : k \in tree[n].kids}
        <5> DEFINE results == {s[k] : k \in tree[n].kids}
        <5>1. Combine(tree[n].op, results) = "PENDING" /\ tree[n].op \in LogicalOperator
          BY <1>1, <3>2, NodeShape
        <5> HIDE DEF results
        <5>2. "PENDING" \in results
          BY <5>1, CombineOpen
        <5>. QED  BY <5>2 DEF results
      <4>3. PICK k \in tree[n].kids : s[k] = "PENDING"
        BY <4>2
      <4>4. p[k] # {}
        BY <2>1, <3>2, <4>3
      <4>5. p[n] # {}
        BY <4>1, <4>3, <4>4
      <4>6. \A f \in p[n] : Asked(f)
        BY <2>1, <3>2, <4>1
      <4>. QED  BY <3>2, <4>5, <4>6
    <3>3. CASE s[n] = "PENDING" /\ ~IsGroup(tree[n])
      BY <1>1, <1>2, <3>3
    <3>. QED  BY <3>1, <3>2, <3>3
  <2>2. Good \in SUBSET DOMAIN tree
    OBVIOUS
  <2> HIDE DEF Good
  <2>. QED  BY <2>1, <2>2, TreeInduction
<1>4. CASE tree = <<>>
  BY <1>4 DEF TreeStatus, PendingFields
<1>5. CASE tree # <<>>
  <2>1. 1 \in Good
    BY <1>3, <1>5 DEF Tree
  <2>. QED  BY <1>5, <2>1 DEF TreeStatus, PendingFields, s, p
<1>. QED
  BY <1>4, <1>5

\* An open tree can still go either way: when the answers that come meet every
\* open condition, or miss every one, the open groups follow and the decided
\* ones stay.
THEOREM TreeDecidable ==
    ASSUME NEW tree \in Tree, NEW before, NEW after,
           NEW hiddenBefore, NEW hiddenAfter,
           NEW x \in {"MATCHED", "NOT_ELIGIBLE"},
           \A n \in DOMAIN tree : ~IsGroup(tree[n]) =>
              LeafStatus(tree[n], after, hiddenAfter) =
                 IF LeafStatus(tree[n], before, hiddenBefore) = "PENDING"
                 THEN x ELSE LeafStatus(tree[n], before, hiddenBefore)
    PROVE  TreeStatus(tree, after, hiddenAfter) =
              IF TreeStatus(tree, before, hiddenBefore) = "PENDING"
              THEN x ELSE TreeStatus(tree, before, hiddenBefore)
<1> DEFINE D == DOMAIN tree
           s == NodeStatus(tree, before, hiddenBefore)
           t == NodeStatus(tree, after, hiddenAfter)
           Turn(y) == IF y = "PENDING" THEN x ELSE y
           Good == {n \in D : t[n] = Turn(s[n])}
<1>1. /\ s \in [D -> Status] /\ t \in [D -> Status]
      /\ \A n \in D :
           /\ s[n] = IF IsGroup(tree[n])
                     THEN Combine(tree[n].op, {s[k] : k \in tree[n].kids})
                     ELSE LeafStatus(tree[n], before, hiddenBefore)
           /\ t[n] = IF IsGroup(tree[n])
                     THEN Combine(tree[n].op, {t[k] : k \in tree[n].kids})
                     ELSE LeafStatus(tree[n], after, hiddenAfter)
  <2>1. Evaluates(s, tree, before, hiddenBefore) /\ Evaluates(t, tree, after, hiddenAfter)
    BY NodeStatusEquation
  <2> HIDE DEF s, t
  <2>. QED  BY <2>1 DEF Evaluates
<1> HIDE DEF s, t
<1>2. Good = D
  <2>1. ASSUME NEW n \in D, IsGroup(tree[n]) => tree[n].kids \subseteq Good
        PROVE  n \in Good
    <3>1. CASE IsGroup(tree[n])
      <4> DEFINE b == {s[k] : k \in tree[n].kids}
                 a == {t[k] : k \in tree[n].kids}
      <4>1. tree[n].op \in LogicalOperator /\ tree[n].kids \subseteq D
        BY <3>1, NodeShape
      <4>2. b \in SUBSET Status
        BY <1>1, <4>1
      <4>3. a = {Turn(y) : y \in b}
        <5>1. \A k \in tree[n].kids : t[k] = Turn(s[k])
          BY <2>1, <3>1
        <5> HIDE DEF Turn
        <5>. QED  BY <5>1
      <4>4. s[n] = Combine(tree[n].op, b) /\ t[n] = Combine(tree[n].op, a)
        BY <1>1, <3>1
      <4> HIDE DEF a, b
      <4>5. /\ \A y \in b : y # "PENDING" => y \in a
            /\ "PENDING" \in b => x \in a
            /\ \A y \in a : y # x => y \in b /\ y # "PENDING"
            /\ x \in a => x \in b \/ "PENDING" \in b
        BY <4>3
      <4>6. Combine(tree[n].op, a) = Turn(Combine(tree[n].op, b))
        <5>1. CASE Decisive(tree[n].op) \in b
          <6>1. Decisive(tree[n].op) \in a
            BY <4>5, <5>1 DEF Decisive
          <6>. QED  BY <5>1, <6>1 DEF Combine, Decisive
        <5>2. CASE Decisive(tree[n].op) \notin b /\ "PENDING" \in b
          <6>1. "PENDING" \notin a /\ x \in a
            BY <4>5, <5>2
          <6>2. Decisive(tree[n].op) \in a <=> x = Decisive(tree[n].op)
            BY <4>5, <5>2, <6>1
          <6>3. x \in {Decisive(tree[n].op), Neutral(tree[n].op)}
            BY <4>1 DEF Decisive, Neutral, LogicalOperator
          <6>. QED  BY <5>2, <6>1, <6>2, <6>3 DEF Combine
        <5>3. CASE Decisive(tree[n].op) \notin b /\ "PENDING" \notin b
          <6>1. Decisive(tree[n].op) \notin a /\ "PENDING" \notin a
            BY <4>5, <5>3
          <6>. QED  BY <5>3, <6>1 DEF Combine, Neutral
        <5>. QED  BY <5>1, <5>2, <5>3
      <4>. QED  BY <4>4, <4>6
    <3>2. CASE ~IsGroup(tree[n])
      BY <1>1, <3>2
    <3>. QED  BY <3>1, <3>2
  <2>2. Good \in SUBSET DOMAIN tree
    OBVIOUS
  <2> HIDE DEF Good
  <2>. QED  BY <2>1, <2>2, TreeInduction
<1>3. CASE tree = <<>>
  BY <1>3 DEF TreeStatus
<1>4. CASE tree # <<>>
  <2>1. 1 \in D
    BY <1>4 DEF Tree
  <2>2. t[1] = Turn(s[1])
    BY <1>2, <2>1
  <2>. QED  BY <1>4, <2>2 DEF TreeStatus, s, t
<1>. QED
  BY <1>3, <1>4

-----------------------------------------------------------------------------
\* The question list of a benefit holds its own questions and their drivers.
LEMMA AskableClosed ==
    ASSUME NEW cat, WellFormed(cat), NEW b,
           cat.benefits[b].tree \in Tree
    PROVE  LET leaves == LeafFields(cat.benefits[b].tree)
               all == AskableFields(cat, b)
           IN  /\ leaves \subseteq all /\ all \subseteq Field
               /\ \A f \in all : References(cat.vis[f], f) \subseteq all
<1>1. LeafFields(cat.benefits[b].tree) \in SUBSET Field
  BY NodeShape DEF LeafFields
<1> DEFINE all == AskableFields(cat, b)
<1>2. /\ all \subseteq Field /\ LeafFields(cat.benefits[b].tree) \subseteq all
      /\ Expand(cat, all) = all
  BY <1>1, QuestionsClosed DEF AskableFields
<1> HIDE DEF all
<1>3. \A f \in all : References(cat.vis[f], f) \subseteq all
  BY <1>2 DEF Expand
<1>. QED
  BY <1>2, <1>3 DEF all

LEMMA VerdictType ==
    ASSUME NEW c, NEW b, NEW a
    PROVE  /\ Verdict(c, b, a) \in Status
           /\ Verdict(c, b, a) = "NOT_ELIGIBLE" <=>
                \/ ResidencyStatus(c, b, a) = "NOT_ELIGIBLE"
                \/ TreeStatus(c.benefits[b].tree, a, HiddenFields(c, b, a)) = "NOT_ELIGIBLE"
           /\ Verdict(c, b, a) = "PENDING" <=>
                /\ ResidencyStatus(c, b, a) # "NOT_ELIGIBLE"
                /\ TreeStatus(c.benefits[b].tree, a, HiddenFields(c, b, a)) # "NOT_ELIGIBLE"
                /\ \/ ResidencyStatus(c, b, a) = "PENDING"
                   \/ TreeStatus(c.benefits[b].tree, a, HiddenFields(c, b, a)) = "PENDING"
BY DEF Verdict, Combine, Decisive, Neutral, Status

\* A question that is shown stays shown while real answers are only added: a
\* condition holds on real answers only.
LEMMA VisibleMonotone ==
    ASSUME NEW tree \in Tree, NEW before, NEW after, Visible(tree, before),
           \A f \in LeafFields(tree) : before[f] \in Value => after[f] = before[f]
    PROVE  Visible(tree, after)
<1> DEFINE D == DOMAIN tree
           s == NodeVisible(tree, before)
           t == NodeVisible(tree, after)
           Good == {n \in D : s[n] => t[n]}
<1>1. \A n \in D :
        /\ ~IsGroup(tree[n]) =>
             /\ s[n] <=> /\ before[tree[n].field] \in Value
                         /\ before[tree[n].field] \in tree[n].accepts
             /\ t[n] <=> /\ after[tree[n].field] \in Value
                         /\ after[tree[n].field] \in tree[n].accepts
        /\ IsGroup(tree[n]) /\ tree[n].op = "ALL" =>
             /\ s[n] <=> \A k \in tree[n].kids : s[k]
             /\ t[n] <=> \A k \in tree[n].kids : t[k]
        /\ IsGroup(tree[n]) /\ tree[n].op # "ALL" =>
             /\ s[n] <=> \E k \in tree[n].kids : s[k]
             /\ t[n] <=> \E k \in tree[n].kids : t[k]
  BY NodeVisibleEquation
<1> HIDE DEF s, t
<1>2. Good = D
  <2>1. ASSUME NEW n \in D, IsGroup(tree[n]) => tree[n].kids \subseteq Good
        PROVE  n \in Good
    <3>1. CASE IsGroup(tree[n])
      <4>1. \A k \in tree[n].kids : s[k] => t[k]
        BY <2>1, <3>1
      <4>. QED  BY <1>1, <3>1, <4>1
    <3>2. CASE ~IsGroup(tree[n])
      <4>1. before[tree[n].field] \in Value => after[tree[n].field] = before[tree[n].field]
        BY <3>2 DEF LeafFields
      <4>. QED  BY <1>1, <3>2, <4>1
    <3>. QED  BY <3>1, <3>2
  <2>2. Good \in SUBSET DOMAIN tree
    OBVIOUS
  <2> HIDE DEF Good
  <2>. QED  BY <2>1, <2>2, TreeInduction
<1>3. CASE tree = <<>>
  BY <1>3 DEF Visible
<1>4. CASE tree # <<>>
  <2>1. 1 \in D
    BY <1>4 DEF Tree
  <2>. QED  BY <1>2, <1>4, <2>1 DEF Visible, s, t
<1>. QED
  BY <1>3, <1>4

-----------------------------------------------------------------------------
\* The catalog never changes and every field has an answer, or none.
THEOREM LawsTypeCorrect == LawsSpec => []LawsTypeOK
<1>1. LawsInit => LawsTypeOK
  BY DEF LawsInit, LawsTypeOK, Answers, Answer
<1>2. LawsTypeOK /\ [LawsNext]_lawsVars => LawsTypeOK'
  <2>1. ASSUME LawsTypeOK, NEW f \in Field, NEW a \in Value \cup {Null}, Put(f, a)
        PROVE  LawsTypeOK'
    BY <2>1 DEF LawsTypeOK, Put, Answers, Answer
  <2>2. CASE UNCHANGED lawsVars
    BY <2>2 DEF LawsTypeOK, lawsVars
  <2>. QED
    BY <2>1, <2>2 DEF LawsNext
<1>. QED
  BY <1>1, <1>2, PTL DEF LawsSpec

\* What the laws use of the catalog.
LEMMA BenefitShape ==
    ASSUME LawsTypeOK, NEW b \in Benefit
    PROVE  /\ WellFormed(catalog)
           /\ catalog.benefits[b].tree \in Tree
           /\ catalog.benefits[b].scope \subseteq Value
BY CatalogsAssumption DEF LawsTypeOK, CatalogsAssumption, WellFormed

\* The question list of a benefit.
LEMMA AskableShape ==
    ASSUME LawsTypeOK, NEW b \in Benefit
    PROVE  LET leaves == LeafFields(catalog.benefits[b].tree)
               all == AskableFields(catalog, b)
           IN  /\ leaves \subseteq all /\ all \subseteq Field
               /\ \A f \in all : References(catalog.vis[f], f) \subseteq all
BY BenefitShape, AskableClosed

-----------------------------------------------------------------------------
\* The two-valued reading of a tree, node by node.
LEMMA NodeHoldsEquation ==
    ASSUME NEW tree \in Tree
    PROVE  LET s == NodeHolds(tree)
           IN  /\ s \in [DOMAIN tree -> BOOLEAN]
               /\ \A n \in DOMAIN tree :
                    /\ ~IsGroup(tree[n]) => (s[n] <=> answers[tree[n].field] \in tree[n].accepts)
                    /\ IsGroup(tree[n]) /\ tree[n].op = "ALL" =>
                         (s[n] <=> \A k \in tree[n].kids : s[k])
                    /\ IsGroup(tree[n]) /\ tree[n].op # "ALL" =>
                         (s[n] <=> \E k \in tree[n].kids : s[k])
<1> DEFINE D == DOMAIN tree
           M == Len(tree)
           r == [n \in D |-> M - n]
           Rhs(s, n) ==
              IF ~IsGroup(tree[n]) THEN answers[tree[n].field] \in tree[n].accepts
              ELSE IF tree[n].op = "ALL"
                   THEN \A k \in tree[n].kids : s[k]
                   ELSE \E k \in tree[n].kids : s[k]
           F == [g \in [D -> BOOLEAN] |-> [n \in D |-> Rhs(g, n)]]
           Solution(s) == s = [n \in D |-> Rhs(s, n)]
<1>1. NodeHolds(tree) = CHOOSE s : Solution(s)
  BY DEF NodeHolds
<1>2. /\ M \in Nat /\ r \in [D -> 0 .. M]
      /\ \A n \in D : IsGroup(tree[n]) => \A k \in tree[n].kids : k \in D /\ r[k] < r[n]
  BY NodeRanks
<1>3. ASSUME NEW s, NEW n \in D PROVE Rhs(s, n) \in BOOLEAN
  <2>1. CASE ~IsGroup(tree[n])
    BY <2>1
  <2>2. CASE IsGroup(tree[n])
    BY <2>2
  <2>. QED  BY <2>1, <2>2
<1>4. F \in [[D -> BOOLEAN] -> [D -> BOOLEAN]]
  <2> HIDE DEF Rhs, D
  <2>. QED  BY <1>3
<1>5. ASSUME NEW g \in [D -> BOOLEAN], NEW h \in [D -> BOOLEAN], NEW n \in D,
             \A k \in D : r[k] < r[n] => g[k] = h[k]
      PROVE  F[g][n] = F[h][n]
  <2>1. Rhs(g, n) = Rhs(h, n)
    <3>1. CASE IsGroup(tree[n])
      <4>1. \A k \in tree[n].kids : g[k] = h[k]
        <5> HIDE DEF r, D
        <5>. QED  BY <1>2, <1>5, <3>1
      <4>. QED  BY <4>1, <3>1
    <3>. QED  BY <3>1
  <2> HIDE DEF Rhs, D
  <2>. QED  BY <2>1
<1>6. PICK f \in [D -> BOOLEAN] : f = F[f]
  <2>1. Ranked(F, D, BOOLEAN, r)
    <3> HIDE DEF F, D, r
    <3>. QED  BY <1>4, <1>5 DEF Ranked
  <2>2. BOOLEAN # {}
    OBVIOUS
  <2> DEFINE V == BOOLEAN
  <2>3. Ranked(F, D, V, r) /\ V # {}
    BY <2>1, <2>2
  <2>4. \E f \in [D -> V] : f = F[f]
    <3> HIDE DEF F, D, r, M, V
    <3>. QED  BY <1>2, <2>3, RecursionExists
  <2>. QED  BY <2>4
<1>7. Solution(f)
  <2> HIDE DEF Rhs, D
  <2>. QED  BY <1>6
<1> DEFINE s == NodeHolds(tree)
<1>8. Solution(s)
  <2> HIDE DEF Solution
  <2>. QED  BY <1>1, <1>7
<1>9. s \in [D -> BOOLEAN] /\ \A n \in D : s[n] = Rhs(s, n)
  <2> HIDE DEF s, Rhs, D
  <2>. QED  BY <1>3, <1>8
<1>. QED
  BY <1>9

\* With no open condition, evaluateTreeNode computes the two-valued reading.
LEMMA ClassicalTree ==
    ASSUME NEW tree \in Tree, NEW hidden,
           \A leaf \in Leaves(tree) :
              answers[leaf.field] \in Value \/ (leaf.presence /\ answers[leaf.field] = Null)
    PROVE  TreeStatus(tree, answers, hidden) =
              IF Holds(tree) THEN "MATCHED" ELSE "NOT_ELIGIBLE"
<1> DEFINE D == DOMAIN tree
           s == NodeStatus(tree, answers, hidden)
           h == NodeHolds(tree)
           Good == {n \in D : s[n] = IF h[n] THEN "MATCHED" ELSE "NOT_ELIGIBLE"}
<1>1. /\ s \in [D -> Status]
      /\ \A n \in D :
           s[n] = IF IsGroup(tree[n])
                  THEN Combine(tree[n].op, {s[k] : k \in tree[n].kids})
                  ELSE LeafStatus(tree[n], answers, hidden)
  <2>1. Evaluates(s, tree, answers, hidden)
    BY NodeStatusEquation
  <2> HIDE DEF s
  <2>. QED  BY <2>1 DEF Evaluates
<1>2. /\ h \in [D -> BOOLEAN]
      /\ \A n \in D :
           /\ ~IsGroup(tree[n]) => (h[n] <=> answers[tree[n].field] \in tree[n].accepts)
           /\ IsGroup(tree[n]) /\ tree[n].op = "ALL" =>
                (h[n] <=> \A k \in tree[n].kids : h[k])
           /\ IsGroup(tree[n]) /\ tree[n].op # "ALL" =>
                (h[n] <=> \E k \in tree[n].kids : h[k])
  BY NodeHoldsEquation
<1> HIDE DEF s, h
<1>3. Good = D
  <2>1. ASSUME NEW n \in D, IsGroup(tree[n]) => tree[n].kids \subseteq Good
        PROVE  n \in Good
    <3>1. CASE IsGroup(tree[n])
      <4> DEFINE results == {s[k] : k \in tree[n].kids}
      <4>1. \A k \in tree[n].kids : s[k] = IF h[k] THEN "MATCHED" ELSE "NOT_ELIGIBLE"
        BY <2>1, <3>1
      <4>2. /\ "PENDING" \notin results
            /\ "NOT_ELIGIBLE" \in results <=> \E k \in tree[n].kids : ~h[k]
            /\ "MATCHED" \in results <=> \E k \in tree[n].kids : h[k]
        BY <4>1
      <4>3. s[n] = Combine(tree[n].op, results)
        BY <1>1, <3>1
      <4> HIDE DEF results
      <4>4. CASE tree[n].op = "ALL"
        <5>1. h[n] <=> \A k \in tree[n].kids : h[k]
          BY <1>2, <3>1, <4>4
        <5>. QED  BY <4>2, <4>3, <4>4, <5>1 DEF Combine, Decisive, Neutral
      <4>5. CASE tree[n].op # "ALL"
        <5>1. h[n] <=> \E k \in tree[n].kids : h[k]
          BY <1>2, <3>1, <4>5
        <5>. QED  BY <4>2, <4>3, <4>5, <5>1 DEF Combine, Decisive, Neutral
      <4>. QED  BY <4>4, <4>5
    <3>2. CASE ~IsGroup(tree[n])
      <4>1. answers[tree[n].field] \in Value
              \/ (tree[n].presence /\ answers[tree[n].field] = Null)
        BY <3>2 DEF Leaves
      <4>2. h[n] <=> answers[tree[n].field] \in tree[n].accepts
        BY <1>2, <3>2
      <4>. QED  BY <1>1, <3>2, <4>1, <4>2 DEF LeafStatus
    <3>. QED  BY <3>1, <3>2
  <2>2. Good \in SUBSET DOMAIN tree
    OBVIOUS
  <2> HIDE DEF Good
  <2>. QED  BY <2>1, <2>2, TreeInduction
<1>4. CASE tree = <<>>
  BY <1>4 DEF TreeStatus, Holds
<1>5. CASE tree # <<>>
  <2>1. 1 \in D
    BY <1>5 DEF Tree
  <2>2. s[1] = IF h[1] THEN "MATCHED" ELSE "NOT_ELIGIBLE"
    BY <1>3, <2>1
  <2>. QED  BY <1>5, <2>2 DEF TreeStatus, Holds, s, h
<1>. QED
  BY <1>4, <1>5

\* With no question left open the verdict is the Boolean reading of residency
\* and rule tree (benefitEligibility.service.ts:227-339, 391-460).
THEOREM VerdictsAgreeWithClassical == LawsSpec => []AgreesWithClassical
<1>1. LawsTypeOK => AgreesWithClassical
  <2>1. SUFFICES ASSUME LawsTypeOK, NEW b \in Benefit, NothingOpen(b)
                 PROVE  Verdict(catalog, b, answers) =
                           IF Resides(b) /\ Holds(catalog.benefits[b].tree)
                           THEN "MATCHED" ELSE "NOT_ELIGIBLE"
    BY DEF AgreesWithClassical
  <2> DEFINE tree == catalog.benefits[b].tree
  <2>2. TreeStatus(tree, answers, HiddenFields(catalog, b, answers)) =
           IF Holds(tree) THEN "MATCHED" ELSE "NOT_ELIGIBLE"
    BY <2>1, BenefitShape, ClassicalTree DEF NothingOpen
  <2>3. ResidencyStatus(catalog, b, answers) =
           IF Resides(b) THEN "MATCHED" ELSE "NOT_ELIGIBLE"
    BY <2>1 DEF ResidencyStatus, Resides, NothingOpen
  <2>. QED
    BY <2>2, <2>3 DEF Verdict, Combine, Decisive, Neutral
<1>. QED
  BY <1>1, LawsTypeCorrect, PTL

-----------------------------------------------------------------------------
\* A question that is hidden for good and has no real answer stays hidden
\* whatever else is answered (benefitEligibility.service.ts:98-141).
LEMMA HiddenStays ==
    ASSUME LawsTypeOK, NEW b \in Benefit, NEW a \in Extensions(b),
           NEW f \in HiddenFields(catalog, b, answers)
    PROVE  f \in HiddenFields(catalog, b, a)
<1>1. /\ f \in AskableFields(catalog, b) /\ f \in Field
      /\ catalog.vis[f] # <<>> /\ References(catalog.vis[f], f) # {}
      /\ \A r \in References(catalog.vis[f], f) : answers[r] \in Value
      /\ ~Visible(catalog.vis[f], answers)
  BY AskableShape DEF HiddenFields, SettledHidden
<1>2. \A g \in Field :
         answers[g] \in Value \/ g \in HiddenFields(catalog, b, answers) => a[g] = answers[g]
  BY DEF Extensions
<1>3. catalog.vis[f] \in Tree /\ References(catalog.vis[f], f) \subseteq Field
  BY <1>1, BenefitShape, ReferencesType DEF WellFormed
<1>4. \A r \in References(catalog.vis[f], f) : a[r] = answers[r]
  BY <1>1, <1>2, <1>3
<1>5. \A g \in LeafFields(catalog.vis[f]) : answers[g] = a[g]
  BY <1>1, <1>2, <1>4 DEF References
<1>6. ~Visible(catalog.vis[f], a)
  BY <1>1, <1>3, <1>5, VisibleLocal
<1>. QED
  BY <1>1, <1>4, <1>6 DEF HiddenFields, SettledHidden

\* No answer that can still come reopens or reverses a decided verdict
\* (benefitEligibility.service.ts:215-460): no combination of further answers,
\* in any order, in any number of saves.
THEOREM DecisionsAreFinal == LawsSpec => []DecidedIsFinal
<1>1. LawsTypeOK => DecidedIsFinal
  <2>1. SUFFICES ASSUME LawsTypeOK, NEW b \in Benefit, PresenceFree(b),
                        Verdict(catalog, b, answers) # "PENDING",
                        NEW a \in Extensions(b)
                 PROVE  Verdict(catalog, b, a) = Verdict(catalog, b, answers)
    BY DEF DecidedIsFinal
  <2> DEFINE tree == catalog.benefits[b].tree
             before == HiddenFields(catalog, b, answers)
             after == HiddenFields(catalog, b, a)
  <2>2. /\ WellFormed(catalog) /\ tree \in Tree
        /\ answers \in Answers /\ a \in Answers
        /\ \A f \in Field :
             answers[f] \in Value \/ f \in before => a[f] = answers[f]
    BY <2>1, BenefitShape DEF LawsTypeOK, Extensions
  <2>3. \A f \in before : f \in after
    BY <2>1, HiddenStays
  <2> HIDE DEF before, after
  <2>4. ASSUME NEW n \in DOMAIN tree, ~IsGroup(tree[n])
        PROVE  Refines(LeafStatus(tree[n], answers, before), LeafStatus(tree[n], a, after))
    <3>1. tree[n].field \in Field /\ tree[n].presence \in BOOLEAN
      BY <2>2, <2>4, NodeShape
    <3>2. tree[n].presence = FALSE
      BY <2>1, <2>4, <3>1 DEF PresenceFree, Leaves
    <3>. QED  BY <2>2, <2>3, <3>1, <3>2, LeafMonotone
  <2>5. Refines(TreeStatus(tree, answers, before), TreeStatus(tree, a, after))
    BY <2>2, <2>4, TreeMonotone
  <2>6. Refines(ResidencyStatus(catalog, b, answers), ResidencyStatus(catalog, b, a))
    <3>1. catalog.residence \in Field \cup {NoField}
      BY <2>2 DEF WellFormed
    <3>. QED  BY <2>2, <3>1 DEF ResidencyStatus, Refines
  <2>. QED
    BY <2>1, <2>5, <2>6, VerdictType DEF Refines, Status, before, after
<1>. QED
  BY <1>1, LawsTypeCorrect, PTL

-----------------------------------------------------------------------------
\* The lines of the checklist are the residency check and the conditions.
LEMMA ChecklistLines ==
    ASSUME NEW c, NEW b, NEW a
    PROVE  LET tree == c.benefits[b].tree
               hidden == HiddenFields(c, b, a)
               list == Checklist(c, b, a)
           IN  /\ ~(c.benefits[b].nationwide \/ c.residence = NoField) =>
                    [field |-> c.residence, status |-> ResidencyStatus(c, b, a)] \in list
               /\ \A n \in DOMAIN tree : ~IsGroup(tree[n]) =>
                    [field |-> tree[n].field, status |-> LeafStatus(tree[n], a, hidden)] \in list
               /\ \A line \in list :
                    \/ ~(c.benefits[b].nationwide \/ c.residence = NoField)
                    \/ \E n \in DOMAIN tree : ~IsGroup(tree[n])
BY DEF Checklist, LeafStatuses

\* The checklist explains the verdict
\* (benefitEligibility.service.ts:332-350, 215-239).
THEOREM ChecklistsExplain == LawsSpec => []ChecklistExplains
<1>1. LawsTypeOK => ChecklistExplains
  <2>1. SUFFICES ASSUME LawsTypeOK, NEW b \in Benefit
                 PROVE
        LET list == Checklist(catalog, b, answers)
            with(status) == {line.field : line \in {l \in list : l.status = status}}
            verdict == Verdict(catalog, b, answers)
            next == PendingFieldIds(catalog, b, answers)
        IN  /\ Populated(catalog.benefits[b].tree) =>
                 /\ verdict = "NOT_ELIGIBLE" => with("NOT_ELIGIBLE") # {}
                 /\ verdict = "MATCHED" /\ list # {} => with("MATCHED") # {}
            /\ (verdict = "PENDING") <=> (next # {})
            /\ next \subseteq with("PENDING")
            /\ next \ catalog.subfields \subseteq UnansweredFieldIds(catalog, b, answers)
            /\ UnansweredFieldIds(catalog, b, answers) \cap catalog.subfields
                 \subseteq {catalog.residence}
    BY DEF ChecklistExplains
  <2> DEFINE list == Checklist(catalog, b, answers)
             with(status) == {line.field : line \in {l \in list : l.status = status}}
             tree == catalog.benefits[b].tree
             hidden == HiddenFields(catalog, b, answers)
             verdict == Verdict(catalog, b, answers)
             residency == ResidencyStatus(catalog, b, answers)
             status == TreeStatus(tree, answers, hidden)
             pending == PendingFields(tree, answers, hidden)
             next == PendingFieldIds(catalog, b, answers)
             all == AskableFields(catalog, b)
             Leaf(n) == n \in DOMAIN tree /\ ~IsGroup(tree[n])
             checked == ~(catalog.benefits[b].nationwide \/ catalog.residence = NoField)
  <2>2. WellFormed(catalog) /\ tree \in Tree
    BY <2>1, BenefitShape
  <2>3. /\ checked => [field |-> catalog.residence, status |-> residency] \in list
        /\ \A n : Leaf(n) =>
             [field |-> tree[n].field, status |-> LeafStatus(tree[n], answers, hidden)] \in list
        /\ list # {} => checked \/ \E n : Leaf(n)
    BY ChecklistLines
  <2>4. ~checked => residency = "MATCHED"
    BY DEF ResidencyStatus
  <2>5. ResidencyPending(catalog, b, answers)
          = IF residency = "PENDING" THEN {catalog.residence} ELSE {}
    BY DEF ResidencyPending
  <2>6. /\ status = "PENDING" <=> pending # {}
        /\ \A f \in pending : \E n : /\ Leaf(n) /\ tree[n].field = f
                                     /\ LeafStatus(tree[n], answers, hidden) = "PENDING"
    BY <2>2, PendingExplained
  <2>7. ASSUME Populated(tree), tree # <<>>
        PROVE  \E n : Leaf(n) /\ LeafStatus(tree[n], answers, hidden) = status
    BY <2>2, <2>7, StatusWitness
  <2>8. tree = <<>> => status = "MATCHED" /\ ~ \E n : Leaf(n)
    BY DEF TreeStatus
  <2>9. /\ verdict \in Status
        /\ verdict = "NOT_ELIGIBLE" <=> residency = "NOT_ELIGIBLE" \/ status = "NOT_ELIGIBLE"
        /\ verdict = "PENDING" <=> /\ residency # "NOT_ELIGIBLE" /\ status # "NOT_ELIGIBLE"
                                   /\ residency = "PENDING" \/ status = "PENDING"
    BY VerdictType
  <2>10. residency \in Status /\ status \in Status
    <3>1. residency \in Status
      BY DEF ResidencyStatus, Status
    <3>2. CASE tree = <<>>
      BY <2>8, <3>1, <3>2 DEF Status
    <3>3. CASE tree # <<>>
      <4>1. 1 \in DOMAIN tree
        BY <2>2, <3>3 DEF Tree
      <4>2. NodeStatus(tree, answers, hidden) \in [DOMAIN tree -> Status]
        BY <2>2, NodeStatusEquation DEF Evaluates
      <4>. QED  BY <3>1, <3>3, <4>1, <4>2 DEF TreeStatus
    <3>. QED  BY <3>1, <3>2, <3>3
  <2>11. next = IF verdict # "PENDING" THEN {}
                ELSE ResidencyPending(catalog, b, answers) \cup pending
    BY DEF PendingFieldIds
  <2>12. LeafFields(tree) \subseteq all
    BY <2>1, AskableShape
  <2>13. UnansweredFieldIds(catalog, b, answers) =
            ResidencyPending(catalog, b, answers)
              \cup (({f \in all : answers[f] \notin Value} \ hidden) \ catalog.subfields)
    BY DEF UnansweredFieldIds, WithoutRepeaterSubfields
  <2>14. \A n : Leaf(n) => tree[n].field \in LeafFields(tree)
    BY DEF LeafFields
  <2>15. \A n : Leaf(n) /\ LeafStatus(tree[n], answers, hidden) = "PENDING" =>
            answers[tree[n].field] \notin Value /\ tree[n].field \notin hidden
    BY DEF LeafStatus
  <2> HIDE DEF verdict, residency, status, pending, next, all, hidden, Leaf, checked, list, tree
  <2>16. ASSUME NEW x, NEW f, [field |-> f, status |-> x] \in list
         PROVE  f \in with(x)
    BY <2>16
  <2>17. ASSUME Populated(tree)
         PROVE  /\ verdict = "NOT_ELIGIBLE" => with("NOT_ELIGIBLE") # {}
                /\ verdict = "MATCHED" /\ list # {} => with("MATCHED") # {}
    <3>1. ASSUME verdict = "NOT_ELIGIBLE" PROVE with("NOT_ELIGIBLE") # {}
      <4>1. CASE residency = "NOT_ELIGIBLE"
        BY <2>3, <2>4, <2>16, <4>1
      <4>2. CASE status = "NOT_ELIGIBLE"
        <5>1. tree # <<>>
          BY <2>8, <4>2
        <5>. QED  BY <2>3, <2>7, <2>16, <2>17, <4>2, <5>1
      <4>. QED  BY <2>9, <3>1, <4>1, <4>2
    <3>2. ASSUME verdict = "MATCHED", list # {} PROVE with("MATCHED") # {}
      <4>1. residency = "MATCHED" /\ status = "MATCHED"
        BY <2>9, <2>10, <3>2 DEF Status
      <4>2. CASE checked
        BY <2>3, <2>16, <4>1, <4>2
      <4>3. CASE \E n : Leaf(n)
        <5>1. tree # <<>>
          BY <2>8, <4>3
        <5>. QED  BY <2>3, <2>7, <2>16, <2>17, <4>1, <5>1
      <4>. QED  BY <2>3, <3>2, <4>2, <4>3
    <3>. QED  BY <3>1, <3>2
  <2>18. verdict = "PENDING" <=> next # {}
    <3>1. ASSUME verdict = "PENDING" PROVE next # {}
      BY <2>5, <2>6, <2>9, <2>11, <3>1
    <3>. QED  BY <2>11, <3>1
  <2>19. ASSUME NEW f \in next
         PROVE  /\ f \in with("PENDING")
                /\ f \notin catalog.subfields => f \in UnansweredFieldIds(catalog, b, answers)
    <3>1. CASE f \in ResidencyPending(catalog, b, answers)
      <4>1. residency = "PENDING" /\ f = catalog.residence /\ checked
        BY <2>4, <2>5, <3>1
      <4>2. [field |-> f, status |-> "PENDING"] \in list
        BY <2>3, <4>1
      <4>. QED  BY <2>13, <2>16, <3>1, <4>2
    <3>2. CASE f \in pending
      <4>1. PICK n : /\ Leaf(n) /\ tree[n].field = f
                     /\ LeafStatus(tree[n], answers, hidden) = "PENDING"
        BY <2>6, <3>2
      <4>2. [field |-> f, status |-> "PENDING"] \in list
        BY <2>3, <4>1
      <4>3. f \in all /\ answers[f] \notin Value /\ f \notin hidden
        BY <2>12, <2>14, <2>15, <4>1
      <4>. QED  BY <2>13, <2>16, <4>2, <4>3
    <3>. QED  BY <2>11, <2>18, <3>1, <3>2
  <2>20. UnansweredFieldIds(catalog, b, answers) \cap catalog.subfields
           \subseteq {catalog.residence}
    BY <2>5, <2>13
  <2>. QED
    BY <2>17, <2>18, <2>19, <2>20 DEF verdict, next, list, tree
<1>. QED
  BY <1>1, LawsTypeCorrect, PTL

-----------------------------------------------------------------------------
\* A benefit shown as pending can still turn out either way: some answers to
\* its open questions meet it and some miss it
\* (benefitEligibility.service.ts:215-339, 391-460).
THEOREM PendingStaysOpen == LawsSpec => []PendingIsOpen
<1>1. LawsTypeOK => PendingIsOpen
  <2>1. SUFFICES ASSUME LawsTypeOK, NEW b \in Benefit,
                        PresenceFree(b), Disentangled(b), Contingent(b),
                        Verdict(catalog, b, answers) = "PENDING",
                        NEW x \in {"MATCHED", "NOT_ELIGIBLE"}
                 PROVE  \E a \in Extensions(b) : Verdict(catalog, b, a) = x
    BY DEF PendingIsOpen
  <2> DEFINE benefit == catalog.benefits[b]
             tree == benefit.tree
             hidden == HiddenFields(catalog, b, answers)
             residency == ResidencyStatus(catalog, b, answers)
             Before(n) == LeafStatus(tree[n], answers, hidden)
             Leaf(n) == n \in DOMAIN tree /\ ~IsGroup(tree[n])
             leaf(f) == CHOOSE l \in Leaves(tree) : l.field = f
             open == {tree[n].field : n \in {m \in DOMAIN tree : Leaf(m) /\ Before(m) = "PENDING"}}
             choice(accepts) == CHOOSE v \in Value : v \in accepts <=> x = "MATCHED"
             a == [f \in Field |->
                     IF f \in open THEN choice(leaf(f).accepts)
                     ELSE IF f = catalog.residence /\ residency = "PENDING"
                     THEN choice(benefit.scope) ELSE answers[f]]
  <2>2. /\ WellFormed(catalog) /\ tree \in Tree /\ answers \in Answers
        /\ catalog.residence \in Field \cup {NoField}
    BY <2>1, BenefitShape DEF LawsTypeOK, WellFormed
  <2>3. /\ LeafFields(tree) \subseteq AskableFields(catalog, b)
        /\ AskableFields(catalog, b) \subseteq Field
    BY <2>1, AskableShape
  <2>4. \A n : Leaf(n) => /\ tree[n] \in Leaves(tree)
                          /\ tree[n].field \in LeafFields(tree)
                          /\ tree[n].presence = FALSE
    <3>1. \A n : Leaf(n) => tree[n] \in Leaves(tree) /\ tree[n].field \in LeafFields(tree)
      BY DEF Leaves, LeafFields
    <3>2. \A n : Leaf(n) => tree[n].presence \in BOOLEAN
      BY <2>2, NodeShape
    <3>. QED  BY <2>1, <3>1, <3>2 DEF PresenceFree
  <2>5. \A n : Leaf(n) => leaf(tree[n].field) = tree[n]
    <3>1. \A l, m \in Leaves(tree) : l.field = m.field => l = m
      BY <2>1 DEF Disentangled
    <3>. QED  BY <2>4, <3>1
  <2>6. /\ catalog.residence \notin AskableFields(catalog, b)
        /\ catalog.residence \notin catalog.subfields
        /\ LeafFields(tree) \cap catalog.subfields = {}
    BY <2>1 DEF Disentangled
  <2>7. \A n : Leaf(n) => \E v \in Value : v \in tree[n].accepts <=> x = "MATCHED"
    <3>1. \A n : Leaf(n) => /\ tree[n].accepts \cap Value # {}
                            /\ Value \ tree[n].accepts # {}
      BY <2>1, <2>4 DEF Contingent
    <3>. QED  BY <3>1
  <2>8. residency = "PENDING" =>
           /\ ~benefit.nationwide /\ catalog.residence \in Field
           /\ answers[catalog.residence] \notin Value
           /\ \E v \in Value : v \in benefit.scope <=> x = "MATCHED"
    <3>1. ASSUME residency = "PENDING"
          PROVE  /\ ~benefit.nationwide /\ catalog.residence # NoField
                 /\ answers[catalog.residence] \notin Value
      BY <3>1 DEF ResidencyStatus
    <3>2. benefit.nationwide \/ (benefit.scope \cap Value # {} /\ Value \ benefit.scope # {})
      BY <2>1 DEF Contingent
    <3>. QED  BY <2>2, <3>1, <3>2
  <2>9. hidden \subseteq AskableFields(catalog, b)
    BY DEF HiddenFields, SettledHidden
  <2>10. \A n : Leaf(n) /\ Before(n) = "PENDING" =>
            answers[tree[n].field] \notin Value /\ tree[n].field \notin hidden
    BY DEF LeafStatus
  <2>11. \A f \in open : \E n : Leaf(n) /\ Before(n) = "PENDING" /\ tree[n].field = f
    OBVIOUS
  <2>12. \A n : Leaf(n) => (tree[n].field \in open <=> Before(n) = "PENDING")
    <3>1. ASSUME NEW n, NEW m, Leaf(n), Leaf(m), tree[m].field = tree[n].field
          PROVE  Before(n) = Before(m)
      <4>1. tree[n] = tree[m]
        BY <2>5, <3>1
      <4>. QED  BY <4>1
    <3>2. ASSUME NEW n, Leaf(n), Before(n) = "PENDING" PROVE tree[n].field \in open
      BY <3>2
    <3> HIDE DEF Before, open, Leaf
    <3>. QED  BY <2>11, <3>1, <3>2
  <2>13. \A f \in open : /\ f \in Field /\ answers[f] \notin Value /\ f \notin hidden
                         /\ f \notin catalog.subfields
                         /\ choice(leaf(f).accepts) \in Value
    <3> HIDE DEF open, Before, Leaf, hidden, leaf, tree
    <3>1. ASSUME NEW n, Leaf(n) PROVE choice(leaf(tree[n].field).accepts) \in Value
      BY <2>5, <2>7, <3>1
    <3> HIDE DEF choice
    <3>. QED  BY <2>3, <2>4, <2>6, <2>10, <2>11, <3>1
  <2>14. residency = "PENDING" => choice(benefit.scope) \in Value
    BY <2>8
  <2>15. a \in Answers
    <3> HIDE DEF open, choice, leaf, residency, benefit
    <3>. QED  BY <2>2, <2>13, <2>14 DEF Answers, Answer
  <2>16. a \in Extensions(b)
    <3>1. ASSUME NEW f \in Field, answers[f] \in Value \/ f \in hidden \cup catalog.subfields
          PROVE  a[f] = answers[f]
      <4> HIDE DEF open, choice, leaf, residency, benefit, hidden
      <4>. QED  BY <2>6, <2>8, <2>9, <2>13, <3>1
    <3> HIDE DEF a
    <3>. QED  BY <2>15, <3>1 DEF Extensions
  <2>17. ASSUME NEW n \in DOMAIN tree, ~IsGroup(tree[n])
         PROVE  LeafStatus(tree[n], a, HiddenFields(catalog, b, a)) =
                   IF Before(n) = "PENDING" THEN x ELSE Before(n)
    <3> DEFINE f == tree[n].field
    <3>1. Leaf(n) /\ f \in Field /\ f # catalog.residence
      BY <2>3, <2>4, <2>6, <2>17
    <3>2. CASE Before(n) = "PENDING"
      <4>1. a[f] = choice(tree[n].accepts)
        <5>1. f \in open /\ leaf(f) = tree[n]
          BY <2>5, <2>12, <3>1, <3>2
        <5> HIDE DEF open, choice, leaf, f
        <5>. QED  BY <3>1, <5>1
      <4>2. a[f] \in Value /\ (a[f] \in tree[n].accepts <=> x = "MATCHED")
        <5> HIDE DEF a
        <5>. QED  BY <2>7, <3>1, <4>1
      <4> HIDE DEF a
      <4>3. LeafStatus(tree[n], a, HiddenFields(catalog, b, a)) = x
        BY <4>2 DEF LeafStatus
      <4>. QED  BY <3>2, <4>3
    <3>3. CASE Before(n) # "PENDING"
      <4>1. a[f] = answers[f]
        <5>1. f \notin open
          BY <2>12, <3>1, <3>3
        <5> HIDE DEF open, choice, leaf, f
        <5>. QED  BY <3>1, <5>1
      <4>2. f \in hidden => f \in HiddenFields(catalog, b, a)
        <5> HIDE DEF a, f
        <5>. QED  BY <2>1, <2>16, HiddenStays
      <4>3. tree[n].presence = FALSE
        BY <2>4, <3>1
      <4> HIDE DEF a
      <4>. QED  BY <3>3, <4>1, <4>2, <4>3 DEF LeafStatus
    <3>. QED  BY <3>2, <3>3
  <2> DEFINE before == TreeStatus(tree, answers, hidden)
             after == TreeStatus(tree, a, HiddenFields(catalog, b, a))
  <2>18. after = IF before = "PENDING" THEN x ELSE before
    <3> HIDE DEF a, hidden
    <3>. QED  BY <2>2, <2>17, TreeDecidable
  <2>19. ResidencyStatus(catalog, b, a) = IF residency = "PENDING" THEN x ELSE residency
    <3>1. CASE residency = "PENDING"
      <4>1. catalog.residence \notin open
        <5> HIDE DEF open, Leaf, Before
        <5>. QED  BY <2>3, <2>4, <2>6, <2>11
      <4>2. a[catalog.residence] = choice(benefit.scope)
        <5> HIDE DEF open, choice, leaf, benefit, residency
        <5>. QED  BY <2>8, <3>1, <4>1
      <4>3. /\ a[catalog.residence] \in Value
            /\ a[catalog.residence] \in benefit.scope <=> x = "MATCHED"
        <5> HIDE DEF a
        <5>. QED  BY <2>8, <3>1, <4>2
      <4>4. catalog.residence # NoField
        BY <2>8, <3>1, EligibilityAssumption
      <4> HIDE DEF a
      <4>5. ResidencyStatus(catalog, b, a) = x
        BY <2>8, <3>1, <4>3, <4>4 DEF ResidencyStatus
      <4>. QED  BY <3>1, <4>5
    <3>2. CASE residency # "PENDING"
      <4>1. CASE benefit.nationwide \/ catalog.residence = NoField
        BY <4>1 DEF ResidencyStatus
      <4>2. CASE ~(benefit.nationwide \/ catalog.residence = NoField)
        <5>1. answers[catalog.residence] \in Value /\ catalog.residence \in Field
          BY <2>2, <3>2, <4>2 DEF ResidencyStatus
        <5>2. a[catalog.residence] = answers[catalog.residence]
          <6> HIDE DEF a
          <6>. QED  BY <2>16, <5>1 DEF Extensions
        <5> HIDE DEF a
        <5>3. ResidencyStatus(catalog, b, a) = residency
          BY <5>2 DEF ResidencyStatus
        <5>. QED  BY <3>2, <5>3
      <4>. QED  BY <4>1, <4>2
    <3>. QED  BY <3>1, <3>2
  <2>20. before \in Status /\ residency \in Status
    <3>1. residency \in Status
      BY DEF ResidencyStatus, Status
    <3>2. tree = <<>> => before \in Status
      BY DEF TreeStatus, Status
    <3>3. tree # <<>> => before \in Status
      <4>1. tree # <<>> => 1 \in DOMAIN tree
        BY <2>2 DEF Tree
      <4>2. NodeStatus(tree, answers, hidden) \in [DOMAIN tree -> Status]
        BY <2>2, NodeStatusEquation DEF Evaluates
      <4>. QED  BY <4>1, <4>2 DEF TreeStatus
    <3>. QED  BY <3>1, <3>2, <3>3
  <2>21. /\ residency # "NOT_ELIGIBLE" /\ before # "NOT_ELIGIBLE"
         /\ residency = "PENDING" \/ before = "PENDING"
    BY <2>1, VerdictType
  <2>22. Verdict(catalog, b, a) = x
    <3> HIDE DEF a, before, residency
    <3>1. Verdict(catalog, b, a) = Combine("ALL", {ResidencyStatus(catalog, b, a), after})
      BY DEF Verdict
    <3> HIDE DEF after
    <3>. QED
      BY <2>18, <2>19, <2>20, <2>21, <3>1 DEF Combine, Decisive, Neutral, Status
  <2> HIDE DEF a
  <2>. QED
    BY <2>16, <2>22
<1>. QED
  BY <1>1, LawsTypeCorrect, PTL

-----------------------------------------------------------------------------
(* The quiz *)


\* The component of tab[t] that the proof needs: which keys it has.
Shaped(s) ==
    s = [page |-> s.page, cache |-> s.cache, candidates |-> s.candidates,
         fields |-> s.fields, draft |-> s.draft]

ShapeOK == /\ tab = [t \in Tab |-> tab[t]]
           /\ \A t \in Tab : Shaped(tab[t])

\* Inductive: what an open page asks for has no real answer on the server.
AsksOnlyMissing ==
    \A t \in Tab, f \in Field : f \in tab[t].fields => answers[f] \notin Value

QuizInv == ShapeOK /\ AsksOnlyMissing

LEMMA ElsewhereShape ==
    ASSUME NEW cache
    PROVE  Shaped(Elsewhere(cache)) /\ Elsewhere(cache).fields = {}
BY DEF Shaped, Elsewhere

LEMMA PageFieldsMissing ==
    ASSUME NEW candidates, NEW f \in PageFields(candidates)
    PROVE  answers[f] \notin Value
<1>1. PICK b \in candidates : f \in UnansweredFieldIds(catalog, b, answers)
  BY DEF PageFields
<1>. QED
  BY <1>1, AskedIsUnanswered

LEMMA QuizInit == Init => QuizInv
<1>. SUFFICES ASSUME Init PROVE QuizInv
  OBVIOUS
<1>1. ShapeOK
  BY ElsewhereShape DEF Init, ShapeOK
<1>2. AsksOnlyMissing
  BY ElsewhereShape DEF Init, AsksOnlyMissing
<1>. QED
  BY <1>1, <1>2 DEF QuizInv

\* One step keeps the invariant and every real answer.
LEMMA QuizStep ==
    ASSUME NEW only, Tab = {only}, Failures = FALSE, QuizInv, [Next]_vars
    PROVE  /\ QuizInv'
           /\ \A f \in Field : answers[f] \in Value => answers'[f] = answers[f]
<1>. USE DEF QuizInv, ShapeOK, AsksOnlyMissing
<1>1. ASSUME NEW t \in Tab, Open(t)
      PROVE  /\ QuizInv'
             /\ \A f \in Field : answers[f] \in Value => answers'[f] = answers[f]
  <2>1. \A f \in PageFields(Candidates) : answers[f] \notin Value
    BY PageFieldsMissing
  <2>2. answers' = answers
    BY <1>1 DEF Open
  <2>3. tab' = [tab EXCEPT ![t] =
                 [page |-> "quiz", cache |-> tab[t].cache,
                  candidates |-> Candidates, fields |-> PageFields(Candidates),
                  draft |-> Draft(tab[t].cache)]]
    BY <1>1 DEF Open
  <2>4. ShapeOK'
    BY <2>3 DEF Shaped
  <2>5. AsksOnlyMissing'
    BY <2>1, <2>2, <2>3
  <2>. QED
    BY <2>2, <2>4, <2>5
<1>2. ASSUME NEW t \in Tab, NEW g \in Field, NEW v, Fill(t, g, v)
      PROVE  /\ QuizInv'
             /\ \A f \in Field : answers[f] \in Value => answers'[f] = answers[f]
  <2>1. answers' = answers
    BY <1>2 DEF Fill
  <2>2. tab' = [tab EXCEPT ![t].draft[g] = v]
    BY <1>2 DEF Fill
  <2>3. ShapeOK' /\ tab'[t].fields = tab[t].fields
    BY <2>2 DEF Shaped
  <2>4. AsksOnlyMissing'
    BY <2>1, <2>2, <2>3
  <2>. QED
    BY <2>1, <2>3, <2>4
<1>3. ASSUME NEW t \in Tab, Submit(t)
      PROVE  /\ QuizInv'
             /\ \A f \in Field : answers[f] \in Value => answers'[f] = answers[f]
  <2>1. tab' = [tab EXCEPT ![t] = Elsewhere(answers')]
    BY <1>3 DEF Submit
  <2>2. ShapeOK'
    BY <2>1, ElsewhereShape
  <2>3. AsksOnlyMissing'
    BY <2>1, ElsewhereShape
  <2>4. ASSUME NEW f \in Field, answers[f] \in Value
        PROVE  answers'[f] = answers[f]
    <3>1. f \notin Renderable(t)
      BY <2>4 DEF Renderable
    <3>. QED
      BY <1>3, <3>1 DEF Submit, Saved
  <2>. QED
    BY <2>2, <2>3, <2>4
<1>4. ASSUME NEW t \in Tab, Leave(t) \/ Reload(t)
      PROVE  /\ QuizInv'
             /\ \A f \in Field : answers[f] \in Value => answers'[f] = answers[f]
  <2>1. answers' = answers /\ \E cache : tab' = [tab EXCEPT ![t] = Elsewhere(cache)]
    BY <1>4 DEF Leave, Reload
  <2>. QED
    BY <2>1, ElsewhereShape
<1>5. CASE UNCHANGED vars
  BY <1>5 DEF vars, Shaped
<1>6. ASSUME NEW t \in Tab PROVE ~SubmitFails(t)
  BY DEF SubmitFails
<1>. QED
  BY <1>1, <1>2, <1>3, <1>4, <1>5, <1>6 DEF Next

\* The quiz asks for what is missing and never rewrites a real answer, when the
\* applicant uses one tab and no bulk save fails halfway (AnswerMorePage.tsx:43-66).
THEOREM QuizKeepsSavedAnswers ==
    ASSUME NEW only, Tab = {only}, Failures = FALSE
    PROVE  Spec => SavedAnswersKept
<1>1. QuizInv /\ [Next]_vars => QuizInv'
  BY QuizStep
<1>2. QuizInv /\ [Next]_vars
        => [\A f \in Field : answers[f] \in Value => answers'[f] = answers[f]]_vars
  BY QuizStep
<1>. QED
  BY QuizInit, <1>1, <1>2, PTL DEF Spec, SavedAnswersKept

-----------------------------------------------------------------------------
\* What the quiz uses of the catalog.
LEMMA QuizCatalog ==
    ASSUME TypeOK
    PROVE  /\ WellFormed(catalog)
           /\ \A b \in Benefit : catalog.benefits[b].tree \in Tree
           /\ \A f \in Field : catalog.vis[f] \in Tree
           /\ catalog.locked \subseteq Field /\ catalog.synced \subseteq Field
BY CatalogsAssumption, QuizAssumption DEF CatalogsAssumption, QuizAssumption, TypeOK, WellFormed

LEMMA PageFieldsType ==
    ASSUME TypeOK, NEW candidates \in SUBSET Benefit
    PROVE  PageFields(candidates) \in SUBSET Field
<1>. SUFFICES ASSUME NEW b \in Benefit
              PROVE  UnansweredFieldIds(catalog, b, answers) \subseteq Field
  BY DEF PageFields
<1>1. WellFormed(catalog) /\ catalog.benefits[b].tree \in Tree
  BY QuizCatalog
<1>2. AskableFields(catalog, b) \subseteq Field
  BY <1>1, AskableClosed
<1>3. ResidencyPending(catalog, b, answers) \subseteq Field
  BY <1>1 DEF WellFormed, ResidencyPending, ResidencyStatus
<1>. QED
  BY <1>2, <1>3 DEF UnansweredFieldIds, WithoutRepeaterSubfields

LEMMA ElsewhereType ==
    ASSUME NEW cache \in Answers
    PROVE  Elsewhere(cache) \in [page : {"elsewhere", "quiz"}, cache : Answers,
                                 candidates : SUBSET Benefit, fields : SUBSET Field,
                                 draft : [Field -> Value \cup {Null}]]
BY DEF Elsewhere, NoDraft

LEMMA SavedType ==
    ASSUME TypeOK, NEW t \in Tab, NEW fields
    PROVE  Saved(t, fields) \in Answers
BY DEF TypeOK, Saved, Answers, Answer

LEMMA QuizTypeStep == TypeOK /\ [Next]_vars => TypeOK'
<1>. SUFFICES ASSUME TypeOK, [Next]_vars PROVE TypeOK'
  OBVIOUS
<1>1. ASSUME NEW t \in Tab, Open(t) PROVE TypeOK'
  <2>1. Candidates \in SUBSET Benefit
    BY DEF Candidates
  <2>2. PageFields(Candidates) \in SUBSET Field
    BY <2>1, PageFieldsType
  <2>3. Draft(tab[t].cache) \in [Field -> Value \cup {Null}]
    BY DEF Draft
  <2> HIDE DEF Candidates
  <2>4. [page |-> "quiz", cache |-> tab[t].cache,
         candidates |-> Candidates, fields |-> PageFields(Candidates),
         draft |-> Draft(tab[t].cache)]
          \in [page : {"elsewhere", "quiz"}, cache : Answers, candidates : SUBSET Benefit,
               fields : SUBSET Field, draft : [Field -> Value \cup {Null}]]
    BY <2>1, <2>2, <2>3 DEF TypeOK
  <2> DEFINE quiz == [page |-> "quiz", cache |-> tab[t].cache,
                      candidates |-> Candidates, fields |-> PageFields(Candidates),
                      draft |-> Draft(tab[t].cache)]
  <2>5. tab' = [tab EXCEPT ![t] = quiz] /\ UNCHANGED <<catalog, answers>>
    BY <1>1 DEF Open
  <2> HIDE DEF quiz
  <2>. QED
    BY <2>4, <2>5 DEF TypeOK, quiz
<1>2. ASSUME NEW t \in Tab, NEW f \in Field, NEW v \in Value \cup {Null}, Fill(t, f, v)
      PROVE  TypeOK'
  BY <1>2 DEF Fill, TypeOK
<1>3. ASSUME NEW t \in Tab, Submit(t) PROVE TypeOK'
  <2>1. answers' \in Answers /\ tab' = [tab EXCEPT ![t] = Elsewhere(answers')]
        /\ catalog' = catalog
    BY <1>3, SavedType DEF Submit
  <2>. QED
    BY <2>1, ElsewhereType DEF TypeOK
<1>4. ASSUME NEW t \in Tab, SubmitFails(t) PROVE TypeOK'
  BY <1>4, SavedType DEF SubmitFails, TypeOK
<1>5. ASSUME NEW t \in Tab, Leave(t) \/ Reload(t) PROVE TypeOK'
  <2>1. PICK cache \in Answers : tab' = [tab EXCEPT ![t] = Elsewhere(cache)]
    BY <1>5 DEF Leave, Reload, TypeOK
  <2>2. UNCHANGED <<catalog, answers>>
    BY <1>5 DEF Leave, Reload
  <2>. QED
    BY <2>1, <2>2, ElsewhereType DEF TypeOK
<1>6. CASE UNCHANGED vars
  BY <1>6 DEF vars, TypeOK
<1>. QED
  BY <1>1, <1>2, <1>3, <1>4, <1>5, <1>6 DEF Next

LEMMA QuizTypeInit == Init => TypeOK
<1>. SUFFICES ASSUME Init PROVE TypeOK
  OBVIOUS
<1>1. answers \in Answers
  BY DEF Init, Answers, Answer
<1>. QED
  BY <1>1, ElsewhereType DEF Init, TypeOK

\* Any number of tabs, failing saves included: the server's answers, the copies
\* and the drafts keep their types, and a page asks for fields of the catalog.
THEOREM QuizTypeCorrect == Spec => []TypeOK
BY QuizTypeInit, QuizTypeStep, PTL DEF Spec

-----------------------------------------------------------------------------
\* With one tab and whole saves, the page shows what the server has.
PageCurrent ==
    \A t \in Tab :
        /\ tab[t].cache = answers
        /\ tab[t].page = "elsewhere" => tab[t].candidates = {} /\ tab[t].fields = {}
        /\ tab[t].page = "quiz" =>
             /\ tab[t].candidates = Candidates
             /\ tab[t].fields = PageFields(Candidates)
             /\ \A f \in Field \ tab[t].fields : tab[t].draft[f] = Draft(answers)[f]

\* A login filled what it locks.
SyncedAnswered == \A f \in catalog.synced : answers[f] \in Value

\* What has a real answer is shown.
AnsweredShown ==
    \A f \in Field : answers[f] \in Value => Visible(catalog.vis[f], answers)

OneTabInv == TypeOK /\ PageCurrent /\ SyncedAnswered /\ AnsweredShown

LEMMA AlwaysShown ==
    ASSUME NEW view
    PROVE  Visible(<<>>, view)
BY DEF Visible

\* The pages ask for live unanswered fields.
LEMMA AskedShape ==
    ASSUME NEW candidates, NEW f \in PageFields(candidates)
    PROVE  answers[f] \notin Value /\ f \notin catalog.deleted
<1>1. answers[f] \notin Value
  BY PageFieldsMissing
<1>2. f \notin catalog.deleted
  BY DEF PageFields
<1>. QED
  BY <1>1, <1>2

\* What a save of the page answers is shown by the answers it leaves.
LEMMA DriversKnown ==
    ASSUME OneTabInv, OneLevel(catalog), NEW t \in Tab, tab[t].page = "quiz",
           NEW f \in Renderable(t)
    PROVE  Visible(catalog.vis[f], Saved(t, Renderable(t)))
<1> DEFINE draft == tab[t].draft
           saved == Saved(t, Renderable(t))
<1>1. f \in tab[t].fields /\ Visible(catalog.vis[f], draft)
  BY DEF Renderable
<1>2. /\ f \in Field /\ f \notin catalog.deleted
      /\ tab[t].fields = PageFields(Candidates) /\ tab[t].fields \subseteq Field
  BY <1>1, AskedShape DEF OneTabInv, PageCurrent, TypeOK
<1>3. ASSUME NEW d \in LeafFields(catalog.vis[f]), draft[d] \in Value
      PROVE  saved[d] = draft[d]
  <2>1. d \in Field
    BY <1>2, QuizCatalog, NodeShape DEF LeafFields, OneTabInv
  <2>2. CASE d = f
    BY <1>2, <2>2 DEF Saved
  <2>3. CASE d # f /\ d \in tab[t].fields
    <3>1. catalog.vis[d] = <<>>
      BY <1>2, <2>3 DEF OneLevel, References
    <3>2. d \in Renderable(t)
      BY <2>3, <3>1, AlwaysShown DEF Renderable
    <3>. QED
      BY <2>1, <3>2 DEF Saved
  <2>4. CASE d \notin tab[t].fields
    <3>1. draft[d] = Draft(answers)[d]
      BY <2>1, <2>4 DEF OneTabInv, PageCurrent
    <3>2. draft[d] = answers[d]
      BY <1>3, <2>1, <3>1, EligibilityAssumption DEF Draft, EligibilityAssumption
    <3>. QED
      BY <2>1, <2>4, <3>2 DEF Saved, Renderable
  <2>. QED
    BY <2>2, <2>3, <2>4
<1>4. catalog.vis[f] \in Tree
  BY <1>2, QuizCatalog DEF OneTabInv
<1> HIDE DEF saved, draft
<1>5. Visible(catalog.vis[f], saved)
  BY <1>1, <1>3, <1>4, VisibleMonotone
<1>. QED
  BY <1>5 DEF saved

LEMMA OneTabInit == (\A c \in Catalogs : OneLevel(c)) /\ Init => OneTabInv
<1>. SUFFICES ASSUME \A c \in Catalogs : OneLevel(c), Init PROVE OneTabInv
  OBVIOUS
<1>1. TypeOK
  BY QuizTypeInit
<1>2. PageCurrent
  BY DEF Init, PageCurrent, Elsewhere
<1>3. SyncedAnswered
  BY <1>1, QuizCatalog DEF Init, SyncedAnswered
<1>4. AnsweredShown
  BY AlwaysShown DEF Init, AnsweredShown, OneLevel
<1>. QED
  BY <1>1, <1>2, <1>3, <1>4 DEF OneTabInv

LEMMA OneTabStep ==
    ASSUME NEW only, Tab = {only}, Failures = FALSE, \A c \in Catalogs : OneLevel(c),
           OneTabInv, [Next]_vars
    PROVE  OneTabInv'
<1>. USE DEF OneTabInv
<1>1. TypeOK' /\ OneLevel(catalog)
  BY QuizTypeStep DEF TypeOK
<1>2. ASSUME UNCHANGED <<catalog, answers>>
      PROVE  SyncedAnswered' /\ AnsweredShown'
  BY <1>2 DEF SyncedAnswered, AnsweredShown
<1>3. ASSUME NEW t \in Tab, Open(t) PROVE OneTabInv'
  <2>1. UNCHANGED <<catalog, answers>> /\ Candidates' = Candidates
        /\ PageFields(Candidates)' = PageFields(Candidates)
    BY <1>3 DEF Open, Candidates, PageFields
  <2>2. tab' = [tab EXCEPT ![t] =
                 [page |-> "quiz", cache |-> tab[t].cache,
                  candidates |-> Candidates, fields |-> PageFields(Candidates),
                  draft |-> Draft(tab[t].cache)]]
    BY <1>3 DEF Open
  <2>3. \A u \in Tab : u = t
    OBVIOUS
  <2> HIDE DEF Candidates
  <2>4. PageCurrent'
    BY <2>1, <2>2, <2>3 DEF PageCurrent, TypeOK
  <2>. QED
    BY <1>1, <1>2, <2>1, <2>4
<1>4. ASSUME NEW t \in Tab, NEW g \in Field, NEW v \in Value \cup {Null}, Fill(t, g, v)
      PROVE OneTabInv'
  <2>1. UNCHANGED <<catalog, answers>> /\ Candidates' = Candidates
        /\ PageFields(Candidates)' = PageFields(Candidates)
    BY <1>4 DEF Fill, Candidates, PageFields
  <2>2. g \in tab[t].fields /\ tab' = [tab EXCEPT ![t].draft[g] = v]
    BY <1>4 DEF Fill, Renderable
  <2>3. \A u \in Tab : u = t
    OBVIOUS
  <2> HIDE DEF Candidates
  <2>4. /\ tab'[t].page = tab[t].page /\ tab'[t].cache = tab[t].cache
        /\ tab'[t].candidates = tab[t].candidates /\ tab'[t].fields = tab[t].fields
        /\ \A f \in Field : f # g => tab'[t].draft[f] = tab[t].draft[f]
    BY <2>2 DEF TypeOK
  <2>5. PageCurrent'
    BY <2>1, <2>2, <2>3, <2>4 DEF PageCurrent
  <2>. QED
    BY <1>1, <1>2, <2>1, <2>5
<1>5. ASSUME NEW t \in Tab, Submit(t) PROVE OneTabInv'
  <2>1. /\ tab' = [tab EXCEPT ![t] = Elsewhere(answers')] /\ catalog' = catalog
        /\ answers' = Saved(t, Renderable(t))
        /\ tab[t].page = "quiz"
    BY <1>5 DEF Submit
  <2>2. \A u \in Tab : u = t
    OBVIOUS
  <2>3. PageCurrent'
    BY <2>1, <2>2 DEF PageCurrent, Elsewhere, TypeOK
  <2>4. \A f \in Field : answers[f] \in Value => f \notin Renderable(t)
    BY <2>1, AskedShape DEF PageCurrent, Renderable
  <2>5. \A f \in Field : answers[f] \in Value => answers'[f] = answers[f]
    BY <2>1, <2>4 DEF Saved
  <2>6. SyncedAnswered'
    BY <2>1, <2>5, QuizCatalog DEF SyncedAnswered
  <2>7. ASSUME NEW f \in Field, answers'[f] \in Value
        PROVE  Visible(catalog.vis[f], answers')
    <3>1. CASE f \in Renderable(t)
      BY <1>1, <2>1, <3>1, DriversKnown
    <3>2. CASE f \notin Renderable(t)
      <4>1. answers[f] \in Value /\ catalog.vis[f] \in Tree
        BY <2>1, <2>7, <3>2, QuizCatalog DEF Saved
      <4>2. LeafFields(catalog.vis[f]) \subseteq Field
        BY <4>1, NodeShape DEF LeafFields
      <4>3. Visible(catalog.vis[f], answers)
        BY <4>1 DEF AnsweredShown
      <4>4. \A d \in LeafFields(catalog.vis[f]) :
                answers[d] \in Value => answers'[d] = answers[d]
        BY <2>5, <4>2
      <4>. QED
        BY <4>1, <4>3, <4>4, VisibleMonotone
    <3>. QED
      BY <3>1, <3>2
  <2>8. AnsweredShown'
    BY <2>1, <2>7 DEF AnsweredShown
  <2>. QED
    BY <1>1, <2>3, <2>6, <2>8
<1>6. ASSUME NEW t \in Tab, Leave(t) \/ Reload(t) PROVE OneTabInv'
  <2>1. UNCHANGED <<catalog, answers>> /\ tab' = [tab EXCEPT ![t] = Elsewhere(answers)]
    BY <1>6 DEF Leave, Reload, PageCurrent
  <2>2. \A u \in Tab : u = t
    OBVIOUS
  <2>3. PageCurrent'
    BY <2>1, <2>2 DEF PageCurrent, Elsewhere, TypeOK
  <2>. QED
    BY <1>1, <1>2, <2>1, <2>3
<1>7. CASE UNCHANGED vars
  <2>1. UNCHANGED <<catalog, answers, tab>> /\ Candidates' = Candidates
        /\ PageFields(Candidates)' = PageFields(Candidates)
    BY <1>7 DEF vars, Candidates, PageFields
  <2> HIDE DEF Candidates
  <2>2. PageCurrent'
    BY <2>1 DEF PageCurrent
  <2>. QED
    BY <1>1, <1>2, <2>1, <2>2
<1>8. ASSUME NEW t \in Tab PROVE ~SubmitFails(t)
  BY DEF SubmitFails
<1>. QED
  BY <1>3, <1>4, <1>5, <1>6, <1>7, <1>8 DEF Next

\* A question that has no real answer and is open for a benefit is on the page of
\* a quiz that lists the benefit, or its driver is.
LEMMA OpenQuestionRendered ==
    ASSUME OneTabInv, OneLevel(catalog), NEW t \in Tab, tab[t].page = "quiz",
           NEW b \in tab[t].candidates, NEW f \in AskableFields(catalog, b),
           f \in LeafFields(catalog.benefits[b].tree),
           answers[f] \notin Value, f \notin HiddenFields(catalog, b, answers)
    PROVE  Renderable(t) # {}
<1>1. b \in Benefit /\ tab[t].fields = PageFields(Candidates) /\ b \in Candidates
  BY DEF OneTabInv, PageCurrent, TypeOK
<1>2. /\ AskableFields(catalog, b) \subseteq Field
      /\ \A g \in AskableFields(catalog, b) :
            References(catalog.vis[g], g) \subseteq AskableFields(catalog, b)
  BY <1>1, QuizCatalog, AskableClosed DEF OneTabInv
<1>3. ASSUME NEW g \in AskableFields(catalog, b), answers[g] \notin Value,
             g \notin HiddenFields(catalog, b, answers),
             g \notin catalog.deleted \cup catalog.subfields
      PROVE  g \in tab[t].fields
  <2>1. g \in UnansweredFieldIds(catalog, b, answers)
    BY <1>3 DEF UnansweredFieldIds, WithoutRepeaterSubfields
  <2>2. g \notin catalog.locked
    BY <1>3 DEF OneLevel, OneTabInv, SyncedAnswered
  <2>. QED
    BY <1>1, <1>3, <2>1, <2>2 DEF PageFields
<1>4. b \in DOMAIN catalog.benefits
  BY <1>1, CatalogsAssumption DEF CatalogsAssumption, OneTabInv, TypeOK
<1>5. f \in Field /\ f \notin catalog.deleted \cup catalog.subfields /\ f \in tab[t].fields
  BY <1>2, <1>3, <1>4 DEF OneLevel
<1>6. CASE Visible(catalog.vis[f], tab[t].draft)
  BY <1>5, <1>6 DEF Renderable
<1>7. CASE ~Visible(catalog.vis[f], tab[t].draft)
  <2>1. catalog.vis[f] # <<>> /\ References(catalog.vis[f], f) # {}
    BY <1>5, <1>7, AlwaysShown DEF OneLevel
  <2>2. CASE \A r \in References(catalog.vis[f], f) : answers[r] \in Value
    <3>1. Visible(catalog.vis[f], answers)
      BY <2>1, <2>2 DEF HiddenFields, SettledHidden
    <3>2. catalog.vis[f] \in Tree
      BY <1>5, QuizCatalog DEF OneTabInv
    <3>3. ASSUME NEW d \in LeafFields(catalog.vis[f]), answers[d] \in Value
          PROVE  tab[t].draft[d] = answers[d]
      <4>1. d \in Field
        BY <3>2, NodeShape DEF LeafFields
      <4>2. d \notin tab[t].fields
        BY <1>1, <3>3, AskedShape
      <4>3. tab[t].draft[d] = Draft(answers)[d]
        BY <4>1, <4>2 DEF OneTabInv, PageCurrent
      <4>. QED
        BY <3>3, <4>1, <4>3 DEF Draft
    <3>. QED
      BY <1>7, <3>1, <3>2, <3>3, VisibleMonotone
  <2>3. CASE \E r \in References(catalog.vis[f], f) : answers[r] \notin Value
    <3>1. PICK r \in References(catalog.vis[f], f) : answers[r] \notin Value
      BY <2>3
    <3>2. r \in AskableFields(catalog, b) /\ catalog.vis[r] = <<>>
          /\ r \notin catalog.deleted \cup catalog.subfields
      BY <1>2, <1>5, <3>1 DEF OneLevel
    <3>3. r \notin HiddenFields(catalog, b, answers)
      BY <3>2 DEF HiddenFields, SettledHidden
    <3>4. r \in tab[t].fields
      BY <1>3, <3>1, <3>2, <3>3
    <3>. QED
      BY <3>2, <3>4, AlwaysShown DEF Renderable
  <2>. QED
    BY <2>2, <2>3
<1>. QED
  BY <1>6, <1>7

LEMMA NoDeadEndHolds ==
    ASSUME OneTabInv, \A c \in Catalogs : OneLevel(c)
    PROVE  NoDeadEnd
<1>. USE DEF OneTabInv
<1>. SUFFICES ASSUME NEW t \in Tab, tab[t].candidates # {}
              PROVE  Renderable(t) # {}
  BY DEF NoDeadEnd
<1>1. OneLevel(catalog) /\ WellFormed(catalog)
  BY QuizCatalog DEF TypeOK
<1>2. /\ tab[t].page = "quiz" /\ tab[t].candidates = Candidates
      /\ tab[t].fields = PageFields(Candidates)
  BY DEF PageCurrent, TypeOK
<1>3. PICK b \in Benefit : b \in tab[t].candidates /\ Verdict(catalog, b, answers) = "PENDING"
  BY <1>2 DEF Candidates
<1>4. CASE ResidencyStatus(catalog, b, answers) = "PENDING"
  <2>. DEFINE r == catalog.residence
  <2>1. r # NoField /\ answers[r] \notin Value
    BY <1>4 DEF ResidencyStatus
  <2>2. r \in UnansweredFieldIds(catalog, b, answers)
    BY <1>4 DEF UnansweredFieldIds, ResidencyPending
  <2>3. r \notin catalog.deleted /\ catalog.vis[r] = <<>> /\ r \notin catalog.locked
    BY <1>1, <2>1 DEF OneLevel, SyncedAnswered
  <2>4. r \in tab[t].fields
    BY <1>2, <1>3, <2>2, <2>3 DEF PageFields
  <2>. QED
    BY <2>3, <2>4, AlwaysShown DEF Renderable
<1>5. CASE ResidencyStatus(catalog, b, answers) # "PENDING"
  <2>. DEFINE tree == catalog.benefits[b].tree
              hidden == HiddenFields(catalog, b, answers)
  <2>1. TreeStatus(tree, answers, hidden) = "PENDING" /\ tree \in Tree
    BY <1>3, <1>5, VerdictType, QuizCatalog
  <2> HIDE DEF tree, hidden
  <2>2. PICK n \in DOMAIN tree : ~IsGroup(tree[n])
                                 /\ LeafStatus(tree[n], answers, hidden) = "PENDING"
    BY <2>1, PendingExplained
  <2>3. answers[tree[n].field] \notin Value /\ tree[n].field \notin hidden
    BY <2>2 DEF LeafStatus
  <2>4. tree[n].field \in LeafFields(tree)
    BY <2>2 DEF LeafFields
  <2>5. tree[n].field \in AskableFields(catalog, b)
    BY <1>1, <2>1, <2>4, AskableClosed DEF tree
  <2>. QED
    BY <1>1, <1>2, <1>3, <2>3, <2>4, <2>5, OpenQuestionRendered DEF tree, hidden
<1>. QED
  BY <1>4, <1>5

\* In one tab and with whole saves, the quiz never lists an open benefit without
\* a question to answer, whatever the drafts in between: for every well-formed
\* catalog whose show/hide trees are one level deep, of any size
\* (AnswerMorePage.tsx:43-66).
THEOREM QuizNoDeadEnd ==
    ASSUME NEW only, Tab = {only}, Failures = FALSE, \A c \in Catalogs : OneLevel(c)
    PROVE  Spec => []NoDeadEnd
<1>1. Init => OneTabInv
  BY OneTabInit
<1>2. OneTabInv /\ [Next]_vars => OneTabInv'
  BY OneTabStep
<1>3. OneTabInv => NoDeadEnd
  BY NoDeadEndHolds
<1>. QED
  BY <1>1, <1>2, <1>3, PTL DEF Spec

\* Nor does it leave a real answer on a question that the answers hide: what was
\* shown when it was saved stays shown as further answers come
\* (field-visibility.ts:572-576).
THEOREM QuizHiddenStayUnanswered ==
    ASSUME NEW only, Tab = {only}, Failures = FALSE, \A c \in Catalogs : OneLevel(c)
    PROVE  Spec => []HiddenStayUnanswered
<1>1. Init => OneTabInv
  BY OneTabInit
<1>2. OneTabInv /\ [Next]_vars => OneTabInv'
  BY OneTabStep
<1>3. OneTabInv => HiddenStayUnanswered
  BY DEF OneTabInv, AnsweredShown, HiddenStayUnanswered, HiddenFields, SettledHidden
<1>. QED
  BY <1>1, <1>2, <1>3, PTL DEF Spec
=================================================================================
