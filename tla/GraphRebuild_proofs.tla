------------------------ MODULE GraphRebuild_proofs -------------------------
(***************************************************************************)
(* Whatever directories a run left behind, the graph rebuilt from them can *)
(* be walked by the page: RebuildIsNavigable, for every tree.  Each shape  *)
(* is Sound on its own (its containers are nodes it shows, the directories *)
(* walked are containers, its edges join nodes it shows), and the walk     *)
(* reaches a directory only through the shape of its parent.               *)
(***************************************************************************)
EXTENDS GraphRebuild, SequenceTheorems, FiniteSetTheorems, WellFoundedInduction, TLAPS

-----------------------------------------------------------------------------
(* The sequences the shapes are built from.                                *)

Less == {ss \in Nat \X Nat : ss[1] < ss[2]}

\* A set of numbers has a least one.
LEMMA LeastIsThere ==
  ASSUME NEW S \in SUBSET Nat, S # {}
  PROVE  \E x \in S : \A y \in S : x <= y
<1>1. Less = OpToRel(<, Nat)
  BY DEF Less, OpToRel
<1>2. IsWellFoundedOn(Less, Nat)
  BY <1>1, NatLessThanWellFounded
<1>3. PICK x \in S : \A y \in S : ~ (<<y, x>> \in Less)
  BY <1>2, WFMin
<1>4. ASSUME NEW y \in S PROVE x <= y
  <2>1. x \in Nat /\ y \in Nat
    OBVIOUS
  <2>2. ~ (<<y, x>> \in Less)
    BY <1>3
  <2> QED BY <2>1, <2>2 DEF Less
<1> QED BY <1>4

\* SetToSeq lists a finite set.
LEMMA SetToSeqLists ==
  ASSUME NEW S, IsFiniteSet(S)
  PROVE  /\ Cardinality(S) \in Nat
         /\ SetToSeq(S) \in [1..Cardinality(S) -> S]
         /\ IsInjective(SetToSeq(S))
<1>1. PICK f \in Bijection(1..Cardinality(S), S) : TRUE
  BY FS_CardinalityType DEF ExistsBijection
<1>2. f \in [1..Cardinality(S) -> S] /\ IsInjective(f)
  BY <1>1 DEF Bijection, Injection, IsInjective
<1> QED BY <1>2, FS_CardinalityType DEF SetToSeq

\* ... all of it.
LEMMA SetToSeqIsOnto ==
  ASSUME NEW S, IsFiniteSet(S)
  PROVE  ToSet(SetToSeq(S)) = S
<1> DEFINE n == Cardinality(S)  f == SetToSeq(S)
<1>1. n \in Nat /\ f \in [1..n -> S] /\ IsInjective(f)
  BY SetToSeqLists
<1>2. f \in Injection(1..n, S)
  BY <1>1 DEF Injection, IsInjective
<1>3. Cardinality(1..n) = n
  BY <1>1, FS_Interval
<1>4. f \in Surjection(1..n, S)
  BY <1>2, <1>3, FS_Injection
<1> QED BY <1>1, <1>4 DEF Surjection, ToSet

RankOf(d) == Last(d)[2]
Ranked(S) == IsFiniteSet(S) /\ \A d \in S : RankOf(d) \in Nat

\* s lists S, the lower numbers first.
Sorts(s, S) ==
  /\ s \in [1..Cardinality(S) -> S] /\ IsInjective(s)
  /\ \A i, j \in 1..Cardinality(S) : i < j => RankOf(s[i]) <= RankOf(s[j])

\* The one with the least number, then the others in order.
LEMMA SortOneMore ==
  ASSUME NEW S, Ranked(S), NEW x \in S, \A y \in S : RankOf(x) <= RankOf(y),
         NEW t, Sorts(t, S \ {x})
  PROVE  \E s : Sorts(s, S)
<1> DEFINE n == Cardinality(S \ {x})
           s == [i \in 1..(n + 1) |-> IF i = 1 THEN x ELSE t[i - 1]]
<1>1. n \in Nat /\ Cardinality(S) = n + 1
  <2>1. IsFiniteSet(S \ {x}) /\ n = Cardinality(S) - 1
    BY FS_RemoveElement DEF Ranked
  <2>2. n \in Nat /\ Cardinality(S) \in Nat
    BY <2>1, FS_CardinalityType DEF Ranked
  <2> QED BY <2>1, <2>2
<1>2. /\ t \in [1..n -> S \ {x}]
      /\ \A i, j \in 1..n : t[i] = t[j] => i = j
      /\ \A i, j \in 1..n : i < j => RankOf(t[i]) <= RankOf(t[j])
  BY DEF Sorts, IsInjective
<1> HIDE DEF n
<1>3. ASSUME NEW i \in 1..(n + 1), i # 1 PROVE i - 1 \in 1..n /\ t[i - 1] \in S \ {x}
  BY <1>1, <1>2, <1>3
<1>4. s \in [1..(n + 1) -> S]
  BY <1>3
<1>5. ASSUME NEW i \in 1..(n + 1), NEW j \in 1..(n + 1), i < j
      PROVE  s[i] # s[j] /\ RankOf(s[i]) <= RankOf(s[j])
  <2>1. j # 1 /\ j - 1 \in 1..n /\ t[j - 1] \in S \ {x} /\ s[j] = t[j - 1]
    BY <1>1, <1>3, <1>5
  <2>2. CASE i = 1
    BY <1>1, <2>1, <2>2
  <2>3. CASE i # 1
    <3>1. i - 1 \in 1..n /\ s[i] = t[i - 1] /\ i - 1 < j - 1 /\ i - 1 # j - 1
      BY <1>1, <1>3, <1>5, <2>3
    <3> HIDE DEF s
    <3> QED BY <1>2, <2>1, <3>1
  <2> QED BY <2>2, <2>3
<1>6. IsInjective(s)
  <2>1. DOMAIN s = 1..(n + 1)
    OBVIOUS
  <2> HIDE DEF s
  <2>2. ASSUME NEW i \in 1..(n + 1), NEW j \in 1..(n + 1), s[i] = s[j] PROVE i = j
    <3>1. ~ (i < j) /\ ~ (j < i)
      BY <1>5, <2>2
    <3> QED BY <1>1, <3>1
  <2> QED BY <2>1, <2>2 DEF IsInjective
<1> HIDE DEF s
<1>7. Sorts(s, S)
  BY <1>1, <1>4, <1>5, <1>6 DEF Sorts
<1> QED BY <1>7

\* Finite sets of directories can be listed in order (sorted, in _subdirs).
LEMMA SortIsThere ==
  ASSUME NEW S, Ranked(S)
  PROVE  \E s : Sorts(s, S)
<1> DEFINE Bad == {n \in Nat : \E T : Ranked(T) /\ Cardinality(T) = n /\ ~ \E s : Sorts(s, T)}
<1> SUFFICES ASSUME Bad # {} PROVE FALSE
  <2>1. Cardinality(S) \in Nat
    BY FS_CardinalityType DEF Ranked
  <2> QED BY <2>1
<1>1. PICK n \in Bad : \A m \in Bad : n <= m
  <2>1. Bad \in SUBSET Nat
    OBVIOUS
  <2> HIDE DEF Bad
  <2> QED BY <2>1, LeastIsThere
<1>2. PICK T : Ranked(T) /\ Cardinality(T) = n /\ ~ \E s : Sorts(s, T)
  BY <1>1
<1>3. T # {}
  <2> SUFFICES ASSUME T = {} PROVE FALSE
    OBVIOUS
  <2>1. Cardinality(T) = 0
    BY FS_EmptySet
  <2>2. 1..0 = {}
    OBVIOUS
  <2>3. <<>> \in [1..0 -> T] /\ DOMAIN <<>> = {}
    BY <2>2
  <2>4. Sorts(<<>>, T)
    BY <2>1, <2>2, <2>3 DEF Sorts, IsInjective
  <2> QED BY <2>4, <1>2
<1>4. PICK x \in T : \A y \in T : RankOf(x) <= RankOf(y)
  <2> DEFINE R == {RankOf(d) : d \in T}
  <2>1. R \in SUBSET Nat /\ R # {}
    BY <1>2, <1>3 DEF Ranked
  <2>2. PICK r \in R : \A q \in R : r <= q
    <3> HIDE DEF R
    <3> QED BY <2>1, LeastIsThere
  <2>3. PICK x \in T : RankOf(x) = r
    BY <2>2
  <2> QED BY <2>2, <2>3
<1> DEFINE U == T \ {x}
<1>5. Ranked(U) /\ Cardinality(U) = n - 1 /\ n - 1 \in Nat
  <2>1. IsFiniteSet(U) /\ Cardinality(U) = n - 1
    BY <1>2, FS_RemoveElement DEF Ranked
  <2>2. Cardinality(U) \in Nat
    BY <2>1, FS_CardinalityType
  <2> QED BY <1>2, <2>1, <2>2 DEF Ranked
<1>6. n - 1 \notin Bad
  <2>1. n \in Nat
    BY <1>1
  <2>2. ~ (n <= n - 1)
    BY <2>1
  <2> HIDE DEF Bad
  <2> QED BY <1>1, <2>2
<1>7. PICK t : Sorts(t, U)
  BY <1>5, <1>6
<1> QED BY <1>2, <1>4, <1>7, SortOneMore

\* InOrder lists directories of the set it is given, and nothing else.
LEMMA InOrderLists ==
  ASSUME NEW S, Ranked(S)
  PROVE  Cardinality(S) \in Nat /\ InOrder(S) \in [1..Cardinality(S) -> S]
<1>1. PICK s : Sorts(s, S)
  BY SortIsThere
<1>2. /\ s \in [1..Cardinality(S) -> S] /\ IsInjective(s)
      /\ \A i, j \in DOMAIN s : i < j => Last(s[i])[2] <= Last(s[j])[2]
  BY <1>1 DEF Sorts, RankOf
<1>3. InOrder(S) \in [1..Cardinality(S) -> S]
  BY <1>2 DEF InOrder
<1> QED BY <1>3, FS_CardinalityType DEF Ranked

\* A list of elements of a set is a sequence of them.
LEMMA ListIsSeq ==
  ASSUME NEW S, NEW n \in Nat, NEW s \in [1..n -> S]
  PROVE  s \in Seq(S) /\ ToSet(s) \subseteq S
<1>1. s \in Seq(S)
  BY SeqDef
<1> QED BY <1>1 DEF ToSet

\* The elements of a concatenation.
LEMMA ToSetOfConcat ==
  ASSUME NEW S, NEW s \in Seq(S), NEW t \in Seq(S)
  PROVE  ToSet(s) \subseteq ToSet(s \o t) /\ ToSet(t) \subseteq ToSet(s \o t)
<1>1. /\ Len(s) \in Nat /\ DOMAIN s = 1..Len(s)
      /\ Len(t) \in Nat /\ DOMAIN t = 1..Len(t)
  BY LenProperties
<1>2. /\ s \o t \in Seq(S) /\ Len(s \o t) = Len(s) + Len(t)
      /\ \A i \in 1 .. Len(s) + Len(t) : (s \o t)[i] = IF i <= Len(s) THEN s[i] ELSE t[i - Len(s)]
  BY ConcatProperties
<1>3. DOMAIN (s \o t) = 1..(Len(s) + Len(t))
  BY <1>2, LenProperties
<1> DEFINE c == s \o t
<1> HIDE DEF c
<1>4. ASSUME NEW i \in 1..Len(s) PROVE s[i] \in ToSet(c)
  <2>1. i \in 1..(Len(s) + Len(t)) /\ (s \o t)[i] = s[i]
    BY <1>1, <1>2
  <2>2. i \in DOMAIN c /\ c[i] = s[i]
    BY <1>3, <2>1 DEF c
  <2> QED BY <2>2 DEF ToSet
<1>5. ASSUME NEW i \in 1..Len(t) PROVE t[i] \in ToSet(c)
  <2> DEFINE j == Len(s) + i
  <2>1. j \in 1..(Len(s) + Len(t)) /\ ~ (j <= Len(s)) /\ j - Len(s) = i
    BY <1>1
  <2> HIDE DEF j
  <2>2. j \in DOMAIN c /\ c[j] = t[i]
    BY <1>2, <1>3, <2>1 DEF c
  <2> QED BY <2>2 DEF ToSet
<1>6. ToSet(s) \subseteq ToSet(c) /\ ToSet(t) \subseteq ToSet(c)
  BY <1>1, <1>4, <1>5 DEF ToSet
<1> QED BY <1>6 DEF c

\* The elements of a sequence.
LEMMA ToSetOfSeq ==
  ASSUME NEW S, NEW s \in Seq(S)
  PROVE  ToSet(s) \subseteq S /\ \A i \in 1..Len(s) : s[i] \in ToSet(s)
BY LenProperties, ElementOfSeq DEF ToSet

\* A chain joins elements of its sequence.
LEMMA ChainJoins ==
  ASSUME NEW S, NEW s \in Seq(S)
  PROVE  Chain(s) \subseteq ToSet(s) \X ToSet(s)
<1>1. Len(s) \in Nat
  BY LenProperties
<1>2. ASSUME NEW i \in 1..(Len(s) - 1) PROVE s[i] \in ToSet(s) /\ s[i + 1] \in ToSet(s)
  BY <1>1, ToSetOfSeq
<1> QED BY <1>2 DEF Chain

\* A directory and the name of one below it.
LEMMA FrontOfAppend ==
  ASSUME NEW S, NEW dir \in Seq(S), NEW n \in S
  PROVE  /\ Append(dir, n) \in Seq(S) \ {<<>>}
         /\ Front(Append(dir, n)) = dir
<1> DEFINE a == Append(dir, n)
<1>1. /\ a \in Seq(S) /\ a # <<>> /\ Len(a) = Len(dir) + 1
      /\ \A i \in 1..Len(dir) : a[i] = dir[i]
      /\ Len(dir) \in Nat
  BY AppendProperties, LenProperties
<1> HIDE DEF a
<1>2. \A i \in 1..Len(dir) : a[i] \in S
  BY <1>1, ElementOfSeq
<1>3. /\ SubSeq(a, 1, Len(dir)) \in Seq(S)
      /\ Len(SubSeq(a, 1, Len(dir))) = Len(dir)
      /\ \A i \in 1..Len(dir) : SubSeq(a, 1, Len(dir))[i] = a[i]
  <2>1. /\ SubSeq(a, 1, Len(dir)) \in Seq(S)
        /\ Len(SubSeq(a, 1, Len(dir))) = IF 1 <= Len(dir) THEN Len(dir) - 1 + 1 ELSE 0
        /\ \A i \in 1 .. Len(dir) - 1 + 1 : SubSeq(a, 1, Len(dir))[i] = a[1 + i - 1]
    BY <1>1, <1>2, SubSeqProperties
  <2> QED BY <1>1, <2>1
<1>4. SubSeq(a, 1, Len(dir)) = dir
  BY <1>1, <1>3, SeqEqual
<1>5. Front(a) = dir
  <2>1. Len(a) - 1 = Len(dir)
    BY <1>1
  <2> QED BY <1>4, <2>1 DEF Front
<1> QED BY <1>1, <1>5 DEF a

-----------------------------------------------------------------------------
(* The shapes.                                                             *)

NodesOf(w, dir) == {d \in Seq(Names(w)) \ {<<>>} : Front(d) = dir}

Sound(w, dir, shape) ==
  /\ shape.nodes \subseteq NodesOf(w, dir)
  /\ shape.containers \subseteq shape.nodes /\ shape.walked \subseteq shape.containers
  /\ shape.edges \subseteq shape.nodes \X shape.nodes

\* The subdirectories of a directory of a tree can be listed in order.
LEMMA ChildrenAreNodes ==
  ASSUME NEW w, IsTree(w), NEW dir \in DOMAIN w, NEW S \in SUBSET Children(w, dir)
  PROVE  S \subseteq NodesOf(w, dir) /\ Ranked(S)
<1>1. IsFiniteSet(S)
  BY FS_Subset DEF IsTree, Children
<1>2. ASSUME NEW d \in S PROVE d \in NodesOf(w, dir) /\ RankOf(d) \in Nat
  <2>1. d \in Seq(Names(w)) /\ Len(d) = Len(dir) + 1 /\ Front(d) = dir /\ dir \in Seq(Names(w))
    BY DEF Children, IsTree
  <2>2. Len(dir) \in Nat /\ Len(d) \in 1..Len(d)
    BY <2>1, LenProperties
  <2>3. d[Len(d)] \in Names(w)
    BY <2>1, <2>2, ElementOfSeq
  <2>4. RankOf(d) \in Nat
    BY <2>3 DEF RankOf, Last, IsTree
  <2>5. d # <<>>
    BY <2>1, <2>2, EmptySeq
  <2> QED BY <2>1, <2>4, <2>5 DEF NodesOf
<1> QED BY <1>1, <1>2 DEF Ranked

\* A list of nodes, some of them containers, joined in a chain.
LEMMA ChainIsSound ==
  ASSUME NEW w, NEW dir, NEW s \in Seq(NodesOf(w, dir)), NEW boxes \in SUBSET ToSet(s),
         NEW back \in SUBSET (ToSet(s) \X ToSet(s))
  PROVE  Sound(w, dir, Shape(ToSet(s), boxes, boxes, Chain(s) \cup back))
<1>1. ToSet(s) \subseteq NodesOf(w, dir) /\ Chain(s) \subseteq ToSet(s) \X ToSet(s)
  BY ToSetOfSeq, ChainJoins
<1> QED BY <1>1 DEF Sound, Shape

\* _shape_pti.
LEMMA PtiIsSound ==
  ASSUME NEW w, IsTree(w), NEW dir \in DOMAIN w
  PROVE  Sound(w, dir, ShapePti(w, dir))
<1> DEFINE N == NodesOf(w, dir)
           p(n) == Present(w, Append(dir, <<n, 0>>))
           s == p("planner") \o p("executor") \o p("analyzer")
<1>1. ASSUME NEW n \in {"planner", "executor", "analyzer"} PROVE p(n) \in Seq(N)
  <2>1. <<n, 0>> \in Names(w) /\ dir \in Seq(Names(w))
    BY DEF Names, Slots, IsTree
  <2>2. Append(dir, <<n, 0>>) \in N
    BY <2>1, FrontOfAppend DEF NodesOf
  <2> HIDE DEF N
  <2>3. p(n) = <<>> \/ p(n) = <<Append(dir, <<n, 0>>)>>
    BY DEF Present
  <2>4. <<>> \in Seq(N)
    BY EmptySeq
  <2>5. <<Append(dir, <<n, 0>>)>> \in Seq(N)
    BY <2>2
  <2> QED BY <2>3, <2>4, <2>5
<1> HIDE DEF N, p
<1>2. s \in Seq(N)
  <2>1. p("planner") \in Seq(N) /\ p("executor") \in Seq(N) /\ p("analyzer") \in Seq(N)
    BY <1>1
  <2>2. p("planner") \o p("executor") \in Seq(N)
    BY <2>1, ConcatProperties
  <2> QED BY <2>1, <2>2, ConcatProperties
<1>3. ShapePti(w, dir) = Shape(ToSet(s), ToSet(s), ToSet(s), Chain(s))
  BY DEF ShapePti, p
<1> HIDE DEF s
<1>4. Sound(w, dir, Shape(ToSet(s), ToSet(s), ToSet(s), Chain(s) \cup {}))
  BY <1>2, ChainIsSound DEF N
<1> QED BY <1>3, <1>4

\* _shape_dual: the stages of the last round are shown, the rounds are not.
LEMMA DualIsSound ==
  ASSUME NEW w, IsTree(w), NEW dir \in DOMAIN w
  PROVE  Sound(w, dir, ShapeDual(w, dir))
<1> DEFINE N == NodesOf(w, dir)
           propose == OfKind(w, dir, "propose")
           rounds == OfKind(w, dir, "round_")
           last == Last(InOrder(rounds))
           stage(n) == IF rounds # {} /\ Append(last, n) \in DOMAIN w THEN <<Append(dir, n)>>
                       ELSE <<>>
           stages == stage(<<"review", 0>>) \o stage(<<"fix", 0>>)
           shown == SetToSeq(propose) \o stages
           back == IF Len(stages) = 2 THEN {<<stages[2], stages[1]>>} ELSE {}
<1>1. SetToSeq(propose) \in Seq(N) /\ ToSet(SetToSeq(propose)) = propose
  <2>1. propose \in SUBSET Children(w, dir)
    BY DEF OfKind
  <2>2. propose \subseteq N /\ IsFiniteSet(propose)
    BY <2>1, ChildrenAreNodes DEF Ranked
  <2> HIDE DEF propose, N
  <2>3. Cardinality(propose) \in Nat /\ SetToSeq(propose) \in [1..Cardinality(propose) -> propose]
    BY <2>2, SetToSeqLists
  <2>4. SetToSeq(propose) \in [1..Cardinality(propose) -> N]
    BY <2>2, <2>3
  <2> QED BY <2>2, <2>3, <2>4, ListIsSeq, SetToSeqIsOnto
<1>2. ASSUME NEW n \in Names(w) PROVE stage(n) \in Seq(N)
  <2>1. dir \in Seq(Names(w))
    BY DEF IsTree
  <2>2. Append(dir, n) \in N
    BY <2>1, FrontOfAppend DEF NodesOf
  <2>3. stage(n) = <<>> \/ stage(n) = <<Append(dir, n)>>
    OBVIOUS
  <2> HIDE DEF N, stage
  <2>4. <<>> \in Seq(N) /\ <<Append(dir, n)>> \in Seq(N)
    BY <2>2
  <2> QED BY <2>3, <2>4
<1> HIDE DEF N, stage
<1>3. stages \in Seq(N)
  <2>1. <<"review", 0>> \in Names(w) /\ <<"fix", 0>> \in Names(w)
    BY DEF Names, Slots
  <2> QED BY <1>2, <2>1, ConcatProperties
<1> HIDE DEF stages
<1>4. shown \in Seq(N) /\ propose \subseteq ToSet(shown) /\ ToSet(stages) \subseteq ToSet(shown)
  BY <1>1, <1>3, ConcatProperties, ToSetOfConcat
<1>5. back \in SUBSET (ToSet(shown) \X ToSet(shown))
  <2>1. \A i \in 1..Len(stages) : stages[i] \in ToSet(stages)
    BY <1>3, ToSetOfSeq
  <2>2. Len(stages) = 2 => stages[2] \in ToSet(stages) /\ stages[1] \in ToSet(stages)
    BY <2>1
  <2> QED BY <1>4, <2>2
<1>6. ShapeDual(w, dir) = Shape(ToSet(shown), propose, propose, Chain(shown) \cup back)
  BY DEF ShapeDual, stages, stage
<1> HIDE DEF shown, back, propose
<1>7. Sound(w, dir, Shape(ToSet(shown), propose, propose, Chain(shown) \cup back))
  BY <1>4, <1>5, ChainIsSound DEF N
<1> QED BY <1>6, <1>7

\* _shape_diamond: the breakdown is shown with or without a directory.
LEMMA DiamondIsSound ==
  ASSUME NEW w, IsTree(w), NEW dir \in DOMAIN w, NEW kind, NEW containers
  PROVE  Sound(w, dir, ShapeDiamond(w, dir, kind, containers))
<1> DEFINE breakdown == Append(dir, <<"breakdown", 0>>)
           workers == OfKind(w, dir, kind)
           boxes == IF containers THEN workers ELSE Orchestrated(w, workers)
           aggregator == OfKind(w, dir, "aggregator")
           edges == ({breakdown} \X workers) \cup (workers \X aggregator)
<1>1. breakdown \in NodesOf(w, dir)
  <2>1. <<"breakdown", 0>> \in Names(w) /\ dir \in Seq(Names(w))
    BY DEF Names, Slots, IsTree
  <2> QED BY <2>1, FrontOfAppend DEF NodesOf
<1>2. workers \subseteq NodesOf(w, dir) /\ aggregator \subseteq NodesOf(w, dir)
  <2>1. workers \in SUBSET Children(w, dir) /\ aggregator \in SUBSET Children(w, dir)
    BY DEF OfKind
  <2> QED BY <2>1, ChildrenAreNodes
<1>3. boxes \subseteq workers
  BY DEF Orchestrated
<1>4. ShapeDiamond(w, dir, kind, containers)
        = Shape({breakdown} \cup workers \cup aggregator, boxes, boxes, edges)
  BY DEF ShapeDiamond
<1> HIDE DEF breakdown, workers, aggregator, boxes
<1>5. Sound(w, dir, Shape({breakdown} \cup workers \cup aggregator, boxes, boxes, edges))
  BY <1>1, <1>2, <1>3 DEF Sound, Shape
<1> QED BY <1>4, <1>5

\* A list of subdirectories, in order.
LEMMA InOrderIsSeq ==
  ASSUME NEW w, IsTree(w), NEW dir \in DOMAIN w, NEW S \in SUBSET Children(w, dir)
  PROVE  InOrder(S) \in Seq(NodesOf(w, dir))
<1>1. S \subseteq NodesOf(w, dir) /\ Ranked(S)
  BY ChildrenAreNodes
<1>2. Cardinality(S) \in Nat /\ InOrder(S) \in [1..Cardinality(S) -> S]
  BY <1>1, InOrderLists
<1>3. InOrder(S) \in [1..Cardinality(S) -> NodesOf(w, dir)]
  BY <1>1, <1>2
<1> QED BY <1>2, <1>3, ListIsSeq

\* _shape_lwi.
LEMMA LwiIsSound ==
  ASSUME NEW w, IsTree(w), NEW dir \in DOMAIN w
  PROVE  Sound(w, dir, ShapeLwi(w, dir))
<1> DEFINE N == NodesOf(w, dir)
           initial == OfKind(w, dir, "initial")
           rounds == OfKind(w, dir, "round")
           logged == {d \in Children(w, dir) : w[d] # NoClass}
           steps == IF initial # {} THEN SetToSeq(initial) \o InOrder(rounds)
                    ELSE InOrder(logged)
           boxes == Orchestrated(w, ToSet(steps))
<1>1. /\ initial \in SUBSET Children(w, dir) /\ rounds \in SUBSET Children(w, dir)
      /\ logged \in SUBSET Children(w, dir)
  BY DEF OfKind
<1>2. ShapeLwi(w, dir) = Shape(ToSet(steps), boxes, boxes, Chain(steps))
  BY DEF ShapeLwi
<1> HIDE DEF initial, rounds, logged
<1>3. SetToSeq(initial) \in Seq(N)
  <2>1. initial \subseteq N /\ IsFiniteSet(initial)
    BY <1>1, ChildrenAreNodes DEF Ranked
  <2>2. Cardinality(initial) \in Nat /\ SetToSeq(initial) \in [1..Cardinality(initial) -> initial]
    BY <2>1, SetToSeqLists
  <2>3. SetToSeq(initial) \in [1..Cardinality(initial) -> N]
    BY <2>1, <2>2
  <2> QED BY <2>2, <2>3, ListIsSeq
<1>4. InOrder(rounds) \in Seq(N) /\ InOrder(logged) \in Seq(N)
  BY <1>1, InOrderIsSeq
<1>5. steps \in Seq(N)
  <2> HIDE DEF N
  <2>1. SetToSeq(initial) \o InOrder(rounds) \in Seq(N)
    BY <1>3, <1>4, ConcatProperties
  <2> QED BY <1>4, <2>1
<1> HIDE DEF steps
<1>6. boxes \in SUBSET ToSet(steps)
  BY DEF Orchestrated
<1> HIDE DEF boxes
<1>7. Sound(w, dir, Shape(ToSet(steps), boxes, boxes, Chain(steps) \cup {}))
  BY <1>5, <1>6, ChainIsSound
<1> QED BY <1>2, <1>7

\* _shape_fallback.
LEMMA FallbackIsSound ==
  ASSUME NEW w, IsTree(w), NEW dir \in DOMAIN w
  PROVE  Sound(w, dir, ShapeFallback(w, dir))
<1> DEFINE logged == {d \in Children(w, dir) : w[d] # NoClass /\ Last(d)[1] # "infra"}
           steps == InOrder(logged)
           boxes == Orchestrated(w, ToSet(steps))
<1>1. ShapeFallback(w, dir) = Shape(ToSet(steps), boxes, boxes, Chain(steps))
  BY DEF ShapeFallback
<1>2. logged \in SUBSET Children(w, dir)
  OBVIOUS
<1> HIDE DEF logged
<1>3. steps \in Seq(NodesOf(w, dir))
  BY <1>2, InOrderIsSeq
<1> HIDE DEF steps
<1>4. boxes \in SUBSET ToSet(steps)
  BY DEF Orchestrated
<1> HIDE DEF boxes
<1>5. Sound(w, dir, Shape(ToSet(steps), boxes, boxes, Chain(steps) \cup {}))
  BY <1>3, <1>4, ChainIsSound
<1> QED BY <1>1, <1>5

\* Whatever the class of a directory's log, its shape is sound.
LEMMA ShapeIsSound ==
  ASSUME NEW w, IsTree(w), NEW dir \in DOMAIN w
  PROVE  Sound(w, dir, ShapeOf(w, dir))
<1>1. CASE w[dir] = "pti"
  BY <1>1, PtiIsSound DEF ShapeOf
<1>2. CASE w[dir] \in {"dual", "mfdual"}
  BY <1>2, DualIsSound DEF ShapeOf
<1>3. CASE w[dir] = "bta"
  BY <1>3, DiamondIsSound DEF ShapeOf
<1>4. CASE w[dir] = "mfi"
  BY <1>4, DiamondIsSound DEF ShapeOf
<1>5. CASE w[dir] = "lwi"
  BY <1>5, LwiIsSound DEF ShapeOf
<1>6. CASE w[dir] \notin {"pti", "dual", "mfdual", "bta", "mfi", "lwi"}
  BY <1>6, FallbackIsSound DEF ShapeOf
<1> QED BY <1>1, <1>2, <1>3, <1>4, <1>5, <1>6

-----------------------------------------------------------------------------
(* The walk.                                                               *)

\* A prefix of a prefix.
LEMMA PrefixOfFront ==
  ASSUME NEW S, NEW s \in Seq(S), s # <<>>, NEW i \in 0..(Len(s) - 1)
  PROVE  /\ Front(s) \in Seq(S) /\ Len(Front(s)) = Len(s) - 1
         /\ SubSeq(Front(s), 1, i) = SubSeq(s, 1, i)
<1>1. Len(s) \in Nat \ {0} /\ \A j \in 1..Len(s) : s[j] \in S
  BY EmptySeq, ElementOfSeq, LenProperties
<1>2. /\ Front(s) \in Seq(S) /\ Len(Front(s)) = Len(s) - 1
      /\ \A j \in 1..(Len(s) - 1) : Front(s)[j] = s[j]
  <2> DEFINE m == Len(s) - 1
  <2>1. m \in Nat /\ \A j \in 1..m : s[j] \in S
    BY <1>1
  <2> HIDE DEF m
  <2>2. /\ SubSeq(s, 1, m) \in Seq(S)
        /\ Len(SubSeq(s, 1, m)) = IF 1 <= m THEN m - 1 + 1 ELSE 0
        /\ \A j \in 1..(m - 1 + 1) : SubSeq(s, 1, m)[j] = s[1 + j - 1]
    BY <2>1, SubSeqProperties
  <2>3. /\ SubSeq(s, 1, m) \in Seq(S) /\ Len(SubSeq(s, 1, m)) = m
        /\ \A j \in 1..m : SubSeq(s, 1, m)[j] = s[j]
    BY <2>1, <2>2
  <2> QED BY <2>3 DEF Front, m
<1> DEFINE f == Front(s)  a == SubSeq(f, 1, i)  b == SubSeq(s, 1, i)
<1>3. \A j \in 1..i : f[j] = s[j] /\ f[j] \in S /\ s[j] \in S
  BY <1>1, <1>2
<1> HIDE DEF f
<1>4. /\ a \in Seq(S) /\ Len(a) = IF 1 <= i THEN i - 1 + 1 ELSE 0
      /\ \A j \in 1..(i - 1 + 1) : a[j] = f[1 + j - 1]
  BY <1>3, SubSeqProperties
<1>5. /\ b \in Seq(S) /\ Len(b) = IF 1 <= i THEN i - 1 + 1 ELSE 0
      /\ \A j \in 1..(i - 1 + 1) : b[j] = s[1 + j - 1]
  BY <1>3, SubSeqProperties
<1> HIDE DEF a, b
<1>6. Len(a) = i /\ Len(b) = i /\ \A j \in 1..i : a[j] = b[j]
  BY <1>3, <1>4, <1>5
<1>7. a = b
  BY <1>4, <1>5, <1>6, SeqEqual
<1> QED BY <1>2, <1>7 DEF a, b, f

\* The walk reaches a directory from its parent, and the parent shows it as a container.
LEMMA WalkedFromParent ==
  ASSUME NEW w, IsTree(w), NEW dir \in Walked(w), dir # <<>>
  PROVE  /\ Front(dir) \in Levels(w)
         /\ dir \in ShapeOf(w, Front(dir)).containers
<1>1. dir \in DOMAIN w /\ dir \in Seq(Names(w)) /\ Front(dir) \in DOMAIN w
  BY DEF Walked, IsTree
<1>2. Len(dir) \in Nat \ {0} /\ SubSeq(dir, 1, Len(dir)) = dir
  BY <1>1, EmptySeq, SubSeqFull
<1>3. dir \in ShapeOf(w, Front(dir)).walked
  <2>1. SubSeq(dir, 1, Len(dir)) \in ShapeOf(w, SubSeq(dir, 1, Len(dir) - 1)).walked
    BY <1>2 DEF Walked
  <2> QED BY <1>2, <2>1 DEF Front
<1>4. dir \in ShapeOf(w, Front(dir)).containers /\ dir \in ShapeOf(w, Front(dir)).nodes
  BY <1>1, <1>3, ShapeIsSound DEF Sound
<1>5. ASSUME NEW i \in 1..(Len(dir) - 1)
      PROVE  SubSeq(Front(dir), 1, i) \in ShapeOf(w, SubSeq(Front(dir), 1, i - 1)).walked
  <2>1. i \in 0..(Len(dir) - 1) /\ i - 1 \in 0..(Len(dir) - 1) /\ i \in 1..Len(dir)
    BY <1>2
  <2>2. /\ SubSeq(Front(dir), 1, i) = SubSeq(dir, 1, i)
        /\ SubSeq(Front(dir), 1, i - 1) = SubSeq(dir, 1, i - 1)
    BY <1>1, <2>1, PrefixOfFront
  <2>3. SubSeq(dir, 1, i) \in ShapeOf(w, SubSeq(dir, 1, i - 1)).walked
    BY <2>1 DEF Walked
  <2> QED BY <2>2, <2>3
<1>6. Len(Front(dir)) = Len(dir) - 1
  <2>1. 0 \in 0..(Len(dir) - 1)
    BY <1>2
  <2> QED BY <1>1, <2>1, PrefixOfFront
<1>7. Front(dir) \in Walked(w)
  BY <1>1, <1>5, <1>6 DEF Walked
<1> QED BY <1>4, <1>7 DEF Levels

\* The graph rebuilt from any tree of directories can be walked by the page: every inner
\* level belongs to a container shown one level up and holds nodes of its own path, and
\* no edge leads to a node that is not shown (reconstruct_graph_from_task_dir).
THEOREM RebuildIsNavigable == \A w : IsTree(w) => Navigable(Rebuild(w))
<1> SUFFICES ASSUME NEW w, IsTree(w) PROVE Navigable(Rebuild(w))
  OBVIOUS
<1>1. DOMAIN Rebuild(w) = Levels(w) /\ \A k \in Levels(w) : Rebuild(w)[k] = ShapeOf(w, k)
  BY DEF Rebuild
<1>2. ASSUME NEW k \in Levels(w), k # <<>>
      PROVE  Front(k) \in Levels(w) /\ k \in ShapeOf(w, Front(k)).containers
  BY <1>2, WalkedFromParent DEF Levels
<1>3. ASSUME NEW k \in Levels(w)
      PROVE  /\ \A n \in ShapeOf(w, k).nodes : n # <<>> /\ Front(n) = k
             /\ ShapeOf(w, k).edges \subseteq ShapeOf(w, k).nodes \X ShapeOf(w, k).nodes
  <2>1. k \in DOMAIN w
    BY DEF Levels, Walked
  <2> QED BY <2>1, ShapeIsSound DEF Sound, NodesOf
<1> QED BY <1>1, <1>2, <1>3 DEF Navigable
=============================================================================
