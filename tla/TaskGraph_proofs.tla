-------------------------- MODULE TaskGraph_proofs --------------------------
(***************************************************************************)
(* The mirror of a task's graph, for every task: whatever its nodes, the   *)
(* directories it leaves, and the bounds on connections, restarts, frames  *)
(* and reports.  First the operators: a topology, a status and the final   *)
(* statuses each make a graph of a graph, on the server and on the page,   *)
(* and so do a replay, a frame of queued updates and a rebuilt tree.  Then *)
(* the types, then one lemma per group of steps for the rest of IInv.      *)
(***************************************************************************)
EXTENDS TaskGraph, GraphRebuild_proofs

-----------------------------------------------------------------------------
(* Sequences of frames.                                                    *)

\* A function on 1..n is a sequence of its values.
LEMMA FunctionIsSeq ==
  ASSUME NEW n \in Nat, NEW s, s = [i \in 1..n |-> s[i]]
  PROVE  IsSeq(s) /\ Len(s) = n /\ DOMAIN s = 1..n
<1>1. DOMAIN s = 1..n
  OBVIOUS
<1>2. s \in [1..n -> ToSet(s)]
  BY <1>1 DEF ToSet
<1>3. s \in Seq(ToSet(s))
  BY <1>2, SeqDef
<1>4. Len(s) = n
  BY <1>1, <1>3, LenProperties
<1> QED BY <1>1, <1>3, <1>4 DEF IsSeq

\* What is known of a sequence.
LEMMA SeqParts ==
  ASSUME NEW s, IsSeq(s)
  PROVE  /\ Len(s) \in Nat /\ DOMAIN s = 1..Len(s) /\ s = [i \in 1..Len(s) |-> s[i]]
         /\ \A i \in 1..Len(s) : s[i] \in ToSet(s)
<1>1. s \in Seq(ToSet(s))
  BY DEF IsSeq
<1>2. Len(s) \in Nat /\ DOMAIN s = 1..Len(s) /\ s \in [1..Len(s) -> ToSet(s)]
  BY <1>1, LenProperties
<1> QED BY <1>2

\* The empty sequence and that of one element.
LEMMA ShortSeqs ==
  /\ IsSeq(<<>>) /\ ToSet(<<>>) = {}
  /\ \A e : IsSeq(<<e>>) /\ ToSet(<<e>>) = {e}
<1>1. IsSeq(<<>>) /\ ToSet(<<>>) = {}
  BY DEF IsSeq, ToSet
<1>2. ASSUME NEW e PROVE IsSeq(<<e>>) /\ ToSet(<<e>>) = {e}
  <2>1. ToSet(<<e>>) = {e}
    BY DEF ToSet
  <2>2. <<e>> \in Seq({e})
    OBVIOUS
  <2> QED BY <2>1, <2>2 DEF IsSeq
<1> QED BY <1>1, <1>2

\* Append adds its element.
LEMMA SeqAppend ==
  ASSUME NEW s, IsSeq(s), NEW e
  PROVE  /\ IsSeq(Append(s, e)) /\ ToSet(Append(s, e)) = ToSet(s) \cup {e}
<1> DEFINE S == ToSet(s) \cup {e}  a == Append(s, e)
<1>1. s \in Seq(S) /\ e \in S
  BY SeqMonotonic DEF IsSeq
<1> HIDE DEF S
<1>2. /\ a \in Seq(S) /\ Len(a) = Len(s) + 1
      /\ \A i \in 1..Len(s) : a[i] = s[i]
      /\ a[Len(s) + 1] = e
      /\ Len(s) \in Nat /\ DOMAIN s = 1..Len(s)
  BY <1>1, AppendProperties, LenProperties
<1>3. DOMAIN a = 1..(Len(s) + 1)
  BY <1>2, LenProperties
<1> HIDE DEF a
<1>4. ToSet(a) = ToSet(s) \cup {e}
  <2>1. ASSUME NEW i \in DOMAIN a PROVE a[i] \in ToSet(s) \cup {e}
    <3>1. i \in 1..Len(s) \/ i = Len(s) + 1
      BY <1>2, <1>3
    <3> QED BY <1>2, <3>1 DEF ToSet
  <2>2. ASSUME NEW i \in 1..Len(s) PROVE s[i] \in ToSet(a)
    <3>1. i \in DOMAIN a /\ a[i] = s[i]
      BY <1>2, <1>3
    <3> QED BY <3>1 DEF ToSet
  <2>3. e \in ToSet(a)
    <3>1. Len(s) + 1 \in DOMAIN a
      BY <1>2, <1>3
    <3> QED BY <1>2, <3>1 DEF ToSet
  <2> QED BY <1>2, <2>1, <2>2, <2>3 DEF ToSet
<1> QED BY <1>2, <1>4 DEF IsSeq, S, a

\* The head of a sequence and the rest.
LEMMA SeqTail ==
  ASSUME NEW s, IsSeq(s), s # <<>>
  PROVE  /\ Head(s) \in ToSet(s) /\ IsSeq(Tail(s)) /\ ToSet(Tail(s)) \subseteq ToSet(s)
<1> DEFINE S == ToSet(s)  t == Tail(s)
<1>1. s \in Seq(S)
  BY DEF IsSeq
<1> HIDE DEF S
<1>2. Head(s) \in S /\ t \in Seq(S)
  BY <1>1, HeadTailProperties
<1> HIDE DEF t
<1>3. Len(t) \in Nat /\ t \in [1..Len(t) -> S] /\ DOMAIN t = 1..Len(t)
  BY <1>2, LenProperties
<1>4. IsSeq(t) /\ ToSet(t) \subseteq S
  <2>1. t = [i \in 1..Len(t) |-> t[i]]
    BY <1>3
  <2> QED BY <1>3, <2>1, FunctionIsSeq DEF ToSet
<1> QED BY <1>2, <1>4 DEF S, t

\* The elements of two sequences, one after the other.
LEMMA SeqConcat ==
  ASSUME NEW s, IsSeq(s), NEW t, IsSeq(t)
  PROVE  IsSeq(s \o t) /\ ToSet(s \o t) \subseteq ToSet(s) \cup ToSet(t)
<1> DEFINE S == ToSet(s) \cup ToSet(t)  c == s \o t
<1>1. s \in Seq(S) /\ t \in Seq(S)
  BY SeqMonotonic DEF IsSeq
<1> HIDE DEF S
<1>2. c \in Seq(S)
  BY <1>1, ConcatProperties
<1> HIDE DEF c
<1>3. Len(c) \in Nat /\ c \in [1..Len(c) -> S] /\ DOMAIN c = 1..Len(c)
  BY <1>2, LenProperties
<1>4. c = [i \in 1..Len(c) |-> c[i]]
  BY <1>3
<1> QED BY <1>3, <1>4, FunctionIsSeq DEF ToSet, S, c

-----------------------------------------------------------------------------
(* Graphs.                                                                 *)

IsNews(known) == \A n \in DOMAIN known : known[n] \in Statuses

\* A level is set.
LEMMA SetLevelIsGraph ==
  ASSUME NEW g, IsGraph(g), NEW k, NEW st, IsLevel(k, st), NEW v \in Nat
  PROVE  /\ IsGraph(SetLevel(g, k, Level(st, v)))
         /\ DOMAIN SetLevel(g, k, Level(st, v)) = DOMAIN g \cup {k}
         /\ SetLevel(g, k, Level(st, v))[k] = Level(st, v)
         /\ \A j \in DOMAIN g \ {k} : SetLevel(g, k, Level(st, v))[j] = g[j]
<1> DEFINE h == SetLevel(g, k, Level(st, v))
<1>1. /\ DOMAIN h = DOMAIN g \cup {k}
      /\ h[k] = Level(st, v) /\ \A j \in DOMAIN g \ {k} : h[j] = g[j]
      /\ h = [j \in DOMAIN h |-> h[j]]
  BY DEF SetLevel
<1> HIDE DEF h
<1>2. IsFiniteSet(DOMAIN h)
  BY <1>1, FS_AddElement DEF IsGraph
<1>3. ASSUME NEW j \in DOMAIN h
      PROVE  /\ h[j] = Level(h[j].st, h[j].version)
             /\ h[j].version \in Nat /\ IsLevel(j, h[j].st)
  <2>1. CASE j = k
    BY <1>1, <2>1 DEF Level
  <2>2. CASE j # k
    <3>1. j \in DOMAIN g /\ h[j] = g[j]
      BY <1>1, <2>2
    <3> QED BY <3>1 DEF IsGraph, Level
  <2> QED BY <2>1, <2>2
<1>4. IsGraph(h)
  BY <1>1, <1>2, <1>3 DEF IsGraph
<1> QED BY <1>1, <1>4 DEF h

\* _apply_topology: what a topology makes of a level it already has.
LEMMA MergedIsLevel ==
  ASSUME NEW k, NEW old, IsLevel(k, old), NEW e, IsTopology(e), e.key = k
  PROVE  IsLevel(k, Merged(old, e))
<1>1. IsLevel(k, Carry(old, e))
  BY DEF IsLevel, Carry, IsTopology
<1>2. IsLevel(k, Added(old, e))
  BY DEF IsLevel, Added, IsTopology
<1> QED BY <1>1, <1>2 DEF Merged

\* _apply_topology: the mirror stays a graph, and no level of it goes away.
LEMMA MergePyIsGraph ==
  ASSUME NEW g, IsGraph(g), NEW e, IsTopology(e)
  PROVE  IsGraph(MergePy(g, e)) /\ DOMAIN MergePy(g, e) = DOMAIN g \cup {e.key}
<1> DEFINE v == IF e.version # 0 THEN e.version ELSE g[e.key].version
<1>1. e.version \in Nat /\ IsLevel(e.key, e.st)
  BY DEF IsTopology
<1>2. ASSUME NEW k, NEW st, IsLevel(k, st), NEW n \in Nat
      PROVE  /\ IsGraph(SetLevel(g, k, Level(st, n)))
             /\ DOMAIN SetLevel(g, k, Level(st, n)) = DOMAIN g \cup {k}
  BY <1>2, SetLevelIsGraph
<1>3. CASE e.key \notin DOMAIN g
  <2>1. MergePy(g, e) = SetLevel(g, e.key, Level(e.st, e.version))
    BY <1>3 DEF MergePy
  <2> DEFINE st == e.st  n == e.version
  <2>2. IsLevel(e.key, st) /\ n \in Nat
    BY <1>1
  <2> HIDE DEF st, n
  <2>3. /\ IsGraph(SetLevel(g, e.key, Level(st, n)))
        /\ DOMAIN SetLevel(g, e.key, Level(st, n)) = DOMAIN g \cup {e.key}
    BY <1>2, <2>2
  <2> QED BY <2>1, <2>3 DEF st, n
<1>4. CASE e.key \in DOMAIN g
  <2> DEFINE l == Merged(g[e.key].st, e)
  <2>1. IsLevel(e.key, l) /\ v \in Nat
    BY <1>1, <1>4, MergedIsLevel DEF IsGraph
  <2>2. \/ MergePy(g, e) = g
        \/ MergePy(g, e) = SetLevel(g, e.key, Level(l, v))
    BY <1>4 DEF MergePy
  <2> HIDE DEF v, l
  <2>3. /\ IsGraph(SetLevel(g, e.key, Level(l, v)))
        /\ DOMAIN SetLevel(g, e.key, Level(l, v)) = DOMAIN g \cup {e.key}
    BY <1>2, <2>1
  <2> QED BY <1>4, <2>2, <2>3
<1> QED BY <1>3, <1>4

\* mergeTopology, appendTopology: the same of the page's copy.
LEMMA MergeJsIsGraph ==
  ASSUME NEW g, IsGraph(g), NEW e, IsTopology(e)
  PROVE  IsGraph(MergeJs(g, e)) /\ DOMAIN MergeJs(g, e) = DOMAIN g \cup {e.key}
<1> DEFINE v == IF e.append /\ e.version = 0 THEN g[e.key].version ELSE e.version
<1>1. e.version \in Nat /\ IsLevel(e.key, e.st)
  BY DEF IsTopology
<1>2. ASSUME NEW k, NEW st, IsLevel(k, st), NEW n \in Nat
      PROVE  /\ IsGraph(SetLevel(g, k, Level(st, n)))
             /\ DOMAIN SetLevel(g, k, Level(st, n)) = DOMAIN g \cup {k}
  BY <1>2, SetLevelIsGraph
<1>3. CASE e.key \notin DOMAIN g
  <2>1. MergeJs(g, e) = SetLevel(g, e.key, Level(e.st, e.version))
    BY <1>3 DEF MergeJs
  <2> DEFINE st == e.st  n == e.version
  <2>2. IsLevel(e.key, st) /\ n \in Nat
    BY <1>1
  <2> HIDE DEF st, n
  <2>3. /\ IsGraph(SetLevel(g, e.key, Level(st, n)))
        /\ DOMAIN SetLevel(g, e.key, Level(st, n)) = DOMAIN g \cup {e.key}
    BY <1>2, <2>2
  <2> QED BY <2>1, <2>3 DEF st, n
<1>4. CASE e.key \in DOMAIN g
  <2> DEFINE l == Merged(g[e.key].st, e)
  <2>1. IsLevel(e.key, l) /\ v \in Nat
    BY <1>1, <1>4, MergedIsLevel DEF IsGraph
  <2>2. \/ MergeJs(g, e) = g
        \/ MergeJs(g, e) = SetLevel(g, e.key, Level(l, v))
    BY <1>4 DEF MergeJs
  <2> HIDE DEF v, l
  <2>3. /\ IsGraph(SetLevel(g, e.key, Level(l, v)))
        /\ DOMAIN SetLevel(g, e.key, Level(l, v)) = DOMAIN g \cup {e.key}
    BY <1>2, <2>1
  <2> QED BY <1>4, <2>2, <2>3
<1> QED BY <1>3, <1>4

\* A level keeps its nodes when it is stamped.
LEMMA StampedLevel ==
  ASSUME NEW k, NEW st, IsLevel(k, st), NEW known, IsNews(known)
  PROVE  IsLevel(k, StampLevel(st, known)) /\ DOMAIN StampLevel(st, known) = DOMAIN st
BY DEF IsLevel, StampLevel, IsNews

\* _stamp_status: statuses are stamped, nothing else changes.
LEMMA StampIsGraph ==
  ASSUME NEW g, IsGraph(g), NEW known, IsNews(known)
  PROVE  /\ IsGraph(Stamp(g, known)) /\ DOMAIN Stamp(g, known) = DOMAIN g
         /\ \A k \in DOMAIN g : /\ Stamp(g, known)[k].st = StampLevel(g[k].st, known)
                                /\ Stamp(g, known)[k].version = g[k].version
                                /\ DOMAIN Stamp(g, known)[k].st = DOMAIN g[k].st
<1> DEFINE h == Stamp(g, known)
<1>1. /\ DOMAIN h = DOMAIN g /\ h = [k \in DOMAIN h |-> h[k]]
      /\ \A k \in DOMAIN g : h[k] = [g[k] EXCEPT !.st = StampLevel(@, known)]
  BY DEF Stamp
<1> HIDE DEF h
<1>2. ASSUME NEW k \in DOMAIN g
      PROVE  /\ h[k] = Level(StampLevel(g[k].st, known), g[k].version)
             /\ IsLevel(k, StampLevel(g[k].st, known)) /\ g[k].version \in Nat
             /\ DOMAIN StampLevel(g[k].st, known) = DOMAIN g[k].st
  <2>1. g[k] = Level(g[k].st, g[k].version) /\ g[k].version \in Nat /\ IsLevel(k, g[k].st)
    BY DEF IsGraph
  <2>2. h[k] = Level(StampLevel(g[k].st, known), g[k].version)
    BY <1>1, <2>1 DEF Level
  <2> QED BY <2>1, <2>2, StampedLevel
<1>3. ASSUME NEW k \in DOMAIN g
      PROVE  /\ h[k].st = StampLevel(g[k].st, known)
             /\ h[k].version = g[k].version /\ h[k] = Level(h[k].st, h[k].version)
  <2> DEFINE st == StampLevel(g[k].st, known)
  <2>1. h[k] = [st |-> st, version |-> g[k].version]
    BY <1>2 DEF Level
  <2> HIDE DEF st
  <2> QED BY <2>1 DEF Level, st
<1>4. IsGraph(h)
  <2>1. IsFiniteSet(DOMAIN h)
    BY <1>1 DEF IsGraph
  <2> QED BY <1>1, <1>2, <1>3, <2>1 DEF IsGraph
<1> QED BY <1>1, <1>2, <1>3, <1>4 DEF h

\* What the run reports.
IsEvent(e) == IsTopology(e) \/ IsStatus(e, {"status"}) \/ IsReconcile(e)

\* The statuses an event brings are statuses.
LEMMA EventIsNews ==
  ASSUME NEW e, IsStatus(e, {"status"}) \/ IsReconcile(e)
  PROVE  IsNews(News(e))
BY DEF IsNews, News, IsStatus, IsReconcile, IsRecord

\* apply_event: the mirror, with the event applied, is a snapshot that holds something.
LEMMA AppliedIsSnapshot ==
  ASSUME NEW s, IsSnapshot(s), s.has, NEW e, IsEvent(e)
  PROVE  /\ IsSnapshot(Applied(s, e)) /\ Applied(s, e).has /\ Applied(s, e).term = s.term
         /\ IsTopology(e) => Applied(s, e).g = MergePy(s.g, e) /\ Applied(s, e).rec = s.rec
         /\ ~IsTopology(e) => Applied(s, e).g = Stamp(s.g, News(e))
<1>1. /\ s = [has |-> s.has, g |-> s.g, rec |-> s.rec, term |-> s.term]
      /\ s.has = TRUE /\ s.term \in BOOLEAN /\ IsGraph(s.g) /\ IsRecord(s.rec)
  BY DEF IsSnapshot
<1>2. CASE IsTopology(e)
  <2>1. IsGraph(MergePy(s.g, e)) /\ e.kind = "topology"
    BY <1>1, <1>2, MergePyIsGraph DEF IsTopology
  <2>2. Applied(s, e) = [s EXCEPT !.g = MergePy(s.g, e)]
    BY <2>1 DEF Applied
  <2>3. Applied(s, e) = [has |-> TRUE, g |-> MergePy(s.g, e), rec |-> s.rec, term |-> s.term]
    BY <1>1, <2>2
  <2> QED BY <1>1, <1>2, <2>1, <2>3 DEF IsSnapshot
<1>3. CASE ~IsTopology(e)
  <2>1. IsNews(News(e)) /\ e.kind \in {"status", "reconcile"}
    BY <1>3, EventIsNews DEF IsEvent, IsStatus, IsReconcile
  <2>2. IsGraph(Stamp(s.g, News(e)))
    BY <1>1, <2>1, StampIsGraph
  <2>3. CASE e.kind = "status"
    <3>1. Applied(s, e) = [s EXCEPT !.g = Stamp(s.g, News(e))]
      BY <2>3 DEF Applied
    <3>2. Applied(s, e) = [has |-> TRUE, g |-> Stamp(s.g, News(e)), rec |-> s.rec, term |-> s.term]
      BY <1>1, <3>1
    <3> QED BY <1>1, <1>3, <2>2, <3>2 DEF IsSnapshot
  <2>4. CASE e.kind = "reconcile"
    <3>1. News(e) = e.st /\ IsRecord(e.st)
      BY <1>3, <2>4 DEF News, IsEvent, IsStatus, IsReconcile
    <3>2. Applied(s, e) = [s EXCEPT !.rec = e.st, !.g = Stamp(s.g, e.st)]
      BY <2>4 DEF Applied, Settled
    <3>3. Applied(s, e) = [has |-> TRUE, g |-> Stamp(s.g, News(e)), rec |-> e.st, term |-> s.term]
      BY <1>1, <3>1, <3>2
    <3> QED BY <1>1, <1>3, <2>2, <3>1, <3>3 DEF IsSnapshot
  <2> QED BY <2>1, <2>3, <2>4
<1> QED BY <1>2, <1>3

-----------------------------------------------------------------------------
(* Replays.                                                                *)

\* A level still to be replayed, stamped or left behind.
LEMMA ReplayedExcept ==
  ASSUME NEW r, IsReplayed(r), r.kind = "topology", NEW known, IsNews(known)
  PROVE  /\ IsReplayed([r EXCEPT !.st = StampLevel(@, known)])
         /\ IsReplayed([r EXCEPT !.shared = FALSE])
<1>1. /\ r = [kind |-> "topology", key |-> r.key, st |-> r.st, version |-> 0, append |-> FALSE,
              shared |-> r.shared]
      /\ r.shared \in BOOLEAN /\ IsLevel(r.key, r.st)
  BY DEF IsReplayed, IsReconcile
<1> DEFINE st == StampLevel(r.st, known)
           a == [kind |-> "topology", key |-> r.key, st |-> st, version |-> 0, append |-> FALSE,
                 shared |-> r.shared]
           b == [kind |-> "topology", key |-> r.key, st |-> r.st, version |-> 0, append |-> FALSE,
                 shared |-> FALSE]
<1>2. IsLevel(r.key, st)
  BY <1>1, StampedLevel
<1> DEFINE L(c, k, t, v, p, sh) == [kind |-> c, key |-> k, st |-> t, version |-> v,
                                    append |-> p, shared |-> sh]
<1>3. [r EXCEPT !.st = st] = a /\ [r EXCEPT !.shared = FALSE] = b
  <2> DEFINE c == "topology"  k == r.key  t == r.st  v == 0  p == FALSE  sh == r.shared
  <2>1. r = L(c, k, t, v, p, sh) /\ a = L(c, k, st, v, p, sh) /\ b = L(c, k, t, v, p, p)
    BY <1>1
  <2> HIDE DEF c, k, t, v, p, sh, st, a, b, L
  <2>2. [r EXCEPT !.st = st] = a
    BY <2>1 DEF L
  <2>3. [r EXCEPT !.shared = p] = b
    BY <2>1 DEF L
  <2> QED BY <2>2, <2>3 DEF p
<1>4. IsReplayed(a)
  BY <1>1, <1>2 DEF IsReplayed
<1>5. IsReplayed(b)
  BY <1>1 DEF IsReplayed
<1> QED BY <1>3, <1>4, <1>5

\* to_replay_events: what is still to be sent follows the mirror while it shares its lists.
LEMMA LinkedIsReplay ==
  ASSUME IsSeq(replay), \A r \in ToSet(replay) : IsReplayed(r), NEW e, IsEvent(e)
  PROVE  /\ IsSeq(Linked(e)) /\ \A r \in ToSet(Linked(e)) : IsReplayed(r)
         /\ replay = <<>> => Linked(e) = <<>>
<1> DEFINE l == Linked(e)
<1>1. /\ Len(replay) \in Nat /\ DOMAIN replay = 1..Len(replay)
      /\ \A i \in 1..Len(replay) : replay[i] \in ToSet(replay)
  BY SeqParts
<1>2. l = [i \in 1..Len(replay) |-> l[i]]
  BY <1>1 DEF Linked
<1>3. ASSUME NEW i \in 1..Len(replay) PROVE IsReplayed(l[i])
  <2> DEFINE r == replay[i]
  <2>1. IsReplayed(r)
    BY <1>1
  <2>2. \/ l[i] = r
        \/ /\ r.kind = "topology" /\ e.kind \in {"status", "reconcile"}
           /\ l[i] = [r EXCEPT !.st = StampLevel(@, News(e))]
        \/ r.kind = "topology" /\ l[i] = [r EXCEPT !.shared = FALSE]
    <3> DEFINE x == [r EXCEPT !.st = StampLevel(@, News(e))]  y == [r EXCEPT !.shared = FALSE]
    <3>1. l[i] = IF r.kind # "topology" THEN r
                 ELSE CASE e.kind \in {"status", "reconcile"} /\ r.shared -> x
                        [] e.kind = "topology" /\ e.key = r.key /\ ~e.append
                             /\ mem.g # MergePy(mem.g, e) -> y
                        [] OTHER -> r
      BY <1>1 DEF Linked
    <3> HIDE DEF l, r, x, y
    <3>2. \/ l[i] = r
          \/ r.kind = "topology" /\ e.kind \in {"status", "reconcile"} /\ l[i] = x
          \/ r.kind = "topology" /\ l[i] = y
      BY <3>1
    <3> QED BY <3>2 DEF x, y
  <2> HIDE DEF r, l
  <2>3. CASE /\ r.kind = "topology" /\ e.kind \in {"status", "reconcile"}
             /\ l[i] = [r EXCEPT !.st = StampLevel(@, News(e))]
    <3>1. IsNews(News(e))
      BY <2>3, EventIsNews DEF IsEvent, IsTopology
    <3> DEFINE known == News(e)
    <3> HIDE DEF known
    <3>2. IsReplayed([r EXCEPT !.st = StampLevel(@, known)])
      <4>1. IsNews(known) /\ r.kind = "topology"
        BY <2>3, <3>1 DEF known
      <4> QED BY <2>1, <4>1, ReplayedExcept
    <3> QED BY <2>3, <3>2 DEF known
  <2>4. CASE r.kind = "topology" /\ l[i] = [r EXCEPT !.shared = FALSE]
    <3>1. IsNews(<<>>)
      BY DEF IsNews
    <3> QED BY <2>1, <2>4, <3>1, ReplayedExcept
  <2> QED BY <2>1, <2>2, <2>3, <2>4
<1>4. replay = <<>> => l = <<>>
  <2> SUFFICES ASSUME replay = <<>> PROVE l = <<>>
    OBVIOUS
  <2>1. Len(replay) = 0
    OBVIOUS
  <2> HIDE DEF l
  <2>2. l = [i \in {} |-> l[i]]
    BY <1>2, <2>1
  <2> QED BY <2>2
<1> HIDE DEF l
<1>5. IsSeq(l) /\ Len(l) = Len(replay) /\ DOMAIN l = 1..Len(replay)
  BY <1>1, <1>2, FunctionIsSeq
<1>6. \A r \in ToSet(l) : IsReplayed(r)
  BY <1>3, <1>5 DEF ToSet
<1> QED BY <1>4, <1>5, <1>6 DEF l

\* to_replay_events.
LEMMA ToReplayIsReplay ==
  ASSUME NEW s, IsSnapshot(s)
  PROVE  /\ IsSeq(ToReplay(s)) /\ \A r \in ToSet(ToReplay(s)) : IsReplayed(r)
         /\ ~s.has => ToReplay(s) = <<>>
<1> DEFINE level(k) == [kind |-> "topology", key |-> k, st |-> s.g[k].st, version |-> 0,
                        append |-> FALSE, shared |-> TRUE]
           subs == SetToSeq(DOMAIN s.g \ {Root})
           topologies == (IF Root \in DOMAIN s.g THEN <<Root>> ELSE <<>>) \o subs
           levels == [i \in DOMAIN topologies |-> level(topologies[i])]
           rec == IF s.rec = NoGraph THEN <<>> ELSE <<Reconcile(s.rec)>>
<1>1. ToReplay(s) = IF ~s.has THEN <<>> ELSE levels \o rec
  BY DEF ToReplay
<1>2. IsGraph(s.g) /\ IsRecord(s.rec) /\ IsFiniteSet(DOMAIN s.g)
  BY DEF IsSnapshot, IsGraph
<1>3. topologies \in Seq(DOMAIN s.g)
  <2> DEFINE rest == DOMAIN s.g \ {Root}  first == IF Root \in DOMAIN s.g THEN <<Root>> ELSE <<>>
  <2>1. IsFiniteSet(rest)
    BY <1>2, FS_RemoveElement
  <2> HIDE DEF rest
  <2>2. Cardinality(rest) \in Nat /\ SetToSeq(rest) \in [1..Cardinality(rest) -> rest]
    BY <2>1, SetToSeqLists
  <2>3. SetToSeq(rest) \in Seq(rest)
    BY <2>2, ListIsSeq
  <2>4. SetToSeq(rest) \in Seq(DOMAIN s.g)
    BY <2>3, SeqMonotonic DEF rest
  <2>5. first \in Seq(DOMAIN s.g)
    <3>1. CASE Root \in DOMAIN s.g
      <4>1. ASSUME NEW S, NEW x \in S PROVE <<x>> \in Seq(S)
        OBVIOUS
      <4>2. <<Root>> \in Seq(DOMAIN s.g)
        BY <3>1, <4>1
      <4> QED BY <3>1, <4>2
    <3>2. CASE Root \notin DOMAIN s.g
      BY <3>2
    <3> QED BY <3>1, <3>2
  <2> HIDE DEF first
  <2>6. first \o SetToSeq(rest) \in Seq(DOMAIN s.g)
    BY <2>4, <2>5, ConcatProperties
  <2> QED BY <2>6 DEF first, rest
<1>4. Len(topologies) \in Nat /\ DOMAIN topologies = 1..Len(topologies)
      /\ \A i \in 1..Len(topologies) : topologies[i] \in DOMAIN s.g
  BY <1>3, LenProperties, ElementOfSeq
<1> HIDE DEF topologies
<1>5. ASSUME NEW i \in 1..Len(topologies) PROVE IsReplayed(level(topologies[i]))
  <2>1. topologies[i] \in DOMAIN s.g
    BY <1>4
  <2>2. IsLevel(topologies[i], s.g[topologies[i]].st)
    BY <1>2, <2>1 DEF IsGraph
  <2> QED BY <2>2 DEF IsReplayed
<1>6. /\ levels = [i \in 1..Len(topologies) |-> levels[i]]
      /\ \A i \in 1..Len(topologies) : levels[i] = level(topologies[i])
  BY <1>4
<1> HIDE DEF levels
<1>7. IsSeq(levels) /\ \A r \in ToSet(levels) : IsReplayed(r)
  <2>1. IsSeq(levels) /\ DOMAIN levels = 1..Len(topologies)
    BY <1>4, <1>6, FunctionIsSeq
  <2>2. ASSUME NEW i \in 1..Len(topologies) PROVE IsReplayed(levels[i])
    BY <1>5, <1>6
  <2> QED BY <2>1, <2>2 DEF ToSet
<1>8. IsSeq(rec) /\ \A r \in ToSet(rec) : IsReplayed(r)
  <2>1. IsReplayed(Reconcile(s.rec))
    BY <1>2 DEF IsReplayed, Reconcile, IsReconcile
  <2>2. rec = <<>> \/ rec = <<Reconcile(s.rec)>>
    OBVIOUS
  <2> HIDE DEF rec
  <2> QED BY <2>1, <2>2, ShortSeqs
<1> HIDE DEF rec
<1>9. IsSeq(levels \o rec) /\ \A r \in ToSet(levels \o rec) : IsReplayed(r)
  BY <1>7, <1>8, SeqConcat
<1> QED BY <1>1, <1>9, ShortSeqs

\* The empty snapshot.
LEMMA NoSnapshotIsOne ==
  /\ IsSnapshot(NoSnapshot) /\ ~NoSnapshot.has /\ ~NoSnapshot.term /\ DOMAIN NoSnapshot.g = {}
<1>1. IsFiniteSet({})
  BY FS_EmptySet
<1> QED BY <1>1 DEF IsSnapshot, NoSnapshot, NoGraph, IsGraph, IsRecord

\* reconstruct_graph_from_task_dir: what is rebuilt is a snapshot.
LEMMA RebuiltIsSnapshot ==
  ASSUME NEW w \in Workspaces
  PROVE  IsSnapshot(Rebuilt(w)) /\ ~Rebuilt(w).term
<1> DEFINE shown == RebuildOf[w]
           g == [k \in DOMAIN shown |-> Level([n \in shown[k].nodes |-> "completed"], 1)]
           all == UNION {shown[k].nodes : k \in DOMAIN shown}
           rec == [n \in all |-> "completed"]
<1>1. shown = Rebuild(w) /\ IsTree(w)
  BY WorkspacesAreTrees DEF RebuildOf
<1>2. Navigable(shown)
  BY <1>1, RebuildIsNavigable
<1>3. IsFiniteSet(DOMAIN shown)
  <2>1. DOMAIN shown \in SUBSET DOMAIN w /\ IsFiniteSet(DOMAIN w)
    BY <1>1 DEF Rebuild, Levels, Walked, IsTree
  <2> QED BY <2>1, FS_Subset
<1>4. \/ Rebuilt(w) = NoSnapshot
      \/ Rebuilt(w) = [has |-> TRUE, g |-> g, rec |-> rec, term |-> FALSE]
  BY DEF Rebuilt
<1> HIDE DEF shown
<1>5. IsGraph(g)
  <2>1. ASSUME NEW k \in DOMAIN shown
        PROVE  /\ g[k] = Level(g[k].st, g[k].version) /\ g[k].version \in Nat
               /\ IsLevel(k, g[k].st)
    <3>1. g[k].st = [n \in shown[k].nodes |-> "completed"] /\ g[k].version = 1
      BY DEF Level
    <3>2. \A n \in shown[k].nodes : Front(n) = k
      BY <1>2 DEF Navigable
    <3> QED BY <3>1, <3>2 DEF Level, IsLevel, Statuses
  <2>2. DOMAIN g = DOMAIN shown /\ g = [k \in DOMAIN g |-> g[k]]
    OBVIOUS
  <2> HIDE DEF g
  <2> QED BY <1>3, <2>1, <2>2 DEF IsGraph
<1>6. IsRecord(rec)
  BY DEF IsRecord, Statuses
<1> HIDE DEF g, rec
<1>7. CASE Rebuilt(w) = [has |-> TRUE, g |-> g, rec |-> rec, term |-> FALSE]
  BY <1>5, <1>6, <1>7 DEF IsSnapshot
<1> QED BY <1>4, <1>7, NoSnapshotIsOne

-----------------------------------------------------------------------------
(* The page.                                                               *)

IsPage(p) ==
  /\ p = [ui |-> p.ui, buf |-> p.buf] /\ IsUi(p.ui)
  /\ IsSeq(p.buf) /\ \A e \in ToSet(p.buf) : IsStatus(e, {"status"})

\* An update never gives the page a root level, nor takes it away, nor touches the task.
Alike(p, q) ==
  /\ q.ui.status = p.ui.status /\ q.ui.known = p.ui.known
  /\ Root \in DOMAIN q.ui.g <=> Root \in DOMAIN p.ui.g

\* A page with another graph.
LEMMA PageWithGraph ==
  ASSUME NEW p, IsPage(p), NEW g, IsGraph(g), DOMAIN p.ui.g \subseteq DOMAIN g,
         Root \in DOMAIN g => Root \in DOMAIN p.ui.g
  PROVE  IsPage([p EXCEPT !.ui.g = g]) /\ Alike(p, [p EXCEPT !.ui.g = g])
<1> DEFINE u == p.ui  b == p.buf  v == [known |-> u.known, status |-> u.status, g |-> g]
<1>1. p = [ui |-> u, buf |-> b] /\ IsUi(u)
  BY DEF IsPage
<1>2. u = [known |-> u.known, status |-> u.status, g |-> u.g]
  BY <1>1 DEF IsUi
<1>3. [p EXCEPT !.ui.g = g] = [ui |-> [u EXCEPT !.g = g], buf |-> b]
  BY <1>1
<1>4. [u EXCEPT !.g = g] = v
  <2> DEFINE k == u.known  s == u.status  h == u.g
  <2>1. u = [known |-> k, status |-> s, g |-> h] /\ v = [known |-> k, status |-> s, g |-> g]
    BY <1>2
  <2> HIDE DEF u, v, k, s, h
  <2> QED BY <2>1
<1>5. IsUi(v)
  BY <1>1 DEF IsUi
<1>6. [p EXCEPT !.ui.g = g] = [ui |-> v, buf |-> b]
  BY <1>3, <1>4
<1> QED BY <1>5, <1>6 DEF IsPage, Alike

\* updateNode: a node of the page's copy gets a status.
LEMMA SetStatusIsGraph ==
  ASSUME NEW g, IsGraph(g), NEW n, HasNode(g, n), NEW s \in Statuses
  PROVE  IsGraph(SetStatus(g, n, s)) /\ DOMAIN SetStatus(g, n, s) = DOMAIN g
<1> DEFINE k == ParentOf(n)  st == [g[k].st EXCEPT ![n] = s]
           l == Level(st, g[k].version)  h == SetLevel(g, k, l)
<1>1. k \in DOMAIN g /\ n \in DOMAIN g[k].st
  BY DEF HasNode
<1>2. g[k] = Level(g[k].st, g[k].version) /\ g[k].version \in Nat /\ IsLevel(k, g[k].st)
  BY <1>1 DEF IsGraph
<1>3. IsLevel(k, st)
  BY <1>1, <1>2 DEF IsLevel
<1>4. [g[k] EXCEPT !.st[n] = s] = l
  <2> DEFINE old == g[k].st  v == g[k].version
  <2>1. g[k] = [st |-> old, version |-> v] /\ l = [st |-> [old EXCEPT ![n] = s], version |-> v]
    BY <1>2 DEF Level
  <2> HIDE DEF old, v, l
  <2> QED BY <2>1
<1>5. SetStatus(g, n, s) = [g EXCEPT ![k] = l]
  <2>1. SetStatus(g, n, s) = [g EXCEPT ![k] = [g[k] EXCEPT !.st[n] = s]]
    BY DEF SetStatus
  <2> QED BY <1>4, <2>1
<1>6. [g EXCEPT ![k] = l] = h
  <2>1. g = [j \in DOMAIN g |-> g[j]]
    BY DEF IsGraph
  <2>2. DOMAIN g \cup {k} = DOMAIN g
    BY <1>1
  <2>3. h = [j \in DOMAIN g |-> IF j = k THEN l ELSE g[j]]
    BY <2>2 DEF SetLevel
  <2> HIDE DEF h, k, l
  <2> QED BY <2>1, <2>3
<1>7. IsGraph(h) /\ DOMAIN h = DOMAIN g \cup {k}
  <2>1. ASSUME NEW j, NEW t, IsLevel(j, t), NEW v \in Nat
        PROVE  /\ IsGraph(SetLevel(g, j, Level(t, v)))
               /\ DOMAIN SetLevel(g, j, Level(t, v)) = DOMAIN g \cup {j}
    BY <2>1, SetLevelIsGraph
  <2> HIDE DEF k, st
  <2> QED BY <1>2, <1>3, <2>1
<1> HIDE DEF k, l, h
<1> QED BY <1>1, <1>5, <1>6, <1>7

\* applyStatusToTask, and the queued merge of an inner level.
LEMMA UpdateKeepsPage ==
  ASSUME NEW p, IsPage(p), NEW e, IsUpdate(e)
  PROVE  IsPage(Update(p, e)) /\ Alike(p, Update(p, e))
<1> USE DEF Alike
<1>1. IsGraph(p.ui.g)
  BY DEF IsPage, IsUi
<1>2. CASE IsTopology(e) /\ e.key # Root
  <2>1. Update(p, e) = ApplyLevel(p, e)
    BY <1>2 DEF Update, IsTopology
  <2>2. CASE Root \in DOMAIN p.ui.g
    <3> DEFINE g == MergeJs(p.ui.g, e)
    <3>1. IsGraph(g) /\ DOMAIN g = DOMAIN p.ui.g \cup {e.key}
      BY <1>1, <1>2, MergeJsIsGraph
    <3>2. ApplyLevel(p, e) = [p EXCEPT !.ui.g = g]
      BY <2>2 DEF ApplyLevel
    <3> HIDE DEF g
    <3>3. IsPage([p EXCEPT !.ui.g = g]) /\ Alike(p, [p EXCEPT !.ui.g = g])
      BY <2>2, <3>1, PageWithGraph
    <3> QED BY <2>1, <3>2, <3>3
  <2>3. CASE Root \notin DOMAIN p.ui.g
    BY <2>1, <2>3 DEF ApplyLevel
  <2> QED BY <2>2, <2>3
<1>3. CASE IsStatus(e, {"status", "buffered"})
  <2>1. Update(p, e) = ApplyStatus(p, e)
    BY <1>3 DEF Update, IsStatus
  <2>2. \/ ApplyStatus(p, e) = p
        \/ /\ HasNode(p.ui.g, e.node)
           /\ ApplyStatus(p, e) = [p EXCEPT !.ui.g = SetStatus(p.ui.g, e.node, e.status)]
        \/ e.kind # "buffered" /\ ApplyStatus(p, e) = [p EXCEPT !.buf = Append(p.buf, e)]
    BY DEF ApplyStatus
  <2>3. CASE /\ HasNode(p.ui.g, e.node)
             /\ ApplyStatus(p, e) = [p EXCEPT !.ui.g = SetStatus(p.ui.g, e.node, e.status)]
    <3> DEFINE g == SetStatus(p.ui.g, e.node, e.status)
    <3>1. IsGraph(g) /\ DOMAIN g = DOMAIN p.ui.g
      BY <1>1, <1>3, <2>3, SetStatusIsGraph DEF IsStatus
    <3> HIDE DEF g
    <3>2. IsPage([p EXCEPT !.ui.g = g]) /\ Alike(p, [p EXCEPT !.ui.g = g])
      BY <3>1, PageWithGraph
    <3> QED BY <2>1, <2>3, <3>2 DEF g
  <2>4. CASE e.kind # "buffered" /\ ApplyStatus(p, e) = [p EXCEPT !.buf = Append(p.buf, e)]
    <3> DEFINE b == Append(p.buf, e)  u == p.ui
    <3>1. IsSeq(b) /\ \A f \in ToSet(b) : IsStatus(f, {"status"})
      <4>1. IsStatus(e, {"status"})
        BY <1>3, <2>4 DEF IsStatus
      <4> QED BY <4>1, SeqAppend DEF IsPage
    <3>2. p = [ui |-> u, buf |-> p.buf] /\ IsUi(u)
      BY DEF IsPage
    <3> HIDE DEF b
    <3>3. [p EXCEPT !.buf = b] = [ui |-> u, buf |-> b]
      BY <3>2
    <3>4. IsPage([ui |-> u, buf |-> b]) /\ Alike(p, [ui |-> u, buf |-> b])
      BY <3>1, <3>2 DEF IsPage
    <3> QED BY <2>1, <2>4, <3>3, <3>4 DEF b
  <2> QED BY <2>1, <2>2, <2>3, <2>4
<1> QED BY <1>2, <1>3 DEF IsUpdate

\* The updates of one frame, applied one after the other.
Upto(f, n, p, q) == f = [i \in 0..n |-> IF i = 0 THEN p ELSE Update(f[i - 1], q[i])]

\* One more.
LEMMA UptoOneMore ==
  ASSUME NEW n \in Nat, NEW p, NEW q, NEW f, Upto(f, n, p, q)
  PROVE  \E h : Upto(h, n + 1, p, q)
<1> DEFINE h == [i \in 0..(n + 1) |-> IF i = n + 1 THEN Update(f[n], q[n + 1]) ELSE f[i]]
<1>1. ASSUME NEW i \in 0..(n + 1)
      PROVE  h[i] = IF i = 0 THEN p ELSE Update(h[i - 1], q[i])
  <2>1. CASE i = n + 1
    <3>1. i # 0 /\ i - 1 = n /\ n \in 0..(n + 1) /\ n # n + 1
      BY <2>1
    <3>2. h[i] = Update(f[n], q[n + 1]) /\ h[n] = f[n]
      BY <2>1, <3>1
    <3> HIDE DEF h
    <3> QED BY <2>1, <3>1, <3>2
  <2>2. CASE i # n + 1
    <3>1. i \in 0..n /\ h[i] = f[i]
      BY <2>2
    <3>2. f[i] = IF i = 0 THEN p ELSE Update(f[i - 1], q[i])
      BY <3>1 DEF Upto
    <3>3. i # 0 => i - 1 \in 0..(n + 1) /\ i - 1 # n + 1 /\ h[i - 1] = f[i - 1]
      BY <3>1
    <3> HIDE DEF h
    <3> QED BY <3>1, <3>2, <3>3
  <2> QED BY <2>1, <2>2
<1>2. Upto(h, n + 1, p, q)
  <2>1. h = [i \in 0..(n + 1) |-> h[i]]
    OBVIOUS
  <2> HIDE DEF h
  <2>2. h = [i \in 0..(n + 1) |-> IF i = 0 THEN p ELSE Update(h[i - 1], q[i])]
    BY <1>1, <2>1
  <2> QED BY <2>2 DEF Upto
<1> QED BY <1>2

\* The recursion is well-founded.
LEMMA UptoIsThere ==
  ASSUME NEW n \in Nat, NEW p, NEW q
  PROVE  \E f : Upto(f, n, p, q)
<1> DEFINE Bad == {m \in Nat : ~ \E f : Upto(f, m, p, q)}
<1> SUFFICES ASSUME Bad # {} PROVE FALSE
  OBVIOUS
<1>1. PICK m \in Bad : \A k \in Bad : m <= k
  <2>1. Bad \in SUBSET Nat
    OBVIOUS
  <2> HIDE DEF Bad
  <2> QED BY <2>1, LeastIsThere
<1>2. m # 0
  <2> DEFINE f == [i \in 0..0 |-> p]
  <2>1. f = [i \in 0..0 |-> IF i = 0 THEN p ELSE Update(f[i - 1], q[i])]
    OBVIOUS
  <2> HIDE DEF f
  <2>2. Upto(f, 0, p, q)
    BY <2>1 DEF Upto
  <2> QED BY <1>1, <2>2
<1>3. m - 1 \in Nat /\ ~ (m <= m - 1) /\ m = (m - 1) + 1
  BY <1>1, <1>2
<1>4. m - 1 \notin Bad
  <2> HIDE DEF Bad
  <2> QED BY <1>1, <1>3
<1>5. PICK f : Upto(f, m - 1, p, q)
  BY <1>3, <1>4
<1>6. \E h : Upto(h, (m - 1) + 1, p, q)
  BY <1>3, <1>5, UptoOneMore
<1> QED BY <1>1, <1>3, <1>6

\* enqueueTaskUpdate: after a frame's updates the page is a page, with a root level if it
\* had one before.
LEMMA UpdatedKeepsPage ==
  ASSUME NEW p, IsPage(p), NEW q, IsSeq(q), \A e \in ToSet(q) : IsUpdate(e)
  PROVE  IsPage(Updated(p, q)) /\ Alike(p, Updated(p, q))
<1> DEFINE n == Len(q)
           f == CHOOSE g : Upto(g, n, p, q)
<1>1. n \in Nat /\ \A i \in 1..n : IsUpdate(q[i])
  BY SeqParts
<1>2. Updated(p, q) = f[n]
  <2>1. Updated(p, q)
          = (CHOOSE g : g = [i \in 0..n |-> IF i = 0 THEN p ELSE Update(g[i - 1], q[i])])[n]
    BY Zenon DEF Updated
  <2> QED BY <2>1, Zenon DEF Upto
<1> HIDE DEF n
<1>3. Upto(f, n, p, q)
  BY <1>1, UptoIsThere
<1> HIDE DEF f
<1>4. \A i \in 0..n : f[i] = IF i = 0 THEN p ELSE Update(f[i - 1], q[i])
  BY <1>3 DEF Upto
<1> DEFINE Good(i) == IsPage(f[i]) /\ Alike(p, f[i])
           Bad == {i \in 0..n : ~Good(i)}
<1>5. Bad = {}
  <2> SUFFICES ASSUME Bad # {} PROVE FALSE
    OBVIOUS
  <2>1. PICK m \in Bad : \A k \in Bad : m <= k
    <3>1. Bad \in SUBSET Nat
      BY <1>1
    <3> HIDE DEF Bad
    <3> QED BY <3>1, LeastIsThere
  <2>2. m \in 0..n /\ ~Good(m)
    BY <2>1
  <2>3. m # 0
    <3> SUFFICES ASSUME m = 0 PROVE FALSE
      OBVIOUS
    <3>1. f[m] = p
      BY <1>4, <2>2
    <3>2. Alike(p, p)
      BY DEF Alike
    <3> QED BY <2>2, <3>1, <3>2
  <2>4. m - 1 \in 0..n /\ ~ (m <= m - 1) /\ m \in 1..n
    BY <1>1, <2>2, <2>3
  <2>5. m - 1 \notin Bad
    <3> HIDE DEF Bad
    <3> QED BY <2>1, <2>4
  <2>6. IsPage(f[m - 1]) /\ Alike(p, f[m - 1])
    BY <2>4, <2>5
  <2>7. f[m] = Update(f[m - 1], q[m]) /\ IsUpdate(q[m])
    BY <1>1, <1>4, <2>3, <2>4
  <2> DEFINE a == f[m - 1]  e == q[m]
  <2>8. IsPage(Update(a, e)) /\ Alike(a, Update(a, e))
    BY <2>6, <2>7, UpdateKeepsPage
  <2>9. Alike(p, Update(a, e))
    <3> DEFINE b == Update(a, e)
    <3>1. Alike(p, a) /\ Alike(a, b)
      BY <2>6, <2>8
    <3> HIDE DEF a, b
    <3>2. Alike(p, b)
      BY <3>1 DEF Alike
    <3> QED BY <3>2 DEF b
  <2> QED BY <2>2, <2>7, <2>8, <2>9
<1>6. Good(n)
  BY <1>1, <1>5
<1> QED BY <1>2, <1>6

\* The statuses chosen from the first n of a list.
Choice(old, e, root) == IF (ParentOf(e.node) = Root) = root THEN Append(old, e) ELSE old
Chosen(f, n, q, root) == f = [i \in 0..n |-> IF i = 0 THEN <<>> ELSE Choice(f[i - 1], q[i], root)]

\* One more.
LEMMA ChosenOneMore ==
  ASSUME NEW n \in Nat, NEW q, NEW root, NEW f, Chosen(f, n, q, root)
  PROVE  \E h : Chosen(h, n + 1, q, root)
<1> DEFINE h == [i \in 0..(n + 1) |-> IF i = n + 1 THEN Choice(f[n], q[n + 1], root) ELSE f[i]]
<1>1. ASSUME NEW i \in 0..(n + 1)
      PROVE  h[i] = IF i = 0 THEN <<>> ELSE Choice(h[i - 1], q[i], root)
  <2>1. CASE i = n + 1
    <3>1. i # 0 /\ i - 1 = n /\ n \in 0..(n + 1) /\ n # n + 1
      BY <2>1
    <3>2. h[i] = Choice(f[n], q[n + 1], root) /\ h[n] = f[n]
      BY <2>1, <3>1
    <3> HIDE DEF h
    <3> QED BY <2>1, <3>1, <3>2
  <2>2. CASE i # n + 1
    <3>1. i \in 0..n /\ h[i] = f[i]
      BY <2>2
    <3>2. f[i] = IF i = 0 THEN <<>> ELSE Choice(f[i - 1], q[i], root)
      BY <3>1 DEF Chosen
    <3>3. i # 0 => i - 1 \in 0..(n + 1) /\ i - 1 # n + 1 /\ h[i - 1] = f[i - 1]
      BY <3>1
    <3> HIDE DEF h
    <3> QED BY <3>1, <3>2, <3>3
  <2> QED BY <2>1, <2>2
<1>2. Chosen(h, n + 1, q, root)
  <2>1. h = [i \in 0..(n + 1) |-> h[i]]
    OBVIOUS
  <2> HIDE DEF h
  <2>2. h = [i \in 0..(n + 1) |-> IF i = 0 THEN <<>> ELSE Choice(h[i - 1], q[i], root)]
    BY <1>1, <2>1
  <2> QED BY <2>2 DEF Chosen
<1> QED BY <1>2

\* The recursion is well-founded.
LEMMA ChosenIsThere ==
  ASSUME NEW n \in Nat, NEW q, NEW root
  PROVE  \E f : Chosen(f, n, q, root)
<1> DEFINE Bad == {m \in Nat : ~ \E f : Chosen(f, m, q, root)}
<1> SUFFICES ASSUME Bad # {} PROVE FALSE
  OBVIOUS
<1>1. PICK m \in Bad : \A k \in Bad : m <= k
  <2>1. Bad \in SUBSET Nat
    OBVIOUS
  <2> HIDE DEF Bad
  <2> QED BY <2>1, LeastIsThere
<1>2. m # 0
  <2> DEFINE f == [i \in 0..0 |-> <<>>]
  <2>1. f = [i \in 0..0 |-> IF i = 0 THEN <<>> ELSE Choice(f[i - 1], q[i], root)]
    OBVIOUS
  <2> HIDE DEF f
  <2>2. Chosen(f, 0, q, root)
    BY <2>1 DEF Chosen
  <2> QED BY <1>1, <2>2
<1>3. m - 1 \in Nat /\ ~ (m <= m - 1) /\ m = (m - 1) + 1
  BY <1>1, <1>2
<1>4. m - 1 \notin Bad
  <2> HIDE DEF Bad
  <2> QED BY <1>1, <1>3
<1>5. PICK f : Chosen(f, m - 1, q, root)
  BY <1>3, <1>4
<1>6. \E h : Chosen(h, (m - 1) + 1, q, root)
  BY <1>3, <1>5, ChosenOneMore
<1> QED BY <1>1, <1>3, <1>6

\* handleGraphTopology: the statuses set aside are some of those that were.
LEMMA SetAsideIsPart ==
  ASSUME NEW q, IsSeq(q), NEW root \in BOOLEAN
  PROVE  IsSeq(SetAside(q, root)) /\ ToSet(SetAside(q, root)) \subseteq ToSet(q)
<1> DEFINE n == Len(q)
           f == CHOOSE g : Chosen(g, n, q, root)
<1>1. n \in Nat /\ \A i \in 1..n : q[i] \in ToSet(q)
  BY SeqParts
<1>2. SetAside(q, root) = f[n]
  <2>1. SetAside(q, root)
          = (CHOOSE g : g = [i \in 0..n |-> IF i = 0 THEN <<>>
                                            ELSE IF (ParentOf(q[i].node) = Root) = root
                                                 THEN Append(g[i - 1], q[i]) ELSE g[i - 1]])[n]
    BY Zenon DEF SetAside
  <2> QED BY <2>1, Zenon DEF Chosen, Choice
<1> HIDE DEF n
<1>3. Chosen(f, n, q, root)
  BY <1>1, ChosenIsThere
<1> HIDE DEF f
<1>4. \A i \in 0..n : f[i] = IF i = 0 THEN <<>> ELSE Choice(f[i - 1], q[i], root)
  BY <1>3 DEF Chosen
<1> DEFINE Good(i) == IsSeq(f[i]) /\ ToSet(f[i]) \subseteq ToSet(q)
           Bad == {i \in 0..n : ~Good(i)}
<1>5. Bad = {}
  <2> SUFFICES ASSUME Bad # {} PROVE FALSE
    OBVIOUS
  <2>1. PICK m \in Bad : \A k \in Bad : m <= k
    <3>1. Bad \in SUBSET Nat
      BY <1>1
    <3> HIDE DEF Bad
    <3> QED BY <3>1, LeastIsThere
  <2>2. m \in 0..n /\ ~Good(m)
    BY <2>1
  <2>3. m # 0
    <3> SUFFICES ASSUME m = 0 PROVE FALSE
      OBVIOUS
    <3>1. f[m] = <<>>
      BY <1>4, <2>2
    <3> QED BY <2>2, <3>1, ShortSeqs
  <2>4. m - 1 \in 0..n /\ ~ (m <= m - 1) /\ m \in 1..n
    BY <1>1, <2>2, <2>3
  <2>5. m - 1 \notin Bad
    <3> HIDE DEF Bad
    <3> QED BY <2>1, <2>4
  <2>6. Good(m - 1)
    BY <2>4, <2>5
  <2>7. f[m] = f[m - 1] \/ f[m] = Append(f[m - 1], q[m])
    BY <1>4, <2>3, <2>4 DEF Choice
  <2>8. IsSeq(Append(f[m - 1], q[m]))
        /\ ToSet(Append(f[m - 1], q[m])) = ToSet(f[m - 1]) \cup {q[m]}
    BY <2>6, SeqAppend
  <2>9. q[m] \in ToSet(q)
    BY <1>1, <2>4
  <2>10. Good(m)
    <3> DEFINE x == f[m - 1]  y == f[m]
    <3>1. IsSeq(x) /\ ToSet(x) \subseteq ToSet(q)
      BY <2>6
    <3>2. y = x \/ y = Append(x, q[m])
      BY <2>7
    <3>3. IsSeq(Append(x, q[m])) /\ ToSet(Append(x, q[m])) = ToSet(x) \cup {q[m]}
      BY <2>8
    <3> DEFINE z == Append(x, q[m])
    <3>4. IsSeq(z) /\ ToSet(z) \subseteq ToSet(q)
      BY <2>9, <3>1, <3>3
    <3> HIDE DEF x, y, z
    <3>5. CASE y = x
      BY <3>1, <3>5 DEF y
    <3>6. CASE y = z
      BY <3>4, <3>6 DEF y
    <3> QED BY <3>2, <3>5, <3>6 DEF z
  <2> QED BY <2>2, <2>10
<1>6. Good(n)
  BY <1>1, <1>5
<1> QED BY <1>2, <1>6

-----------------------------------------------------------------------------
(* Types.                                                                  *)

\* Each node is at the level its path names.
LEMMA NodesAreSomewhere ==
  /\ Front(Box) = Root /\ Box # Root
  /\ \A n \in Kids : Front(n) = Box /\ n # Box
  /\ \A s \in {1, 2} : Stage(s) \subseteq Kids
<1> DEFINE S == {<<"box", 0>>} \cup Inner
<1>1. Box \in Seq(S) /\ Len(Box) = 1 /\ Box # <<>>
  <2>1. ASSUME NEW x PROVE <<x>> \in Seq({x}) /\ Len(<<x>>) = 1 /\ <<x>> # <<>>
    OBVIOUS
  <2>2. Box \in Seq({<<"box", 0>>}) /\ Len(Box) = 1 /\ Box # <<>>
    BY <2>1 DEF Box
  <2> QED BY <2>2, SeqMonotonic
<1>2. Front(Box) = Root
  <2>1. SubSeq(Box, 1, 0) = <<>>
    BY SubSeqEmpty
  <2> QED BY <1>1, <2>1 DEF Front, Root
<1>3. ASSUME NEW i \in Inner PROVE Front(Append(Box, i)) = Box /\ Append(Box, i) # Box
  <2>1. i \in S
    OBVIOUS
  <2> HIDE DEF S
  <2>2. Front(Append(Box, i)) = Box
    BY <1>1, <2>1, FrontOfAppend
  <2>3. Len(Append(Box, i)) = Len(Box) + 1
    BY <1>1, <2>1, AppendProperties
  <2>4. Len(Append(Box, i)) = 2
    BY <1>1, <2>3
  <2> QED BY <1>1, <2>2, <2>4
<1>4. \A n \in Kids : Front(n) = Box /\ n # Box
  BY <1>3 DEF Kids
<1>5. \A s \in {1, 2} : Stage(s) \subseteq Kids
  BY FirstAssumption DEF Stage, Kids
<1> QED BY <1>1, <1>2, <1>4, <1>5 DEF Root

\* The topologies the run reports.
LEMMA PendingIsLevel ==
  ASSUME NEW k, NEW nodes, \A n \in nodes : Front(n) = k, NEW v \in Nat, NEW append \in BOOLEAN
  PROVE  IsTopology(Topology(k, Pending(nodes), v, append))
BY DEF IsTopology, Topology, Pending, IsLevel, Statuses

\* What the run reports is an event, and an event is a frame.
LEMMA ReportsAreEvents ==
  /\ IsTopology(Topology(Root, Pending({Box}), 0, FALSE))
  /\ \A s \in {1, 2} : \A append \in BOOLEAN : \A nodes \in SUBSET Kids :
       IsTopology(Topology(Box, Pending(nodes), s, append))
  /\ \A n : \A s \in Statuses : IsStatus(NodeStatus(n, s), {"status"})
  /\ IsReconcile(Reconcile([n \in Nodes |-> "completed"]))
<1>1. IsTopology(Topology(Root, Pending({Box}), 0, FALSE))
  BY NodesAreSomewhere, PendingIsLevel
<1>2. ASSUME NEW s \in {1, 2}, NEW append \in BOOLEAN, NEW nodes \in SUBSET Kids
      PROVE  IsTopology(Topology(Box, Pending(nodes), s, append))
  BY NodesAreSomewhere, PendingIsLevel
<1>3. \A n : \A s \in Statuses : IsStatus(NodeStatus(n, s), {"status"})
  BY DEF IsStatus, NodeStatus
<1>4. IsReconcile(Reconcile([n \in Nodes |-> "completed"]))
  BY DEF IsReconcile, Reconcile, IsRecord, Statuses
<1> QED BY <1>1, <1>2, <1>3, <1>4

\* The initial state has the types.
LEMMA TypeInit == Init => TypeOK
<1> SUFFICES ASSUME Init PROVE TypeOK
  OBVIOUS
<1> USE DEF Init
<1>1. RunOK
  BY DEF RunOK, Statuses
<1>2. StoreOK
  BY NoSnapshotIsOne DEF StoreOK, TaskStatuses
<1>3. LinkOK
  BY ShortSeqs DEF LinkOK
<1>4. PageOK
  <2>1. IsUi(Page("none"))
    BY FS_EmptySet DEF IsUi, Page, NoGraph, IsGraph, TaskStatuses
  <2> QED BY <2>1, ShortSeqs DEF PageOK
<1> QED BY <1>1, <1>2, <1>3, <1>4 DEF TypeOK

\* send_safe: a frame is added to those on their way, or lost.
LEMMA SentFrames ==
  ASSUME IsSeq(wire), NEW f, Send(f)
  PROVE  /\ IsSeq(wire') /\ ToSet(wire') \subseteq ToSet(wire) \cup {f}
         /\ ~sock => wire' = wire
<1>1. wire' = wire \/ wire' = Append(wire, f)
  BY DEF Send
<1>2. IsSeq(Append(wire, f)) /\ ToSet(Append(wire, f)) = ToSet(wire) \cup {f}
  BY SeqAppend
<1> QED BY <1>1, <1>2 DEF Send

\* send_graph_event.
LEMMA EmitTypes ==
  ASSUME TypeOK, NEW e, IsEvent(e), Emit(e)
  PROVE  /\ StoreOK' /\ LinkOK' /\ PageOK' /\ conns' \in Nat /\ restarts' \in Nat
         /\ mem' = Applied([mem EXCEPT !.has = TRUE], e) /\ mem'.has
         /\ IsSnapshot([mem EXCEPT !.has = TRUE])
         /\ [mem EXCEPT !.has = TRUE]
              = [has |-> TRUE, g |-> mem.g, rec |-> mem.rec, term |-> mem.term]
<1> DEFINE m == [mem EXCEPT !.has = TRUE]
<1>1. m = [has |-> TRUE, g |-> mem.g, rec |-> mem.rec, term |-> mem.term]
  <2> DEFINE h == mem.has  g == mem.g  rec == mem.rec  t == mem.term  y == TRUE
  <2>1. mem = [has |-> h, g |-> g, rec |-> rec, term |-> t]
    BY DEF TypeOK, StoreOK, IsSnapshot
  <2> HIDE DEF h, g, rec, t, y
  <2>2. [mem EXCEPT !.has = y] = [has |-> y, g |-> g, rec |-> rec, term |-> t]
    BY <2>1
  <2> QED BY <2>2 DEF g, rec, t, y
<1>2. IsSnapshot(m) /\ m.has
  <2>1. IsGraph(mem.g) /\ IsRecord(mem.rec) /\ mem.term \in BOOLEAN
    BY DEF TypeOK, StoreOK, IsSnapshot
  <2> HIDE DEF m
  <2> QED BY <1>1, <2>1 DEF IsSnapshot
<1>3. mem' = Applied(m, e) /\ IsSnapshot(mem') /\ mem'.has
  BY <1>2, AppliedIsSnapshot DEF Emit
<1>4. StoreOK'
  BY <1>3 DEF StoreOK, TypeOK, Emit
<1>5. IsSeq(wire') /\ ToSet(wire') \subseteq ToSet(wire) \cup {e}
  BY SentFrames DEF Emit, TypeOK, LinkOK
<1>6. IsFrame(e)
  BY DEF IsEvent, IsFrame
<1>7. IsSeq(replay') /\ \A r \in ToSet(replay') : IsReplayed(r)
  BY LinkedIsReplay DEF Emit, TypeOK, LinkOK
<1>8. LinkOK'
  BY <1>5, <1>6, <1>7 DEF LinkOK, TypeOK, Emit
<1>9. PageOK' /\ conns' \in Nat /\ restarts' \in Nat
  BY DEF PageOK, TypeOK, Emit, page
<1> QED BY <1>1, <1>2, <1>3, <1>4, <1>8, <1>9

\* A snapshot that is marked for pruning, or no more.
LEMMA MarkedSnapshot ==
  ASSUME NEW s, IsSnapshot(s), NEW b \in BOOLEAN, s.has \/ ~b
  PROVE  /\ IsSnapshot([s EXCEPT !.term = b])
         /\ [s EXCEPT !.term = b].has = s.has /\ [s EXCEPT !.term = b].g = s.g
         /\ [s EXCEPT !.term = b].rec = s.rec /\ [s EXCEPT !.term = b].term = b
<1> DEFINE h == s.has  g == s.g  rec == s.rec  t == s.term
           m == [has |-> h, g |-> g, rec |-> rec, term |-> b]
<1>1. s = [has |-> h, g |-> g, rec |-> rec, term |-> t]
  BY DEF IsSnapshot
<1>2. [s EXCEPT !.term = b] = m
  <2> HIDE DEF h, g, rec, t
  <2> QED BY <1>1
<1>3. ~h => m = NoSnapshot
  <2> SUFFICES ASSUME ~h PROVE m = NoSnapshot
    OBVIOUS
  <2>1. s = NoSnapshot
    BY DEF IsSnapshot
  <2>2. ~b
    OBVIOUS
  <2>3. h = FALSE /\ g = NoGraph /\ rec = NoGraph /\ b = FALSE
    BY <2>1, <2>2 DEF NoSnapshot
  <2> QED BY <2>3 DEF NoSnapshot
<1>4. IsSnapshot(m)
  <2>1. h \in BOOLEAN /\ IsGraph(g) /\ IsRecord(rec)
    BY DEF IsSnapshot
  <2>2. m = [has |-> m.has, g |-> m.g, rec |-> m.rec, term |-> m.term]
    OBVIOUS
  <2>3. m.has = h /\ m.g = g /\ m.rec = rec /\ m.term = b
    OBVIOUS
  <2> HIDE DEF m, h, g, rec
  <2> QED BY <1>3, <2>1, <2>2, <2>3 DEF IsSnapshot
<1> QED BY <1>2, <1>4

\* The run's steps keep the types.
LEMMA RunTypes ==
  ASSUME TypeOK, \/ Start \/ ReportRoot \/ ReportReconcile \/ Finish \/ Persist
                 \/ \E s \in {1, 2}, append \in BOOLEAN : ReportStage(s, append)
                 \/ \E n \in Reporting : ReportStatus(n)
  PROVE  TypeOK'
<1>1. RunOK /\ StoreOK /\ LinkOK /\ PageOK /\ conns \in Nat /\ restarts \in Nat
  BY DEF TypeOK
<1>2. CASE Start
  <2>1. RunOK' /\ conns' \in Nat /\ restarts' \in Nat
    BY <1>1, <1>2 DEF Start, RunOK
  <2>2. StoreOK'
    BY <1>1, <1>2 DEF Start, StoreOK, TaskStatuses
  <2>3. IsFrame([kind |-> "starting"])
    BY DEF IsFrame
  <2>4. LinkOK'
    <3>1. IsSeq(wire') /\ ToSet(wire') = ToSet(wire) \cup {[kind |-> "starting"]}
      BY <1>1, <1>2, SeqAppend DEF Start, LinkOK
    <3> QED BY <1>1, <1>2, <2>3, <3>1 DEF Start, LinkOK
  <2>5. PageOK'
    BY <1>1, <1>2 DEF Start, PageOK, page
  <2> QED BY <2>1, <2>2, <2>4, <2>5 DEF TypeOK
<1>3. CASE ReportRoot
  <2> DEFINE e == Topology(Root, Pending({Box}), 0, FALSE)
  <2>1. IsEvent(e) /\ Emit(e)
    BY <1>3, ReportsAreEvents DEF IsEvent, ReportRoot
  <2> HIDE DEF e
  <2>2. StoreOK' /\ LinkOK' /\ PageOK' /\ conns' \in Nat /\ restarts' \in Nat
    BY <2>1, EmitTypes
  <2>3. RunOK'
    BY <1>1, <1>3, <2>1 DEF ReportRoot, Emit, RunOK
  <2> QED BY <2>2, <2>3 DEF TypeOK
<1>4. CASE ReportReconcile
  <2> DEFINE e == Reconcile([n \in Nodes |-> "completed"])
  <2>1. IsEvent(e) /\ Emit(e)
    BY <1>4, ReportsAreEvents DEF IsEvent, ReportReconcile
  <2> HIDE DEF e
  <2>2. StoreOK' /\ LinkOK' /\ PageOK' /\ conns' \in Nat /\ restarts' \in Nat
    BY <2>1, EmitTypes
  <2>3. RunOK'
    BY <1>1, <1>4, <2>1 DEF ReportReconcile, Emit, RunOK, Statuses
  <2> QED BY <2>2, <2>3 DEF TypeOK
<1>5. ASSUME NEW s \in {1, 2}, NEW append \in BOOLEAN, ReportStage(s, append)
      PROVE  TypeOK'
  <2> DEFINE nodes == IF append THEN Stage(2) \ Stage(1) ELSE Stage(s)
             e == Topology(Box, Pending(nodes), s, append)
  <2>1. nodes \in SUBSET Kids
    BY NodesAreSomewhere
  <2>2. IsEvent(e) /\ Emit(e)
    BY <1>5, <2>1, ReportsAreEvents DEF IsEvent, ReportStage
  <2> HIDE DEF e
  <2>3. StoreOK' /\ LinkOK' /\ PageOK' /\ conns' \in Nat /\ restarts' \in Nat
    BY <2>2, EmitTypes
  <2>4. RunOK'
    BY <1>1, <1>5, <2>2 DEF ReportStage, Emit, RunOK
  <2> QED BY <2>3, <2>4 DEF TypeOK
<1>6. ASSUME NEW n \in Reporting, ReportStatus(n)
      PROVE  TypeOK'
  <2> DEFINE s == IF real[n] = "none" THEN "running" ELSE "completed"
             e == NodeStatus(n, s)
  <2>1. s \in Statuses
    BY DEF Statuses
  <2>2. IsEvent(e) /\ Emit(e) /\ real' = [real EXCEPT ![n] = s]
    BY <1>6, <2>1, ReportsAreEvents DEF IsEvent, ReportStatus
  <2> HIDE DEF e
  <2>3. StoreOK' /\ LinkOK' /\ PageOK' /\ conns' \in Nat /\ restarts' \in Nat
    BY <2>2, EmitTypes
  <2>4. RunOK'
    <3> HIDE DEF s
    <3>1. real' \in [Nodes -> Statuses]
      BY <1>1, <2>1, <2>2 DEF RunOK
    <3>2. phase' = phase /\ settled' = settled /\ roots' = roots /\ stages' = stages
      BY <1>6, <2>2 DEF ReportStatus, Emit
    <3> QED BY <1>1, <3>1, <3>2 DEF RunOK
  <2> QED BY <2>3, <2>4 DEF TypeOK
<1>7. CASE Finish
  <2> DEFINE f == [kind |-> "ended", status |-> IF settled THEN "completed" ELSE "error"]
  <2>1. IsFrame(f)
    BY DEF IsFrame, TaskStatuses
  <2>2. IsSeq(wire') /\ ToSet(wire') \subseteq ToSet(wire) \cup {f}
    BY <1>1, <1>7, SentFrames DEF Finish, LinkOK
  <2> HIDE DEF f
  <2>3. LinkOK'
    BY <1>1, <1>7, <2>1, <2>2 DEF Finish, LinkOK
  <2>4. RunOK' /\ StoreOK' /\ PageOK' /\ conns' \in Nat /\ restarts' \in Nat
    BY <1>1, <1>7 DEF Finish, RunOK, StoreOK, PageOK, store, page
  <2> QED BY <2>3, <2>4 DEF TypeOK
<1>8. CASE Persist
  <2>1. mem.has \in BOOLEAN /\ IsSnapshot(mem) /\ IsSnapshot(disk)
    BY <1>1 DEF StoreOK, IsSnapshot
  <2>2. IsSnapshot([mem EXCEPT !.term = mem.has])
    BY <2>1, MarkedSnapshot
  <2>3. IsSnapshot(Persisted(mem))
    BY <2>1, MarkedSnapshot DEF Persisted
  <2>4. StoreOK'
    <3>1. mem' = [mem EXCEPT !.term = mem.has] /\ (disk' = disk \/ disk' = Persisted(mem))
          /\ session' = session
          /\ (chip' = chip \/ chip' = "completed" \/ chip' = "error")
      BY <1>8 DEF Persist
    <3> QED BY <1>1, <2>1, <2>2, <2>3, <3>1 DEF StoreOK, TaskStatuses
  <2>5. RunOK' /\ LinkOK' /\ PageOK' /\ conns' \in Nat /\ restarts' \in Nat
    BY <1>1, <1>8 DEF Persist, RunOK, LinkOK, PageOK, link, page
  <2> QED BY <2>4, <2>5 DEF TypeOK
<1> QED BY <1>2, <1>3, <1>4, <1>5, <1>6, <1>7, <1>8

\* What is replayed is a frame.
LEMMA ReplayedIsFrame ==
  ASSUME NEW r, IsReplayed(r)
  PROVE  IsFrame(r)
<1>1. CASE IsReconcile(r)
  BY <1>1 DEF IsFrame
<1>2. CASE ~IsReconcile(r)
  <2> DEFINE k == r.key  t == r.st  sh == r.shared
  <2>1. /\ r = [kind |-> "topology", key |-> k, st |-> t, version |-> 0, append |-> FALSE,
                shared |-> sh]
        /\ IsLevel(k, t)
    BY <1>2 DEF IsReplayed
  <2> HIDE DEF k, t, sh
  <2>2. r.kind = "topology" /\ r.key = k /\ r.st = t /\ r.version = 0 /\ r.append = FALSE
    BY <2>1
  <2>3. IsTopology(r)
    BY <2>1, <2>2 DEF IsTopology
  <2> QED BY <2>3 DEF IsFrame
<1> QED BY <1>1, <1>2

\* get_or_load: what a lookup finds.
LEMMA FoundIsSnapshot ==
  ASSUME IsSnapshot(disk), NEW w \in Workspaces
  PROVE  IsSnapshot(Found(w))
BY RebuiltIsSnapshot, NoSnapshotIsOne DEF Found

\* The steps of the connection and of the server keep the types.
LEMMA LinkTypes ==
  ASSUME TypeOK, \/ \E reload \in BOOLEAN : Connect(reload)
                 \/ Disconnect \/ Restart \/ SendReplay \/ Lookup \/ Load \/ Delete
  PROVE  TypeOK'
<1>1. RunOK /\ StoreOK /\ LinkOK /\ PageOK /\ conns \in Nat /\ restarts \in Nat
  BY DEF TypeOK
<1>2. \A status \in TaskStatuses : IsUi(Page(status))
  BY FS_EmptySet DEF IsUi, Page, NoGraph, IsGraph
<1>3. IsSnapshot(mem) /\ IsSnapshot(disk)
  BY <1>1 DEF StoreOK
<1>4. ASSUME NEW reload \in BOOLEAN, Connect(reload) PROVE TypeOK'
  <2>1. Healed \in TaskStatuses
    BY <1>1 DEF Healed, StoreOK, TaskStatuses
  <2>2. PICK expired \in BOOLEAN : mem' = Pruned(expired) /\ replay' = ToReplay(Pruned(expired))
    BY <1>4 DEF Connect
  <2>3. IsSnapshot(Pruned(expired))
    BY <1>3, NoSnapshotIsOne DEF Pruned
  <2>4. StoreOK'
    BY <1>1, <1>4, <2>1, <2>2, <2>3 DEF Connect, StoreOK
  <2>5. LinkOK'
    <3> DEFINE f == [kind |-> "init", status |-> Healed]
    <3>1. IsFrame(f)
      BY <2>1 DEF IsFrame
    <3>2. IsSeq(replay') /\ \A r \in ToSet(replay') : IsReplayed(r)
      BY <2>2, <2>3, ToReplayIsReplay
    <3>3. wire' = <<f>> /\ sock' = TRUE /\ home' = FALSE /\ load' = "none"
      BY <1>4 DEF Connect
    <3> HIDE DEF f
    <3>4. IsSeq(wire') /\ ToSet(wire') = {f}
      BY <3>3, ShortSeqs
    <3> QED BY <3>1, <3>2, <3>3, <3>4 DEF LinkOK
  <2>6. PageOK'
    <3>1. CASE reload
      <4>1. /\ ui' = Page("none") /\ queue' = <<>> /\ buf' = <<>> /\ seen' = FALSE
            /\ asked' = FALSE /\ after' \in BOOLEAN
        BY <1>4, <3>1 DEF Connect
      <4> QED BY <1>2, <4>1, ShortSeqs DEF PageOK, TaskStatuses
    <3>2. CASE ~reload
      BY <1>1, <1>4, <3>2 DEF Connect, PageOK, page
    <3> QED BY <3>1, <3>2
  <2>7. RunOK' /\ conns' \in Nat /\ restarts' \in Nat
    BY <1>1, <1>4 DEF Connect, RunOK, run
  <2> QED BY <2>4, <2>5, <2>6, <2>7 DEF TypeOK
<1>5. ASSUME /\ sock' = FALSE /\ home' = FALSE /\ wire' = <<>> /\ replay' = <<>>
             /\ load' = "none" /\ ui' = Page("none")
             /\ UNCHANGED <<queue, buf, seen, asked, after>>
      PROVE  LinkOK' /\ PageOK'
  <2>1. LinkOK'
    BY <1>5, ShortSeqs DEF LinkOK
  <2>2. PageOK'
    BY <1>1, <1>5, <1>2 DEF PageOK, TaskStatuses
  <2> QED BY <2>1, <2>2
<1>6. CASE Disconnect
  <2>1. LinkOK' /\ PageOK'
    BY <1>5, <1>6 DEF Disconnect
  <2>2. RunOK' /\ StoreOK' /\ conns' \in Nat /\ restarts' \in Nat
    BY <1>1, <1>6 DEF Disconnect, RunOK, StoreOK, run, store
  <2> QED BY <2>1, <2>2 DEF TypeOK
<1>7. CASE Restart
  <2>1. LinkOK' /\ PageOK'
    BY <1>5, <1>7 DEF Restart
  <2>2. RunOK' /\ conns' \in Nat /\ restarts' \in Nat
    BY <1>1, <1>7 DEF Restart, RunOK
  <2>3. StoreOK'
    BY <1>1, <1>7, NoSnapshotIsOne DEF Restart, StoreOK
  <2> QED BY <2>1, <2>2, <2>3 DEF TypeOK
<1>8. CASE SendReplay
  <2> DEFINE r == Head(replay)
  <2>1. r \in ToSet(replay) /\ IsSeq(Tail(replay)) /\ ToSet(Tail(replay)) \subseteq ToSet(replay)
    BY <1>1, <1>8, SeqTail DEF SendReplay, LinkOK
  <2>2. IsFrame(r)
    BY <1>1, <2>1, ReplayedIsFrame DEF LinkOK
  <2>3. IsSeq(Append(wire, r)) /\ ToSet(Append(wire, r)) = ToSet(wire) \cup {r}
    BY <1>1, SeqAppend DEF LinkOK
  <2>4. wire' = Append(wire, r) /\ replay' = Tail(replay) /\ UNCHANGED <<sock, home, load>>
    BY <1>8 DEF SendReplay
  <2> HIDE DEF r
  <2>5. LinkOK'
    BY <1>1, <2>1, <2>2, <2>3, <2>4 DEF LinkOK
  <2>6. RunOK' /\ StoreOK' /\ PageOK' /\ conns' \in Nat /\ restarts' \in Nat
    BY <1>1, <1>8 DEF SendReplay, RunOK, StoreOK, PageOK, run, store, page
  <2> QED BY <2>5, <2>6 DEF TypeOK
<1>9. CASE Lookup
  <2>1. replay' = replay \/ replay' = ToReplay(mem)
    BY <1>9 DEF Lookup
  <2>2. IsSeq(replay') /\ \A r \in ToSet(replay') : IsReplayed(r)
    <3>1. CASE replay' = replay
      BY <1>1, <3>1 DEF LinkOK
    <3>2. CASE replay' = ToReplay(mem)
      BY <1>3, <3>2, ToReplayIsReplay
    <3> QED BY <2>1, <3>1, <3>2
  <2>3. load' \in {"none", "thread"} /\ UNCHANGED <<sock, home, wire>>
    BY <1>9 DEF Lookup
  <2>4. LinkOK'
    BY <1>1, <2>2, <2>3 DEF LinkOK
  <2>5. RunOK' /\ StoreOK' /\ PageOK' /\ conns' \in Nat /\ restarts' \in Nat
    BY <1>1, <1>9 DEF Lookup, RunOK, StoreOK, PageOK, run, store, page
  <2> QED BY <2>4, <2>5 DEF TypeOK
<1>10. CASE Load
  <2>1. PICK w \in Workspaces :
          /\ mem' = IF Found(w).has THEN [Found(w) EXCEPT !.term = TRUE] ELSE mem
          /\ replay' = ToReplay(Found(w))
    BY <1>10 DEF Load
  <2> DEFINE found == Found(w)
  <2>2. IsSnapshot(found)
    BY <1>3, FoundIsSnapshot
  <2> HIDE DEF found
  <2>3. IsSnapshot(mem')
    <3>1. CASE found.has
      BY <2>1, <2>2, <3>1, MarkedSnapshot DEF found
    <3>2. CASE ~found.has
      BY <1>3, <2>1, <3>2 DEF found
    <3> QED BY <3>1, <3>2
  <2>4. IsSeq(replay') /\ \A r \in ToSet(replay') : IsReplayed(r)
    BY <2>1, <2>2, ToReplayIsReplay DEF found
  <2>5. StoreOK'
    BY <1>1, <1>10, <2>3 DEF Load, StoreOK
  <2>6. LinkOK'
    BY <1>1, <1>10, <2>4 DEF Load, LinkOK
  <2>7. RunOK' /\ PageOK' /\ conns' \in Nat /\ restarts' \in Nat
    BY <1>1, <1>10 DEF Load, RunOK, PageOK, run, page
  <2> QED BY <2>5, <2>6, <2>7 DEF TypeOK
<1>11. CASE Delete
  <2>1. StoreOK'
    BY <1>1, <1>11, NoSnapshotIsOne DEF Delete, StoreOK
  <2>2. RunOK' /\ LinkOK' /\ PageOK' /\ conns' \in Nat /\ restarts' \in Nat
    BY <1>1, <1>11 DEF Delete, RunOK, LinkOK, PageOK, run, link, page
  <2> QED BY <2>1, <2>2 DEF TypeOK
<1> QED BY <1>4, <1>6, <1>7, <1>8, <1>9, <1>10, <1>11

\* handleGraphTopology queues again the statuses that were set aside for the root level.
LEMMA BufferedAreUpdates ==
  ASSUME NEW s, IsSeq(s), \A e \in ToSet(s) : IsStatus(e, {"status"})
  PROVE  /\ IsSeq([i \in DOMAIN s |-> [s[i] EXCEPT !.kind = "buffered"]])
         /\ \A e \in ToSet([i \in DOMAIN s |-> [s[i] EXCEPT !.kind = "buffered"]]) : IsUpdate(e)
<1> DEFINE b == "buffered"
           q == [i \in DOMAIN s |-> [s[i] EXCEPT !.kind = b]]
<1>1. /\ Len(s) \in Nat /\ DOMAIN s = 1..Len(s)
      /\ \A i \in 1..Len(s) : IsStatus(s[i], {"status"})
  BY SeqParts
<1>2. ASSUME NEW i \in 1..Len(s) PROVE IsUpdate(q[i])
  <2> DEFINE k == s[i].kind  n == s[i].node  st == s[i].status
             r == [kind |-> b, node |-> n, status |-> st]
  <2>1. s[i] = [kind |-> k, node |-> n, status |-> st] /\ st \in Statuses
    BY <1>1 DEF IsStatus
  <2>2. IsStatus(r, {"status", "buffered"})
    <3>1. r.kind = b /\ r.node = n /\ r.status = st
      OBVIOUS
    <3> HIDE DEF r, n, st
    <3> QED BY <2>1, <3>1 DEF IsStatus, r
  <2> HIDE DEF b, k, n, st
  <2>3. q[i] = r
    BY <1>1, <2>1
  <2> HIDE DEF q, r
  <2> QED BY <2>2, <2>3 DEF IsUpdate
<1>3. IsSeq(q) /\ DOMAIN q = 1..Len(s)
  <2>1. q = [i \in 1..Len(s) |-> q[i]]
    BY <1>1
  <2> HIDE DEF q
  <2> QED BY <1>1, <2>1, FunctionIsSeq
<1>4. \A e \in ToSet(q) : IsUpdate(e)
  <2> HIDE DEF q
  <2> QED BY <1>2, <1>3 DEF ToSet
<1> QED BY <1>3, <1>4

\* The page with another graph, or another status.
LEMMA UiWith ==
  ASSUME NEW u, IsUi(u)
  PROVE  /\ \A g : IsGraph(g) => IsUi([u EXCEPT !.g = g]) /\ [u EXCEPT !.g = g].g = g
                                /\ [u EXCEPT !.g = g].status = u.status
         /\ \A g : IsGraph(g) => /\ IsUi([u EXCEPT !.known = TRUE, !.g = g])
                                 /\ [u EXCEPT !.known = TRUE, !.g = g].status = u.status
         /\ \A s \in TaskStatuses : /\ IsUi([u EXCEPT !.status = s])
                                    /\ [u EXCEPT !.status = s].status = s
                                    /\ [u EXCEPT !.status = s].g = u.g
<1> DEFINE k == u.known  t == u.status  h == u.g
<1>1. u = [known |-> k, status |-> t, g |-> h]
      /\ k \in BOOLEAN /\ t \in TaskStatuses /\ IsGraph(h)
  BY DEF IsUi
<1>2. ASSUME NEW kn \in BOOLEAN, NEW s \in TaskStatuses, NEW g, IsGraph(g)
      PROVE  IsUi([known |-> kn, status |-> s, g |-> g])
  BY <1>2 DEF IsUi
<1>3. ASSUME NEW g, IsGraph(g)
      PROVE  /\ IsUi([u EXCEPT !.g = g]) /\ [u EXCEPT !.g = g].g = g
             /\ [u EXCEPT !.g = g].status = u.status
  <2>1. [u EXCEPT !.g = g] = [known |-> k, status |-> t, g |-> g]
    <3> HIDE DEF k, t, h
    <3> QED BY <1>1
  <2> QED BY <1>1, <1>2, <1>3, <2>1
<1>4. ASSUME NEW g, IsGraph(g)
      PROVE  /\ IsUi([u EXCEPT !.known = TRUE, !.g = g])
             /\ [u EXCEPT !.known = TRUE, !.g = g].status = u.status
  <2> DEFINE y == TRUE
  <2>1. y \in BOOLEAN
    OBVIOUS
  <2> HIDE DEF y
  <2>2. [u EXCEPT !.known = y, !.g = g] = [known |-> y, status |-> t, g |-> g]
    <3> HIDE DEF k, t, h
    <3> DEFINE v == [u EXCEPT !.known = y]
    <3>1. v = [known |-> y, status |-> t, g |-> h]
      BY <1>1
    <3> HIDE DEF v
    <3>2. [v EXCEPT !.g = g] = [known |-> y, status |-> t, g |-> g]
      BY <3>1
    <3> QED BY <3>2 DEF v
  <2>3. IsUi([known |-> y, status |-> t, g |-> g])
    BY <1>1, <1>2, <1>4, <2>1
  <2>4. [known |-> y, status |-> t, g |-> g].status = u.status
    OBVIOUS
  <2> QED BY <2>2, <2>3, <2>4 DEF y
<1>5. ASSUME NEW s \in TaskStatuses
      PROVE  /\ IsUi([u EXCEPT !.status = s]) /\ [u EXCEPT !.status = s].status = s
             /\ [u EXCEPT !.status = s].g = u.g
  <2>1. [u EXCEPT !.status = s] = [known |-> k, status |-> s, g |-> h]
    <3> HIDE DEF k, t, h
    <3> QED BY <1>1
  <2> QED BY <1>1, <1>2, <2>1
<1> QED BY <1>3, <1>4, <1>5

\* A fresh page.
LEMMA FreshUi ==
  ASSUME NEW status \in TaskStatuses
  PROVE  IsUi(Page(status)) /\ Page(status).status = status /\ DOMAIN Page(status).g = {}
BY FS_EmptySet DEF IsUi, Page, NoGraph, IsGraph

\* The page's handling of a frame keeps the types; only a root topology gives it a root
\* level, and only what the server says of the task changes its status.
LEMMA ReceiveTypes ==
  ASSUME TypeOK, Receive
  PROVE  /\ TypeOK'
         /\ Root \in DOMAIN ui'.g => Root \in DOMAIN ui.g \/ Head(wire).kind = "topology"
         /\ \/ ui'.status \in {ui.status, "starting"}
            \/ Head(wire).kind \in {"init", "ended"} /\ ui'.status = Head(wire).status
         /\ Head(wire) \in ToSet(wire) /\ ToSet(wire') \subseteq ToSet(wire)
<1> DEFINE e == Head(wire)
<1>1. RunOK /\ StoreOK /\ LinkOK /\ PageOK /\ conns \in Nat /\ restarts \in Nat
  BY DEF TypeOK
<1>2. e \in ToSet(wire) /\ IsSeq(Tail(wire)) /\ ToSet(Tail(wire)) \subseteq ToSet(wire)
  BY <1>1, SeqTail DEF Receive, LinkOK
<1>3. IsFrame(e)
  BY <1>1, <1>2 DEF LinkOK
<1>4. /\ wire' = Tail(wire) /\ asked' = (asked /\ Root \notin DOMAIN ui'.g)
      /\ UNCHANGED <<run, store, sock, home, replay, load, after, conns, restarts>>
      /\ CASE e.kind = "init" -> Initialise(e)
           [] e.kind = "starting" -> Starting
           [] e.kind = "ended" -> Ended(e)
           [] e.kind = "topology" /\ e.key = Root -> RootTopology(e)
           [] e.kind = "reconcile" -> ReconcileUi(e)
           [] OTHER -> Queued(e)
  BY DEF Receive
<1> HIDE DEF e
<1>5. RunOK' /\ StoreOK' /\ conns' \in Nat /\ restarts' \in Nat
  BY <1>1, <1>4 DEF RunOK, StoreOK, run, store
<1>6. LinkOK'
  BY <1>1, <1>2, <1>4 DEF LinkOK
<1>7. IsUi(ui) /\ IsSeq(queue) /\ (\A u \in ToSet(queue) : IsUpdate(u))
      /\ IsSeq(buf) /\ (\A s \in ToSet(buf) : IsStatus(s, {"status"})) /\ seen \in BOOLEAN
  BY <1>1 DEF PageOK
<1> DEFINE UiGood == /\ IsUi(ui')
                     /\ Root \in DOMAIN ui'.g => Root \in DOMAIN ui.g \/ e.kind = "topology"
                     /\ \/ ui'.status \in {ui.status, "starting"}
                        \/ e.kind \in {"init", "ended"} /\ ui'.status = e.status
           RestGood == /\ IsSeq(queue') /\ \A u \in ToSet(queue') : IsUpdate(u)
                       /\ IsSeq(buf') /\ \A s \in ToSet(buf') : IsStatus(s, {"status"})
                       /\ seen' \in BOOLEAN
<1>8. UiGood /\ RestGood
  <2>1. CASE e.kind = "init"
    <3>1. Initialise(e) /\ e.status \in TaskStatuses
      BY <1>3, <1>4, <2>1 DEF IsFrame, IsTopology, IsStatus, IsReconcile
    <3>2. ui' = Page(e.status) /\ UNCHANGED <<queue, buf, seen>>
      BY <3>1 DEF Initialise
    <3>3. IsUi(Page(e.status)) /\ Page(e.status).status = e.status /\ DOMAIN Page(e.status).g = {}
      BY <3>1, FreshUi
    <3>4. UiGood
      BY <2>1, <3>2, <3>3
    <3> QED BY <1>7, <3>2, <3>4
  <2>2. CASE e.kind = "starting"
    <3>1. ui' = Page("starting") /\ buf' = <<>> /\ seen' = FALSE /\ UNCHANGED queue
      BY <1>4, <2>2 DEF Starting
    <3>2. IsUi(Page("starting")) /\ Page("starting").status = "starting"
          /\ DOMAIN Page("starting").g = {}
      BY FreshUi DEF TaskStatuses
    <3> QED BY <1>7, <3>1, <3>2, ShortSeqs
  <2>3. CASE e.kind = "ended"
    <3>1. Ended(e) /\ e.status \in TaskStatuses
      BY <1>3, <1>4, <2>3 DEF IsFrame, IsTopology, IsStatus, IsReconcile
    <3>2. UNCHANGED <<queue, buf, seen>>
          /\ ui' = IF ui.known THEN [ui EXCEPT !.status = e.status] ELSE ui
      BY <3>1 DEF Ended
    <3> DEFINE v == [ui EXCEPT !.status = e.status]
    <3>3. IsUi(v) /\ v.status = e.status /\ v.g = ui.g
      BY <1>7, <3>1, UiWith
    <3> HIDE DEF v
    <3>4. ui' = ui \/ ui' = v
      BY <3>2 DEF v
    <3>5. UiGood
      BY <1>7, <2>3, <3>3, <3>4
    <3> QED BY <1>7, <3>2, <3>5
  <2>4. CASE e.kind = "topology" /\ e.key = Root
    <3> DEFINE kept == IF seen THEN buf ELSE <<>>
               again == SetAside(kept, TRUE)
               left == SetAside(kept, FALSE)
               g == MergeJs(ui.g, e)
               v == [ui EXCEPT !.known = TRUE, !.g = g]
               q == [i \in DOMAIN again |-> [again[i] EXCEPT !.kind = "buffered"]]
    <3>1. RootTopology(e) /\ IsTopology(e)
      BY <1>3, <1>4, <2>4 DEF IsFrame, IsStatus, IsReconcile
    <3>2. ui' = v /\ queue' = queue \o q /\ buf' = left /\ seen' = TRUE
      BY <3>1 DEF RootTopology
    <3>3. IsGraph(g)
      BY <1>7, <3>1, MergeJsIsGraph DEF IsUi
    <3>4. IsSeq(kept) /\ \A s \in ToSet(kept) : IsStatus(s, {"status"})
      BY <1>7, ShortSeqs
    <3> HIDE DEF kept, g
    <3>5. IsSeq(again) /\ IsSeq(left) /\ ToSet(again) \subseteq ToSet(kept)
          /\ ToSet(left) \subseteq ToSet(kept)
      BY <3>4, SetAsideIsPart
    <3> HIDE DEF again, left
    <3>6. IsSeq(q) /\ \A u \in ToSet(q) : IsUpdate(u)
      BY <3>4, <3>5, BufferedAreUpdates
    <3>7. IsUi(v) /\ v.status = ui.status
      BY <1>7, <3>3, UiWith
    <3> HIDE DEF q, v
    <3>8. UiGood
      BY <2>4, <3>2, <3>7
    <3>9. IsSeq(queue \o q) /\ ToSet(queue \o q) \subseteq ToSet(queue) \cup ToSet(q)
      BY <1>7, <3>6, SeqConcat
    <3>10. RestGood
      BY <1>7, <3>2, <3>4, <3>5, <3>6, <3>9
    <3> QED BY <3>8, <3>10
  <2>5. CASE e.kind = "reconcile"
    <3>1. ReconcileUi(e) /\ IsRecord(e.st)
      BY <1>3, <1>4, <2>5 DEF IsFrame, IsTopology, IsStatus, IsReconcile
    <3> DEFINE g == Stamp(ui.g, e.st)  v == [ui EXCEPT !.g = g]
    <3>2. UNCHANGED <<queue, buf, seen>> /\ (ui' = v \/ ui' = ui)
      BY <3>1 DEF ReconcileUi
    <3>3. IsGraph(g) /\ DOMAIN g = DOMAIN ui.g
      BY <1>7, <3>1, StampIsGraph DEF IsUi, IsRecord, IsNews
    <3> HIDE DEF g
    <3>4. IsUi(v) /\ v.g = g /\ v.status = ui.status
      BY <1>7, <3>3, UiWith
    <3> HIDE DEF v
    <3>5. UiGood
      BY <1>7, <3>2, <3>3, <3>4
    <3> QED BY <1>7, <3>2, <3>5
  <2>6. CASE /\ e.kind \notin {"init", "starting", "ended", "reconcile"}
             /\ ~(e.kind = "topology" /\ e.key = Root)
    <3>1. Queued(e)
      BY <1>4, <2>6
    <3>2. IsUpdate(e)
      <4>1. IsTopology(e) \/ IsStatus(e, {"status"})
        BY <1>3, <2>6 DEF IsFrame, IsReconcile
      <4>2. IsTopology(e) => e.key # Root
        BY <2>6 DEF IsTopology
      <4>3. IsStatus(e, {"status"}) => IsStatus(e, {"status", "buffered"})
        BY DEF IsStatus
      <4> QED BY <4>1, <4>2, <4>3 DEF IsUpdate
    <3>3. queue' = Append(queue, e) /\ UNCHANGED <<ui, buf, seen>>
      BY <3>1 DEF Queued
    <3>4. IsSeq(queue') /\ ToSet(queue') = ToSet(queue) \cup {e}
      BY <1>7, <3>3, SeqAppend
    <3> QED BY <1>7, <3>2, <3>3, <3>4
  <2> QED BY <2>1, <2>2, <2>3, <2>4, <2>5, <2>6
<1>9. PageOK'
  <2>1. asked' \in BOOLEAN /\ after' \in BOOLEAN
    BY <1>1, <1>4 DEF PageOK
  <2> QED BY <1>8, <2>1 DEF PageOK
<1> QED BY <1>2, <1>4, <1>5, <1>6, <1>8, <1>9 DEF TypeOK, e

\* The page's other steps keep the types; none gives it a root level or a status.
LEMMA PageTypes ==
  ASSUME TypeOK, Flush \/ Ask \/ AskTimeout
  PROVE  /\ TypeOK' /\ ui'.status = ui.status
         /\ Root \in DOMAIN ui'.g <=> Root \in DOMAIN ui.g
<1>1. RunOK /\ StoreOK /\ LinkOK /\ PageOK /\ conns \in Nat /\ restarts \in Nat
  BY DEF TypeOK
<1>2. CASE Flush
  <2> DEFINE p == [ui |-> ui, buf |-> buf]  q == Updated(p, queue)
  <2>1. IsPage(p) /\ p.ui = ui
    BY <1>1 DEF PageOK, IsPage
  <2>2. IsPage(q) /\ Alike(p, q)
    <3> HIDE DEF p
    <3> QED BY <1>1, <2>1, UpdatedKeepsPage DEF PageOK
  <2>3. /\ ui' = q.ui /\ buf' = q.buf /\ queue' = <<>>
        /\ UNCHANGED <<run, store, link, seen, asked, after, conns, restarts>>
    BY <1>2 DEF Flush
  <2> HIDE DEF p, q
  <2>4. PageOK'
    BY <1>1, <2>2, <2>3, ShortSeqs DEF PageOK, IsPage
  <2>5. RunOK' /\ StoreOK' /\ LinkOK' /\ conns' \in Nat /\ restarts' \in Nat
    BY <1>1, <2>3 DEF RunOK, StoreOK, LinkOK, run, store, link
  <2> QED BY <2>1, <2>2, <2>3, <2>4, <2>5 DEF TypeOK, Alike
<1>3. CASE Ask
  <2>1. LinkOK' /\ PageOK'
    BY <1>1, <1>3 DEF Ask, LinkOK, PageOK
  <2>2. RunOK' /\ StoreOK' /\ conns' \in Nat /\ restarts' \in Nat /\ ui' = ui
    BY <1>1, <1>3 DEF Ask, RunOK, StoreOK, run, store
  <2> QED BY <2>1, <2>2 DEF TypeOK
<1>4. CASE AskTimeout
  <2>1. LinkOK' /\ PageOK'
    BY <1>1, <1>4 DEF AskTimeout, LinkOK, PageOK, link
  <2>2. RunOK' /\ StoreOK' /\ conns' \in Nat /\ restarts' \in Nat /\ ui' = ui
    BY <1>1, <1>4 DEF AskTimeout, RunOK, StoreOK, run, store
  <2> QED BY <2>1, <2>2 DEF TypeOK
<1> QED BY <1>2, <1>3, <1>4

\* Every step keeps the types.
LEMMA TypeNext == TypeOK /\ [Next]_vars => TypeOK'
<1> SUFFICES ASSUME TypeOK, [Next]_vars PROVE TypeOK'
  OBVIOUS
<1>1. CASE UNCHANGED vars
  BY <1>1 DEF vars, run, store, link, page, TypeOK, RunOK, StoreOK, LinkOK, PageOK
<1>2. CASE Next
  BY <1>2, RunTypes, LinkTypes, ReceiveTypes, PageTypes DEF Next
<1> QED BY <1>1, <1>2

-----------------------------------------------------------------------------
(* What a step makes of the mirror.                                        *)

\* _apply_topology: the levels it does not name stay; of the one it names, a node keeps the
\* status it has, and the others get the one they come with.
LEMMA MergePyKeeps ==
  ASSUME NEW g, IsGraph(g), NEW e, IsTopology(e)
  PROVE  /\ \A k \in DOMAIN g \ {e.key} : MergePy(g, e)[k] = g[k]
         /\ \A k \in DOMAIN MergePy(g, e) : \A n \in DOMAIN MergePy(g, e)[k].st :
              \/ /\ k \in DOMAIN g /\ n \in DOMAIN g[k].st
                 /\ MergePy(g, e)[k].st[n] = g[k].st[n]
              \/ /\ k = e.key /\ n \in DOMAIN e.st
                 /\ k \in DOMAIN g => n \notin DOMAIN g[k].st
                 /\ MergePy(g, e)[k].st[n] = e.st[n]
<1> DEFINE m == MergePy(g, e)
           Kept(k, n) == k \in DOMAIN g /\ n \in DOMAIN g[k].st /\ m[k].st[n] = g[k].st[n]
           New(k, n) == /\ k = e.key /\ n \in DOMAIN e.st
                        /\ k \in DOMAIN g => n \notin DOMAIN g[k].st
                        /\ m[k].st[n] = e.st[n]
<1>1. e.version \in Nat /\ IsLevel(e.key, e.st)
  BY DEF IsTopology
<1>2. ASSUME NEW st, NEW v \in Nat, IsLevel(e.key, st), m = SetLevel(g, e.key, Level(st, v)),
             \A n \in DOMAIN st :
               \/ e.key \in DOMAIN g /\ n \in DOMAIN g[e.key].st /\ st[n] = g[e.key].st[n]
               \/ /\ n \in DOMAIN e.st /\ st[n] = e.st[n]
                  /\ e.key \in DOMAIN g => n \notin DOMAIN g[e.key].st
      PROVE  /\ \A k \in DOMAIN g \ {e.key} : m[k] = g[k]
             /\ \A k \in DOMAIN m : \A n \in DOMAIN m[k].st : Kept(k, n) \/ New(k, n)
  <2> HIDE DEF m
  <2>1. /\ DOMAIN m = DOMAIN g \cup {e.key} /\ m[e.key] = Level(st, v)
        /\ \A j \in DOMAIN g \ {e.key} : m[j] = g[j]
    BY <1>2 DEF SetLevel
  <2>2. m[e.key].st = st
    BY <2>1 DEF Level
  <2>3. ASSUME NEW k \in DOMAIN m, NEW n \in DOMAIN m[k].st PROVE Kept(k, n) \/ New(k, n)
    <3>1. CASE k = e.key
      BY <1>2, <2>2, <3>1
    <3>2. CASE k # e.key
      BY <2>1, <3>2
    <3> QED BY <3>1, <3>2
  <2> QED BY <2>1, <2>3
<1>3. CASE e.key \notin DOMAIN g
  <2>1. m = SetLevel(g, e.key, Level(e.st, e.version))
    BY <1>3 DEF MergePy
  <2>2. (\A k \in DOMAIN g \ {e.key} : m[k] = g[k])
        /\ \A k \in DOMAIN m : \A n \in DOMAIN m[k].st : Kept(k, n) \/ New(k, n)
    <3> HIDE DEF m, Kept, New
    <3> QED BY <1>1, <1>2, <1>3, <2>1
  <2> QED BY <2>2
<1>4. CASE e.key \in DOMAIN g /\ e.version # 0 /\ g[e.key].version # 0
           /\ e.version < g[e.key].version
  <2>1. m = g
    BY <1>4 DEF MergePy
  <2> QED BY <2>1
<1>5. CASE /\ e.key \in DOMAIN g
           /\ ~(e.version # 0 /\ g[e.key].version # 0 /\ e.version < g[e.key].version)
  <2> DEFINE st == Merged(g[e.key].st, e)
             v == IF e.version # 0 THEN e.version ELSE g[e.key].version
  <2>1. m = SetLevel(g, e.key, Level(st, v))
    BY <1>5 DEF MergePy
  <2>2. v \in Nat /\ IsLevel(e.key, g[e.key].st)
    BY <1>1, <1>5 DEF IsGraph
  <2>3. IsLevel(e.key, st)
    BY <2>2, MergedIsLevel
  <2>4. ASSUME NEW n \in DOMAIN st
        PROVE  \/ n \in DOMAIN g[e.key].st /\ st[n] = g[e.key].st[n]
               \/ n \in DOMAIN e.st /\ st[n] = e.st[n] /\ n \notin DOMAIN g[e.key].st
    BY DEF Merged, Carry, Added
  <2>5. (\A k \in DOMAIN g \ {e.key} : m[k] = g[k])
        /\ \A k \in DOMAIN m : \A n \in DOMAIN m[k].st : Kept(k, n) \/ New(k, n)
    <3> HIDE DEF m, st, v, Kept, New
    <3> QED BY <1>2, <1>5, <2>1, <2>2, <2>3, <2>4
  <2> QED BY <2>5
<1> QED BY <1>3, <1>4, <1>5

\* ... and the level it names is the one it brings, unless that is an older one.
LEMMA MergePyAtKey ==
  ASSUME NEW g, IsGraph(g), NEW e, IsTopology(e)
  PROVE  /\ e.key \notin DOMAIN g =>
              /\ MergePy(g, e)[e.key].version = e.version
              /\ DOMAIN MergePy(g, e)[e.key].st = DOMAIN e.st
         /\ e.key \in DOMAIN g /\ e.version # 0 /\ g[e.key].version # 0 =>
              /\ e.version < g[e.key].version => MergePy(g, e) = g
              /\ ~(e.version < g[e.key].version) =>
                   /\ MergePy(g, e)[e.key].version = e.version
                   /\ DOMAIN MergePy(g, e)[e.key].st
                        = IF e.append THEN DOMAIN g[e.key].st \cup DOMAIN e.st ELSE DOMAIN e.st
<1>1. e.version \in Nat /\ IsLevel(e.key, e.st)
  BY DEF IsTopology
<1>2. ASSUME NEW st, NEW v \in Nat, IsLevel(e.key, st),
             MergePy(g, e) = SetLevel(g, e.key, Level(st, v))
      PROVE  MergePy(g, e)[e.key].version = v /\ MergePy(g, e)[e.key].st = st
  <2>1. MergePy(g, e)[e.key] = Level(st, v)
    BY <1>2 DEF SetLevel
  <2> QED BY <2>1 DEF Level
<1>3. CASE e.key \notin DOMAIN g
  <2>1. MergePy(g, e) = SetLevel(g, e.key, Level(e.st, e.version))
    BY <1>3 DEF MergePy
  <2> QED BY <1>1, <1>2, <1>3, <2>1
<1>4. CASE e.key \in DOMAIN g /\ e.version # 0 /\ ~(e.version < g[e.key].version)
  <2> DEFINE st == Merged(g[e.key].st, e)
  <2>1. MergePy(g, e) = SetLevel(g, e.key, Level(st, e.version))
    BY <1>4 DEF MergePy
  <2>2. IsLevel(e.key, st)
    BY <1>4, MergedIsLevel DEF IsGraph
  <2>3. DOMAIN st = IF e.append THEN DOMAIN g[e.key].st \cup DOMAIN e.st ELSE DOMAIN e.st
    BY DEF Merged, Carry, Added
  <2> HIDE DEF st
  <2> QED BY <1>1, <1>2, <1>4, <2>1, <2>2, <2>3
<1>5. CASE e.key \in DOMAIN g /\ g[e.key].version # 0 /\ e.version < g[e.key].version
  BY <1>5 DEF MergePy
<1>6. CASE e.key \in DOMAIN g /\ (e.version = 0 \/ g[e.key].version = 0)
  BY <1>6
<1> QED BY <1>3, <1>4, <1>5, <1>6

\* The levels of the tree are two keys.
LEMMA KeysDiffer == Root # Box
BY NodesAreSomewhere

\* send_graph_event, whatever it sends: what the invariant says of the rest of the state.
LEMMA EmitKeeps ==
  ASSUME IInv, phase = "running", NEW e, IsEvent(e), Emit(e)
  PROVE  /\ (Away /\ Blank /\ Underway /\ Searching /\ Marked)'
         /\ EndedGraphSurvives' /\ DeletedStaysDeleted'
         /\ IsGraph(mem.g) /\ mem'.has /\ phase' = "running" /\ session' = session
         /\ IsTopology(e) => mem'.g = MergePy(mem.g, e)
         /\ ~IsTopology(e) => mem'.g = Stamp(mem.g, News(e))
<1> DEFINE m == [mem EXCEPT !.has = TRUE]
<1>1. /\ TypeOK /\ Away /\ Blank /\ Underway /\ Searching /\ Marked /\ EndedGraphSurvives
      /\ DeletedStaysDeleted
  BY DEF IInv
<1>2. /\ mem' = Applied(m, e) /\ mem'.has /\ IsSnapshot(m)
      /\ m = [has |-> TRUE, g |-> mem.g, rec |-> mem.rec, term |-> mem.term]
  BY <1>1, EmitTypes
<1>3. m.has /\ m.g = mem.g /\ m.term = mem.term
  BY <1>2
<1> HIDE DEF m
<1>4. /\ mem'.term = mem.term
      /\ IsTopology(e) => mem'.g = MergePy(mem.g, e)
      /\ ~IsTopology(e) => mem'.g = Stamp(mem.g, News(e))
  BY <1>2, <1>3, AppliedIsSnapshot
<1>5. UNCHANGED <<phase, disk, session, chip, sock, home, load, page, conns, restarts>>
      /\ replay' = Linked(e) /\ Send(e)
  BY DEF Emit
<1>6. ToSet(wire') \subseteq ToSet(wire) \cup {e} /\ (~sock => wire' = wire)
  BY <1>1, <1>5, SentFrames DEF TypeOK, LinkOK
<1>7. replay = <<>> => replay' = <<>>
  BY <1>1, <1>5, LinkedIsReplay DEF TypeOK, LinkOK
<1>8. ~mem.term /\ Early /\ Early'
  BY <1>1, <1>5 DEF Marked, Early
<1>9. Away'
  BY <1>1, <1>5, <1>6, <1>7 DEF Away, page
<1>10. Blank'
  BY <1>2 DEF Blank
<1>11. Underway'
  <2>1. e.kind \notin {"ended", "init"}
    BY DEF IsEvent, IsTopology, IsStatus, IsReconcile
  <2> QED BY <1>1, <1>5, <1>6, <1>8, <2>1 DEF Underway, page
<1>12. Searching'
  BY <1>1, <1>2, <1>5, <1>8 DEF Searching
<1>13. Marked'
  BY <1>4, <1>8 DEF Marked
<1>14. EndedGraphSurvives' /\ DeletedStaysDeleted'
  BY <1>1, <1>5 DEF EndedGraphSurvives, DeletedStaysDeleted
<1> QED BY <1>1, <1>2, <1>4, <1>5, <1>9, <1>10, <1>11, <1>12, <1>13, <1>14
      DEF TypeOK, StoreOK, IsSnapshot

-----------------------------------------------------------------------------
(* The invariant.                                                          *)

Rest == /\ Away /\ Blank /\ Underway /\ Searching /\ Marked /\ Mirrored /\ Newest
        /\ EndedGraphSurvives /\ DeletedStaysDeleted

\* Every node of the mirror is one of the run's, at the status the run last reported or
\* at the one it came with.
Faithful(g, statuses) ==
  \A k \in DOMAIN g : \A n \in DOMAIN g[k].st :
    n \in Nodes /\ g[k].st[n] \in {"pending", statuses[n]}

\* A topology the run reports brings nodes of the run, pending.
LEMMA TopologyIsFaithful ==
  ASSUME NEW g, IsGraph(g), Faithful(g, real), NEW k, NEW nodes, nodes \subseteq Nodes, NEW v,
         NEW append, IsTopology(Topology(k, Pending(nodes), v, append))
  PROVE  Faithful(MergePy(g, Topology(k, Pending(nodes), v, append)), real)
<1> DEFINE e == Topology(k, Pending(nodes), v, append)  h == MergePy(g, e)
<1>1. ASSUME NEW j \in DOMAIN h, NEW n \in DOMAIN h[j].st
      PROVE  n \in Nodes /\ h[j].st[n] \in {"pending", real[n]}
  <2>1. \/ j \in DOMAIN g /\ n \in DOMAIN g[j].st /\ h[j].st[n] = g[j].st[n]
        \/ n \in DOMAIN e.st /\ h[j].st[n] = e.st[n]
    <3> HIDE DEF e
    <3> QED BY MergePyKeeps DEF e
  <2>2. e.st = [m \in nodes |-> "pending"]
    BY DEF Topology, Pending
  <2> HIDE DEF e, h
  <2>3. CASE j \in DOMAIN g /\ n \in DOMAIN g[j].st /\ h[j].st[n] = g[j].st[n]
    BY <2>3 DEF Faithful
  <2>4. CASE n \in DOMAIN e.st /\ h[j].st[n] = e.st[n]
    BY <2>2, <2>4
  <2> QED BY <2>1, <2>3, <2>4
<1> HIDE DEF h
<1>2. Faithful(h, real)
  BY <1>1 DEF Faithful
<1> QED BY <1>2 DEF h

\* So does a status, or all of them.
LEMMA StampIsFaithful ==
  ASSUME NEW g, IsGraph(g), Faithful(g, real), NEW known, IsNews(known), NEW statuses,
         \A n \in Nodes : IF n \in DOMAIN known THEN statuses[n] = known[n]
                                                 ELSE statuses[n] = real[n]
  PROVE  Faithful(Stamp(g, known), statuses)
<1> DEFINE h == Stamp(g, known)
<1>1. /\ DOMAIN h = DOMAIN g
      /\ \A k \in DOMAIN g : h[k].st = StampLevel(g[k].st, known)
  BY StampIsGraph
<1> HIDE DEF h
<1>2. ASSUME NEW k \in DOMAIN h, NEW n \in DOMAIN h[k].st
      PROVE  n \in Nodes /\ h[k].st[n] \in {"pending", statuses[n]}
  <2>1. k \in DOMAIN g /\ n \in DOMAIN g[k].st
        /\ h[k].st[n] = IF n \in DOMAIN known THEN known[n] ELSE g[k].st[n]
    BY <1>1, <1>2 DEF StampLevel
  <2>2. n \in Nodes /\ g[k].st[n] \in {"pending", real[n]}
    BY <2>1 DEF Faithful
  <2> QED BY <2>1, <2>2
<1>3. Faithful(h, statuses)
  BY <1>2 DEF Faithful
<1> QED BY <1>3 DEF h

\* onGraphTopology of the root level.
LEMMA ReportRootInv ==
  ASSUME IInv, ReportRoot
  PROVE  Rest'
<1> DEFINE e == Topology(Root, Pending({Box}), 0, FALSE)
<1>1. IInv /\ TypeOK /\ Mirrored /\ Newest
  BY DEF IInv
<1>2. IsEvent(e) /\ IsTopology(e) /\ Emit(e) /\ phase = "running" /\ e.key = Root
  BY ReportsAreEvents DEF IsEvent, ReportRoot, MayReport, Topology
<1>3. roots' = roots + 1 /\ roots \in Nat /\ stages' = stages /\ real' = real
  BY <1>1 DEF ReportRoot, TypeOK, RunOK
<1>4. Faithful(mem.g, real)
  BY <1>1, <1>2 DEF Mirrored, Early, Faithful
<1>5. /\ (Away /\ Blank /\ Underway /\ Searching /\ Marked)'
      /\ EndedGraphSurvives' /\ DeletedStaysDeleted'
      /\ IsGraph(mem.g) /\ mem'.has /\ phase' = "running" /\ session' = session
      /\ mem'.g = MergePy(mem.g, e)
  <2> HIDE DEF e
  <2> QED BY <1>1, <1>2, EmitKeeps
<1>6. Faithful(mem'.g, real)
  BY <1>2, <1>4, <1>5, TopologyIsFaithful DEF Nodes
<1> HIDE DEF e
<1>7. /\ DOMAIN mem'.g = DOMAIN mem.g \cup {Root}
      /\ \A k \in DOMAIN mem.g \ {Root} : mem'.g[k] = mem.g[k]
  <2>1. /\ DOMAIN MergePy(mem.g, e) = DOMAIN mem.g \cup {e.key}
        /\ \A k \in DOMAIN mem.g \ {e.key} : MergePy(mem.g, e)[k] = mem.g[k]
    <3> DEFINE g == mem.g
    <3>1. IsGraph(g)
      BY <1>5
    <3> HIDE DEF g
    <3> QED BY <1>2, <3>1, MergePyIsGraph, MergePyKeeps DEF g
  <2> QED BY <1>2, <1>5, <2>1
<1>8. Mirrored'
  BY <1>3, <1>5, <1>6, <1>7 DEF Mirrored, Early, Faithful
<1>9. Newest'
  <2>1. Box \in DOMAIN mem'.g <=> Box \in DOMAIN mem.g
    BY <1>7, KeysDiffer
  <2>2. Box \in DOMAIN mem.g => mem'.g[Box] = mem.g[Box]
    BY <1>7, KeysDiffer
  <2> QED BY <1>1, <1>2, <1>3, <1>5, <2>1, <2>2 DEF Newest, Early
<1> QED BY <1>5, <1>8, <1>9 DEF Rest

\* A topology of the inner level, in whatever order its two come.
LEMMA ReportStageInv ==
  ASSUME IInv, NEW s \in {1, 2}, NEW append \in BOOLEAN, ReportStage(s, append)
  PROVE  Rest'
<1> DEFINE nodes == IF append THEN Stage(2) \ Stage(1) ELSE Stage(s)
           e == Topology(Box, Pending(nodes), s, append)
<1>1. IInv /\ TypeOK /\ Mirrored /\ Newest
  BY DEF IInv
<1>2. nodes \in SUBSET Kids /\ nodes \subseteq Nodes
  BY NodesAreSomewhere DEF Nodes
<1>3. /\ IsEvent(e) /\ IsTopology(e) /\ Emit(e) /\ phase = "running"
      /\ e.key = Box /\ e.version = s /\ e.append = append /\ DOMAIN e.st = nodes
  <2>1. IsTopology(e) /\ IsEvent(e)
    BY <1>2, ReportsAreEvents DEF IsEvent
  <2> QED BY <2>1 DEF ReportStage, MayReport, Topology, Pending
<1>4. /\ roots > 0 /\ s \notin stages /\ (append => s = 2 /\ 1 \in stages)
      /\ stages' = stages \cup {s} /\ roots' = roots /\ real' = real
      /\ roots \in Nat /\ stages \subseteq {1, 2}
  BY <1>1 DEF ReportStage, TypeOK, RunOK
<1>5. Faithful(mem.g, real)
  BY <1>1, <1>3 DEF Mirrored, Early, Faithful
<1>6. /\ (Away /\ Blank /\ Underway /\ Searching /\ Marked)'
      /\ EndedGraphSurvives' /\ DeletedStaysDeleted'
      /\ IsGraph(mem.g) /\ mem'.has /\ phase' = "running" /\ session' = session
      /\ mem'.g = MergePy(mem.g, e)
  <2> HIDE DEF e
  <2> QED BY <1>1, <1>3, EmitKeeps
<1>7. Faithful(mem'.g, real)
  <2> HIDE DEF nodes
  <2> QED BY <1>2, <1>3, <1>5, <1>6, TopologyIsFaithful
<1> HIDE DEF e
<1>8. DOMAIN mem'.g = DOMAIN mem.g \cup {Box}
  BY <1>3, <1>6, MergePyIsGraph
<1>9. Mirrored'
  BY <1>1, <1>3, <1>4, <1>6, <1>7, <1>8 DEF Mirrored, Early, Faithful
<1> DEFINE m == mem'.g
<1>10. /\ e.key \notin DOMAIN mem.g =>
            m[e.key].version = e.version /\ DOMAIN m[e.key].st = DOMAIN e.st
       /\ e.key \in DOMAIN mem.g /\ e.version # 0 /\ mem.g[e.key].version # 0 =>
            /\ e.version < mem.g[e.key].version => m = mem.g
            /\ ~(e.version < mem.g[e.key].version) =>
                 /\ m[e.key].version = e.version
                 /\ DOMAIN m[e.key].st
                      = IF e.append THEN DOMAIN mem.g[e.key].st \cup DOMAIN e.st ELSE DOMAIN e.st
  <2> DEFINE g == mem.g
  <2>1. m = MergePy(g, e) /\ IsGraph(g)
    BY <1>6
  <2> HIDE DEF g, m
  <2> QED BY <1>3, <2>1, MergePyAtKey DEF g
<1> HIDE DEF nodes, m
<1>11. /\ Box \notin DOMAIN mem.g => m[Box].version = s /\ DOMAIN m[Box].st = nodes
       /\ Box \in DOMAIN mem.g /\ mem.g[Box].version # 0 =>
            /\ s < mem.g[Box].version => m = mem.g
            /\ ~(s < mem.g[Box].version) =>
                 /\ m[Box].version = s
                 /\ DOMAIN m[Box].st
                      = IF append THEN DOMAIN mem.g[Box].st \cup nodes ELSE nodes
  BY <1>3, <1>10
<1> USE DEF nodes, m
<1>12. Stage(1) \subseteq Kids /\ Stage(2) = Kids
  BY NodesAreSomewhere DEF Stage
<1>13. Newest'
  <2>1. SUFFICES ASSUME session
                 PROVE  IF 2 \in stages' THEN m[Box].version = 2 /\ DOMAIN m[Box].st = Kids
                        ELSE m[Box].version = 1 /\ DOMAIN m[Box].st = Stage(1)
    BY <1>4, <1>6, <1>8, <2>1 DEF Newest, Early
  <2> HIDE DEF m
  <2>2. CASE stages = {}
    <3>1. Box \notin DOMAIN mem.g /\ ~append
      BY <1>1, <1>3, <1>4, <2>1, <2>2 DEF Newest, Early
    <3> QED BY <1>4, <1>11, <1>12, <2>2, <3>1
  <2>3. CASE stages # {}
    <3>1. /\ Box \in DOMAIN mem.g
          /\ IF 2 \in stages THEN mem.g[Box].version = 2 /\ DOMAIN mem.g[Box].st = Kids
                              ELSE mem.g[Box].version = 1 /\ DOMAIN mem.g[Box].st = Stage(1)
      BY <1>1, <1>3, <2>1, <2>3 DEF Newest
    <3>2. CASE stages = {2} /\ s = 1
      <4>1. m = mem.g
        BY <1>11, <3>1, <3>2
      <4> QED BY <1>4, <3>1, <3>2, <4>1
    <3>3. CASE stages = {1} /\ s = 2
      <4>1. m[Box].version = 2
            /\ DOMAIN m[Box].st = IF append THEN DOMAIN mem.g[Box].st \cup nodes ELSE nodes
        BY <1>11, <3>1, <3>3
      <4>2. DOMAIN mem.g[Box].st = Stage(1)
        BY <3>1, <3>3
      <4> QED BY <1>4, <1>12, <3>3, <4>1, <4>2
    <3> QED BY <1>4, <2>3, <3>2, <3>3
  <2> QED BY <2>2, <2>3
<1> QED BY <1>6, <1>9, <1>13 DEF Rest

\* A stamp leaves every level its nodes and its version.
LEMMA StampedInv ==
  ASSUME IInv, phase = "running", NEW e, ~IsTopology(e), IsEvent(e), Emit(e),
         roots' = roots, stages' = stages,
         \A n \in Nodes : IF n \in DOMAIN News(e) THEN real'[n] = News(e)[n]
                                                   ELSE real'[n] = real[n]
  PROVE  Rest'
<1>1. IInv /\ TypeOK /\ Mirrored /\ Newest
  BY DEF IInv
<1>2. IsNews(News(e))
  BY EventIsNews DEF IsEvent
<1>3. Faithful(mem.g, real)
  BY <1>1 DEF Mirrored, Early, Faithful
<1>4. /\ (Away /\ Blank /\ Underway /\ Searching /\ Marked)'
      /\ EndedGraphSurvives' /\ DeletedStaysDeleted'
      /\ IsGraph(mem.g) /\ mem'.has /\ phase' = "running" /\ session' = session
      /\ mem'.g = Stamp(mem.g, News(e))
  BY <1>1, EmitKeeps
<1>5. Faithful(mem'.g, real')
  BY <1>2, <1>3, <1>4, StampIsFaithful
<1>6. /\ DOMAIN mem'.g = DOMAIN mem.g
      /\ \A k \in DOMAIN mem.g : /\ mem'.g[k].version = mem.g[k].version
                                 /\ DOMAIN mem'.g[k].st = DOMAIN mem.g[k].st
  BY <1>2, <1>4, StampIsGraph
<1>7. Mirrored'
  BY <1>1, <1>4, <1>5, <1>6 DEF Mirrored, Early, Faithful
<1>8. Newest'
  BY <1>1, <1>4, <1>6 DEF Newest, Early
<1> QED BY <1>4, <1>7, <1>8 DEF Rest

\* onNodeStatus, and the final statuses.
LEMMA ReportStatusInv ==
  ASSUME IInv, ReportReconcile \/ \E n \in Reporting : ReportStatus(n)
  PROVE  Rest'
<1>1. IInv /\ RunOK
  BY DEF IInv, TypeOK
<1>2. CASE ReportReconcile
  <2> DEFINE st == [n \in Nodes |-> "completed"]  e == Reconcile(st)
  <2>1. IsEvent(e) /\ Emit(e) /\ phase = "running"
    BY <1>2, ReportsAreEvents DEF IsEvent, ReportReconcile, MayReport
  <2>2. ~IsTopology(e) /\ News(e) = st
    BY DEF IsTopology, Reconcile, News
  <2>3. roots' = roots /\ stages' = stages /\ real' = st
    BY <1>2 DEF ReportReconcile
  <2>4. \A n \in Nodes : IF n \in DOMAIN News(e) THEN real'[n] = News(e)[n]
                                                  ELSE real'[n] = real[n]
    BY <2>2, <2>3
  <2> HIDE DEF e
  <2> QED BY <1>1, <2>1, <2>2, <2>3, <2>4, StampedInv
<1>3. ASSUME NEW n \in Reporting, ReportStatus(n) PROVE Rest'
  <2> DEFINE s == IF real[n] = "none" THEN "running" ELSE "completed"
             e == NodeStatus(n, s)
  <2>1. s \in Statuses
    BY DEF Statuses
  <2>2. IsEvent(e) /\ Emit(e) /\ phase = "running" /\ real' = [real EXCEPT ![n] = s]
    BY <1>3, <2>1, ReportsAreEvents DEF IsEvent, ReportStatus, MayReport
  <2> HIDE DEF s
  <2>3. ~IsTopology(e) /\ News(e) = [m \in {n} |-> s]
    BY DEF IsTopology, NodeStatus, News
  <2>4. roots' = roots /\ stages' = stages
    BY <1>3 DEF ReportStatus
  <2>5. \A m \in Nodes : IF m \in DOMAIN News(e) THEN real'[m] = News(e)[m]
                                                  ELSE real'[m] = real[m]
    BY <1>1, <2>2, <2>3 DEF RunOK
  <2> HIDE DEF e
  <2> QED BY <1>1, <2>2, <2>3, <2>4, <2>5, StampedInv
<1> QED BY <1>2, <1>3

\* The task starts, ends, and its file is written.
LEMMA TaskInv ==
  ASSUME IInv, Start \/ Finish \/ Persist
  PROVE  Rest'
<1>1. TypeOK /\ Rest /\ roots \in Nat /\ IsSeq(wire) /\ IsSnapshot(mem)
  BY DEF IInv, Rest, TypeOK, RunOK, LinkOK, StoreOK
<1> USE <1>1
<1>2. CASE Start
  <2>1. /\ phase = "idle" /\ phase' = "running" /\ sock /\ session /\ replay = <<>>
        /\ chip' = "starting" /\ wire' = Append(wire, [kind |-> "starting"])
        /\ UNCHANGED <<settled, roots, stages, real, mem, disk, session, sock, replay, load,
                       ui, conns, restarts>>
    BY <1>2 DEF Start, page
  <2>2. ToSet(wire') = ToSet(wire) \cup {[kind |-> "starting"]}
    BY <2>1, SeqAppend
  <2>3. Away' /\ Blank' /\ Underway'
    BY <2>1, <2>2 DEF Rest, Away, Blank, Underway, Early
  <2>4. Searching' /\ Marked'
    BY <2>1 DEF Rest, Searching, Marked, Early
  <2>5. roots = 0 /\ stages = {}
    BY <2>1 DEF Rest, Mirrored
  <2>6. Mirrored' /\ Newest'
    BY <2>1, <2>5 DEF Rest, Mirrored, Newest, Early
  <2>7. EndedGraphSurvives' /\ DeletedStaysDeleted'
    BY <2>1 DEF Rest, EndedGraphSurvives, DeletedStaysDeleted
  <2> QED BY <2>3, <2>4, <2>6, <2>7 DEF Rest
<1>3. CASE Finish
  <2>1. /\ phase = "running" /\ phase' = "ending" /\ (~sock => wire' = wire)
        /\ UNCHANGED <<settled, roots, stages, real, mem, disk, session, chip, sock, replay,
                       load, ui>>
    BY <1>3 DEF Finish, Send, store, page
  <2>2. Away' /\ Blank' /\ Underway' /\ Searching' /\ Marked'
    BY <2>1 DEF Rest, Away, Blank, Underway, Searching, Marked, Early
  <2>3. Mirrored' /\ Newest'
    BY <2>1 DEF Rest, Mirrored, Newest, Early
  <2>4. EndedGraphSurvives' /\ DeletedStaysDeleted'
    BY <2>1 DEF Rest, EndedGraphSurvives, DeletedStaysDeleted
  <2> QED BY <2>2, <2>3, <2>4 DEF Rest
<1>4. CASE Persist
  <2>1. /\ phase = "ending" /\ phase' = "ended"
        /\ mem' = [mem EXCEPT !.term = mem.has]
        /\ disk' = IF mem.has /\ session THEN Persisted(mem) ELSE disk
        /\ UNCHANGED <<settled, roots, stages, real, session, sock, wire, replay, load, ui>>
    BY <1>4 DEF Persist, link, page
  <2>2. /\ mem'.has = mem.has /\ mem'.g = mem.g /\ mem'.rec = mem.rec /\ mem'.term = mem.has
        /\ Persisted(mem).has = mem.has /\ Persisted(mem).g = mem.g
        /\ Persisted(mem).rec = mem.rec
    BY <2>1, MarkedSnapshot DEF Persisted, IsSnapshot
  <2>3. Away' /\ Blank' /\ Underway' /\ Searching' /\ Marked'
    BY <2>1, <2>2 DEF Rest, Away, Blank, Underway, Searching, Marked, Early
  <2>4. session /\ roots > 0 => mem.has /\ Root \in DOMAIN mem.g /\ disk' = Persisted(mem)
    BY <2>1 DEF Rest, Mirrored
  <2>5. stages # {} => roots > 0
    BY DEF Rest, Mirrored
  <2>6. Mirrored'
    BY <2>1, <2>5 DEF Mirrored, Early
  <2>7. Newest'
    BY <2>1, <2>2, <2>4, <2>5 DEF Rest, Newest, Early
  <2>8. EndedGraphSurvives' /\ DeletedStaysDeleted'
    BY <2>1, <2>2, <2>4 DEF Rest, EndedGraphSurvives, DeletedStaysDeleted
  <2> QED BY <2>3, <2>6, <2>7, <2>8 DEF Rest
<1> QED BY <1>2, <1>3, <1>4

\* A connection, with the pruning of what has outlived its time.
LEMMA ConnectInv ==
  ASSUME IInv, NEW reload \in BOOLEAN, Connect(reload)
  PROVE  Rest'
<1>1. TypeOK /\ Rest /\ IsSnapshot(mem)
  BY DEF IInv, Rest, TypeOK, StoreOK
<1> USE <1>1
<1>2. PICK expired \in BOOLEAN : /\ mem' = Pruned(expired)
                                 /\ replay' = ToReplay(Pruned(expired))
  BY DEF Connect
<1>3. /\ ~sock /\ session /\ sock' = TRUE /\ load' = "none" /\ chip' = Healed
      /\ wire' = <<[kind |-> "init", status |-> Healed]>>
      /\ ui' = Page("none") \/ ui' = ui
      /\ UNCHANGED <<phase, settled, roots, stages, real, disk, session, restarts>>
  BY DEF Connect, run, page
<1>4. ui' = Page("none")
  BY <1>3 DEF Rest, Away
<1>5. ToSet(wire') = {[kind |-> "init", status |-> Healed]}
  BY <1>3, ShortSeqs
<1>6. Early => mem' = mem
  BY <1>2 DEF Rest, Marked, Pruned
<1>7. mem' = mem \/ (mem.term /\ mem' = NoSnapshot)
  BY <1>2 DEF Pruned
<1>8. Away'
  BY <1>3 DEF Away
<1>9. Blank'
  <2> SUFFICES ASSUME Early', ~mem'.has
               PROVE  /\ session' => roots' = 0 /\ stages' = {}
                      /\ sock' => /\ Root \notin DOMAIN ui'.g /\ replay' = <<>>
                                  /\ \A e \in ToSet(wire') : e.kind # "topology"
    BY DEF Blank
  <2>1. Early /\ mem' = mem /\ ~mem.has
    BY <1>3, <1>6 DEF Early
  <2>2. replay' = <<>>
    BY <1>2, <2>1, ToReplayIsReplay
  <2>3. Root \notin DOMAIN ui'.g
    BY <1>4 DEF Page, NoGraph
  <2> QED BY <1>3, <1>5, <2>1, <2>2, <2>3 DEF Rest, Blank
<1>10. Underway'
  <2> SUFFICES ASSUME Early'
               PROVE  /\ chip' \in {"none", "starting"} /\ ui'.status \in {"none", "starting"}
                      /\ \A e \in ToSet(wire') :
                           /\ e.kind # "ended"
                           /\ e.kind = "init" => e.status \in {"none", "starting"}
    BY DEF Underway
  <2>1. Early /\ Healed = chip /\ chip \in {"none", "starting"}
    BY <1>3 DEF Early, Healed, Rest, Underway
  <2> QED BY <1>3, <1>4, <1>5, <2>1 DEF Page
<1>11. ~NoSnapshot.has /\ ~NoSnapshot.term /\ DOMAIN NoSnapshot.g = {}
  BY NoSnapshotIsOne
<1>12. Searching' /\ Marked'
  BY <1>3, <1>6, <1>7, <1>11 DEF Rest, Searching, Marked, Early
<1>13. phase = "ending" /\ roots > 0 => mem' = mem
  BY <1>7 DEF Rest, Marked, TypeOK, RunOK
<1>14. stages # {} => roots > 0
  BY DEF Rest, Mirrored
<1>15. phase = "running" => mem' = mem
  BY <1>6 DEF Early
<1>16. Mirrored'
  BY <1>3, <1>6, <1>13, <1>15 DEF Rest, Mirrored, Early
<1>17. Newest'
  BY <1>3, <1>6, <1>13, <1>14, <1>15 DEF Rest, Newest, Early
<1>18. EndedGraphSurvives' /\ DeletedStaysDeleted'
  BY <1>3, <1>7, <1>11 DEF Rest, EndedGraphSurvives, DeletedStaysDeleted
<1> QED BY <1>8, <1>9, <1>10, <1>12, <1>16, <1>17, <1>18 DEF Rest

\* The connection is lost, the server restarts, the session is deleted.
LEMMA LossInv ==
  ASSUME IInv, Disconnect \/ Restart \/ Delete
  PROVE  Rest'
<1>1. TypeOK /\ Rest
  BY DEF IInv, Rest
<1> USE <1>1
<1>2. /\ ~NoSnapshot.has /\ ~NoSnapshot.term /\ DOMAIN NoSnapshot.g = {}
      /\ Page("none").status = "none" /\ ToSet(<<>>) = {}
  BY NoSnapshotIsOne, ShortSeqs DEF Page
<1>3. CASE Disconnect
  <2>1. /\ sock' = FALSE /\ wire' = <<>> /\ replay' = <<>> /\ load' = "none"
        /\ ui' = Page("none")
        /\ UNCHANGED <<phase, settled, roots, stages, real, mem, disk, session, chip>>
    BY <1>3 DEF Disconnect, run, store
  <2>2. Away' /\ Blank' /\ Underway' /\ Searching' /\ Marked'
    BY <1>2, <2>1 DEF Rest, Away, Blank, Underway, Searching, Marked, Early
  <2>3. Mirrored' /\ Newest' /\ EndedGraphSurvives' /\ DeletedStaysDeleted'
    BY <2>1 DEF Rest, Mirrored, Newest, EndedGraphSurvives, DeletedStaysDeleted, Early
  <2> QED BY <2>2, <2>3 DEF Rest
<1>4. CASE Restart
  <2>1. /\ phase # "idle" /\ mem' = NoSnapshot
        /\ phase' = IF phase \in {"running", "ending"} THEN "dead" ELSE phase
        /\ sock' = FALSE /\ wire' = <<>> /\ replay' = <<>> /\ load' = "none"
        /\ ui' = Page("none")
        /\ UNCHANGED <<settled, roots, stages, real, disk, session, chip>>
    BY <1>4 DEF Restart
  <2>2. phase' \notin {"idle", "running", "ending"} /\ (phase' = "ended" <=> phase = "ended")
    BY <2>1
  <2>3. Away' /\ Blank' /\ Underway' /\ Searching' /\ Marked'
    BY <1>2, <2>1, <2>2 DEF Away, Blank, Underway, Searching, Marked, Early
  <2>4. Mirrored' /\ Newest' /\ EndedGraphSurvives' /\ DeletedStaysDeleted'
    BY <1>2, <2>1, <2>2
      DEF Rest, Mirrored, Newest, EndedGraphSurvives, DeletedStaysDeleted, Early
  <2> QED BY <2>3, <2>4 DEF Rest
<1>5. CASE Delete
  <2>1. /\ ~sock /\ session' = FALSE /\ disk' = NoSnapshot /\ mem' = NoSnapshot
        /\ UNCHANGED <<phase, settled, roots, stages, real, chip, sock, wire, replay, load, ui>>
    BY <1>5 DEF Delete, run, link, page
  <2>2. Away' /\ Blank' /\ Underway' /\ Searching' /\ Marked'
    BY <1>2, <2>1 DEF Rest, Away, Blank, Underway, Searching, Marked, Early
  <2>3. Mirrored' /\ Newest' /\ EndedGraphSurvives' /\ DeletedStaysDeleted'
    BY <1>2, <2>1 DEF Rest, Mirrored, Newest, EndedGraphSurvives, DeletedStaysDeleted, Early
  <2> QED BY <2>2, <2>3 DEF Rest
<1> QED BY <1>3, <1>4, <1>5

\* The replay, and the search for a graph to replay.
LEMMA ReplayInv ==
  ASSUME IInv, SendReplay \/ Lookup \/ Load
  PROVE  Rest'
<1>1. TypeOK /\ Rest /\ IsSeq(wire) /\ IsSeq(replay) /\ IsSnapshot(disk)
      /\ \A r \in ToSet(replay) : IsReplayed(r)
  BY DEF IInv, Rest, TypeOK, LinkOK, StoreOK
<1> USE <1>1
<1>2. CASE SendReplay
  <2>1. /\ sock /\ replay # <<>>
        /\ wire' = Append(wire, Head(replay)) /\ replay' = Tail(replay)
        /\ UNCHANGED <<phase, settled, roots, stages, real, mem, disk, session, chip, sock,
                       load, ui>>
    BY <1>2 DEF SendReplay, run, store, page
  <2>2. Head(replay) \in ToSet(replay) /\ ToSet(wire') = ToSet(wire) \cup {Head(replay)}
    BY <2>1, SeqTail, SeqAppend
  <2>3. Head(replay).kind \in {"topology", "reconcile"}
    BY <2>2 DEF IsReplayed, IsReconcile
  <2>4. Away' /\ Blank' /\ Underway'
    BY <2>1, <2>2, <2>3 DEF Rest, Away, Blank, Underway, Early
  <2>5. Searching' /\ Marked' /\ Mirrored' /\ Newest' /\ EndedGraphSurvives'
        /\ DeletedStaysDeleted'
    BY <2>1 DEF Rest, Searching, Marked, Mirrored, Newest, EndedGraphSurvives,
                DeletedStaysDeleted, Early
  <2> QED BY <2>4, <2>5 DEF Rest
<1>3. CASE Lookup
  <2>1. /\ sock /\ load = "asked"
        /\ IF mem.has THEN load' = "none" ELSE load' = "thread" /\ replay' = replay
        /\ UNCHANGED <<phase, settled, roots, stages, real, mem, disk, session, chip, sock,
                       wire, ui>>
    BY <1>3 DEF Lookup, run, store, page
  <2>2. Early => mem.has
    BY <2>1 DEF Rest, Searching
  <2>3. Away' /\ Blank' /\ Underway'
    BY <2>1, <2>2 DEF Rest, Away, Blank, Underway, Early
  <2>4. Searching'
    BY <2>1, <2>2 DEF Searching, Early
  <2>5. Marked' /\ Mirrored' /\ Newest' /\ EndedGraphSurvives' /\ DeletedStaysDeleted'
    BY <2>1 DEF Rest, Marked, Mirrored, Newest, EndedGraphSurvives, DeletedStaysDeleted, Early
  <2> QED BY <2>3, <2>4, <2>5 DEF Rest
<1>4. CASE Load
  <2>1. PICK w \in Workspaces :
          mem' = IF Found(w).has THEN [Found(w) EXCEPT !.term = TRUE] ELSE mem
    BY <1>4 DEF Load
  <2>2. /\ load = "thread" /\ load' = "none"
        /\ UNCHANGED <<phase, settled, roots, stages, real, disk, session, chip, sock, wire, ui>>
    BY <1>4 DEF Load, run, page
  <2>3. ~mem.has /\ ~Early /\ sock
    BY <2>2 DEF Rest, Searching, Away
  <2> DEFINE found == Found(w)
  <2>4. IsSnapshot(found)
    BY FoundIsSnapshot
  <2>5. found.has => /\ mem'.has /\ mem'.g = found.g /\ mem'.rec = found.rec /\ mem'.term
    <3>1. \A b \in BOOLEAN : found.has \/ ~b => [found EXCEPT !.term = b].has = found.has
          /\ [found EXCEPT !.term = b].g = found.g /\ [found EXCEPT !.term = b].rec = found.rec
          /\ [found EXCEPT !.term = b].term = b
      <4> HIDE DEF found
      <4> QED BY <2>4, MarkedSnapshot
    <3> HIDE DEF found
    <3> QED BY <2>1, <3>1 DEF found
  <2>6. ~found.has => mem' = mem
    BY <2>1
  <2>7. found.has => disk.has \/ session
    BY NoSnapshotIsOne DEF Found
  <2>8. disk.has => found = disk
    BY DEF Found
  <2> HIDE DEF found
  <2>9. session /\ roots > 0 => phase # "ending"
    BY <2>3 DEF Rest, Mirrored
  <2>10. ~mem.term
    BY <2>3 DEF Rest, Marked
  <2>11. Away' /\ Blank' /\ Underway' /\ Searching'
    BY <2>2, <2>3 DEF Away, Blank, Underway, Searching, Early
  <2>12. Marked'
    <3>1. ~session => ~found.has
      BY <2>7 DEF Rest, DeletedStaysDeleted
    <3>2. roots \in Nat
      BY DEF TypeOK, RunOK
    <3>3. found.has => session /\ (phase = "ending" => roots = 0)
      BY <2>9, <3>1, <3>2
    <3> QED BY <2>2, <2>3, <2>5, <2>6, <2>10, <3>3 DEF Marked, Early
  <2>13. phase # "running" /\ phase # "idle"
    BY <2>3 DEF Early
  <2>14. stages # {} => roots > 0
    BY DEF Rest, Mirrored
  <2>15. Mirrored' /\ Newest'
    BY <2>2, <2>3, <2>9, <2>13, <2>14 DEF Rest, Mirrored, Newest, Early
  <2>16. EndedGraphSurvives'
    BY <2>2, <2>5, <2>8 DEF Rest, EndedGraphSurvives
  <2>17. DeletedStaysDeleted'
    BY <2>2 DEF Rest, DeletedStaysDeleted
  <2> QED BY <2>11, <2>12, <2>15, <2>16, <2>17 DEF Rest
<1> QED BY <1>2, <1>3, <1>4

\* The page's steps.
LEMMA PageInv ==
  ASSUME IInv, Receive \/ Flush \/ Ask \/ AskTimeout
  PROVE  Rest'
<1>1. TypeOK /\ Rest
  BY DEF IInv, Rest
<1> USE <1>1
<1>2. CASE Receive
  <2>1. /\ wire # <<>>
        /\ UNCHANGED <<phase, settled, roots, stages, real, mem, disk, session, chip, sock,
                       replay, load>>
    BY <1>2 DEF Receive, run, store
  <2> DEFINE e == Head(wire)
  <2>2. /\ Root \in DOMAIN ui'.g => Root \in DOMAIN ui.g \/ e.kind = "topology"
        /\ \/ ui'.status \in {ui.status, "starting"}
           \/ e.kind \in {"init", "ended"} /\ ui'.status = e.status
        /\ e \in ToSet(wire) /\ ToSet(wire') \subseteq ToSet(wire)
    BY <1>2, ReceiveTypes
  <2> HIDE DEF e
  <2>3. sock /\ Away'
    BY <2>1 DEF Rest, Away
  <2>4. Blank'
    BY <2>1, <2>2, <2>3 DEF Rest, Blank, Early
  <2>5. Underway'
    <3>1. Early' <=> Early
      BY <2>1 DEF Early
    <3>2. ASSUME Early PROVE ui'.status \in {"none", "starting"}
      <4>1. /\ ui.status \in {"none", "starting"} /\ e.kind # "ended"
            /\ e.kind = "init" => e.status \in {"none", "starting"}
        BY <2>2, <3>2 DEF Rest, Underway
      <4>2. CASE ui'.status \in {ui.status, "starting"}
        BY <4>1, <4>2
      <4>3. CASE e.kind \in {"init", "ended"} /\ ui'.status = e.status
        BY <4>1, <4>3
      <4> QED BY <2>2, <4>2, <4>3
    <3> QED BY <2>1, <2>2, <3>1, <3>2 DEF Rest, Underway
  <2>6. Searching' /\ Marked' /\ Mirrored' /\ Newest' /\ EndedGraphSurvives'
        /\ DeletedStaysDeleted'
    BY <2>1 DEF Rest, Searching, Marked, Mirrored, Newest, EndedGraphSurvives,
                DeletedStaysDeleted, Early
  <2> QED BY <2>3, <2>4, <2>5, <2>6 DEF Rest
<1>3. CASE Flush \/ Ask \/ AskTimeout
  <2>1. /\ UNCHANGED <<phase, settled, roots, stages, real, mem, disk, session, chip, sock,
                       wire, replay>>
        /\ load' = load \/ (Ask /\ load' = "asked")
        /\ ui' = ui \/ sock
    BY <1>3 DEF Flush, Ask, AskTimeout, run, store, link
  <2>2. ui'.status = ui.status /\ (Root \in DOMAIN ui'.g <=> Root \in DOMAIN ui.g)
    BY <1>3, PageTypes
  <2>3. Ask => sock /\ (Early => mem.has)
    BY DEF Ask, Rest, Blank, Underway, Early
  <2>4. Away' /\ Blank' /\ Underway' /\ Searching'
    BY <2>1, <2>2, <2>3 DEF Rest, Away, Blank, Underway, Searching, Early
  <2>5. Marked' /\ Mirrored' /\ Newest' /\ EndedGraphSurvives' /\ DeletedStaysDeleted'
    BY <2>1 DEF Rest, Marked, Mirrored, Newest, EndedGraphSurvives, DeletedStaysDeleted, Early
  <2> QED BY <2>4, <2>5 DEF Rest
<1> QED BY <1>2, <1>3

\* Before anything is reported.
LEMMA InvInit == Init => IInv
<1> SUFFICES ASSUME Init PROVE IInv
  OBVIOUS
<1>1. ~NoSnapshot.has /\ ~NoSnapshot.term /\ DOMAIN NoSnapshot.g = {}
  BY NoSnapshotIsOne
<1>2. Away /\ Blank /\ Underway /\ Searching
  BY ShortSeqs DEF Init, Away, Blank, Underway, Searching, Early, Page, NoGraph
<1>3. Marked /\ Mirrored /\ Newest /\ EndedGraphSurvives /\ DeletedStaysDeleted
  BY <1>1 DEF Init, Marked, Mirrored, Newest, EndedGraphSurvives, DeletedStaysDeleted, Early
<1> QED BY <1>2, <1>3, TypeInit DEF IInv

\* The invariant is inductive.
LEMMA InvNext == IInv /\ [Next]_vars => IInv'
<1> SUFFICES ASSUME IInv, [Next]_vars PROVE IInv'
  OBVIOUS
<1>1. TypeOK'
  BY TypeNext DEF IInv
<1>2. Rest'
  <2>1. CASE UNCHANGED vars
    BY <2>1 DEF vars, run, store, link, page, IInv, Rest, Away, Blank, Underway, Searching,
                Marked, Mirrored, Newest, EndedGraphSurvives, DeletedStaysDeleted, Early
  <2>2. CASE Next
    BY <2>2, TaskInv, ReportRootInv, ReportStageInv, ReportStatusInv, ConnectInv, LossInv,
       ReplayInv, PageInv DEF Next
  <2> QED BY <2>1, <2>2
<1> QED BY <1>1, <1>2 DEF IInv, Rest

\* What the run reported, what the server keeps of it, what is on its way and what the
\* page knows agree in every reachable state, whatever the connections, the restarts and
\* the deletion of the session (task_graph_snapshot.py, useGraphState.js).
THEOREM Invariance == Spec => []IInv
<1>1. Init => IInv
  BY InvInit
<1>2. IInv /\ [Next]_vars => IInv'
  BY InvNext
<1> QED BY <1>1, <1>2, PTL DEF Spec

\* The state keeps its shape: in particular every graph of the server and of the page,
\* merged, stamped, replayed or rebuilt, has each node at the level its path names.
THEOREM TypeCorrect == Spec => []TypeOK
<1>1. IInv => TypeOK
  BY DEF IInv
<1> QED BY <1>1, Invariance, PTL

\* Whatever the order in which the topologies of the inner level come, its mirror has the
\* nodes of the newest one, also when it was pruned and loaded again (the version guard
\* of _apply_topology).
THEOREM NewestIsMirrored == Spec => []MirrorIsNewest
<1>1. IInv => MirrorIsNewest
  <2> SUFFICES ASSUME IInv, phase \in {"running", "ending", "ended"}, session, mem.has,
                      2 \in stages
               PROVE  Box \in DOMAIN mem.g /\ DOMAIN mem.g[Box].st = Kids
    BY DEF MirrorIsNewest
  <2>1. roots > 0
    BY DEF IInv, Mirrored
  <2>2. CASE phase = "ended"
    BY <2>1, <2>2 DEF IInv, EndedGraphSurvives, Newest
  <2>3. CASE phase # "ended"
    BY <2>3 DEF IInv, Newest
  <2> QED BY <2>2, <2>3
<1> QED BY <1>1, Invariance, PTL

\* A task that ended with a graph keeps it while its session lives, on disk and in whatever
\* copy the memory has (mark_task_terminal, get_or_load, the pruning on connection).
THEOREM EndedGraphIsKept == Spec => []EndedGraphSurvives
<1>1. IInv => EndedGraphSurvives
  BY DEF IInv
<1> QED BY <1>1, Invariance, PTL

\* A deleted session has no graph on disk again, whatever its tasks still do
\* (_task_graphs_dir).
THEOREM DeletedIsGone == Spec => []DeletedStaysDeleted
<1>1. IInv => DeletedStaysDeleted
  BY DEF IInv
<1> QED BY <1>1, Invariance, PTL

\* Whatever directories a task left, the graph rebuilt from them can be walked by the page
\* (reconstruct_graph_from_task_dir).
THEOREM RebuiltCanBeWalked == Spec => []RebuiltIsNavigable
<1>1. RebuiltIsNavigable
  BY WorkspacesAreTrees, RebuildIsNavigable DEF RebuiltIsNavigable, RebuildOf
<1> QED BY <1>1, PTL

\* No step takes a status of the mirror back.
LEMMA StatusStep ==
  ASSUME IInv, Next, mem.has, mem'.has,
         NEW k \in DOMAIN mem.g, NEW n \in DOMAIN mem.g[k].st,
         k \in DOMAIN mem'.g, n \in DOMAIN mem'.g[k].st
  PROVE  Rank(mem'.g[k].st[n]) >= Rank(mem.g[k].st[n])
<1> DEFINE old == mem.g[k].st[n]  new == mem'.g[k].st[n]
<1>1. TypeOK /\ IsSnapshot(mem) /\ IsGraph(mem.g)
  BY DEF IInv, TypeOK, StoreOK, IsSnapshot
<1>2. \A s : Rank(s) \in 0..3
  BY DEF Rank
<1>3. SUFFICES ASSUME mem'.g # mem.g PROVE Rank(new) >= Rank(old)
  BY <1>2
<1>4. ASSUME NEW e, IsTopology(e), mem'.g = MergePy(mem.g, e)
      PROVE  new = old
  <2> DEFINE g == mem.g  h == mem'.g
  <2>1. IsGraph(g) /\ h = MergePy(g, e) /\ k \in DOMAIN g /\ n \in DOMAIN g[k].st
        /\ k \in DOMAIN h /\ n \in DOMAIN h[k].st
    BY <1>1, <1>4
  <2> HIDE DEF g, h
  <2>2. h[k].st[n] = g[k].st[n]
    BY <1>4, <2>1, MergePyKeeps
  <2> QED BY <2>2 DEF g, h
<1>5. ASSUME phase = "running", NEW e, IsEvent(e), Emit(e)
      PROVE  /\ IsTopology(e) => Rank(new) >= Rank(old)
             /\ ~IsTopology(e) => mem'.g = Stamp(mem.g, News(e)) /\ IsNews(News(e))
  <2>1. /\ IsTopology(e) => mem'.g = MergePy(mem.g, e)
        /\ ~IsTopology(e) => mem'.g = Stamp(mem.g, News(e))
    BY <1>5, EmitKeeps
  <2>2. ~IsTopology(e) => IsNews(News(e))
    BY <1>5, EventIsNews DEF IsEvent
  <2> HIDE DEF old, new
  <2> QED BY <1>2, <1>4, <2>1, <2>2
<1>6. phase = "running" => old \in {"pending", real[n]} /\ n \in Nodes
  BY DEF IInv, Mirrored, Early
<1>7. ASSUME NEW known, IsNews(known), mem'.g = Stamp(mem.g, known)
      PROVE  new = IF n \in DOMAIN known THEN known[n] ELSE old
  <2>1. mem'.g[k].st = StampLevel(mem.g[k].st, known)
    BY <1>1, <1>7, StampIsGraph
  <2> QED BY <2>1 DEF StampLevel
<1>8. CASE ReportRoot
  <2> DEFINE e == Topology(Root, Pending({Box}), 0, FALSE)
  <2>1. IsEvent(e) /\ IsTopology(e) /\ Emit(e) /\ phase = "running"
    BY <1>8, ReportsAreEvents DEF IsEvent, ReportRoot, MayReport
  <2> HIDE DEF e, old, new
  <2> QED BY <1>5, <2>1
<1>9. ASSUME NEW s \in {1, 2}, NEW append \in BOOLEAN, ReportStage(s, append)
      PROVE  Rank(new) >= Rank(old)
  <2> DEFINE nodes == IF append THEN Stage(2) \ Stage(1) ELSE Stage(s)
             e == Topology(Box, Pending(nodes), s, append)
  <2>1. nodes \in SUBSET Kids
    BY NodesAreSomewhere
  <2>2. IsEvent(e) /\ IsTopology(e) /\ Emit(e) /\ phase = "running"
    BY <1>9, <2>1, ReportsAreEvents DEF IsEvent, ReportStage, MayReport
  <2> HIDE DEF e, old, new
  <2> QED BY <1>5, <2>2
<1>10. ASSUME NEW m \in Reporting, ReportStatus(m) PROVE Rank(new) >= Rank(old)
  <2> DEFINE s == IF real[m] = "none" THEN "running" ELSE "completed"
             e == NodeStatus(m, s)
  <2>1. s \in Statuses
    BY DEF Statuses
  <2>2. IsEvent(e) /\ Emit(e) /\ phase = "running" /\ ~IsTopology(e)
    BY <1>10, <2>1, ReportsAreEvents DEF IsEvent, ReportStatus, MayReport, IsTopology, NodeStatus
  <2>3. News(e) = [x \in {m} |-> s]
    BY DEF News, NodeStatus
  <2> HIDE DEF e
  <2>4. new = IF n = m THEN s ELSE old
    <3>1. mem'.g = Stamp(mem.g, News(e)) /\ IsNews(News(e))
      BY <1>5, <2>2
    <3> HIDE DEF new, old, s
    <3> QED BY <1>7, <2>3, <3>1
  <2>5. CASE n # m
    <3> HIDE DEF new, old
    <3> QED BY <1>2, <2>4, <2>5
  <2>6. CASE n = m /\ real[n] = "none"
    <3>1. new = "running" /\ old \in {"pending", "none"}
      BY <1>6, <2>2, <2>4, <2>6
    <3> HIDE DEF new, old
    <3> QED BY <3>1 DEF Rank
  <2>7. CASE n = m /\ real[n] # "none"
    <3>1. new = "completed"
      BY <2>4, <2>7
    <3> HIDE DEF new, old
    <3>2. Rank(new) = 3
      BY <3>1 DEF Rank
    <3> QED BY <1>2, <3>2
  <2> QED BY <2>5, <2>6, <2>7
<1>11. CASE ReportReconcile
  <2> DEFINE st == [x \in Nodes |-> "completed"]  e == Reconcile(st)
  <2>1. IsEvent(e) /\ Emit(e) /\ phase = "running" /\ ~IsTopology(e) /\ News(e) = st
    BY <1>11, ReportsAreEvents
      DEF IsEvent, ReportReconcile, MayReport, IsTopology, Reconcile, News
  <2> HIDE DEF e
  <2>2. mem'.g = Stamp(mem.g, News(e)) /\ IsNews(News(e))
    BY <1>5, <2>1
  <2>3. new = "completed"
    BY <1>6, <1>7, <2>1, <2>2
  <2> HIDE DEF new, old
  <2>4. Rank(new) = 3
    BY <2>3 DEF Rank
  <2> QED BY <1>2, <2>4
<1>12. ASSUME NEW reload \in BOOLEAN, Connect(reload) PROVE FALSE
  <2>1. mem' = mem \/ mem' = NoSnapshot
    BY <1>12 DEF Connect, Pruned
  <2> QED BY <1>3, <2>1, NoSnapshotIsOne
<1>13. ASSUME Persist PROVE FALSE
  <2>1. mem' = [mem EXCEPT !.term = mem.has]
    BY <1>13 DEF Persist
  <2>2. mem'.g = mem.g
    BY <1>1, <2>1, MarkedSnapshot DEF IsSnapshot
  <2> QED BY <1>3, <2>2
<1>14. ASSUME Restart \/ Delete PROVE FALSE
  BY <1>14, NoSnapshotIsOne DEF Restart, Delete
<1>15. ASSUME Load PROVE FALSE
  BY <1>15 DEF Load, IInv, Searching
<1>16. ASSUME \/ Start \/ Finish \/ Disconnect \/ SendReplay \/ Lookup
              \/ Receive \/ Flush \/ Ask \/ AskTimeout
       PROVE  FALSE
  <2>1. mem' = mem
    BY <1>16 DEF Start, Finish, Disconnect, SendReplay, Lookup, Receive, Flush, Ask, AskTimeout,
                 store
  <2> QED BY <1>3, <2>1
<1> HIDE DEF new, old
<1> QED BY <1>8, <1>9, <1>10, <1>11, <1>12, <1>13, <1>14, <1>15, <1>16 DEF Next

\* A topology reported again never takes a status back in the mirror: what a node has
\* reached it keeps as long as the mirror lives (_merge_node_fields, the append branch).
THEOREM StatusesAreKept == Spec => MirrorKeepsStatus
<1>1. IInv /\ [Next]_vars =>
        [ mem.has /\ mem'.has =>
            \A k \in DOMAIN mem.g : \A n \in DOMAIN mem.g[k].st :
              k \in DOMAIN mem'.g /\ n \in DOMAIN mem'.g[k].st
                => Rank(mem'.g[k].st[n]) >= Rank(mem.g[k].st[n]) ]_vars
  BY StatusStep
<1> QED BY <1>1, Invariance, PTL DEF Spec, MirrorKeepsStatus
=============================================================================
