---------------------------- MODULE GraphRebuild ----------------------------
(***************************************************************************)
(* The graph of a task rebuilt from the directories its run left behind    *)
(* (server/services/task_graph_reconstruct.py): top-down, each directory   *)
(* showing the canonical shape of the inferencer class whose log it holds. *)
(*                                                                         *)
(* A workspace is a function from the directories of the tree to classes.  *)
(* A directory is the sequence of the names that lead to it, below one     *)
(* another's "children"; a name is <<kind, number>>, so that names of a    *)
(* kind are ordered as the sorted listing orders them.  NoClass marks a    *)
(* directory no inferencer logged into.  Labels and deliverable paths are  *)
(* left out.                                                               *)
(***************************************************************************)
EXTENDS Naturals, Sequences, FiniteSets, SequencesExt

NoClass == "none"

Orchestrators == {"pti", "dual", "mfdual", "bta", "mfi", "lwi"}

Slots == {"planner", "executor", "analyzer", "review", "fix", "breakdown"} \X {0}

\* The names of a tree, and those a shape knows.
Names(w) == Slots \cup UNION {ToSet(d) : d \in DOMAIN w}

\* A tree of directories, each one below its parent, down from the task's own.
IsTree(w) ==
  /\ IsFiniteSet(DOMAIN w) /\ DOMAIN w \subseteq Seq(Names(w))
  /\ \A n \in Names(w) : n[2] \in Nat
  /\ <<>> \in DOMAIN w
  /\ \A d \in DOMAIN w \ {<<>>} : Front(d) \in DOMAIN w

Children(w, dir) == {d \in DOMAIN w : Len(d) = Len(dir) + 1 /\ Front(d) = dir}

OfKind(w, dir, kind) == {d \in Children(w, dir) : Last(d)[1] = kind}

InOrder(dirs) ==
  CHOOSE s \in [1..Cardinality(dirs) -> dirs] :
    IsInjective(s) /\ \A i, j \in DOMAIN s : i < j => Last(s[i])[2] <= Last(s[j])[2]

Present(w, dir) == IF dir \in DOMAIN w THEN <<dir>> ELSE <<>>

(***************************************************************************)
(* A shape: the nodes shown, the ones among them that are containers, the  *)
(* ones that are walked further, and the edges.                            *)
(***************************************************************************)
Chain(s) == {<<s[i], s[i + 1]>> : i \in 1..(Len(s) - 1)}

Shape(nodes, containers, walked, edges) ==
  [nodes |-> nodes, containers |-> containers, walked |-> walked, edges |-> edges]

Orchestrated(w, dirs) == {d \in dirs : w[d] \in Orchestrators}

ShapePti(w, dir) ==
  LET phases == Present(w, Append(dir, <<"planner", 0>>))
                \o Present(w, Append(dir, <<"executor", 0>>))
                \o Present(w, Append(dir, <<"analyzer", 0>>))
  IN Shape(ToSet(phases), ToSet(phases), ToSet(phases), Chain(phases))

\* Mutant: the rounds' own directories are walked.
ShapeDualRounds(w, dir) ==
  LET propose == OfKind(w, dir, "propose")
      rounds == OfKind(w, dir, "round_")
      last == Last(InOrder(rounds))
      stage(n) == IF rounds # {} /\ Append(last, n) \in DOMAIN w THEN <<Append(dir, n)>> ELSE <<>>
      stages == stage(<<"review", 0>>) \o stage(<<"fix", 0>>)
      shown == SetToSeq(propose) \o stages
      back == IF Len(stages) = 2 THEN {<<stages[2], stages[1]>>} ELSE {}
  IN Shape(ToSet(shown), propose, propose \cup rounds, Chain(shown) \cup back)

\* review and fix are shown as children of the consensus node, with the directory of
\* the last round: the round's own directory is not a node.
ShapeDual(w, dir) ==
  LET propose == OfKind(w, dir, "propose")
      rounds == OfKind(w, dir, "round_")
      last == Last(InOrder(rounds))
      stage(n) == IF rounds # {} /\ Append(last, n) \in DOMAIN w THEN <<Append(dir, n)>> ELSE <<>>
      stages == stage(<<"review", 0>>) \o stage(<<"fix", 0>>)
      shown == SetToSeq(propose) \o stages
      back == IF Len(stages) = 2 THEN {<<stages[2], stages[1]>>} ELSE {}
  IN Shape(ToSet(shown), propose, propose, Chain(shown) \cup back)

\* The breakdown is virtual: shown whether or not it has a directory.
ShapeDiamond(w, dir, kind, containers) ==
  LET breakdown == Append(dir, <<"breakdown", 0>>)
      workers == OfKind(w, dir, kind)
      boxes == IF containers THEN workers ELSE Orchestrated(w, workers)
      aggregator == OfKind(w, dir, "aggregator")
  IN Shape({breakdown} \cup workers \cup aggregator, boxes, boxes,
           ({breakdown} \X workers) \cup (workers \X aggregator))

ShapeLwi(w, dir) ==
  LET initial == OfKind(w, dir, "initial")
      steps == IF initial # {}
               THEN SetToSeq(initial) \o InOrder(OfKind(w, dir, "round"))
               ELSE InOrder({d \in Children(w, dir) : w[d] # NoClass})
      boxes == Orchestrated(w, ToSet(steps))
  IN Shape(ToSet(steps), boxes, boxes, Chain(steps))

ShapeFallback(w, dir) ==
  LET steps == InOrder({d \in Children(w, dir) : w[d] # NoClass /\ Last(d)[1] # "infra"})
      boxes == Orchestrated(w, ToSet(steps))
  IN Shape(ToSet(steps), boxes, boxes, Chain(steps))

ShapeOf(w, dir) ==
  CASE w[dir] = "pti" -> ShapePti(w, dir)
    [] w[dir] \in {"dual", "mfdual"} -> ShapeDual(w, dir)
    [] w[dir] = "bta" -> ShapeDiamond(w, dir, "worker_", FALSE)
    [] w[dir] = "mfi" -> ShapeDiamond(w, dir, "flow_", TRUE)
    [] w[dir] = "lwi" -> ShapeLwi(w, dir)
    [] OTHER -> ShapeFallback(w, dir)

(***************************************************************************)
(* The walk: the root, and every directory each of whose ancestors walks   *)
(* on into the next.  A level without nodes is left out.                   *)
(***************************************************************************)
Walked(w) ==
  {dir \in DOMAIN w : \A i \in 1..Len(dir) :
     SubSeq(dir, 1, i) \in ShapeOf(w, SubSeq(dir, 1, i - 1)).walked}

Levels(w) == {dir \in Walked(w) : ShapeOf(w, dir).nodes # {}}

Rebuild(w) == [dir \in Levels(w) |-> ShapeOf(w, dir)]
-----------------------------------------------------------------------------
\* What the page can walk: an inner level belongs to a container node shown one level up,
\* holds only nodes of that path, and an edge joins two of its nodes.
Navigable(shown) ==
  \A k \in DOMAIN shown :
    /\ k # <<>> => Front(k) \in DOMAIN shown /\ k \in shown[Front(k)].containers
    /\ \A n \in shown[k].nodes : n # <<>> /\ Front(n) = k
    /\ shown[k].edges \subseteq shown[k].nodes \X shown[k].nodes
=============================================================================
