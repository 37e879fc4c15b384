---------------------------- MODULE MCTaskGraph -----------------------------
(* TaskGraph with two inner nodes and the directory trees of small tasks.  *)
EXTENDS TaskGraph

\* A tree: the root's class, its children's classes, and the children of one of them.
Dir(name) == <<name>>
Tree(cls, kids) ==
  [d \in {<<>>} \cup {Dir(n) : n \in DOMAIN kids} |-> IF d = <<>> THEN cls ELSE kids[d[1]]]

Below(tree, name, sub) ==
  tree @@ [d \in {<<name>> \o e : e \in DOMAIN sub \ {<<>>}} |-> sub[Tail(d)]]

Leaf == "leaf"
N(kind, i) == <<kind, i>>

Dual(rounds) ==
  Below(Tree("dual", (N("propose", 0) :> "bta") @@ [r \in {N("round_", i) : i \in 1..rounds} |-> NoClass]),
        N("propose", 0), Tree("bta", (N("worker_", 0) :> Leaf) @@ (N("aggregator", 0) :> Leaf)))

Round(tree, i, names) ==
  Below(tree, N("round_", i), [d \in {<<>>} \cup {Dir(N(s, 0)) : s \in names} |-> Leaf])

MCWorkspaces ==
  { Tree("leaf", [n \in {} |-> ""]),
    Tree("bta", [n \in {} |-> ""]),
    Dual(0),
    Round(Dual(1), 1, {"review"}),
    Round(Round(Dual(2), 1, {"review", "fix"}), 2, {"review", "fix"}),
    Below(Tree("pti", (N("planner", 0) :> "dual") @@ (N("executor", 0) :> Leaf)
                      @@ (N("notes", 0) :> Leaf)),
          N("planner", 0), Round(Dual(1), 1, {"review", "fix"})),
    Below(Tree("mfi", (N("flow_", 0) :> "lwi") @@ (N("flow_", 1) :> Leaf)),
          N("flow_", 0), Tree("lwi", (N("initial", 0) :> Leaf) @@ (N("round", 1) :> "dual")
                                     @@ (N("round", 2) :> Leaf))),
    Below(Tree("lwi", (N("draft", 1) :> "bta") @@ (N("check", 2) :> Leaf) @@ (N("tmp", 3) :> NoClass)),
          N("draft", 1), Tree("bta", (N("worker_", 0) :> Leaf) @@ (N("worker_", 1) :> "dual"))),
    Tree("other", (N("infra", 1) :> Leaf) @@ (N("a", 2) :> "mfdual") @@ (N("tmp", 3) :> NoClass)) }

A == N("a", 0)
B == N("b", 0)
MCInner == {A, B}
MCReporting == {Box, Append(Box, B)}
=============================================================================
