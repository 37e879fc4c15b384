----------------------------- MODULE TaskGraph ------------------------------
(***************************************************************************)
(* The graph of one background task: what its run reports, the mirror the  *)
(* server keeps of it (services/task_graph_snapshot.py), the file the      *)
(* mirror leaves, its replay to a browser page, and the page's own merge   *)
(* of the frames (ui/src/hooks/useGraphState.js), some applied at once and *)
(* some at the next animation frame.  The text that nodes stream is left    *)
(* out.                                                                    *)
(*                                                                         *)
(* A node is named by its path, and a graph maps the path of each level's  *)
(* container (<<>> for the root level) to the level's nodes with their     *)
(* status and to its version.  The run's inferencer is external: it may    *)
(* report a status before the topology that shows the node, and the two    *)
(* topologies of a growing level out of order when they are full ones.     *)
(***************************************************************************)
EXTENDS GraphRebuild

CONSTANTS
  Inner,       \* names of the nodes inside the one container node
  First,       \* the inner node its first topology shows
  Reporting,   \* bound: the nodes whose progress the run reports one by one
  Workspaces,  \* the directory trees a task without a kept graph may have left
  MaxConns,    \* bound: connections of the page
  MaxRestarts, \* bound: server restarts
  MaxWire,     \* bound: frames on their way to the page
  MaxRoots     \* bound: root topologies the run reports

ASSUME FirstAssumption == First \in Inner
ASSUME WorkspacesAreTrees == \A w \in Workspaces : IsTree(w)

Root == <<>>
Box == <<<<"box", 0>>>>
Kids == {Append(Box, i) : i \in Inner}
Nodes == {Box} \cup Kids
Stage(s) == IF s = 1 THEN {Append(Box, First)} ELSE Kids

Statuses == {"none", "pending", "running", "completed"}
Rank(s) == CASE s = "completed" -> 3 [] s = "running" -> 2 [] s = "pending" -> 1 [] OTHER -> 0

VARIABLES
  phase,    \* the task: "idle", "running", "ending", "ended", "dead", "legacy"
  settled,  \* the run reported its final statuses
  roots,    \* number of root topologies reported
  stages,   \* stages of the inner level reported
  real,     \* the status each node last reported
  mem,      \* the mirror in memory
  disk,     \* the file of the mirror
  session,  \* the session exists
  chip,     \* the status of the task in the session's history
  sock,     \* the page is connected
  home,     \* ... by the socket the task was started on
  wire,     \* frames on their way to the page
  replay,   \* what the server still has to replay on this connection
  load,     \* the page's request for a replay: "none", "asked", "thread"
  ui,       \* the page's state of the task
  queue,    \* its updates that wait for the next animation frame
  buf,      \* its statuses set aside for a node it does not have yet
  seen,     \* it has seen a root topology
  asked,    \* its panel waits for a replay
  after,    \* it was loaded after the task ended
  conns, restarts

run == <<phase, settled, roots, stages, real>>
store == <<mem, disk, session, chip>>
link == <<sock, home, wire, replay, load>>
page == <<ui, queue, buf, seen, asked, after>>
vars == <<run, store, link, page, conns, restarts>>
-----------------------------------------------------------------------------
(* What the run reports, and what a snapshot makes of it.                  *)

Topology(key, st, version, append) ==
  [kind |-> "topology", key |-> key, st |-> st, version |-> version, append |-> append]
NodeStatus(node, status) == [kind |-> "status", node |-> node, status |-> status]
Reconcile(st) == [kind |-> "reconcile", st |-> st]

Pending(nodes) == [n \in nodes |-> "pending"]

NoGraph == [k \in {} |-> {}]
NoSnapshot == [has |-> FALSE, g |-> NoGraph, rec |-> NoGraph, term |-> FALSE]

\* Mutant: a topology reported again brings its own statuses.
CarryNothing(old, e) == e.st

\* A default topology replaces the level and carries the status of the nodes it knows;
\* an appending one leaves them alone and adds the others.
Carry(old, e) == [n \in DOMAIN e.st |-> IF n \in DOMAIN old THEN old[n] ELSE e.st[n]]
Added(old, e) ==
  [n \in DOMAIN old \cup DOMAIN e.st |-> IF n \in DOMAIN old THEN old[n] ELSE e.st[n]]
Merged(old, e) == IF e.append THEN Added(old, e) ELSE Carry(old, e)

Level(st, version) == [st |-> st, version |-> version]
SetLevel(g, key, level) == [k \in DOMAIN g \cup {key} |-> IF k = key THEN level ELSE g[k]]

\* Mutant: the level an event names is ignored.
MergeAtRoot(g, e) == SetLevel(g, Root, Level(e.st, e.version))

\* Mutant: no version guard.
MergeUnguarded(g, e) ==
  SetLevel(g, e.key, Level(IF e.key \in DOMAIN g THEN Merged(g[e.key].st, e) ELSE e.st, e.version))

MergePy(g, e) ==
  IF e.key \notin DOMAIN g THEN SetLevel(g, e.key, Level(e.st, e.version))
  ELSE IF e.version # 0 /\ g[e.key].version # 0 /\ e.version < g[e.key].version THEN g
  ELSE SetLevel(g, e.key, Level(Merged(g[e.key].st, e),
                                IF e.version # 0 THEN e.version ELSE g[e.key].version))

\* The statuses an event brings.
News(e) == IF e.kind = "status" THEN [n \in {e.node} |-> e.status] ELSE e.st

StampLevel(st, known) == [n \in DOMAIN st |-> IF n \in DOMAIN known THEN known[n] ELSE st[n]]
Stamp(g, known) == [k \in DOMAIN g |-> [g[k] EXCEPT !.st = StampLevel(@, known)]]

\* The final statuses are kept for the replay and stamped on every level.
Settled(s, e) == [s EXCEPT !.rec = e.st, !.g = Stamp(@, e.st)]

\* Mutant: the final statuses are noted, not stamped.
AppliedNoted(s, e) ==
  CASE e.kind = "topology" -> [s EXCEPT !.g = MergePy(@, e)]
    [] e.kind = "status" -> [s EXCEPT !.g = Stamp(@, News(e))]
    [] e.kind = "reconcile" -> [s EXCEPT !.rec = e.st]

Applied(s, e) ==
  CASE e.kind = "topology" -> [s EXCEPT !.g = MergePy(@, e)]
    [] e.kind = "status" -> [s EXCEPT !.g = Stamp(@, News(e))]
    [] e.kind = "reconcile" -> Settled(s, e)

\* A replay in progress holds the levels' own lists: a later stamp shows in what it has
\* still to send, until a topology replaces the list.
Linked(e) ==
  LET follows(r) ==
        IF r.kind # "topology" THEN r
        ELSE CASE e.kind \in {"status", "reconcile"} /\ r.shared ->
                    [r EXCEPT !.st = StampLevel(@, News(e))]
               [] e.kind = "topology" /\ e.key = r.key /\ ~e.append
                  /\ mem.g # MergePy(mem.g, e) -> [r EXCEPT !.shared = FALSE]
               [] OTHER -> r
  IN [i \in DOMAIN replay |-> follows(replay[i])]

ToReplay(s) ==
  LET level(k) == [kind |-> "topology", key |-> k, st |-> s.g[k].st, version |-> 0,
                   append |-> FALSE, shared |-> TRUE]
      subs == SetToSeq(DOMAIN s.g \ {Root})
      topologies == (IF Root \in DOMAIN s.g THEN <<Root>> ELSE <<>>) \o subs
  IN IF ~s.has THEN <<>>
     ELSE [i \in DOMAIN topologies |-> level(topologies[i])]
          \o (IF s.rec = NoGraph THEN <<>> ELSE <<Reconcile(s.rec)>>)

Persisted(s) == [s EXCEPT !.term = FALSE]

RebuildOf == [w \in Workspaces |-> Rebuild(w)]

Rebuilt(w) ==
  LET shown == RebuildOf[w]
      g == [k \in DOMAIN shown |-> Level([n \in shown[k].nodes |-> "completed"], 1)]
      all == UNION {shown[k].nodes : k \in DOMAIN shown}
  IN IF Root \notin DOMAIN shown THEN NoSnapshot
     ELSE [has |-> TRUE, g |-> g, rec |-> [n \in all |-> "completed"],
           term |-> FALSE]
-----------------------------------------------------------------------------
Page(status) == [known |-> status # "none", status |-> status, g |-> NoGraph]

Init ==
  /\ phase \in {"idle", "legacy"} /\ settled = FALSE /\ roots = 0 /\ stages = {}
  /\ real = [n \in Nodes |-> "none"]
  /\ mem = NoSnapshot /\ disk = NoSnapshot /\ session = TRUE
  /\ chip = IF phase = "legacy" THEN "completed" ELSE "none"
  /\ sock = FALSE /\ home = FALSE /\ wire = <<>> /\ replay = <<>> /\ load = "none"
  /\ ui = Page("none") /\ queue = <<>> /\ buf = <<>> /\ seen = FALSE /\ asked = FALSE
  /\ after = FALSE /\ conns = 0 /\ restarts = 0

\* A frame of the task goes to the socket the task was started on, if that still lives.
Send(f) == wire' = IF sock /\ home THEN Append(wire, f) ELSE wire

(***************************************************************************)
(* The run.                                                                *)
(***************************************************************************)
Start ==
  /\ phase = "idle" /\ sock /\ session /\ replay = <<>>
  /\ phase' = "running" /\ chip' = "starting" /\ home' = TRUE
  /\ wire' = Append(wire, [kind |-> "starting"])
  /\ UNCHANGED <<settled, roots, stages, real, mem, disk, session, sock, replay, load, page,
                 conns, restarts>>

\* send_graph_event: mirrored first, in this step, then sent.
Emit(e) ==
  /\ mem' = Applied([mem EXCEPT !.has = TRUE], e)
  /\ replay' = Linked(e)
  /\ Send(e)
  /\ UNCHANGED <<phase, disk, session, chip, sock, home, load, page, conns, restarts>>

MayReport == phase = "running" /\ ~settled /\ Len(wire \o queue) < MaxWire

ReportRoot ==
  /\ MayReport /\ roots < MaxRoots
  /\ roots' = roots + 1
  /\ Emit(Topology(Root, Pending({Box}), 0, FALSE))
  /\ UNCHANGED <<settled, stages, real>>

ReportStage(s, append) ==
  /\ MayReport /\ roots > 0 /\ s \notin stages
  /\ append => s = 2 /\ 1 \in stages
  /\ stages' = stages \cup {s}
  /\ Emit(Topology(Box, Pending(IF append THEN Stage(2) \ Stage(1) ELSE Stage(s)), s, append))
  /\ UNCHANGED <<settled, roots, real>>

ReportStatus(n) ==
  /\ MayReport /\ real[n] # "completed"
  /\ LET s == IF real[n] = "none" THEN "running" ELSE "completed"
     IN real' = [real EXCEPT ![n] = s] /\ Emit(NodeStatus(n, s))
  /\ UNCHANGED <<settled, roots, stages>>

ReportReconcile ==
  /\ MayReport /\ roots > 0 /\ stages = {1, 2}
  /\ settled' = TRUE
  /\ real' = [n \in Nodes |-> "completed"]
  /\ Emit(Reconcile([n \in Nodes |-> "completed"]))
  /\ UNCHANGED <<roots, stages>>

\* send_task_status: the frame first, then the mirror is marked and written out.
Finish ==
  /\ phase = "running" /\ Len(wire \o queue) < MaxWire
  /\ phase' = "ending"
  /\ Send([kind |-> "ended", status |-> IF settled THEN "completed" ELSE "error"])
  /\ UNCHANGED <<settled, roots, stages, real, store, sock, home, replay, load, page, conns,
                 restarts>>

\* Mutant: the file is written only when the frame reached the page.
PersistWatched ==
  /\ phase = "ending"
  /\ phase' = "ended"
  /\ mem' = [mem EXCEPT !.term = mem.has]
  /\ disk' = IF mem.has /\ session /\ sock THEN Persisted(mem) ELSE disk
  /\ chip' = IF session THEN (IF settled THEN "completed" ELSE "error") ELSE chip
  /\ UNCHANGED <<settled, roots, stages, real, session, link, page, conns, restarts>>

\* Mutant: the session's directory is made again.
PersistAnyway ==
  /\ phase = "ending"
  /\ phase' = "ended"
  /\ mem' = [mem EXCEPT !.term = mem.has]
  /\ disk' = IF mem.has THEN Persisted(mem) ELSE disk
  /\ chip' = IF session THEN (IF settled THEN "completed" ELSE "error") ELSE chip
  /\ UNCHANGED <<settled, roots, stages, real, session, link, page, conns, restarts>>

Persist ==
  /\ phase = "ending"
  /\ phase' = "ended"
  /\ mem' = [mem EXCEPT !.term = mem.has]
  /\ disk' = IF mem.has /\ session THEN Persisted(mem) ELSE disk
  /\ chip' = IF session THEN (IF settled THEN "completed" ELSE "error") ELSE chip
  /\ UNCHANGED <<settled, roots, stages, real, session, link, page, conns, restarts>>
-----------------------------------------------------------------------------
(* Connections.                                                            *)

Healed == IF phase = "dead" /\ chip = "starting" THEN "error" ELSE chip

\* session_init, the pruning of what has outlived its time, and the replay of the rest.
Pruned(expired) == IF mem.term /\ expired THEN NoSnapshot ELSE mem

Connect(reload) ==
  /\ ~sock /\ session /\ conns < MaxConns
  /\ conns' = conns + 1 /\ sock' = TRUE /\ home' = FALSE /\ load' = "none"
  /\ chip' = Healed
  /\ wire' = <<[kind |-> "init", status |-> Healed]>>
  /\ \E expired \in BOOLEAN :
       /\ expired => mem.term
       /\ mem' = Pruned(expired)
       /\ replay' = ToReplay(Pruned(expired))
  /\ IF reload
     THEN /\ ui' = Page("none") /\ queue' = <<>> /\ buf' = <<>> /\ seen' = FALSE
          /\ asked' = FALSE /\ after' = (phase = "ended")
     ELSE conns > 0 /\ UNCHANGED page
  /\ UNCHANGED <<run, disk, session, restarts>>

\* What the page goes on showing while it is away is forgotten here: the session_init of
\* its next connection replaces it.
Disconnect ==
  /\ sock /\ phase # "idle"
  /\ sock' = FALSE /\ home' = FALSE /\ wire' = <<>> /\ replay' = <<>> /\ load' = "none"
  /\ ui' = Page("none")
  /\ UNCHANGED <<run, store, queue, buf, seen, asked, after, conns, restarts>>

Restart ==
  /\ restarts < MaxRestarts /\ phase # "idle"
  /\ restarts' = restarts + 1
  /\ phase' = IF phase \in {"running", "ending"} THEN "dead" ELSE phase
  /\ mem' = NoSnapshot
  /\ sock' = FALSE /\ home' = FALSE /\ wire' = <<>> /\ replay' = <<>> /\ load' = "none"
  /\ ui' = Page("none")
  /\ UNCHANGED <<settled, roots, stages, real, disk, session, chip, queue, buf, seen, asked,
                 after, conns>>

SendReplay ==
  /\ sock /\ replay # <<>> /\ Len(wire) < MaxWire
  /\ wire' = Append(wire, Head(replay)) /\ replay' = Tail(replay)
  /\ UNCHANGED <<run, store, sock, home, load, page, conns, restarts>>

\* request_graph_replay: from memory at once, else a thread looks on disk.
Lookup ==
  /\ sock /\ load = "asked" /\ replay = <<>>
  /\ IF mem.has THEN replay' = ToReplay(mem) /\ load' = "none"
                ELSE load' = "thread" /\ UNCHANGED replay
  /\ UNCHANGED <<run, store, sock, home, wire, page, conns, restarts>>

\* Mutant: the file is not looked for.
FoundRebuilt(w) == IF session THEN Rebuilt(w) ELSE NoSnapshot

Found(w) == IF disk.has THEN disk ELSE IF session THEN Rebuilt(w) ELSE NoSnapshot

\* The thread's result is kept in memory, already marked for pruning.
Load ==
  /\ load = "thread"
  /\ \E w \in Workspaces : \E found \in {Found(w)} :
       /\ mem' = IF found.has THEN [found EXCEPT !.term = TRUE] ELSE mem
       /\ replay' = ToReplay(found)
  /\ load' = "none"
  /\ UNCHANGED <<run, disk, session, chip, sock, home, wire, page, conns, restarts>>

\* The route drops the mirrors and their files, then the directory.  Bound: the page is
\* away when another client deletes its session.
Delete ==
  /\ session /\ ~sock /\ phase # "idle"
  /\ session' = FALSE /\ disk' = NoSnapshot /\ mem' = NoSnapshot
  /\ UNCHANGED <<run, chip, link, page, conns, restarts>>
-----------------------------------------------------------------------------
(* The page.                                                               *)

ParentOf(node) == Front(node)

MergeJs(g, e) ==
  IF e.key \notin DOMAIN g THEN SetLevel(g, e.key, Level(e.st, e.version))
  ELSE IF e.version # 0 /\ e.version < g[e.key].version THEN g
  ELSE SetLevel(g, e.key, Level(Merged(g[e.key].st, e),
                                IF e.append /\ e.version = 0 THEN g[e.key].version
                                                             ELSE e.version))

HasNode(g, n) == ParentOf(n) \in DOMAIN g /\ n \in DOMAIN g[ParentOf(n)].st

SetStatus(g, n, s) == [g EXCEPT ![ParentOf(n)].st[n] = s]

\* One deferred update: on the state of the page and the statuses set aside.
ApplyStatus(p, e) ==
  IF ~p.ui.known \/ (ParentOf(e.node) = Root /\ Root \notin DOMAIN p.ui.g) THEN p
  ELSE IF HasNode(p.ui.g, e.node)
       THEN [p EXCEPT !.ui.g = SetStatus(@, e.node, e.status)]
  ELSE IF e.kind = "buffered" THEN p
  ELSE [p EXCEPT !.buf = Append(@, e)]

ApplyLevel(p, e) ==
  IF Root \in DOMAIN p.ui.g THEN [p EXCEPT !.ui.g = MergeJs(@, e)] ELSE p

Update(p, e) ==
  CASE e.kind \in {"status", "buffered"} -> ApplyStatus(p, e)
    [] e.kind = "topology" -> ApplyLevel(p, e)

\* All of them, in order.
Updated(p, updates) ==
  LET upto[i \in 0..Len(updates)] ==
        IF i = 0 THEN p ELSE Update(upto[i - 1], updates[i])
  IN upto[Len(updates)]

Flush ==
  /\ queue # <<>> /\ sock
  /\ LET p == Updated([ui |-> ui, buf |-> buf], queue)
     IN ui' = p.ui /\ buf' = p.buf
  /\ queue' = <<>>
  /\ UNCHANGED <<run, store, link, seen, asked, after, conns, restarts>>

\* The statuses set aside for nodes of the root level, or for the others.
SetAside(statuses, root) ==
  LET chosen[i \in 0..Len(statuses)] ==
        IF i = 0 THEN <<>>
        ELSE IF (ParentOf(statuses[i].node) = Root) = root THEN Append(chosen[i - 1], statuses[i])
        ELSE chosen[i - 1]
  IN chosen[Len(statuses)]

\* The root level is merged at once.  The first one empties the buffer; then the root
\* statuses it holds are queued again.
RootTopology(e) ==
  LET kept == IF seen THEN buf ELSE <<>>
      again == SetAside(kept, TRUE)
  IN /\ ui' = [ui EXCEPT !.known = TRUE, !.g = MergeJs(@, e)]
     /\ queue' = queue \o [i \in DOMAIN again |-> [again[i] EXCEPT !.kind = "buffered"]]
     /\ buf' = SetAside(kept, FALSE)
     /\ seen' = TRUE

\* The merge of an inner level is queued, and so is a status.  The buffer
\* would be replayed if the queued merge had already found that the level grew: it runs
\* later, so the buffer stays as it is.
Queued(e) == queue' = Append(queue, e) /\ UNCHANGED <<ui, buf, seen>>

ReconcileUi(e) ==
  /\ ui' = IF Root \in DOMAIN ui.g THEN [ui EXCEPT !.g = Stamp(@, e.st)] ELSE ui
  /\ UNCHANGED <<queue, buf, seen>>

Initialise(e) == ui' = Page(e.status) /\ UNCHANGED <<queue, buf, seen>>

Starting == ui' = Page("starting") /\ buf' = <<>> /\ seen' = FALSE /\ UNCHANGED queue

Ended(e) ==
  /\ ui' = IF ui.known THEN [ui EXCEPT !.status = e.status] ELSE ui
  /\ UNCHANGED <<queue, buf, seen>>

Receive ==
  /\ wire # <<>>
  /\ wire' = Tail(wire)
  /\ LET e == Head(wire)
     IN CASE e.kind = "init" -> Initialise(e)
          [] e.kind = "starting" -> Starting
          [] e.kind = "ended" -> Ended(e)
          [] e.kind = "topology" /\ e.key = Root -> RootTopology(e)
          [] e.kind = "reconcile" -> ReconcileUi(e)
          [] OTHER -> Queued(e)
  /\ asked' = (asked /\ Root \notin DOMAIN ui'.g)
  /\ UNCHANGED <<run, store, sock, home, replay, load, after, conns, restarts>>

\* The panel asks for the graph of an ended task it has none of, and again after a while;
\* a click asks for the inside of a container it has not got.  Bound: nobody asks while
\* frames are on their way.
Ask ==
  /\ sock /\ wire = <<>> /\ replay = <<>> /\ load = "none"
  /\ \/ ui.status \in {"completed", "error"} /\ Root \notin DOMAIN ui.g /\ ~asked
        /\ asked' = TRUE
     \/ queue = <<>> /\ Root \in DOMAIN ui.g
        /\ Box \in DOMAIN ui.g[Root].st /\ Box \notin DOMAIN ui.g
        /\ UNCHANGED asked
  /\ load' = "asked"
  /\ UNCHANGED <<run, store, sock, home, wire, replay, ui, queue, buf, seen, after, conns,
                 restarts>>

AskTimeout ==
  /\ asked /\ load = "none"
  /\ asked' = FALSE
  /\ UNCHANGED <<run, store, link, ui, queue, buf, seen, after, conns, restarts>>

Next ==
  \/ Start \/ ReportRoot \/ ReportReconcile \/ Finish \/ Persist
  \/ \E s \in {1, 2}, append \in BOOLEAN : ReportStage(s, append)
  \/ \E n \in Reporting : ReportStatus(n)
  \/ \E reload \in BOOLEAN : Connect(reload)
  \/ Disconnect \/ Restart \/ SendReplay \/ Lookup \/ Load \/ Delete
  \/ Receive \/ Flush \/ Ask \/ AskTimeout

\* The server goes on with what it began, frames in flight arrive, and the open panel
\* keeps asking.  Nothing is assumed of the animation frames: a hidden page has none.
Progress == SendReplay \/ Lookup \/ Load \/ Receive

Fairness == WF_vars(Progress) /\ WF_vars(Ask \/ AskTimeout)

Spec == Init /\ [][Next]_vars /\ Fairness
-----------------------------------------------------------------------------
(* Properties.                                                             *)

IsLevel(k, st) ==
  /\ st = [n \in DOMAIN st |-> st[n]]
  /\ \A n \in DOMAIN st : st[n] \in Statuses /\ Front(n) = k

\* A graph: each node at the level its path names.
IsGraph(g) ==
  /\ IsFiniteSet(DOMAIN g) /\ g = [k \in DOMAIN g |-> Level(g[k].st, g[k].version)]
  /\ \A k \in DOMAIN g : g[k].version \in Nat /\ IsLevel(k, g[k].st)

IsRecord(rec) == rec = [n \in DOMAIN rec |-> rec[n]] /\ \A n \in DOMAIN rec : rec[n] \in Statuses

IsSnapshot(s) ==
  /\ s = [has |-> s.has, g |-> s.g, rec |-> s.rec, term |-> s.term]
  /\ s.has \in BOOLEAN /\ s.term \in BOOLEAN /\ IsGraph(s.g) /\ IsRecord(s.rec)
  /\ ~s.has => s = NoSnapshot

TaskStatuses == {"none", "starting", "completed", "error"}

IsTopology(e) ==
  e.kind = "topology" /\ e.version \in Nat /\ e.append \in BOOLEAN /\ IsLevel(e.key, e.st)
IsStatus(e, kinds) ==
  /\ e.kind \in kinds /\ e.status \in Statuses
  /\ e = [kind |-> e.kind, node |-> e.node, status |-> e.status]
IsReconcile(e) == e.kind = "reconcile" /\ IsRecord(e.st)

IsFrame(e) ==
  \/ e.kind \in {"init", "ended"} /\ e.status \in TaskStatuses
  \/ e.kind = "starting"
  \/ IsTopology(e) \/ IsStatus(e, {"status"}) \/ IsReconcile(e)

\* A level still to be replayed, or the final statuses.
IsReplayed(r) ==
  \/ /\ r.kind = "topology"
     /\ r = [kind |-> "topology", key |-> r.key, st |-> r.st, version |-> 0, append |-> FALSE,
               shared |-> r.shared]
     /\ r.shared \in BOOLEAN /\ IsLevel(r.key, r.st)
  \/ IsReconcile(r)

IsUpdate(e) == (IsTopology(e) /\ e.key # Root) \/ IsStatus(e, {"status", "buffered"})

IsUi(u) ==
  /\ u = [known |-> u.known, status |-> u.status, g |-> u.g]
  /\ u.known \in BOOLEAN /\ u.status \in TaskStatuses /\ IsGraph(u.g)

IsSeq(s) == s \in Seq(ToSet(s))

RunOK ==
  /\ phase \in {"idle", "running", "ending", "ended", "dead", "legacy"}
  /\ settled \in BOOLEAN /\ roots \in Nat /\ stages \subseteq {1, 2}
  /\ real \in [Nodes -> Statuses]

StoreOK ==
  IsSnapshot(mem) /\ IsSnapshot(disk) /\ session \in BOOLEAN /\ chip \in TaskStatuses

LinkOK ==
  /\ sock \in BOOLEAN /\ home \in BOOLEAN /\ load \in {"none", "asked", "thread"}
  /\ IsSeq(wire) /\ \A e \in ToSet(wire) : IsFrame(e)
  /\ IsSeq(replay) /\ \A r \in ToSet(replay) : IsReplayed(r)

PageOK ==
  /\ IsUi(ui)
  /\ IsSeq(queue) /\ \A e \in ToSet(queue) : IsUpdate(e)
  /\ IsSeq(buf) /\ \A e \in ToSet(buf) : IsStatus(e, {"status"})
  /\ seen \in BOOLEAN /\ asked \in BOOLEAN /\ after \in BOOLEAN

\* The shape of the state: the run, what is kept of it, what is on its way, the page.
TypeOK == RunOK /\ StoreOK /\ LinkOK /\ PageOK /\ conns \in Nat /\ restarts \in Nat

(***************************************************************************)
(* What the properties rest on.                                            *)
(***************************************************************************)
\* A page that is away is sent nothing, asks nothing and knows nothing.
Away == ~sock => wire = <<>> /\ replay = <<>> /\ load = "none" /\ ui = Page("none")

\* Until the run has reported anything nobody has a graph.
Early == phase \in {"idle", "running"}
Blank ==
  Early /\ ~mem.has =>
    /\ session => roots = 0 /\ stages = {}
    /\ sock => /\ Root \notin DOMAIN ui.g /\ replay = <<>>
               /\ \A e \in ToSet(wire) : e.kind # "topology"

\* While the run goes on the page is not told of an end.
Underway ==
  Early =>
    /\ chip \in {"none", "starting"} /\ ui.status \in {"none", "starting"}
    /\ \A e \in ToSet(wire) : /\ e.kind # "ended"
                              /\ e.kind = "init" => e.status \in {"none", "starting"}

\* The file is looked for only when the memory has nothing, and not while the run goes on.
Searching ==
  /\ load = "thread" => ~mem.has
  /\ load # "none" /\ Early => mem.has

\* What is marked for pruning is the graph of a run that is over.
Marked == mem.term => mem.has /\ ~Early /\ (phase = "ending" => roots = 0)

\* The mirror has what the run reported, and nothing else.
Mirrored ==
  /\ phase = "idle" => roots = 0
  /\ stages # {} => roots > 0
  /\ phase \in {"running", "ending"} /\ session /\ roots > 0 =>
        mem.has /\ Root \in DOMAIN mem.g
  /\ Early => \A k \in DOMAIN mem.g : \A n \in DOMAIN mem.g[k].st :
        n \in Nodes /\ mem.g[k].st[n] \in {"pending", real[n]}

\* ... of the inner level, the nodes of its newest topology.
Newest ==
  /\ Early /\ session /\ stages = {} => Box \notin DOMAIN mem.g
  /\ phase \in {"running", "ending"} /\ session /\ stages # {} =>
       /\ Box \in DOMAIN mem.g
       /\ IF 2 \in stages THEN mem.g[Box].version = 2 /\ DOMAIN mem.g[Box].st = Kids
                          ELSE mem.g[Box].version = 1 /\ DOMAIN mem.g[Box].st = Stage(1)
  /\ phase = "ended" /\ session /\ 2 \in stages =>
       Box \in DOMAIN disk.g /\ DOMAIN disk.g[Box].st = Kids

\* A topology reported again never takes a status back in the mirror: what a node has
\* reached, it keeps as long as the mirror lives (_merge_node_fields, the append branch).
MirrorKeepsStatus ==
  [][ mem.has /\ mem'.has =>
        \A k \in DOMAIN mem.g : \A n \in DOMAIN mem.g[k].st :
          k \in DOMAIN mem'.g /\ n \in DOMAIN mem'.g[k].st
            => Rank(mem'.g[k].st[n]) >= Rank(mem.g[k].st[n]) ]_vars

\* Whatever the order its two topologies are reported in, and whether the second one
\* replaces or appends, the mirrored inner level ends with the nodes of the newest one
\* (the version guard of _apply_topology).
MirrorIsNewest ==
  phase \in {"running", "ending", "ended"} /\ session /\ mem.has /\ 2 \in stages
    => Box \in DOMAIN mem.g /\ DOMAIN mem.g[Box].st = Kids

\* A task that ended with a graph keeps it while its session lives, through the pruning
\* of the memory, a server restart and any request that loads it back: what a lookup
\* finds first is the graph the run ended with (mark_task_terminal, get_or_load).
EndedGraphSurvives ==
  phase = "ended" /\ session /\ roots > 0 =>
    /\ disk.has /\ Root \in DOMAIN disk.g
    /\ mem.has => mem.g = disk.g /\ mem.rec = disk.rec /\ mem.term

\* A task that ends after its session was deleted leaves nothing on disk again
\* (_task_graphs_dir).
DeletedStaysDeleted == ~session => ~disk.has

\* The invariant these are proved from.
IInv ==
  /\ TypeOK /\ Away /\ Blank /\ Underway /\ Searching /\ Marked /\ Mirrored /\ Newest
  /\ EndedGraphSurvives /\ DeletedStaysDeleted

\* A page loaded after the task ended, once everything on its way has arrived and been
\* rendered, shows the nodes and the statuses the run ended with, although the frames of
\* one replay are applied out of order: the root level and the final statuses at once,
\* the inner levels at the next animation frame (to_replay_events: "bring a fresh
\* useGraphState to this snapshot's state").
Still == sock /\ wire = <<>> /\ replay = <<>> /\ queue = <<>>

\* The statuses shown, level by level.
Shown == [k \in DOMAIN ui.g |-> ui.g[k].st]

FreshPageShowsTheEnd ==
  Still /\ after /\ settled /\ session /\ Root \in DOMAIN ui.g
    => Shown = [k \in DOMAIN disk.g |-> [n \in DOMAIN disk.g[k].st |-> real[n]]]

\* A rebuilt graph can be walked by the page, whatever directories the run left
\* (useGraphState routes a node by its path, and offers to open the levels it finds).
RebuiltIsNavigable ==
  load = "thread" => \A w \in Workspaces : Navigable(RebuildOf[w])

\* The open panel of an ended task whose graph the server has gets to show it, unless
\* the connection or the session goes away first.
Available == session /\ IF mem.has THEN Root \in DOMAIN mem.g ELSE Root \in DOMAIN disk.g

EndedGraphIsShown ==
  sock /\ ui.status \in {"completed", "error"} /\ Available
    ~> Root \in DOMAIN ui.g \/ ~sock \/ ~session

\* What useGraphState.js:426-431 says of the final statuses: applied to the inner levels
\* too, so that a status lost before its topology leaves no node stuck.
ReconcileRepairs ==
  Still /\ home /\ settled /\ session
    => \A k \in DOMAIN ui.g : \A n \in DOMAIN ui.g[k].st : ui.g[k].st[n] = "completed"
=============================================================================
