----------------------------- MODULE SessionLife -----------------------------
(***************************************************************************)
(* How the sessions of one server come and go: their directories and the   *)
(* index that lists them (SessionStore), the Experiment Hub dashboards a   *)
(* turn, a socket or a REST call opens, closes and repairs, the hub's runs *)
(* that outlive a turn (HubRunSupervisor), the deletion of a session and   *)
(* the shutdown of the server.                                             *)
(*                                                                         *)
(* A step is what the event loop does between two suspension points.  The  *)
(* worker thread of a rewind runs beside it and holds the session's lock   *)
(* (session_lock), which makes the event loop wait, not interleave.        *)
(* The HubController is external: it changes the WorkflowContext it was    *)
(* built with, of which the active hub (active_multi_task_id) is kept.     *)
(***************************************************************************)
EXTENDS Integers, FiniteSets

CONSTANTS
  Session,     \* sessions, by their ids; an external id may come back
  Key,         \* run ids of hub commands, which are the same when issued again
  Request,     \* handlers and REST calls that may be under way at once
  Tabs,        \* sockets that send hub frames; each serves one frame at a time
  MaxRun,      \* bound: hub runs ever started
  MaxBirth,    \* bound: how often a session is created
  MaxHub,      \* bound: hubs ever opened
  Kinds        \* what happens: see Next

AllKinds == {"delete", "close", "command", "submission", "open", "turn", "rewind",
             "connect", "late", "shutdown"}

ASSUME LifeAssumption ==
  /\ Kinds \subseteq AllKinds
  /\ Tabs \in Nat /\ MaxRun \in Nat /\ MaxBirth \in Nat /\ MaxHub \in Nat
  /\ Key \cap Nat = {} /\ IsFiniteSet(Request)

VARIABLES
  \* --- on disk -------------------------------------------------------------
  full,        \* the sessions that have a directory with session_state.json
  bare,        \* those that have an (older) directory without one
  state,       \* what session_state.json says of the hubs
  index,       \* the sessions in sessions_index.json
  \* --- in the server process -----------------------------------------------
  thread,      \* the worker thread of a rewind of each session
  turn,        \* the turn of each session
  run,         \* the asyncio tasks of hub runs
  tracked,     \* HubRunSupervisor._runs: the tasks in it
  req,         \* handlers and REST calls under way
  up,          \* the server serves
  \* --- history --------------------------------------------------------------
  births       \* how often each session was created

disk == <<full, bare, state, index>>
vars == <<full, bare, state, index, thread, turn, run, tracked, req, up, births>>

Hub == 1..MaxHub
Run == 1..MaxRun
None == 0
NoSession == "none"

Fresh == [hub |-> None, ref |-> [h \in Hub |-> "none"]]
NoThread == [at |-> "idle", copy |-> Fresh, seen |-> {}]
NoRun == [s |-> NoSession, key |-> None, wc |-> None, pc |-> "new"]
NoReq == [op |-> "none", s |-> NoSession, h |-> None, key |-> None, at |-> "idle", keys |-> {},
          wait |-> None, pre |-> {}, rest |-> {}]

Alive == {i \in Run : run[i].pc \in {"queued", "live", "unwinding", "dropped"}}

Init ==
  /\ full = {} /\ bare = {} /\ index = {}
  /\ state = [s \in Session |-> Fresh]
  /\ thread = [s \in Session |-> NoThread]
  /\ turn = [s \in Session |-> "idle"]
  /\ run = [i \in Run |-> NoRun] /\ tracked = {}
  /\ req = [r \in Request |-> NoReq] /\ up = TRUE
  /\ births = [s \in Session |-> 0]

\* A handler that awaits nothing runs on: of the event loop nothing else does.
LoopFree == \A r \in Request : req[r].at # "cancel" \/ req[r].wait # None

-----------------------------------------------------------------------------
(* The store.                                                              *)

\* _holding_session_lock: the event loop waits for the worker thread.
LockFree(s) == thread[s].at = "idle"

\* get_session_dir makes a directory when there is none.
WithDir(s) == IF s \in full THEN bare ELSE bare \union {s}

\* update_session, update_message, append_message: a session that is not there
\* is left alone; the index is written from a scan.
Persist(s, c) ==
  /\ LockFree(s)
  /\ state' = IF s \in full THEN [state EXCEPT ![s] = c] ELSE state
  /\ index' = IF s \in full THEN full ELSE index

\* list_sessions: an empty or missing index means a scan.
Listing == IF index = {} THEN full ELSE index

\* The next hub id: ids are random and do not come back.
Used == {h \in Hub : \/ \E s \in Session : state[s].ref[h] # "none" \/ h = state[s].hub
                     \/ \E i \in Run : run[i].wc = h
                     \/ \E r \in Request : req[r].h = h}
NewHub == {h \in Hub : h \notin Used /\ \A g \in Hub \ Used : h <= g}

\* create_session, for a new id or, by attach_or_create_session, for an external
\* one that no stored session has.  Within the second of a directory without
\* state the names are the same.
Create(s) ==
  /\ LoopFree /\ up /\ s \notin full /\ births[s] < MaxBirth
  /\ full' = full \union {s} /\ bare' \in {bare, bare \ {s}}
  /\ state' = [state EXCEPT ![s] = Fresh]
  /\ index' = full'
  /\ births' = [births EXCEPT ![s] = @ + 1]
  /\ UNCHANGED <<thread, turn, run, tracked, req, up>>

\* The truncation of a rewind, in its thread: read, ...
ThreadReads(s) ==
  /\ LoopFree /\ "rewind" \in Kinds /\ up /\ s \in full /\ LockFree(s)
  /\ thread' = [thread EXCEPT ![s] = [at |-> "write", copy |-> state[s], seen |-> {}]]
  /\ UNCHANGED <<disk, turn, run, tracked, req, up, births>>

\* The messages that are cut take their dashboard_refs along.
Without(c, cut) ==
  [hub |-> c.hub, ref |-> [h \in Hub |-> IF h \in cut THEN "none" ELSE c.ref[h]]]

\* ... write the state without the messages that were cut (_persist_session makes
\* a directory when there is none), ...
ThreadWrites(s) ==
  /\ thread[s].at = "write"
  /\ \E cut \in SUBSET Hub : state' = [state EXCEPT ![s] = Without(thread[s].copy, cut)]
  /\ full' = full \union {s} /\ bare' = IF s \in full THEN bare ELSE bare \ {s}
  /\ thread' = [thread EXCEPT ![s].at = "scan"]
  /\ UNCHANGED <<index, turn, run, tracked, req, up, births>>

\* ... then scan all sessions and write the index.
ThreadScans(s) ==
  /\ thread[s].at = "scan"
  /\ thread' = [thread EXCEPT ![s] = [@ EXCEPT !.at = "index", !.seen = full]]
  /\ UNCHANGED <<disk, turn, run, tracked, req, up, births>>
ThreadLists(s) ==
  /\ thread[s].at = "index"
  /\ index' = thread[s].seen
  /\ thread' = [thread EXCEPT ![s] = NoThread]
  /\ UNCHANGED <<full, bare, state, turn, run, tracked, req, up, births>>

-----------------------------------------------------------------------------
(* Hub runs.                                                               *)

Begin(i) ==
  /\ LoopFree /\ run[i].pc = "queued"
  /\ run' = [run EXCEPT ![i].pc = "live"]
  /\ UNCHANGED <<disk, thread, turn, tracked, req, up, births>>

\* The persist callback of the controller: its copy of the workflow context,
\* whatever has become of the stored one.
RunPersists(i) ==
  /\ LoopFree /\ run[i].pc \in {"live", "unwinding"}
  /\ Persist(run[i].s, [state[run[i].s] EXCEPT !.hub = run[i].wc])
  /\ UNCHANGED <<full, bare, thread, turn, run, tracked, req, up, births>>

\* A command ends with _run_and_persist's finally, a submission without.  A task
\* that was cancelled before its first step runs neither.
RunEnds(i) ==
  /\ LoopFree /\ run[i].pc \in {"live", "unwinding", "dropped"}
  /\ IF run[i].pc # "dropped" /\ run[i].key \in Key
     THEN Persist(run[i].s, [state[run[i].s] EXCEPT !.hub = run[i].wc])
     ELSE UNCHANGED <<state, index>>
  /\ run' = [run EXCEPT ![i] = [NoRun EXCEPT !.pc = "done"]]
  /\ tracked' = tracked \ {i}   \* the done callback gives up its own slot only
  /\ UNCHANGED <<full, bare, thread, turn, req, up, births>>

Keys(s) == {run[i].key : i \in {j \in tracked : run[j].s = s}}

\* HubRunSupervisor.cancel: one of the run ids at hand, if it is live, is
\* cancelled and awaited.
CancelNext(r) ==
  /\ req[r].at = "cancel" /\ req[r].wait = None
  /\ \E k \in req[r].keys :
       LET own == {i \in tracked : run[i].s = req[r].s /\ run[i].key = k}
       IN  IF own = {}
           THEN req' = [req EXCEPT ![r].keys = @ \ {k}] /\ UNCHANGED run
           ELSE \E i \in own :
                  /\ req' = [req EXCEPT ![r].keys = @ \ {k}, ![r].wait = i]
                  /\ run' = [run EXCEPT ![i].pc = CASE @ = "queued" -> "dropped"
                                                    [] @ = "live" -> "unwinding"
                                                    [] OTHER -> @]
  /\ UNCHANGED <<disk, thread, turn, tracked, up, births>>

Awaited(r) ==
  /\ LoopFree /\ req[r].wait # None /\ run[req[r].wait].pc = "done"
  /\ req' = [req EXCEPT ![r].wait = None]
  /\ UNCHANGED <<disk, thread, turn, run, tracked, up, births>>

\* Mutant: the runs are told to stop and not waited for.
CancelledAll(r) == req[r].at = "cancel" /\ req[r].keys = {}

\* The loop over the run ids is over.
Cancelled(r) == req[r].at = "cancel" /\ req[r].keys = {} /\ req[r].wait = None

-----------------------------------------------------------------------------
(* What sockets and REST calls ask of the hub.                             *)

Serving(r) == up /\ req[r].op = "none"
HubFrames == {"command", "open"}
TabFree == Cardinality({r \in Request : req[r].op \in HubFrames}) < Tabs

\* Mutant: nothing of the same id is cancelled.
ToReplaceNone(k) == {}

\* spawn cancels the run of the same id first; a submission's id is new.
ToReplace(k) == {k} \intersect Key

\* A hub_command frame, or the POST that runs a submission: the controller is
\* built with a copy of the workflow context, {} if the session is gone, then
\* spawn.
AskRun(r, s, k) ==
  /\ LoopFree /\ Serving(r)
  /\ \/ k \in Key /\ "command" \in Kinds /\ TabFree
     \/ k = None /\ "submission" \in Kinds
  /\ births[s] > 0
  /\ bare' = WithDir(s)
  /\ req' = [req EXCEPT ![r] = [NoReq EXCEPT !.op = IF k = None THEN "submission" ELSE "command",
               !.s = s, !.h = IF s \in full THEN state[s].hub ELSE None,
               !.key = k, !.at = "cancel", !.keys = ToReplace(k)]]
  /\ UNCHANGED <<full, state, index, thread, turn, run, tracked, up, births>>

\* The rest of spawn; the POST then persists the controller's copy.
Spawn(r) ==
  /\ req[r].op \in {"command", "submission"} /\ Cancelled(r)
  /\ LET s == req[r].s
         k == req[r].key
     IN  \E i \in Run :
           /\ run[i].pc = "new" /\ \A j \in Run : j < i => run[j].pc # "new"
           /\ run' = [run EXCEPT ![i] = [s |-> s, key |-> IF k = None THEN i ELSE k,
                                         wc |-> req[r].h, pc |-> "queued"]]
           /\ tracked' = {i} \union {j \in tracked : run[j].s # s \/ run[j].key # k}
           /\ IF k = None THEN Persist(s, [state[s] EXCEPT !.hub = req[r].h])
              ELSE UNCHANGED <<state, index>>
  /\ req' = [req EXCEPT ![r] = NoReq]
  /\ UNCHANGED <<full, bare, thread, turn, up, births>>

\* A dashboard_ref of a hub that has one already is not appended again, whatever
\* its status.
Shown(c, h) == [c EXCEPT !.ref[h] = IF @ = "none" THEN "open" ELSE @]

\* The controller, external, focuses the active hub of its copy or makes one; or
\* it fails: then the caller takes an id, and no hub becomes active.
Opened(s, wc, ids) ==
  \/ \E h \in NewHub \union ({wc} \ {None}) :
       Persist(s, Shown([state[s] EXCEPT !.hub = h], h))
  \/ \E h \in ids : Persist(s, Shown([state[s] EXCEPT !.hub = wc], h))

\* An open_dashboard frame: build, await the controller, persist, mark.
AskOpen(r, s) ==
  /\ LoopFree /\ "open" \in Kinds /\ Serving(r) /\ TabFree /\ births[s] > 0
  /\ bare' = WithDir(s)
  /\ req' = [req EXCEPT ![r] = [NoReq EXCEPT !.op = "open", !.s = s, !.at = "open",
                                !.h = IF s \in full THEN state[s].hub ELSE None]]
  /\ UNCHANGED <<full, state, index, thread, turn, run, tracked, up, births>>
Open(r) ==
  /\ LoopFree /\ req[r].at = "open"
  /\ Opened(req[r].s, req[r].h, NewHub)
  /\ req' = [req EXCEPT ![r] = NoReq]
  /\ UNCHANGED <<full, bare, thread, turn, run, tracked, up, births>>

\* close_dashboard: the subtab's marker and the active hub, then the session's runs
\* are cancelled.
AskClose(r, s, h) ==
  /\ LoopFree /\ "close" \in Kinds /\ Serving(r) /\ s \in full /\ state[s].ref[h] # "none"
  /\ Persist(s, [hub |-> IF state[s].hub = h THEN None ELSE state[s].hub,
                 ref |-> [state[s].ref EXCEPT ![h] = "closed"]])
  /\ req' = [req EXCEPT ![r] = [NoReq EXCEPT !.op = "close", !.s = s, !.h = h,
                                !.at = "cancel", !.keys = Keys(s)]]
  /\ UNCHANGED <<full, bare, thread, turn, run, tracked, up, births>>
Close(r) ==
  /\ req[r].op = "close" /\ Cancelled(r)
  /\ req' = [req EXCEPT ![r] = NoReq]
  /\ UNCHANGED <<disk, thread, turn, run, tracked, up, births>>

\* A connect: reconcile_dashboard_ref_statuses looks for a file nobody writes.
Connect(s) ==
  /\ LoopFree /\ "connect" \in Kinds /\ up /\ s \in full
  /\ \E h \in Hub : state[s].ref[h] = "open"
  /\ Persist(s, [state[s] EXCEPT !.ref = [h \in Hub |-> IF @[h] = "open" THEN "closed" ELSE @[h]]])
  /\ UNCHANGED <<full, bare, thread, turn, run, tracked, req, up, births>>

-----------------------------------------------------------------------------
(* Turns, as far as they matter here.                                      *)

Evicting(s) == \E r \in Request : req[r].at = "evict" /\ req[r].s = s

StartTurn(s) ==
  /\ LoopFree /\ "turn" \in Kinds /\ up /\ s \in full /\ turn[s] = "idle" /\ ~Evicting(s)
  /\ turn' = [turn EXCEPT ![s] = "running"]
  /\ UNCHANGED <<disk, thread, run, tracked, req, up, births>>

\* _find_open_dashboard: a subtab that is open is used again.
OpenHub(s) == {h \in Hub : state[s].ref[h] = "open"}

\* A tool of the turn opens the hub (create_experiment_hub, open_experiment_hub).
TurnOpens(s) ==
  /\ LoopFree /\ "open" \in Kinds /\ turn[s] = "running" /\ s \in full
  /\ Opened(s, state[s].hub, IF OpenHub(s) = {} THEN NewHub ELSE OpenHub(s))
  /\ UNCHANGED <<full, bare, thread, turn, run, tracked, req, up, births>>

\* A completed turn writes a workflow context made from the inferencer's, which
\* knows no hub; a failed or cancelled one does not.
EndTurn(s) ==
  /\ LoopFree /\ turn[s] # "idle"
  /\ turn' = [turn EXCEPT ![s] = "idle"]
  /\ \/ turn[s] = "running" /\ Persist(s, [state[s] EXCEPT !.hub = None])
     \/ UNCHANGED <<state, index>>
  /\ UNCHANGED <<full, bare, thread, run, tracked, req, up, births>>

-----------------------------------------------------------------------------
(* The end of a session, and of the server.                                *)

\* DELETE /sessions/{id}: evict the conversation, ...
AskDelete(r, s) ==
  /\ LoopFree /\ "delete" \in Kinds /\ Serving(r) /\ s \in full
  /\ turn' = [turn EXCEPT ![s] = IF @ = "running" THEN "unwinding" ELSE @]
  /\ req' = [req EXCEPT ![r] = [NoReq EXCEPT !.op = "delete", !.s = s, !.at = "evict"]]
  /\ UNCHANGED <<disk, thread, run, tracked, up, births>>

\* ... which waits for its turn, but not for ever, ...
Evicted(r) ==
  /\ LoopFree /\ req[r].at = "evict"
  /\ turn[req[r].s] = "idle" \/ "late" \in Kinds
  /\ req' = [req EXCEPT ![r] = [@ EXCEPT !.at = "cancel", !.keys = Keys(req[r].s),
                                !.pre = {i \in tracked : run[i].s = req[r].s}]]
  /\ UNCHANGED <<disk, thread, turn, run, tracked, up, births>>

\* Mutant: delete_session does not take the session's lock.
RemovableUnlocked(r) == req[r].op = "delete" /\ Cancelled(r)

Removable(r) == req[r].op = "delete" /\ Cancelled(r) /\ LockFree(req[r].s)

\* ... cancel the hub's runs, drop the graph snapshots (which makes a directory if
\* there is none) and remove the newest directory.  The index is left.
Delete(r) ==
  /\ Removable(r)
  /\ LET s == req[r].s
     IN  /\ full' = full \ {s}
         /\ bare' = IF s \in full THEN bare ELSE bare \ {s}
         /\ state' = [state EXCEPT ![s] = Fresh]
  /\ req' = [req EXCEPT ![r] = NoReq]
  /\ UNCHANGED <<index, thread, turn, run, tracked, up, births>>

\* The lifespan ends when the requests are answered: the runs of each listed
\* session are cancelled.
Shutdown(r) ==
  /\ "shutdown" \in Kinds /\ up /\ \A q \in Request : req[q].op = "none"
  /\ \A s \in Session : turn[s] = "idle" /\ LockFree(s)
  /\ up' = FALSE
  /\ req' = [req EXCEPT ![r] = [NoReq EXCEPT !.op = "shutdown", !.at = "cancel", !.rest = Listing]]
  /\ UNCHANGED <<disk, thread, turn, run, tracked, births>>
ShutdownNext(r) ==
  /\ req[r].op = "shutdown" /\ Cancelled(r)
  /\ \E s \in req[r].rest :
       req' = [req EXCEPT ![r].s = s, ![r].keys = Keys(s), ![r].rest = @ \ {s}]
  /\ UNCHANGED <<disk, thread, turn, run, tracked, up, births>>

Next ==
  \/ \E s \in Session :
       \/ Create(s) \/ Connect(s) \/ StartTurn(s) \/ TurnOpens(s) \/ EndTurn(s)
       \/ ThreadReads(s) \/ ThreadWrites(s) \/ ThreadScans(s) \/ ThreadLists(s)
  \/ \E i \in Run : Begin(i) \/ RunPersists(i) \/ RunEnds(i)
  \/ \E r \in Request :
       \/ CancelNext(r) \/ Awaited(r) \/ Spawn(r) \/ Open(r) \/ Close(r)
       \/ Evicted(r) \/ Delete(r) \/ Shutdown(r) \/ ShutdownNext(r)
       \/ \E s \in Session :
            \/ AskOpen(r, s) \/ AskDelete(r, s)
            \/ \E k \in Key \union {None} : AskRun(r, s, k)
            \/ \E h \in Hub : AskClose(r, s, h)

Spec == Init /\ [][Next]_vars

-----------------------------------------------------------------------------
(* Properties.                                                             *)

Content == [hub : Hub \union {None}, ref : [Hub -> {"none", "open", "closed"}]]
Rewind == [at : {"idle", "write", "scan", "index"}, copy : Content, seen : SUBSET Session]
HubRun == [s : Session \union {NoSession}, key : Key \union {None} \union Run,
           wc : Hub \union {None},
           pc : {"new", "queued", "live", "unwinding", "dropped", "done"}]
Call == [op : {"none", "delete", "close", "command", "submission", "open", "shutdown"},
         s : Session \union {NoSession}, h : Hub \union {None}, key : Key \union {None},
         at : {"idle", "evict", "open", "cancel"}, keys : SUBSET (Key \union {None} \union Run),
         wait : Run \union {None}, pre : SUBSET Run, rest : SUBSET Session]

TypeOK ==
  /\ full \subseteq Session /\ bare \subseteq Session /\ index \subseteq Session
  /\ state \in [Session -> Content]
  /\ thread \in [Session -> Rewind]
  /\ turn \in [Session -> {"idle", "running", "unwinding"}]
  /\ run \in [Run -> HubRun]
  /\ tracked \subseteq Run
  /\ req \in [Request -> Call]
  /\ up \in BOOLEAN /\ births \in [Session -> 0..MaxBirth]

\* The supervisor's registry holds the runs that have not ended, where those who
\* cancel by session or by id reach them.  With two tabs it may not (OneRunPerId).
RunsAreTracked == tracked = Alive

\* No two live runs have one id (spawn: "so a re-issued run can't double-execute").
OneRunPerId ==
  \A i, j \in Alive : <<run[i].s, run[i].key>> = <<run[j].s, run[j].key>> => i = j

\* The id of a submission's run is its own.
KeysAreOwn == \A i \in Alive : run[i].key \in Key \/ run[i].key = i

\* With one tab the hub frames under way are at most one.
OneFrame ==
  \A q, r \in Request : (req[q].op \in HubFrames /\ req[r].op \in HubFrames) => q = r

\* spawn has the run of its id before it, or waits for it, or there is none.
Replacing(c) ==
  c.op = "command" =>
    /\ c.key \in Key
    /\ \A i \in Alive : (run[i].s = c.s /\ run[i].key = c.key) => c.key \in c.keys \/ c.wait = i

\* The deletion of a session has each run it found before it, or waits for it, or
\* the run has ended.
Awaiting(c) ==
  (c.op = "delete" /\ c.at = "cancel") =>
    \A i \in c.pre : \/ run[i].pc = "done"
                     \/ i \in Alive /\ run[i].s = c.s /\ (run[i].key \in c.keys \/ c.wait = i)

CallsInStep ==
  \A r \in Request :
    /\ Replacing(req[r]) /\ Awaiting(req[r])
    /\ req[r].op = "submission" => req[r].key = None

\* The types, every live run within reach of those who cancel runs, and what the
\* calls under way still have to cancel.
IInv == TypeOK /\ RunsAreTracked /\ OneRunPerId /\ KeysAreOwn /\ OneFrame /\ CallsInStep

\* A truncation writes into a session that is there: delete_session waits for the
\* session's lock.
WritesIntoSession == \A s \in Session : thread[s].at = "write" => s \in full

\* Nothing but a creation makes a session: what unwinds, persists or truncates
\* while the session is deleted does not bring it back (delete_session).
NoResurrection ==
  [][\A s \in Session : s \in full' \ full => births'[s] = births[s] + 1]_vars

\* A session's directory goes after the runs that were in it when its deletion came
\* to cancel them (DELETE /sessions/{id}: "an unwinding run still writes there").
DeleteFollowsItsRuns ==
  \A r \in Request : Removable(r) => \A i \in req[r].pre : run[i].pc = "done"

\* Neither of the last two holds; section 3.1 of the README describes the traces.
\* When a close is answered the hub is not the active one (_close_in_workflow_context:
\* "so a resume doesn't refocus the hub").
ClosedHubIsInactive ==
  \A r \in Request : (req[r].op = "close" /\ Cancelled(r)) => state[req[r].s].hub # req[r].h

\* The server ends without hub runs (_cancel_hub_runs: "every session's Experiment
\* Hub runs still in flight").
ShutdownLeavesNoRun ==
  \A r \in Request : (req[r].op = "shutdown" /\ Cancelled(r) /\ req[r].rest = {}) => Alive = {}

=============================================================================
