# OpenTeam: TLA+ models, checks and proofs

This directory holds a TLA+ model of the OpenTeam server (`src/src/openteam`),
the TLC configurations that check it and the proofs that TLAPS checks. Paths
below are relative to `src/src/openteam`. These abbreviations are used:

| | file |
|---|---|
| MW | `server/routes/manager_websocket_routes.py` |
| CS | `server/services/conversation_service.py` |
| SS | `server/services/session_store.py` |
| WI | `server/services/websocket_interactive.py` |
| TD | `server/services/tool_dispatcher.py` |
| TS, TR | `server/services/task_graph_snapshot.py`, `server/services/task_graph_reconstruct.py` |
| DR, HF | `server/services/dashboard_runtime.py`, `server/services/hub_factory.py` |
| UG | `ui/src/hooks/useGraphState.js` |
| UI | `ui/src/hooks/useManagerChat.js` |
| SUP, DIS, REG | `client/supervisor.py`, `client/discovery.py`, `server/_register.py` |

## 1. The system

A browser tab opens a WebSocket to the server (`/ws/manager`). Every socket has
its own receive loop, which turns frames into asyncio tasks. A task runs one
*turn* of a conversation: it takes the session's turn lock, calls a vendor's
agent, streams output, may put a *widget* (a question) on display and wait for
its answer, and ends with a terminal frame. Sessions live as directories on
disk; native vendor sessions, background tasks and hubs hang off a session or off
the server.

### 1.1 Components, state, operations

| component | state | operations | talks to | what is hard |
|---|---|---|---|---|
| receive loop (MW `manager_websocket`) | `active_task`, `active_input_queue`, `pending_input_cache`, local names of the function | one branch per frame: message, cancel, pending_input_response, resume_from_turn/round, hub_command, connect, disconnect | creates turn tasks, awaits them on a rewind | a frame between any two steps of a turn; two tabs on one session; frames of a closed socket |
| turn tasks (MW `process_message`, `_run_resume_from_round`, `_run_widget_recovery`; CS) | where the task is, its input queue, its cancellation | start, acquire lock, run, ask, await, complete, fail, unwind, finally | lock, store, client | cancellation arrives at any suspension point; unwinding takes time |
| turn lock (CS `_session_turn`) | one FIFO `asyncio.Lock` per session, the registered running turns | acquire, release, prepare_rewind, `_evict` (bounded by a timeout) | all tasks of a session, whatever their socket | a turn that awaits a person holds it |
| widget router (WI) | the queue of the turn, the cache, the durable marker | asend_response, persist, aget_input | marker in SS | answer before persist; answer after the turn is gone |
| browser client (UI) | `pendingInput`, `isStreaming` | which frames can be sent | WebSocket | auto-advance while a widget is displayed |
| session store (SS) | `session.json`, messages, `turn_NNN` and round directories, checkpoints, widget sidecar | append, begin turn, truncate, checkpoint, restore, pending input set/clear | disk | several files changed in sequence; crash in between |
| native sessions (`native_session_store.py`, CS) | the vendor's session per conversation | record, rewind, restore | SS | a record replaced under a running turn |
| background tasks (TD, CS, SS) | registered tasks per session, chips in the history, task workspaces with sidecars | dispatch (reuse, resume, new), run, complete, fail, drain, evict, reconcile, drop workspaces | turns, rewinds, SS | a rewind between any two steps of a task; a restart; the set of live tasks must be read before eviction forgets it |
| task graphs (TS, TR, WI, UG) | a mirror of the graph events, its file, the page's copy with a race buffer and a queue for the next frame | apply, prune, store, load, rebuild from directories, replay, merge | background tasks, client | events out of order and repeated; replay over a live page; restart |
| server discovery (`client/supervisor.py`, `client/discovery.py`, `server/_register.py`) | launch-lock file, registry files | launch, wait, register, unregister, reap | other processes | races between processes on files, stale locks |
| sessions, dashboards and hubs (SS, DR, HF, `session_routes.py`, `dashboards_routes.py`, `main.py`) | directories, index, the active hub, the registry of hub runs | create, delete, open, command, submission, close, reconcile, shut down | external hub package, turns, rewinds | a run that unwinds while its session is deleted; a replaced run; stale copies written back |
| Slack bridge (`integrations/slack`) | none: a subprocess with a timeout per call | one call | Slack | each call returns or times out |
| backends, tool executors, REST routes, MCP server, React views | none that outlives a call, or none of their own | | | pure I/O or rendering |

### 1.2 What makes each component correct

* **Turns.** Turns of a session never overlap, a cancelled turn that is still
  unwinding included. Every turn that nobody cancelled is reachable by the next
  frame of its connection. Cancelled turns end. A closed tab frees the session.
* **Widgets.** An answer goes to the turn that asked; an answered widget is over
  for good, across reconnects and crashes; an unanswered one survives them.
* **Rewinds.** Nobody writes the session while it is truncated; a rewinding frame
  returns.
* **Store.** Messages, turn numbers and turn directories agree after any prefix
  of a truncation; a checkpoint restores what was stored.
* **Discovery.** Launches are serialised; concurrent calls start one server; the
  registry entry of a live server is not removed by another process.
* **Background tasks.** One writer per workspace; a live task is not written off; a
  kept chip keeps its workspace; a result is shown only for what it was made for.
* **Graphs.** The mirror never goes back, outlives the task and the server, and what
  replay shows is what the stream showed.
* **Sessions and hubs.** A deleted session stays deleted and goes after its runs; a
  hub command issued again does not run twice; every live run can be cancelled.

## 2. Modules

| module | what it is |
|---|---|
| `ManagerSession` | one session: receive loops, turn tasks, turn lock, widget marker, client flags |
| `MCManagerSession` | symmetry of the connections, for TLC |
| `ManagerSession_proofs` | the inductive invariant and its consequences, the layer for one tab, proved |
| `ServerDiscovery` | processes that find, launch and register the server of one runtime root |
| `MCServerDiscovery` | symmetry of the callers, for TLC |
| `ServerDiscovery_proofs` | its inductive invariant and the three safety properties, proved |
| `WidgetSlot` | abstract: one durable widget or none, which never comes back |
| `SessionHistory` | the files of one session under turns, rewinds and crashes; implements `WidgetSlot` |
| `SessionHistory_proofs` | its inductive invariant, the refinement of `WidgetSlot`, fresh turns, recoverable cuts, proved |
| `HistoryFiles_proofs` | on top of it: what the bubbles, the SOP and the summaries stand on, proved |
| `GraphRebuild` | a task's graph rebuilt from its directories, as operators |
| `GraphRebuild_proofs` | every rebuilt graph can be walked, proved |
| `TaskGraph` | one task's graph: run, mirror, file, replay, browser page |
| `MCTaskGraph` | the trees and nodes of the instance, for TLC |
| `TaskGraph_proofs` | its inductive invariant and what the mirror keeps, proved |
| `BackgroundTasks` | the background tasks of one session: tasks, chips, workspaces, rewinds, restarts |
| `MCBackgroundTasks` | symmetry of the targets, for TLC |
| `BackgroundTasks_proofs` | its inductive invariant and the five safety properties, proved |
| `SessionLife` | sessions created and deleted, hub runs, dashboards, shutdown |
| `MCSessionLife` | symmetry, for TLC |
| `SessionLife_proofs` | type correctness, deletion and the reach of cancellation, proved |

`ManagerSession` has the concurrency of turns and rewinds, which the other session
modules take for granted (a turn and a rewind exclude each other) and it proves;
`SessionHistory`, `BackgroundTasks` and `SessionLife` have what these turns and
rewinds do to the files, to the tasks and to the session as a whole.

### 2.1 `ManagerSession`

A step is the code between two suspension points of the event loop; the
server is one process with one loop, so nothing interleaves inside a step.

| variable | code |
|---|---|
| `handler`, `mode` | where a receive loop is: idle at `receive_text`, or inside a rewinding frame (`quiesce`: MW:346, `rewind`: CS:740, `truncate`: the worker thread, `evict`: CS:607) |
| `activeTask`, `activeQueue`, `cache`, `jsonBound` | locals of `manager_websocket` (MW:1010-1027 and `_json`, MW:1757) |
| `pc`, `job`, `at`, `inbox`, `cancelReq`, `stamp`, `turn` | a turn task, its kind, the widget it displays, its queue, a cancellation not yet delivered, the number stamped on its message, the number it allocated |
| `holder`, `lockQueue` | the session's `asyncio.Lock` |
| `marker`, `dirs` | `session["pending_input"]`, the number of turn directories |
| `shown`, `busy` | the client's `pendingInput` and `isStreaming` |
| `emitted`, `appliedLive`, `recoveries` | history, read by properties only |

`ClientFrame` collects the frames, `HandlerStep` the steps of a rewinding frame
after its awaits, `TurnStep` the steps of a turn, `Crash` the end of the
process. The client is part of the model because it decides which frames can
arrive: the composer is disabled while a widget is displayed or a turn is busy,
but the auto-advance of a finished background task is sent regardless.

A cancellation is two steps, a request (`cancelReq`) and its delivery
(`Interrupt`); a task that is `unwinding` still owns the lock and may be
overtaken by a newer task of the same connection. `cancelReq` of a task that is
already unwinding or leaving is dropped when that step completes.

`Frames` is the set of events an instance produces. It lets a run concentrate
on an interaction (and a bug be shown in a few steps); every action is enabled
in some passing run, and the theorems hold for every set of frames.

### 2.2 `ServerDiscovery`

Clients (calls of `ensure_server`) and servers are operating-system processes
that share a directory. A step is one file operation, one probe or one system
call; between any two steps every other process may run. The two modules share
no state: discovery ends where a browser or a TUI has found the server.

| variable | code |
|---|---|
| `lock`, `old` | `.launch.lock` with its creator; its mtime is further back than `wait_timeout_s` |
| `entry` | `server_<id>.json` of each port (`compute_server_id` hashes root, host and port, and root and host are fixed here): the pid in it |
| `cpc` | where a call is: `look` (SUP:58), `create` (SUP:119), `wait`, `stat`, `break` (SUP:122-142), `recheck` (SUP:151), `spawn`, `polling`, `poll` (SUP:155-204), `found`, `raise` (the `finally`, SUP:209) |
| `listed`, `found`, `reap` | `discover_servers` under way: files of the glob not yet read, handles so far, the file to unlink next |
| `polls`, `child` | polls left before the deadline, the `Popen` object |
| `spc`, `port`, `owns` | where a server is between `register_server` and its end, `--port`, whether its atexit and signal handlers are installed |
| `quiet`, `broken` | history: nothing went wrong so far; a waiter broke a lock |

The lifespan of the application registers before uvicorn binds the port, so an
entry exists before the server answers and a server that cannot bind has already
written one. A child that ended is a zombie until its launcher polls it or ends,
and a zombie passes `os.kill(pid, 0)`, so its entry is not reaped. Pids are
not reused. A registry file that vanishes between `exists` and `read_text` raises
`FileNotFoundError`, which the lifespan logs: that server runs unregistered.

`Faults` is what may go wrong in an instance: a lock grows old (`aging`), a
health check of a live server times out (`slow`), somebody starts a server by hand
(`manual`), SIGTERM (`stop`), SIGKILL of a caller or a server (`kill`).

### 2.3 `SessionHistory` and `WidgetSlot`

A step is one durable write, and the process may die between any two.

| variable | code |
|---|---|
| `state` | `session_state.json`: messages, SOP progress, backend, vendor record, the `pending_input` marker |
| `turns` | `turn_NNN/` with the rounds in it and the turn's summary |
| `blob` | the sidecar `pending_input.json` |
| `checkpoints` | `checkpoints/<ts>_<hex>/` |
| `vendor` | what the vendor's session remembers (external); a fork has what the record says, up to the cut |
| `live` | the SOP progress of the cached inferencer |
| `turn`, `op`, `ending` | where the running turn, the rewinding frame and a backend switch are |
| `minted`, `shown`, `flaws`, `faults` | history: ids, widgets that left the display, what a crash or a guess has made inaccurate |

A turn appends and stamps the message, makes its directory, writes rounds, vendor
record, bubble and summary; it may end in a widget, or fail: then its prompt is saved, an
error bubble is appended and its widget cleared. A rewind (to a turn, to a round, to a
checkpoint) rewinds the vendor session, takes a checkpoint, cuts the history and then
the directories, and evicts the cached inferencer, in the order of the code for its kind.

Directories, rounds and the children of a checkpoint are total functions with the value
`Missing`; `Dirs` gives the names that are there. A rewind takes its checkpoint before the
truncation takes the history lock (`Locked`), so a message may be posted in between: it is
cut, or kept, without being in the checkpoint.

`ImplementsSlot` maps `slot` to the widget a connect would display (that of the marker; none
during a restore and after one cut short by a crash) and `gone` to `shown`. Two files, three writers (turn, recovery,
rewind) and a crash between any two writes keep the promise that a widget which
left the display never returns; a crash of the server is a stutter of `WidgetSlot`.

`flaws` names what the code cannot know: a crash in the middle of a rewind, a cut
at a REST message that carries no turn (the code guesses the turn), a round run twice, a
vendor rewind not followed by the rest. Each property says which it tolerates.

### 2.4 `TaskGraph` and `GraphRebuild`

One task with a container node and nodes inside it. `phase`, `settled`, `roots`,
`stages`, `real` are the run (an external inferencer, which may report a status before
its node and topologies out of order); `mem` and `disk` the mirror and its file (TS);
`session`, `chip` what else decides a look-up; `sock`, `home`, `wire`, `replay`, `load`
the connection of the page and what is on its way; `ui`, `queue`, `buf`, `seen`,
`asked`, `after` the page's reducer (UG), with the updates that wait for the next
animation frame and the statuses set aside for a node the page does not have.

A look-up has three tiers: memory, file, directories. For the third, `GraphRebuild` has
the recursive builder of TR and its canonical shapes as operators over a tree of
named directories; an instance is a set of trees (`Workspaces`). A replay under way holds
the lists of the mirror's levels, not copies of them: a status reported later shows in what
is still to be sent (`Linked`), until a topology replaces the list.

### 2.5 `BackgroundTasks`

| variable | code |
|---|---|
| `log` | what each stage (round) of the history asks for: `inference_response.txt` |
| `chips` | `task_ref` messages |
| `dirs` | task workspaces: there or not, sidecar, completion marker, what was made in it |
| `saved` | the checkpoint that can be restored |
| `tasks`, `tracked` | the asyncio tasks and `_bg_tasks[session]` |
| `adopted` | `_backfill_done` of the dispatcher |
| `turn`, `op` | the running turn and the rewinding frame |
| `breaks` | rewinds and restarts so far |

`Dispatch` is `_dispatch_as_task`: adopt workspaces without a sidecar, reuse a completed
one, resume an interrupted one, or make a new one. `Run`, `Mark`, `Return`, `Complete`,
`Fail`, `Unwind` are the task; `Slash` and `SlashEnd` a developer slash command. A rewind
cancels and awaits the tasks (`Quiesce`, `Drained`), copies, cuts, removes the
workspaces of the cut if asked to, evicts, and sends the page its history, which heals the
chips of tasks that are not among the live ones read before the eviction. A sidecar and
its chip are one step, as no suspension point lies between them.

### 2.6 `SessionLife`

| variable | code |
|---|---|
| `full`, `bare`, `state`, `index` | directories with and without `session_state.json`, the active hub in it, `sessions_index.json` |
| `thread` | the worker thread of a rewind, which holds the session's lock |
| `turn` | a turn that may open a hub |
| `run`, `tracked` | asyncio tasks of hub runs, `HubRunSupervisor._runs` |
| `req`, `up` | socket handlers and REST calls that wait for something; the server serves |
| `births` | history: how often a session was created |

A step is the code up to the next suspension point. Waiting is what matters here:
`spawn` awaits the run it replaces, `close`, `delete` and the shutdown await the runs they
cancel (up to a timeout, `late`), and a run that was cancelled writes the workflow context
on its way out. The truncating thread is the only code that runs beside the event loop.
`Tabs` is the number of sockets, each of which serves one hub frame at a time.

## 3. Runs

| run | instance | shows |
|---|---|---|
| `one` | one tab at a time, one reconnect, three tasks, two widgets; message, cancel, answer, resume_from_turn, disconnect, crash | `StampMatches`, `TruncateExclusive`, `AnsweredStaysAnswered`, `NoLateTerminal` |
| `tabs` | two tabs open at once, two tasks, two widgets; message, auto-advance, answer, hub confirmation, resume_from_turn, failures, disconnect, crash | `IInv`, `TurnExclusion`, `QueueOwnerLive`, `NoOrphanTurn` |
| `live` | fair; one tab at a time, three tasks, one widget; message, answer, disconnect, the three rewinding frames | `CancelledTurnEnds`, `RewindReturns`, `AbandonedSessionIsFree` |
| `fit` | violation of `AnswersFit` | an answer is taken by the next widget of the turn that replaced its own |
| `launch` | two calls, two servers, two ports, one poll after the first, every fault | `IInv`, `LaunchExclusion`, `OneLaunch`, `SoleServerIsRegistered` |
| `files` | two turns, three ids, two rounds and checkpoints, REST messages, backend switches, hub answers, the three rewinds, one crash or failing turn | `IInv`, `BubblesHaveRounds`, `SummaryOfTheKept`, `SopOfTheKept`, `VendorInStep`, `FreshTurnIsNew`, `CutIsRecoverable`, `ImplementsSlot` |
| `undo` | violation of `RestoredInLine` | after resume_from_turn and the restore of its checkpoint the vendor has forgotten a message that is displayed |
| `graph` | fair; one task, container and two nodes, two connections, one restart, nine directory trees | `IInv`, `MirrorIsNewest`, `EndedGraphSurvives`, `DeletedStaysDeleted`, `FreshPageShowsTheEnd`, `RebuiltIsNavigable`, `MirrorKeepsStatus`, `EndedGraphIsShown` |
| `tasks` | two tasks, two stages, two targets, two breaks (rewind, restore, restart) | `IInv`, `OneWriter`, `LiveNotWrittenOff`, `ChipsKeepTheirWorkspace`, `RightReuse`, `CutIsQuiet` |
| `reuse` | violation of `RightReuse` | a tool that works in a directory of its own: the result of a request that was rewound is handed out for another |
| `life` | one session born twice, two calls at once, two runs, one hub, one socket, every event | `IInv`, `DeleteFollowsItsRuns`, `NoResurrection` |
| `double` | violation of `OneRunPerId` | two sockets issue one hub command while the run it replaces unwinds: both start it |

The four findings (`fit`, `undo`, `reuse`, `double`) quote the comment the code disagrees
with in `PROJECT.json`.

**Bounds.** `MaxTask` (tasks ever created), `MaxWidget`, `Tabs` (sockets open at
once), `Conn` (sockets ever opened) and `QueueBound` (confirmations waiting
in one queue) are the only bounds. Every hazard is between a turn, the turn that
replaced it and, for a rewind, the turn run again: three tasks. A widget and
its successor are two. A connection and the one after it, or beside it, are two.
The bounded behaviours stop when tasks are used up and people may stop
answering, so deadlock is not checked: a session with nothing to do is idle.
Connections are symmetric and `SYMMETRY` is used in the runs without liveness.

In `ServerDiscovery` the bounds are `Client`, `MaxServer`, `Port` and `Polls`.
Every race is between two processes: a launcher and a waiter, two servers of a
port, a server and a reader. Two of each kind, and a second port so that servers
need not meet, are enough for these; a third call adds a second waiter, which
only reads, or breaks a lock as the first one does. A `Popen` beyond
`MaxServer` is treated like one that raises. Calls return and servers stay up, so
deadlock is not checked.

In `SessionHistory` the bounds are `MaxId` (ids minted), `MaxTurn`, `MaxRound`,
`MaxCheckpoint`, `MaxFork` (vendor sessions) and `MaxFault` (crashes, failing turns and backend
switches).
A turn, the one cut after it and a message between them are three ids; a rewind of a
rewind needs two checkpoints and two forks. One crash, anywhere, because
what a restart finds is the same whatever it finds it after. After a crash in
the middle of a restore, which leaves the two halves of two histories, the constraint
`Worthwhile` follows only the next restore, no new turns; nor does it follow a crash, failure or
switch together with a REST message. The proofs have neither bound.

In `TaskGraph`: `Inner` (two nodes), `Reporting` (the nodes whose statuses are reported one
by one: the container, and the inner node that only the second topology shows),
`MaxRoots`, `MaxConns`, `MaxRestarts` and `MaxWire` (one frame on the way: the order of
frames is kept by the socket, so more only postpone the interaction). A session is deleted only
while the page is away, and a panel asks only when no frames are on the way. In
`BackgroundTasks`: `MaxTask`, `MaxStage` and `MaxBreak`, two each: a task, the one that would
reuse or share its workspace, and a break of a break. Rewinds to a turn and
to a round are one event, a cut at a stage, and one checkpoint is kept.

In `SessionLife`: `Request` (calls that wait at once), `MaxRun`, `MaxBirth`, `MaxHub`. Every
race is of a call with a run, or of two calls over one run: two of each. The theorems
hold for any number. Sessions meet only in the index, which no property is about, so
one suffices for the run; the theorems hold for any set.

All of these stop when a bound is reached, and the systems may be idle for good: deadlock
is not checked.

**Fairness.** `FairSpec` gives weak fairness to each task and to each receive
loop *inside* a frame. The event loop runs every ready callback; the vendor call
of a running turn returns or raises; a cancelled turn unwinds. A worker thread
comes back. A person owes nothing: no frame is fair, so nobody has to answer a
widget or to close a tab. `Emit` is an alternative of a running turn, which
is bounded by `MaxWidget`, so fairness of the turn's step makes it end or park.

`TaskGraph` is fair to the server's side of a replay (a look-up in its thread returns, a
replay goes on, the socket delivers) and to a panel that is open on an ended task and asks
again after its timeout. Neither the run nor the person is fair, and nothing
of an animation frame, which a page in the background does not get: `EndedGraphIsShown`
needs the root level only, which is applied at once.

`ServerDiscovery` states no liveness: its loops are bounded by a deadline, so a
call ends because time passes and not because another process does something.

**Mutants.** Each property of a passing run is accompanied by a mutated
definition (marked `Mutant:` in the module, directly before the definition it
replaces), for instance a `finally` that leaves the queue, a rewind that does
not await the cancelled turn, a close that does not cancel. TLC finds the
property violated when it replaces the original.

### 3.1 Where the guarantees stop

Besides the four violation runs, these are divergences between the code and its
comments which the models reproduce; the instances or the preconditions of the passing
runs leave them out. Where a property is named that no run checks, it is defined in the
module, and a configuration with that invariant shows the trace.

In `ManagerSession`:

* `StampMatches` holds for one tab. `next_turn_number` is read (MW:1135) before the
  turn waits for its lock, so two tabs stamp two messages with one number
  (`tabs` with the invariant `StampMatches`).
* `TruncateExclusive` holds for resume_from_turn, which takes the turn lock. A
  round resume awaits the active task of its connection only (MW:1965): with
  `resumeRound` and `auto` a turn replaced earlier still unwinds during the
  truncation.
* `NoLateTerminal` holds as long as unwinding does not raise. A replaced turn
  whose unwinding raises reports through `_emit_error_terminal` (MW:1360), which
  does not ask whether the task is still active (`one` with the frames `auto` and
  `fail`).
* `AnsweredStaysAnswered` holds as long as a client sends nothing but the answer while a
  widget is displayed. A hub confirmation puts the resolution into the live queue and
  leaves the marker (MW:2117), so a reconnect displays the answered widget again (`one`
  with the frame `confirm`). A notification (`auto`) or `evolution_complete` (`evolve`)
  starts a turn while the widget of the turn it replaces is still displayed: the answer
  given to that widget goes into the queue of the new turn, is taken by the next widget
  (run `fit`), which thus counts as answered while its own answer is still to come (`one`
  with `message`, `answer`, `disconnect` and one of the two).
* A recovery turn clears its marker when it ends (CS:1371-1380). A reconnect
  while it still unwinds displays the widget again and a second answer starts
  a second recovery; the code's comment calls message deduplication a follow-up. If its
  socket drops after it put up a later widget, the marker it clears is that of the
  later one, which is lost.
* A cancelled turn whose unwinding takes long resets `active_input_queue` in its `finally`
  (MW:1362) after a newer turn has set its own: the answer to the newer turn's
  widget is then treated as one without a live turn and starts a recovery.
* `_json` is a local of `manager_websocket` bound in the branch of
  pending_input_response and used in that of hub_command (MW:2123): the first hub
  confirmation of a connection that has seen no answer raises and ends the loop.

In `ServerDiscovery` the guarantees are conditional, and the condition is part of
each property:

* `LaunchExclusion` holds until a waiter breaks a lock. The holder may be slow, not
  dead; its `finally` then removes the lock of the next holder (SUP:214), so two
  and more launches can overlap.
* `OneLaunch` holds while nothing goes wrong. One timed-out health check (0.2 s,
  DIS:84) under the lock is enough for a second server.
* `SoleServerIsRegistered` holds as long as no other server was started for the
  port. With a predecessor there are three ways for a live entry to go, all
  counterexamples of `EntryStaysWhileServing`: the later of two servers that
  checked before either wrote replaces it (REG:112-124); the atexit handler of
  a predecessor, which already unlinked on SIGTERM, unlinks the successor's file
  (REG:175); a reader that found the predecessor dead unlinks what is there by
  now (DIS:200). The server runs on and no client finds it again, since it never
  rewrites its file.
* A waiter that breaks the lock of a dead launcher (SUP:140) does not try to take
  it: it raises, although nobody holds the lock any more.

In `SessionHistory`:

* `MarkerHasItsBlob` fails: the blob is written before the marker (SS:861-865), so a crash
  between them over an older marker leaves that marker with the newer blob. A connect
  displays the older widget, as `ImplementsSlot` says, but its answer is continued
  with the newer one's blob.
* Messages posted over REST carry no turn. A rewind to one takes the number of earlier
  human messages plus one for it (`_resolve_cut_turn`), and the cut of the directories may be a turn off from that of the history
  (`flaws` has "guess").
* A recovery that is interrupted, or answered by the hub, leaves its widget; the answer given
  again runs its round a second time, and the first bubble stays (`flaws` has "rerun").
* `BubblesHaveRounds` tolerates a crash in the middle of a truncation and a guessed turn,
  but not both. The next turn is numbered after the directories a crash left, but the turn
  of a later REST message is counted from the messages: it comes out too low, and the cut
  there removes the directory of a bubble that stays. It takes seven ids, three turns and a
  crash to show (`files` with these bounds and without that exception).
* Nor does it hold once a crash in a truncation, which removes the directories in the order the
  file system lists them, left a gap among them. Where only the directory of turn 2 survives,
  the next turn is numbered by their count, 2, and merges its directory into the old one; every
  later turn is numbered 2 again. A cut at the second of these messages removes the directory of
  a bubble of the first (`flaws` has "gap"; five ids, two turns, a crash and `turnCut` alone show
  it without that exception; with it TLC passes these bounds).
* A crash between the rewind of the vendor session and the cut (CS:759-790) leaves the
  vendor behind the history, one between a backend switch and the end of the vendor
  session leaves it ahead ("behind"). So does no crash at all: a checkpoint that is taken
  between the two (CS:494-571) keeps a record that was to be dropped, and restoring it resumes a
  vendor session that has missed the turns of the other backend (`Astray`).
* Restoring a checkpoint again does not mend everything. A restore that forks applies the
  record of the fork after the files are back (SS:1408-1411). After a crash in between, the session
  has the checkpoint's record, whose vendor session ran on; the next restore of this checkpoint
  finds the two records equal and does not fork (CS:790), so the vendor remembers turns
  that are gone. It takes four ids, four checkpoints, a crash in an earlier restore with a turn
  taken on top of it, and this crash; a `Crash` there sets "behind", which an `Unlink` of a
  restore without a fork keeps (`KeepsRecord`). The proof of `VendorsFollow` asked for
  it; TLC then found the trace, 46 states long, in a model without that flaw.
* `VendorInStep` compares with the bubbles as well as with the files: a round that was run again
  may leave a bubble without files, and the recap of a new vendor session tells it. After a
  crash in a restore it can fail once turns were taken on top of the two halves.
* `FailureIsInHistory` fails: a turn that fails after the bubble of its round was
  committed, in its tools for instance, reports under the id of that round (WI:85,
  MW:1165), which append_message takes for a duplicate (SS:396). The page shows the
  error until it is loaded again.
* A round that was run again and fails does not clear the marker of a widget it put
  up (MW:1419-1462), as a turn does (MW:1201).

In `BackgroundTasks`:

* `CutIsQuiet` holds while nobody uses a second socket during a rewind. With `Overlap`
  TRUE a task started from another socket during the drain is neither cancelled nor
  awaited, and works in the session while it is copied and cut (MW:340 says it cannot).
* `RightReuse` holds for tools that work in the directory they are given
  (`Placement = "given"`). The repository's own executors (create_role,
  project_onboarding, role_setup) take one of their own, without a sidecar, which the next
  process adopts (run `reuse`). Their chip's workspace never gets the completion
  marker, so a task that finished just before a crash is healed to "interrupted"; the
  rewind that drops workspaces does not drop theirs. The slash command `/create_role`
  leaves such directories too, hence `SlashTool = "other"`.
* A rewind that fails before its cut has already drained the tasks; their chips say
  "running" until the next connect.

In `TaskGraph`:

* `ReconcileRepairs` fails: final statuses are applied at once (UG:404-440) while the
  sub-graph they belong to may still wait for the next animation frame, and the statuses set
  aside for a sub-graph are not applied to it when it comes (UG:344-355 tests
  `shouldReplay` before the queued update has set it); a node stays "running". The
  first root topology empties the buffer. Both heal when the page is loaded again, as
  `FreshPageShowsTheEnd` shows.
* A replay drops the version of a level, so a level a live page has grown can shrink.
* A graph rebuilt from directories shows every node completed, also those of a task
  that was interrupted.
* A background task keeps the socket it was started on; after a reconnect its frames go
  nowhere until the page asks for a replay.

In `SessionLife`:

* `ClosedHubIsInactive` fails: a run's `finally` (HF:65), or an open under way,
  writes a workflow context it read before the close, and the closed hub is active again
  (the docstring at `dashboards_routes.py:156` says "so a resume doesn't refocus the hub").
* `ShutdownLeavesNoRun` fails: the hook (`main.py:104`) goes by the sessions that are listed.
  A run started over a socket that is still open after its session was deleted, one of a
  session the index has lost, and the untracked one of run `double` are not cancelled.
* `DELETE` does not rewrite the index: the session stays listed until the next write. The
  worker thread writes an index scanned before (SS:2001): a session created in between
  is unlisted until the next write. A run started while a delete waits leaves a bare
  directory.
* `IInv` and `DeleteFollowsItsRuns` hold for one socket (`Tabs` at most 1); with two, run
  `double` shows the run out of reach. `NoResurrection` holds for any number.

Met while modelling, in code the models leave out:

* reconcile_dashboard_ref_statuses (SS:699) closes every dashboard row at each connect, as
  the file it looks for is never written (TD:1287), and a row reopened under the same id
  stays closed.
* A session is looked up by the directory prefix `<id>_` (SS:2034) and an external id may
  contain underscores: a look-up of `rovodev-x` while only `rovodev-x_y` exists returns
  the latter's session.
* The frame task_completed is sent before the task's phase outputs are stored (TD:780).

## 4. Proofs

### 4.1 `ManagerSession_proofs`

`ManagerSession_proofs` proves for every number of connections, tabs, tasks and
widgets and every set of frames, from `ConstantsAssumption` alone (the bounds are
naturals, frames are known kinds, connections are not numbers, which keeps lock
holders of the two kinds apart):

| theorem | statement |
|---|---|
| `Invariance` | `Spec => []IInv` |
| `TypeCorrect` | `Spec => []TypeOK` |
| `TurnsExclude` | `Spec => []TurnExclusion` |
| `NoTurnIsOrphaned` | `Spec => []NoOrphanTurn` |
| `QueuesAreLive` | `Spec => []QueueOwnerLive` |

and, under hypotheses on the constants,

| theorem | statement | assuming |
|---|---|---|
| `StampsMatch` | `Spec => []StampMatches` | `Tabs <= 1` |
| `TruncationsExclude` | `Spec => []TruncateExclusive` | `Tabs <= 1`, no `resumeRound` |
| `AnswersStay` | `Spec => []AnsweredStaysAnswered` | `Tabs <= 1`, no frame of `Unasked` |
| `AnswersAreFit` | `Spec => AnswersFit` | the same |
| `ReplacedTurnsAreSilent` | `Spec => NoLateTerminal` | no `fail` |

None of the hypotheses can be dropped: section 3.1 and run `fit` have the counterexamples.

`TurnExclusion` is stated as "in the turn iff holder", which is inductive
beside the types. `NoOrphanTurn` is not: when a rewinding frame runs the kept turn
again it assigns `active_task`, and the turn assigned before would be lost. The
code is right because the frame awaited that turn first; `RewindAfterTurn` says
so (no live turn of its own past the quiesce step), and to keep it
`TasksInOrder` says that the task a `Spawn` creates is new. `QueueOwnerLive` needs
the stronger `QueueMadeByTurn` (the owner has run its first step and not its last),
since a task interrupted before its first step ends without a `finally`.
`IInv` is checked by TLC in run `tabs`. The proof of the induction step has a
lemma per action group, a case per action and a step per conjunct it can disturb.

The five conditional theorems rest on a second layer, `OneTabInv`:

* `OneSocket`: with one socket at a time the session has at most one turn that nobody
  cancelled (`Current`), and its receive loop is idle. Its core is the lemma `TheTurn`: a
  current turn is the active task of its connection (`NoOrphanTurn`), and connections that
  are open are the same.
* `Stamped`: `next_turn_number` is read two suspension points before the turn begins; the
  stamp stays right since only a current turn makes a directory, and a truncation starts
  after the turn was cancelled or awaited.
* `LockedBefore`: a truncation runs after the lock was free and *released*, so nothing in
  the lock excludes a turn. What does: everybody waiting for it was cancelled, and a
  cancelled task that is granted a lock never enters.
* `WidgetsInOrder`, `QueueFits`, `AnswersInLine`: a widget belongs to the one turn that emitted
  it; a queue the client can still reach is that of the turn whose widget is displayed, and
  it is empty until the answer; an answer that went through a live queue has left the
  cache and the marker, so no reconnect and no recovery finds it again.

`ReplacedTurnsAreSilent` needs none of it: a terminal frame of a replaced turn comes from its
`except` branches only, which test `active_task`, except for an unwinding that raises.
TLC checked `OneTabInv` on the instance of run `one` and on ones with round resumes and
every other frame (up to 600,000 states); it is a conjunction of implications over the
same constants and not a property of a run.

Only model-checked in `ManagerSession`: the liveness properties.

### 4.2 `ServerDiscovery_proofs`

For every set of callers and ports, number of servers and polls and set of faults,
from `ConstantsAssumption` alone (ports are positive numbers, callers are not
numbers, so that a lock's owner and "no lock" are told apart):

| theorem | statement |
|---|---|
| `Invariance` | `Spec => []IInv` |
| `LaunchesExclude` | `Spec => []LaunchExclusion` |
| `OneServerLaunched` | `Spec => []OneLaunch` |
| `SoleServerFound` | `Spec => []SoleServerIsRegistered` |

None of the three properties is inductive. `LaunchExclusion` follows from
`LockHeld`: whoever is between `O_EXCL` and the `finally` is the one recorded in
the file. `SoleServerIsRegistered` needs `SoleServerUndisturbed`: before the server
registers, no file of its port exists and no reader has listed one or is about to
unlink one; for a newly started server that comes from `FilesWritten` (every file
written, listed or to be unlinked has a server of its port that wrote it) and
`ServersInOrder` (a new server had no port). `OneLaunch` needs all of them:
`QuietLaunch` says that the one server is still being launched by a call in the
critical section or already serves, so the next call to get the lock, which
excludes the launching one (`LockHeld`), finds the file listed
(`SoleServerUndisturbed`), reads a live pid and cannot miss. `StartEffect` and
`TheServer` are the lemmas the cases share. TLC checks `IInv` in run `launch`.

### 4.3 `SessionLife_proofs`

For every set of sessions, keys and requests and every bound, from `LifeAssumption` alone
(requests are finite, so that the hub frames among them can be counted; keys of
commands are not numbers, which tells them from the ids of submissions):

| theorem | statement | assuming |
|---|---|---|
| `TypeCorrect` | `Spec => []TypeOK` | |
| `SessionsStayDeleted` | `Spec => NoResurrection` | |
| `RunsWithinReach` | `Spec => []IInv` | `Tabs <= 1` |
| `DeletionWaits` | `Spec => []DeleteFollowsItsRuns` | `Tabs <= 1` |

`NoResurrection` rests on `WritesIntoSession`: the truncating thread writes only into a
session that is there, because the deletion waits for the lock the thread holds; every
other writer (a run's `finally`, a turn, a connect) looks for the session in the step
in which it writes.

`DeleteFollowsItsRuns` is about a set of runs read when the deletion begins. It holds because
a deletion proceeds when the runs it found in the registry have ended, and the registry
held all that were alive: `RunsAreTracked`, which is not inductive. A run leaves the
registry when it ends or when another takes its place, so what takes its place must come
after its end: `OneRunPerId`. That needs that no second call is between the cancellation and
the start of the same id, which is `OneFrame` (one socket serves one hub frame at a time) together
with `KeysAreOwn` (the id of a submission is its own), and `CallsInStep` says what
each call still waits for. The hypothesis `Tabs <= 1` cannot be dropped: run `double`.

### 4.4 `SessionHistory_proofs`

For every bound and set of events, from `BoundsAssumption` alone (the bounds are naturals):

| theorem | statement |
|---|---|
| `Invariance` | `Spec => []IInv` |
| `TypeCorrect` | `Spec => []TypeOK` |
| `SlotImplemented` | `Spec => ImplementsSlot` |
| `CutsAreRecoverable` | `Spec => CutIsRecoverable` |
| `FreshTurns` | `Spec => FreshTurnIsNew` |

Crashes are a step of `Next` everywhere, so each conjunct of `IInv` holds with the process
dead between any two writes. `Exclusive`, `Numbered`, `Housed`, `Idle`, `Cutting` and `Restoring` say what each
position of a turn or a rewind knows: a turn that runs has a session and a directory, a
rewind goes back to a message of the history it read, a restore to a checkpoint that can be
read.

`SlotImplemented` is a step simulation: each step of the two files either leaves the slot,
puts a widget into it that was never in it, or takes one out. The hard part is "never": a
restore rewrites the marker with that of an old checkpoint, whose widget was shown, and a
crash may keep it there. `Slot` promises nothing from the first removal of a restore to the
step that clears the marker, `Restoring` says that the marker is gone by then, and `Unshown`
that the id of a round under way was minted for it alone. With
`SlotMoves` (what a step can do to the slot, by cases) these give the step of
`WidgetSlot`.

`CutsAreRecoverable` rests on `Backed`: from the checkpoint to the cut, what the history
has and the newest checkpoint has not is unstamped. The gap between checkpoint and lock is
why the property excepts REST messages.

`FreshTurns` is about a number nobody stores: `next_turn_number` counts directories, messages
carry the number of a turn that is still to begin, and a truncation trusts either. It needs
all of `Level`. `InLine` says that directories are numbered without a gap and the stamps
grow along the history up to the turn to be; `Lined` has it outside of rewinds and in every
checkpoint; `CutInLine` follows a truncation through the states where it does not hold: the
history is cut first (`CutAtTheTurn`), the directories past `LastKept` go in any order
(`LeftAreLater`, `OneRemoved`), and at `evict` the two are in line at the turn that is run
again. `PutBack` does the same for a restore, `NoTwins` says that an id names one message, so
the message found again by its id is the one that was clicked. `Sound` excludes what is not
true: a crash in the middle of a rewind, and a cut at a message without a stamp.

### 4.5 `HistoryFiles_proofs`

On top of `IInv`, from the same assumption, what the contents of the directories have to do with
the history and the SOP:

| theorem | statement |
|---|---|
| `SummariesAreOfTheKept` | `Spec => []SummaryOfTheKept` |
| `TheSopIsOfTheKept` | `Spec => []SopOfTheKept` |
| `BubblesAreFiled` | `Spec => []BubblesHaveRounds` |
| `VendorsFollow` | `Spec => []VendorInStep` |

None of them is inductive, and but for the third they are false in the middle of a rewind, which writes and
removes one file at a time. What holds there was found with TLC first, as invariants on the
bounds of `files` and on larger ones with fewer kinds of events (up to six ids, three turns or
three rounds).

`InSummary` is the invariant of the summaries. `SummedUp` says of which turns they agree with the
history at each position of a truncation: of the turns before the cut from the moment the history
is cut, and of the turn a round is cut from again once `ResetSummary` has rebuilt it from the
bubbles that are left (`Unsummed`); what comes later is about to be removed. `Copied` follows a
restore: a directory that is back is that of the checkpoint. `IdOfItsOwn` says that the bubble a
summary is about to name is in the history, which is why a turn appends it first.

`SopInv` is the invariant of the SOP. The SOP advances by the id of a round whose files are
saved (`Marks`); a truncation resets it to the boundary that the cut turn or round had when it
began. So a boundary must stand on rounds before it (`Based`), as these and no others survive the
cut: `Trimmed` says that a truncation takes whole rounds and none before the cut, `TrimmedFiles`
that what stood before the cut still does. `OnRounds` has this for the SOP on disk, the SOP in
memory, the value a truncation has read and not written, and every checkpoint. That a round which
begins comes after all the rounds there are (`AllBeforeTurn`, `AllBeforeRound`) takes two facts:
the directories of turns are in line (`Level`) and nothing is left behind the round a turn is in,
which is what `InSequence` (no round is missing in front of another) and `FollowsOn` (nor in front of
the one that runs, is cut, or that a widget waits in) are for. A recovery goes on behind the
round of the widget's blob, so `FollowsOn` relates blob, marker and directories across crashes.
`NoRerun` excludes the flaws under which the statement is false: a crash in a rewind, and a round
that was run again over its own files.

`BubbleInv` is the invariant of the bubbles. It cannot lean on `Level`, which a crash in a
truncation or a guessed cut ends (`Sound`), while `BubblesHaveRounds` goes on in all these
sessions (`Trusted`). What replaces it is weaker and survives the crash: `InFiles` says that each
message has the directories of all turns before its own, each bubble its round's files and those
of the rounds before (`HasFiles`), and that the rounds of a turn and the turns of human messages
grow along the history (`Ascending`). A truncation keeps what comes before its cut, so it must be
known that the cut lies behind every bubble it keeps: `InTheCut` has that at each of its steps,
`ClickedAt` where the frame looked up the message it goes back to, and `ItsBubbles` for the turn that
runs, the widget that waits and the round under way. For a message without a stamp the cut is
guessed as the number of human messages before it, plus one, and nothing but counting shows that
it is late enough: `TurnsBegun` says that there are no more directories of turns than human
messages, and no stamp above the human messages up to it (`Users`). A crash in a truncation ends
that, which is why a crash and a guess together are excepted (`Uncut`). A new turn must have a
number above all the directories there are: those that a truncation left are numbered without
a gap when it is done (`CutIsDone`; `Segment` takes the least number that has no directory), and
a session in which they are not is excepted ("gap").

`VendorInv` is the invariant of the vendor sessions. What one remembers is in its record
(`Recorded`), but for the moments of a restore between the copy of the checkpoint's record and the
update with that of the fork (`Unforked`); for these `PutRecord` says which of the two the session
has, and that the fork is of the checkpoint's record. With that it is enough to compare records
with histories (`InStep`, and `CopiesInStep` for the checkpoints). What a record knows is a bubble,
or the files of a round are there (`Held`), which a round that was run again may not have. Every
bubble is known, except that of a turn about to be cut, which the fork has forgotten before
the history is cut (`ToCut`): between the two only `x[1] < op.cut` is known. That the cut then
removes the bubbles the fork forgot, and no others, needs the order of the
bubbles: no bubble of the clicked turn or of a later one stands before the human message that is
cut at (`BubblesInTurn`; `Level` has the stamps only in weak order, and a turn's message and its
bubbles have the same stamp). A session whose backend is no longer native has a record only while
the switch waits to drop it (`ending`); it is never resumed, and a checkpoint
taken of it is marked (`Astray`). The invariant holds of sessions without any flaw but
"rerun" (`Clean`).

### 4.6 `BackgroundTasks_proofs`

For every bound, every set of targets and modes, from `TasksAssumption` alone:

| theorem | statement | assuming |
|---|---|---|
| `TypeCorrect` | `Spec => []TypeOK` | |
| `Invariance` | `Spec => []IInv` | |
| `CutsAreQuiet` | `Spec => []CutIsQuiet` | `~Overlap` |
| `LiveTasksKeepTheirChips` | `Spec => []LiveNotWrittenOff` | `~Overlap` |
| `WorkspacesAreKept` | `Spec => []ChipsKeepTheirWorkspace` | `~Overlap` |
| `TasksWorkApart` | `Spec => []OneWriter` | `~Overlap`, `InPlace` |
| `ReuseIsRight` | `Spec => []RightReuse` | `~Overlap`, `InPlace` |

The hypotheses are those of section 3.1: one socket at a time, tools that work where they are
put. `CutIsQuiet` is `Alone`: between rewinds the registry has every live task, so what a drain
waits for is all there is. `OneWriter` and `RightReuse` are about directories that several tasks
have had, with a rewind, a restore or a restart in between. They follow
from `InStep` (a chip and the sidecar of its workspace name the same task and stage, in
every checkpoint too) and `Apart` (a keyed directory holds what its key says; a live task of a
turn has its chip, so the directory it works in is not free for another).

### 4.7 `GraphRebuild_proofs`

`RebuildIsNavigable == \A w : IsTree(w) => Navigable(Rebuild(w))`, for trees of any depth,
width and classes. Each shape is sound by itself (its nodes are children of its directory,
the directories walked on are containers, its edges join nodes it shows); the walk then
shows a level only if its directory is a container one level up. Levels without nodes are
left out, so the proof also says that no level below one of them is reached: a directory
that is walked is a node of its parent.

### 4.8 `TaskGraph_proofs`

For every set of nodes, number of connections, restarts and root topologies, from
`FirstAssumption` (the node of the first topology is a node of the container) and
`WorkspacesAreTrees`:

| theorem | statement |
|---|---|
| `Invariance` | `Spec => []IInv` |
| `TypeCorrect` | `Spec => []TypeOK` |
| `NewestIsMirrored` | `Spec => []MirrorIsNewest` |
| `EndedGraphIsKept` | `Spec => []EndedGraphSurvives` |
| `DeletedIsGone` | `Spec => []DeletedStaysDeleted` |
| `RebuiltCanBeWalked` | `Spec => []RebuiltIsNavigable` |
| `StatusesAreKept` | `Spec => MirrorKeepsStatus` |

`EndedGraphSurvives` needs that nothing writes a mirror over the file but the end of
the run. A look-up loads the file into the memory (`Searching`: only where the
memory has none, and never while the run goes on, since a page asks only for what ended),
and a pruning drops only what was marked (`Marked`: a mirror of a run that is over and
whose file is written). `Blank` and `Underway` are the half of it that the page and the wire carry: a page
asks because it was told an end, and before the run reports anything nobody can have been
told of a graph. `Newest` is the version guard of `_apply_topology` for
each set of topologies reported so far; `MirrorKeepsStatus` follows from `Mirrored` (what the
mirror shows of a node is "pending" or what the run reported last) with `Searching`, since
a load is the only way a graph enters an empty mirror.

### 4.9 What is not proved, and why

* Liveness (`CancelledTurnEnds`, `RewindReturns`, `AbandonedSessionIsFree`, `EndedGraphIsShown`):
  it needs ENABLED and fairness, which the prover does not support.
* In `TaskGraph`, `FreshPageShowsTheEnd`: what a page has after its queue was applied is a fold over
  the queue, and depends on the order of the frames on the wire.

Where an argument needs induction over numbers (the smallest number that is free, an
order of finitely many directories), it takes the least element of a set of naturals,
from the well-foundedness of `<` as the library states it.

## 5. Not modelled, and why

* In discovery: an explicit `port` argument and `auto_launch=False`, other runtime
  roots and hosts, corrupt registry files and newer schema versions (a skipped or
  unlinked file), ports taken by other programs, reuse of pids.

* In `ManagerSession`: `restore_checkpoint` frames (they take the lock like the other
  rewinds; what they do is in `SessionHistory` and `BackgroundTasks`), developer slash
  commands and their queues, the mock branch. The content of messages and widgets is a
  number.
* In `SessionHistory`: cards of widget responses; half a checkpoint directory left by a
  crash during the copy; the partial write of one file (json_io replaces files atomically).
  The vendor's record is saved with its round.
* In `BackgroundTasks`: synchronous tools, arguments beyond the target, statuses in
  sidecars, phase outputs, a crash during the copy of a restore.
* In `TaskGraph`: streamed text, layout, the number of mirrors kept in memory beyond this
  task's own pruning. A replay over a live page appends streamed text twice, which is
  not shown.
* In `SessionLife`: rows and pointers of dashboards, `ConnectionRegistry`, submission rows,
  session files of the old flat layout. Of the workflow context the active hub is kept. The
  opening of a hub inside a turn is one step.
* `hub_command` other than confirm_proposal_selection and evolution_complete does
  not touch turns. The hub is an external package.
* The Slack bridge (one subprocess per call, nothing outlives it), backends, tool
  executors, the attach client, the MCP server and
  views: see the component list in `PROJECT.json`.

## 6. Plan

Every module of the plan is there, with its passing runs and its theorems. What is left, in
this order:

1. `FreshPageShowsTheEnd`, with the frames on the wire and the queue as parts of a sequence.
2. `restore_checkpoint` frames in `ManagerSession`, and the proofs extended to them.
