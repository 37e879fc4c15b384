--------------------------- MODULE ManagerSession ---------------------------
(***************************************************************************)
(* The turns of ONE conversation session and the sockets that drive them: *)
(* manager_websocket (routes/manager_websocket_routes.py), the turn lock of *)
(* ConversationService (services/conversation_service.py) and the durable   *)
(* pending-widget marker of SessionStore.                                   *)
(*                                                                          *)
(* Each connection runs its own receive loop; each turn is an asyncio task  *)
(* created by a frame.  A step below is a piece of code between two         *)
(* suspension points of the event loop.  A cancelled task unwinds in its    *)
(* own time ("a turn can take a while to unwind"), so a newer turn may      *)
(* start before an older one has run its finally block.                     *)
(***************************************************************************)
EXTENDS Naturals, Sequences, FiniteSets, SequencesExt

CONSTANTS
  Conn,       \* connections ever accepted; a reconnect is another element
  MaxTask,    \* bound: turn tasks ever created
  MaxWidget,  \* bound: conversation widgets ever emitted
  Tabs,       \* bound: connections open at the same time
  Frames      \* the kinds of event the environment produces in this instance

FrameKinds == {"message", "auto", "cancel", "answer", "confirm", "evolve",
               "resumeTurn", "resumeRound", "disconnect", "crash", "fail"}

ASSUME ConstantsAssumption ==
  /\ MaxTask \in Nat /\ MaxWidget \in Nat /\ Tabs \in Nat
  /\ Frames \subseteq FrameKinds
  /\ Conn \cap Nat = {}

QueueBound == 2      \* bound: confirms of one widget waiting in a queue
Task   == 1..MaxTask
Widget == 1..MaxWidget
None   == 0           \* Python's None, for tasks, widgets and lock holders
Locker == Task \cup Conn

VARIABLES
  \* --- one entry per turn task -------------------------------------------
  created,    \* number of tasks created so far
  pc,         \* where the task is
  job,        \* [owner, kind, subject]: connection, coroutine, widget recovered
  at,         \* the widget the turn has on display
  inbox,      \* its asyncio.Queue: the widgets whose answers were put there
  cancelReq,  \* tasks with a cancellation requested and not yet delivered
  stamp,      \* turn_number stamped on the task's user message
  turn,       \* turn number the task allocated
  \* --- one entry per connection ------------------------------------------
  handler,    \* state of the receive loop
  mode,       \* which rewinding frame the receive loop is serving
  activeTask, \* active_task
  activeQueue,\* active_input_queue, named by the task that made it
  cache,      \* pending_input_cache
  jsonBound,  \* the local _json has been assigned
  shown,      \* client: pendingInput
  busy,       \* client: isStreaming
  \* --- the session's turn lock (asyncio.Lock, FIFO) ----------------------
  holder, lockQueue,
  \* --- on disk ------------------------------------------------------------
  marker,     \* session["pending_input"]
  dirs,       \* number of turn_NNN directories
  \* --- history -------------------------------------------------------------
  emitted,    \* widgets emitted so far
  appliedLive,\* widgets whose awaiting turn took an answer from its queue
  recoveries  \* how often a recovery turn applied the answer of a widget

taskVars  == <<created, pc, job, at, inbox, cancelReq, stamp, turn>>
connVars  == <<handler, mode, activeTask, activeQueue, cache, jsonBound>>
clientVars == <<shown, busy>>
lockVars  == <<holder, lockQueue>>
diskVars  == <<marker, dirs>>
histVars  == <<emitted, appliedLive, recoveries>>
vars == <<taskVars, connVars, clientVars, lockVars, diskVars, histVars>>

Pcs == {"none", "created", "waiting", "running", "emitting", "parked",
        "unwinding", "leaving", "failing", "done"}
InTurn == {"running", "emitting", "parked", "unwinding"}  \* owns the turn lock
Kinds  == {"message", "round", "recovery"}
Handlers == {"new", "idle", "quiesce", "rewind", "truncate", "evict", "gone"}
Modes  == {"none", "turn", "round", "evolve"}

Live(t)  == pc[t] \notin {"none", "done"}          \* not active_task.done()
Open     == {c \in Conn : handler[c] \notin {"new", "gone"}}
NoJob    == [owner |-> None, kind |-> "message", subject |-> None]

TypeOK ==
  /\ created \in 0..MaxTask
  /\ pc \in [Task -> Pcs]
  /\ job \in [Task -> [owner: Conn \cup {None}, kind: Kinds,
                       subject: Widget \cup {None}]]
  /\ at \in [Task -> Widget \cup {None}]
  /\ inbox \in [Task -> Seq(Widget)]
  /\ cancelReq \subseteq Task
  /\ stamp \in [Task -> Nat] /\ turn \in [Task -> Nat]
  /\ handler \in [Conn -> Handlers] /\ mode \in [Conn -> Modes]
  /\ activeTask \in [Conn -> Task \cup {None}]
  /\ activeQueue \in [Conn -> Task \cup {None}]
  /\ cache \in [Conn -> SUBSET Widget]
  /\ jsonBound \in [Conn -> BOOLEAN]
  /\ shown \in [Conn -> Widget \cup {None}]
  /\ busy \in [Conn -> BOOLEAN]
  /\ holder \in Locker \cup {None} /\ lockQueue \in Seq(Locker)
  /\ marker \in Widget \cup {None} /\ dirs \in Nat
  /\ emitted \in 0..MaxWidget /\ appliedLive \subseteq Widget
  /\ recoveries \in [Widget -> Nat]

Init ==
  /\ created = 0
  /\ pc = [t \in Task |-> "none"]
  /\ job = [t \in Task |-> NoJob]
  /\ at = [t \in Task |-> None]
  /\ inbox = [t \in Task |-> <<>>]
  /\ cancelReq = {}
  /\ stamp = [t \in Task |-> 0] /\ turn = [t \in Task |-> 0]
  /\ handler = [c \in Conn |-> "new"] /\ mode = [c \in Conn |-> "none"]
  /\ activeTask = [c \in Conn |-> None] /\ activeQueue = [c \in Conn |-> None]
  /\ cache = [c \in Conn |-> {}]
  /\ jsonBound = [c \in Conn |-> FALSE]
  /\ shown = [c \in Conn |-> None] /\ busy = [c \in Conn |-> FALSE]
  /\ holder = None /\ lockQueue = <<>>
  /\ marker = None /\ dirs = 0
  /\ emitted = 0 /\ appliedLive = {}
  /\ recoveries = [w \in Widget |-> 0]

-----------------------------------------------------------------------------
(* Effects shared by several frames.                                       *)

\* Mutant: only a turn that already owns the lock is cancelled.
ActiveRunning(c) == {t \in Task : t = activeTask[c] /\ pc[t] \in InTurn}

\* The tasks active_task.cancel() reaches: the connection's turn, if not done.
ActiveLive(c) == {t \in Task : t = activeTask[c] /\ Live(t)}

\* active_task = asyncio.create_task(...): the next task, not yet started.
Spawn(c, k, w) ==
  /\ created < MaxTask
  /\ created' = created + 1
  /\ pc' = [pc EXCEPT ![created + 1] = "created"]
  /\ job' = [job EXCEPT ![created + 1] =
                [owner |-> c, kind |-> k, subject |-> w]]
  /\ activeTask' = [activeTask EXCEPT ![c] = created + 1]
  /\ UNCHANGED <<at, inbox, stamp, turn>>

\* asyncio.Lock: a waiter that gives up leaves the queue.
Without(q, x) ==
  IF \E i \in DOMAIN q : q[i] = x
  THEN RemoveAt(q, CHOOSE i \in DOMAIN q : q[i] = x)
  ELSE q

\* acquire(): queue up behind the waiters.
Wants(x) == lockQueue' = Append(lockQueue, x) /\ UNCHANGED holder

-----------------------------------------------------------------------------
(* Connections.                                                            *)

\* The init frame: session_init clears the client's widget and busy flag,
\* then the durable marker is displayed again.
Connect(c) ==
  /\ handler[c] = "new"
  /\ Cardinality(Open) < Tabs
  /\ handler' = [handler EXCEPT ![c] = "idle"]
  /\ shown' = [shown EXCEPT ![c] = marker]
  /\ UNCHANGED <<taskVars, mode, activeTask, activeQueue, cache, jsonBound,
                 busy, lockVars, diskVars, histVars>>

\* Mutant: a closed socket leaves its turn to finish on its own.
CloseWithoutCancel(c) ==
  /\ handler' = [handler EXCEPT ![c] = "gone"]
  /\ shown' = [shown EXCEPT ![c] = None] /\ busy' = [busy EXCEPT ![c] = FALSE]
  /\ UNCHANGED cancelReq

\* The finally block of manager_websocket: the active turn is cancelled.
Close(c) ==
  /\ handler' = [handler EXCEPT ![c] = "gone"]
  /\ shown' = [shown EXCEPT ![c] = None] /\ busy' = [busy EXCEPT ![c] = FALSE]
  /\ cancelReq' = cancelReq \cup ActiveLive(c)

Disconnect(c) ==
  /\ "disconnect" \in Frames
  /\ handler[c] = "idle"
  /\ Close(c)
  /\ UNCHANGED <<created, pc, job, at, inbox, stamp, turn, mode, activeTask,
                 activeQueue, cache, jsonBound, lockVars, diskVars, histVars>>

\* "message": cancel the turn in flight, clear-point (c), create the new turn.
\* The composer is enabled only without a widget and without a busy turn; the
\* auto-advance notification of a background task is sent whenever it ends.
Message(c) ==
  /\ handler[c] = "idle"
  /\ \/ "message" \in Frames /\ shown[c] = None /\ ~busy[c]
     \/ "auto" \in Frames
  /\ Spawn(c, "message", None)
  /\ cancelReq' = cancelReq \cup ActiveLive(c)
  /\ marker' = None
  /\ UNCHANGED <<handler, mode, activeQueue, cache, jsonBound, clientVars,
                 lockVars, dirs, histVars>>

\* "cancel": the client drops widget and busy flag, clear-point (b).
Cancel(c) ==
  /\ "cancel" \in Frames
  /\ handler[c] = "idle"
  /\ busy[c] \/ shown[c] # None
  /\ cancelReq' = cancelReq \cup ActiveLive(c)
  /\ marker' = None
  /\ shown' = [shown EXCEPT ![c] = None] /\ busy' = [busy EXCEPT ![c] = FALSE]
  /\ UNCHANGED <<created, pc, job, at, inbox, stamp, turn, connVars, lockVars,
                 dirs, histVars>>

\* _maybe_recover_pending_widget with a matching marker: cancel, then recover.
Recover(c, w) ==
  /\ Spawn(c, "recovery", w)
  /\ cancelReq' = cancelReq \cup ActiveLive(c)

\* Mutant: an answer put to a live queue leaves the durable marker alone.
AnswerKeepsMarker(c) ==
  /\ "answer" \in Frames
  /\ handler[c] = "idle" /\ shown[c] # None /\ activeQueue[c] # None
  /\ inbox' = [inbox EXCEPT ![activeQueue[c]] = Append(@, shown[c])]
  /\ cache' = [cache EXCEPT ![c] = @ \ {shown[c]}]
  /\ shown' = [shown EXCEPT ![c] = None]
  /\ jsonBound' = [jsonBound EXCEPT ![c] = TRUE]
  /\ UNCHANGED <<created, pc, job, at, cancelReq, stamp, turn, handler, mode,
                 activeTask, activeQueue, busy, lockVars, diskVars, histVars>>

\* "pending_input_response" for the widget on display.  An answer with a cache
\* entry also drops the durable marker, whichever widget that is for.
AnswerLive(c) ==
  /\ "answer" \in Frames
  /\ handler[c] = "idle" /\ shown[c] # None /\ activeQueue[c] # None
  /\ LET w == shown[c] IN
     /\ inbox' = [inbox EXCEPT ![activeQueue[c]] = Append(@, w)]
     /\ cache' = [cache EXCEPT ![c] = @ \ {w}]
     /\ marker' = IF w \in cache[c] THEN None ELSE marker
  /\ shown' = [shown EXCEPT ![c] = None]
  /\ jsonBound' = [jsonBound EXCEPT ![c] = TRUE]
  /\ UNCHANGED <<created, pc, job, at, cancelReq, stamp, turn, handler, mode,
                 activeTask, activeQueue, busy, lockVars, dirs, histVars>>

AnswerRecovers(c) ==
  /\ "answer" \in Frames
  /\ handler[c] = "idle" /\ shown[c] # None /\ activeQueue[c] = None
  /\ marker = shown[c]
  /\ Recover(c, marker)
  /\ shown' = [shown EXCEPT ![c] = None]
  /\ jsonBound' = [jsonBound EXCEPT ![c] = TRUE]
  /\ UNCHANGED <<handler, mode, activeQueue, cache, busy, lockVars, diskVars,
                 histVars>>

\* No marker: an error frame ends the busy state.  A marker of another widget:
\* the answer is ignored as stale.
AnswerDropped(c) ==
  /\ "answer" \in Frames
  /\ handler[c] = "idle" /\ shown[c] # None /\ activeQueue[c] = None
  /\ marker # shown[c]
  /\ shown' = [shown EXCEPT ![c] = None]
  /\ busy' = [busy EXCEPT ![c] = @ /\ marker # None]
  /\ jsonBound' = [jsonBound EXCEPT ![c] = TRUE]
  /\ UNCHANGED <<taskVars, handler, mode, activeTask, activeQueue, cache,
                 lockVars, diskVars, histVars>>

\* hub_command confirm_proposal_selection for the widget on display: put the
\* resolution to the live queue and leave display, cache and marker alone.
ConfirmLive(c) ==
  /\ "confirm" \in Frames
  /\ handler[c] = "idle" /\ shown[c] # None /\ activeQueue[c] # None
  /\ Len(inbox[activeQueue[c]]) < QueueBound
  /\ inbox' = [inbox EXCEPT ![activeQueue[c]] = Append(@, shown[c])]
  /\ UNCHANGED <<created, pc, job, at, cancelReq, stamp, turn, connVars,
                 clientVars, lockVars, diskVars, histVars>>

\* The same without a live queue recovers from the marker, whatever it is for.
ConfirmRecovers(c) ==
  /\ "confirm" \in Frames
  /\ handler[c] = "idle" /\ shown[c] # None /\ activeQueue[c] = None
  /\ jsonBound[c] /\ marker # None
  /\ Recover(c, marker)
  /\ UNCHANGED <<handler, mode, activeQueue, cache, jsonBound, clientVars,
                 lockVars, diskVars, histVars>>

\* _json is a local of manager_websocket, assigned by the import statement of
\* the pending_input_response branch only: on a connection that served no such
\* frame the call raises UnboundLocalError, which ends the receive loop.
ConfirmUnbound(c) ==
  /\ "confirm" \in Frames
  /\ handler[c] = "idle" /\ shown[c] # None /\ activeQueue[c] = None
  /\ ~jsonBound[c]
  /\ Close(c)
  /\ UNCHANGED <<created, pc, job, at, inbox, stamp, turn, mode, activeTask,
                 activeQueue, cache, jsonBound, lockVars, diskVars, histVars>>

-----------------------------------------------------------------------------
(* Rewinding frames: quiesce, rewind, truncate, evict, run again.          *)

\* Mutant: the turn in flight is awaited without being cancelled.
RewindWithoutCancel(c, m) ==
  /\ handler[c] = "idle"
  /\ created < MaxTask
  /\ dirs > 0
  /\ handler' = [handler EXCEPT ![c] = "quiesce"]
  /\ mode' = [mode EXCEPT ![c] = m]
  /\ UNCHANGED <<taskVars, activeTask, activeQueue, cache, jsonBound,
                 clientVars, lockVars, diskVars, histVars>>

\* _quiesce_session cancels the active turn of THIS connection ...
Rewind(c, m) ==
  /\ handler[c] = "idle"
  /\ created < MaxTask
  /\ dirs > 0
  /\ handler' = [handler EXCEPT ![c] = "quiesce"]
  /\ mode' = [mode EXCEPT ![c] = m]
  /\ cancelReq' = cancelReq \cup ActiveLive(c)
  /\ UNCHANGED <<created, pc, job, at, inbox, stamp, turn, activeTask,
                 activeQueue, cache, jsonBound, clientVars, lockVars, diskVars,
                 histVars>>

ResumeFromTurn(c)    == "resumeTurn" \in Frames /\ Rewind(c, "turn")
ResumeFromRound(c)   == "resumeRound" \in Frames /\ Rewind(c, "round")
EvolutionComplete(c) == "evolve" \in Frames /\ Rewind(c, "evolve")

\* Mutant: the cancelled turn is not awaited.
QuiescedWithoutAwait(c, m) == handler[c] = "quiesce" /\ mode[c] = m

\* ... and awaits it.  A turn resume then waits for the turn lock
\* (prepare_rewind); a round resume goes straight to the truncation; the hub's
\* evolution_complete only advances the SOP and starts a turn.
Quiesced(c, m) ==
  handler[c] = "quiesce" /\ mode[c] = m /\ ActiveLive(c) = {}

\* Mutant: a turn resume truncates without taking the turn lock first.
QuiescedWithoutLock(c) ==
  /\ Quiesced(c, "turn")
  /\ handler' = [handler EXCEPT ![c] = "truncate"]
  /\ UNCHANGED <<taskVars, mode, activeTask, activeQueue, cache, jsonBound,
                 clientVars, lockVars, diskVars, histVars>>

QuiescedForTurn(c) ==
  /\ Quiesced(c, "turn")
  /\ handler' = [handler EXCEPT ![c] = "rewind"]
  /\ Wants(c)
  /\ UNCHANGED <<taskVars, mode, activeTask, activeQueue, cache, jsonBound,
                 clientVars, diskVars, histVars>>

QuiescedForRound(c) ==
  /\ Quiesced(c, "round")
  /\ handler' = [handler EXCEPT ![c] = "truncate"]
  /\ UNCHANGED <<taskVars, mode, activeTask, activeQueue, cache, jsonBound,
                 clientVars, lockVars, diskVars, histVars>>

QuiescedForHub(c) ==
  /\ Quiesced(c, "evolve")
  /\ handler' = [handler EXCEPT ![c] = "idle"]
  /\ mode' = [mode EXCEPT ![c] = "none"]
  /\ Spawn(c, "message", None)
  /\ UNCHANGED <<cancelReq, activeQueue, cache, jsonBound, clientVars, lockVars,
                 diskVars, histVars>>

\* prepare_rewind holds the lock for the rewind only: it is free again before
\* the session is copied and truncated.
Rewound(c) ==
  /\ handler[c] = "rewind" /\ holder = c
  /\ holder' = None
  /\ handler' = [handler EXCEPT ![c] = "truncate"]
  /\ UNCHANGED <<taskVars, mode, activeTask, activeQueue, cache, jsonBound,
                 clientVars, lockQueue, diskVars, histVars>>

\* A rewind that raises ends the frame with nothing changed.
RewindRaises(c) ==
  /\ "fail" \in Frames
  /\ handler[c] = "rewind" /\ holder = c
  /\ holder' = None
  /\ handler' = [handler EXCEPT ![c] = "idle"]
  /\ mode' = [mode EXCEPT ![c] = "none"]
  /\ shown' = [shown EXCEPT ![c] = None] /\ busy' = [busy EXCEPT ![c] = FALSE]
  /\ UNCHANGED <<taskVars, activeTask, activeQueue, cache, jsonBound, lockQueue,
                 diskVars, histVars>>

\* The worker thread returns: turn directories from the cut on are gone (a
\* round resume keeps the turn it re-enters), the marker is cleared.  Then
\* _evict cancels every registered turn of the session and queues for the lock.
Truncated(c) ==
  /\ handler[c] = "truncate"
  /\ \E d \in 0..dirs :
       /\ mode[c] = "turn" => d < dirs
       /\ mode[c] = "round" => d > 0
       /\ dirs' = d
  /\ marker' = None
  /\ cancelReq' = cancelReq \cup {t \in Task : pc[t] \in InTurn \cup {"waiting"}}
  /\ handler' = [handler EXCEPT ![c] = "evict"]
  /\ Wants(c)
  /\ UNCHANGED <<created, pc, job, at, inbox, stamp, turn, mode, activeTask,
                 activeQueue, cache, jsonBound, clientVars, histVars>>

\* session_init goes to this client and the kept turn is run again.
RunAgain(c) ==
  /\ handler' = [handler EXCEPT ![c] = "idle"]
  /\ mode' = [mode EXCEPT ![c] = "none"]
  /\ shown' = [shown EXCEPT ![c] = None] /\ busy' = [busy EXCEPT ![c] = FALSE]
  /\ Spawn(c, IF mode[c] = "turn" THEN "message" ELSE "round", None)
  /\ UNCHANGED <<cancelReq, activeQueue, cache, jsonBound, diskVars, histVars>>

Evicted(c) ==
  /\ handler[c] = "evict" /\ holder = c
  /\ holder' = None /\ UNCHANGED lockQueue
  /\ RunAgain(c)

\* A turn kept the lock for _RETIRE_TIMEOUT_S: evict without it.
EvictTimeout(c) ==
  /\ handler[c] = "evict" /\ holder \in Task
  /\ lockQueue' = Without(lockQueue, c) /\ UNCHANGED holder
  /\ RunAgain(c)

-----------------------------------------------------------------------------
(* Turn tasks: process_message, _run_resume_from_round, _run_widget_recovery *)
(* around one ConversationService turn.  A requested cancellation is         *)
(* delivered before the task does anything else.                             *)

InClient(c) == handler[c] \notin {"new", "gone"}   \* frames reach the client

\* The task runs for the first time: the user message is stamped with the turn
\* to be, message_start turns the client busy, the connection gets this turn's
\* input queue, and the turn queues for the session's lock.
Start(t) ==
  /\ pc[t] = "created" /\ t \notin cancelReq
  /\ pc' = [pc EXCEPT ![t] = "waiting"]
  /\ stamp' = IF job[t].kind = "message" THEN [stamp EXCEPT ![t] = dirs + 1]
              ELSE stamp
  /\ busy' = [busy EXCEPT ![job[t].owner] = InClient(job[t].owner)]
  /\ activeQueue' = [activeQueue EXCEPT ![job[t].owner] = t]
  /\ Wants(t)
  /\ UNCHANGED <<created, job, at, inbox, cancelReq, turn, handler, mode,
                 activeTask, cache, jsonBound, shown, diskVars, histVars>>

\* _get_session_inferencer raises: "Backend unavailable".
StartFails(t) ==
  /\ "fail" \in Frames
  /\ pc[t] = "created" /\ t \notin cancelReq /\ job[t].kind = "message"
  /\ pc' = [pc EXCEPT ![t] = "failing"]
  /\ stamp' = [stamp EXCEPT ![t] = dirs + 1]
  /\ busy' = [busy EXCEPT ![job[t].owner] = InClient(job[t].owner)]
  /\ UNCHANGED <<created, job, at, inbox, cancelReq, turn, connVars, shown,
                 lockVars, diskVars, histVars>>

\* Mutant: the first waiter is let in while the lock is taken.
GrantWhileHeld(x) ==
  /\ lockQueue # <<>> /\ Head(lockQueue) = x
  /\ holder' = x /\ lockQueue' = Tail(lockQueue)

\* asyncio.Lock is FIFO: the first waiter gets the free lock.
Grant(x) ==
  /\ holder = None /\ lockQueue # <<>> /\ Head(lockQueue) = x
  /\ holder' = x /\ lockQueue' = Tail(lockQueue)

GrantHandler(c) ==
  /\ handler[c] \in {"rewind", "evict"}
  /\ Grant(c)
  /\ UNCHANGED <<taskVars, connVars, clientVars, diskVars, histVars>>

\* A user turn allocates the next turn directory; a recovery turn applies the
\* answer it was created with.
GrantTurn(t) ==
  /\ pc[t] = "waiting" /\ t \notin cancelReq
  /\ Grant(t)
  /\ pc' = [pc EXCEPT ![t] = "running"]
  /\ IF job[t].kind = "message"
     THEN dirs' = dirs + 1 /\ turn' = [turn EXCEPT ![t] = dirs + 1]
     ELSE UNCHANGED <<dirs, turn>>
  /\ recoveries' = [w \in Widget |-> recoveries[w] +
                      (IF job[t].kind = "recovery" /\ job[t].subject = w
                       THEN 1 ELSE 0)]
  /\ UNCHANGED <<created, job, at, inbox, cancelReq, stamp, connVars,
                 clientVars, marker, emitted, appliedLive>>

\* asend_response: a fresh widget, a cache entry, a frame to the client.
Emit(t) ==
  /\ pc[t] = "running" /\ t \notin cancelReq /\ emitted < MaxWidget
  /\ LET w == emitted + 1
         c == job[t].owner IN
     /\ emitted' = w
     /\ at' = [at EXCEPT ![t] = w]
     /\ cache' = [cache EXCEPT ![c] = @ \cup {w}]
     /\ shown' = [shown EXCEPT ![c] = IF InClient(c) THEN w ELSE @]
  /\ pc' = [pc EXCEPT ![t] = "emitting"]
  /\ UNCHANGED <<created, job, inbox, cancelReq, stamp, turn, handler, mode,
                 activeTask, activeQueue, jsonBound, busy, lockVars, diskVars,
                 appliedLive, recoveries>>

\* persist_pending_widget, unless the answer came first and popped the entry.
Persist(t) ==
  /\ pc[t] = "emitting" /\ t \notin cancelReq
  /\ marker' = IF at[t] \in cache[job[t].owner] THEN at[t] ELSE marker
  /\ pc' = [pc EXCEPT ![t] = "parked"]
  /\ UNCHANGED <<created, job, at, inbox, cancelReq, stamp, turn, connVars,
                 clientVars, lockVars, dirs, histVars>>

\* aget_input returns the first answer of the queue, for whatever widget.
TakeAnswer(t) ==
  /\ pc[t] = "parked" /\ t \notin cancelReq /\ inbox[t] # <<>>
  /\ inbox' = [inbox EXCEPT ![t] = Tail(@)]
  /\ at' = [at EXCEPT ![t] = None]
  /\ appliedLive' = appliedLive \cup {at[t]}
  /\ pc' = [pc EXCEPT ![t] = "running"]
  /\ UNCHANGED <<created, job, cancelReq, stamp, turn, connVars, clientVars,
                 lockVars, diskVars, emitted, recoveries>>

\* Leaving the turn frees the lock; a recovery turn clears the marker first
\* ("clear-at-END", in a finally block).
LeaveTurn(t) ==
  /\ holder' = None
  /\ marker' = IF job[t].kind = "recovery" THEN None ELSE marker
  /\ UNCHANGED <<created, job, at, inbox, stamp, turn, connVars, shown,
                 lockQueue, dirs, histVars>>

\* run_conversation_turn returned: status complete.
Complete(t) ==
  /\ pc[t] = "running" /\ t \notin cancelReq
  /\ LeaveTurn(t)
  /\ pc' = [pc EXCEPT ![t] = "leaving"]
  /\ busy' = [busy EXCEPT ![job[t].owner] = FALSE]
  /\ UNCHANGED cancelReq

\* The turn raised.
Fail(t) ==
  /\ "fail" \in Frames
  /\ pc[t] = "running" /\ t \notin cancelReq
  /\ LeaveTurn(t)
  /\ pc' = [pc EXCEPT ![t] = "failing"]
  /\ UNCHANGED <<busy, cancelReq>>

\* Mutant: a turn that awaits input does not notice its cancellation.
InterruptUnlessParked(t) ==
  /\ t \in cancelReq /\ pc[t] \in {"created", "waiting", "running", "emitting",
                                   "failing"}
  /\ cancelReq' = cancelReq \ {t}
  /\ pc' = [pc EXCEPT ![t] = CASE @ = "created" -> "done"
                               [] @ \in {"waiting", "failing"} -> "leaving"
                               [] OTHER -> "unwinding"]
  /\ lockQueue' = IF pc[t] = "waiting" THEN Without(lockQueue, t) ELSE lockQueue
  /\ busy' = [busy EXCEPT ![job[t].owner] =
                @ /\ ~(pc[t] = "waiting" /\ activeTask[job[t].owner] = t)]
  /\ UNCHANGED <<created, job, at, inbox, stamp, turn, connVars, shown, holder,
                 diskVars, histVars>>

\* Delivery of a cancellation.  A task that never ran ends at once, without its
\* finally block; a waiter leaves the queue; the lock's owner starts unwinding;
\* an error terminal in the middle of being sent is abandoned.
Interrupt(t) ==
  /\ t \in cancelReq /\ pc[t] \in {"created", "waiting", "running", "emitting",
                                   "parked", "failing"}
  /\ cancelReq' = cancelReq \ {t}
  /\ pc' = [pc EXCEPT ![t] = CASE @ = "created" -> "done"
                               [] @ \in {"waiting", "failing"} -> "leaving"
                               [] OTHER -> "unwinding"]
  /\ lockQueue' = IF pc[t] = "waiting" THEN Without(lockQueue, t) ELSE lockQueue
  /\ busy' = [busy EXCEPT ![job[t].owner] =
                @ /\ ~(pc[t] = "waiting" /\ activeTask[job[t].owner] = t)]
  /\ UNCHANGED <<created, job, at, inbox, stamp, turn, connVars, shown, holder,
                 diskVars, histVars>>

\* Mutant: the terminal frame is sent whether or not the task is still active.
UnwoundAlwaysReports(t) ==
  /\ pc[t] = "unwinding"
  /\ LeaveTurn(t)
  /\ cancelReq' = cancelReq \ {t}
  /\ pc' = [pc EXCEPT ![t] = "leaving"]
  /\ busy' = [busy EXCEPT ![job[t].owner] = FALSE]

\* The interrupted turn is through its own finally blocks: it ends cancelled
\* (send_cancelled_status: only the active task reports it) ...
Unwound(t) ==
  /\ pc[t] = "unwinding"
  /\ LeaveTurn(t)
  /\ cancelReq' = cancelReq \ {t}
  /\ pc' = [pc EXCEPT ![t] = "leaving"]
  /\ busy' = [busy EXCEPT ![job[t].owner] = @ /\ activeTask[job[t].owner] # t]

\* ... or its unwinding raises something else.
UnwindRaises(t) ==
  /\ "fail" \in Frames
  /\ pc[t] = "unwinding"
  /\ LeaveTurn(t)
  /\ cancelReq' = cancelReq \ {t}
  /\ pc' = [pc EXCEPT ![t] = "failing"]
  /\ UNCHANGED busy

\* Mutant: the ended task leaves its queue to the connection.
FinallyKeepsQueue(t) ==
  /\ pc' = [pc EXCEPT ![t] = "done"]
  /\ cancelReq' = cancelReq \ {t}
  /\ UNCHANGED activeQueue

\* The finally block of the task: active_input_queue = None.
Finally(t) ==
  /\ pc' = [pc EXCEPT ![t] = "done"]
  /\ cancelReq' = cancelReq \ {t}
  /\ activeQueue' = [activeQueue EXCEPT ![job[t].owner] = None]

Finish(t) ==
  /\ pc[t] = "leaving"
  /\ Finally(t)
  /\ UNCHANGED <<created, job, at, inbox, stamp, turn, handler, mode,
                 activeTask, cache, jsonBound, clientVars, lockVars, diskVars,
                 histVars>>

\* _emit_error_terminal (clear-point (d)) for a message, a status frame for a
\* round, an error frame for a recovery; each ends the client's busy state.
FinishError(t) ==
  /\ pc[t] = "failing" /\ t \notin cancelReq
  /\ Finally(t)
  /\ busy' = [busy EXCEPT ![job[t].owner] = FALSE]
  /\ marker' = IF job[t].kind = "message" THEN None ELSE marker
  /\ shown' = IF job[t].kind = "recovery"
              THEN [shown EXCEPT ![job[t].owner] = None] ELSE shown
  /\ UNCHANGED <<created, job, at, inbox, stamp, turn, handler, mode,
                 activeTask, cache, jsonBound, lockVars, dirs, histVars>>

-----------------------------------------------------------------------------
\* The server process dies: only the disk survives.
Crash ==
  /\ "crash" \in Frames
  /\ Open # {}
  /\ pc' = [t \in Task |-> IF pc[t] = "none" THEN "none" ELSE "done"]
  /\ cancelReq' = {}
  /\ handler' = [c \in Conn |-> IF handler[c] = "new" THEN "new" ELSE "gone"]
  /\ shown' = [c \in Conn |-> None] /\ busy' = [c \in Conn |-> FALSE]
  /\ activeQueue' = [c \in Conn |-> None]
  /\ holder' = None /\ lockQueue' = <<>>
  /\ UNCHANGED <<created, job, at, inbox, stamp, turn, mode, activeTask, cache,
                 jsonBound, diskVars, histVars>>

ClientFrame(c) ==
  \/ Connect(c) \/ Disconnect(c) \/ Message(c) \/ Cancel(c)
  \/ AnswerLive(c) \/ AnswerRecovers(c) \/ AnswerDropped(c)
  \/ ConfirmLive(c) \/ ConfirmRecovers(c) \/ ConfirmUnbound(c)
  \/ ResumeFromTurn(c) \/ ResumeFromRound(c) \/ EvolutionComplete(c)

HandlerStep(c) ==
  \/ QuiescedForTurn(c) \/ QuiescedForRound(c) \/ QuiescedForHub(c)
  \/ GrantHandler(c) \/ Rewound(c) \/ RewindRaises(c) \/ Truncated(c)
  \/ Evicted(c) \/ EvictTimeout(c)

TurnStep(t) ==
  \/ Start(t) \/ StartFails(t) \/ GrantTurn(t) \/ Emit(t) \/ Persist(t)
  \/ TakeAnswer(t) \/ Complete(t) \/ Fail(t) \/ Interrupt(t) \/ Unwound(t)
  \/ UnwindRaises(t) \/ Finish(t) \/ FinishError(t)

Next ==
  \/ \E c \in Conn : ClientFrame(c) \/ HandlerStep(c)
  \/ \E t \in Task : TurnStep(t)
  \/ Crash

Spec == Init /\ [][Next]_vars

\* The event loop runs every ready task and handler, a vendor call returns, a
\* cancelled turn unwinds; people owe nothing.
Fairness ==
  /\ \A t \in Task : WF_vars(TurnStep(t))
  /\ \A c \in Conn : WF_vars(HandlerStep(c))

FairSpec == Spec /\ Fairness

-----------------------------------------------------------------------------
(* Properties.                                                             *)

\* Turns of a session never overlap: a cancelled turn that is still unwinding
\* keeps the next one out ("after any turn of the same session still running
\* (a cancelled turn unwinding included) has finished").
TurnExclusion == \A t \in Task : pc[t] \in InTurn <=> holder = t

\* An answer is never put into the queue of a finished turn, nor into that of
\* another connection's turn.
QueueOwnerLive ==
  \A c \in Conn : activeQueue[c] # None =>
    Live(activeQueue[c]) /\ job[activeQueue[c]].owner = c

\* Every turn that nobody cancelled is the active task of an open connection:
\* neither a newer message nor a closed socket leaves a turn running.
NoOrphanTurn ==
  \A t \in Task :
    pc[t] \in {"created", "waiting", "running", "emitting", "parked"}
      /\ t \notin cancelReq =>
    /\ activeTask[job[t].owner] = t
    /\ InClient(job[t].owner)

\* The turn number stamped on a user message is that of the turn it triggers,
\* so that resume and drop-tasks map a message to its turn (one tab at a time:
\* the stamp is read before the lock is taken).
StampMatches == \A t \in Task : turn[t] # 0 => stamp[t] = turn[t]

\* No turn of the session runs or unwinds while a rewinding frame copies and
\* truncates the session on disk (turn resumes: they hold the turn lock before).
TruncateExclusive ==
  \A c \in Conn : handler[c] = "truncate" => \A t \in Task : pc[t] \notin InTurn

\* A widget answered at its live turn is over: the marker never shows it again.
NoGhostWidget == \A w \in appliedLive : marker # w

\* ... and no recovery applies an answer to it a second time.
AnsweredStaysAnswered ==
  NoGhostWidget /\ \A w \in appliedLive : recoveries[w] = 0

\* The answer a turn takes is for the widget it has on display.
AnswersFit ==
  [][\A t \in Task : pc[t] = "parked" /\ pc'[t] = "running" =>
       Head(inbox[t]) = at[t]]_vars

\* The late terminal frame of a replaced turn never ends the busy state of the
\* turn that replaced it.
NoLateTerminal ==
  [][\A t \in Task :
       LET c == job[t].owner IN
       /\ pc'[t] # pc[t] /\ pc[t] # "none" /\ handler'[c] = "idle"
       /\ busy[c] /\ ~busy'[c]
       => activeTask[c] = t]_vars

\* A cancelled turn ends.
CancelledTurnEnds == \A t \in Task : t \in cancelReq ~> pc[t] = "done"

\* The receive loop comes back from every rewinding frame.
RewindReturns ==
  \A c \in Conn : handler[c] \in {"quiesce", "rewind", "truncate", "evict"} ~>
                    handler[c] \in {"idle", "gone"}

\* Once every socket is gone the session's turn lock is freed: an unanswered
\* widget does not keep the session locked.
AbandonedSessionIsFree ==
  Open = {} ~> (holder = None /\ lockQueue = <<>>) \/ Open # {}

-----------------------------------------------------------------------------
(* The inductive invariant of the proofs.                                  *)

\* Task numbers are handed out in order; a created task has a connection.
TasksInOrder ==
  /\ \A t \in Task : t > created <=> pc[t] = "none"
  /\ \A t \in Task : pc[t] # "none" => job[t].owner \in Conn
  /\ \A c \in Conn : activeTask[c] # None => pc[activeTask[c]] # "none"

\* A turn that shows or awaits a widget has one.
WidgetOnDisplay ==
  \A t \in Task : pc[t] \in {"emitting", "parked"} => at[t] # None

\* A queue belongs to a task that ran its first step and not its last.
QueueMadeByTurn ==
  \A c \in Conn : activeQueue[c] # None =>
    pc[activeQueue[c]] \notin {"none", "created", "done"}
      /\ job[activeQueue[c]].owner = c

\* A receive loop past the quiesce step has no turn of its own left.
RewindAfterTurn ==
  \A c \in Conn : handler[c] \in {"rewind", "truncate", "evict"} =>
    ActiveLive(c) = {}

IInv ==
  /\ TypeOK /\ TasksInOrder /\ WidgetOnDisplay
  /\ TurnExclusion /\ QueueMadeByTurn /\ RewindAfterTurn /\ NoOrphanTurn

\* With one socket at a time the session has at most one turn that nobody
\* cancelled, and it is the business of an idle receive loop.
Current(t) ==
  pc[t] \in {"created", "waiting", "running", "emitting", "parked"} /\ t \notin cancelReq
OneSocket ==
  /\ \A c, d \in Open : c = d
  /\ \A t \in Task : pc[t] # "none" => handler[job[t].owner] # "new"
  /\ \A t \in Task : Current(t) => handler[job[t].owner] = "idle"

\* The number a waiting message was stamped with is still that of the next turn.
Stamped ==
  /\ \A t \in Task : pc[t] \in {"none", "created", "waiting"} => turn[t] = 0
  /\ \A t \in Task : pc[t] = "waiting" /\ Current(t) /\ job[t].kind = "message" =>
       stamp[t] = dirs + 1
  /\ StampMatches

\* Without round resumes every truncation follows a wait for the lock.
LockedBefore == (\A c \in Conn : mode[c] # "round") /\ TruncateExclusive

\* The frames of a client that come although a widget is on display, beside the
\* answer: the notification of a background task and what the hub's page sends.
Unasked == {"auto", "confirm", "evolve"}

\* Widgets are numbered in the order they are emitted; no two turns have one.
Emitted == 0..emitted
WidgetsInOrder ==
  /\ marker \in Emitted /\ \A c \in Conn : shown[c] \in Emitted /\ cache[c] \subseteq Emitted
  /\ \A t \in Task : at[t] \in Emitted /\ job[t].subject \in Emitted
  /\ \A t \in Task : pc[t] \in {"none", "created", "waiting"} => at[t] = None
  /\ \A t, u \in Task : at[t] = at[u] /\ at[t] # None => t = u
  /\ \A w \in Widget : recoveries[w] > 0 => w \in Emitted
  /\ appliedLive \subseteq Emitted \ {None}

\* Only the widget of the turn that nobody cancelled can be answered at a queue ...
QueueFits ==
  /\ \A c \in Conn : mode[c] # "evolve" /\ (handler[c] = "new" => activeQueue[c] = None)
  /\ \A t \in Task : Current(t) /\ pc[t] # "created" =>
       activeQueue[job[t].owner] \in {None, t}
  /\ \A t \in Task : Current(t) /\ pc[t] \in {"created", "waiting", "running"} =>
       shown[job[t].owner] = None
  /\ \A c \in Conn, t \in Task :
       handler[c] = "idle" /\ shown[c] # None /\ activeQueue[c] = t =>
         Current(t) /\ at[t] = shown[c] /\ inbox[t] = <<>>

\* ... so that a queue has the answer to what is on display, once, and nothing
\* remembers a widget that was answered.
AnswersInLine ==
  /\ \A t \in Task :
       pc[t] = "none" \/ (Current(t) /\ pc[t] \in {"created", "waiting", "running"}) =>
         inbox[t] = <<>>
  /\ \A t \in Task : Current(t) /\ pc[t] \in {"emitting", "parked"} =>
       /\ inbox[t] \in {<<>>, <<at[t]>>}
       /\ inbox[t] # <<>> => at[t] \notin cache[job[t].owner] /\ shown[job[t].owner] = None
       /\ at[t] \notin cache[job[t].owner] => at[t] # marker
       /\ recoveries[at[t]] = 0
  /\ \A t \in Task : at[t] \notin appliedLive
  /\ \A t \in Task : pc[t] \in {"created", "waiting"} /\ Current(t) =>
       job[t].subject \notin appliedLive
  /\ AnsweredStaysAnswered

OneTabInv ==
  Tabs <= 1 =>
  /\ OneSocket /\ Stamped
  /\ "resumeRound" \notin Frames => LockedBefore
  /\ Frames \cap Unasked = {} => WidgetsInOrder /\ QueueFits /\ AnswersInLine

=============================================================================
