-------------------------- MODULE BackgroundTasks --------------------------
(***************************************************************************)
(* The long-running tool calls of ONE conversation session: how a turn     *)
(* hands one to a background task (ToolDispatcher._dispatch_as_task), the  *)
(* task's run, its chip in the session's history (a task_ref message), its *)
(* workspace directory with the sidecar task_meta.json, the registry of    *)
(* live tasks (ConversationService._bg_tasks), and what a rewind of the    *)
(* session, a reconnect and a restart of the server do to them.            *)
(*                                                                         *)
(* There is one asynchronous tool; what a call asks of it is its target,   *)
(* the primary argument.  A stage is a round of a turn, numbered in the    *)
(* order of the conversation, so a rewind to a turn or to a round goes     *)
(* back to a stage.  The work of a tool is external: it leaves the marker  *)
(* of a finished run in its workspace, or not, and returns or raises.      *)
(***************************************************************************)
EXTENDS Naturals, Sequences, FiniteSets, FiniteSetsExt, SequencesExt

CONSTANTS
  Target,      \* what a call may ask for
  Modes,       \* how it may ask: "keyed", "fresh", "adHoc"
  MaxTask,     \* bound: tasks of the session, slash commands included
  MaxStage,    \* bound: rounds in the history
  MaxBreak,    \* bound: rewinds and server restarts
  SlashTool,   \* the tool that slash commands run: that of the turns, or another
  Placement,   \* where the tool works: in the directory it is given, or in its own
  Overlap      \* a second socket of the session is used while one rewinds it

Tools == {"sop", "other"}   \* the tool turns call; one they never call
NoTarget == "none"          \* a call without one, a sidecar without a key

ASSUME TasksAssumption ==
  /\ Modes \subseteq {"keyed", "fresh", "adHoc"}
  /\ MaxTask \in Nat /\ MaxStage \in Nat /\ MaxBreak \in Nat
  /\ NoTarget \notin Target /\ SlashTool \in Tools /\ Placement \in {"given", "own"} /\ Overlap \in BOOLEAN

None == 0
Gone == [there |-> FALSE]         \* a directory that does not exist
Missing == [missing |-> TRUE]     \* a file that does not exist

VARIABLES
  \* --- on disk -------------------------------------------------------------
  log,       \* the target each stage's response asks for (inference_response.txt)
  chips,     \* the task_ref messages, by task (their order decides nothing)
  dirs,      \* tasks/<tool>_<time>_<hex>/, in the order of their creation
  saved,     \* the checkpoint that can be restored, or Missing
  \* --- in the server process -----------------------------------------------
  tasks,     \* the asyncio tasks ever made
  tracked,   \* _bg_tasks[session]
  adopted,   \* the dispatcher's _backfill_done
  turn,      \* the turn that runs
  op,        \* the rewinding frame that is served
  \* --- history --------------------------------------------------------------
  breaks     \* rewinds and restarts so far

disk == <<log, chips, dirs, saved>>
vars == <<log, chips, dirs, saved, tasks, tracked, adopted, turn, op, breaks>>

IdleTurn == [pc |-> "idle", mode |-> "none", target |-> NoTarget, stage |-> None]
IdleOp == [pc |-> "idle", kind |-> "none", cut |-> None, drop |-> FALSE, wait |-> {},
           live |-> {}, back |-> Missing]

Live == {i \in DOMAIN tasks : tasks[i].pc # "ended"}
Go(i, pc) == tasks' = [tasks EXCEPT ![i].pc = pc]

\* update_message: nothing happens when the chip is not in the history.
WithStatus(i, s) == IF i \in DOMAIN chips THEN [chips EXCEPT ![i].status = s] ELSE chips

\* write_task_meta makes the directory when it is not there (any more).
Touched(d) == IF dirs[d].there THEN dirs
              ELSE [dirs EXCEPT ![d] = [there |-> TRUE, tool |-> "sop", complete |-> FALSE, made |-> {},
                                        side |-> [task |-> None, target |-> NoTarget, stage |-> None]]]

Init ==
  /\ log = <<>> /\ chips = <<>> /\ dirs = <<>> /\ saved = Missing
  /\ tasks = <<>> /\ tracked = {} /\ adopted = FALSE
  /\ turn = IdleTurn /\ op = IdleOp /\ breaks = 0

-----------------------------------------------------------------------------
(* A turn calls the tool.                                                  *)

\* The rewinding frame's socket is busy; another one is free.
Free == Overlap \/ op.pc = "idle"
\* A restore holds the turn lock.
Locked == op.kind = "restore" /\ op.pc \in {"copy", "cut"}

\* A round's response is saved before its tools run.
Respond(t, mode) ==
  /\ turn.pc = "idle" /\ Free /\ ~Locked /\ Len(log) < MaxStage
  /\ (t = NoTarget) = (mode = "none")
  /\ log' = Append(log, t)
  /\ turn' = IF t = NoTarget THEN IdleTurn
              ELSE [pc |-> "calling", mode |-> mode, target |-> t, stage |-> Len(log) + 1]
  /\ UNCHANGED <<chips, dirs, saved, tasks, tracked, adopted, op, breaks>>

\* backfill_task_sidecars: the directories without a sidecar get one, with the
\* targets of the recorded calls in order, or the only one there is.
Recorded == {k \in DOMAIN log : log[k] # NoTarget}
Orphans == {d \in DOMAIN dirs : dirs[d].there /\ dirs[d].side = Missing}
TargetOf(d) ==
  LET i == Cardinality({e \in Orphans : e <= d /\ dirs[e].tool = "sop"})
      same == {k \in Recorded : \/ Recorded = {k}
                                \/ Cardinality({j \in Recorded : j <= k}) = i}
  IN  IF dirs[d].tool = "other" \/ same = {} THEN NoTarget ELSE log[CHOOSE k \in same : TRUE]
Backfilled ==
  [d \in DOMAIN dirs |->
     IF d \in Orphans
     THEN [dirs[d] EXCEPT !.side = [task |-> None, target |-> TargetOf(d), stage |-> None]]
     ELSE dirs[d]]

\* Mutant: the chips are not looked at.
MatchingAny(ds, t) ==
  {d \in DOMAIN ds : ds[d].there /\ ds[d].side # Missing /\ ds[d].side.target = t}

\* Mutant: the primary argument is not looked at.
MatchingTool(ds, t) ==
  {d \in DOMAIN ds : /\ ds[d].there /\ ds[d].side # Missing /\ ds[d].side.target # NoTarget
                     /\ \A k \in DOMAIN chips : chips[k].ws # d}

\* find_reusable_workspace: of the key, and no chip names it ...
Matching(ds, t) ==
  {d \in DOMAIN ds : /\ ds[d].there /\ ds[d].side # Missing /\ ds[d].side.target = t
                     /\ \A k \in DOMAIN chips : chips[k].ws # d}
\* ... the oldest complete one, else the oldest.
Reusable(ds, t) ==
  LET match == Matching(ds, t)
      complete == {d \in match : ds[d].complete}
  IN  IF match = {} THEN None ELSE Min(IF complete # {} THEN complete ELSE match)

\* What a task leaves in the directory it is given.
Made(t) == IF Placement = "given" THEN {t} ELSE {}

\* _dispatch_as_task, from the first frame on: no await, so one step.
Dispatch ==
  /\ turn.pc = "calling" /\ Len(tasks) < MaxTask
  /\ LET t == turn.target
         keyed == turn.mode = "keyed"
         ds == IF keyed /\ ~adopted THEN Backfilled ELSE dirs
         old == IF keyed THEN Reusable(ds, t) ELSE None
         n == Len(tasks) + 1
         d == IF old = None THEN Len(ds) + 1 ELSE old
         ready == old # None /\ ds[old].complete
         side == [task |-> n, target |-> IF turn.mode = "adHoc" THEN NoTarget ELSE t,
                  stage |-> turn.stage]
     IN  /\ dirs' = IF old # None THEN [ds EXCEPT ![old].side = side,
                                                  ![old].made = IF ready THEN @ ELSE @ \cup Made(t)]
                    ELSE Append(ds, [there |-> TRUE, tool |-> "sop", complete |-> FALSE,
                                       made |-> Made(t), side |-> side])
         /\ chips' = [k \in DOMAIN chips \cup {n} |->
                        IF k = n THEN [ws |-> d, status |-> "starting", stage |-> turn.stage]
                        ELSE chips[k]]
         /\ tasks' = Append(tasks, [ws |-> d, work |-> d, target |-> t, ready |-> ready, pc |-> "spawned"])
         /\ tracked' = tracked \cup {n}
         /\ adopted' = (adopted \/ keyed)
  /\ turn' = IdleTurn
  /\ UNCHANGED <<log, saved, op, breaks>>

\* A slash command runs the tool in a directory without a sidecar, without a
\* chip; it is tracked with the tasks of the turns.
Slash(t) ==
  /\ Free /\ Len(tasks) < MaxTask
  /\ dirs' = Append(dirs, [there |-> TRUE, tool |-> SlashTool, complete |-> FALSE,
                           made |-> {t}, side |-> Missing])
  /\ tasks' = Append(tasks, [ws |-> Len(dirs) + 1, work |-> Len(dirs) + 1, target |-> t,
                             ready |-> FALSE, pc |-> "slash"])
  /\ tracked' = tracked \cup {Len(tasks) + 1}
  /\ UNCHANGED <<log, chips, saved, adopted, turn, op, breaks>>

-----------------------------------------------------------------------------
(* The run of a task.                                                      *)

\* The first frame went out: sidecar and chip say so; the tool starts, and
\* some tools make a directory of their own (the repository's do).
Run(i) ==
  /\ tasks[i].pc = "spawned"
  /\ IF Placement = "given" \/ tasks[i].ready
     THEN Go(i, "running") /\ dirs' = Touched(tasks[i].ws)
     ELSE /\ dirs' = Append(Touched(tasks[i].ws),
                            [there |-> TRUE, tool |-> "sop", complete |-> FALSE,
                             made |-> {tasks[i].target}, side |-> Missing])
          /\ tasks' = [tasks EXCEPT ![i].pc = "running", ![i].work = Len(dirs) + 1]
  /\ chips' = WithStatus(i, "running")
  /\ UNCHANGED <<log, saved, tracked, adopted, turn, op, breaks>>

\* The tool leaves the marker of a finished run (final_result.json).
Mark(i) ==
  /\ tasks[i].pc \in {"running", "slash"} /\ ~tasks[i].ready
  /\ dirs[tasks[i].work].there /\ ~dirs[tasks[i].work].complete
  /\ dirs' = [dirs EXCEPT ![tasks[i].work].complete = TRUE]
  /\ UNCHANGED <<log, chips, saved, tasks, tracked, adopted, turn, op, breaks>>

\* The tool returns, or its persisted result is taken; task_completed goes out.
Return(i) ==
  /\ tasks[i].pc = "running"
  /\ Go(i, "returned")
  /\ UNCHANGED <<log, chips, dirs, saved, tracked, adopted, turn, op, breaks>>

\* Mutant: the done-callback does not take the task out of the registry.
CompleteKept(i) ==
  /\ tasks[i].pc = "returned"
  /\ Go(i, "ended") /\ UNCHANGED tracked
  /\ dirs' = Touched(tasks[i].ws) /\ chips' = WithStatus(i, "completed")
  /\ UNCHANGED <<log, saved, adopted, turn, op, breaks>>

\* After the frames: sidecar and chip are completed.
Complete(i) ==
  /\ tasks[i].pc = "returned"
  /\ Go(i, "ended") /\ tracked' = tracked \ {i}
  /\ dirs' = Touched(tasks[i].ws) /\ chips' = WithStatus(i, "completed")
  /\ UNCHANGED <<log, saved, adopted, turn, op, breaks>>

\* The tool raises.
Fail(i) ==
  /\ tasks[i].pc = "running" /\ ~tasks[i].ready
  /\ Go(i, "ended") /\ tracked' = tracked \ {i}
  /\ dirs' = Touched(tasks[i].ws) /\ chips' = WithStatus(i, "error")
  /\ UNCHANGED <<log, saved, adopted, turn, op, breaks>>

\* A slash command's run ends: it has nothing to persist.
SlashEnd(i) ==
  /\ tasks[i].pc = "slash"
  /\ Go(i, "ended") /\ tracked' = tracked \ {i}
  /\ UNCHANGED <<log, chips, dirs, saved, adopted, turn, op, breaks>>

\* A cancelled task ends; CancelledError passes the handlers that persist, and
\* the done-callback of _register_bg_task forgets the task.
Unwind(i) ==
  /\ i \in op.wait /\ i \in Live
  /\ Go(i, "ended") /\ tracked' = tracked \ {i}
  /\ UNCHANGED <<log, chips, dirs, saved, adopted, turn, op, breaks>>

TaskStep(i) == Run(i) \/ Return(i) \/ Complete(i) \/ Fail(i) \/ SlashEnd(i) \/ Unwind(i)

-----------------------------------------------------------------------------
(* A rewind: to a turn, to a round, or to a checkpoint.                    *)

\* _quiesce_session: the socket's own turn is cancelled; the live tasks are
\* cancelled and waited for.
Quiesce(kind, cut, drop) ==
  /\ op.pc = "idle" /\ breaks < MaxBreak /\ breaks' = breaks + 1
  /\ IF kind = "restore" THEN saved # Missing /\ cut = None /\ ~drop ELSE cut \in DOMAIN log
  /\ turn' = IdleTurn
  /\ op' = [IdleOp EXCEPT !.pc = "drain", !.kind = kind, !.cut = cut, !.drop = drop,
                          !.wait = tracked \cap Live, !.back = IF kind = "restore" THEN saved ELSE Missing]
  /\ UNCHANGED <<log, chips, dirs, saved, tasks, tracked, adopted>>

\* Mutant: the cancelled tasks are not waited for.
DrainedSoon ==
  /\ op.pc = "drain"
  /\ tracked' = {}
  /\ op' = [op EXCEPT !.pc = "prepare", !.wait = {}]
  /\ UNCHANGED <<log, chips, dirs, saved, tasks, adopted, turn, breaks>>

\* drain_session_background_tasks: all of them ended; the bucket is dropped.
Drained ==
  /\ op.pc = "drain" /\ op.wait \cap Live = {}
  /\ tracked' = {}
  /\ op' = [op EXCEPT !.pc = "prepare", !.wait = {}]
  /\ UNCHANGED <<log, chips, dirs, saved, tasks, adopted, turn, breaks>>

\* prepare_rewind and restore_checkpoint wait for the turn lock; when the
\* vendor session cannot be rewound, nothing else happens.  A rewind to a
\* round waits for nothing.
Prepare ==
  /\ op.pc = "prepare"
  /\ \/ (op.kind = "cut" \/ turn.pc = "idle") /\ op' = [op EXCEPT !.pc = "copy"]
     \/ turn.pc = "idle" /\ op' = IdleOp
  /\ UNCHANGED <<log, chips, dirs, saved, tasks, tracked, adopted, turn, breaks>>

\* checkpoint_session, in a worker thread.
Copy ==
  /\ op.pc = "copy"
  /\ saved' = [log |-> log, chips |-> chips, dirs |-> dirs]
  /\ op' = [op EXCEPT !.pc = "cut"]
  /\ UNCHANGED <<log, chips, dirs, tasks, tracked, adopted, turn, breaks>>

\* truncate_session_at_message, truncate_session_at_round: the history first ...
Cut ==
  /\ op.pc = "cut" /\ op.kind # "restore"
  /\ log' = SubSeq(log, 1, op.cut - 1)
  /\ chips' = Restrict(chips, {k \in DOMAIN chips : chips[k].stage < op.cut})
  /\ op' = [op EXCEPT !.pc = IF op.drop THEN "remove" ELSE "evict"]
  /\ UNCHANGED <<dirs, saved, tasks, tracked, adopted, turn, breaks>>

\* Mutant: off by one.
Later(c) == {d \in DOMAIN dirs : dirs[d].there /\ dirs[d].side # Missing /\ dirs[d].side.stage >= c - 1}

\* _drop_task_workspaces_at_or_after(_round).
AtOrAfter(c) ==
  {d \in DOMAIN dirs : /\ dirs[d].there /\ dirs[d].side # Missing
                       /\ dirs[d].side.stage # None /\ dirs[d].side.stage >= c}
\* ... then the workspaces.
RemoveWorkspaces ==
  /\ op.pc = "remove"
  /\ dirs' = [d \in DOMAIN dirs |-> IF d \in AtOrAfter(op.cut) THEN Gone ELSE dirs[d]]
  /\ op' = [op EXCEPT !.pc = "evict"]
  /\ UNCHANGED <<log, chips, saved, tasks, tracked, adopted, turn, breaks>>

\* restore_checkpoint: what the checkpoint has is put in place of what is there.
Restore ==
  /\ op.pc = "cut" /\ op.kind = "restore"
  /\ log' = op.back.log /\ chips' = op.back.chips
  /\ dirs' = [d \in DOMAIN dirs |-> IF d \in DOMAIN op.back.dirs THEN op.back.dirs[d] ELSE Gone]
  /\ op' = [op EXCEPT !.pc = "evict", !.back = Missing]
  /\ UNCHANGED <<saved, tasks, tracked, adopted, turn, breaks>>

\* _evict_and_send_session_init: the live tasks are noted, then the registry
\* and the dispatcher are dropped with the cached state ...
Evict ==
  /\ op.pc = "evict"
  /\ op' = [op EXCEPT !.pc = "init", !.live = tracked \cap Live]
  /\ tracked' = {} /\ adopted' = FALSE /\ turn' = IdleTurn
  /\ UNCHANGED <<log, chips, dirs, saved, tasks, breaks>>

\* Mutant: the tasks in the registry are not asked for.
ReconciledBlindly(live) ==
  [k \in DOMAIN chips |->
     IF chips[k].status \notin {"starting", "running"} THEN chips[k]
     ELSE [chips[k] EXCEPT !.status = IF dirs[chips[k].ws].there /\ dirs[chips[k].ws].complete
                                      THEN "completed" ELSE "interrupted"]]

\* reconcile_task_ref_statuses: an open chip without a live task is healed.
Reconciled(live) ==
  [k \in DOMAIN chips |->
     IF chips[k].status \notin {"starting", "running"} \/ k \in live THEN chips[k]
     ELSE [chips[k] EXCEPT !.status = IF dirs[chips[k].ws].there /\ dirs[chips[k].ws].complete
                                      THEN "completed" ELSE "interrupted"]]

\* ... and the page is told the history.
SendInit ==
  /\ op.pc = "init"
  /\ chips' = Reconciled(op.live)
  /\ op' = IdleOp
  /\ UNCHANGED <<log, dirs, saved, tasks, tracked, adopted, turn, breaks>>

\* The page connects (again): the turn of its old socket is cancelled.
Connect ==
  /\ Free
  /\ turn' = IdleTurn
  /\ chips' = Reconciled(tracked \cap Live)
  /\ UNCHANGED <<log, dirs, saved, tasks, tracked, adopted, op, breaks>>

\* The backend is switched: the dispatcher goes, the tasks go on.
SwitchBackend ==
  /\ Free /\ adopted
  /\ turn' = IdleTurn /\ adopted' = FALSE
  /\ UNCHANGED <<log, chips, dirs, saved, tasks, tracked, op, breaks>>

\* The server dies, at any point but a restore's, and starts again.
Restart ==
  /\ breaks < MaxBreak /\ breaks' = breaks + 1
  /\ ~(op.kind = "restore" /\ op.pc = "cut")
  /\ tasks' = [i \in DOMAIN tasks |-> [tasks[i] EXCEPT !.pc = "ended"]]
  /\ tracked' = {} /\ adopted' = FALSE /\ turn' = IdleTurn /\ op' = IdleOp
  /\ UNCHANGED <<log, chips, dirs, saved>>

Next ==
  \/ \E t \in Target, mode \in Modes : Respond(t, mode)
  \/ Respond(NoTarget, "none")
  \/ Dispatch
  \/ \E t \in Target : Slash(t)
  \/ \E i \in DOMAIN tasks : TaskStep(i) \/ Mark(i)
  \/ \E kind \in {"cut", "restore"}, cut \in 0..MaxStage, drop \in BOOLEAN :
        Quiesce(kind, cut, drop)
  \/ Drained \/ Prepare \/ Copy \/ Cut \/ RemoveWorkspaces \/ Restore \/ Evict \/ SendInit
  \/ Connect \/ SwitchBackend \/ Restart

Spec == Init /\ [][Next]_vars

-----------------------------------------------------------------------------
(* Types.                                                                  *)

Ids == 1..MaxTask
Stages == 1..MaxStage
Sidecars == [task : Ids \cup {None}, target : Target \cup {NoTarget}, stage : Stages \cup {None}]
Directories == [there : {TRUE}, tool : Tools, complete : BOOLEAN, made : SUBSET Target,
                side : Sidecars \cup {Missing}] \cup {Gone}
Chips == [ws : Nat, stage : Stages,
          status : {"starting", "running", "completed", "error", "interrupted"}]
Tasks == [ws : Nat, work : Nat, target : Target, ready : BOOLEAN,
          pc : {"spawned", "slash", "running", "returned", "ended"}]
Logs == {l \in Seq(Target \cup {NoTarget}) : Len(l) <= MaxStage}
Calls == [pc : {"calling"}, mode : Modes, target : Target, stage : Stages]
Ops == [pc : {"idle", "drain", "prepare", "copy", "cut", "remove", "evict", "init"},
        kind : {"none", "cut", "restore"}, cut : Stages \cup {None}, drop : BOOLEAN,
        wait : SUBSET Ids, live : SUBSET Ids, back : {op.back}]

\* Chips and directories, on disk or in a checkpoint: every chip is that of a
\* task, and its workspace a directory.
Housed(c, ds) ==
  /\ ds \in Seq(Directories) /\ Len(ds) <= Len(dirs)
  /\ c \in [DOMAIN c -> Chips] /\ DOMAIN c \subseteq DOMAIN tasks
  /\ \A k \in DOMAIN c : c[k].ws \in DOMAIN ds
Checkpoints == {saved, op.back} \ {Missing}

\* A rewind has what it goes back to: a checkpoint, or a stage of the log.
Aimed == op.pc \in {"drain", "prepare", "copy", "cut"} =>
           IF op.kind = "restore" THEN op.back # Missing ELSE op.cut \in DOMAIN log

\* Type invariant; a task's workspaces are directories once made, and a
\* registered task is alive.
TypeOK ==
  /\ log \in Logs /\ Housed(chips, dirs)
  /\ \A x \in Checkpoints : /\ x \in [log : Logs, chips : {x.chips}, dirs : {x.dirs}]
                            /\ Housed(x.chips, x.dirs)
  /\ tasks \in Seq(Tasks) /\ Len(tasks) <= MaxTask
  /\ \A i \in DOMAIN tasks : tasks[i].ws \in DOMAIN dirs /\ tasks[i].work \in DOMAIN dirs
  /\ tracked \subseteq Live /\ adopted \in BOOLEAN
  /\ turn \in Calls \cup {IdleTurn} /\ op \in Ops /\ breaks \in 0..MaxBreak
  /\ op.wait \cup op.live \subseteq DOMAIN tasks
  /\ Aimed

-----------------------------------------------------------------------------
(* Properties.                                                             *)

\* Two tasks that are alive never work in the same directory, whatever was
\* cut, kept, restored or reused in between.
OneWriter ==
  \A i, j \in Live : i # j => tasks[i].work # tasks[j].work

\* A chip never says its task was interrupted while the task is alive: what
\* reconciles the chips knows every task that still runs.
LiveNotWrittenOff ==
  \A k \in DOMAIN chips : chips[k].status = "interrupted" => k \notin Live

\* Every chip of the history has its workspace, and the sidecar there is that
\* of the chip's task: dropping the workspaces of a cut takes none that the
\* kept history shows, and no other task took the workspace over.
ChipsKeepTheirWorkspace ==
  \A k \in DOMAIN chips :
    LET d == dirs[chips[k].ws]
    IN  d.there /\ d.side # Missing /\ d.side.task = k

\* session_store.py:1196 "so the sidecar simply won't match (the task runs
\* fresh -- never a wrong reuse)": what a completed task shows was made for
\* what it was asked.
RightReuse ==
  \A k \in DOMAIN chips : chips[k].status = "completed" =>
    LET d == dirs[tasks[k].work]
    IN  d.there => d.made \subseteq {tasks[k].target}

\* manager_websocket_routes.py:340 "so the checkpoint copy / rmtree can't
\* race a live writer": nothing works in the session while it is copied and cut.
CutIsQuiet ==
  op.pc \in {"copy", "cut", "remove"} => Live = {}

-----------------------------------------------------------------------------
(* Why they hold: the inductive invariant.                                 *)

\* The served rewind has the session to itself: no turn runs beside it, it
\* waits for every task there is, and once it waited there is none.
Alone ==
  /\ op.pc # "idle" => turn.pc = "idle"
  /\ op.pc = "idle" => Live \subseteq tracked
  /\ op.pc = "drain" => Live \subseteq op.wait
  /\ op.pc \notin {"idle", "drain"} => Live = {}

\* Each chip and the sidecar of its workspace tell the same of its task.
Agree(c, ds) ==
  \A k \in DOMAIN c : LET d == ds[c[k].ws]
                      IN  d.there /\ d.side # Missing /\ d.side.task = k /\ d.side.stage = c[k].stage

\* Chips and sidecars agree, in every checkpoint too, and what a rewind still
\* has to remove belongs to no chip.
InStep ==
  /\ Agree(chips, dirs) /\ \A x \in Checkpoints : Agree(x.chips, x.dirs)
  /\ op.pc = "remove" => \A k \in DOMAIN chips : chips[k].stage < op.cut

\* What a directory is for, and what a chip's workspace holds: directories of
\* slash commands have no key, keyed ones hold what their key says.
Labelled(c, ds) ==
  /\ \A d \in DOMAIN ds : ds[d].there =>
       /\ ds[d].side = Missing => ds[d].tool = "other"
       /\ ds[d].tool = "other" /\ ds[d].side # Missing => ds[d].side.target = NoTarget
       /\ ds[d].side # Missing /\ ds[d].side.target # NoTarget => ds[d].made \subseteq {ds[d].side.target}
  /\ \A k \in DOMAIN c : c[k].ws = tasks[k].ws /\ ds[c[k].ws].made \subseteq {tasks[k].target}

\* Every live task of a turn has its chip, every live slash command a
\* directory of the other tool.
Apart ==
  /\ Labelled(chips, dirs) /\ \A x \in Checkpoints : Labelled(x.chips, x.dirs)
  /\ \A i \in DOMAIN tasks : tasks[i].work = tasks[i].ws
  /\ \A i \in Live : IF tasks[i].pc = "slash"
                     THEN dirs[tasks[i].ws].there => dirs[tasks[i].ws].tool = "other"
                     ELSE i \in DOMAIN chips
  /\ OneWriter

\* The tools work where they are put, and slash commands run another one.
InPlace == Placement = "given" /\ SlashTool = "other"

\* The inductive invariant.
IInv ==
  /\ TypeOK
  /\ ~Overlap => Alone /\ LiveNotWrittenOff /\ InStep
  /\ ~Overlap /\ InPlace => Apart
=============================================================================
