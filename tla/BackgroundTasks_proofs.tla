----------------------- MODULE BackgroundTasks_proofs -----------------------
(***************************************************************************)
(* What is proved of BackgroundTasks, for any number of tasks, stages,     *)
(* rewinds and targets: its types; when no second socket is used while one *)
(* rewinds (Overlap = FALSE), that a rewind has the session to itself      *)
(* (CutIsQuiet), that no chip of a live task is written off                *)
(* (LiveNotWrittenOff) and that chips and sidecars agree                   *)
(* (ChipsKeepTheirWorkspace); and, when moreover tools work in the         *)
(* directory they are given and slash commands run another tool (InPlace), *)
(* that no two live tasks share a directory (OneWriter) and that what is   *)
(* reused was made for what is asked (RightReuse).  The run reuse shows    *)
(* that RightReuse fails for tools that make a directory of their own.     *)
(***************************************************************************)
EXTENDS BackgroundTasks, SequenceTheorems, WellFoundedInduction, TLAPS

-----------------------------------------------------------------------------
(* The least of a set of numbers.                                          *)

Below == {ss \in Nat \X Nat : ss[1] < ss[2]}

\* The numbers are well-founded under the order in which directories are made.
LEMMA BelowIsWellFounded == IsWellFoundedOn(Below, Nat)
<1>1. Below = OpToRel(<, Nat)
  BY DEF Below, OpToRel
<1> QED BY <1>1, NatLessThanWellFounded

\* A set of numbers has a least one.
LEMMA MinIsThere ==
  ASSUME NEW S \in SUBSET Nat, S # {}
  PROVE  \E x \in S : \A y \in S : x <= y
<1>1. PICK x \in S : \A y \in S : ~ (<<y, x>> \in Below)
  BY BelowIsWellFounded, WFMin
<1>2. ASSUME NEW y \in S PROVE x <= y
  <2>1. x \in Nat /\ y \in Nat
    OBVIOUS
  <2>2. ~ (<<y, x>> \in Below)
    BY <1>1
  <2> QED BY <2>1, <2>2 DEF Below
<1> QED BY <1>2

\* Min is the least element: the oldest workspace (find_reusable_workspace).
LEMMA MinIsLeast ==
  ASSUME NEW S \in SUBSET Nat, S # {}
  PROVE  Min(S) \in S /\ \A y \in S : Min(S) <= y
BY MinIsThere DEF Min

-----------------------------------------------------------------------------
(* Types.                                                                  *)

\* A sidecar is not a file that does not exist.
LEMMA SidecarIsThere == \A x \in Sidecars : x # Missing
BY DEF Sidecars, Missing

\* What is known of a directory that is there.
LEMMA DirectoryIsThere ==
  ASSUME NEW d \in Directories, d.there
  PROVE  d \in [there : {TRUE}, tool : Tools, complete : BOOLEAN, made : SUBSET Target,
                side : Sidecars \cup {Missing}]
<1>1. d # Gone
  BY DEF Gone
<1> QED BY <1>1 DEF Directories

\* The initial state has the types.
LEMMA TypeInit == Init => TypeOK
<1> SUFFICES ASSUME Init PROVE TypeOK
  OBVIOUS
<1> USE TasksAssumption DEF TasksAssumption, Init
<1>1. <<>> \in Seq(Target \cup {NoTarget}) /\ <<>> \in Seq(Directories) /\ <<>> \in Seq(Tasks)
  BY EmptySeq
<1>2. log \in Logs /\ Housed(chips, dirs)
  BY <1>1 DEF Logs, Housed
<1>3. Checkpoints = {}
  BY DEF Checkpoints, IdleOp
<1>4. op \in Ops
  BY DEF Ops, IdleOp, None
<1>5. Live = {} /\ DOMAIN tasks = {} /\ Len(tasks) = 0
  BY EmptySeq DEF Live
<1>6. tracked \subseteq Live /\ adopted \in BOOLEAN /\ turn \in Calls \cup {IdleTurn}
  OBVIOUS
<1>7. op.wait \cup op.live \subseteq DOMAIN tasks /\ Aimed
  BY DEF IdleOp, Aimed
<1> QED BY <1>1, <1>2, <1>3, <1>4, <1>5, <1>6, <1>7 DEF TypeOK

\* write_task_meta changes no directory but the one it has to make.
LEMMA TouchedTyped ==
  ASSUME dirs \in Seq(Directories), NEW d \in DOMAIN dirs
  PROVE /\ Touched(d) \in Seq(Directories) /\ Len(Touched(d)) = Len(dirs)
        /\ \A e \in DOMAIN dirs : Touched(d)[e] # dirs[e] => e = d /\ ~ dirs[d].there
<1> DEFINE new == [there |-> TRUE, tool |-> "sop", complete |-> FALSE, made |-> {},
                   side |-> [task |-> None, target |-> NoTarget, stage |-> None]]
<1>1. new \in Directories
  BY DEF Directories, Sidecars, Tools
<1> HIDE DEF new
<1>2. d \in 1..Len(dirs)
  BY LenProperties
<1>3. Touched(d) = IF dirs[d].there THEN dirs ELSE [dirs EXCEPT ![d] = new]
  BY DEF Touched, new
<1> QED BY <1>1, <1>2, <1>3, ExceptSeq, LenProperties

\* update_message changes the status of one chip, and nothing else.
LEMMA WithStatusTyped ==
  ASSUME NEW c, c = chips, chips \in [DOMAIN chips -> Chips], NEW i, NEW s \in {"starting", "running", "completed", "error", "interrupted"}
  PROVE  /\ WithStatus(i, s) \in [DOMAIN chips -> Chips]
         /\ \A k \in DOMAIN chips : /\ WithStatus(i, s)[k].ws = chips[k].ws
                                    /\ WithStatus(i, s)[k].stage = chips[k].stage
                                    /\ k # i => WithStatus(i, s)[k] = chips[k]
                                    /\ k = i => WithStatus(i, s)[k].status = s
<1>1. \A k \in DOMAIN chips : [chips[k] EXCEPT !.status = s] \in Chips
  BY DEF Chips
<1> QED BY <1>1 DEF WithStatus, Chips

\* Reconciling changes statuses only.
LEMMA ReconciledTyped ==
  ASSUME chips \in [DOMAIN chips -> Chips], NEW live
  PROVE  /\ Reconciled(live) \in [DOMAIN chips -> Chips]
         /\ \A k \in DOMAIN chips : /\ Reconciled(live)[k].ws = chips[k].ws
                                    /\ Reconciled(live)[k].stage = chips[k].stage
<1>1. ASSUME NEW k \in DOMAIN chips, NEW s \in {"completed", "interrupted"}
      PROVE  /\ [chips[k] EXCEPT !.status = s] \in Chips
             /\ [chips[k] EXCEPT !.status = s].ws = chips[k].ws
             /\ [chips[k] EXCEPT !.status = s].stage = chips[k].stage
  BY DEF Chips
<1> QED BY <1>1 DEF Reconciled

\* A task that moves keeps its workspace, its target and its place.
LEMMA GoTyped ==
  ASSUME tasks \in Seq(Tasks), NEW i \in DOMAIN tasks, NEW pc \in {"spawned", "slash", "running", "returned", "ended"}, Go(i, pc)
  PROVE  /\ tasks' \in Seq(Tasks) /\ Len(tasks') = Len(tasks)
         /\ DOMAIN tasks' = DOMAIN tasks
         /\ \A j \in DOMAIN tasks : /\ tasks'[j].ws = tasks[j].ws /\ tasks'[j].work = tasks[j].work
                                    /\ tasks'[j].target = tasks[j].target
                                    /\ tasks'[j].pc = IF j = i THEN pc ELSE tasks[j].pc
<1>1. i \in 1..Len(tasks) /\ DOMAIN tasks = 1..Len(tasks)
  BY LenProperties
<1>2. tasks[i] \in Tasks
  BY <1>1, ElementOfSeq
<1>3. [tasks[i] EXCEPT !.pc = pc] \in Tasks
  BY <1>2 DEF Tasks
<1>4. tasks' = [tasks EXCEPT ![i] = [tasks[i] EXCEPT !.pc = pc]]
  BY DEF Go
<1>5. tasks' \in Seq(Tasks) /\ Len(tasks') = Len(tasks)
  BY <1>1, <1>3, <1>4, ExceptSeq
<1>6. DOMAIN tasks' = DOMAIN tasks
  BY <1>4
<1>7. ASSUME NEW j \in DOMAIN tasks PROVE tasks[j] \in Tasks
  BY <1>1, <1>7, ElementOfSeq
<1> QED BY <1>2, <1>4, <1>5, <1>6, <1>7 DEF Tasks

\* A longer sequence has the indices of a shorter one.
LEMMA SeqGrows ==
  ASSUME NEW S, NEW T, NEW a \in Seq(S), NEW b \in Seq(T), Len(a) <= Len(b)
  PROVE  DOMAIN a \subseteq DOMAIN b
BY LenProperties

\* The types hold after a step that respects each part of them; what was said
\* of the checkpoints stays true because tasks and directories only get more.
LEMMA StepTyped ==
  ASSUME TypeOK,
         log' \in Logs, dirs' \in Seq(Directories), Len(dirs) <= Len(dirs'),
         chips' \in [DOMAIN chips' -> Chips], DOMAIN chips' \subseteq DOMAIN tasks',
         \A k \in DOMAIN chips' : chips'[k].ws \in DOMAIN dirs',
         Checkpoints' \subseteq Checkpoints \cup {[log |-> log, chips |-> chips, dirs |-> dirs]},
         tasks' \in Seq(Tasks), Len(tasks) <= Len(tasks'), Len(tasks') <= MaxTask,
         \A i \in DOMAIN tasks' : tasks'[i].ws \in DOMAIN dirs' /\ tasks'[i].work \in DOMAIN dirs',
         tracked' \subseteq Live', adopted' \in BOOLEAN, breaks' \in 0..MaxBreak,
         turn' \in Calls \cup {IdleTurn}, op' \in Ops', op'.wait \cup op'.live \subseteq DOMAIN tasks',
         Aimed'
  PROVE  TypeOK'
<1>1. Housed(chips, dirs)'
  BY LenProperties DEF Housed
<1>2. ASSUME NEW x \in Checkpoints'
      PROVE  x \in [log : Logs, chips : {x.chips}, dirs : {x.dirs}] /\ Housed(x.chips, x.dirs)'
  <2>1. x \in [log : Logs, chips : {x.chips}, dirs : {x.dirs}] /\ Housed(x.chips, x.dirs)
    BY <1>2 DEF TypeOK, Housed
  <2>2. DOMAIN tasks \subseteq DOMAIN tasks'
    BY SeqGrows DEF TypeOK
  <2>3. x.dirs \in Seq(Directories) /\ dirs \in Seq(Directories)
    BY <2>1 DEF TypeOK, Housed
  <2>4. Len(x.dirs) <= Len(dirs')
    BY <2>1, <2>3, LenProperties DEF Housed
  <2> QED BY <2>1, <2>2, <2>4 DEF Housed
<1> QED BY <1>1, <1>2 DEF TypeOK

\* A round's response.
LEMMA RespondTyped ==
  ASSUME TypeOK, NEW t \in Target \cup {NoTarget}, NEW mode \in Modes \cup {"none"}, Respond(t, mode)
  PROVE TypeOK'
<1>1. log' \in Logs /\ DOMAIN log \subseteq DOMAIN log'
  BY AppendProperties, TasksAssumption, LenProperties DEF TasksAssumption, TypeOK, Respond, Logs
<1>2. turn' \in Calls \cup {IdleTurn}
  BY TasksAssumption, LenProperties DEF TasksAssumption, TypeOK, Respond, Logs, Calls, Stages
<1>3. UNCHANGED <<chips, dirs, saved, tasks, tracked, adopted, op, breaks>>
  BY DEF Respond
<1>4. Checkpoints' = Checkpoints /\ Live' = Live /\ op' \in Ops' /\ Aimed'
  BY <1>1, <1>3 DEF Checkpoints, Live, Ops, TypeOK, Aimed
<1> QED BY <1>1, <1>2, <1>3, <1>4 DEF TypeOK, Housed

-----------------------------------------------------------------------------
(* Dispatch.                                                               *)

\* The backfill gives sidecars to directories that have none, and changes nothing
\* else (backfill_task_sidecars).
LEMMA BackfilledTyped ==
  ASSUME TypeOK
  PROVE  /\ Backfilled \in Seq(Directories) /\ Len(Backfilled) = Len(dirs)
         /\ \A e \in DOMAIN dirs :
              \/ Backfilled[e] = dirs[e]
              \/ /\ dirs[e].there /\ dirs[e].side = Missing
                 /\ Backfilled[e] = [dirs[e] EXCEPT !.side =
                                       [task |-> None, target |-> TargetOf(e), stage |-> None]]
<1>1. dirs \in Seq(Directories) /\ DOMAIN dirs = 1..Len(dirs) /\ Len(dirs) \in Nat
  BY LenProperties DEF TypeOK, Housed
<1>2. ASSUME NEW e \in DOMAIN dirs
      PROVE  TargetOf(e) \in Target \cup {NoTarget}
  <2> DEFINE i == Cardinality({o \in Orphans : o <= e /\ dirs[o].tool = "sop"})
             same == {k \in Recorded : \/ Recorded = {k}
                                       \/ Cardinality({j \in Recorded : j <= k}) = i}
  <2>1. ASSUME NEW k \in same PROVE log[k] \in Target \cup {NoTarget}
    BY <2>1, LenProperties, ElementOfSeq DEF Recorded, TypeOK, Logs
  <2>2. TargetOf(e) = IF dirs[e].tool = "other" \/ same = {} THEN NoTarget ELSE log[CHOOSE k \in same : TRUE]
    BY DEF TargetOf
  <2> HIDE DEF same
  <2> QED BY <2>1, <2>2
<1>3. ASSUME NEW e \in DOMAIN dirs, e \in Orphans
      PROVE  [dirs[e] EXCEPT !.side = [task |-> None, target |-> TargetOf(e), stage |-> None]] \in Directories
  <2>1. dirs[e] \in Directories /\ dirs[e].there
    BY <1>1, <1>3, ElementOfSeq DEF Orphans
  <2>2. [task |-> None, target |-> TargetOf(e), stage |-> None] \in Sidecars
    BY <1>2 DEF Sidecars
  <2> QED BY <2>1, <2>2, DirectoryIsThere DEF Directories
<1>4. Backfilled \in [1..Len(dirs) -> Directories]
  BY <1>1, <1>3, ElementOfSeq DEF Backfilled
<1>5. Backfilled \in Seq(Directories) /\ Len(Backfilled) = Len(dirs)
  BY <1>1, <1>4, SeqDef, LenProperties
<1> QED BY <1>1, <1>5 DEF Backfilled, Orphans

\* What reuse finds is a directory with the key asked for that no chip names.
LEMMA ReusableIsMatching ==
  ASSUME NEW ds \in Seq(Directories), NEW t, Reusable(ds, t) # None
  PROVE  Reusable(ds, t) \in Matching(ds, t)
<1> DEFINE complete == {d \in Matching(ds, t) : ds[d].complete}
<1>1. Matching(ds, t) \subseteq Nat /\ Matching(ds, t) # {}
  BY LenProperties DEF Matching, Reusable
<1>2. Reusable(ds, t) = Min(IF complete # {} THEN complete ELSE Matching(ds, t))
  BY <1>1 DEF Reusable
<1>3. CASE complete # {}
  BY <1>1, <1>2, <1>3, MinIsLeast
<1>4. CASE complete = {}
  BY <1>1, <1>2, <1>4, MinIsLeast
<1> QED BY <1>3, <1>4

\* The call goes to directory d, one that is there in ds or a new one.
Dispatched(ds, d, ready) ==
  /\ turn \in Calls
  /\ ds = dirs \/ ds = Backfilled
  /\ dirs' \in Seq(Directories) /\ Len(dirs) <= Len(dirs')
  /\ DOMAIN dirs' = DOMAIN dirs \cup {d}
  /\ \A e \in DOMAIN dirs \ {d} : dirs'[e] = ds[e]
  /\ dirs'[d].there /\ dirs'[d].side \in Sidecars
  /\ dirs'[d].side.task = Len(tasks) + 1 /\ dirs'[d].side.stage = turn.stage
  /\ dirs'[d].side.target \in {turn.target, NoTarget}
  /\ IF d \in DOMAIN dirs
     THEN d \in Matching(ds, turn.target) /\ dirs'[d].tool = ds[d].tool
          /\ dirs'[d].made \subseteq ds[d].made \cup Made(turn.target)
     ELSE dirs'[d].tool = "sop" /\ dirs'[d].made = Made(turn.target)
  /\ tasks' = Append(tasks, [ws |-> d, work |-> d, target |-> turn.target, ready |-> ready, pc |-> "spawned"])
  /\ chips' = [k \in DOMAIN chips \cup {Len(tasks) + 1} |->
               IF k = Len(tasks) + 1 THEN [ws |-> d, status |-> "starting", stage |-> turn.stage]
               ELSE chips[k]]
  /\ Len(tasks) < MaxTask

\* What _dispatch_as_task does: one directory, with a sidecar for the new task, is
\* found or made; all others are as the backfill left them.
LEMMA DispatchEffect ==
  ASSUME TypeOK, Dispatch
  PROVE  \E ds \in Seq(Directories), d \in DOMAIN dirs', ready \in BOOLEAN : Dispatched(ds, d, ready)
<1> DEFINE t == turn.target
           keyed == turn.mode = "keyed"
           ds == IF keyed /\ ~adopted THEN Backfilled ELSE dirs
           old == IF keyed THEN Reusable(ds, t) ELSE None
           n == Len(tasks) + 1
           d == IF old = None THEN Len(ds) + 1 ELSE old
           ready == old # None /\ ds[old].complete
           side == [task |-> n, target |-> IF turn.mode = "adHoc" THEN NoTarget ELSE t,
                    stage |-> turn.stage]
           kept == [ds EXCEPT ![old].side = side, ![old].made = IF ready THEN @ ELSE @ \cup Made(t)]
           new == [there |-> TRUE, tool |-> "sop", complete |-> FALSE, made |-> Made(t), side |-> side]
<1>1. turn \in Calls
  BY DEF Dispatch, TypeOK, IdleTurn
<1>2. ds \in Seq(Directories) /\ Len(ds) = Len(dirs) /\ Len(ds) \in Nat /\ DOMAIN ds = 1..Len(ds)
      /\ DOMAIN dirs = 1..Len(ds)
  BY BackfilledTyped, LenProperties DEF TypeOK, Housed
<1>3. side \in Sidecars /\ side.task = n /\ side.stage = turn.stage /\ side.target \in {t, NoTarget}
  BY <1>1, LenProperties, TasksAssumption DEF Sidecars, Calls, Dispatch, TasksAssumption, TypeOK,
     Ids
<1>4. dirs' = (IF old # None THEN kept ELSE Append(ds, new)) /\ Len(tasks) < MaxTask
  BY DEF Dispatch
<1>5. tasks' = Append(tasks, [ws |-> d, work |-> d, target |-> t, ready |-> ready, pc |-> "spawned"])
  BY DEF Dispatch
<1>6. chips' = [k \in DOMAIN chips \cup {n} |->
                  IF k = n THEN [ws |-> d, status |-> "starting", stage |-> turn.stage] ELSE chips[k]]
  BY DEF Dispatch
<1>7. Made(t) \subseteq Target
  BY <1>1 DEF Made, Calls
<1> HIDE DEF side, ds, new
<1>8. CASE old # None
  <2>1. old \in Matching(ds, t)
    BY <1>2, <1>8, ReusableIsMatching
  <2>2. old \in 1..Len(ds) /\ ds[old].there /\ ds[old] \in Directories
    BY <1>2, <2>1, ElementOfSeq DEF Matching
  <2>3. ds[old] \in [there : {TRUE}, tool : Tools, complete : BOOLEAN, made : SUBSET Target, side : Sidecars \cup {Missing}]
    BY <2>2, DirectoryIsThere
  <2> DEFINE made == IF ready THEN ds[old].made ELSE ds[old].made \cup Made(t)
             dir == [[ds[old] EXCEPT !.side = side] EXCEPT !.made = made]
  <2>4. made \subseteq Target /\ made \subseteq ds[old].made \cup Made(t)
    BY <1>7, <2>3
  <2>5. dir \in Directories /\ dir.there /\ dir.side = side /\ dir.tool = ds[old].tool /\ dir.made = made
    BY <1>3, <2>3, <2>4 DEF Directories
  <2>6. kept = [ds EXCEPT ![old] = dir]
    OBVIOUS
  <2>7. dirs' = kept
    BY <1>4, <1>8
  <2> HIDE DEF dir, kept
  <2>8. dirs' \in Seq(Directories) /\ Len(dirs') = Len(ds) /\ DOMAIN dirs' = DOMAIN dirs \cup {old}
    BY <1>2, <2>2, <2>5, <2>6, <2>7, ExceptSeq, LenProperties
  <2>9. dirs'[old] = dir /\ \A e \in DOMAIN dirs \ {old} : dirs'[e] = ds[e]
    BY <1>2, <2>2, <2>5, <2>6, <2>7, ExceptSeq
  <2>10. d = old /\ d \in DOMAIN dirs /\ d \in DOMAIN dirs'
    BY <1>2, <1>8, <2>2, <2>8
  <2>11. ready \in BOOLEAN /\ (ds = dirs \/ ds = Backfilled)
    BY DEF ds
  <2> HIDE DEF ready, d, old, made
  <2>12. /\ dirs'[d] = dir /\ dirs'[d].there /\ dirs'[d].side = side /\ dirs'[d].tool = ds[d].tool
         /\ dirs'[d].made \subseteq ds[d].made \cup Made(t)
    BY <2>4, <2>5, <2>9, <2>10
  <2>13. \A e \in DOMAIN dirs \ {d} : dirs'[e] = ds[e]
    BY <2>9, <2>10
  <2>14. /\ d \in DOMAIN dirs /\ d \in Matching(ds, t) /\ DOMAIN dirs' = DOMAIN dirs \cup {d}
         /\ dirs' \in Seq(Directories) /\ Len(dirs) <= Len(dirs')
    BY <1>2, <2>1, <2>8, <2>10
  <2>15. Dispatched(ds, d, ready)
    BY <1>1, <1>3, <1>4, <1>5, <1>6, <2>11, <2>12, <2>13, <2>14 DEF Dispatched
  <2> QED BY <1>2, <2>15, <2>10, <2>11
<1>9. CASE old = None
  <2>1. new \in Directories /\ new.there /\ new.side = side /\ new.tool = "sop" /\ new.made = Made(t)
    BY <1>3, <1>7 DEF Directories, new, Tools
  <2>2. dirs' = Append(ds, new) /\ d = Len(ds) + 1
    BY <1>4, <1>9
  <2>3. dirs' \in Seq(Directories) /\ Len(dirs') = Len(ds) + 1 /\ DOMAIN dirs' = DOMAIN dirs \cup {d} /\ d \notin DOMAIN dirs
    BY <1>2, <2>1, <2>2, AppendProperties, LenProperties
  <2>4. dirs'[d] = new /\ \A e \in DOMAIN dirs \ {d} : dirs'[e] = ds[e]
    BY <1>2, <2>1, <2>2, AppendProperties
  <2>5. ready \in BOOLEAN /\ (ds = dirs \/ ds = Backfilled)
    BY <1>9 DEF ds
  <2> HIDE DEF ready, d, old
  <2>6. Dispatched(ds, d, ready)
    BY <1>1, <1>2, <1>3, <1>4, <1>5, <1>6, <2>1, <2>3, <2>4, <2>5 DEF Dispatched
  <2> QED BY <1>2, <2>6, <2>3, <2>5
<1> QED BY <1>8, <1>9

-----------------------------------------------------------------------------
(* Every step keeps the types.                                             *)

\* What TypeOK says of the sequences and of the chips, spelt out.
LEMMA TypeFacts ==
  ASSUME TypeOK
  PROVE  /\ dirs \in Seq(Directories) /\ DOMAIN dirs = 1..Len(dirs) /\ Len(dirs) \in Nat
         /\ \A d \in DOMAIN dirs : dirs[d] \in Directories
         /\ tasks \in Seq(Tasks) /\ DOMAIN tasks = 1..Len(tasks) /\ Len(tasks) \in Nat
         /\ \A i \in DOMAIN tasks : tasks[i] \in Tasks
         /\ chips \in [DOMAIN chips -> Chips] /\ DOMAIN chips \subseteq DOMAIN tasks
         /\ \A k \in DOMAIN chips : chips[k].ws \in DOMAIN dirs
         /\ IdleTurn \in Calls \cup {IdleTurn}
<1>1. dirs \in Seq(Directories) /\ tasks \in Seq(Tasks)
  BY DEF TypeOK, Housed
<1>2. chips \in [DOMAIN chips -> Chips] /\ DOMAIN chips \subseteq DOMAIN tasks
      /\ \A k \in DOMAIN chips : chips[k].ws \in DOMAIN dirs
  BY DEF TypeOK, Housed
<1> QED BY <1>1, <1>2, LenProperties, ElementOfSeq

\* A dispatch keeps the types.
LEMMA DispatchTyped == TypeOK /\ Dispatch => TypeOK'
<1> SUFFICES ASSUME TypeOK, Dispatch PROVE TypeOK'
  OBVIOUS
<1>1. PICK ds \in Seq(Directories), d \in DOMAIN dirs', ready \in BOOLEAN : Dispatched(ds, d, ready)
  BY DispatchEffect
<1> DEFINE n == Len(tasks) + 1
           task == [ws |-> d, work |-> d, target |-> turn.target, ready |-> ready, pc |-> "spawned"]
           chip == [ws |-> d, status |-> "starting", stage |-> turn.stage]
<1>2. turn \in Calls /\ dirs' \in Seq(Directories) /\ Len(dirs) <= Len(dirs') /\ d \in Nat
      /\ DOMAIN dirs \subseteq DOMAIN dirs'
  BY <1>1, LenProperties DEF Dispatched
<1>3. task \in Tasks /\ chip \in Chips /\ task.ws = d /\ task.work = d /\ task.pc = "spawned" /\ chip.ws = d
  BY <1>2 DEF Tasks, Chips, Calls
<1>4. tasks' = Append(tasks, task) /\ Len(tasks) < MaxTask
      /\ chips' = [k \in DOMAIN chips \cup {n} |-> IF k = n THEN chip ELSE chips[k]]
  BY <1>1 DEF Dispatched
<1> HIDE DEF task, chip
<1>5. /\ tasks' \in Seq(Tasks) /\ Len(tasks') = n /\ tasks'[n] = task
      /\ \A i \in DOMAIN tasks : tasks'[i] = tasks[i]
      /\ DOMAIN tasks' = DOMAIN tasks \cup {n}
  BY <1>3, <1>4, TypeFacts, AppendProperties, LenProperties
<1>6. /\ chips' \in [DOMAIN chips' -> Chips] /\ DOMAIN chips' \subseteq DOMAIN tasks'
      /\ \A k \in DOMAIN chips' : chips'[k].ws \in DOMAIN dirs'
  BY <1>2, <1>3, <1>4, <1>5, TypeFacts
<1>7. \A i \in DOMAIN tasks' : tasks'[i].ws \in DOMAIN dirs' /\ tasks'[i].work \in DOMAIN dirs'
  BY <1>2, <1>3, <1>5 DEF TypeOK
<1>8. Live' = Live \cup {n}
  BY <1>3, <1>5 DEF Live
<1>9. /\ tracked' = tracked \cup {n} /\ adopted' \in BOOLEAN /\ turn' = IdleTurn
      /\ UNCHANGED <<log, saved, op, breaks>>
  BY DEF Dispatch, TypeOK
<1>10. Checkpoints' = Checkpoints /\ op' \in Ops' /\ Aimed'
  BY <1>9 DEF Checkpoints, Ops, TypeOK, Aimed
<1>11. Len(tasks) <= Len(tasks') /\ Len(tasks') <= MaxTask
  BY <1>4, <1>5, TypeFacts, TasksAssumption DEF TasksAssumption
<1> QED BY <1>2, <1>5, <1>6, <1>7, <1>8, <1>9, <1>10, <1>11, StepTyped DEF TypeOK

\* So does a slash command.
LEMMA SlashTyped == ASSUME TypeOK, NEW t \in Target, Slash(t) PROVE TypeOK'
<1> DEFINE n == Len(tasks) + 1
           task == [ws |-> Len(dirs) + 1, work |-> Len(dirs) + 1, target |-> t, ready |-> FALSE, pc |-> "slash"]
           dir == [there |-> TRUE, tool |-> SlashTool, complete |-> FALSE, made |-> {t}, side |-> Missing]
<1>1. task \in Tasks /\ dir \in Directories /\ task.ws = Len(dirs) + 1 /\ task.work = Len(dirs) + 1 /\ task.pc = "slash"
  BY TypeFacts, TasksAssumption DEF Tasks, Directories, TasksAssumption
<1>2. dirs' = Append(dirs, dir) /\ tasks' = Append(tasks, task) /\ Len(tasks) < MaxTask
  BY DEF Slash
<1> HIDE DEF task, dir
<1>3. /\ tasks' \in Seq(Tasks) /\ Len(tasks') = n /\ tasks'[n] = task
      /\ \A i \in DOMAIN tasks : tasks'[i] = tasks[i]
      /\ DOMAIN tasks' = DOMAIN tasks \cup {n}
  BY <1>1, <1>2, TypeFacts, AppendProperties, LenProperties
<1>4. /\ dirs' \in Seq(Directories) /\ Len(dirs') = Len(dirs) + 1
      /\ DOMAIN dirs' = DOMAIN dirs \cup {Len(dirs) + 1} /\ Len(dirs) <= Len(dirs')
  BY <1>1, <1>2, TypeFacts, AppendProperties, LenProperties
<1>5. \A i \in DOMAIN tasks' : tasks'[i].ws \in DOMAIN dirs' /\ tasks'[i].work \in DOMAIN dirs'
  BY <1>1, <1>3, <1>4 DEF TypeOK
<1>6. Live' = Live \cup {n}
  BY <1>1, <1>3 DEF Live
<1>7. tracked' = tracked \cup {n} /\ UNCHANGED <<log, chips, saved, adopted, turn, op, breaks>>
  BY DEF Slash
<1>8. Checkpoints' = Checkpoints /\ op' \in Ops' /\ Aimed'
  BY <1>7 DEF Checkpoints, Ops, TypeOK, Aimed
<1>9. Len(tasks) <= Len(tasks') /\ Len(tasks') <= MaxTask
  BY <1>2, <1>3, TypeFacts, TasksAssumption DEF TasksAssumption
<1> QED BY <1>3, <1>4, <1>5, <1>6, <1>7, <1>8, <1>9, TypeFacts, StepTyped DEF TypeOK

\* A step of task i that moves it to pc, touches its workspace at most, may
\* add a directory to work in, and may write the status of its chip.
LEMMA TaskStepTyped ==
  ASSUME TypeOK, NEW i \in DOMAIN tasks,
         tasks' \in Seq(Tasks), Len(tasks') = Len(tasks), 
         dirs' \in Seq(Directories), Len(dirs) <= Len(dirs'),
         \A j \in DOMAIN tasks : tasks'[j].ws = tasks[j].ws /\ tasks'[j].work \in {tasks[j].work} \cup DOMAIN dirs',
         tracked' \subseteq Live',
         \/ chips' = chips
         \/ \E s \in {"running", "completed", "error"} : chips' = WithStatus(i, s),
         UNCHANGED <<log, saved, adopted, turn, op, breaks>>
  PROVE  TypeOK'
<1>1. /\ chips' \in [DOMAIN chips' -> Chips] /\ DOMAIN chips' = DOMAIN chips
      /\ \A k \in DOMAIN chips' : chips'[k].ws = chips[k].ws
  BY TypeFacts, WithStatusTyped
<1>2. DOMAIN tasks' = DOMAIN tasks /\ DOMAIN dirs \subseteq DOMAIN dirs'
  BY TypeFacts, LenProperties
<1>3. Checkpoints' = Checkpoints /\ op' \in Ops' /\ Aimed'
  BY DEF Checkpoints, Ops, TypeOK, Aimed
<1>4. Len(tasks) <= Len(tasks') /\ Len(tasks') <= MaxTask
  BY TypeFacts DEF TypeOK
<1>5. \A j \in DOMAIN tasks' : tasks'[j].ws \in DOMAIN dirs' /\ tasks'[j].work \in DOMAIN dirs'
  BY <1>2 DEF TypeOK
<1>6. \A k \in DOMAIN chips' : chips'[k].ws \in DOMAIN dirs'
  BY <1>1, <1>2, TypeFacts
<1> QED BY <1>1, <1>2, <1>3, <1>4, <1>5, <1>6, TypeFacts, StepTyped DEF TypeOK

\* A removed directory.
LEMMA GoneTyped == Gone \in Directories
BY DEF Directories

\* What a run's start does to tasks and directories.
LEMMA RunEffect ==
  ASSUME TypeOK, NEW i \in DOMAIN tasks, Run(i)
  PROVE  /\ tasks' \in Seq(Tasks) /\ Len(tasks') = Len(tasks) /\ DOMAIN tasks' = DOMAIN tasks
         /\ dirs' \in Seq(Directories) /\ Len(dirs) <= Len(dirs')
         /\ \A j \in DOMAIN tasks : /\ tasks'[j].ws = tasks[j].ws /\ tasks'[j].target = tasks[j].target
                                    /\ tasks'[j].work \in {tasks[j].work} \cup DOMAIN dirs'
                                    /\ Placement = "given" => tasks'[j].work = tasks[j].work
                                    /\ tasks'[j].pc = IF j = i THEN "running" ELSE tasks[j].pc
         /\ \A e \in DOMAIN dirs : dirs'[e] = Touched(tasks[i].ws)[e]
         /\ Placement = "given" => DOMAIN dirs' = DOMAIN dirs
<1> DEFINE new == [there |-> TRUE, tool |-> "sop", complete |-> FALSE,
                   made |-> {tasks[i].target}, side |-> Missing]
           td == Touched(tasks[i].ws)
           moved == [tasks[i] EXCEPT !.pc = "running", !.work = Len(dirs) + 1]
<1>1. tasks[i] \in Tasks /\ tasks[i].ws \in DOMAIN dirs
  BY TypeFacts DEF TypeOK
<1>2. td \in Seq(Directories) /\ Len(td) = Len(dirs)
  BY <1>1, TypeFacts, TouchedTyped
<1>3. new \in Directories
  BY <1>1 DEF Directories, Tools, Tasks
<1>4. moved \in Tasks /\ moved.ws = tasks[i].ws /\ moved.target = tasks[i].target /\ moved.pc = "running" /\ moved.work = Len(dirs) + 1
  <2>1. Len(dirs) + 1 \in Nat
    BY TypeFacts
  <2>2. moved = [tasks[i] EXCEPT !.pc = "running", !.work = Len(dirs) + 1] /\ tasks[i] \in Tasks
    BY <1>1
  <2> QED BY <2>1, <2>2 DEF Tasks
<1>5. CASE Placement = "given" \/ tasks[i].ready
  <2>1. Go(i, "running") /\ dirs' = td
    BY <1>5 DEF Run
  <2> QED BY <1>2, <2>1, GoTyped, TypeFacts, LenProperties
<1>6. CASE ~(Placement = "given" \/ tasks[i].ready)
  <2>1. dirs' = Append(td, new) /\ tasks' = [tasks EXCEPT ![i] = moved]
    BY <1>6 DEF Run
  <2> HIDE DEF td, new, moved
  <2>2. tasks' \in Seq(Tasks) /\ Len(tasks') = Len(tasks) /\ DOMAIN tasks' = DOMAIN tasks
    BY <1>4, <2>1, TypeFacts, ExceptSeq, LenProperties
  <2>3. \A j \in DOMAIN tasks : tasks'[j] = IF j = i THEN moved ELSE tasks[j]
    BY <2>1, TypeFacts
  <2>4. /\ dirs' \in Seq(Directories) /\ Len(dirs') = Len(dirs) + 1 /\ Len(dirs) <= Len(dirs') /\ Len(dirs) + 1 \in DOMAIN dirs'
        /\ \A e \in DOMAIN dirs : dirs'[e] = td[e]
    BY <1>2, <1>3, <2>1, TypeFacts, AppendProperties, LenProperties
  <2> QED BY <1>4, <1>6, <2>2, <2>3, <2>4 DEF td
<1> QED BY <1>5, <1>6

\* So does every step of a task, and of its tool.
LEMMA TaskTyped ==
  ASSUME TypeOK, NEW i \in DOMAIN tasks, TaskStep(i) \/ Mark(i)
  PROVE  TypeOK'
<1>1. tasks[i] \in Tasks /\ tasks[i].ws \in DOMAIN dirs /\ tasks[i].work \in DOMAIN dirs
  BY TypeFacts DEF TypeOK
<1> DEFINE td == Touched(tasks[i].ws)
<1>2. td \in Seq(Directories) /\ Len(td) = Len(dirs) /\ Len(td) \in Nat
  BY <1>1, TypeFacts, TouchedTyped
<1>3. CASE Run(i)
  <2>1. Live' = Live
    BY <1>3, RunEffect DEF Live, Run
  <2>2. tracked' \subseteq Live' /\ UNCHANGED <<log, saved, adopted, turn, op, breaks>>
    BY <1>3, <2>1 DEF Run, TypeOK
  <2>3. \E s \in {"running", "completed", "error"} : chips' = WithStatus(i, s)
    BY <1>3 DEF Run
  <2> QED BY <1>3, <2>2, <2>3, RunEffect, TaskStepTyped
<1>4. CASE Return(i)
  <2>1. /\ tasks' \in Seq(Tasks) /\ Len(tasks') = Len(tasks) /\ DOMAIN tasks' = DOMAIN tasks
        /\ \A j \in DOMAIN tasks : tasks'[j].ws = tasks[j].ws /\ tasks'[j].work = tasks[j].work
                                   /\ tasks'[j].pc = IF j = i THEN "returned" ELSE tasks[j].pc
    BY <1>4, TypeFacts, GoTyped DEF Return
  <2>2. Live' = Live
    BY <1>4, <2>1 DEF Live, Return
  <2>3. tracked' \subseteq Live' /\ UNCHANGED <<log, chips, dirs, saved, adopted, turn, op, breaks>>
    BY <1>4, <2>2 DEF Return, TypeOK
  <2> HIDE DEF td
  <2> QED BY <2>1, <2>3, TypeFacts, TaskStepTyped
<1>5. CASE Complete(i) \/ Fail(i) \/ SlashEnd(i) \/ Unwind(i)
  <2>1. Go(i, "ended") /\ tracked' = tracked \ {i} /\ UNCHANGED <<log, saved, adopted, turn, op, breaks>>
    BY <1>5 DEF Complete, Fail, SlashEnd, Unwind
  <2>2. /\ tasks' \in Seq(Tasks) /\ Len(tasks') = Len(tasks) /\ DOMAIN tasks' = DOMAIN tasks
        /\ \A j \in DOMAIN tasks : tasks'[j].ws = tasks[j].ws /\ tasks'[j].work = tasks[j].work
                                   /\ tasks'[j].pc = IF j = i THEN "ended" ELSE tasks[j].pc
    BY <2>1, TypeFacts, GoTyped
  <2>3. Live' = Live \ {i}
    BY <2>2 DEF Live
  <2>4. /\ dirs' = dirs \/ dirs' = td
        /\ \/ chips' = chips
           \/ \E s \in {"running", "completed", "error"} : chips' = WithStatus(i, s)
    BY <1>5 DEF Complete, Fail, SlashEnd, Unwind
  <2>5. tracked' \subseteq Live'
    BY <2>1, <2>3 DEF TypeOK
  <2>6. dirs' \in Seq(Directories) /\ Len(dirs) <= Len(dirs')
    BY <1>2, <2>4, TypeFacts
  <2> HIDE DEF td
  <2> QED BY <2>1, <2>2, <2>4, <2>5, <2>6, TaskStepTyped
<1>6. CASE Mark(i)
  <2> DEFINE w == tasks[i].work
             dir == [dirs[w] EXCEPT !.complete = TRUE]
  <2>1. dirs[w] \in [there : {TRUE}, tool : Tools, complete : BOOLEAN, made : SUBSET Target, side : Sidecars \cup {Missing}]
    BY <1>1, <1>6, TypeFacts, DirectoryIsThere DEF Mark
  <2>2. dir \in Directories
    BY <2>1 DEF Directories
  <2>3. dirs' = [dirs EXCEPT ![w] = dir] /\ UNCHANGED <<log, chips, saved, tasks, tracked, adopted, turn, op, breaks>>
    BY <1>6 DEF Mark
  <2>4. dirs' \in Seq(Directories) /\ Len(dirs) <= Len(dirs')
    BY <1>1, <2>2, <2>3, TypeFacts, ExceptSeq
  <2>5. Live' = Live
    BY <2>3 DEF Live
  <2>6. tracked' \subseteq Live' /\ tasks' \in Seq(Tasks)
    BY <2>3, <2>5, TypeFacts DEF TypeOK
  <2> QED BY <2>3, <2>4, <2>6, TaskStepTyped
<1> QED BY <1>3, <1>4, <1>5, <1>6 DEF TaskStep

\* A step of a rewind or of the page, which starts and moves no task.
LEMMA QuietTyped ==
  ASSUME TypeOK, log' \in Logs, dirs' \in Seq(Directories), Len(dirs') = Len(dirs),
         chips' \in [DOMAIN chips' -> Chips], DOMAIN chips' \subseteq DOMAIN tasks,
         \A k \in DOMAIN chips' : chips'[k].ws \in DOMAIN dirs,
         Checkpoints' \subseteq Checkpoints \cup {[log |-> log, chips |-> chips, dirs |-> dirs]},
         tasks' = tasks, tracked' \subseteq tracked, adopted' \in BOOLEAN, breaks' \in 0..MaxBreak,
         turn' \in {turn, IdleTurn}, op' \in Ops', op'.wait \cup op'.live \subseteq DOMAIN tasks,
         Aimed'
  PROVE  TypeOK'
<1>1. DOMAIN dirs' = DOMAIN dirs /\ Live' = Live /\ tracked \subseteq Live
  BY TypeFacts, LenProperties DEF Live, TypeOK
<1>2. \A i \in DOMAIN tasks' : tasks'[i].ws \in DOMAIN dirs' /\ tasks'[i].work \in DOMAIN dirs'
  BY <1>1 DEF TypeOK
<1> QED BY <1>1, <1>2, TypeFacts, StepTyped DEF TypeOK

\* A rewind that is over.
LEMMA IdleOpTyped == ASSUME op' = IdleOp PROVE op' \in Ops' /\ op'.wait \cup op'.live = {} /\ Aimed' /\ op'.back = Missing
BY DEF Ops, IdleOp, None, Aimed

\* The steps of a rewind that change neither the history nor a directory, and those
\* of the page.
LEMMA RewindTyped ==
  ASSUME TypeOK,
         Drained \/ Prepare \/ Copy \/ Evict \/ SendInit \/ Connect \/ SwitchBackend
  PROVE  TypeOK'
<1>1. op \in Ops /\ op.wait \cup op.live \subseteq DOMAIN tasks
  BY DEF TypeOK
<1>2. CASE Drained
  <2>1. op' \in Ops' /\ op'.wait = {} /\ op'.live = op.live /\ op'.back = op.back /\ Aimed'
    BY <1>1, <1>2 DEF Drained, Ops, Aimed, TypeOK
  <2> QED BY <1>2, <2>1, TypeFacts, QuietTyped DEF Drained, TypeOK, Checkpoints
<1>3. CASE Prepare
  <2>1. CASE op' = [op EXCEPT !.pc = "copy"]
    <3>1. op' \in Ops' /\ op'.wait = op.wait /\ op'.live = op.live /\ op'.back = op.back /\ Aimed'
      BY <1>1, <1>3, <2>1 DEF Prepare, Ops, Aimed, TypeOK
    <3> QED BY <1>3, <3>1, TypeFacts, QuietTyped DEF Prepare, TypeOK, Checkpoints
  <2>2. CASE op' = IdleOp
    BY <1>3, <2>2, IdleOpTyped, TypeFacts, QuietTyped DEF Prepare, TypeOK, Checkpoints
  <2> QED BY <1>3, <2>1, <2>2 DEF Prepare
<1>4. CASE Copy
  <2>1. op' \in Ops' /\ op'.wait = op.wait /\ op'.live = op.live /\ op'.back = op.back /\ Aimed'
    BY <1>1, <1>4 DEF Copy, Ops, Aimed, TypeOK
  <2> QED BY <1>4, <2>1, TypeFacts, QuietTyped DEF Copy, TypeOK, Checkpoints
<1>5. CASE Evict
  <2>1. tracked \cap Live \subseteq Ids
    BY TypeFacts, TasksAssumption DEF Live, Ids, TypeOK, TasksAssumption
  <2>2. op' \in Ops' /\ op'.wait = op.wait /\ op'.live = tracked \cap Live /\ op'.back = op.back /\ Aimed'
    BY <1>1, <1>5, <2>1 DEF Evict, Ops, Aimed
  <2> QED BY <1>1, <1>5, <2>2, TypeFacts, QuietTyped DEF Evict, TypeOK, Checkpoints, Live
<1>6. CASE SendInit
  BY <1>6, IdleOpTyped, ReconciledTyped, TypeFacts, QuietTyped DEF SendInit, TypeOK, Checkpoints
<1>7. CASE Connect
  <2>1. op' \in Ops' /\ Aimed'
    BY <1>1, <1>7 DEF Connect, Ops, Aimed, TypeOK
  <2> QED BY <1>7, <2>1, ReconciledTyped, TypeFacts, QuietTyped DEF Connect, TypeOK, Checkpoints
<1>8. CASE SwitchBackend
  <2>1. op' \in Ops' /\ Aimed'
    BY <1>1, <1>8 DEF SwitchBackend, Ops, Aimed, TypeOK
  <2> QED BY <1>8, <2>1, TypeFacts, QuietTyped DEF SwitchBackend, TypeOK, Checkpoints
<1> QED BY <1>2, <1>3, <1>4, <1>5, <1>6, <1>7, <1>8

\* The first step of a rewind.
LEMMA QuiesceTyped ==
  ASSUME TypeOK, NEW kind \in {"cut", "restore"}, NEW cut \in 0..MaxStage, NEW drop \in BOOLEAN,
         Quiesce(kind, cut, drop)
  PROVE  TypeOK'
<1>1. tracked \cap Live \subseteq Ids /\ Live \subseteq DOMAIN tasks
  BY TypeFacts, TasksAssumption DEF Live, Ids, TypeOK, TasksAssumption
<1>2. cut \in Stages \cup {None}
  BY TasksAssumption DEF Stages, None, TasksAssumption
<1>3. op' = [pc |-> "drain", kind |-> kind, cut |-> cut, drop |-> drop, wait |-> tracked \cap Live,
             live |-> {}, back |-> IF kind = "restore" THEN saved ELSE Missing]
  BY DEF Quiesce, IdleOp
<1>4. op' \in Ops' /\ op'.wait \cup op'.live \subseteq DOMAIN tasks
  BY <1>1, <1>2, <1>3 DEF Ops
<1>5. Aimed'
  BY <1>3 DEF Quiesce, Aimed
<1>6. Checkpoints' \subseteq Checkpoints
  BY <1>3 DEF Checkpoints, Quiesce
<1>7. breaks' \in 0..MaxBreak
  BY TasksAssumption DEF Quiesce, TypeOK, TasksAssumption
<1> QED BY <1>4, <1>5, <1>6, <1>7, TypeFacts, QuietTyped DEF Quiesce, TypeOK

\* The chips a cut keeps.
LEMMA CutTyped == TypeOK /\ Cut => TypeOK'
<1> SUFFICES ASSUME TypeOK, Cut PROVE TypeOK'
  OBVIOUS
<1> DEFINE kept == {k \in DOMAIN chips : chips[k].stage < op.cut}
<1>1. op \in Ops /\ op.wait \cup op.live \subseteq DOMAIN tasks /\ op.cut \in DOMAIN log
  BY DEF TypeOK, Cut, Aimed
<1>2. op' \in Ops' /\ op'.wait = op.wait /\ op'.live = op.live /\ op'.back = op.back /\ Aimed'
  BY <1>1 DEF Cut, Ops, Aimed
<1>3. log' \in Logs
  <2>1. log \in Seq(Target \cup {NoTarget}) /\ Len(log) \in Nat /\ Len(log) <= MaxStage /\ DOMAIN log = 1..Len(log)
    BY LenProperties DEF TypeOK, Logs
  <2>2. log' = SubSeq(log, 1, op.cut - 1)
    BY DEF Cut
  <2>3. \A i \in 1..op.cut - 1 : log[i] \in Target \cup {NoTarget}
    BY <1>1, <2>1, ElementOfSeq
  <2> QED BY <1>1, <2>1, <2>2, <2>3, SubSeqProperties, TasksAssumption DEF Logs, TasksAssumption
<1>4. chips' = [k \in kept |-> chips[k]]
  BY DEF Cut, Restrict
<1>5. /\ chips' \in [DOMAIN chips' -> Chips] /\ DOMAIN chips' \subseteq DOMAIN tasks
      /\ \A k \in DOMAIN chips' : chips'[k].ws \in DOMAIN dirs
  BY <1>4, TypeFacts
<1>6. Checkpoints' = Checkpoints
  BY <1>2 DEF Cut, Checkpoints
<1> QED BY <1>1, <1>2, <1>3, <1>5, <1>6, TypeFacts, QuietTyped DEF Cut, TypeOK

\* The removal of workspaces.
LEMMA RemoveTyped == TypeOK /\ RemoveWorkspaces => TypeOK'
<1> SUFFICES ASSUME TypeOK, RemoveWorkspaces PROVE TypeOK'
  OBVIOUS
<1>1. op \in Ops /\ op.wait \cup op.live \subseteq DOMAIN tasks
  BY DEF TypeOK
<1>2. /\ op' \in Ops' /\ op'.wait = op.wait /\ op'.live = op.live /\ op'.back = op.back /\ Aimed'
  BY <1>1 DEF RemoveWorkspaces, Ops, Aimed
<1>3. dirs' \in [1..Len(dirs) -> Directories]
  BY TypeFacts, GoneTyped DEF RemoveWorkspaces
<1>4. dirs' \in Seq(Directories) /\ Len(dirs') = Len(dirs)
  BY <1>3, TypeFacts, SeqDef, LenProperties
<1> QED BY <1>1, <1>2, <1>4, TypeFacts, QuietTyped DEF RemoveWorkspaces, TypeOK, Checkpoints

\* A checkpoint is put back.
LEMMA RestoreTyped == TypeOK /\ Restore => TypeOK'
<1> SUFFICES ASSUME TypeOK, Restore PROVE TypeOK'
  OBVIOUS
<1> DEFINE b == op.back
<1>1. op \in Ops /\ op.wait \cup op.live \subseteq DOMAIN tasks /\ b # Missing
  BY DEF TypeOK, Restore, Aimed
<1>2. /\ op' \in Ops' /\ op'.wait = op.wait /\ op'.live = op.live /\ op'.back = Missing /\ Aimed'
  BY <1>1 DEF Restore, Ops, Aimed
<1>3. b \in Checkpoints
  BY <1>1 DEF Checkpoints
<1>4. b.log \in Logs /\ Housed(b.chips, b.dirs)
  BY <1>3 DEF TypeOK
<1>5. dirs' \in [1..Len(dirs) -> Directories]
  <2>1. b.dirs \in Seq(Directories)
    BY <1>4 DEF Housed
  <2>2. \A d \in DOMAIN b.dirs : b.dirs[d] \in Directories
    BY <2>1, LenProperties, ElementOfSeq
  <2> QED BY <2>2, TypeFacts, GoneTyped DEF Restore
<1>6. dirs' \in Seq(Directories) /\ Len(dirs') = Len(dirs)
  BY <1>5, TypeFacts, SeqDef, LenProperties
<1>7. DOMAIN b.dirs \subseteq DOMAIN dirs
  BY <1>4, TypeFacts, SeqGrows DEF Housed
<1>8. /\ chips' \in [DOMAIN chips' -> Chips] /\ DOMAIN chips' \subseteq DOMAIN tasks
      /\ \A k \in DOMAIN chips' : chips'[k].ws \in DOMAIN dirs
  BY <1>4, <1>7 DEF Restore, Housed
<1>9. Checkpoints' \subseteq Checkpoints
  BY <1>2 DEF Restore, Checkpoints
<1> QED BY <1>1, <1>2, <1>4, <1>6, <1>8, <1>9, TypeFacts, QuietTyped DEF Restore, TypeOK

\* The server restarts.
LEMMA RestartTyped == TypeOK /\ Restart => TypeOK'
<1> SUFFICES ASSUME TypeOK, Restart PROVE TypeOK'
  OBVIOUS
<1>1. tasks' = [i \in 1..Len(tasks) |-> [tasks[i] EXCEPT !.pc = "ended"]]
  BY TypeFacts DEF Restart
<1>2. \A i \in DOMAIN tasks : /\ [tasks[i] EXCEPT !.pc = "ended"] \in Tasks
                              /\ [tasks[i] EXCEPT !.pc = "ended"].ws = tasks[i].ws
                              /\ [tasks[i] EXCEPT !.pc = "ended"].work = tasks[i].work
  BY TypeFacts DEF Tasks
<1>3. tasks' \in [1..Len(tasks) -> Tasks] /\ DOMAIN tasks' = DOMAIN tasks
  BY <1>1, <1>2, TypeFacts
<1>4. tasks' \in Seq(Tasks) /\ Len(tasks') = Len(tasks)
  BY <1>3, TypeFacts, SeqDef, LenProperties
<1>5. \A i \in DOMAIN tasks' : tasks'[i].ws \in DOMAIN dirs' /\ tasks'[i].work \in DOMAIN dirs'
  BY <1>1, <1>2, <1>3 DEF Restart, TypeOK
<1>6. /\ tracked' = {} /\ adopted' = FALSE /\ turn' = IdleTurn /\ breaks' \in 0..MaxBreak
      /\ UNCHANGED <<log, chips, dirs, saved>>
  BY TasksAssumption DEF Restart, TypeOK, TasksAssumption
<1>7. op' \in Ops' /\ op'.wait \cup op'.live = {} /\ Aimed' /\ Checkpoints' \subseteq Checkpoints
  BY IdleOpTyped DEF Restart, Checkpoints
<1>8. /\ Len(tasks) <= Len(tasks') /\ Len(tasks') <= MaxTask /\ Len(dirs) <= Len(dirs')
      /\ op'.wait \cup op'.live \subseteq DOMAIN tasks' /\ log' \in Logs
  BY <1>4, <1>6, <1>7, TypeFacts DEF TypeOK
<1>9. \A k \in DOMAIN chips' : chips'[k].ws \in DOMAIN dirs'
  BY <1>6, TypeFacts
<1> QED BY <1>3, <1>4, <1>5, <1>6, <1>7, <1>8, <1>9, TypeFacts, StepTyped

\* Nothing happens.
LEMMA IdleTyped == TypeOK /\ UNCHANGED vars => TypeOK'
BY DEF TypeOK, vars, Housed, Checkpoints, Live, Ops, Aimed

\* Every step keeps the types.
LEMMA TypeStep == TypeOK /\ [Next]_vars => TypeOK'
BY RespondTyped, DispatchTyped, SlashTyped, TaskTyped, QuiesceTyped, RewindTyped, CutTyped,
   RemoveTyped,
   RestoreTyped, RestartTyped, IdleTyped DEF Next

\* Whatever is dispatched, cut, restored and restarted, in any order: every chip and
\* every task has its workspace, every registered task is alive, every checkpoint is
\* a history that can be put back (ToolDispatcher, ConversationService._bg_tasks).
THEOREM TypeCorrect == Spec => []TypeOK
BY TypeInit, TypeStep, PTL DEF Spec

-----------------------------------------------------------------------------
(* Steps of the tasks.                                                     *)

\* Directories that were there keep what they are, but for the marker.
SameButMarked(ds, es) ==
  \A e \in DOMAIN ds : ds[e].there =>
    /\ e \in DOMAIN es /\ es[e].there /\ es[e].side = ds[e].side
    /\ es[e].tool = ds[e].tool /\ es[e].made = ds[e].made

\* What a step of task i, or of its tool, may do.
Stepped(i) ==
  /\ DOMAIN tasks' = DOMAIN tasks
  /\ \A j \in DOMAIN tasks :
       /\ tasks'[j].ws = tasks[j].ws /\ tasks'[j].target = tasks[j].target
       /\ Placement = "given" => tasks'[j].work = tasks[j].work
       /\ tasks'[j].pc # tasks[j].pc => /\ j = i /\ tasks'[i].pc \in {"running", "returned", "ended"}
                                        /\ tasks[i].pc = "slash" => tasks'[i].pc = "ended"
  /\ \/ tracked' = tracked /\ Live' = Live
     \/ tracked' = tracked \ {i} /\ Live' = Live \ {i}
  /\ SameButMarked(dirs, dirs')
  /\ DOMAIN dirs \subseteq DOMAIN dirs'
  /\ Placement = "given" => DOMAIN dirs' = DOMAIN dirs
  /\ \A e \in DOMAIN dirs : ~ dirs[e].there => 
       dirs'[e] = dirs[e] \/ (e = tasks[i].ws /\ i \in Live /\ tasks[i].pc # "slash")
  /\ DOMAIN chips' = DOMAIN chips
  /\ \A k \in DOMAIN chips : /\ chips'[k].ws = chips[k].ws /\ chips'[k].stage = chips[k].stage
                             /\ chips'[k].status # chips[k].status =>
                                  chips'[k].status \in {"running", "completed", "error"}
                             /\ chips'[k].status = "completed" /\ chips[k].status # "completed" => k = i
  /\ UNCHANGED <<log, saved, adopted, turn, op, breaks>>

\* What moving a task does to the tasks.
LEMMA SteppedTasks ==
  ASSUME TypeOK, NEW i \in DOMAIN tasks, NEW pc \in {"running", "returned", "ended"}, Go(i, pc),
         i \in Live, tasks[i].pc = "slash" => pc = "ended"
  PROVE  /\ DOMAIN tasks' = DOMAIN tasks
         /\ \A j \in DOMAIN tasks :
              /\ tasks'[j].ws = tasks[j].ws /\ tasks'[j].target = tasks[j].target
              /\ tasks'[j].work = tasks[j].work
              /\ tasks'[j].pc # tasks[j].pc => /\ j = i /\ tasks'[i].pc \in {"running", "returned", "ended"}
                                               /\ tasks[i].pc = "slash" => tasks'[i].pc = "ended"
         /\ Live' = IF pc = "ended" THEN Live \ {i} ELSE Live
<1>1. /\ DOMAIN tasks' = DOMAIN tasks
      /\ \A j \in DOMAIN tasks : /\ tasks'[j].ws = tasks[j].ws /\ tasks'[j].work = tasks[j].work
                                 /\ tasks'[j].target = tasks[j].target
                                 /\ tasks'[j].pc = IF j = i THEN pc ELSE tasks[j].pc
  BY TypeFacts, GoTyped
<1> QED BY <1>1 DEF Live

\* What touching its workspace does to the directories.
LEMMA SteppedDirs ==
  ASSUME TypeOK, NEW i \in DOMAIN tasks, NEW ds, DOMAIN dirs \subseteq DOMAIN ds,
         \A e \in DOMAIN dirs : ds[e] = dirs[e] \/ ds[e] = Touched(tasks[i].ws)[e]
  PROVE  /\ SameButMarked(dirs, ds)
         /\ \A e \in DOMAIN dirs : ~ dirs[e].there => ds[e] = dirs[e] \/ e = tasks[i].ws
<1>1. tasks[i].ws \in DOMAIN dirs
  BY DEF TypeOK
<1>2. \A e \in DOMAIN dirs : Touched(tasks[i].ws)[e] # dirs[e] => e = tasks[i].ws /\ ~ dirs[tasks[i].ws].there
  BY <1>1, TypeFacts, TouchedTyped
<1> QED BY <1>2 DEF SameButMarked

\* What writing its status does to the chips.
LEMMA SteppedChips ==
  ASSUME TypeOK, NEW i,
         \/ chips' = chips
         \/ \E s \in {"running", "completed", "error"} : chips' = WithStatus(i, s)
  PROVE  /\ DOMAIN chips' = DOMAIN chips
         /\ \A k \in DOMAIN chips : /\ chips'[k].ws = chips[k].ws /\ chips'[k].stage = chips[k].stage
                                    /\ chips'[k].status # chips[k].status =>
                                         chips'[k].status \in {"running", "completed", "error"}
                                    /\ chips'[k].status = "completed" /\ chips[k].status # "completed" => k = i
BY TypeFacts, WithStatusTyped

\* Every step of a task, and of its tool, is of that form.
LEMMA TaskStepEffect ==
  ASSUME TypeOK, NEW i \in DOMAIN tasks, TaskStep(i) \/ Mark(i)
  PROVE  Stepped(i)
<1> DEFINE td == Touched(tasks[i].ws)
<1>1. tasks[i].ws \in DOMAIN dirs /\ tasks[i].work \in DOMAIN dirs
  BY DEF TypeOK
<1>2. DOMAIN td = DOMAIN dirs
  BY <1>1, TypeFacts, TouchedTyped, LenProperties
<1>3. CASE Run(i)
  <2>1. i \in Live /\ tasks[i].pc = "spawned" /\ tracked' = tracked
        /\ UNCHANGED <<log, saved, adopted, turn, op, breaks>>
    BY <1>3 DEF Run, Live
  <2>2. Live' = Live
    BY <1>3, <2>1, RunEffect DEF Live
  <2>3. DOMAIN dirs \subseteq DOMAIN dirs' /\ (Placement = "given" => DOMAIN dirs' = DOMAIN dirs)
        /\ \A e \in DOMAIN dirs : dirs'[e] = td[e]
    BY <1>3, RunEffect, TypeFacts, LenProperties
  <2>4. \E s \in {"running", "completed", "error"} : chips' = WithStatus(i, s)
    BY <1>3 DEF Run
  <2>5. /\ DOMAIN tasks' = DOMAIN tasks
        /\ \A j \in DOMAIN tasks : /\ tasks'[j].ws = tasks[j].ws /\ tasks'[j].target = tasks[j].target
                                   /\ Placement = "given" => tasks'[j].work = tasks[j].work
                                   /\ tasks'[j].pc = IF j = i THEN "running" ELSE tasks[j].pc
    BY <1>3, RunEffect
  <2> QED BY <2>1, <2>2, <2>3, <2>4, <2>5, SteppedDirs, SteppedChips DEF Stepped
<1>4. CASE Return(i)
  <2>1. i \in Live /\ tasks[i].pc = "running" /\ Go(i, "returned")
        /\ UNCHANGED <<log, chips, dirs, saved, tracked, adopted, turn, op, breaks>>
    BY <1>4 DEF Return, Live
  <2> QED BY <2>1, SteppedTasks, SteppedDirs, SteppedChips DEF Stepped
<1>5. CASE Complete(i) \/ Fail(i)
  <2>1. /\ i \in Live /\ tasks[i].pc # "slash" /\ Go(i, "ended") /\ dirs' = td
        /\ tracked' = tracked \ {i} /\ UNCHANGED <<log, saved, adopted, turn, op, breaks>>
        /\ \E s \in {"running", "completed", "error"} : chips' = WithStatus(i, s)
    BY <1>5 DEF Complete, Fail, Live
  <2> QED BY <1>2, <2>1, SteppedTasks, SteppedDirs, SteppedChips DEF Stepped
<1>6. CASE SlashEnd(i) \/ Unwind(i)
  <2>1. /\ i \in Live /\ Go(i, "ended")
        /\ tracked' = tracked \ {i} /\ UNCHANGED <<log, chips, dirs, saved, adopted, turn, op, breaks>>
    BY <1>6 DEF SlashEnd, Unwind, Live
  <2> QED BY <2>1, SteppedTasks, SteppedDirs, SteppedChips DEF Stepped
<1>7. CASE Mark(i)
  <2> DEFINE w == tasks[i].work
  <2>1. /\ dirs' = [dirs EXCEPT ![w].complete = TRUE] /\ dirs[w].there
        /\ UNCHANGED <<log, chips, saved, tasks, tracked, adopted, turn, op, breaks>>
    BY <1>7 DEF Mark
  <2>2. dirs[w] \in [there : {TRUE}, tool : Tools, complete : BOOLEAN, made : SUBSET Target, side : Sidecars \cup {Missing}]
    BY <1>1, <2>1, TypeFacts, DirectoryIsThere
  <2>3. /\ DOMAIN dirs' = DOMAIN dirs /\ \A e \in DOMAIN dirs \ {w} : dirs'[e] = dirs[e]
        /\ dirs'[w].there /\ dirs'[w].side = dirs[w].side /\ dirs'[w].tool = dirs[w].tool /\ dirs'[w].made = dirs[w].made
    BY <1>1, <2>1, <2>2
  <2>4. SameButMarked(dirs, dirs')
    BY <2>3 DEF SameButMarked
  <2>5. Live' = Live
    BY <2>1 DEF Live
  <2> QED BY <2>1, <2>3, <2>4, <2>5, SteppedChips DEF Stepped
<1> QED BY <1>3, <1>4, <1>5, <1>6, <1>7 DEF TaskStep

-----------------------------------------------------------------------------
(* The rewind has the session to itself.                                   *)

\* A step that makes a task: of a turn, or of a slash command.
LEMMA TaskMade ==
  ASSUME TypeOK, Dispatch \/ \E t \in Target : Slash(t)
  PROVE  /\ Live' = Live \cup {Len(tasks) + 1} /\ tracked' = tracked \cup {Len(tasks) + 1}
         /\ DOMAIN tasks' = DOMAIN tasks \cup {Len(tasks) + 1} /\ Len(tasks) + 1 \notin DOMAIN tasks
         /\ \A i \in DOMAIN tasks : tasks'[i] = tasks[i]
         /\ UNCHANGED <<saved, op>>
<1> DEFINE n == Len(tasks) + 1
<1>1. PICK task \in Tasks : tasks' = Append(tasks, task) /\ task.pc # "ended"
  <2>1. CASE Dispatch
    <3>1. PICK ds \in Seq(Directories), d \in DOMAIN dirs', ready \in BOOLEAN : Dispatched(ds, d, ready)
      BY <2>1, DispatchEffect
    <3> DEFINE task == [ws |-> d, work |-> d, target |-> turn.target, ready |-> ready, pc |-> "spawned"]
    <3>2. tasks' = Append(tasks, task) /\ turn \in Calls /\ dirs' \in Seq(Directories)
      BY <3>1 DEF Dispatched
    <3>3. d \in Nat
      BY <3>2, LenProperties
    <3>4. task \in Tasks /\ task.pc # "ended"
      BY <3>2, <3>3 DEF Tasks, Calls
    <3> QED BY <3>2, <3>4
  <2>2. CASE \E t \in Target : Slash(t)
    <3>1. PICK t \in Target : Slash(t)
      BY <2>2
    <3> DEFINE task == [ws |-> Len(dirs) + 1, work |-> Len(dirs) + 1, target |-> t, ready |-> FALSE, pc |-> "slash"]
    <3>2. tasks' = Append(tasks, task) 
      BY <3>1 DEF Slash
    <3>3. task \in Tasks /\ task.pc # "ended"
      BY TypeFacts DEF Tasks
    <3> QED BY <3>2, <3>3
  <2> QED BY <2>1, <2>2
<1>2. /\ tasks'[n] = task /\ \A i \in DOMAIN tasks : tasks'[i] = tasks[i]
      /\ DOMAIN tasks' = DOMAIN tasks \cup {n} /\ n \notin DOMAIN tasks
  BY <1>1, TypeFacts, AppendProperties, LenProperties
<1>3. Live' = Live \cup {n}
  BY <1>1, <1>2 DEF Live
<1>4. tracked' = tracked \cup {n} /\ UNCHANGED <<saved, op>>
  BY DEF Dispatch, Slash
<1> QED BY <1>2, <1>3, <1>4

\* A restart ends every task.
LEMMA RestartEnds == TypeOK /\ Restart => Live' = {} /\ DOMAIN tasks' = DOMAIN tasks
                     /\ \A i \in DOMAIN tasks : tasks'[i].ws = tasks[i].ws /\ tasks'[i].work = tasks[i].work
                                                /\ tasks'[i].target = tasks[i].target /\ tasks'[i].pc = "ended"
<1> SUFFICES ASSUME TypeOK, Restart
             PROVE  /\ Live' = {} /\ DOMAIN tasks' = DOMAIN tasks
                    /\ \A i \in DOMAIN tasks : tasks'[i].ws = tasks[i].ws /\ tasks'[i].work = tasks[i].work
                                               /\ tasks'[i].target = tasks[i].target /\ tasks'[i].pc = "ended"
  OBVIOUS
<1>1. \A i \in DOMAIN tasks : /\ [tasks[i] EXCEPT !.pc = "ended"].ws = tasks[i].ws
                              /\ [tasks[i] EXCEPT !.pc = "ended"].work = tasks[i].work
                              /\ [tasks[i] EXCEPT !.pc = "ended"].target = tasks[i].target
                              /\ [tasks[i] EXCEPT !.pc = "ended"].pc = "ended"
  BY TypeFacts DEF Tasks
<1> QED BY <1>1 DEF Restart, Live

\* _quiesce_session: every step keeps the rewind alone.
LEMMA AloneStep ==
  ASSUME TypeOK, Alone, Overlap = FALSE, [Next]_vars
  PROVE  Alone'
<1> USE DEF Alone
<1>1. op \in Ops /\ tracked \subseteq Live
  BY DEF TypeOK
<1>2. ASSUME NEW t \in Target \cup {NoTarget}, NEW mode, Respond(t, mode) PROVE Alone'
  BY <1>2 DEF Respond, Free, Live
<1>3. CASE Dispatch \/ \E t \in Target : Slash(t)
  <2>1. op.pc = "idle"
    BY <1>3 DEF Dispatch, Slash, Free
  <2> QED BY <1>3, <2>1, TaskMade
<1>4. ASSUME NEW i \in DOMAIN tasks, TaskStep(i) \/ Mark(i) PROVE Alone'
  <2>1. /\ UNCHANGED <<turn, op>> /\ Live' \subseteq Live
        /\ tracked' = tracked \/ (tracked' = tracked \ {i} /\ Live' = Live \ {i})
    BY <1>4, TaskStepEffect DEF Stepped
  <2> QED BY <2>1
<1>5. ASSUME NEW kind \in {"cut", "restore"}, NEW cut, NEW drop, Quiesce(kind, cut, drop) PROVE Alone'
  BY <1>5 DEF Quiesce, IdleOp, IdleTurn, Live
<1>6. CASE Drained
  BY <1>1, <1>6 DEF Drained, Ops, Live
<1>7. CASE Prepare
  BY <1>1, <1>7 DEF Prepare, Ops, Live, IdleOp
<1>8. CASE Copy
  BY <1>1, <1>8 DEF Copy, Ops, Live
<1>9. CASE Cut
  BY <1>1, <1>9 DEF Cut, Ops, Live
<1>10. CASE RemoveWorkspaces
  BY <1>1, <1>10 DEF RemoveWorkspaces, Ops, Live
<1>11. CASE Restore
  BY <1>1, <1>11 DEF Restore, Ops, Live
<1>12. CASE Evict
  BY <1>1, <1>12 DEF Evict, Ops, Live, IdleTurn
<1>13. CASE SendInit
  BY <1>1, <1>13 DEF SendInit, IdleOp, Live
<1>14. CASE Connect
  BY <1>1, <1>14 DEF Connect, Free, Live, IdleTurn
<1>15. CASE SwitchBackend
  BY <1>1, <1>15 DEF SwitchBackend, Free, Live, IdleTurn
<1>16. CASE Restart
  BY <1>16, RestartEnds DEF Restart, IdleOp, IdleTurn
<1>17. CASE UNCHANGED vars
  BY <1>17 DEF vars, Live
<1> QED BY <1>2, <1>3, <1>4, <1>5, <1>6, <1>7, <1>8, <1>9, <1>10, <1>11, <1>12, <1>13, <1>14,
           <1>15, <1>16, <1>17
    DEF Next

-----------------------------------------------------------------------------
(* Chips of live tasks are not written off.                                *)

\* reconcile_task_ref_statuses: every step spares the chips of live tasks.
LEMMA WrittenOffStep ==
  ASSUME TypeOK, Alone, LiveNotWrittenOff, Overlap = FALSE, [Next]_vars
  PROVE  LiveNotWrittenOff'
<1> USE DEF LiveNotWrittenOff
<1>1. op \in Ops /\ tracked \subseteq Live
  BY DEF TypeOK
<1>2. ASSUME NEW live, Live \subseteq live, chips' = Reconciled(live), tasks' = tasks PROVE LiveNotWrittenOff'
  <2>1. Live' = Live
    BY <1>2 DEF Live
  <2>2. ASSUME NEW k \in DOMAIN chips, k \in Live PROVE chips'[k] = chips[k] \/ chips[k].status = chips'[k].status
    BY <1>2, <2>2 DEF Reconciled
  <2> QED BY <1>2, <2>1, <2>2 DEF Reconciled
<1>3. CASE Dispatch
  <2>1. PICK ds \in Seq(Directories), d \in DOMAIN dirs', ready \in BOOLEAN : Dispatched(ds, d, ready)
    BY <1>3, DispatchEffect
  <2>2. chips' = [k \in DOMAIN chips \cup {Len(tasks) + 1} |->
               IF k = Len(tasks) + 1 THEN [ws |-> d, status |-> "starting", stage |-> turn.stage]
               ELSE chips[k]]
    BY <2>1 DEF Dispatched
  <2> QED BY <1>3, <2>2, TaskMade, TypeFacts
<1>4. CASE \E t \in Target : Slash(t)
  <2>1. chips' = chips
    BY <1>4 DEF Slash
  <2> QED BY <1>4, <2>1, TaskMade, TypeFacts
<1>5. ASSUME NEW i \in DOMAIN tasks, TaskStep(i) \/ Mark(i) PROVE LiveNotWrittenOff'
  BY <1>5, TaskStepEffect DEF Stepped
<1>6. CASE \/ \E t \in Target \cup {NoTarget}, mode \in Modes \cup {"none"} : Respond(t, mode)
           \/ \E kind \in {"cut", "restore"}, cut \in 0..MaxStage, drop \in BOOLEAN : Quiesce(kind, cut, drop)
           \/ Drained \/ Prepare \/ Copy \/ RemoveWorkspaces \/ Evict \/ SwitchBackend \/ UNCHANGED vars
  <2>1. chips' = chips /\ tasks' = tasks
    BY <1>6 DEF Respond, Quiesce, Drained, Prepare, Copy, RemoveWorkspaces, Evict, SwitchBackend,
       vars
  <2> QED BY <2>1 DEF Live
<1>7. CASE Cut \/ Restore
  <2>1. op.pc = "cut" /\ tasks' = tasks
    BY <1>7 DEF Cut, Restore
  <2> QED BY <2>1 DEF Alone, Live
<1>8. CASE SendInit
  <2>1. op.pc = "init" /\ tasks' = tasks /\ chips' = Reconciled(op.live)
    BY <1>8 DEF SendInit
  <2> QED BY <1>2, <2>1 DEF Alone
<1>9. CASE Connect
  <2>1. op.pc = "idle" /\ tasks' = tasks /\ chips' = Reconciled(tracked \cap Live)
    BY <1>9 DEF Connect, Free
  <2> QED BY <1>2, <2>1 DEF Alone
<1>10. CASE Restart
  BY <1>10, RestartEnds DEF Restart
<1> QED BY <1>3, <1>4, <1>5, <1>6, <1>7, <1>8, <1>9, <1>10 DEF Next

-----------------------------------------------------------------------------
(* Chips and sidecars.                                                     *)

\* Chips that keep their workspace and stage still agree with directories that
\* keep their sidecars.
LEMMA AgreeKept ==
  ASSUME NEW c, NEW ds, NEW b, NEW es, Agree(c, ds),
         \A k \in DOMAIN b : /\ k \in DOMAIN c /\ b[k].ws = c[k].ws /\ b[k].stage = c[k].stage
                             /\ es[b[k].ws].there /\ es[b[k].ws].side = ds[c[k].ws].side
  PROVE  Agree(b, es)
BY DEF Agree

\* The directories of the chips are no orphans.
LEMMA BackfillSparesChips ==
  ASSUME TypeOK, Agree(chips, dirs), NEW ds, ds = dirs \/ ds = Backfilled, NEW k \in DOMAIN chips
  PROVE  ds[chips[k].ws] = dirs[chips[k].ws]
<1>1. chips[k].ws \in DOMAIN dirs /\ dirs[chips[k].ws].side # Missing
  BY TypeFacts DEF Agree
<1> QED BY <1>1, BackfilledTyped

\* A checkpoint is an old one, or what is on disk now.
LEMMA CheckpointsStep ==
  ASSUME TypeOK, [Next]_vars
  PROVE  Checkpoints' \subseteq Checkpoints \cup {[log |-> log, chips |-> chips, dirs |-> dirs]}
<1>1. op \in Ops
  BY DEF TypeOK
<1>2. ASSUME NEW kind \in {"cut", "restore"}, NEW cut, NEW drop, Quiesce(kind, cut, drop)
      PROVE  saved' = saved /\ op'.back \in {saved, Missing}
  BY <1>2 DEF Quiesce, IdleOp
<1>3. CASE Drained \/ Evict \/ Copy \/ Cut \/ RemoveWorkspaces
  <2>1. op'.back = op.back /\ saved' \in {saved, [log |-> log, chips |-> chips, dirs |-> dirs]}
    BY <1>1, <1>3 DEF Drained, Evict, Copy, Cut, RemoveWorkspaces, Ops
  <2> QED BY <2>1 DEF Checkpoints
<1>4. CASE Prepare \/ Restart \/ SendInit
  <2>1. saved' = saved /\ (op' = IdleOp \/ op' = [op EXCEPT !.pc = "copy"])
    BY <1>4 DEF Prepare, Restart, SendInit
  <2>2. IdleOp.back = Missing /\ [op EXCEPT !.pc = "copy"].back = op.back
    BY <1>1 DEF IdleOp, Ops
  <2> QED BY <2>1, <2>2 DEF Checkpoints
<1>5. CASE Restore
  <2>1. saved' = saved /\ op'.back = Missing
    BY <1>1, <1>5 DEF Restore, Ops
  <2> QED BY <2>1 DEF Checkpoints
<1>6. CASE \/ \E t \in Target \cup {NoTarget}, mode \in Modes \cup {"none"} : Respond(t, mode)
           \/ Dispatch \/ (\E t \in Target : Slash(t)) \/ Connect \/ SwitchBackend \/ UNCHANGED vars
  BY <1>6 DEF Respond, Dispatch, Slash, Connect, SwitchBackend, vars, Checkpoints
<1>7. ASSUME NEW i \in DOMAIN tasks, TaskStep(i) \/ Mark(i)
      PROVE  op' = op /\ saved' = saved
  BY <1>7, TaskStepEffect DEF Stepped
<1> QED BY <1>2, <1>3, <1>4, <1>5, <1>6, <1>7 DEF Next, Checkpoints

\* Every step keeps chips and sidecars in step.
LEMMA InStepStep ==
  ASSUME TypeOK, Alone, InStep, Overlap = FALSE, [Next]_vars
  PROVE  InStep'
<1>1. op \in Ops /\ Agree(chips, dirs) /\ \A k \in DOMAIN chips : chips[k].ws \in DOMAIN dirs
  BY TypeFacts DEF TypeOK, InStep
<1>2. \A x \in Checkpoints' : Agree(x.chips, x.dirs)
  BY CheckpointsStep DEF InStep
<1> DEFINE Ahead == op.pc = "remove" => \A k \in DOMAIN chips : chips[k].stage < op.cut
<1>3. Ahead
  BY DEF InStep
<1>4. SUFFICES Agree(chips', dirs') /\ Ahead'
  BY <1>2 DEF InStep, Agree
<1>5. CASE \/ \E t \in Target \cup {NoTarget}, mode \in Modes \cup {"none"} : Respond(t, mode)
           \/ \E kind \in {"cut", "restore"}, cut \in 0..MaxStage, drop \in BOOLEAN : Quiesce(kind, cut, drop)
           \/ Drained \/ Prepare \/ Copy \/ Evict \/ SwitchBackend \/ Restart \/ UNCHANGED vars
  <2>1. chips' = chips /\ dirs' = dirs
    BY <1>5 DEF Respond, Quiesce, Drained, Prepare, Copy, Evict, SwitchBackend, Restart, vars
  <2>2. op'.pc # "remove" \/ op' = op
    <3>1. CASE \E kind \in {"cut", "restore"}, cut \in 0..MaxStage, drop \in BOOLEAN : Quiesce(kind, cut, drop)
      <4>1. op'.pc = "drain"
        BY <3>1 DEF Quiesce, IdleOp
      <4> QED BY <4>1
    <3>2. CASE Drained \/ Prepare \/ Copy \/ Evict \/ Restart
      <4>1. op' = IdleOp \/ op'.pc \in {"prepare", "copy", "cut", "init"}
        BY <1>1, <3>2 DEF Drained, Prepare, Copy, Evict, Restart, Ops
      <4> QED BY <4>1 DEF IdleOp
    <3>3. CASE \/ \E t \in Target \cup {NoTarget}, mode \in Modes \cup {"none"} : Respond(t, mode)
               \/ SwitchBackend \/ UNCHANGED vars
      BY <3>3 DEF Respond, SwitchBackend, vars
    <3> QED BY <1>5, <3>1, <3>2, <3>3
  <2> QED BY <1>1, <1>3, <2>1, <2>2
<1>6. CASE Dispatch
  <2>1. PICK ds \in Seq(Directories), d \in DOMAIN dirs', ready \in BOOLEAN : Dispatched(ds, d, ready)
    BY <1>6, DispatchEffect
  <2>2. op'.pc = "idle"
    BY <1>6 DEF Dispatch, Alone
  <2>3. ASSUME NEW k \in DOMAIN chips PROVE chips[k].ws # d
    BY <1>1, <2>1 DEF Dispatched, Matching
  <2>4. ASSUME NEW k \in DOMAIN chips PROVE dirs'[chips[k].ws] = dirs[chips[k].ws]
    BY <1>1, <2>1, <2>3, BackfillSparesChips DEF Dispatched
  <2>5. /\ chips' = [k \in DOMAIN chips \cup {Len(tasks) + 1} |->
               IF k = Len(tasks) + 1 THEN [ws |-> d, status |-> "starting", stage |-> turn.stage]
               ELSE chips[k]]
        /\ dirs'[d].there /\ dirs'[d].side # Missing /\ dirs'[d].side.task = Len(tasks) + 1 /\ dirs'[d].side.stage = turn.stage
    BY <2>1, SidecarIsThere DEF Dispatched
  <2>6. Agree(chips', dirs')
    BY <1>1, <2>4, <2>5 DEF Agree
  <2> QED BY <2>2, <2>6
<1>7. CASE \E t \in Target : Slash(t)
  <2>1. PICK t \in Target : Slash(t)
    BY <1>7
  <2>2. \A e \in DOMAIN dirs : dirs'[e] = dirs[e]
    BY <2>1, TypeFacts, AppendProperties DEF Slash
  <2>3. chips' = chips /\ op' = op
    BY <2>1 DEF Slash
  <2> QED BY <1>1, <1>3, <2>2, <2>3 DEF Agree
<1>8. ASSUME NEW i \in DOMAIN tasks, TaskStep(i) \/ Mark(i)
      PROVE  Agree(chips', dirs') /\ Ahead'
  <2>1. Stepped(i)
    BY <1>8, TaskStepEffect
  <2>2. \A k \in DOMAIN chips' : /\ k \in DOMAIN chips /\ chips'[k].ws = chips[k].ws /\ chips'[k].stage = chips[k].stage
                                 /\ dirs'[chips'[k].ws].there /\ dirs'[chips'[k].ws].side = dirs[chips[k].ws].side
    BY <1>1, <2>1 DEF Stepped, SameButMarked, Agree
  <2>3. Agree(chips', dirs')
    BY <1>1, <2>2, AgreeKept
  <2> QED BY <1>3, <2>1, <2>3 DEF Stepped
<1>9. CASE Cut
  BY <1>1, <1>9 DEF Cut, Restrict, Agree, Ops
<1>10. CASE RemoveWorkspaces
  <2>1. op'.pc = "evict" /\ chips' = chips
        /\ dirs' = [d \in DOMAIN dirs |-> IF d \in AtOrAfter(op.cut) THEN Gone ELSE dirs[d]]
    BY <1>1, <1>10 DEF RemoveWorkspaces, Ops
  <2>2. ASSUME NEW k \in DOMAIN chips PROVE chips[k].ws \notin AtOrAfter(op.cut)
    <3>1. chips[k].stage < op.cut /\ dirs[chips[k].ws].side.stage = chips[k].stage
      BY <1>1, <1>3, <1>10 DEF RemoveWorkspaces, Agree
    <3>2. chips[k].stage \in Nat /\ op.cut \in Nat
      BY <1>1, TypeFacts, TasksAssumption DEF Chips, Stages, Ops, None, TasksAssumption
    <3> QED BY <3>1, <3>2 DEF AtOrAfter
  <2> QED BY <1>1, <2>1, <2>2 DEF Agree
<1>11. CASE Restore
  <2>1. /\ op'.pc = "evict" /\ chips' = op.back.chips
        /\ dirs' = [d \in DOMAIN dirs |-> IF d \in DOMAIN op.back.dirs THEN op.back.dirs[d] ELSE Gone]
    BY <1>1, <1>11 DEF Restore, Ops
  <2>2. op.back \in Checkpoints
    BY <1>11 DEF Restore, TypeOK, Aimed, Checkpoints
  <2>3. Agree(op.back.chips, op.back.dirs) /\ Housed(op.back.chips, op.back.dirs)
    BY <2>2 DEF TypeOK, InStep
  <2>4. DOMAIN op.back.dirs \subseteq DOMAIN dirs
    BY <2>3, TypeFacts, SeqGrows DEF Housed
  <2> QED BY <2>1, <2>3, <2>4 DEF Agree, Housed
<1>12. CASE SendInit \/ Connect
  <2>1. PICK live : chips' = Reconciled(live)
    BY <1>12 DEF SendInit, Connect
  <2>2. dirs' = dirs /\ op'.pc = "idle"
    BY <1>12 DEF SendInit, Connect, Free, IdleOp
  <2>3. \A k \in DOMAIN chips' : /\ k \in DOMAIN chips /\ chips'[k].ws = chips[k].ws /\ chips'[k].stage = chips[k].stage
    BY <2>1, TypeFacts, ReconciledTyped
  <2>4. \A k \in DOMAIN chips : dirs[chips[k].ws].there
    BY <1>1 DEF Agree
  <2>5. Agree(chips', dirs')
    BY <1>1, <2>2, <2>3, <2>4, AgreeKept
  <2> QED BY <2>2, <2>5
<1> QED BY <1>5, <1>6, <1>7, <1>8, <1>9, <1>10, <1>11, <1>12 DEF Next

-----------------------------------------------------------------------------
(* One task per directory, and what a directory was made for.              *)

\* Labels stay true when directories keep what they are and new ones have no sidecar.
LEMMA LabelledKept ==
  ASSUME Labelled(chips, dirs), Agree(chips, dirs), SameButMarked(dirs, dirs'),
         \A e \in DOMAIN dirs' : dirs'[e].there =>
            \/ e \in DOMAIN dirs /\ dirs[e].there
            \/ dirs'[e].side = Missing /\ dirs'[e].tool = "other",
         DOMAIN chips' \subseteq DOMAIN chips, \A k \in DOMAIN chips : chips[k].ws \in DOMAIN dirs,
         \A k \in DOMAIN chips' : chips'[k].ws = chips[k].ws,
         \A k \in DOMAIN chips : tasks'[k].ws = tasks[k].ws /\ tasks'[k].target = tasks[k].target
  PROVE  Labelled(chips, dirs)'
<1>1. ASSUME NEW e \in DOMAIN dirs', dirs'[e].there
      PROVE  /\ dirs'[e].side = Missing => dirs'[e].tool = "other"
             /\ dirs'[e].tool = "other" /\ dirs'[e].side # Missing => dirs'[e].side.target = NoTarget
             /\ dirs'[e].side # Missing /\ dirs'[e].side.target # NoTarget => dirs'[e].made \subseteq {dirs'[e].side.target}
  BY <1>1 DEF Labelled, SameButMarked
<1>2. ASSUME NEW k \in DOMAIN chips'
      PROVE  chips'[k].ws = tasks'[k].ws /\ dirs'[chips'[k].ws].made \subseteq {tasks'[k].target}
  BY <1>2 DEF Labelled, SameButMarked, Agree
<1> QED BY <1>1, <1>2 DEF Labelled

\* A backfilled sidecar of a directory of another tool has no key.
LEMMA BackfillLabels ==
  ASSUME TypeOK, Agree(chips, dirs), Labelled(chips, dirs), NEW ds, ds = dirs \/ ds = Backfilled
  PROVE  Labelled(chips, ds) /\ \A e \in DOMAIN dirs : ds[e].there = dirs[e].there /\ ds[e].tool = dirs[e].tool
<1>1. CASE ds = dirs
  BY <1>1
<1>2. CASE ds = Backfilled
  <2>1. DOMAIN ds = DOMAIN dirs
    BY <1>2 DEF Backfilled
  <2>2. ASSUME NEW e \in DOMAIN dirs, ds[e] # dirs[e]
        PROVE  /\ ds[e].there /\ ds[e].tool = "other" /\ ds[e].side # Missing /\ ds[e].side.target = NoTarget
               /\ ds[e].there = dirs[e].there /\ ds[e].tool = dirs[e].tool
    <3>1. dirs[e].there /\ dirs[e].side = Missing
          /\ ds[e] = [dirs[e] EXCEPT !.side = [task |-> None, target |-> TargetOf(e), stage |-> None]]
      BY <1>2, <2>2, BackfilledTyped
    <3>2. dirs[e].tool = "other"
      BY <3>1 DEF Labelled
    <3>3. TargetOf(e) = NoTarget
      BY <3>2 DEF TargetOf
    <3>4. dirs[e] \in [there : {TRUE}, tool : Tools, complete : BOOLEAN, made : SUBSET Target, side : Sidecars \cup {Missing}]
      BY <3>1, TypeFacts, DirectoryIsThere
    <3> DEFINE side == [task |-> None, target |-> TargetOf(e), stage |-> None]
    <3>5. side # Missing /\ side.target = NoTarget
      BY <3>3 DEF Missing
    <3> HIDE DEF side
    <3>6. ds[e] = [dirs[e] EXCEPT !.side = side]
      BY <3>1 DEF side
    <3>7. ds[e].there = dirs[e].there /\ ds[e].tool = dirs[e].tool /\ ds[e].side = side
      BY <3>4, <3>6
    <3> QED BY <3>1, <3>2, <3>5, <3>7
  <2>3. ASSUME NEW e \in DOMAIN ds, ds[e].there
        PROVE  /\ ds[e].side = Missing => ds[e].tool = "other"
               /\ ds[e].tool = "other" /\ ds[e].side # Missing => ds[e].side.target = NoTarget
               /\ ds[e].side # Missing /\ ds[e].side.target # NoTarget => ds[e].made \subseteq {ds[e].side.target}
    BY <2>1, <2>2, <2>3 DEF Labelled
  <2>4. \A k \in DOMAIN chips : ds[chips[k].ws] = dirs[chips[k].ws]
    BY <1>2, BackfillSparesChips
  <2> QED BY <2>1, <2>2, <2>3, <2>4 DEF Labelled
<1> QED BY <1>1, <1>2

\* Where a task was put and what it was asked never changes.
LEMMA TasksStay ==
  ASSUME TypeOK, [Next]_vars
  PROVE  /\ DOMAIN tasks \subseteq DOMAIN tasks'
         /\ \A i \in DOMAIN tasks : /\ tasks'[i].ws = tasks[i].ws /\ tasks'[i].target = tasks[i].target
                                    /\ Placement = "given" => tasks'[i].work = tasks[i].work
<1>1. CASE Dispatch \/ \E t \in Target : Slash(t)
  BY <1>1, TaskMade
<1>2. ASSUME NEW i \in DOMAIN tasks, Stepped(i)
      PROVE  /\ DOMAIN tasks \subseteq DOMAIN tasks'
             /\ \A j \in DOMAIN tasks : /\ tasks'[j].ws = tasks[j].ws /\ tasks'[j].target = tasks[j].target
                                        /\ Placement = "given" => tasks'[j].work = tasks[j].work
  BY <1>2 DEF Stepped
<1>3. CASE Restart
  BY <1>3, RestartEnds
<1>4. CASE \/ \E t \in Target \cup {NoTarget}, mode \in Modes \cup {"none"} : Respond(t, mode)
           \/ \E kind \in {"cut", "restore"}, cut \in 0..MaxStage, drop \in BOOLEAN : Quiesce(kind, cut, drop)
           \/ Drained \/ Prepare \/ Copy \/ Cut \/ RemoveWorkspaces \/ Restore \/ Evict \/ SendInit \/ Connect
           \/ SwitchBackend \/ UNCHANGED vars
  <2>1. tasks' = tasks
    BY <1>4 DEF Respond, Quiesce, Drained, Prepare, Copy, Cut, RemoveWorkspaces, Restore, Evict,
       SendInit, Connect,
                SwitchBackend, vars
  <2> QED BY <2>1
<1> QED BY <1>1, <1>2, <1>3, <1>4, TaskStepEffect DEF Next

\* So labels stay true of checkpoints.
LEMMA LabelledStays ==
  ASSUME TypeOK, [Next]_vars, NEW x, DOMAIN x.chips \subseteq DOMAIN tasks, Labelled(x.chips, x.dirs)
  PROVE  Labelled(x.chips, x.dirs)'
BY TasksStay DEF Labelled

\* Every checkpoint is labelled after a step.
LEMMA CheckpointsLabelled ==
  ASSUME TypeOK, Labelled(chips, dirs), \A x \in Checkpoints : Labelled(x.chips, x.dirs), [Next]_vars
  PROVE  \A x \in Checkpoints' : Labelled(x.chips, x.dirs)'
<1>1. ASSUME NEW x \in Checkpoints' PROVE Labelled(x.chips, x.dirs) /\ DOMAIN x.chips \subseteq DOMAIN tasks
  BY <1>1, CheckpointsStep DEF TypeOK, Housed
<1> QED BY <1>1, LabelledStays

\* Every live task of a turn has its chip; a slash command works where no turn does.
Placed ==
  \A i \in Live : IF tasks[i].pc = "slash"
                  THEN dirs[tasks[i].ws].there => dirs[tasks[i].ws].tool = "other"
                  ELSE i \in DOMAIN chips

\* Every step keeps the tasks apart and the labels true.
LEMMA ApartStep ==
  ASSUME TypeOK, Alone, InStep, Apart, Overlap = FALSE, InPlace, [Next]_vars
  PROVE  Apart'
<1> DEFINE Worked == \A i \in DOMAIN tasks : tasks[i].work = tasks[i].ws
<1>1. Labelled(chips, dirs) /\ (\A x \in Checkpoints : Labelled(x.chips, x.dirs)) /\ Worked /\ Placed /\ OneWriter
  BY DEF Apart, Placed
<1>2. (\A x \in Checkpoints : Labelled(x.chips, x.dirs))'
  BY <1>1, CheckpointsLabelled
<1>3. SUFFICES Labelled(chips, dirs)' /\ Worked' /\ Placed' /\ OneWriter'
  BY <1>2 DEF Apart, Placed
<1>4. Agree(chips, dirs) /\ op \in Ops /\ \A k \in DOMAIN chips : chips[k].ws \in DOMAIN dirs
  BY TypeFacts DEF InStep, TypeOK
<1>5. \A i \in DOMAIN tasks : tasks'[i].work = tasks'[i].ws /\ tasks'[i].ws = tasks[i].ws /\ tasks'[i].target = tasks[i].target
  BY <1>1, TasksStay DEF InPlace
<1>6. ASSUME DOMAIN tasks' = DOMAIN tasks, Live' \subseteq Live
      PROVE  Worked' /\ OneWriter'
  <2>1. Worked'
    BY <1>5, <1>6
  <2>2. \A i \in Live' : i \in DOMAIN tasks /\ tasks'[i].work = tasks[i].work
    BY <1>1, <1>5, <1>6 DEF Live
  <2>3. OneWriter'
    BY <1>1, <1>6, <2>2 DEF OneWriter
  <2> QED BY <2>1, <2>3
<1>7. ASSUME SameButMarked(dirs, dirs'), DOMAIN chips' = DOMAIN chips, \A k \in DOMAIN chips : chips'[k].ws = chips[k].ws,
             \A e \in DOMAIN dirs' : dirs'[e].there =>
               (e \in DOMAIN dirs /\ dirs[e].there) \/ (dirs'[e].side = Missing /\ dirs'[e].tool = "other")
      PROVE  Labelled(chips, dirs)'
  <2>1. \A k \in DOMAIN chips : tasks'[k].ws = tasks[k].ws /\ tasks'[k].target = tasks[k].target
    BY <1>5, TypeFacts
  <2> QED BY <1>1, <1>4, <1>7, <2>1, LabelledKept
<1>8. ASSUME dirs' = dirs, tasks' = tasks, DOMAIN chips' = DOMAIN chips, \A k \in DOMAIN chips : chips'[k].ws = chips[k].ws
      PROVE  Labelled(chips, dirs)' /\ Worked' /\ Placed' /\ OneWriter'
  <2>1. Live' = Live
    BY <1>8 DEF Live
  <2>2. Labelled(chips, dirs)'
    BY <1>7, <1>8 DEF SameButMarked
  <2>3. Placed'
    BY <1>1, <1>8, <2>1 DEF Placed
  <2> QED BY <1>6, <1>8, <2>1, <2>2, <2>3
<1>9. CASE \/ \E t \in Target \cup {NoTarget}, mode \in Modes \cup {"none"} : Respond(t, mode)
           \/ \E kind \in {"cut", "restore"}, cut \in 0..MaxStage, drop \in BOOLEAN : Quiesce(kind, cut, drop)
           \/ Drained \/ Prepare \/ Copy \/ Evict \/ SwitchBackend \/ UNCHANGED vars
  <2>1. chips' = chips /\ dirs' = dirs /\ tasks' = tasks
    BY <1>9 DEF Respond, Quiesce, Drained, Prepare, Copy, Evict, SwitchBackend, vars
  <2> QED BY <1>8, <2>1
<1>10. CASE SendInit \/ Connect
  <2>1. PICK live : chips' = Reconciled(live)
    BY <1>10 DEF SendInit, Connect
  <2>2. dirs' = dirs /\ tasks' = tasks
    BY <1>10 DEF SendInit, Connect
  <2>3. DOMAIN chips' = DOMAIN chips /\ \A k \in DOMAIN chips : chips'[k].ws = chips[k].ws
    BY <2>1, TypeFacts, ReconciledTyped
  <2> QED BY <1>8, <2>2, <2>3
<1>11. CASE Restart
  <2>1. Live' = {} /\ DOMAIN tasks' = DOMAIN tasks /\ chips' = chips /\ dirs' = dirs
    BY <1>11, RestartEnds DEF Restart
  <2>2. Labelled(chips, dirs)'
    BY <1>7, <2>1 DEF SameButMarked
  <2> QED BY <1>6, <2>1, <2>2 DEF Placed
<1>12. ASSUME NEW i \in DOMAIN tasks, TaskStep(i) \/ Mark(i)
       PROVE  Labelled(chips, dirs)' /\ Worked' /\ Placed' /\ OneWriter'
  <2>1. Stepped(i)
    BY <1>12, TaskStepEffect
  <2>2. DOMAIN tasks' = DOMAIN tasks /\ Live' \subseteq Live /\ DOMAIN dirs' = DOMAIN dirs
        /\ DOMAIN chips' = DOMAIN chips /\ \A k \in DOMAIN chips : chips'[k].ws = chips[k].ws
    BY <2>1 DEF Stepped, InPlace
  <2>3. ASSUME NEW e \in DOMAIN dirs, ~ dirs[e].there PROVE dirs'[e] = dirs[e]
    <3>1. CASE e = tasks[i].ws /\ i \in Live /\ tasks[i].pc # "slash"
      <4>1. i \in DOMAIN chips /\ chips[i].ws = tasks[i].ws
        BY <1>1, <3>1 DEF Placed, Labelled
      <4> QED BY <1>4, <2>3, <3>1, <4>1 DEF Agree
    <3> QED BY <2>1, <2>3, <3>1 DEF Stepped
  <2>4. Labelled(chips, dirs)'
    BY <1>7, <2>1, <2>2, <2>3 DEF Stepped
  <2>5. Placed'
    <3>1. ASSUME NEW j \in Live' PROVE j \in Live /\ j \in DOMAIN tasks /\ (tasks'[j].pc = "slash" <=> tasks[j].pc = "slash")
                                      /\ tasks'[j].ws = tasks[j].ws
      BY <2>1, <2>2 DEF Stepped, Live
    <3>2. ASSUME NEW j \in Live', tasks'[j].pc = "slash", dirs'[tasks'[j].ws].there PROVE dirs'[tasks'[j].ws].tool = "other"
      <4>1. tasks[j].ws \in DOMAIN dirs /\ j \in Live /\ tasks[j].pc = "slash" /\ tasks'[j].ws = tasks[j].ws
        BY <3>1, <3>2 DEF TypeOK
      <4>2. dirs[tasks[j].ws].there
        BY <2>3, <3>2, <4>1
      <4> QED BY <1>1, <2>1, <4>1, <4>2 DEF Placed, Stepped, SameButMarked
    <3> QED BY <1>1, <2>2, <3>1, <3>2 DEF Placed
  <2> QED BY <1>6, <2>2, <2>4, <2>5
<1>13. CASE \E t \in Target : Slash(t)
  <2>1. PICK t \in Target : Slash(t)
    BY <1>13
  <2> DEFINE n == Len(tasks) + 1
             d == Len(dirs) + 1
             task == [ws |-> d, work |-> d, target |-> t, ready |-> FALSE, pc |-> "slash"]
             dir == [there |-> TRUE, tool |-> SlashTool, complete |-> FALSE, made |-> {t}, side |-> Missing]
  <2>2. dirs' = Append(dirs, dir) /\ tasks' = Append(tasks, task) /\ chips' = chips
    BY <2>1 DEF Slash
  <2>3. /\ task \in Tasks /\ task.ws = d /\ task.work = d /\ task.pc = "slash"
        /\ dir \in Directories /\ dir.there /\ dir.side = Missing /\ dir.tool = "other"
    BY TypeFacts, TasksAssumption DEF Tasks, Directories, TasksAssumption, InPlace
  <2> HIDE DEF task, dir
  <2>4. /\ tasks'[n] = task /\ \A i \in DOMAIN tasks : tasks'[i] = tasks[i]
        /\ DOMAIN tasks' = DOMAIN tasks \cup {n} /\ n \notin DOMAIN tasks
    BY <2>2, <2>3, TypeFacts, AppendProperties, LenProperties
  <2>5. /\ dirs'[d] = dir /\ \A e \in DOMAIN dirs : dirs'[e] = dirs[e]
        /\ DOMAIN dirs' = DOMAIN dirs \cup {d} /\ d \notin DOMAIN dirs
    BY <2>2, <2>3, TypeFacts, AppendProperties, LenProperties
  <2>6. Live' = Live \cup {n}
    BY <2>3, <2>4 DEF Live
  <2>7. Labelled(chips, dirs)'
    BY <1>7, <2>2, <2>3, <2>5 DEF SameButMarked
  <2>8. Worked'
    BY <1>1, <2>3, <2>4
  <2>9. \A i \in Live : tasks[i].work \in DOMAIN dirs /\ tasks[i].ws \in DOMAIN dirs /\ i \in DOMAIN tasks
    BY DEF TypeOK, Live
  <2>10. Placed'
    BY <1>1, <2>2, <2>3, <2>4, <2>5, <2>6, <2>9 DEF Placed
  <2>11. OneWriter'
    BY <1>1, <2>3, <2>4, <2>5, <2>6, <2>9 DEF OneWriter
  <2> QED BY <2>7, <2>8, <2>10, <2>11
<1>14. CASE Dispatch
  <2>1. PICK ds \in Seq(Directories), d \in DOMAIN dirs', ready \in BOOLEAN : Dispatched(ds, d, ready)
    BY <1>14, DispatchEffect
  <2> DEFINE n == Len(tasks) + 1
             t == turn.target
             task == [ws |-> d, work |-> d, target |-> t, ready |-> ready, pc |-> "spawned"]
             chip == [ws |-> d, status |-> "starting", stage |-> turn.stage]
  <2>2. /\ tasks' = Append(tasks, task) /\ turn \in Calls /\ dirs' \in Seq(Directories)
        /\ DOMAIN dirs' = DOMAIN dirs \cup {d} /\ \A e \in DOMAIN dirs \ {d} : dirs'[e] = ds[e]
        /\ dirs'[d].there /\ dirs'[d].side \in Sidecars /\ dirs'[d].side.target \in {t, NoTarget}
        /\ chips' = [k \in DOMAIN chips \cup {n} |-> IF k = n THEN chip ELSE chips[k]]
    BY <2>1 DEF Dispatched
  <2>3. dirs' \in Seq(Directories)
    BY <2>2
  <2>4. d \in Nat /\ t \in Target
    <3>1. d \in Nat
      BY <2>3, LenProperties
    <3> QED BY <2>2, <3>1 DEF Calls
  <2>5. task \in Tasks /\ task.ws = d /\ task.work = d /\ task.pc = "spawned" /\ task.target = t /\ chip.ws = d
    BY <2>2, <2>4 DEF Tasks
  <2> HIDE DEF task, chip
  <2>6. /\ tasks'[n] = task /\ \A i \in DOMAIN tasks : tasks'[i] = tasks[i]
        /\ DOMAIN tasks' = DOMAIN tasks \cup {n} /\ n \notin DOMAIN tasks
    BY <2>2, <2>5, TypeFacts, AppendProperties, LenProperties
  <2>7. Live' = Live \cup {n}
    BY <2>5, <2>6 DEF Live
  <2>8. /\ Labelled(chips, ds) /\ \A e \in DOMAIN dirs : ds[e].there = dirs[e].there /\ ds[e].tool = dirs[e].tool
        /\ DOMAIN ds = DOMAIN dirs
    BY <1>1, <1>4, <2>1, BackfillLabels DEF Dispatched, Backfilled
  <2>9. /\ dirs'[d].made \subseteq {t} /\ dirs'[d].tool # "other"
        /\ d \in DOMAIN dirs => d \in Matching(ds, t)
    <3>1. CASE d \in DOMAIN dirs
      <4>1. d \in Matching(ds, t) /\ dirs'[d].tool = ds[d].tool /\ dirs'[d].made \subseteq ds[d].made \cup Made(t)
        BY <2>1, <3>1 DEF Dispatched
      <4>2. ds[d].there /\ ds[d].side # Missing /\ ds[d].side.target = t /\ t # NoTarget /\ d \in DOMAIN ds
        BY <2>4, <4>1, TasksAssumption DEF Matching, TasksAssumption
      <4>3. ds[d].made \subseteq {t} /\ ds[d].tool # "other"
        BY <2>8, <4>2 DEF Labelled
      <4> QED BY <4>1, <4>3 DEF Made
    <3>2. CASE d \notin DOMAIN dirs
      BY <2>1, <3>2 DEF Dispatched, Made
    <3> QED BY <3>1, <3>2
  <2>10. \A k \in DOMAIN chips : chips[k].ws # d
    BY <1>4, <2>9 DEF Matching
  <2>11. Labelled(chips, dirs)'
    <3>1. ASSUME NEW e \in DOMAIN dirs', dirs'[e].there
          PROVE  /\ dirs'[e].side = Missing => dirs'[e].tool = "other"
                 /\ dirs'[e].tool = "other" /\ dirs'[e].side # Missing => dirs'[e].side.target = NoTarget
                 /\ dirs'[e].side # Missing /\ dirs'[e].side.target # NoTarget => dirs'[e].made \subseteq {dirs'[e].side.target}
      <4>1. CASE e = d
        BY <2>2, <2>9, <4>1, SidecarIsThere
      <4>2. CASE e # d
        BY <2>2, <2>8, <3>1, <4>2 DEF Labelled
      <4> QED BY <4>1, <4>2
    <3>2. ASSUME NEW k \in DOMAIN chips'
          PROVE  chips'[k].ws = tasks'[k].ws /\ dirs'[chips'[k].ws].made \subseteq {tasks'[k].target}
      <4>1. CASE k = n
        BY <2>2, <2>5, <2>6, <2>9, <4>1
      <4>2. CASE k # n
        <5>1. k \in DOMAIN chips /\ chips'[k] = chips[k] /\ tasks'[k] = tasks[k]
          BY <2>2, <2>6, <4>2, TypeFacts
        <5>2. dirs'[chips[k].ws] = ds[chips[k].ws]
          BY <1>4, <2>2, <2>10, <5>1
        <5> QED BY <2>8, <5>1, <5>2 DEF Labelled
      <4> QED BY <4>1, <4>2
    <3> QED BY <3>1, <3>2 DEF Labelled
  <2>12. Worked'
    BY <1>1, <2>5, <2>6
  <2>13. ASSUME NEW i \in Live
         PROVE  tasks[i].ws # d /\ tasks[i].ws \in DOMAIN dirs /\ i \in DOMAIN tasks
    <3>1. tasks[i].ws \in DOMAIN dirs /\ i \in DOMAIN tasks
      BY DEF TypeOK, Live
    <3>2. CASE tasks[i].pc = "slash"
      <4>1. ASSUME d = tasks[i].ws PROVE FALSE
        <5>1. ds[d].there /\ dirs[d].tool = ds[d].tool /\ dirs[d].there
          BY <2>8, <2>9, <3>1, <4>1 DEF Matching
        <5>2. dirs[d].tool = "other"
          BY <1>1, <3>2, <4>1, <5>1 DEF Placed
        <5>3. dirs'[d].tool = ds[d].tool
          BY <2>1, <3>1, <4>1 DEF Dispatched
        <5> QED BY <2>9, <5>1, <5>2, <5>3
      <4> QED BY <3>1, <4>1
    <3>3. CASE tasks[i].pc # "slash"
      <4>1. i \in DOMAIN chips /\ chips[i].ws = tasks[i].ws
        BY <1>1, <3>3 DEF Placed, Labelled
      <4> QED BY <2>10, <3>1, <4>1
    <3> QED BY <3>2, <3>3
  <2>14. Placed'
    <3>1. ASSUME NEW i \in Live
          PROVE IF tasks'[i].pc = "slash"
                  THEN dirs'[tasks'[i].ws].there => dirs'[tasks'[i].ws].tool = "other"
                  ELSE i \in DOMAIN chips'
      <4>1. tasks'[i] = tasks[i] /\ tasks[i].ws \in DOMAIN dirs /\ tasks[i].ws # d
        BY <2>6, <2>13
      <4>2. dirs'[tasks[i].ws].there = dirs[tasks[i].ws].there /\ dirs'[tasks[i].ws].tool = dirs[tasks[i].ws].tool
        BY <2>2, <2>8, <4>1
      <4> QED BY <1>1, <2>2, <4>1, <4>2 DEF Placed
    <3>2. tasks'[n].pc # "slash" /\ n \in DOMAIN chips'
      BY <2>2, <2>5, <2>6
    <3> QED BY <2>7, <3>1, <3>2 DEF Placed
  <2>15. OneWriter'
    <3>1. \A i \in Live : tasks'[i].work # d /\ tasks'[i].work = tasks[i].work
      BY <1>1, <2>6, <2>13
    <3> QED BY <1>1, <2>5, <2>6, <2>7, <3>1 DEF OneWriter
  <2> QED BY <2>11, <2>12, <2>14, <2>15
<1>15. CASE Cut \/ RemoveWorkspaces \/ Restore
  <2>1. Live = {} /\ tasks' = tasks
    BY <1>15 DEF Cut, RemoveWorkspaces, Restore, Alone
  <2>2. Worked' /\ Placed' /\ OneWriter'
    BY <1>1, <2>1 DEF Live, Placed, OneWriter
  <2>3. Labelled(chips, dirs)'
    <3>1. CASE Cut
      <4>1. dirs' = dirs /\ chips' = [k \in {j \in DOMAIN chips : chips[j].stage < op.cut} |-> chips[k]]
        BY <3>1 DEF Cut, Restrict
      <4> QED BY <1>1, <2>1, <4>1 DEF Labelled
    <3>2. CASE RemoveWorkspaces
      <4>1. /\ DOMAIN dirs' = DOMAIN dirs /\ \A e \in DOMAIN dirs' : dirs'[e].there => dirs'[e] = dirs[e]
            /\ chips' = chips
        BY <3>2 DEF RemoveWorkspaces, Gone
      <4>2. \A k \in DOMAIN chips' : dirs'[chips'[k].ws] = dirs[chips[k].ws]
        <5>1. InStep'
          BY InStepStep
        <5> QED BY <1>4, <4>1, <5>1 DEF InStep, Agree
      <4>3. \A e \in DOMAIN dirs' : dirs'[e].there => e \in DOMAIN dirs /\ dirs[e].there /\ dirs'[e] = dirs[e]
        BY <4>1
      <4>4. \A k \in DOMAIN chips' : chips'[k].ws = tasks'[k].ws /\ dirs'[chips'[k].ws].made \subseteq {tasks'[k].target}
        BY <1>1, <2>1, <4>1, <4>2 DEF Labelled
      <4> QED BY <1>1, <4>3, <4>4 DEF Labelled
    <3>3. CASE Restore
      <4>1. op.back \in Checkpoints
        BY <3>3 DEF Restore, TypeOK, Aimed, Checkpoints
      <4>2. Labelled(op.back.chips, op.back.dirs) /\ Housed(op.back.chips, op.back.dirs)
        BY <1>1, <4>1 DEF TypeOK
      <4>3. DOMAIN op.back.dirs \subseteq DOMAIN dirs
        BY <4>2, TypeFacts, SeqGrows DEF Housed
      <4>4. /\ DOMAIN dirs' = DOMAIN dirs
            /\ \A e \in DOMAIN dirs' : dirs'[e].there => e \in DOMAIN op.back.dirs
            /\ \A e \in DOMAIN op.back.dirs : dirs'[e] = op.back.dirs[e]
            /\ chips' = op.back.chips
        BY <3>3, <4>3 DEF Restore, Gone
      <4>5. \A k \in DOMAIN chips' : chips'[k].ws \in DOMAIN op.back.dirs
        BY <4>2, <4>4 DEF Housed
      <4> QED BY <2>1, <4>2, <4>4, <4>5 DEF Labelled
    <3> QED BY <1>15, <3>1, <3>2, <3>3
  <2> QED BY <2>2, <2>3
<1> QED BY <1>9, <1>10, <1>11, <1>12, <1>13, <1>14, <1>15 DEF Next

\* The initial state satisfies the inductive invariant.
LEMMA InitIInv == Init => IInv
<1> SUFFICES ASSUME Init PROVE IInv
  OBVIOUS
<1>1. TypeOK
  BY TypeInit
<1>2. Live = {} /\ DOMAIN chips = {} /\ DOMAIN dirs = {} /\ DOMAIN tasks = {} /\ Checkpoints = {} /\ op.pc = "idle"
  BY DEF Init, Live, Checkpoints, IdleOp
<1> QED BY <1>1, <1>2 DEF IInv, Alone, LiveNotWrittenOff, InStep, Agree, Apart, Labelled, OneWriter

\* Every step keeps it.
LEMMA IInvStep == IInv /\ [Next]_vars => IInv'
<1> SUFFICES ASSUME IInv, [Next]_vars PROVE IInv'
  OBVIOUS
<1>1. TypeOK /\ TypeOK'
  BY TypeStep DEF IInv
<1>2. Overlap \in BOOLEAN
  BY TasksAssumption DEF TasksAssumption
<1>3. ASSUME Overlap = FALSE PROVE (Alone /\ LiveNotWrittenOff /\ InStep)'
  BY <1>1, <1>3, AloneStep, WrittenOffStep, InStepStep DEF IInv
<1>4. ASSUME Overlap = FALSE, InPlace PROVE Apart'
  BY <1>1, <1>4, ApartStep DEF IInv
<1> QED BY <1>1, <1>2, <1>3, <1>4 DEF IInv, InPlace

\* The inductive invariant holds in every reachable state, for all constants.
THEOREM Invariance == Spec => []IInv
BY InitIInv, IInvStep, PTL DEF Spec

-----------------------------------------------------------------------------
(* What follows, in every reachable state.                                 *)

\* While a session's history is copied and cut and its workspaces are removed, no
\* task works in it (drain_session_background_tasks comes before the checkpoint
\* and the cut), when the session is used through one socket at a time.
THEOREM CutsAreQuiet ==
  ASSUME Overlap = FALSE
  PROVE  Spec => []CutIsQuiet
<1>1. IInv => CutIsQuiet
  BY DEF IInv, Alone, CutIsQuiet
<1> QED BY <1>1, Invariance, PTL

\* Reconciling the chips, at a reconnect or after a rewind, never writes off a task
\* that still runs (reconcile_task_ref_statuses with the ids of _bg_tasks).
THEOREM LiveTasksKeepTheirChips ==
  ASSUME Overlap = FALSE
  PROVE  Spec => []LiveNotWrittenOff
<1>1. IInv => LiveNotWrittenOff
  BY DEF IInv
<1> QED BY <1>1, Invariance, PTL

\* Every chip of the history names a workspace that is there and is its task's,
\* after any sequence of cuts, removals, restores and reuses
\* (_drop_task_workspaces_at_or_after, find_reusable_workspace).
THEOREM WorkspacesAreKept ==
  ASSUME Overlap = FALSE
  PROVE  Spec => []ChipsKeepTheirWorkspace
<1>1. IInv => ChipsKeepTheirWorkspace
  BY DEF IInv, InStep, Agree, ChipsKeepTheirWorkspace
<1> QED BY <1>1, Invariance, PTL

\* No two live tasks work in one directory: what reuse finds belongs to no live
\* task, for every live task of a turn has its chip (_dispatch_as_task).
THEOREM TasksWorkApart ==
  ASSUME Overlap = FALSE, InPlace
  PROVE  Spec => []OneWriter
<1>1. IInv => OneWriter
  BY DEF IInv, Apart
<1> QED BY <1>1, Invariance, PTL

\* What a completed task shows was made for what it was asked, however often its
\* directory was reused, restored or backfilled (session_store.py, "never a wrong
\* reuse"): with tools that work where they are put.
THEOREM ReuseIsRight ==
  ASSUME Overlap = FALSE, InPlace
  PROVE  Spec => []RightReuse
<1>1. IInv => RightReuse
  <2> SUFFICES ASSUME IInv, NEW k \in DOMAIN chips, dirs[tasks[k].work].there
               PROVE  dirs[tasks[k].work].made \subseteq {tasks[k].target}
    BY DEF RightReuse
  <2>1. TypeOK /\ Apart
    BY DEF IInv
  <2>2. tasks[k].work = tasks[k].ws
    BY <2>1, TypeFacts DEF Apart
  <2>3. chips[k].ws = tasks[k].ws /\ dirs[chips[k].ws].made \subseteq {tasks[k].target}
    BY <2>1 DEF Apart, Labelled
  <2> QED BY <2>2, <2>3
<1> QED BY <1>1, Invariance, PTL
=============================================================================
