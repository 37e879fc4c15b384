------------------------ MODULE ManagerSession_proofs ------------------------
(* Proofs about ManagerSession, for every number of connections, turns and  *)
(* widgets.                                                                  *)
EXTENDS ManagerSession, SequenceTheorems, FiniteSetTheorems, TLAPS

\* Removing a waiter from the lock's queue leaves a queue of waiters.
LEMMA WithoutType ==
  ASSUME NEW S, NEW q \in Seq(S), NEW x
  PROVE  Without(q, x) \in Seq(S)
<1>1. CASE \E i \in DOMAIN q : q[i] = x
  <2> DEFINE i == CHOOSE i \in DOMAIN q : q[i] = x
  <2>1. i \in 1..Len(q)
    BY <1>1
  <2>2. SubSeq(q, 1, i - 1) \in Seq(S) /\ SubSeq(q, i + 1, Len(q)) \in Seq(S)
    <3>1. 1 \in 1..Len(q) + 1 /\ i - 1 \in 1 - 1..Len(q)
      BY <2>1
    <3>2. i + 1 \in 1..Len(q) + 1 /\ Len(q) \in (i + 1) - 1..Len(q)
      BY <2>1
    <3> HIDE DEF i
    <3> QED
      BY <3>1, <3>2, SubSeqProperties
  <2> QED
    BY <1>1, <2>2 DEF Without, RemoveAt
<1>2. CASE ~ \E i \in DOMAIN q : q[i] = x
  BY <1>2 DEF Without
<1> QED
  BY <1>1, <1>2

\* The initial state satisfies the inductive invariant.
LEMMA InitIInv == Init => IInv
  BY ConstantsAssumption
  DEF Init, IInv, TypeOK, TasksInOrder, WidgetOnDisplay, TurnExclusion,
      QueueMadeByTurn, RewindAfterTurn, NoOrphanTurn, ActiveLive, Live, NoJob,
      Task, Widget, Locker, None, Pcs, Kinds, Handlers, Modes, InTurn

\* What Spawn does: a task that did not exist is created for connection c and
\* becomes its active task; every other task stays as it is.
LEMMA SpawnEffect ==
  ASSUME IInv, NEW c \in Conn, NEW k \in Kinds, NEW w \in Widget \cup {None},
         Spawn(c, k, w)
  PROVE  /\ created + 1 \in Task /\ pc[created + 1] = "none"
         /\ created' = created + 1 /\ created' \in 0..MaxTask
         /\ pc' \in [Task -> Pcs] /\ pc'[created + 1] = "created"
         /\ \A t \in Task : t # created + 1 =>
              pc'[t] = pc[t] /\ job'[t] = job[t]
         /\ job' \in [Task -> [owner: Conn \cup {None}, kind: Kinds,
                               subject: Widget \cup {None}]]
         /\ job'[created + 1].owner = c
         /\ activeTask' \in [Conn -> Task \cup {None}]
         /\ activeTask'[c] = created + 1
         /\ \A d \in Conn : d # c => activeTask'[d] = activeTask[d]
         /\ \A d \in Conn : activeTask[d] # created + 1
<1> USE ConstantsAssumption DEF IInv, TypeOK
<1>1. created + 1 \in Task /\ pc[created + 1] = "none"
  BY DEF Spawn, Task, TasksInOrder
<1>2. created' = created + 1 /\ created' \in 0..MaxTask
  BY DEF Spawn
<1>3. pc' \in [Task -> Pcs] /\ pc'[created + 1] = "created"
  BY <1>1 DEF Spawn, Pcs
<1>4. \A t \in Task : t # created + 1 => pc'[t] = pc[t] /\ job'[t] = job[t]
  BY DEF Spawn
<1>5. /\ job' \in [Task -> [owner: Conn \cup {None}, kind: Kinds,
                            subject: Widget \cup {None}]]
      /\ job'[created + 1].owner = c
  BY <1>1 DEF Spawn
<1>6. /\ activeTask' \in [Conn -> Task \cup {None}]
      /\ activeTask'[c] = created + 1
      /\ \A d \in Conn : d # c => activeTask'[d] = activeTask[d]
  BY <1>1 DEF Spawn
<1>7. ASSUME NEW d \in Conn PROVE activeTask[d] # created + 1
  <2>1. CASE activeTask[d] = None
    BY <2>1 DEF None
  <2>2. CASE activeTask[d] # None
    BY <2>2, <1>1 DEF TasksInOrder
  <2> QED
    BY <2>1, <2>2
<1> QED
  BY <1>1, <1>2, <1>3, <1>4, <1>5, <1>6, <1>7

\* A step that creates a task for c while cancelling c's active one keeps every
\* part of the invariant but typing.
LEMMA SpawnPreserves ==
  ASSUME IInv, NEW c \in Conn, NEW k \in Kinds, NEW w \in Widget \cup {None},
         Spawn(c, k, w), TypeOK',
         handler[c] \notin {"new", "gone"},
         handler' = [handler EXCEPT ![c] = "idle"],
         cancelReq' = cancelReq \cup ActiveLive(c),
         activeQueue' = activeQueue,
         holder' = holder \/ (holder = c /\ holder' = None)
  PROVE  IInv'
<1> DEFINE n == created + 1
<1>1. /\ n \in Task /\ pc[n] = "none" /\ created' = n
      /\ pc'[n] = "created" /\ job'[n].owner = c
      /\ \A t \in Task : t # n => pc'[t] = pc[t] /\ job'[t] = job[t]
      /\ activeTask'[c] = n
      /\ \A d \in Conn : d # c => activeTask'[d] = activeTask[d]
      /\ \A d \in Conn : activeTask[d] # n
  BY SpawnEffect
<1>2. at' = at
  BY DEF Spawn
<1>3. \A t \in Task : t \in Nat
  BY DEF Task
<1>4. created \in Nat /\ n = created + 1
  BY DEF IInv, TypeOK
<1>5. /\ activeTask \in [Conn -> Task \cup {None}]
      /\ activeQueue \in [Conn -> Task \cup {None}]
      /\ \A d \in Conn : handler'[d] = IF d = c THEN "idle" ELSE handler[d]
  BY DEF IInv, TypeOK
<1>6. /\ TasksInOrder /\ WidgetOnDisplay /\ TurnExclusion
      /\ QueueMadeByTurn /\ RewindAfterTurn /\ NoOrphanTurn
  BY DEF IInv
<1> HIDE DEF n
<1>7. TasksInOrder'
  <2>1. ASSUME NEW t \in Task PROVE t > created' <=> pc'[t] = "none"
    <3>1. CASE t = n
      <4>1. created' = n /\ pc'[n] = "created" /\ n \in Nat
        BY <1>1, <1>3
      <4> QED
        BY <3>1, <4>1
    <3>2. CASE t # n
      <4>1. /\ created' = created + 1 /\ pc'[t] = pc[t] /\ t \in Nat
            /\ t # created + 1 /\ (t > created <=> pc[t] = "none")
        BY <1>1, <1>3, <1>4, <1>6, <3>2 DEF TasksInOrder
      <4> QED
        BY <4>1, <1>4
    <3> QED
      BY <3>1, <3>2
  <2>2. ASSUME NEW t \in Task, pc'[t] # "none" PROVE job'[t].owner \in Conn
    BY <1>1, <1>6, <2>2 DEF TasksInOrder
  <2>3. ASSUME NEW d \in Conn, activeTask'[d] # None
        PROVE  pc'[activeTask'[d]] # "none"
    <3>1. CASE d = c
      BY <1>1, <3>1
    <3>2. CASE d # c
      BY <1>1, <1>5, <1>6, <2>3, <3>2 DEF TasksInOrder
    <3> QED
      BY <3>1, <3>2
  <2> QED
    BY <2>1, <2>2, <2>3 DEF TasksInOrder
<1>8. WidgetOnDisplay'
  BY <1>1, <1>2, <1>6 DEF WidgetOnDisplay
<1>9. TurnExclusion'
  BY <1>1, <1>3, <1>6, ConstantsAssumption
  DEF TurnExclusion, InTurn, None, Task
<1>10. QueueMadeByTurn'
  <2> SUFFICES ASSUME NEW d \in Conn, activeQueue[d] # None
               PROVE  /\ pc'[activeQueue[d]] \notin {"none", "created", "done"}
                      /\ job'[activeQueue[d]].owner = d
    BY DEF QueueMadeByTurn
  <2>1. /\ activeQueue[d] \in Task
        /\ pc[activeQueue[d]] \notin {"none", "created", "done"}
        /\ job[activeQueue[d]].owner = d
    BY <1>5, <1>6 DEF QueueMadeByTurn
  <2>2. activeQueue[d] # n
    BY <1>1, <2>1
  <2> QED
    BY <1>1, <2>1, <2>2
<1>11. RewindAfterTurn'
  <2> SUFFICES ASSUME NEW d \in Conn,
                      handler'[d] \in {"rewind", "truncate", "evict"}
               PROVE  ActiveLive(d)' = {}
    BY DEF RewindAfterTurn
  <2>1. d # c /\ handler'[d] = handler[d]
    BY <1>5
  <2>2. ActiveLive(d) = {}
    BY <1>6, <2>1 DEF RewindAfterTurn
  <2> QED
    BY <1>1, <2>1, <2>2 DEF ActiveLive, Live
<1>12. NoOrphanTurn'
  <2> SUFFICES ASSUME NEW t \in Task, t \notin cancelReq',
                      pc'[t] \in {"created", "waiting", "running",
                                  "emitting", "parked"}
               PROVE  /\ activeTask'[job'[t].owner] = t
                      /\ handler'[job'[t].owner] \notin {"new", "gone"}
    BY DEF NoOrphanTurn, InClient
  <2>1. CASE t = n
    BY <1>1, <1>5, <2>1 DEF InClient
  <2>2. CASE t # n
    <3>1. /\ pc'[t] = pc[t] /\ job'[t] = job[t] /\ t \notin cancelReq
          /\ activeTask[job[t].owner] = t /\ InClient(job[t].owner)
          /\ job[t].owner \in Conn
      <4>1. pc'[t] = pc[t] /\ job'[t] = job[t] /\ t \notin cancelReq
        BY <1>1, <2>2
      <4> QED
        BY <4>1, <1>6 DEF NoOrphanTurn, TasksInOrder
    <3>2. job[t].owner # c
      <4>1. t \notin ActiveLive(c)
        OBVIOUS
      <4> QED
        BY <3>1, <4>1 DEF ActiveLive, Live
    <3>3. /\ activeTask'[job[t].owner] = activeTask[job[t].owner]
          /\ handler'[job[t].owner] = handler[job[t].owner]
      BY <1>1, <1>5, <3>1, <3>2
    <3> QED
      BY <3>1, <3>3 DEF InClient
  <2> QED
    BY <2>1, <2>2
<1> QED
  BY <1>7, <1>8, <1>9, <1>10, <1>11, <1>12 DEF IInv

\* What a grant does: the head of the queue owns a lock nobody owned.
LEMMA GrantEffect ==
  ASSUME IInv, NEW x, Grant(x)
  PROVE  /\ x \in Locker /\ holder' = x /\ lockQueue' \in Seq(Locker)
         /\ \A t \in Task : pc[t] \notin InTurn
<1>1. lockQueue \in Seq(Locker) /\ lockQueue # <<>>
  BY DEF Grant, IInv, TypeOK
<1>2. Head(lockQueue) \in Locker /\ Tail(lockQueue) \in Seq(Locker)
  BY <1>1
<1>3. \A t \in Task : pc[t] \notin InTurn
  BY DEF Grant, IInv, TurnExclusion, None, Task
<1> QED
  BY <1>2, <1>3 DEF Grant

\* Writing a value of the range into a function keeps its type.
LEMMA UpdateType ==
  ASSUME NEW S, NEW T, NEW f \in [S -> T], NEW x, NEW v \in T
  PROVE  [f EXCEPT ![x] = v] \in [S -> T]
  OBVIOUS

\* Queues only ever hold what is put into them.
LEMMA AppendType ==
  ASSUME NEW S, NEW q \in Seq(S), NEW x \in S
  PROVE  Append(q, x) \in Seq(S)
  OBVIOUS

\* The invariant survives the init frame of a new connection.
LEMMA ConnectStep ==
  ASSUME IInv, NEW c \in Conn, Connect(c)
  PROVE  IInv'
<1> USE ConstantsAssumption
<1> USE DEF IInv, Connect, taskVars, connVars, clientVars, lockVars, diskVars,
      histVars
<1>1. TypeOK'
  BY DEF TypeOK, Pcs, Kinds, Handlers, Modes
<1>2. TasksInOrder'
  BY DEF TasksInOrder
<1>3. WidgetOnDisplay'
  BY DEF WidgetOnDisplay
<1>4. TurnExclusion'
  BY DEF TurnExclusion
<1>5. QueueMadeByTurn'
  BY DEF QueueMadeByTurn
<1>6. RewindAfterTurn'
  BY DEF RewindAfterTurn, ActiveLive, Live
<1>7. NoOrphanTurn'
  BY DEF NoOrphanTurn, InClient
<1> QED
  BY <1>1, <1>2, <1>3, <1>4, <1>5, <1>6, <1>7

\* The invariant survives closing a socket.
LEMMA DisconnectStep ==
  ASSUME IInv, NEW c \in Conn, Disconnect(c)
  PROVE  IInv'
<1> USE ConstantsAssumption
<1> USE DEF IInv, Disconnect, taskVars, connVars, clientVars, lockVars,
      diskVars, histVars
<1>1. TypeOK'
  BY DEF TypeOK, Pcs, Kinds, Handlers, Modes, Close, ActiveLive, Live
<1>2. TasksInOrder'
  BY DEF TasksInOrder, Close
<1>3. WidgetOnDisplay'
  BY DEF WidgetOnDisplay, Close
<1>4. TurnExclusion'
  BY DEF TurnExclusion, Close
<1>5. QueueMadeByTurn'
  BY DEF QueueMadeByTurn, Close
<1>6. RewindAfterTurn'
  BY DEF RewindAfterTurn, Close, ActiveLive, Live
<1>7. NoOrphanTurn'
  BY DEF NoOrphanTurn, Close, ActiveLive, Live, InClient
<1> QED
  BY <1>1, <1>2, <1>3, <1>4, <1>5, <1>6, <1>7

\* The invariant survives a message frame.
LEMMA MessageStep ==
  ASSUME IInv, NEW c \in Conn, Message(c)
  PROVE  IInv'
<1> USE ConstantsAssumption
<1> USE DEF IInv, Message, taskVars, connVars, clientVars, lockVars, diskVars,
      histVars
<1>1. "message" \in Kinds /\ None \in Widget \cup {None} /\ Spawn(c, "message", None)
  BY DEF Kinds, TypeOK
<1>2. /\ created' \in 0..MaxTask /\ pc' \in [Task -> Pcs]
      /\ job' \in [Task -> [owner: Conn \cup {None}, kind: Kinds,
                            subject: Widget \cup {None}]]
      /\ activeTask' \in [Conn -> Task \cup {None}]
  BY <1>1, SpawnEffect
<1>3. at' = at /\ inbox' = inbox /\ stamp' = stamp /\ turn' = turn
  BY <1>1 DEF Spawn
<1>4. ActiveLive(c) \subseteq Task
  BY DEF ActiveLive
<1>5. TypeOK'
  BY <1>2, <1>3, <1>4 DEF TypeOK
<1>6. /\ handler[c] \notin {"new", "gone"}
      /\ handler' = [handler EXCEPT ![c] = "idle"]
      /\ cancelReq' = cancelReq \cup ActiveLive(c)
      /\ activeQueue' = activeQueue
      /\ holder' = holder \/ (holder = c /\ holder' = None)
  BY DEF TypeOK
<1> QED
  BY <1>1, <1>5, <1>6, SpawnPreserves

\* The invariant survives a cancel frame.
LEMMA CancelStep ==
  ASSUME IInv, NEW c \in Conn, Cancel(c)
  PROVE  IInv'
<1> USE ConstantsAssumption
<1> USE DEF IInv, Cancel, taskVars, connVars, clientVars, lockVars, diskVars,
      histVars
<1>1. TypeOK'
  BY DEF TypeOK, ActiveLive, Live
<1>2. TasksInOrder'
  BY DEF TasksInOrder
<1>3. WidgetOnDisplay'
  BY DEF WidgetOnDisplay
<1>4. TurnExclusion'
  BY DEF TurnExclusion
<1>5. QueueMadeByTurn'
  BY DEF QueueMadeByTurn
<1>6. RewindAfterTurn'
  BY DEF RewindAfterTurn, ActiveLive, Live
<1>7. NoOrphanTurn'
  BY DEF NoOrphanTurn, InClient
<1> QED
  BY <1>1, <1>2, <1>3, <1>4, <1>5, <1>6, <1>7

\* The invariant survives an answer put into a live turn's queue.
LEMMA AnswerLiveStep ==
  ASSUME IInv, NEW c \in Conn, AnswerLive(c)
  PROVE  IInv'
<1> USE ConstantsAssumption
<1> USE DEF IInv, AnswerLive, taskVars, connVars, clientVars, lockVars,
      diskVars, histVars
<1>1. TypeOK'
  BY AppendType DEF TypeOK
<1>2. TasksInOrder'
  BY DEF TasksInOrder
<1>3. WidgetOnDisplay'
  BY DEF WidgetOnDisplay
<1>4. TurnExclusion'
  BY DEF TurnExclusion
<1>5. QueueMadeByTurn'
  BY DEF QueueMadeByTurn
<1>6. RewindAfterTurn'
  BY DEF RewindAfterTurn, ActiveLive, Live
<1>7. NoOrphanTurn'
  BY DEF NoOrphanTurn, InClient
<1> QED
  BY <1>1, <1>2, <1>3, <1>4, <1>5, <1>6, <1>7

\* The invariant survives an answer that recovers from the durable marker.
LEMMA AnswerRecoversStep ==
  ASSUME IInv, NEW c \in Conn, AnswerRecovers(c)
  PROVE  IInv'
<1> USE ConstantsAssumption
<1> USE DEF IInv, AnswerRecovers, taskVars, connVars, clientVars, lockVars,
      diskVars, histVars
<1>1. "recovery" \in Kinds /\ marker \in Widget \cup {None} /\ Spawn(c, "recovery", marker)
  BY DEF Kinds, TypeOK, Recover
<1>2. /\ created' \in 0..MaxTask /\ pc' \in [Task -> Pcs]
      /\ job' \in [Task -> [owner: Conn \cup {None}, kind: Kinds,
                            subject: Widget \cup {None}]]
      /\ activeTask' \in [Conn -> Task \cup {None}]
  BY <1>1, SpawnEffect
<1>3. at' = at /\ inbox' = inbox /\ stamp' = stamp /\ turn' = turn
  BY <1>1 DEF Spawn
<1>4. ActiveLive(c) \subseteq Task
  BY DEF ActiveLive
<1>5. TypeOK'
  BY <1>2, <1>3, <1>4 DEF TypeOK, Recover
<1>6. /\ handler[c] \notin {"new", "gone"}
      /\ handler' = [handler EXCEPT ![c] = "idle"]
      /\ cancelReq' = cancelReq \cup ActiveLive(c)
      /\ activeQueue' = activeQueue
      /\ holder' = holder \/ (holder = c /\ holder' = None)
  BY DEF TypeOK, Recover
<1> QED
  BY <1>1, <1>5, <1>6, SpawnPreserves

\* The invariant survives an answer that is refused.
LEMMA AnswerDroppedStep ==
  ASSUME IInv, NEW c \in Conn, AnswerDropped(c)
  PROVE  IInv'
<1> USE ConstantsAssumption
<1> USE DEF IInv, AnswerDropped, taskVars, connVars, clientVars, lockVars,
      diskVars, histVars
<1>1. TypeOK'
  BY DEF TypeOK
<1>2. TasksInOrder'
  BY DEF TasksInOrder
<1>3. WidgetOnDisplay'
  BY DEF WidgetOnDisplay
<1>4. TurnExclusion'
  BY DEF TurnExclusion
<1>5. QueueMadeByTurn'
  BY DEF QueueMadeByTurn
<1>6. RewindAfterTurn'
  BY DEF RewindAfterTurn, ActiveLive, Live
<1>7. NoOrphanTurn'
  BY DEF NoOrphanTurn, InClient
<1> QED
  BY <1>1, <1>2, <1>3, <1>4, <1>5, <1>6, <1>7

\* The invariant survives a hub confirmation put into a live turn's queue.
LEMMA ConfirmLiveStep ==
  ASSUME IInv, NEW c \in Conn, ConfirmLive(c)
  PROVE  IInv'
<1> USE ConstantsAssumption
<1> USE DEF IInv, ConfirmLive, taskVars, connVars, clientVars, lockVars,
      diskVars, histVars
<1>1. TypeOK'
  BY AppendType DEF TypeOK
<1>2. TasksInOrder'
  BY DEF TasksInOrder
<1>3. WidgetOnDisplay'
  BY DEF WidgetOnDisplay
<1>4. TurnExclusion'
  BY DEF TurnExclusion
<1>5. QueueMadeByTurn'
  BY DEF QueueMadeByTurn
<1>6. RewindAfterTurn'
  BY DEF RewindAfterTurn, ActiveLive, Live
<1>7. NoOrphanTurn'
  BY DEF NoOrphanTurn, InClient
<1> QED
  BY <1>1, <1>2, <1>3, <1>4, <1>5, <1>6, <1>7

\* The invariant survives a hub confirmation that recovers from the marker.
LEMMA ConfirmRecoversStep ==
  ASSUME IInv, NEW c \in Conn, ConfirmRecovers(c)
  PROVE  IInv'
<1> USE ConstantsAssumption
<1> USE DEF IInv, ConfirmRecovers, taskVars, connVars, clientVars, lockVars,
      diskVars, histVars
<1>1. "recovery" \in Kinds /\ marker \in Widget \cup {None} /\ Spawn(c, "recovery", marker)
  BY DEF Kinds, TypeOK, Recover
<1>2. /\ created' \in 0..MaxTask /\ pc' \in [Task -> Pcs]
      /\ job' \in [Task -> [owner: Conn \cup {None}, kind: Kinds,
                            subject: Widget \cup {None}]]
      /\ activeTask' \in [Conn -> Task \cup {None}]
  BY <1>1, SpawnEffect
<1>3. at' = at /\ inbox' = inbox /\ stamp' = stamp /\ turn' = turn
  BY <1>1 DEF Spawn
<1>4. ActiveLive(c) \subseteq Task
  BY DEF ActiveLive
<1>5. TypeOK'
  BY <1>2, <1>3, <1>4 DEF TypeOK, Recover
<1>6. /\ handler[c] \notin {"new", "gone"}
      /\ handler' = [handler EXCEPT ![c] = "idle"]
      /\ cancelReq' = cancelReq \cup ActiveLive(c)
      /\ activeQueue' = activeQueue
      /\ holder' = holder \/ (holder = c /\ holder' = None)
  BY DEF TypeOK, Recover
<1> QED
  BY <1>1, <1>5, <1>6, SpawnPreserves

\* The invariant survives a hub confirmation that ends the receive loop.
LEMMA ConfirmUnboundStep ==
  ASSUME IInv, NEW c \in Conn, ConfirmUnbound(c)
  PROVE  IInv'
<1> USE ConstantsAssumption
<1> USE DEF IInv, ConfirmUnbound, taskVars, connVars, clientVars, lockVars,
      diskVars, histVars
<1>1. TypeOK'
  BY DEF TypeOK, Pcs, Kinds, Handlers, Modes, Close, ActiveLive, Live
<1>2. TasksInOrder'
  BY DEF TasksInOrder, Close
<1>3. WidgetOnDisplay'
  BY DEF WidgetOnDisplay, Close
<1>4. TurnExclusion'
  BY DEF TurnExclusion, Close
<1>5. QueueMadeByTurn'
  BY DEF QueueMadeByTurn, Close
<1>6. RewindAfterTurn'
  BY DEF RewindAfterTurn, Close, ActiveLive, Live
<1>7. NoOrphanTurn'
  BY DEF NoOrphanTurn, Close, ActiveLive, Live, InClient
<1> QED
  BY <1>1, <1>2, <1>3, <1>4, <1>5, <1>6, <1>7

\* The invariant survives the cancellation every rewinding frame begins with.
LEMMA RewindStep ==
  ASSUME IInv, NEW c \in Conn, NEW m \in Modes, Rewind(c, m)
  PROVE  IInv'
<1> USE ConstantsAssumption
<1> USE DEF IInv, Rewind, taskVars, connVars, clientVars, lockVars, diskVars,
      histVars
<1>1. TypeOK'
  BY DEF TypeOK, Pcs, Kinds, Handlers, Modes, ActiveLive, Live
<1>2. TasksInOrder'
  BY DEF TasksInOrder
<1>3. WidgetOnDisplay'
  BY DEF WidgetOnDisplay
<1>4. TurnExclusion'
  BY DEF TurnExclusion
<1>5. QueueMadeByTurn'
  BY DEF QueueMadeByTurn
<1>6. RewindAfterTurn'
  BY DEF RewindAfterTurn, ActiveLive, Live
<1>7. NoOrphanTurn'
  BY DEF NoOrphanTurn, InClient
<1> QED
  BY <1>1, <1>2, <1>3, <1>4, <1>5, <1>6, <1>7

\* The invariant survives the end of the quiesce step of a turn resume.
LEMMA QuiescedForTurnStep ==
  ASSUME IInv, NEW c \in Conn, QuiescedForTurn(c)
  PROVE  IInv'
<1> USE ConstantsAssumption
<1> USE DEF IInv, QuiescedForTurn, taskVars, connVars, clientVars, lockVars,
      diskVars, histVars
<1>1. TypeOK'
  BY AppendType DEF TypeOK, Task, Widget, Locker, None, Pcs, Kinds, Handlers,
      Modes, Quiesced, Wants
<1>2. TasksInOrder'
  BY DEF TasksInOrder, Quiesced, Wants
<1>3. WidgetOnDisplay'
  BY DEF WidgetOnDisplay, Quiesced, Wants
<1>4. TurnExclusion'
  BY DEF TurnExclusion, Quiesced, Wants
<1>5. QueueMadeByTurn'
  BY DEF QueueMadeByTurn, Quiesced, Wants
<1>6. RewindAfterTurn'
  BY DEF RewindAfterTurn, Quiesced, Wants, ActiveLive, Live
<1>7. NoOrphanTurn'
  BY DEF NoOrphanTurn, Quiesced, Wants, InClient
<1> QED
  BY <1>1, <1>2, <1>3, <1>4, <1>5, <1>6, <1>7

\* The invariant survives the end of the quiesce step of a round resume.
LEMMA QuiescedForRoundStep ==
  ASSUME IInv, NEW c \in Conn, QuiescedForRound(c)
  PROVE  IInv'
<1> USE ConstantsAssumption
<1> USE DEF IInv, QuiescedForRound, taskVars, connVars, clientVars, lockVars,
      diskVars, histVars
<1>1. TypeOK'
  BY DEF TypeOK, Pcs, Kinds, Handlers, Modes, Quiesced
<1>2. TasksInOrder'
  BY DEF TasksInOrder, Quiesced
<1>3. WidgetOnDisplay'
  BY DEF WidgetOnDisplay, Quiesced
<1>4. TurnExclusion'
  BY DEF TurnExclusion, Quiesced
<1>5. QueueMadeByTurn'
  BY DEF QueueMadeByTurn, Quiesced
<1>6. RewindAfterTurn'
  BY DEF RewindAfterTurn, Quiesced, ActiveLive, Live
<1>7. NoOrphanTurn'
  BY DEF NoOrphanTurn, Quiesced, InClient
<1> QED
  BY <1>1, <1>2, <1>3, <1>4, <1>5, <1>6, <1>7

\* The invariant survives the end of the quiesce step of an evolution_complete.
LEMMA QuiescedForHubStep ==
  ASSUME IInv, NEW c \in Conn, QuiescedForHub(c)
  PROVE  IInv'
<1> USE ConstantsAssumption
<1> USE DEF IInv, QuiescedForHub, taskVars, connVars, clientVars, lockVars,
      diskVars, histVars
<1>1. "message" \in Kinds /\ None \in Widget \cup {None} /\ Spawn(c, "message", None)
  BY DEF Kinds, TypeOK, Quiesced
<1>2. /\ created' \in 0..MaxTask /\ pc' \in [Task -> Pcs]
      /\ job' \in [Task -> [owner: Conn \cup {None}, kind: Kinds,
                            subject: Widget \cup {None}]]
      /\ activeTask' \in [Conn -> Task \cup {None}]
  BY <1>1, SpawnEffect
<1>3. at' = at /\ inbox' = inbox /\ stamp' = stamp /\ turn' = turn
  BY <1>1 DEF Spawn
<1>4. ActiveLive(c) \subseteq Task
  BY DEF ActiveLive
<1>5. TypeOK'
  BY <1>2, <1>3, <1>4 DEF TypeOK, Handlers, Modes, Quiesced
<1>6. /\ handler[c] \notin {"new", "gone"}
      /\ handler' = [handler EXCEPT ![c] = "idle"]
      /\ cancelReq' = cancelReq \cup ActiveLive(c)
      /\ activeQueue' = activeQueue
      /\ holder' = holder \/ (holder = c /\ holder' = None)
  BY DEF TypeOK, Quiesced
<1> QED
  BY <1>1, <1>5, <1>6, SpawnPreserves

\* The invariant survives granting the lock to a receive loop.
LEMMA GrantHandlerStep ==
  ASSUME IInv, NEW c \in Conn, GrantHandler(c)
  PROVE  IInv'
<1> USE ConstantsAssumption
<1> USE DEF IInv, GrantHandler, taskVars, connVars, clientVars, lockVars,
      diskVars, histVars
<1>1. TypeOK'
  BY GrantEffect DEF TypeOK, Grant
<1>2. TasksInOrder'
  BY DEF TasksInOrder, Grant
<1>3. WidgetOnDisplay'
  BY DEF WidgetOnDisplay, Grant
<1>4. TurnExclusion'
  <2>1. \A u \in Task : pc[u] \notin InTurn
    BY GrantEffect
  <2>2. holder' = c /\ \A u \in Task : u # c
    BY DEF Grant, Task
  <2> QED
    BY <2>1, <2>2 DEF TurnExclusion
<1>5. QueueMadeByTurn'
  BY DEF QueueMadeByTurn, Grant
<1>6. RewindAfterTurn'
  BY DEF RewindAfterTurn, Grant, ActiveLive, Live
<1>7. NoOrphanTurn'
  BY DEF NoOrphanTurn, Grant, InClient
<1> QED
  BY <1>1, <1>2, <1>3, <1>4, <1>5, <1>6, <1>7

\* The invariant survives a successful rewind.
LEMMA RewoundStep ==
  ASSUME IInv, NEW c \in Conn, Rewound(c)
  PROVE  IInv'
<1> USE ConstantsAssumption
<1> USE DEF IInv, Rewound, taskVars, connVars, clientVars, lockVars, diskVars,
      histVars
<1>1. TypeOK'
  BY DEF TypeOK, Pcs, Kinds, Handlers, Modes
<1>2. TasksInOrder'
  BY DEF TasksInOrder
<1>3. WidgetOnDisplay'
  BY DEF WidgetOnDisplay
<1>4. TurnExclusion'
  BY DEF TurnExclusion, Task, Locker, None
<1>5. QueueMadeByTurn'
  BY DEF QueueMadeByTurn
<1>6. RewindAfterTurn'
  BY DEF RewindAfterTurn, ActiveLive, Live
<1>7. NoOrphanTurn'
  BY DEF NoOrphanTurn, InClient
<1> QED
  BY <1>1, <1>2, <1>3, <1>4, <1>5, <1>6, <1>7

\* The invariant survives a rewind that raises.
LEMMA RewindRaisesStep ==
  ASSUME IInv, NEW c \in Conn, RewindRaises(c)
  PROVE  IInv'
<1> USE ConstantsAssumption
<1> USE DEF IInv, RewindRaises, taskVars, connVars, clientVars, lockVars,
      diskVars, histVars
<1>1. TypeOK'
  BY DEF TypeOK, Pcs, Kinds, Handlers, Modes
<1>2. TasksInOrder'
  BY DEF TasksInOrder
<1>3. WidgetOnDisplay'
  BY DEF WidgetOnDisplay
<1>4. TurnExclusion'
  BY DEF TurnExclusion, Task, Locker, None
<1>5. QueueMadeByTurn'
  BY DEF QueueMadeByTurn
<1>6. RewindAfterTurn'
  BY DEF RewindAfterTurn, ActiveLive, Live
<1>7. NoOrphanTurn'
  BY DEF NoOrphanTurn, InClient
<1> QED
  BY <1>1, <1>2, <1>3, <1>4, <1>5, <1>6, <1>7

\* The invariant survives the return of the truncating thread.
LEMMA TruncatedStep ==
  ASSUME IInv, NEW c \in Conn, Truncated(c)
  PROVE  IInv'
<1> USE ConstantsAssumption
<1> USE DEF IInv, Truncated, taskVars, connVars, clientVars, lockVars,
      diskVars, histVars
<1>1. TypeOK'
  <2> USE DEF TypeOK
  <2>1. dirs' \in Nat
    OBVIOUS
  <2>2. marker' \in Widget \cup {None}
    OBVIOUS
  <2>3. cancelReq' \subseteq Task
    OBVIOUS
  <2>4. handler' \in [Conn -> Handlers]
    BY DEF Handlers
  <2>5. /\ holder' \in Locker \cup {None}
        /\ lockQueue' \in Seq(Locker)
    BY AppendType DEF Wants, Locker
  <2>6. UNCHANGED <<created, pc, job, at, inbox, stamp,
                  turn, mode, activeTask, activeQueue, cache, jsonBound,
                  shown, busy, emitted, appliedLive, recoveries>>
    OBVIOUS
  <2> QED
    BY <2>1, <2>2, <2>3, <2>4, <2>5, <2>6
<1>2. TasksInOrder'
  BY DEF TasksInOrder, Wants
<1>3. WidgetOnDisplay'
  BY DEF WidgetOnDisplay, Wants
<1>4. TurnExclusion'
  BY DEF TurnExclusion, Wants
<1>5. QueueMadeByTurn'
  BY DEF QueueMadeByTurn, Wants
<1>6. RewindAfterTurn'
  BY DEF RewindAfterTurn, Wants, ActiveLive, Live
<1>7. NoOrphanTurn'
  BY DEF NoOrphanTurn, Wants, InClient
<1> QED
  BY <1>1, <1>2, <1>3, <1>4, <1>5, <1>6, <1>7

\* The invariant survives an eviction under the lock.
LEMMA EvictedStep ==
  ASSUME IInv, NEW c \in Conn, Evicted(c)
  PROVE  IInv'
<1> USE ConstantsAssumption
<1> USE DEF IInv, Evicted, taskVars, connVars, clientVars, lockVars, diskVars,
      histVars
<1> DEFINE k == IF mode[c] = "turn" THEN "message" ELSE "round"
<1>1. k \in Kinds /\ None \in Widget \cup {None} /\ Spawn(c, k, None)
  BY DEF Kinds, TypeOK, RunAgain
<1>2. /\ created' \in 0..MaxTask /\ pc' \in [Task -> Pcs]
      /\ job' \in [Task -> [owner: Conn \cup {None}, kind: Kinds,
                            subject: Widget \cup {None}]]
      /\ activeTask' \in [Conn -> Task \cup {None}]
  BY <1>1, SpawnEffect
<1>3. at' = at /\ inbox' = inbox /\ stamp' = stamp /\ turn' = turn
  BY <1>1 DEF Spawn
<1>4. ActiveLive(c) \subseteq Task
  BY DEF ActiveLive
<1>5. TypeOK'
  BY <1>2, <1>3, <1>4 DEF TypeOK, Handlers, Modes, RunAgain
<1>6. /\ handler[c] \notin {"new", "gone"}
      /\ handler' = [handler EXCEPT ![c] = "idle"]
      /\ cancelReq' = cancelReq \cup ActiveLive(c)
      /\ activeQueue' = activeQueue
      /\ holder' = holder \/ (holder = c /\ holder' = None)
  BY DEF TypeOK, RunAgain, RewindAfterTurn
<1> QED
  BY <1>1, <1>5, <1>6, SpawnPreserves

\* The invariant survives an eviction without the lock.
LEMMA EvictTimeoutStep ==
  ASSUME IInv, NEW c \in Conn, EvictTimeout(c)
  PROVE  IInv'
<1> USE ConstantsAssumption
<1> USE DEF IInv, EvictTimeout, taskVars, connVars, clientVars, lockVars,
      diskVars, histVars
<1> DEFINE k == IF mode[c] = "turn" THEN "message" ELSE "round"
<1>1. k \in Kinds /\ None \in Widget \cup {None} /\ Spawn(c, k, None)
  BY DEF Kinds, TypeOK, RunAgain
<1>2. /\ created' \in 0..MaxTask /\ pc' \in [Task -> Pcs]
      /\ job' \in [Task -> [owner: Conn \cup {None}, kind: Kinds,
                            subject: Widget \cup {None}]]
      /\ activeTask' \in [Conn -> Task \cup {None}]
  BY <1>1, SpawnEffect
<1>3. at' = at /\ inbox' = inbox /\ stamp' = stamp /\ turn' = turn
  BY <1>1 DEF Spawn
<1>4. ActiveLive(c) \subseteq Task
  BY DEF ActiveLive
<1>5. TypeOK'
  BY <1>2, <1>3, <1>4, WithoutType DEF TypeOK, Handlers, Modes, RunAgain
<1>6. /\ handler[c] \notin {"new", "gone"}
      /\ handler' = [handler EXCEPT ![c] = "idle"]
      /\ cancelReq' = cancelReq \cup ActiveLive(c)
      /\ activeQueue' = activeQueue
      /\ holder' = holder \/ (holder = c /\ holder' = None)
  BY DEF TypeOK, RunAgain, RewindAfterTurn
<1> QED
  BY <1>1, <1>5, <1>6, SpawnPreserves

\* The invariant survives the first step of a turn task.
LEMMA StartStep ==
  ASSUME IInv, NEW t \in Task, Start(t)
  PROVE  IInv'
<1> USE ConstantsAssumption
<1> USE DEF IInv, Start, taskVars, connVars, clientVars, lockVars, diskVars,
      histVars
<1>1. TypeOK'
  <2> USE DEF TypeOK
  <2>1. pc' \in [Task -> Pcs]
    BY DEF Pcs
  <2>2. stamp' \in [Task -> Nat]
    OBVIOUS
  <2>3. busy' \in [Conn -> BOOLEAN]
    BY DEF InClient
  <2>4. activeQueue' \in [Conn -> Task \cup {None}]
    OBVIOUS
  <2>5. /\ holder' \in Locker \cup {None}
        /\ lockQueue' \in Seq(Locker)
    BY AppendType DEF Wants, Locker
  <2>6. UNCHANGED <<created, job, at, inbox, cancelReq, turn,
                  handler, mode, activeTask, cache, jsonBound, shown,
                  marker, dirs, emitted, appliedLive, recoveries>>
    OBVIOUS
  <2> QED
    BY <2>1, <2>2, <2>3, <2>4, <2>5, <2>6
<1>2. TasksInOrder'
  BY DEF TasksInOrder, Wants
<1>3. WidgetOnDisplay'
  BY DEF WidgetOnDisplay, Wants
<1>4. TurnExclusion'
  BY DEF TurnExclusion, InTurn, Wants
<1>5. QueueMadeByTurn'
  BY DEF QueueMadeByTurn, TypeOK, Wants
<1>6. RewindAfterTurn'
  BY DEF RewindAfterTurn, Wants, ActiveLive, Live
<1>7. NoOrphanTurn'
  BY DEF NoOrphanTurn, Wants, InClient
<1> QED
  BY <1>1, <1>2, <1>3, <1>4, <1>5, <1>6, <1>7

\* The invariant survives a turn task without a backend.
LEMMA StartFailsStep ==
  ASSUME IInv, NEW t \in Task, StartFails(t)
  PROVE  IInv'
<1> USE ConstantsAssumption
<1> USE DEF IInv, StartFails, taskVars, connVars, clientVars, lockVars,
      diskVars, histVars
<1>1. TypeOK'
  <2> USE DEF TypeOK
  <2>1. pc' \in [Task -> Pcs]
    BY DEF Pcs
  <2>2. stamp' \in [Task -> Nat]
    OBVIOUS
  <2>3. busy' \in [Conn -> BOOLEAN]
    BY DEF InClient
  <2>4. UNCHANGED <<created, job, at, inbox, cancelReq, turn,
                  handler, mode, activeTask, activeQueue, cache, jsonBound,
                  shown, holder, lockQueue, marker, dirs, emitted,
                  appliedLive, recoveries>>
    OBVIOUS
  <2> QED
    BY <2>1, <2>2, <2>3, <2>4
<1>2. TasksInOrder'
  BY DEF TasksInOrder
<1>3. WidgetOnDisplay'
  BY DEF WidgetOnDisplay
<1>4. TurnExclusion'
  BY DEF TurnExclusion, InTurn
<1>5. QueueMadeByTurn'
  BY DEF QueueMadeByTurn
<1>6. RewindAfterTurn'
  BY DEF RewindAfterTurn, ActiveLive, Live
<1>7. NoOrphanTurn'
  BY DEF NoOrphanTurn, InClient
<1> QED
  BY <1>1, <1>2, <1>3, <1>4, <1>5, <1>6, <1>7

\* The invariant survives granting the lock to a turn.
LEMMA GrantTurnStep ==
  ASSUME IInv, NEW t \in Task, GrantTurn(t)
  PROVE  IInv'
<1> USE ConstantsAssumption
<1> USE DEF IInv, GrantTurn, taskVars, connVars, clientVars, lockVars,
      diskVars, histVars
<1>1. TypeOK'
  <2> USE DEF TypeOK
  <2>1. pc' \in [Task -> Pcs]
    BY DEF Pcs
  <2>2. /\ holder' \in Locker \cup {None}
        /\ lockQueue' \in Seq(Locker)
    BY GrantEffect
  <2>3. dirs' \in Nat
    OBVIOUS
  <2>4. turn' \in [Task -> Nat]
    <3>1. CASE job[t].kind = "message"
      <4>1. turn' = [turn EXCEPT ![t] = dirs + 1] /\ dirs + 1 \in Nat
        BY <3>1
      <4> QED
        BY <4>1
    <3>2. CASE job[t].kind # "message"
      BY <3>2
    <3> QED
      BY <3>1, <3>2
  <2>5. recoveries' \in [Widget -> Nat]
    <3> DEFINE add(w) == IF job[t].kind = "recovery" /\ job[t].subject = w
                         THEN 1 ELSE 0
    <3>1. recoveries' = [w \in Widget |-> recoveries[w] + add(w)]
      OBVIOUS
    <3>2. \A w \in Widget : recoveries[w] \in Nat /\ add(w) \in Nat
      OBVIOUS
    <3> HIDE DEF add
    <3>3. \A w \in Widget : recoveries[w] + add(w) \in Nat
      BY <3>2
    <3> QED
      BY <3>1, <3>3
  <2>6. UNCHANGED <<created, job, at, inbox, cancelReq, stamp,
                  handler, mode, activeTask, activeQueue, cache, jsonBound,
                  shown, busy, marker, emitted, appliedLive>>
    OBVIOUS
  <2> QED
    BY <2>1, <2>2, <2>3, <2>4, <2>5, <2>6
<1>2. TasksInOrder'
  BY DEF TasksInOrder, Grant
<1>3. WidgetOnDisplay'
  BY DEF WidgetOnDisplay, Grant
<1>4. TurnExclusion'
  BY DEF TurnExclusion, TypeOK, Task, Locker, None, InTurn, Grant
<1>5. QueueMadeByTurn'
  BY DEF QueueMadeByTurn, Grant
<1>6. RewindAfterTurn'
  <2> SUFFICES ASSUME NEW d \in Conn,
                      handler[d] \in {"rewind", "truncate", "evict"}
               PROVE  ActiveLive(d)' = {}
    BY DEF RewindAfterTurn
  <2>1. ActiveLive(d) = {}
    BY DEF RewindAfterTurn
  <2>2. Live(t)
    BY DEF Live
  <2>3. \A u \in Task : Live(u)' => Live(u)
    BY <2>2 DEF Live, TypeOK
  <2> QED
    BY <2>1, <2>3 DEF ActiveLive
<1>7. NoOrphanTurn'
  BY DEF NoOrphanTurn, Grant, InClient
<1> QED
  BY <1>1, <1>2, <1>3, <1>4, <1>5, <1>6, <1>7

\* The invariant survives showing a widget.
LEMMA EmitStep ==
  ASSUME IInv, NEW t \in Task, Emit(t)
  PROVE  IInv'
<1> USE ConstantsAssumption
<1> USE DEF IInv, Emit, taskVars, connVars, clientVars, lockVars, diskVars,
      histVars
<1>1. TypeOK'
  <2> USE DEF TypeOK
  <2>1. emitted' \in 0..MaxWidget
    OBVIOUS
  <2>2. at' \in [Task -> Widget \cup {None}]
    BY DEF Widget
  <2>3. cache' \in [Conn -> SUBSET Widget]
    BY DEF Widget, TasksInOrder
  <2>4. shown' \in [Conn -> Widget \cup {None}]
    <3>1. emitted + 1 \in Widget
      BY DEF Widget
    <3>2. CASE InClient(job[t].owner)
      <4>1. shown' = [shown EXCEPT ![job[t].owner] =
                        IF InClient(job[t].owner) THEN emitted + 1 ELSE @]
        OBVIOUS
      <4>2. shown' = [shown EXCEPT ![job[t].owner] = emitted + 1]
        BY <3>2, <4>1
      <4>3. shown \in [Conn -> Widget \cup {None}]
        OBVIOUS
      <4> HIDE DEF Emit, TypeOK
      <4> QED
        BY <3>1, <4>2, <4>3, UpdateType
    <3>3. CASE ~InClient(job[t].owner)
      <4>1. shown' = [shown EXCEPT ![job[t].owner] =
                        IF InClient(job[t].owner) THEN emitted + 1 ELSE @]
        OBVIOUS
      <4>2. shown' = [shown EXCEPT ![job[t].owner] = @]
        BY <3>3, <4>1
      <4> QED
        BY <4>2
    <3> QED
      BY <3>2, <3>3
  <2>5. pc' \in [Task -> Pcs]
    BY DEF Pcs
  <2>6. UNCHANGED <<created, job, inbox, cancelReq, stamp, turn,
                  handler, mode, activeTask, activeQueue, jsonBound, busy,
                  holder, lockQueue, marker, dirs, appliedLive, recoveries>>
    OBVIOUS
  <2> QED
    BY <2>1, <2>2, <2>3, <2>4, <2>5, <2>6
<1>2. TasksInOrder'
  BY DEF TasksInOrder
<1>3. WidgetOnDisplay'
  BY DEF WidgetOnDisplay, TypeOK, Task, Widget, None
<1>4. TurnExclusion'
  BY DEF TurnExclusion, InTurn
<1>5. QueueMadeByTurn'
  BY DEF QueueMadeByTurn
<1>6. RewindAfterTurn'
  BY DEF RewindAfterTurn, ActiveLive, Live
<1>7. NoOrphanTurn'
  BY DEF NoOrphanTurn, InClient
<1> QED
  BY <1>1, <1>2, <1>3, <1>4, <1>5, <1>6, <1>7

\* The invariant survives writing the durable marker.
LEMMA PersistStep ==
  ASSUME IInv, NEW t \in Task, Persist(t)
  PROVE  IInv'
<1> USE ConstantsAssumption
<1> USE DEF IInv, Persist, taskVars, connVars, clientVars, lockVars, diskVars,
      histVars
<1>1. TypeOK'
  BY DEF TypeOK, Pcs, Kinds, Handlers, Modes
<1>2. TasksInOrder'
  BY DEF TasksInOrder
<1>3. WidgetOnDisplay'
  BY DEF WidgetOnDisplay
<1>4. TurnExclusion'
  BY DEF TurnExclusion, InTurn
<1>5. QueueMadeByTurn'
  BY DEF QueueMadeByTurn
<1>6. RewindAfterTurn'
  BY DEF RewindAfterTurn, ActiveLive, Live
<1>7. NoOrphanTurn'
  BY DEF NoOrphanTurn, InClient
<1> QED
  BY <1>1, <1>2, <1>3, <1>4, <1>5, <1>6, <1>7

\* The invariant survives taking an answer from the queue.
LEMMA TakeAnswerStep ==
  ASSUME IInv, NEW t \in Task, TakeAnswer(t)
  PROVE  IInv'
<1> USE ConstantsAssumption
<1> USE DEF IInv, TakeAnswer, taskVars, connVars, clientVars, lockVars,
      diskVars, histVars
<1>1. TypeOK'
  <2> USE DEF TypeOK
  <2>1. inbox' \in [Task -> Seq(Widget)]
    OBVIOUS
  <2>2. at' \in [Task -> Widget \cup {None}]
    OBVIOUS
  <2>3. appliedLive' \subseteq Widget
    BY DEF WidgetOnDisplay
  <2>4. pc' \in [Task -> Pcs]
    BY DEF Pcs
  <2>5. UNCHANGED <<created, job, cancelReq, stamp, turn, handler,
                  mode, activeTask, activeQueue, cache, jsonBound, shown,
                  busy, holder, lockQueue, marker, dirs, emitted,
                  recoveries>>
    OBVIOUS
  <2> QED
    BY <2>1, <2>2, <2>3, <2>4, <2>5
<1>2. TasksInOrder'
  BY DEF TasksInOrder
<1>3. WidgetOnDisplay'
  BY DEF WidgetOnDisplay, TypeOK
<1>4. TurnExclusion'
  BY DEF TurnExclusion, InTurn
<1>5. QueueMadeByTurn'
  BY DEF QueueMadeByTurn
<1>6. RewindAfterTurn'
  <2> SUFFICES ASSUME NEW d \in Conn,
                      handler[d] \in {"rewind", "truncate", "evict"}
               PROVE  ActiveLive(d)' = {}
    BY DEF RewindAfterTurn
  <2>1. ActiveLive(d) = {}
    BY DEF RewindAfterTurn
  <2>2. Live(t)
    BY DEF Live
  <2>3. \A u \in Task : Live(u)' => Live(u)
    BY <2>2 DEF Live, TypeOK
  <2> QED
    BY <2>1, <2>3 DEF ActiveLive
<1>7. NoOrphanTurn'
  BY DEF NoOrphanTurn, InClient
<1> QED
  BY <1>1, <1>2, <1>3, <1>4, <1>5, <1>6, <1>7

\* The invariant survives the end of a complete turn.
LEMMA CompleteStep ==
  ASSUME IInv, NEW t \in Task, Complete(t)
  PROVE  IInv'
<1> USE ConstantsAssumption
<1> USE DEF IInv, Complete, taskVars, connVars, clientVars, lockVars, diskVars,
      histVars
<1>1. TypeOK'
  BY DEF TypeOK, Pcs, Kinds, Handlers, Modes, LeaveTurn
<1>2. TasksInOrder'
  BY DEF TasksInOrder, LeaveTurn
<1>3. WidgetOnDisplay'
  BY DEF WidgetOnDisplay, LeaveTurn
<1>4. TurnExclusion'
  BY DEF TurnExclusion, TypeOK, Task, Locker, None, InTurn, LeaveTurn
<1>5. QueueMadeByTurn'
  BY DEF QueueMadeByTurn, LeaveTurn
<1>6. RewindAfterTurn'
  BY DEF RewindAfterTurn, LeaveTurn, ActiveLive, Live
<1>7. NoOrphanTurn'
  BY DEF NoOrphanTurn, LeaveTurn, InClient
<1> QED
  BY <1>1, <1>2, <1>3, <1>4, <1>5, <1>6, <1>7

\* The invariant survives a turn that raises.
LEMMA FailStep ==
  ASSUME IInv, NEW t \in Task, Fail(t)
  PROVE  IInv'
<1> USE ConstantsAssumption
<1> USE DEF IInv, Fail, taskVars, connVars, clientVars, lockVars, diskVars,
      histVars
<1>1. TypeOK'
  BY DEF TypeOK, Pcs, Kinds, Handlers, Modes, LeaveTurn
<1>2. TasksInOrder'
  BY DEF TasksInOrder, LeaveTurn
<1>3. WidgetOnDisplay'
  BY DEF WidgetOnDisplay, LeaveTurn
<1>4. TurnExclusion'
  BY DEF TurnExclusion, TypeOK, Task, Locker, None, InTurn, LeaveTurn
<1>5. QueueMadeByTurn'
  BY DEF QueueMadeByTurn, LeaveTurn
<1>6. RewindAfterTurn'
  BY DEF RewindAfterTurn, LeaveTurn, ActiveLive, Live
<1>7. NoOrphanTurn'
  BY DEF NoOrphanTurn, LeaveTurn, InClient
<1> QED
  BY <1>1, <1>2, <1>3, <1>4, <1>5, <1>6, <1>7

\* The invariant survives the delivery of a cancellation.
LEMMA InterruptStep ==
  ASSUME IInv, NEW t \in Task, Interrupt(t)
  PROVE  IInv'
<1> USE ConstantsAssumption
<1> USE DEF IInv, Interrupt, taskVars, connVars, clientVars, lockVars,
      diskVars, histVars
<1>1. TypeOK'
  BY WithoutType DEF TypeOK, Pcs, Kinds, Handlers, Modes
<1>2. TasksInOrder'
  BY DEF TasksInOrder
<1>3. WidgetOnDisplay'
  BY DEF WidgetOnDisplay
<1>4. TurnExclusion'
  BY DEF TurnExclusion, InTurn
<1>5. QueueMadeByTurn'
  BY DEF QueueMadeByTurn
<1>6. RewindAfterTurn'
  BY DEF RewindAfterTurn, ActiveLive, Live
<1>7. NoOrphanTurn'
  BY DEF NoOrphanTurn, TypeOK, InClient
<1> QED
  BY <1>1, <1>2, <1>3, <1>4, <1>5, <1>6, <1>7

\* The invariant survives the end of an unwinding turn.
LEMMA UnwoundStep ==
  ASSUME IInv, NEW t \in Task, Unwound(t)
  PROVE  IInv'
<1> USE ConstantsAssumption
<1> USE DEF IInv, Unwound, taskVars, connVars, clientVars, lockVars, diskVars,
      histVars
<1>1. TypeOK'
  BY DEF TypeOK, Pcs, Kinds, Handlers, Modes, LeaveTurn
<1>2. TasksInOrder'
  BY DEF TasksInOrder, LeaveTurn
<1>3. WidgetOnDisplay'
  BY DEF WidgetOnDisplay, LeaveTurn
<1>4. TurnExclusion'
  BY DEF TurnExclusion, TypeOK, Task, Locker, None, InTurn, LeaveTurn
<1>5. QueueMadeByTurn'
  BY DEF QueueMadeByTurn, LeaveTurn
<1>6. RewindAfterTurn'
  BY DEF RewindAfterTurn, LeaveTurn, ActiveLive, Live
<1>7. NoOrphanTurn'
  BY DEF NoOrphanTurn, LeaveTurn, InClient
<1> QED
  BY <1>1, <1>2, <1>3, <1>4, <1>5, <1>6, <1>7

\* The invariant survives an unwinding that raises.
LEMMA UnwindRaisesStep ==
  ASSUME IInv, NEW t \in Task, UnwindRaises(t)
  PROVE  IInv'
<1> USE ConstantsAssumption
<1> USE DEF IInv, UnwindRaises, taskVars, connVars, clientVars, lockVars,
      diskVars, histVars
<1>1. TypeOK'
  BY DEF TypeOK, Pcs, Kinds, Handlers, Modes, LeaveTurn
<1>2. TasksInOrder'
  BY DEF TasksInOrder, LeaveTurn
<1>3. WidgetOnDisplay'
  BY DEF WidgetOnDisplay, LeaveTurn
<1>4. TurnExclusion'
  BY DEF TurnExclusion, TypeOK, Task, Locker, None, InTurn, LeaveTurn
<1>5. QueueMadeByTurn'
  BY DEF QueueMadeByTurn, LeaveTurn
<1>6. RewindAfterTurn'
  BY DEF RewindAfterTurn, LeaveTurn, ActiveLive, Live
<1>7. NoOrphanTurn'
  BY DEF NoOrphanTurn, LeaveTurn, InClient
<1> QED
  BY <1>1, <1>2, <1>3, <1>4, <1>5, <1>6, <1>7

\* The invariant survives the finally block of a task.
LEMMA FinishStep ==
  ASSUME IInv, NEW t \in Task, Finish(t)
  PROVE  IInv'
<1> USE ConstantsAssumption
<1> USE DEF IInv, Finish, taskVars, connVars, clientVars, lockVars, diskVars,
      histVars
<1>1. TypeOK'
  BY DEF TypeOK, Pcs, Kinds, Handlers, Modes, Finally
<1>2. TasksInOrder'
  BY DEF TasksInOrder, Finally
<1>3. WidgetOnDisplay'
  BY DEF WidgetOnDisplay, Finally
<1>4. TurnExclusion'
  BY DEF TurnExclusion, InTurn, Finally
<1>5. QueueMadeByTurn'
  BY DEF QueueMadeByTurn, TypeOK, Finally
<1>6. RewindAfterTurn'
  BY DEF RewindAfterTurn, Finally, ActiveLive, Live
<1>7. NoOrphanTurn'
  BY DEF NoOrphanTurn, Finally, InClient
<1> QED
  BY <1>1, <1>2, <1>3, <1>4, <1>5, <1>6, <1>7

\* The invariant survives the error terminal of a task.
LEMMA FinishErrorStep ==
  ASSUME IInv, NEW t \in Task, FinishError(t)
  PROVE  IInv'
<1> USE ConstantsAssumption
<1> USE DEF IInv, FinishError, taskVars, connVars, clientVars, lockVars,
      diskVars, histVars
<1>1. TypeOK'
  BY DEF TypeOK, Pcs, Kinds, Handlers, Modes, Finally
<1>2. TasksInOrder'
  BY DEF TasksInOrder, Finally
<1>3. WidgetOnDisplay'
  BY DEF WidgetOnDisplay, Finally
<1>4. TurnExclusion'
  BY DEF TurnExclusion, InTurn, Finally
<1>5. QueueMadeByTurn'
  BY DEF QueueMadeByTurn, TypeOK, Finally
<1>6. RewindAfterTurn'
  BY DEF RewindAfterTurn, Finally, ActiveLive, Live
<1>7. NoOrphanTurn'
  BY DEF NoOrphanTurn, Finally, InClient
<1> QED
  BY <1>1, <1>2, <1>3, <1>4, <1>5, <1>6, <1>7

\* The invariant survives a crash of the server.
LEMMA CrashStep ==
  ASSUME IInv, Crash
  PROVE  IInv'
<1> USE ConstantsAssumption
<1> USE DEF IInv, Crash, taskVars, connVars, clientVars, lockVars, diskVars,
      histVars
<1>1. TypeOK'
  <2> USE DEF TypeOK
  <2>1. pc' \in [Task -> Pcs]
    BY DEF Pcs
  <2>2. cancelReq' \subseteq Task
    OBVIOUS
  <2>3. handler' \in [Conn -> Handlers]
    BY DEF Handlers
  <2>4. /\ shown' \in [Conn -> Widget \cup {None}]
        /\ busy' \in [Conn -> BOOLEAN]
    OBVIOUS
  <2>5. activeQueue' \in [Conn -> Task \cup {None}]
    OBVIOUS
  <2>6. /\ holder' \in Locker \cup {None}
        /\ lockQueue' \in Seq(Locker)
    OBVIOUS
  <2>7. UNCHANGED <<created, job, at, inbox, stamp, turn,
                  mode, activeTask, cache, jsonBound, marker, dirs,
                  emitted, appliedLive, recoveries>>
    OBVIOUS
  <2> QED
    BY <2>1, <2>2, <2>3, <2>4, <2>5, <2>6, <2>7
<1>2. TasksInOrder'
  <2>1. \A u \in Task : pc'[u] = "none" <=> pc[u] = "none"
    BY DEF TypeOK
  <2>2. UNCHANGED <<created, job, activeTask>>
    OBVIOUS
  <2>3. \A d \in Conn : activeTask[d] # None => activeTask[d] \in Task
    BY DEF TypeOK
  <2> HIDE DEF Crash
  <2> QED
    BY <2>1, <2>2, <2>3 DEF TasksInOrder
<1>3. WidgetOnDisplay'
  BY DEF WidgetOnDisplay, Open
<1>4. TurnExclusion'
  BY DEF TurnExclusion, Task, Locker, None, InTurn, Open
<1>5. QueueMadeByTurn'
  BY DEF QueueMadeByTurn, Open
<1>6. RewindAfterTurn'
  BY DEF RewindAfterTurn, Open
<1>7. NoOrphanTurn'
  BY DEF NoOrphanTurn, Open, InClient
<1> QED
  BY <1>1, <1>2, <1>3, <1>4, <1>5, <1>6, <1>7

\* Every step of the session preserves the invariant.
LEMMA NextIInv == IInv /\ [Next]_vars => IInv'
<1> SUFFICES ASSUME IInv, [Next]_vars PROVE IInv'
  OBVIOUS
<1>1. ASSUME NEW c \in Conn, ClientFrame(c) PROVE IInv'
  <2>1. CASE Connect(c)
    BY <2>1, ConnectStep
  <2>2. CASE Disconnect(c)
    BY <2>2, DisconnectStep
  <2>3. CASE Message(c)
    BY <2>3, MessageStep
  <2>4. CASE Cancel(c)
    BY <2>4, CancelStep
  <2>5. CASE AnswerLive(c)
    BY <2>5, AnswerLiveStep
  <2>6. CASE AnswerRecovers(c)
    BY <2>6, AnswerRecoversStep
  <2>7. CASE AnswerDropped(c)
    BY <2>7, AnswerDroppedStep
  <2>8. CASE ConfirmLive(c)
    BY <2>8, ConfirmLiveStep
  <2>9. CASE ConfirmRecovers(c)
    BY <2>9, ConfirmRecoversStep
  <2>10. CASE ConfirmUnbound(c)
    BY <2>10, ConfirmUnboundStep
  <2>11. CASE ResumeFromTurn(c)
    BY <2>11, RewindStep DEF ResumeFromTurn, Modes
  <2>12. CASE ResumeFromRound(c)
    BY <2>12, RewindStep DEF ResumeFromRound, Modes
  <2>13. CASE EvolutionComplete(c)
    BY <2>13, RewindStep DEF EvolutionComplete, Modes
  <2> QED
    BY <1>1, <2>1, <2>2, <2>3, <2>4, <2>5, <2>6, <2>7, <2>8, <2>9, <2>10,
       <2>11, <2>12, <2>13 DEF ClientFrame
<1>2. ASSUME NEW c \in Conn, HandlerStep(c) PROVE IInv'
  <2>1. CASE QuiescedForTurn(c)
    BY <2>1, QuiescedForTurnStep
  <2>2. CASE QuiescedForRound(c)
    BY <2>2, QuiescedForRoundStep
  <2>3. CASE QuiescedForHub(c)
    BY <2>3, QuiescedForHubStep
  <2>4. CASE GrantHandler(c)
    BY <2>4, GrantHandlerStep
  <2>5. CASE Rewound(c)
    BY <2>5, RewoundStep
  <2>6. CASE RewindRaises(c)
    BY <2>6, RewindRaisesStep
  <2>7. CASE Truncated(c)
    BY <2>7, TruncatedStep
  <2>8. CASE Evicted(c)
    BY <2>8, EvictedStep
  <2>9. CASE EvictTimeout(c)
    BY <2>9, EvictTimeoutStep
  <2> QED
    BY <1>2, <2>1, <2>2, <2>3, <2>4, <2>5, <2>6, <2>7, <2>8, <2>9
    DEF HandlerStep
<1>3. ASSUME NEW t \in Task, TurnStep(t) PROVE IInv'
  <2>1. CASE Start(t)
    BY <2>1, StartStep
  <2>2. CASE StartFails(t)
    BY <2>2, StartFailsStep
  <2>3. CASE GrantTurn(t)
    BY <2>3, GrantTurnStep
  <2>4. CASE Emit(t)
    BY <2>4, EmitStep
  <2>5. CASE Persist(t)
    BY <2>5, PersistStep
  <2>6. CASE TakeAnswer(t)
    BY <2>6, TakeAnswerStep
  <2>7. CASE Complete(t)
    BY <2>7, CompleteStep
  <2>8. CASE Fail(t)
    BY <2>8, FailStep
  <2>9. CASE Interrupt(t)
    BY <2>9, InterruptStep
  <2>10. CASE Unwound(t)
    BY <2>10, UnwoundStep
  <2>11. CASE UnwindRaises(t)
    BY <2>11, UnwindRaisesStep
  <2>12. CASE Finish(t)
    BY <2>12, FinishStep
  <2>13. CASE FinishError(t)
    BY <2>13, FinishErrorStep
  <2> QED
    BY <1>3, <2>1, <2>2, <2>3, <2>4, <2>5, <2>6, <2>7, <2>8, <2>9, <2>10,
       <2>11, <2>12, <2>13 DEF TurnStep
<1>4. CASE UNCHANGED vars
  BY <1>4
  DEF IInv, TypeOK, TasksInOrder, WidgetOnDisplay, TurnExclusion,
      QueueMadeByTurn, RewindAfterTurn, NoOrphanTurn, ActiveLive, Live,
      InClient, vars, taskVars, connVars, clientVars, lockVars, diskVars,
      histVars
<1> QED
  BY <1>1, <1>2, <1>3, <1>4, CrashStep DEF Next

\* The queue of a connection belongs to a turn of its own that has not ended.
LEMMA QueueOwnerOfIInv == IInv => QueueOwnerLive
<1> SUFFICES ASSUME IInv, NEW c \in Conn, activeQueue[c] # None
             PROVE  /\ Live(activeQueue[c])
                    /\ job[activeQueue[c]].owner = c
  BY DEF QueueOwnerLive
<1> QED
  BY DEF IInv, QueueMadeByTurn, Live

\* The inductive invariant holds in every reachable state.
THEOREM Invariance == Spec => []IInv
<1>1. Init => IInv
  BY InitIInv
<1>2. IInv /\ [Next]_vars => IInv'
  BY NextIInv
<1> QED
  BY <1>1, <1>2, PTL DEF Spec

\* Types: every variable of the session keeps its type.
THEOREM TypeCorrect == Spec => []TypeOK
<1>1. IInv => TypeOK
  BY DEF IInv
<1> QED
  BY <1>1, Invariance, PTL

\* The turns of a session never overlap: a turn in progress or unwinding is the
\* one that owns the session's lock (process_turn under _session_turn).
THEOREM TurnsExclude == Spec => []TurnExclusion
<1>1. IInv => TurnExclusion
  BY DEF IInv
<1> QED
  BY <1>1, Invariance, PTL

\* Neither a newer frame nor a closed socket leaves a turn running that nobody
\* can cancel (active_task of the open connection).
THEOREM NoTurnIsOrphaned == Spec => []NoOrphanTurn
<1>1. IInv => NoOrphanTurn
  BY DEF IInv
<1> QED
  BY <1>1, Invariance, PTL

\* No answer is ever put into the queue of a finished turn or of another
\* connection's turn (active_input_queue).
THEOREM QueuesAreLive == Spec => []QueueOwnerLive
<1>1. IInv => QueueOwnerLive
  BY QueueOwnerOfIInv
<1> QED
  BY <1>1, Invariance, PTL

-----------------------------------------------------------------------------
(* One socket at a time.  What the code promises then and not otherwise:   *)
(* README, section 3.1, has the counterexamples without the hypotheses.    *)

\* What a Spawn changes, task by task.
LEMMA SpawnedTask ==
  ASSUME IInv, NEW c \in Conn, NEW k \in Kinds, NEW w \in Widget \cup {None}, Spawn(c, k, w)
  PROVE  /\ created + 1 \in Task /\ pc[created + 1] = "none"
         /\ \A t \in Task : pc'[t] = IF t = created + 1 THEN "created" ELSE pc[t]
         /\ \A t \in Task : job'[t] = IF t = created + 1
                                      THEN [owner |-> c, kind |-> k, subject |-> w] ELSE job[t]
         /\ \A d \in Conn : activeTask'[d] = IF d = c THEN created + 1 ELSE activeTask[d]
         /\ UNCHANGED <<at, inbox, stamp, turn>>
<1>1. created + 1 \in Task /\ pc[created + 1] = "none"
  BY SpawnEffect
<1>2. /\ pc \in [Task -> Pcs] /\ activeTask \in [Conn -> Task \cup {None}]
      /\ job \in [Task -> [owner: Conn \cup {None}, kind: Kinds, subject: Widget \cup {None}]]
  BY DEF IInv, TypeOK
<1> QED BY <1>1, <1>2 DEF Spawn

\* A second socket is not accepted, a rewinding frame has cancelled the turn: no step
\* makes a second turn that nobody cancelled.
LEMMA OneSocketStep ==
  ASSUME IInv, Tabs <= 1, OneSocket, Next
  PROVE  OneSocket'
<1>1. /\ pc \in [Task -> Pcs] /\ handler \in [Conn -> Handlers]
      /\ job \in [Task -> [owner: Conn \cup {None}, kind: Kinds, subject: Widget \cup {None}]]
      /\ cancelReq \subseteq Task /\ NoOrphanTurn
      /\ \A t \in Task : pc[t] # "none" => job[t].owner \in Conn
  BY DEF IInv, TypeOK, TasksInOrder
<1>2. \A k \in {"message", "round", "recovery"} : k \in Kinds
  BY DEF Kinds
<1>3. None \in Widget \cup {None} /\ marker \in Widget \cup {None}
  BY DEF IInv, TypeOK
<1>4. ASSUME NEW c \in Conn, ClientFrame(c) PROVE OneSocket'
  <2>1. CASE Connect(c)
    <3>1. Open = {}
      <4>1. \A d, e \in Open : d = e
        BY DEF OneSocket
      <4>2. CASE \E d \in Open : TRUE
        <5>1. PICK d \in Open : TRUE
          BY <4>2
        <5>2. Open = {d}
          BY <4>1, <5>1
        <5>3. Cardinality(Open) = 1
          BY <5>2, FS_Singleton
        <5>4. Cardinality(Open) < Tabs
          BY <2>1 DEF Connect
        <5> QED BY <5>3, <5>4, ConstantsAssumption
      <4> QED BY <4>2
    <3>2. /\ handler[c] = "new" /\ \A d \in Conn : handler'[d] = IF d = c THEN "idle" ELSE handler[d]
          /\ UNCHANGED <<pc, job, cancelReq>>
      BY <1>1, <2>1 DEF Connect, taskVars
    <3>3. \A d \in Open' : d = c
      BY <3>1, <3>2 DEF Open
    <3> QED BY <1>1, <3>2, <3>3 DEF OneSocket, Current, Open
  <2>2. CASE Disconnect(c)
    BY <2>2, <1>1
    DEF Disconnect, Close, taskVars, connVars, clientVars, lockVars, diskVars, histVars,
        OneSocket, Open, Current, NoOrphanTurn, InClient, ActiveLive, Live
  <2>3. CASE Message(c)
    <3>1. Spawn(c, "message", None) /\ "message" \in Kinds
      BY <1>2, <2>3 DEF Message
    <3>2. /\ created + 1 \in Task /\ pc[created + 1] = "none"
          /\ \A t \in Task : pc'[t] = IF t = created + 1 THEN "created" ELSE pc[t]
          /\ \A t \in Task : job'[t] = IF t = created + 1
               THEN [owner |-> c, kind |-> "message", subject |-> None] ELSE job[t]
      BY <1>3, <3>1, SpawnedTask
    <3>3. /\ handler[c] \notin {"new", "gone"} /\ cancelReq \subseteq cancelReq'
          /\ \A d \in Conn : handler'[d] = IF d = c THEN "idle" ELSE handler[d]
      BY <1>1, <2>3 DEF Message
    <3> QED BY <1>1, <3>2, <3>3 DEF OneSocket, Open, Current
  <2>4. CASE Cancel(c)
    BY <2>4, <1>1
    DEF Cancel, taskVars, connVars, clientVars, lockVars, diskVars, histVars, OneSocket,
        Open, Current, NoOrphanTurn, InClient, ActiveLive, Live
  <2>5. CASE AnswerLive(c)
    BY <2>5, <1>1
    DEF AnswerLive, taskVars, connVars, clientVars, lockVars, diskVars, histVars,
        OneSocket, Open, Current, NoOrphanTurn, InClient, ActiveLive, Live
  <2>6. CASE AnswerRecovers(c)
    <3>1. Spawn(c, "recovery", marker) /\ "recovery" \in Kinds
      BY <1>2, <2>6 DEF AnswerRecovers, Recover
    <3>2. /\ created + 1 \in Task /\ pc[created + 1] = "none"
          /\ \A t \in Task : pc'[t] = IF t = created + 1 THEN "created" ELSE pc[t]
          /\ \A t \in Task : job'[t] = IF t = created + 1
               THEN [owner |-> c, kind |-> "recovery", subject |-> marker] ELSE job[t]
      BY <1>3, <3>1, SpawnedTask
    <3>3. /\ handler[c] \notin {"new", "gone"} /\ cancelReq \subseteq cancelReq'
          /\ \A d \in Conn : handler'[d] = IF d = c THEN "idle" ELSE handler[d]
      BY <1>1, <2>6 DEF AnswerRecovers, Recover
    <3> QED BY <1>1, <3>2, <3>3 DEF OneSocket, Open, Current
  <2>7. CASE AnswerDropped(c)
    BY <2>7, <1>1
    DEF AnswerDropped, taskVars, connVars, clientVars, lockVars, diskVars, histVars,
        OneSocket, Open, Current, NoOrphanTurn, InClient, ActiveLive, Live
  <2>8. CASE ConfirmLive(c)
    BY <2>8, <1>1
    DEF ConfirmLive, taskVars, connVars, clientVars, lockVars, diskVars, histVars,
        OneSocket, Open, Current, NoOrphanTurn, InClient, ActiveLive, Live
  <2>9. CASE ConfirmRecovers(c)
    <3>1. Spawn(c, "recovery", marker) /\ "recovery" \in Kinds
      BY <1>2, <2>9 DEF ConfirmRecovers, Recover
    <3>2. /\ created + 1 \in Task /\ pc[created + 1] = "none"
          /\ \A t \in Task : pc'[t] = IF t = created + 1 THEN "created" ELSE pc[t]
          /\ \A t \in Task : job'[t] = IF t = created + 1
               THEN [owner |-> c, kind |-> "recovery", subject |-> marker] ELSE job[t]
      BY <1>3, <3>1, SpawnedTask
    <3>3. /\ handler[c] \notin {"new", "gone"} /\ cancelReq \subseteq cancelReq'
          /\ \A d \in Conn : handler'[d] = IF d = c THEN "idle" ELSE handler[d]
      BY <1>1, <2>9 DEF ConfirmRecovers, Recover
    <3> QED BY <1>1, <3>2, <3>3 DEF OneSocket, Open, Current
  <2>10. CASE ConfirmUnbound(c)
    BY <2>10, <1>1
    DEF ConfirmUnbound, Close, taskVars, connVars, clientVars, lockVars, diskVars,
        histVars, OneSocket, Open, Current, NoOrphanTurn, InClient, ActiveLive, Live
  <2>11. CASE ResumeFromTurn(c)
    BY <2>11, <1>1
    DEF ResumeFromTurn, Rewind, taskVars, connVars, clientVars, lockVars, diskVars,
        histVars, OneSocket, Open, Current, NoOrphanTurn, InClient, ActiveLive, Live
  <2>12. CASE ResumeFromRound(c)
    BY <2>12, <1>1
    DEF ResumeFromRound, Rewind, taskVars, connVars, clientVars, lockVars, diskVars,
        histVars, OneSocket, Open, Current, NoOrphanTurn, InClient, ActiveLive, Live
  <2>13. CASE EvolutionComplete(c)
    BY <2>13, <1>1
    DEF EvolutionComplete, Rewind, taskVars, connVars, clientVars, lockVars, diskVars,
        histVars, OneSocket, Open, Current, NoOrphanTurn, InClient, ActiveLive, Live
  <2> QED BY <1>4, <2>1, <2>2, <2>3, <2>4, <2>5, <2>6, <2>7, <2>8, <2>9, <2>10, <2>11,
  <2>12, <2>13 DEF ClientFrame
<1>5. ASSUME NEW c \in Conn, HandlerStep(c) PROVE OneSocket'
  <2>1. CASE QuiescedForTurn(c)
    BY <2>1, <1>1
    DEF QuiescedForTurn, Quiesced, Wants, taskVars, connVars, clientVars, lockVars,
        diskVars, histVars, OneSocket, Open, Current, NoOrphanTurn, InClient,
        ActiveLive, Live
  <2>2. CASE QuiescedForRound(c)
    BY <2>2, <1>1
    DEF QuiescedForRound, Quiesced, taskVars, connVars, clientVars, lockVars, diskVars,
        histVars, OneSocket, Open, Current, NoOrphanTurn, InClient, ActiveLive, Live
  <2>3. CASE QuiescedForHub(c)
    <3>1. Spawn(c, "message", None) /\ "message" \in Kinds
      BY <1>2, <2>3 DEF QuiescedForHub, Quiesced
    <3>2. /\ created + 1 \in Task /\ pc[created + 1] = "none"
          /\ \A t \in Task : pc'[t] = IF t = created + 1 THEN "created" ELSE pc[t]
          /\ \A t \in Task : job'[t] = IF t = created + 1
               THEN [owner |-> c, kind |-> "message", subject |-> None] ELSE job[t]
      BY <1>3, <3>1, SpawnedTask
    <3>3. /\ handler[c] \notin {"new", "gone"} /\ cancelReq \subseteq cancelReq'
          /\ \A d \in Conn : handler'[d] = IF d = c THEN "idle" ELSE handler[d]
      BY <1>1, <2>3 DEF QuiescedForHub, Quiesced
    <3> QED BY <1>1, <3>2, <3>3 DEF OneSocket, Open, Current
  <2>4. CASE GrantHandler(c)
    BY <2>4, <1>1
    DEF GrantHandler, Grant, taskVars, connVars, clientVars, lockVars, diskVars,
        histVars, OneSocket, Open, Current, NoOrphanTurn, InClient, ActiveLive, Live
  <2>5. CASE Rewound(c)
    BY <2>5, <1>1
    DEF Rewound, taskVars, connVars, clientVars, lockVars, diskVars, histVars,
        OneSocket, Open, Current, NoOrphanTurn, InClient, ActiveLive, Live
  <2>6. CASE RewindRaises(c)
    BY <2>6, <1>1
    DEF RewindRaises, taskVars, connVars, clientVars, lockVars, diskVars, histVars,
        OneSocket, Open, Current, NoOrphanTurn, InClient, ActiveLive, Live
  <2>7. CASE Truncated(c)
    BY <2>7, <1>1
    DEF Truncated, Wants, taskVars, connVars, clientVars, lockVars, diskVars, histVars,
        OneSocket, Open, Current, NoOrphanTurn, InClient, ActiveLive, Live
  <2>8. CASE Evicted(c)
    <3>1. PICK k \in Kinds : Spawn(c, k, None)
      BY <1>2, <2>8 DEF Evicted, RunAgain
    <3>2. /\ created + 1 \in Task /\ pc[created + 1] = "none"
          /\ \A t \in Task : pc'[t] = IF t = created + 1 THEN "created" ELSE pc[t]
          /\ \A t \in Task : job'[t] = IF t = created + 1
               THEN [owner |-> c, kind |-> k, subject |-> None] ELSE job[t]
      BY <1>3, <3>1, SpawnedTask
    <3>3. /\ handler[c] \notin {"new", "gone"} /\ cancelReq \subseteq cancelReq'
          /\ \A d \in Conn : handler'[d] = IF d = c THEN "idle" ELSE handler[d]
      BY <1>1, <2>8 DEF Evicted, RunAgain
    <3> QED BY <1>1, <3>2, <3>3 DEF OneSocket, Open, Current
  <2>9. CASE EvictTimeout(c)
    <3>1. PICK k \in Kinds : Spawn(c, k, None)
      BY <1>2, <2>9 DEF EvictTimeout, RunAgain
    <3>2. /\ created + 1 \in Task /\ pc[created + 1] = "none"
          /\ \A t \in Task : pc'[t] = IF t = created + 1 THEN "created" ELSE pc[t]
          /\ \A t \in Task : job'[t] = IF t = created + 1
               THEN [owner |-> c, kind |-> k, subject |-> None] ELSE job[t]
      BY <1>3, <3>1, SpawnedTask
    <3>3. /\ handler[c] \notin {"new", "gone"} /\ cancelReq \subseteq cancelReq'
          /\ \A d \in Conn : handler'[d] = IF d = c THEN "idle" ELSE handler[d]
      BY <1>1, <2>9 DEF EvictTimeout, RunAgain
    <3> QED BY <1>1, <3>2, <3>3 DEF OneSocket, Open, Current
  <2> QED BY <1>5, <2>1, <2>2, <2>3, <2>4, <2>5, <2>6, <2>7, <2>8, <2>9 DEF HandlerStep
<1>6. ASSUME NEW t \in Task, TurnStep(t) PROVE OneSocket'
  <2>1. CASE Start(t)
    BY <2>1, <1>1
    DEF Start, Wants, taskVars, connVars, clientVars, lockVars, diskVars, histVars,
        OneSocket, Open, Current, NoOrphanTurn, InClient, ActiveLive, Live
  <2>2. CASE StartFails(t)
    BY <2>2, <1>1
    DEF StartFails, taskVars, connVars, clientVars, lockVars, diskVars, histVars,
        OneSocket, Open, Current, NoOrphanTurn, InClient, ActiveLive, Live
  <2>3. CASE GrantTurn(t)
    BY <2>3, <1>1
    DEF GrantTurn, Grant, taskVars, connVars, clientVars, lockVars, diskVars, histVars,
        OneSocket, Open, Current, NoOrphanTurn, InClient, ActiveLive, Live
  <2>4. CASE Emit(t)
    BY <2>4, <1>1
    DEF Emit, taskVars, connVars, clientVars, lockVars, diskVars, histVars, OneSocket,
        Open, Current, NoOrphanTurn, InClient, ActiveLive, Live
  <2>5. CASE Persist(t)
    BY <2>5, <1>1
    DEF Persist, taskVars, connVars, clientVars, lockVars, diskVars, histVars,
        OneSocket, Open, Current, NoOrphanTurn, InClient, ActiveLive, Live
  <2>6. CASE TakeAnswer(t)
    BY <2>6, <1>1
    DEF TakeAnswer, taskVars, connVars, clientVars, lockVars, diskVars, histVars,
        OneSocket, Open, Current, NoOrphanTurn, InClient, ActiveLive, Live
  <2>7. CASE Complete(t)
    BY <2>7, <1>1
    DEF Complete, LeaveTurn, taskVars, connVars, clientVars, lockVars, diskVars,
        histVars, OneSocket, Open, Current, NoOrphanTurn, InClient, ActiveLive, Live
  <2>8. CASE Fail(t)
    BY <2>8, <1>1
    DEF Fail, LeaveTurn, taskVars, connVars, clientVars, lockVars, diskVars, histVars,
        OneSocket, Open, Current, NoOrphanTurn, InClient, ActiveLive, Live
  <2>9. CASE Interrupt(t)
    BY <2>9, <1>1
    DEF Interrupt, taskVars, connVars, clientVars, lockVars, diskVars, histVars,
        OneSocket, Open, Current, NoOrphanTurn, InClient, ActiveLive, Live
  <2>10. CASE Unwound(t)
    BY <2>10, <1>1
    DEF Unwound, LeaveTurn, taskVars, connVars, clientVars, lockVars, diskVars,
        histVars, OneSocket, Open, Current, NoOrphanTurn, InClient, ActiveLive, Live
  <2>11. CASE UnwindRaises(t)
    BY <2>11, <1>1
    DEF UnwindRaises, LeaveTurn, taskVars, connVars, clientVars, lockVars, diskVars,
        histVars, OneSocket, Open, Current, NoOrphanTurn, InClient, ActiveLive, Live
  <2>12. CASE Finish(t)
    BY <2>12, <1>1
    DEF Finish, Finally, taskVars, connVars, clientVars, lockVars, diskVars, histVars,
        OneSocket, Open, Current, NoOrphanTurn, InClient, ActiveLive, Live
  <2>13. CASE FinishError(t)
    BY <2>13, <1>1
    DEF FinishError, Finally, taskVars, connVars, clientVars, lockVars, diskVars,
        histVars, OneSocket, Open, Current, NoOrphanTurn, InClient, ActiveLive, Live
  <2> QED BY <1>6, <2>1, <2>2, <2>3, <2>4, <2>5, <2>6, <2>7, <2>8, <2>9, <2>10, <2>11,
  <2>12, <2>13 DEF TurnStep
<1>7. CASE Crash
  BY <1>7, <1>1
  DEF Crash, taskVars, connVars, clientVars, lockVars, diskVars, histVars, OneSocket,
      Open, Current, NoOrphanTurn, InClient, ActiveLive, Live
<1> QED BY <1>4, <1>5, <1>6, <1>7 DEF Next

\* With one socket there is at most one turn that nobody cancelled.
LEMMA TheTurn ==
  ASSUME IInv, OneSocket, NEW t \in Task, NEW u \in Task, Current(t), Current(u)
  PROVE  t = u /\ job[t].owner \in Conn /\ job[t].owner \in Open
<1>1. /\ \A x \in {t, u} : activeTask[job[x].owner] = x /\ handler[job[x].owner] \notin {"new", "gone"}
      /\ \A x \in {t, u} : job[x].owner \in Conn
  BY DEF IInv, NoOrphanTurn, TasksInOrder, Current, InClient
<1> QED BY <1>1 DEF OneSocket, Open

\* Between its stamp and its turn nothing moves the number of the next turn: a turn
\* that could has been cancelled, and a truncation cancels the one that waits.
LEMMA StampedStep ==
  ASSUME IInv, OneSocket, Stamped, Next
  PROVE  Stamped'
<1>1. /\ pc \in [Task -> Pcs] /\ handler \in [Conn -> Handlers]
      /\ job \in [Task -> [owner: Conn \cup {None}, kind: Kinds, subject: Widget \cup {None}]]
      /\ cancelReq \subseteq Task /\ stamp \in [Task -> Nat] /\ turn \in [Task -> Nat] /\ dirs \in Nat
  BY DEF IInv, TypeOK
<1>2. \A k \in {"message", "round", "recovery"} : k \in Kinds
  BY DEF Kinds
<1>3. None \in Widget \cup {None} /\ marker \in Widget \cup {None}
  BY DEF IInv, TypeOK
<1>4. \A t, u \in Task : Current(t) /\ Current(u) => t = u
  BY TheTurn
<1>5. ASSUME NEW c \in Conn, ClientFrame(c) PROVE Stamped'
  <2>1. CASE Connect(c)
    BY <2>1, <1>1, <1>4
    DEF Connect, taskVars, connVars, clientVars, lockVars, diskVars, histVars, Stamped,
        StampMatches, Current
  <2>2. CASE Disconnect(c)
    BY <2>2, <1>1, <1>4
    DEF Disconnect, Close, taskVars, connVars, clientVars, lockVars, diskVars, histVars,
        Stamped, StampMatches, Current
  <2>3. CASE Message(c)
    <3>1. Spawn(c, "message", None) /\ "message" \in Kinds
      BY <1>2, <2>3 DEF Message
    <3>2. /\ created + 1 \in Task /\ pc[created + 1] = "none"
          /\ \A t \in Task : pc'[t] = IF t = created + 1 THEN "created" ELSE pc[t]
          /\ \A t \in Task : job'[t] = IF t = created + 1
               THEN [owner |-> c, kind |-> "message", subject |-> None] ELSE job[t]
          /\ UNCHANGED <<at, inbox, stamp, turn>>
      BY <1>3, <3>1, SpawnedTask
    <3>3. /\ cancelReq \subseteq cancelReq'
          /\ dirs' = dirs
      BY <1>1, <2>3 DEF Message, taskVars, connVars, clientVars, lockVars, diskVars, histVars
    <3> QED BY <1>1, <3>2, <3>3 DEF Stamped, StampMatches, Current
  <2>4. CASE Cancel(c)
    BY <2>4, <1>1, <1>4
    DEF Cancel, taskVars, connVars, clientVars, lockVars, diskVars, histVars, Stamped,
        StampMatches, Current
  <2>5. CASE AnswerLive(c)
    BY <2>5, <1>1, <1>4
    DEF AnswerLive, taskVars, connVars, clientVars, lockVars, diskVars, histVars,
        Stamped, StampMatches, Current
  <2>6. CASE AnswerRecovers(c)
    <3>1. Spawn(c, "recovery", marker) /\ "recovery" \in Kinds
      BY <1>2, <2>6 DEF AnswerRecovers, Recover
    <3>2. /\ created + 1 \in Task /\ pc[created + 1] = "none"
          /\ \A t \in Task : pc'[t] = IF t = created + 1 THEN "created" ELSE pc[t]
          /\ \A t \in Task : job'[t] = IF t = created + 1
               THEN [owner |-> c, kind |-> "recovery", subject |-> marker] ELSE job[t]
          /\ UNCHANGED <<at, inbox, stamp, turn>>
      BY <1>3, <3>1, SpawnedTask
    <3>3. /\ cancelReq \subseteq cancelReq'
          /\ dirs' = dirs
      BY <1>1, <2>6 DEF AnswerRecovers, Recover, taskVars, connVars, clientVars, lockVars,
         diskVars, histVars
    <3> QED BY <1>1, <3>2, <3>3 DEF Stamped, StampMatches, Current
  <2>7. CASE AnswerDropped(c)
    BY <2>7, <1>1, <1>4
    DEF AnswerDropped, taskVars, connVars, clientVars, lockVars, diskVars, histVars,
        Stamped, StampMatches, Current
  <2>8. CASE ConfirmLive(c)
    BY <2>8, <1>1, <1>4
    DEF ConfirmLive, taskVars, connVars, clientVars, lockVars, diskVars, histVars,
        Stamped, StampMatches, Current
  <2>9. CASE ConfirmRecovers(c)
    <3>1. Spawn(c, "recovery", marker) /\ "recovery" \in Kinds
      BY <1>2, <2>9 DEF ConfirmRecovers, Recover
    <3>2. /\ created + 1 \in Task /\ pc[created + 1] = "none"
          /\ \A t \in Task : pc'[t] = IF t = created + 1 THEN "created" ELSE pc[t]
          /\ \A t \in Task : job'[t] = IF t = created + 1
               THEN [owner |-> c, kind |-> "recovery", subject |-> marker] ELSE job[t]
          /\ UNCHANGED <<at, inbox, stamp, turn>>
      BY <1>3, <3>1, SpawnedTask
    <3>3. /\ cancelReq \subseteq cancelReq'
          /\ dirs' = dirs
      BY <1>1, <2>9 DEF ConfirmRecovers, Recover, taskVars, connVars, clientVars, lockVars,
         diskVars, histVars
    <3> QED BY <1>1, <3>2, <3>3 DEF Stamped, StampMatches, Current
  <2>10. CASE ConfirmUnbound(c)
    BY <2>10, <1>1, <1>4
    DEF ConfirmUnbound, Close, taskVars, connVars, clientVars, lockVars, diskVars,
        histVars, Stamped, StampMatches, Current
  <2>11. CASE ResumeFromTurn(c)
    BY <2>11, <1>1, <1>4
    DEF ResumeFromTurn, Rewind, taskVars, connVars, clientVars, lockVars, diskVars,
        histVars, Stamped, StampMatches, Current
  <2>12. CASE ResumeFromRound(c)
    BY <2>12, <1>1, <1>4
    DEF ResumeFromRound, Rewind, taskVars, connVars, clientVars, lockVars, diskVars,
        histVars, Stamped, StampMatches, Current
  <2>13. CASE EvolutionComplete(c)
    BY <2>13, <1>1, <1>4
    DEF EvolutionComplete, Rewind, taskVars, connVars, clientVars, lockVars, diskVars,
        histVars, Stamped, StampMatches, Current
  <2> QED BY <1>5, <2>1, <2>2, <2>3, <2>4, <2>5, <2>6, <2>7, <2>8, <2>9, <2>10, <2>11,
  <2>12, <2>13 DEF ClientFrame
<1>6. ASSUME NEW c \in Conn, HandlerStep(c) PROVE Stamped'
  <2>1. CASE QuiescedForTurn(c)
    BY <2>1, <1>1, <1>4
    DEF QuiescedForTurn, Quiesced, Wants, taskVars, connVars, clientVars, lockVars,
        diskVars, histVars, Stamped, StampMatches, Current
  <2>2. CASE QuiescedForRound(c)
    BY <2>2, <1>1, <1>4
    DEF QuiescedForRound, Quiesced, taskVars, connVars, clientVars, lockVars, diskVars,
        histVars, Stamped, StampMatches, Current
  <2>3. CASE QuiescedForHub(c)
    <3>1. Spawn(c, "message", None) /\ "message" \in Kinds
      BY <1>2, <2>3 DEF QuiescedForHub, Quiesced
    <3>2. /\ created + 1 \in Task /\ pc[created + 1] = "none"
          /\ \A t \in Task : pc'[t] = IF t = created + 1 THEN "created" ELSE pc[t]
          /\ \A t \in Task : job'[t] = IF t = created + 1
               THEN [owner |-> c, kind |-> "message", subject |-> None] ELSE job[t]
          /\ UNCHANGED <<at, inbox, stamp, turn>>
      BY <1>3, <3>1, SpawnedTask
    <3>3. /\ cancelReq \subseteq cancelReq'
          /\ dirs' = dirs
      BY <1>1, <2>3 DEF QuiescedForHub, Quiesced, taskVars, connVars, clientVars, lockVars,
         diskVars, histVars
    <3> QED BY <1>1, <3>2, <3>3 DEF Stamped, StampMatches, Current
  <2>4. CASE GrantHandler(c)
    BY <2>4, <1>1, <1>4
    DEF GrantHandler, Grant, taskVars, connVars, clientVars, lockVars, diskVars,
        histVars, Stamped, StampMatches, Current
  <2>5. CASE Rewound(c)
    BY <2>5, <1>1, <1>4
    DEF Rewound, taskVars, connVars, clientVars, lockVars, diskVars, histVars, Stamped,
        StampMatches, Current
  <2>6. CASE RewindRaises(c)
    BY <2>6, <1>1, <1>4
    DEF RewindRaises, taskVars, connVars, clientVars, lockVars, diskVars, histVars,
        Stamped, StampMatches, Current
  <2>7. CASE Truncated(c)
    BY <1>1, <2>7
    DEF Truncated, Wants, taskVars, connVars, clientVars, histVars, InTurn, Stamped, StampMatches,
        Current
  <2>8. CASE Evicted(c)
    <3>1. PICK k \in Kinds : Spawn(c, k, None)
      BY <1>2, <2>8 DEF Evicted, RunAgain
    <3>2. /\ created + 1 \in Task /\ pc[created + 1] = "none"
          /\ \A t \in Task : pc'[t] = IF t = created + 1 THEN "created" ELSE pc[t]
          /\ \A t \in Task : job'[t] = IF t = created + 1
               THEN [owner |-> c, kind |-> k, subject |-> None] ELSE job[t]
          /\ UNCHANGED <<at, inbox, stamp, turn>>
      BY <1>3, <3>1, SpawnedTask
    <3>3. /\ cancelReq \subseteq cancelReq'
          /\ dirs' = dirs
      BY <1>1, <2>8 DEF Evicted, RunAgain, taskVars, connVars, clientVars, lockVars, diskVars,
         histVars
    <3> QED BY <1>1, <3>2, <3>3 DEF Stamped, StampMatches, Current
  <2>9. CASE EvictTimeout(c)
    <3>1. PICK k \in Kinds : Spawn(c, k, None)
      BY <1>2, <2>9 DEF EvictTimeout, RunAgain
    <3>2. /\ created + 1 \in Task /\ pc[created + 1] = "none"
          /\ \A t \in Task : pc'[t] = IF t = created + 1 THEN "created" ELSE pc[t]
          /\ \A t \in Task : job'[t] = IF t = created + 1
               THEN [owner |-> c, kind |-> k, subject |-> None] ELSE job[t]
          /\ UNCHANGED <<at, inbox, stamp, turn>>
      BY <1>3, <3>1, SpawnedTask
    <3>3. /\ cancelReq \subseteq cancelReq'
          /\ dirs' = dirs
      BY <1>1, <2>9 DEF EvictTimeout, RunAgain, taskVars, connVars, clientVars, lockVars, diskVars,
         histVars
    <3> QED BY <1>1, <3>2, <3>3 DEF Stamped, StampMatches, Current
  <2> QED BY <1>6, <2>1, <2>2, <2>3, <2>4, <2>5, <2>6, <2>7, <2>8, <2>9 DEF HandlerStep
<1>7. ASSUME NEW t \in Task, TurnStep(t) PROVE Stamped'
  <2>1. CASE Start(t)
    BY <2>1, <1>1, <1>4
    DEF Start, Wants, taskVars, connVars, clientVars, lockVars, diskVars, histVars,
        Stamped, StampMatches, Current
  <2>2. CASE StartFails(t)
    BY <2>2, <1>1, <1>4
    DEF StartFails, taskVars, connVars, clientVars, lockVars, diskVars, histVars,
        Stamped, StampMatches, Current
  <2>3. CASE GrantTurn(t)
    BY <2>3, <1>1, <1>4
    DEF GrantTurn, Grant, taskVars, connVars, clientVars, lockVars, diskVars, histVars,
        Stamped, StampMatches, Current
  <2>4. CASE Emit(t)
    BY <2>4, <1>1, <1>4
    DEF Emit, taskVars, connVars, clientVars, lockVars, diskVars, histVars, Stamped,
        StampMatches, Current
  <2>5. CASE Persist(t)
    BY <2>5, <1>1, <1>4
    DEF Persist, taskVars, connVars, clientVars, lockVars, diskVars, histVars, Stamped,
        StampMatches, Current
  <2>6. CASE TakeAnswer(t)
    BY <2>6, <1>1, <1>4
    DEF TakeAnswer, taskVars, connVars, clientVars, lockVars, diskVars, histVars,
        Stamped, StampMatches, Current
  <2>7. CASE Complete(t)
    BY <2>7, <1>1, <1>4
    DEF Complete, LeaveTurn, taskVars, connVars, clientVars, lockVars, diskVars,
        histVars, Stamped, StampMatches, Current
  <2>8. CASE Fail(t)
    BY <2>8, <1>1, <1>4
    DEF Fail, LeaveTurn, taskVars, connVars, clientVars, lockVars, diskVars, histVars,
        Stamped, StampMatches, Current
  <2>9. CASE Interrupt(t)
    BY <2>9, <1>1, <1>4
    DEF Interrupt, taskVars, connVars, clientVars, lockVars, diskVars, histVars,
        Stamped, StampMatches, Current
  <2>10. CASE Unwound(t)
    BY <2>10, <1>1, <1>4
    DEF Unwound, LeaveTurn, taskVars, connVars, clientVars, lockVars, diskVars,
        histVars, Stamped, StampMatches, Current
  <2>11. CASE UnwindRaises(t)
    BY <2>11, <1>1, <1>4
    DEF UnwindRaises, LeaveTurn, taskVars, connVars, clientVars, lockVars, diskVars,
        histVars, Stamped, StampMatches, Current
  <2>12. CASE Finish(t)
    BY <2>12, <1>1, <1>4
    DEF Finish, Finally, taskVars, connVars, clientVars, lockVars, diskVars, histVars,
        Stamped, StampMatches, Current
  <2>13. CASE FinishError(t)
    BY <2>13, <1>1, <1>4
    DEF FinishError, Finally, taskVars, connVars, clientVars, lockVars, diskVars,
        histVars, Stamped, StampMatches, Current
  <2> QED BY <1>7, <2>1, <2>2, <2>3, <2>4, <2>5, <2>6, <2>7, <2>8, <2>9, <2>10, <2>11,
  <2>12, <2>13 DEF TurnStep
<1>8. CASE Crash
  BY <1>8, <1>1, <1>4
  DEF Crash, taskVars, connVars, clientVars, lockVars, diskVars, histVars, Stamped,
      StampMatches, Current
<1> QED BY <1>5, <1>6, <1>7, <1>8 DEF Next

\* Once the rewinding frame had the lock nobody is left to take it: what waits has
\* been cancelled.
LEMMA LockedStep ==
  ASSUME IInv, OneSocket, LockedBefore, "resumeRound" \notin Frames, Next
  PROVE  LockedBefore'
<1>1. /\ pc \in [Task -> Pcs] /\ handler \in [Conn -> Handlers] /\ mode \in [Conn -> Modes]
      /\ cancelReq \subseteq Task /\ \A t \in Task : t \notin Conn
  <2>1. \A t \in Task : t \in Nat
    BY DEF Task
  <2>2. \A t \in Task : t \notin Conn
    BY <2>1, ConstantsAssumption
  <2> QED BY <2>2 DEF IInv, TypeOK
<1>2. \A k \in {"message", "round", "recovery"} : k \in Kinds
  BY DEF Kinds
<1>3. None \in Widget \cup {None} /\ marker \in Widget \cup {None}
  BY DEF IInv, TypeOK
<1>4. \A t \in Task : pc[t] \in InTurn <=> holder = t
  BY DEF IInv, TurnExclusion
<1>5. ASSUME NEW t \in Task, Current(t), NEW c \in Conn, handler[c] = "truncate"
      PROVE  FALSE
  <2>1. handler[job[t].owner] = "idle" /\ job[t].owner \in Conn
    BY <1>5, TheTurn DEF OneSocket
  <2> QED BY <1>5, <2>1 DEF OneSocket, Open
<1>6. ASSUME NEW c \in Conn, ClientFrame(c) PROVE LockedBefore'
  <2>1. CASE Connect(c)
    BY <2>1, <1>1
    DEF Connect, taskVars, connVars, clientVars, lockVars, diskVars, histVars,
        LockedBefore, TruncateExclusive, InTurn
  <2>2. CASE Disconnect(c)
    BY <2>2, <1>1
    DEF Disconnect, Close, taskVars, connVars, clientVars, lockVars, diskVars, histVars,
        LockedBefore, TruncateExclusive, InTurn
  <2>3. CASE Message(c)
    <3>1. Spawn(c, "message", None) /\ "message" \in Kinds
      BY <1>2, <2>3 DEF Message
    <3>2. /\ created + 1 \in Task /\ pc[created + 1] = "none"
          /\ \A t \in Task : pc'[t] = IF t = created + 1 THEN "created" ELSE pc[t]
          /\ \A t \in Task : job'[t] = IF t = created + 1
               THEN [owner |-> c, kind |-> "message", subject |-> None] ELSE job[t]
          /\ UNCHANGED <<at, inbox, stamp, turn>>
      BY <1>3, <3>1, SpawnedTask
    <3>3. /\ cancelReq \subseteq cancelReq'
          /\ handler' = [handler EXCEPT ![c] = "idle"]
          /\ mode' = mode \/ mode' = [mode EXCEPT ![c] = "none"]
      BY <1>1, <2>3 DEF Message, taskVars, connVars, clientVars, lockVars, diskVars, histVars
    <3> QED BY <1>1, <3>2, <3>3 DEF LockedBefore, TruncateExclusive, InTurn
  <2>4. CASE Cancel(c)
    BY <2>4, <1>1
    DEF Cancel, taskVars, connVars, clientVars, lockVars, diskVars, histVars,
        LockedBefore, TruncateExclusive, InTurn
  <2>5. CASE AnswerLive(c)
    BY <2>5, <1>1
    DEF AnswerLive, taskVars, connVars, clientVars, lockVars, diskVars, histVars,
        LockedBefore, TruncateExclusive, InTurn
  <2>6. CASE AnswerRecovers(c)
    <3>1. Spawn(c, "recovery", marker) /\ "recovery" \in Kinds
      BY <1>2, <2>6 DEF AnswerRecovers, Recover
    <3>2. /\ created + 1 \in Task /\ pc[created + 1] = "none"
          /\ \A t \in Task : pc'[t] = IF t = created + 1 THEN "created" ELSE pc[t]
          /\ \A t \in Task : job'[t] = IF t = created + 1
               THEN [owner |-> c, kind |-> "recovery", subject |-> marker] ELSE job[t]
          /\ UNCHANGED <<at, inbox, stamp, turn>>
      BY <1>3, <3>1, SpawnedTask
    <3>3. /\ cancelReq \subseteq cancelReq'
          /\ handler' = [handler EXCEPT ![c] = "idle"]
          /\ mode' = mode \/ mode' = [mode EXCEPT ![c] = "none"]
      BY <1>1, <2>6 DEF AnswerRecovers, Recover, taskVars, connVars, clientVars, lockVars,
         diskVars, histVars
    <3> QED BY <1>1, <3>2, <3>3 DEF LockedBefore, TruncateExclusive, InTurn
  <2>7. CASE AnswerDropped(c)
    BY <2>7, <1>1
    DEF AnswerDropped, taskVars, connVars, clientVars, lockVars, diskVars, histVars,
        LockedBefore, TruncateExclusive, InTurn
  <2>8. CASE ConfirmLive(c)
    BY <2>8, <1>1
    DEF ConfirmLive, taskVars, connVars, clientVars, lockVars, diskVars, histVars,
        LockedBefore, TruncateExclusive, InTurn
  <2>9. CASE ConfirmRecovers(c)
    <3>1. Spawn(c, "recovery", marker) /\ "recovery" \in Kinds
      BY <1>2, <2>9 DEF ConfirmRecovers, Recover
    <3>2. /\ created + 1 \in Task /\ pc[created + 1] = "none"
          /\ \A t \in Task : pc'[t] = IF t = created + 1 THEN "created" ELSE pc[t]
          /\ \A t \in Task : job'[t] = IF t = created + 1
               THEN [owner |-> c, kind |-> "recovery", subject |-> marker] ELSE job[t]
          /\ UNCHANGED <<at, inbox, stamp, turn>>
      BY <1>3, <3>1, SpawnedTask
    <3>3. /\ cancelReq \subseteq cancelReq'
          /\ handler' = [handler EXCEPT ![c] = "idle"]
          /\ mode' = mode \/ mode' = [mode EXCEPT ![c] = "none"]
      BY <1>1, <2>9 DEF ConfirmRecovers, Recover, taskVars, connVars, clientVars, lockVars,
         diskVars, histVars
    <3> QED BY <1>1, <3>2, <3>3 DEF LockedBefore, TruncateExclusive, InTurn
  <2>10. CASE ConfirmUnbound(c)
    BY <2>10, <1>1
    DEF ConfirmUnbound, Close, taskVars, connVars, clientVars, lockVars, diskVars,
        histVars, LockedBefore, TruncateExclusive, InTurn
  <2>11. CASE ResumeFromTurn(c)
    BY <2>11, <1>1
    DEF ResumeFromTurn, Rewind, taskVars, connVars, clientVars, lockVars, diskVars,
        histVars, LockedBefore, TruncateExclusive, InTurn
  <2>12. CASE ResumeFromRound(c)
    BY <2>12, <1>1
    DEF ResumeFromRound, Rewind, taskVars, connVars, clientVars, lockVars, diskVars,
        histVars, LockedBefore, TruncateExclusive, InTurn
  <2>13. CASE EvolutionComplete(c)
    BY <2>13, <1>1
    DEF EvolutionComplete, Rewind, taskVars, connVars, clientVars, lockVars, diskVars,
        histVars, LockedBefore, TruncateExclusive, InTurn
  <2> QED BY <1>6, <2>1, <2>2, <2>3, <2>4, <2>5, <2>6, <2>7, <2>8, <2>9, <2>10, <2>11,
  <2>12, <2>13 DEF ClientFrame
<1>7. ASSUME NEW c \in Conn, HandlerStep(c) PROVE LockedBefore'
  <2>1. CASE QuiescedForTurn(c)
    BY <2>1, <1>1
    DEF QuiescedForTurn, Quiesced, Wants, taskVars, connVars, clientVars, lockVars,
        diskVars, histVars, LockedBefore, TruncateExclusive, InTurn
  <2>2. CASE QuiescedForRound(c)
    BY <2>2, <1>1
    DEF QuiescedForRound, Quiesced, taskVars, connVars, clientVars, lockVars, diskVars,
        histVars, LockedBefore, TruncateExclusive, InTurn
  <2>3. CASE QuiescedForHub(c)
    <3>1. Spawn(c, "message", None) /\ "message" \in Kinds
      BY <1>2, <2>3 DEF QuiescedForHub, Quiesced
    <3>2. /\ created + 1 \in Task /\ pc[created + 1] = "none"
          /\ \A t \in Task : pc'[t] = IF t = created + 1 THEN "created" ELSE pc[t]
          /\ \A t \in Task : job'[t] = IF t = created + 1
               THEN [owner |-> c, kind |-> "message", subject |-> None] ELSE job[t]
          /\ UNCHANGED <<at, inbox, stamp, turn>>
      BY <1>3, <3>1, SpawnedTask
    <3>3. /\ cancelReq \subseteq cancelReq'
          /\ handler' = [handler EXCEPT ![c] = "idle"]
          /\ mode' = mode \/ mode' = [mode EXCEPT ![c] = "none"]
      BY <1>1, <2>3 DEF QuiescedForHub, Quiesced, taskVars, connVars, clientVars, lockVars,
         diskVars, histVars
    <3> QED BY <1>1, <3>2, <3>3 DEF LockedBefore, TruncateExclusive, InTurn
  <2>4. CASE GrantHandler(c)
    BY <2>4, <1>1
    DEF GrantHandler, Grant, taskVars, connVars, clientVars, lockVars, diskVars,
        histVars, LockedBefore, TruncateExclusive, InTurn
  <2>5. CASE Rewound(c)
    <3>1. holder = c /\ UNCHANGED <<pc, mode>>
      BY <2>5 DEF Rewound, taskVars
    <3> QED BY <1>1, <1>4, <3>1 DEF LockedBefore, TruncateExclusive
  <2>6. CASE RewindRaises(c)
    BY <2>6, <1>1
    DEF RewindRaises, taskVars, connVars, clientVars, lockVars, diskVars, histVars,
        LockedBefore, TruncateExclusive, InTurn
  <2>7. CASE Truncated(c)
    BY <2>7, <1>1
    DEF Truncated, Wants, taskVars, connVars, clientVars, lockVars, diskVars, histVars,
        LockedBefore, TruncateExclusive, InTurn
  <2>8. CASE Evicted(c)
    <3>1. PICK k \in Kinds : Spawn(c, k, None)
      BY <1>2, <2>8 DEF Evicted, RunAgain
    <3>2. /\ created + 1 \in Task /\ pc[created + 1] = "none"
          /\ \A t \in Task : pc'[t] = IF t = created + 1 THEN "created" ELSE pc[t]
          /\ \A t \in Task : job'[t] = IF t = created + 1
               THEN [owner |-> c, kind |-> k, subject |-> None] ELSE job[t]
          /\ UNCHANGED <<at, inbox, stamp, turn>>
      BY <1>3, <3>1, SpawnedTask
    <3>3. /\ cancelReq \subseteq cancelReq'
          /\ handler' = [handler EXCEPT ![c] = "idle"]
          /\ mode' = mode \/ mode' = [mode EXCEPT ![c] = "none"]
      BY <1>1, <2>8 DEF Evicted, RunAgain, taskVars, connVars, clientVars, lockVars, diskVars,
         histVars
    <3> QED BY <1>1, <3>2, <3>3 DEF LockedBefore, TruncateExclusive, InTurn
  <2>9. CASE EvictTimeout(c)
    <3>1. PICK k \in Kinds : Spawn(c, k, None)
      BY <1>2, <2>9 DEF EvictTimeout, RunAgain
    <3>2. /\ created + 1 \in Task /\ pc[created + 1] = "none"
          /\ \A t \in Task : pc'[t] = IF t = created + 1 THEN "created" ELSE pc[t]
          /\ \A t \in Task : job'[t] = IF t = created + 1
               THEN [owner |-> c, kind |-> k, subject |-> None] ELSE job[t]
          /\ UNCHANGED <<at, inbox, stamp, turn>>
      BY <1>3, <3>1, SpawnedTask
    <3>3. /\ cancelReq \subseteq cancelReq'
          /\ handler' = [handler EXCEPT ![c] = "idle"]
          /\ mode' = mode \/ mode' = [mode EXCEPT ![c] = "none"]
      BY <1>1, <2>9 DEF EvictTimeout, RunAgain, taskVars, connVars, clientVars, lockVars, diskVars,
         histVars
    <3> QED BY <1>1, <3>2, <3>3 DEF LockedBefore, TruncateExclusive, InTurn
  <2> QED BY <1>7, <2>1, <2>2, <2>3, <2>4, <2>5, <2>6, <2>7, <2>8, <2>9 DEF HandlerStep
<1>8. ASSUME NEW t \in Task, TurnStep(t) PROVE LockedBefore'
  <2>1. CASE Start(t)
    BY <2>1, <1>1
    DEF Start, Wants, taskVars, connVars, clientVars, lockVars, diskVars, histVars,
        LockedBefore, TruncateExclusive, InTurn
  <2>2. CASE StartFails(t)
    BY <2>2, <1>1
    DEF StartFails, taskVars, connVars, clientVars, lockVars, diskVars, histVars,
        LockedBefore, TruncateExclusive, InTurn
  <2>3. CASE GrantTurn(t)
    <3>1. Current(t) /\ handler' = handler /\ mode' = mode
      BY <2>3 DEF GrantTurn, Current, connVars
    <3> QED BY <1>1, <1>5, <3>1, <2>3 DEF LockedBefore, TruncateExclusive
  <2>4. CASE Emit(t)
    BY <2>4, <1>1
    DEF Emit, taskVars, connVars, clientVars, lockVars, diskVars, histVars,
        LockedBefore, TruncateExclusive, InTurn
  <2>5. CASE Persist(t)
    BY <2>5, <1>1
    DEF Persist, taskVars, connVars, clientVars, lockVars, diskVars, histVars,
        LockedBefore, TruncateExclusive, InTurn
  <2>6. CASE TakeAnswer(t)
    BY <2>6, <1>1
    DEF TakeAnswer, taskVars, connVars, clientVars, lockVars, diskVars, histVars,
        LockedBefore, TruncateExclusive, InTurn
  <2>7. CASE Complete(t)
    BY <2>7, <1>1
    DEF Complete, LeaveTurn, taskVars, connVars, clientVars, lockVars, diskVars,
        histVars, LockedBefore, TruncateExclusive, InTurn
  <2>8. CASE Fail(t)
    BY <2>8, <1>1
    DEF Fail, LeaveTurn, taskVars, connVars, clientVars, lockVars, diskVars, histVars,
        LockedBefore, TruncateExclusive, InTurn
  <2>9. CASE Interrupt(t)
    BY <2>9, <1>1
    DEF Interrupt, taskVars, connVars, clientVars, lockVars, diskVars, histVars,
        LockedBefore, TruncateExclusive, InTurn
  <2>10. CASE Unwound(t)
    BY <2>10, <1>1
    DEF Unwound, LeaveTurn, taskVars, connVars, clientVars, lockVars, diskVars,
        histVars, LockedBefore, TruncateExclusive, InTurn
  <2>11. CASE UnwindRaises(t)
    BY <2>11, <1>1
    DEF UnwindRaises, LeaveTurn, taskVars, connVars, clientVars, lockVars, diskVars,
        histVars, LockedBefore, TruncateExclusive, InTurn
  <2>12. CASE Finish(t)
    BY <2>12, <1>1
    DEF Finish, Finally, taskVars, connVars, clientVars, lockVars, diskVars, histVars,
        LockedBefore, TruncateExclusive, InTurn
  <2>13. CASE FinishError(t)
    BY <2>13, <1>1
    DEF FinishError, Finally, taskVars, connVars, clientVars, lockVars, diskVars,
        histVars, LockedBefore, TruncateExclusive, InTurn
  <2> QED BY <1>8, <2>1, <2>2, <2>3, <2>4, <2>5, <2>6, <2>7, <2>8, <2>9, <2>10, <2>11,
  <2>12, <2>13 DEF TurnStep
<1>9. CASE Crash
  BY <1>9, <1>1
  DEF Crash, taskVars, connVars, clientVars, lockVars, diskVars, histVars, LockedBefore,
      TruncateExclusive, InTurn
<1> QED BY <1>6, <1>7, <1>8, <1>9 DEF Next

\* What a frame that starts a turn does, whichever frame it is: the turn that
\* ran before is cancelled or done, and what was on display is not.
Spawned(c, k, w) ==
  /\ Spawn(c, k, w) /\ handler[c] \notin {"new", "gone"}
  /\ handler' = [handler EXCEPT ![c] = "idle"] /\ shown' = [shown EXCEPT ![c] = None]
  /\ IF handler[c] = "idle" THEN cancelReq' = cancelReq \cup ActiveLive(c)
                            ELSE cancelReq' = cancelReq
  /\ marker' \in {None, marker} /\ mode' \in {mode, [mode EXCEPT ![c] = "none"]}
  /\ UNCHANGED <<activeQueue, cache, emitted, recoveries, appliedLive>>

\* Four frames spawn a turn.
LEMMA SpawningSteps ==
  ASSUME IInv, NEW c \in Conn, Frames \cap Unasked = {},
         \/ Message(c) \/ AnswerRecovers(c) \/ Evicted(c) \/ EvictTimeout(c)
  PROVE  \E k \in Kinds, w \in {None, marker} : Spawned(c, k, w)
<1> USE DEF Spawned, taskVars, connVars, clientVars, lockVars, diskVars, histVars
<1>1. handler \in [Conn -> Handlers] /\ shown \in [Conn -> Widget \cup {None}]
  BY DEF IInv, TypeOK
<1>2. "auto" \notin Frames
  BY DEF Unasked
<1>3. \A k \in {"message", "round", "recovery"} : k \in Kinds
  BY DEF Kinds
<1>4. CASE Message(c)
  <2>1. Spawned(c, "message", None)
    BY <1>1, <1>2, <1>4 DEF Message
  <2> QED BY <1>3, <2>1
<1>5. CASE AnswerRecovers(c)
  <2>1. Spawned(c, "recovery", marker)
    BY <1>1, <1>5 DEF AnswerRecovers, Recover
  <2> QED BY <1>3, <2>1
<1>6. CASE Evicted(c)
  <2> DEFINE k == IF mode[c] = "turn" THEN "message" ELSE "round"
  <2>1. Spawned(c, k, None)
    BY <1>1, <1>6 DEF Evicted, RunAgain
  <2> QED BY <1>3, <2>1
<1>7. CASE EvictTimeout(c)
  <2> DEFINE k == IF mode[c] = "turn" THEN "message" ELSE "round"
  <2>1. Spawned(c, k, None)
    BY <1>1, <1>7 DEF EvictTimeout, RunAgain
  <2> QED BY <1>3, <2>1
<1> QED BY <1>4, <1>5, <1>6, <1>7

\* The spawned turn is then the only one that nobody cancelled.
LEMMA SpawnedAlone ==
  ASSUME IInv, OneSocket, NEW c \in Conn, NEW k \in Kinds, NEW w \in {None, marker}, Spawned(c, k, w)
  PROVE  /\ created + 1 \in Task /\ pc[created + 1] = "none"
         /\ \A t \in Task : pc'[t] = IF t = created + 1 THEN "created" ELSE pc[t]
         /\ \A t \in Task : job'[t] = IF t = created + 1
                                      THEN [owner |-> c, kind |-> k, subject |-> w] ELSE job[t]
         /\ UNCHANGED <<at, inbox, stamp, turn>>
         /\ \A t \in Task : Current(t)' => t = created + 1
         /\ \A d \in Conn : handler[d] \notin {"new", "gone"} => d = c
<1> USE DEF Spawned
<1>1. w \in Widget \cup {None}
  BY DEF IInv, TypeOK
<1>2. /\ created + 1 \in Task /\ pc[created + 1] = "none"
      /\ \A t \in Task : pc'[t] = IF t = created + 1 THEN "created" ELSE pc[t]
      /\ \A t \in Task : job'[t] = IF t = created + 1
                                   THEN [owner |-> c, kind |-> k, subject |-> w] ELSE job[t]
      /\ UNCHANGED <<at, inbox, stamp, turn>>
  BY <1>1, SpawnedTask
<1>3. \A d \in Conn : handler[d] \notin {"new", "gone"} => d = c
  BY DEF OneSocket, Open
<1>4. ASSUME NEW t \in Task, t # created + 1, Current(t)' PROVE FALSE
  <2>1. Current(t) /\ t \notin cancelReq' /\ (t \in ActiveLive(c) => handler[c] # "idle")
    BY <1>2, <1>4 DEF Current
  <2>2. job[t].owner = c /\ handler[c] = "idle" /\ activeTask[c] = t
    BY <1>3, <2>1 DEF OneSocket, IInv, NoOrphanTurn, TasksInOrder, Current, InClient
  <2> QED BY <2>1, <2>2 DEF ActiveLive, Live, Current
<1> QED BY <1>2, <1>3, <1>4

\* The three invariants after such a frame.
LEMMA WidgetsSpawn ==
  ASSUME IInv, OneSocket, WidgetsInOrder, QueueFits, AnswersInLine, NEW c \in Conn, NEW k \in Kinds,
         NEW w \in {None, marker}, Spawned(c, k, w)
  PROVE  WidgetsInOrder'
<1>1. /\ created + 1 \in Task /\ pc[created + 1] = "none"
      /\ \A t \in Task : pc'[t] = IF t = created + 1 THEN "created" ELSE pc[t]
      /\ \A t \in Task : job'[t] = IF t = created + 1
                                   THEN [owner |-> c, kind |-> k, subject |-> w] ELSE job[t]
      /\ UNCHANGED <<at, inbox, stamp, turn>>
      /\ \A t \in Task : Current(t)' => t = created + 1
      /\ \A d \in Conn : handler[d] \notin {"new", "gone"} => d = c
  BY SpawnedAlone
<1>2. /\ UNCHANGED <<activeQueue, cache, emitted, recoveries, appliedLive>> /\ marker' \in {None, marker}
      /\ \A d \in Conn : handler'[d] = IF d = c THEN "idle" ELSE handler[d]
      /\ \A d \in Conn : shown'[d] = IF d = c THEN None ELSE shown[d]
      /\ handler[c] \notin {"new", "gone"}
      /\ activeQueue \in [Conn -> Task \cup {None}] /\ mode \in [Conn -> Modes]
      /\ mode' \in {mode, [mode EXCEPT ![c] = "none"]}
  BY DEF Spawned, IInv, TypeOK
<1>3. None \in Emitted /\ w \in Emitted
  <2>1. emitted \in Nat
    BY DEF IInv, TypeOK
  <2> QED BY <2>1 DEF WidgetsInOrder, Emitted, None
<1>4. Emitted' = Emitted
  BY <1>2 DEF Emitted
<1>5. /\ marker' \in Emitted
      /\ \A d \in Conn : shown'[d] \in Emitted /\ cache'[d] \subseteq Emitted
  BY <1>2, <1>3 DEF WidgetsInOrder
<1>6. \A t \in Task : at'[t] \in Emitted /\ job'[t].subject \in Emitted
  BY <1>1, <1>3 DEF WidgetsInOrder
<1>7. /\ \A t \in Task : pc'[t] \in {"none", "created", "waiting"} => at'[t] = None
      /\ \A t, u \in Task : at'[t] = at'[u] /\ at'[t] # None => t = u
  BY <1>1 DEF WidgetsInOrder
<1>8. /\ \A x \in Widget : recoveries'[x] > 0 => x \in Emitted
      /\ appliedLive' \subseteq Emitted \ {None}
  BY <1>2 DEF WidgetsInOrder
<1> QED BY <1>4, <1>5, <1>6, <1>7, <1>8 DEF WidgetsInOrder

LEMMA QueueSpawn ==
  ASSUME IInv, OneSocket, WidgetsInOrder, QueueFits, AnswersInLine, NEW c \in Conn, NEW k \in Kinds,
         NEW w \in {None, marker}, Spawned(c, k, w)
  PROVE  QueueFits'
<1>1. /\ created + 1 \in Task /\ pc[created + 1] = "none"
      /\ \A t \in Task : pc'[t] = IF t = created + 1 THEN "created" ELSE pc[t]
      /\ \A t \in Task : job'[t] = IF t = created + 1
                                   THEN [owner |-> c, kind |-> k, subject |-> w] ELSE job[t]
      /\ UNCHANGED <<at, inbox, stamp, turn>>
      /\ \A t \in Task : Current(t)' => t = created + 1
      /\ \A d \in Conn : handler[d] \notin {"new", "gone"} => d = c
  BY SpawnedAlone
<1>2. /\ UNCHANGED <<activeQueue, cache, emitted, recoveries, appliedLive>> /\ marker' \in {None, marker}
      /\ \A d \in Conn : handler'[d] = IF d = c THEN "idle" ELSE handler[d]
      /\ \A d \in Conn : shown'[d] = IF d = c THEN None ELSE shown[d]
      /\ handler[c] \notin {"new", "gone"}
      /\ activeQueue \in [Conn -> Task \cup {None}] /\ mode \in [Conn -> Modes]
      /\ mode' \in {mode, [mode EXCEPT ![c] = "none"]}
  BY DEF Spawned, IInv, TypeOK
<1>3. None \in Emitted /\ w \in Emitted
  <2>1. emitted \in Nat
    BY DEF IInv, TypeOK
  <2> QED BY <2>1 DEF WidgetsInOrder, Emitted, None
<1>4. \A d \in Conn : mode'[d] # "evolve" /\ (handler'[d] = "new" => activeQueue'[d] = None)
  BY <1>2 DEF QueueFits
<1>5. \A t \in Task : Current(t)' =>
        pc'[t] = "created" /\ job'[t].owner = c /\ shown'[c] = None
  BY <1>1, <1>2
<1>6. \A d \in Conn : ~ (handler'[d] = "idle" /\ shown'[d] # None)
  BY <1>1, <1>2
<1> QED BY <1>4, <1>5, <1>6 DEF QueueFits

LEMMA AnswersSpawn ==
  ASSUME IInv, OneSocket, WidgetsInOrder, QueueFits, AnswersInLine, NEW c \in Conn, NEW k \in Kinds,
         NEW w \in {None, marker}, Spawned(c, k, w)
  PROVE  AnswersInLine'
<1>1. /\ created + 1 \in Task /\ pc[created + 1] = "none"
      /\ \A t \in Task : pc'[t] = IF t = created + 1 THEN "created" ELSE pc[t]
      /\ \A t \in Task : job'[t] = IF t = created + 1
                                   THEN [owner |-> c, kind |-> k, subject |-> w] ELSE job[t]
      /\ UNCHANGED <<at, inbox, stamp, turn>>
      /\ \A t \in Task : Current(t)' => t = created + 1
      /\ \A d \in Conn : handler[d] \notin {"new", "gone"} => d = c
  BY SpawnedAlone
<1>2. /\ UNCHANGED <<activeQueue, cache, emitted, recoveries, appliedLive>> /\ marker' \in {None, marker}
      /\ \A d \in Conn : handler'[d] = IF d = c THEN "idle" ELSE handler[d]
      /\ \A d \in Conn : shown'[d] = IF d = c THEN None ELSE shown[d]
      /\ handler[c] \notin {"new", "gone"}
      /\ activeQueue \in [Conn -> Task \cup {None}] /\ mode \in [Conn -> Modes]
      /\ mode' \in {mode, [mode EXCEPT ![c] = "none"]}
  BY DEF Spawned, IInv, TypeOK
<1>3. None \in Emitted /\ w \in Emitted
  <2>1. emitted \in Nat
    BY DEF IInv, TypeOK
  <2> QED BY <2>1 DEF WidgetsInOrder, Emitted, None
<1>4. inbox[created + 1] = <<>>
  BY <1>1 DEF AnswersInLine
<1>5. \A t \in Task :
        pc'[t] = "none" \/ (Current(t)' /\ pc'[t] \in {"created", "waiting", "running"}) =>
          inbox'[t] = <<>>
  BY <1>1, <1>4 DEF AnswersInLine
<1>6. \A t \in Task : Current(t)' => pc'[t] = "created"
  BY <1>1
<1>7. None \notin appliedLive /\ marker \notin appliedLive /\ marker' \notin appliedLive'
  BY <1>2 DEF WidgetsInOrder, AnswersInLine, AnsweredStaysAnswered, NoGhostWidget
<1>8. \A t \in Task : Current(t)' => job'[t].subject \notin appliedLive'
  BY <1>1, <1>2, <1>7
<1>9. \A t \in Task : at'[t] \notin appliedLive'
  BY <1>1, <1>2 DEF AnswersInLine
<1>10. AnsweredStaysAnswered'
  BY <1>2, <1>7 DEF AnswersInLine, AnsweredStaysAnswered, NoGhostWidget
<1> QED BY <1>5, <1>6, <1>8, <1>9, <1>10 DEF AnswersInLine

\* Every step keeps the widgets in order: only Emit has a new one, with the next number.
LEMMA WidgetsStep ==
  ASSUME IInv, OneSocket, WidgetsInOrder, QueueFits, AnswersInLine,
         Frames \cap Unasked = {}, Next
  PROVE  WidgetsInOrder'
<1>1. /\ pc \in [Task -> Pcs] /\ at \in [Task -> Widget \cup {None}]
      /\ job \in [Task -> [owner: Conn \cup {None}, kind: Kinds, subject: Widget \cup {None}]]
      /\ shown \in [Conn -> Widget \cup {None}] /\ cache \in [Conn -> SUBSET Widget]
      /\ recoveries \in [Widget -> Nat] /\ emitted \in Nat /\ \A w \in Widget : w \in Nat
      /\ None = 0 /\ WidgetOnDisplay
      /\ \A t \in Task : pc[t] # "none" => job[t].owner \in Conn
  BY DEF IInv, TypeOK, Widget, None, TasksInOrder, WidgetOnDisplay
<1>2. None \in Widget \cup {None} /\ marker \in Widget \cup {None} /\ None \in Emitted /\ marker \in Emitted
  BY <1>1 DEF IInv, TypeOK, WidgetsInOrder, Emitted
<1>3. \A f \in Unasked : f \notin Frames
  OBVIOUS
<1>4. \A c \in Conn : mode[c] # "evolve"
  BY DEF QueueFits
<1>5. ASSUME NEW c \in Conn, ClientFrame(c) PROVE WidgetsInOrder'
  <2>1. CASE Connect(c)
    BY <2>1, <1>1, <1>2
    DEF Connect, taskVars, connVars, clientVars, lockVars, diskVars, histVars,
        WidgetsInOrder, Emitted
  <2>2. CASE Disconnect(c)
    BY <2>2, <1>1, <1>2
    DEF Disconnect, Close, taskVars, connVars, clientVars, lockVars, diskVars, histVars,
        WidgetsInOrder, Emitted
  <2>3. CASE Message(c)
    BY <2>3, SpawningSteps, WidgetsSpawn
  <2>4. CASE Cancel(c)
    BY <2>4, <1>1, <1>2
    DEF Cancel, taskVars, connVars, clientVars, lockVars, diskVars, histVars,
        WidgetsInOrder, Emitted
  <2>5. CASE AnswerLive(c)
    BY <2>5, <1>1, <1>2
    DEF AnswerLive, taskVars, connVars, clientVars, lockVars, diskVars, histVars,
        WidgetsInOrder, Emitted
  <2>6. CASE AnswerRecovers(c)
    BY <2>6, SpawningSteps, WidgetsSpawn
  <2>7. CASE AnswerDropped(c)
    BY <2>7, <1>1, <1>2
    DEF AnswerDropped, taskVars, connVars, clientVars, lockVars, diskVars, histVars,
        WidgetsInOrder, Emitted
  <2>8. CASE ConfirmLive(c)
    BY <1>3, <2>8 DEF ConfirmLive, Unasked
  <2>9. CASE ConfirmRecovers(c)
    BY <1>3, <2>9 DEF ConfirmRecovers, Unasked
  <2>10. CASE ConfirmUnbound(c)
    BY <1>3, <2>10 DEF ConfirmUnbound, Unasked
  <2>11. CASE ResumeFromTurn(c)
    BY <2>11, <1>1, <1>2
    DEF ResumeFromTurn, Rewind, taskVars, connVars, clientVars, lockVars, diskVars,
        histVars, WidgetsInOrder, Emitted
  <2>12. CASE ResumeFromRound(c)
    BY <2>12, <1>1, <1>2
    DEF ResumeFromRound, Rewind, taskVars, connVars, clientVars, lockVars, diskVars,
        histVars, WidgetsInOrder, Emitted
  <2>13. CASE EvolutionComplete(c)
    BY <1>3, <2>13 DEF EvolutionComplete, Unasked
  <2> QED BY <1>5, <2>1, <2>2, <2>3, <2>4, <2>5, <2>6, <2>7, <2>8, <2>9, <2>10, <2>11,
  <2>12, <2>13 DEF ClientFrame
<1>6. ASSUME NEW c \in Conn, HandlerStep(c) PROVE WidgetsInOrder'
  <2>1. CASE QuiescedForTurn(c)
    BY <2>1, <1>1, <1>2
    DEF QuiescedForTurn, Quiesced, Wants, taskVars, connVars, clientVars, lockVars,
        diskVars, histVars, WidgetsInOrder, Emitted
  <2>2. CASE QuiescedForRound(c)
    BY <2>2, <1>1, <1>2
    DEF QuiescedForRound, Quiesced, taskVars, connVars, clientVars, lockVars, diskVars,
        histVars, WidgetsInOrder, Emitted
  <2>3. CASE QuiescedForHub(c)
    BY <1>4, <2>3 DEF QuiescedForHub, Quiesced
  <2>4. CASE GrantHandler(c)
    BY <2>4, <1>1, <1>2
    DEF GrantHandler, Grant, taskVars, connVars, clientVars, lockVars, diskVars,
        histVars, WidgetsInOrder, Emitted
  <2>5. CASE Rewound(c)
    BY <2>5, <1>1, <1>2
    DEF Rewound, taskVars, connVars, clientVars, lockVars, diskVars, histVars,
        WidgetsInOrder, Emitted
  <2>6. CASE RewindRaises(c)
    BY <2>6, <1>1, <1>2
    DEF RewindRaises, taskVars, connVars, clientVars, lockVars, diskVars, histVars,
        WidgetsInOrder, Emitted
  <2>7. CASE Truncated(c)
    BY <2>7, <1>1, <1>2
    DEF Truncated, Wants, taskVars, connVars, clientVars, lockVars, diskVars, histVars,
        WidgetsInOrder, Emitted
  <2>8. CASE Evicted(c)
    BY <2>8, SpawningSteps, WidgetsSpawn
  <2>9. CASE EvictTimeout(c)
    BY <2>9, SpawningSteps, WidgetsSpawn
  <2> QED BY <1>6, <2>1, <2>2, <2>3, <2>4, <2>5, <2>6, <2>7, <2>8, <2>9 DEF HandlerStep
<1>7. ASSUME NEW t \in Task, TurnStep(t) PROVE WidgetsInOrder'
  <2>1. CASE Start(t)
    BY <2>1, <1>1, <1>2
    DEF Start, Wants, taskVars, connVars, clientVars, lockVars, diskVars, histVars,
        WidgetsInOrder, Emitted
  <2>2. CASE StartFails(t)
    BY <2>2, <1>1, <1>2
    DEF StartFails, taskVars, connVars, clientVars, lockVars, diskVars, histVars,
        WidgetsInOrder, Emitted
  <2>3. CASE GrantTurn(t)
    BY <2>3, <1>1, <1>2
    DEF GrantTurn, Grant, taskVars, connVars, clientVars, lockVars, diskVars, histVars,
        WidgetsInOrder, Emitted
  <2>4. CASE Emit(t)
    BY <2>4, <1>1, <1>2
    DEF Emit, taskVars, connVars, clientVars, lockVars, diskVars, histVars,
        WidgetsInOrder, Emitted
  <2>5. CASE Persist(t)
    BY <2>5, <1>1, <1>2
    DEF Persist, taskVars, connVars, clientVars, lockVars, diskVars, histVars,
        WidgetsInOrder, Emitted
  <2>6. CASE TakeAnswer(t)
    <3>1. pc[t] = "parked" /\ at[t] \in Emitted \ {None}
      BY <1>1, <2>6 DEF TakeAnswer, WidgetsInOrder, WidgetOnDisplay
    <3>2. /\ UNCHANGED <<marker, emitted, shown, cache, job, recoveries>>
          /\ \A u \in Task : at'[u] = IF u = t THEN None ELSE at[u]
          /\ \A u \in Task : pc'[u] = IF u = t THEN "running" ELSE pc[u]
          /\ appliedLive' = appliedLive \cup {at[t]}
      BY <1>1, <2>6 DEF TakeAnswer, connVars, clientVars, diskVars
    <3> QED BY <1>2, <3>1, <3>2 DEF WidgetsInOrder, Emitted
  <2>7. CASE Complete(t)
    BY <2>7, <1>1, <1>2
    DEF Complete, LeaveTurn, taskVars, connVars, clientVars, lockVars, diskVars,
        histVars, WidgetsInOrder, Emitted
  <2>8. CASE Fail(t)
    BY <2>8, <1>1, <1>2
    DEF Fail, LeaveTurn, taskVars, connVars, clientVars, lockVars, diskVars, histVars,
        WidgetsInOrder, Emitted
  <2>9. CASE Interrupt(t)
    BY <2>9, <1>1, <1>2
    DEF Interrupt, taskVars, connVars, clientVars, lockVars, diskVars, histVars,
        WidgetsInOrder, Emitted
  <2>10. CASE Unwound(t)
    BY <2>10, <1>1, <1>2
    DEF Unwound, LeaveTurn, taskVars, connVars, clientVars, lockVars, diskVars,
        histVars, WidgetsInOrder, Emitted
  <2>11. CASE UnwindRaises(t)
    BY <2>11, <1>1, <1>2
    DEF UnwindRaises, LeaveTurn, taskVars, connVars, clientVars, lockVars, diskVars,
        histVars, WidgetsInOrder, Emitted
  <2>12. CASE Finish(t)
    BY <2>12, <1>1, <1>2
    DEF Finish, Finally, taskVars, connVars, clientVars, lockVars, diskVars, histVars,
        WidgetsInOrder, Emitted
  <2>13. CASE FinishError(t)
    BY <2>13, <1>1, <1>2
    DEF FinishError, Finally, taskVars, connVars, clientVars, lockVars, diskVars,
        histVars, WidgetsInOrder, Emitted
  <2> QED BY <1>7, <2>1, <2>2, <2>3, <2>4, <2>5, <2>6, <2>7, <2>8, <2>9, <2>10, <2>11,
  <2>12, <2>13 DEF TurnStep
<1>8. CASE Crash
  BY <1>8, <1>1, <1>2
  DEF Crash, taskVars, connVars, clientVars, lockVars, diskVars, histVars,
      WidgetsInOrder, Emitted
<1> QED BY <1>5, <1>6, <1>7, <1>8 DEF Next

\* Every step keeps the queue of a connection that of the turn on display.
LEMMA QueueStep ==
  ASSUME IInv, OneSocket, WidgetsInOrder, QueueFits, AnswersInLine,
         Frames \cap Unasked = {}, Next
  PROVE  QueueFits'
<1>1. /\ pc \in [Task -> Pcs] /\ at \in [Task -> Widget \cup {None}]
      /\ job \in [Task -> [owner: Conn \cup {None}, kind: Kinds, subject: Widget \cup {None}]]
      /\ handler \in [Conn -> Handlers] /\ shown \in [Conn -> Widget \cup {None}]
      /\ activeQueue \in [Conn -> Task \cup {None}] /\ inbox \in [Task -> Seq(Widget)]
      /\ cancelReq \subseteq Task /\ mode \in [Conn -> Modes]
      /\ \A t \in Task : pc[t] # "none" => job[t].owner \in Conn
      /\ \A t \in Task : t # None
  BY DEF IInv, TypeOK, TasksInOrder, Task, None
<1>2. /\ \A t, u \in Task : Current(t) /\ Current(u) => t = u
      /\ \A t \in Task : Current(t) => job[t].owner \in Conn /\ handler[job[t].owner] = "idle"
                                       /\ activeTask[job[t].owner] = t
      /\ \A c, d \in Conn : handler[c] \notin {"new", "gone"} /\ handler[d] \notin {"new", "gone"}
                              => c = d
  BY TheTurn DEF OneSocket, Open, IInv, NoOrphanTurn, Current
<1>3. \A c \in Conn : activeQueue[c] # None => job[activeQueue[c]].owner = c /\ pc[activeQueue[c]] # "none"
  BY DEF IInv, QueueMadeByTurn
<1>4. \A f \in Unasked : f \notin Frames
  OBVIOUS
<1>5. \A t \in Task : pc[t] # "none" => handler[job[t].owner] # "new"
  BY DEF OneSocket
<1>6. \A c \in Conn : mode[c] # "evolve"
  BY DEF QueueFits
<1>7. ASSUME NEW c \in Conn, ClientFrame(c) PROVE QueueFits'
  <2>1. CASE Connect(c)
    BY <2>1, <1>1, <1>2, <1>3, <1>5
    DEF Connect, taskVars, connVars, clientVars, lockVars, diskVars, histVars,
        QueueFits, Current
  <2>2. CASE Disconnect(c)
    <3>1. /\ UNCHANGED <<pc, job, at, inbox, activeQueue>> /\ handler[c] = "idle"
          /\ \A d \in Conn : d # c => shown'[d] = shown[d] /\ handler'[d] = handler[d]
          /\ handler'[c] \in {"gone", "quiesce"} \/ (handler'[c] = "idle" /\ shown'[c] = None)
          /\ cancelReq' = cancelReq \cup ActiveLive(c)
          /\ mode' = mode \/ \E m \in Modes \ {"evolve"} : mode' = [mode EXCEPT ![c] = m]
      BY <1>1, <2>2 DEF Disconnect, Close, connVars, clientVars, Modes
    <3>2. \A t \in Task : ~ Current(t)'
      <4>1. ASSUME NEW t \in Task, Current(t)' PROVE FALSE
        <5>1. Current(t) /\ t \notin ActiveLive(c)
          BY <3>1, <4>1 DEF Current
        <5>2. activeTask[c] = t
          BY <1>2, <3>1, <5>1
        <5> QED BY <5>1, <5>2 DEF ActiveLive, Live, Current
      <4> QED BY <4>1
    <3>3. \A d \in Conn : ~ (handler'[d] = "idle" /\ shown'[d] # None)
      BY <1>2, <3>1
    <3>4. \A d \in Conn : mode'[d] # "evolve" /\ (handler'[d] = "new" => activeQueue'[d] = None)
      BY <1>1, <3>1 DEF QueueFits
    <3> QED BY <3>2, <3>3, <3>4 DEF QueueFits
  <2>3. CASE Message(c)
    BY <2>3, SpawningSteps, QueueSpawn
  <2>4. CASE Cancel(c)
    <3>1. /\ UNCHANGED <<pc, job, at, inbox, activeQueue>> /\ handler[c] = "idle"
          /\ \A d \in Conn : d # c => shown'[d] = shown[d] /\ handler'[d] = handler[d]
          /\ handler'[c] \in {"gone", "quiesce"} \/ (handler'[c] = "idle" /\ shown'[c] = None)
          /\ cancelReq' = cancelReq \cup ActiveLive(c)
          /\ mode' = mode \/ \E m \in Modes \ {"evolve"} : mode' = [mode EXCEPT ![c] = m]
      BY <1>1, <2>4 DEF Cancel, connVars, clientVars, Modes
    <3>2. \A t \in Task : ~ Current(t)'
      <4>1. ASSUME NEW t \in Task, Current(t)' PROVE FALSE
        <5>1. Current(t) /\ t \notin ActiveLive(c)
          BY <3>1, <4>1 DEF Current
        <5>2. activeTask[c] = t
          BY <1>2, <3>1, <5>1
        <5> QED BY <5>1, <5>2 DEF ActiveLive, Live, Current
      <4> QED BY <4>1
    <3>3. \A d \in Conn : ~ (handler'[d] = "idle" /\ shown'[d] # None)
      BY <1>2, <3>1
    <3>4. \A d \in Conn : mode'[d] # "evolve" /\ (handler'[d] = "new" => activeQueue'[d] = None)
      BY <1>1, <3>1 DEF QueueFits
    <3> QED BY <3>2, <3>3, <3>4 DEF QueueFits
  <2>5. CASE AnswerLive(c)
    BY <2>5, <1>1, <1>2, <1>3, <1>5
    DEF AnswerLive, taskVars, connVars, clientVars, lockVars, diskVars, histVars,
        QueueFits, Current
  <2>6. CASE AnswerRecovers(c)
    BY <2>6, SpawningSteps, QueueSpawn
  <2>7. CASE AnswerDropped(c)
    BY <2>7, <1>1, <1>2, <1>3, <1>5
    DEF AnswerDropped, taskVars, connVars, clientVars, lockVars, diskVars, histVars,
        QueueFits, Current
  <2>8. CASE ConfirmLive(c)
    BY <1>4, <2>8 DEF ConfirmLive, Unasked
  <2>9. CASE ConfirmRecovers(c)
    BY <1>4, <2>9 DEF ConfirmRecovers, Unasked
  <2>10. CASE ConfirmUnbound(c)
    BY <1>4, <2>10 DEF ConfirmUnbound, Unasked
  <2>11. CASE ResumeFromTurn(c)
    <3>1. /\ UNCHANGED <<pc, job, at, inbox, activeQueue>> /\ handler[c] = "idle"
          /\ \A d \in Conn : d # c => shown'[d] = shown[d] /\ handler'[d] = handler[d]
          /\ handler'[c] \in {"gone", "quiesce"} \/ (handler'[c] = "idle" /\ shown'[c] = None)
          /\ cancelReq' = cancelReq \cup ActiveLive(c)
          /\ mode' = mode \/ \E m \in Modes \ {"evolve"} : mode' = [mode EXCEPT ![c] = m]
      BY <1>1, <2>11 DEF ResumeFromTurn, Rewind, connVars, clientVars, Modes
    <3>2. \A t \in Task : ~ Current(t)'
      <4>1. ASSUME NEW t \in Task, Current(t)' PROVE FALSE
        <5>1. Current(t) /\ t \notin ActiveLive(c)
          BY <3>1, <4>1 DEF Current
        <5>2. activeTask[c] = t
          BY <1>2, <3>1, <5>1
        <5> QED BY <5>1, <5>2 DEF ActiveLive, Live, Current
      <4> QED BY <4>1
    <3>3. \A d \in Conn : ~ (handler'[d] = "idle" /\ shown'[d] # None)
      BY <1>2, <3>1
    <3>4. \A d \in Conn : mode'[d] # "evolve" /\ (handler'[d] = "new" => activeQueue'[d] = None)
      BY <1>1, <3>1 DEF QueueFits
    <3> QED BY <3>2, <3>3, <3>4 DEF QueueFits
  <2>12. CASE ResumeFromRound(c)
    <3>1. /\ UNCHANGED <<pc, job, at, inbox, activeQueue>> /\ handler[c] = "idle"
          /\ \A d \in Conn : d # c => shown'[d] = shown[d] /\ handler'[d] = handler[d]
          /\ handler'[c] \in {"gone", "quiesce"} \/ (handler'[c] = "idle" /\ shown'[c] = None)
          /\ cancelReq' = cancelReq \cup ActiveLive(c)
          /\ mode' = mode \/ \E m \in Modes \ {"evolve"} : mode' = [mode EXCEPT ![c] = m]
      BY <1>1, <2>12 DEF ResumeFromRound, Rewind, connVars, clientVars, Modes
    <3>2. \A t \in Task : ~ Current(t)'
      <4>1. ASSUME NEW t \in Task, Current(t)' PROVE FALSE
        <5>1. Current(t) /\ t \notin ActiveLive(c)
          BY <3>1, <4>1 DEF Current
        <5>2. activeTask[c] = t
          BY <1>2, <3>1, <5>1
        <5> QED BY <5>1, <5>2 DEF ActiveLive, Live, Current
      <4> QED BY <4>1
    <3>3. \A d \in Conn : ~ (handler'[d] = "idle" /\ shown'[d] # None)
      BY <1>2, <3>1
    <3>4. \A d \in Conn : mode'[d] # "evolve" /\ (handler'[d] = "new" => activeQueue'[d] = None)
      BY <1>1, <3>1 DEF QueueFits
    <3> QED BY <3>2, <3>3, <3>4 DEF QueueFits
  <2>13. CASE EvolutionComplete(c)
    BY <1>4, <2>13 DEF EvolutionComplete, Unasked
  <2> QED BY <1>7, <2>1, <2>2, <2>3, <2>4, <2>5, <2>6, <2>7, <2>8, <2>9, <2>10, <2>11,
  <2>12, <2>13 DEF ClientFrame
<1>8. ASSUME NEW c \in Conn, HandlerStep(c) PROVE QueueFits'
  <2>1. CASE QuiescedForTurn(c)
    BY <2>1, <1>1, <1>2, <1>3, <1>5
    DEF QuiescedForTurn, Quiesced, Wants, taskVars, connVars, clientVars, lockVars,
        diskVars, histVars, QueueFits, Current
  <2>2. CASE QuiescedForRound(c)
    BY <2>2, <1>1, <1>2, <1>3, <1>5
    DEF QuiescedForRound, Quiesced, taskVars, connVars, clientVars, lockVars, diskVars,
        histVars, QueueFits, Current
  <2>3. CASE QuiescedForHub(c)
    BY <1>6, <2>3 DEF QuiescedForHub, Quiesced
  <2>4. CASE GrantHandler(c)
    BY <2>4, <1>1, <1>2, <1>3, <1>5
    DEF GrantHandler, Grant, taskVars, connVars, clientVars, lockVars, diskVars,
        histVars, QueueFits, Current
  <2>5. CASE Rewound(c)
    BY <2>5, <1>1, <1>2, <1>3, <1>5
    DEF Rewound, taskVars, connVars, clientVars, lockVars, diskVars, histVars,
        QueueFits, Current
  <2>6. CASE RewindRaises(c)
    BY <2>6, <1>1, <1>2, <1>3, <1>5
    DEF RewindRaises, taskVars, connVars, clientVars, lockVars, diskVars, histVars,
        QueueFits, Current
  <2>7. CASE Truncated(c)
    <3>1. \A d \in Conn : handler'[d] # "idle"
      BY <1>1, <1>2, <2>7 DEF Truncated
    <3>2. /\ UNCHANGED <<pc, job, shown, activeQueue, mode>> /\ cancelReq \subseteq cancelReq'
          /\ \A d \in Conn : handler'[d] = IF d = c THEN "evict" ELSE handler[d]
      BY <1>1, <2>7 DEF Truncated, clientVars
    <3> QED BY <1>1, <3>1, <3>2 DEF QueueFits, Current
  <2>8. CASE Evicted(c)
    BY <2>8, SpawningSteps, QueueSpawn
  <2>9. CASE EvictTimeout(c)
    BY <2>9, SpawningSteps, QueueSpawn
  <2> QED BY <1>8, <2>1, <2>2, <2>3, <2>4, <2>5, <2>6, <2>7, <2>8, <2>9 DEF HandlerStep
<1>9. ASSUME NEW t \in Task, TurnStep(t) PROVE QueueFits'
  <2>1. CASE Start(t)
    BY <2>1, <1>1, <1>2, <1>3, <1>5
    DEF Start, Wants, taskVars, connVars, clientVars, lockVars, diskVars, histVars,
        QueueFits, Current
  <2>2. CASE StartFails(t)
    BY <2>2, <1>1, <1>2, <1>3, <1>5
    DEF StartFails, taskVars, connVars, clientVars, lockVars, diskVars, histVars,
        QueueFits, Current
  <2>3. CASE GrantTurn(t)
    BY <2>3, <1>1, <1>2, <1>3, <1>5
    DEF GrantTurn, Grant, taskVars, connVars, clientVars, lockVars, diskVars, histVars,
        QueueFits, Current
  <2>4. CASE Emit(t)
    <3> DEFINE w == emitted + 1  c == job[t].owner
    <3>1. Current(t) /\ c \in Conn /\ handler[c] = "idle" /\ inbox[t] = <<>> /\ pc[t] = "running"
      BY <1>1, <1>2, <2>4 DEF Emit, Current, AnswersInLine
    <3>2. /\ UNCHANGED <<job, inbox, cancelReq, handler, mode, activeQueue>>
          /\ \A u \in Task : pc'[u] = IF u = t THEN "emitting" ELSE pc[u]
          /\ at'[t] = w /\ shown' = [shown EXCEPT ![c] = w]
      BY <1>1, <3>1, <2>4 DEF Emit, InClient
    <3>3. activeQueue[c] \in {None, t}
      BY <3>1 DEF QueueFits
    <3> HIDE DEF w, c
    <3>4. \A d \in Conn : d # c => handler[d] # "idle"
      BY <1>2, <3>1
    <3>5. \A u \in Task : Current(u)' => u = t
      BY <1>2, <3>1, <3>2 DEF Current
    <3>6. Current(t)' /\ pc'[t] = "emitting" /\ shown'[c] = w
      BY <1>1, <3>1, <3>2 DEF Current
    <3>7. \A d \in Conn : mode'[d] # "evolve" /\ (handler'[d] = "new" => activeQueue'[d] = None)
      BY <3>2 DEF QueueFits
    <3>8. \A u \in Task : Current(u)' /\ pc'[u] # "created" => activeQueue'[job'[u].owner] \in {None, u}
      BY <3>2, <3>3, <3>5 DEF c
    <3>9. \A u \in Task : ~ (Current(u)' /\ pc'[u] \in {"created", "waiting", "running"})
      BY <3>5, <3>6
    <3>10. \A d \in Conn, u \in Task :
             handler'[d] = "idle" /\ shown'[d] # None /\ activeQueue'[d] = u =>
               Current(u)' /\ at'[u] = shown'[d] /\ inbox'[u] = <<>>
      <4>1. ASSUME NEW d \in Conn, NEW u \in Task, handler'[d] = "idle", activeQueue'[d] = u
            PROVE  d = c /\ u = t
        BY <1>1, <3>2, <3>3, <3>4, <4>1
      <4> QED BY <3>1, <3>2, <3>6, <4>1
    <3> QED BY <3>7, <3>8, <3>9, <3>10 DEF QueueFits
  <2>5. CASE Persist(t)
    BY <2>5, <1>1, <1>2, <1>3, <1>5
    DEF Persist, taskVars, connVars, clientVars, lockVars, diskVars, histVars,
        QueueFits, Current
  <2>6. CASE TakeAnswer(t)
    <3>1. Current(t) /\ pc[t] = "parked" /\ inbox[t] # <<>>
      BY <2>6 DEF TakeAnswer, Current
    <3>2. shown[job[t].owner] = None
      BY <3>1 DEF AnswersInLine
    <3>3. /\ UNCHANGED <<job, cancelReq, handler, mode, activeQueue, shown>>
          /\ \A u \in Task : pc'[u] = IF u = t THEN "running" ELSE pc[u]
          /\ \A u \in Task : u # t => at'[u] = at[u] /\ inbox'[u] = inbox[u]
      BY <1>1, <2>6 DEF TakeAnswer, connVars, clientVars
    <3>4. \A d \in Conn : activeQueue[d] = t => shown[d] = None
      BY <1>1, <1>3, <3>2
    <3> QED BY <1>1, <1>2, <3>1, <3>2, <3>3, <3>4 DEF QueueFits, Current
  <2>7. CASE Complete(t)
    BY <2>7, <1>1, <1>2, <1>3, <1>5
    DEF Complete, LeaveTurn, taskVars, connVars, clientVars, lockVars, diskVars,
        histVars, QueueFits, Current
  <2>8. CASE Fail(t)
    BY <2>8, <1>1, <1>2, <1>3, <1>5
    DEF Fail, LeaveTurn, taskVars, connVars, clientVars, lockVars, diskVars, histVars,
        QueueFits, Current
  <2>9. CASE Interrupt(t)
    BY <2>9, <1>1, <1>2, <1>3, <1>5
    DEF Interrupt, taskVars, connVars, clientVars, lockVars, diskVars, histVars,
        QueueFits, Current
  <2>10. CASE Unwound(t)
    BY <2>10, <1>1, <1>2, <1>3, <1>5
    DEF Unwound, LeaveTurn, taskVars, connVars, clientVars, lockVars, diskVars,
        histVars, QueueFits, Current
  <2>11. CASE UnwindRaises(t)
    BY <2>11, <1>1, <1>2, <1>3, <1>5
    DEF UnwindRaises, LeaveTurn, taskVars, connVars, clientVars, lockVars, diskVars,
        histVars, QueueFits, Current
  <2>12. CASE Finish(t)
    BY <2>12, <1>1, <1>2, <1>3, <1>5
    DEF Finish, Finally, taskVars, connVars, clientVars, lockVars, diskVars, histVars,
        QueueFits, Current
  <2>13. CASE FinishError(t)
    BY <2>13, <1>1, <1>2, <1>3, <1>5
    DEF FinishError, Finally, taskVars, connVars, clientVars, lockVars, diskVars,
        histVars, QueueFits, Current
  <2> QED BY <1>9, <2>1, <2>2, <2>3, <2>4, <2>5, <2>6, <2>7, <2>8, <2>9, <2>10, <2>11,
  <2>12, <2>13 DEF TurnStep
<1>10. CASE Crash
  BY <1>10, <1>1, <1>2, <1>3, <1>5
  DEF Crash, taskVars, connVars, clientVars, lockVars, diskVars, histVars, QueueFits,
      Current
<1> QED BY <1>7, <1>8, <1>9, <1>10 DEF Next

\* Every step keeps the answers in line: an answer goes where its widget was put up,
\* and takes the cache entry and the marker of it away.
LEMMA AnswersStep ==
  ASSUME IInv, OneSocket, WidgetsInOrder, QueueFits, AnswersInLine,
         Frames \cap Unasked = {}, Next
  PROVE  AnswersInLine'
<1>1. /\ pc \in [Task -> Pcs] /\ at \in [Task -> Widget \cup {None}]
      /\ job \in [Task -> [owner: Conn \cup {None}, kind: Kinds, subject: Widget \cup {None}]]
      /\ handler \in [Conn -> Handlers] /\ shown \in [Conn -> Widget \cup {None}]
      /\ activeQueue \in [Conn -> Task \cup {None}] /\ inbox \in [Task -> Seq(Widget)]
      /\ cancelReq \subseteq Task /\ mode \in [Conn -> Modes] /\ cache \in [Conn -> SUBSET Widget]
      /\ \A t \in Task : pc[t] # "none" => job[t].owner \in Conn
      /\ \A t \in Task : t # None
      /\ marker \in Widget \cup {None} /\ appliedLive \subseteq Widget
      /\ recoveries \in [Widget -> Nat] /\ emitted \in Nat /\ WidgetOnDisplay
  BY DEF IInv, TypeOK, TasksInOrder, Task, None
<1>2. /\ \A t, u \in Task : Current(t) /\ Current(u) => t = u
      /\ \A t \in Task : Current(t) => job[t].owner \in Conn /\ handler[job[t].owner] = "idle"
                                       /\ activeTask[job[t].owner] = t
      /\ \A c, d \in Conn : handler[c] \notin {"new", "gone"} /\ handler[d] \notin {"new", "gone"}
                              => c = d
  BY TheTurn DEF OneSocket, Open, IInv, NoOrphanTurn, Current
<1>3. \A c \in Conn : activeQueue[c] # None => job[activeQueue[c]].owner = c /\ pc[activeQueue[c]] # "none"
  BY DEF IInv, QueueMadeByTurn
<1>4. \A f \in Unasked : f \notin Frames
  OBVIOUS
<1>5. \A t \in Task : pc[t] # "none" => handler[job[t].owner] # "new"
  BY DEF OneSocket
<1>6. \A c \in Conn : mode[c] # "evolve"
  BY DEF QueueFits
<1>7. /\ None \notin appliedLive /\ \A w \in Widget : w # None
      /\ \A t \in Task : pc[t] \in {"emitting", "parked"} => at[t] # None
  BY DEF WidgetsInOrder, Widget, None, IInv, WidgetOnDisplay
<1>8. ASSUME NEW c \in Conn, ClientFrame(c) PROVE AnswersInLine'
  <2>1. CASE Connect(c)
    BY <2>1, <1>1, <1>2, <1>7
    DEF Connect, taskVars, connVars, clientVars, lockVars, diskVars, histVars,
        AnswersInLine, Current, AnsweredStaysAnswered, NoGhostWidget
  <2>2. CASE Disconnect(c)
    BY <2>2, <1>1, <1>2, <1>7
    DEF Disconnect, Close, taskVars, connVars, clientVars, lockVars, diskVars, histVars,
        AnswersInLine, Current, AnsweredStaysAnswered, NoGhostWidget
  <2>3. CASE Message(c)
    BY <2>3, SpawningSteps, AnswersSpawn
  <2>4. CASE Cancel(c)
    BY <2>4, <1>1, <1>2, <1>7
    DEF Cancel, taskVars, connVars, clientVars, lockVars, diskVars, histVars,
        AnswersInLine, Current, AnsweredStaysAnswered, NoGhostWidget
  <2>5. CASE AnswerLive(c)
    <3>1. PICK t \in Task : activeQueue[c] = t
      BY <1>1, <2>5 DEF AnswerLive
    <3>2. /\ Current(t) /\ at[t] = shown[c] /\ inbox[t] = <<>> /\ handler[c] = "idle"
          /\ job[t].owner = c
      BY <1>3, <1>1, <3>1, <2>5 DEF AnswerLive, QueueFits
    <3>3. /\ UNCHANGED <<pc, job, at, cancelReq, appliedLive, recoveries>>
          /\ \A u \in Task : inbox'[u] = IF u = t THEN <<shown[c]>> ELSE inbox[u]
          /\ \A d \in Conn : cache'[d] = IF d = c THEN cache[d] \ {shown[c]} ELSE cache[d]
          /\ \A d \in Conn : shown'[d] = IF d = c THEN None ELSE shown[d]
          /\ marker' = IF shown[c] \in cache[c] THEN None ELSE marker
      <4>1. /\ UNCHANGED <<pc, job, at, cancelReq, appliedLive, recoveries>>
            /\ inbox' = [inbox EXCEPT ![t] = Append(inbox[t], shown[c])]
            /\ cache' = [cache EXCEPT ![c] = cache[c] \ {shown[c]}]
            /\ shown' = [shown EXCEPT ![c] = None]
            /\ marker' = IF shown[c] \in cache[c] THEN None ELSE marker
        BY <3>1, <2>5 DEF AnswerLive, histVars
      <4>2. Append(inbox[t], shown[c]) = <<shown[c]>>
        BY <3>2
      <4> QED BY <1>1, <4>1, <4>2
    <3>4. \A u \in Task : Current(u)' <=> Current(u)
      BY <3>3 DEF Current
    <3>5. pc[t] \in {"emitting", "parked"}
      <4>1. pc[t] \in {"created", "waiting", "running"} => shown[c] = None
        BY <3>2 DEF QueueFits
      <4> QED BY <3>2, <4>1, <2>5 DEF AnswerLive, Current
    <3>6. at[t] \notin cache[c] => at[t] # marker
      BY <3>2, <3>5 DEF AnswersInLine
    <3>7. at[t] # marker'
      BY <1>7, <3>2, <3>3, <3>5, <3>6
    <3>8. \A u \in Task : pc'[u] = "none" \/ (Current(u)' /\ pc'[u] \in {"created", "waiting", "running"}) =>
            inbox'[u] = <<>>
      BY <3>2, <3>3, <3>4, <3>5 DEF AnswersInLine
    <3>9. \A u \in Task : Current(u)' /\ pc'[u] \in {"emitting", "parked"} =>
            /\ inbox'[u] \in {<<>>, <<at'[u]>>}
            /\ inbox'[u] # <<>> => at'[u] \notin cache'[job'[u].owner] /\ shown'[job'[u].owner] = None
            /\ at'[u] \notin cache'[job'[u].owner] => at'[u] # marker'
            /\ recoveries'[at'[u]] = 0
      <4>1. ASSUME NEW u \in Task, Current(u)' PROVE u = t
        BY <1>2, <3>2, <3>4, <4>1
      <4>2. recoveries[at[t]] = 0
        BY <3>2, <3>5 DEF AnswersInLine
      <4>3. /\ inbox'[t] = <<at[t]>> /\ at'[t] \notin cache'[c] /\ shown'[c] = None /\ job'[t].owner = c
            /\ at'[t] = at[t] /\ recoveries' = recoveries
        BY <1>1, <3>2, <3>3
      <4> QED BY <3>7, <4>1, <4>2, <4>3
    <3>10. marker' \notin appliedLive'
      BY <1>7, <3>3 DEF AnswersInLine, AnsweredStaysAnswered, NoGhostWidget
    <3>11. /\ \A u \in Task : at'[u] \notin appliedLive'
           /\ \A u \in Task : pc'[u] \in {"created", "waiting"} /\ Current(u)' =>
                job'[u].subject \notin appliedLive'
           /\ \A w \in appliedLive' : recoveries'[w] = 0
      BY <3>3, <3>4 DEF AnswersInLine, AnsweredStaysAnswered
    <3> QED BY <3>8, <3>9, <3>10, <3>11 DEF AnswersInLine, AnsweredStaysAnswered, NoGhostWidget
  <2>6. CASE AnswerRecovers(c)
    BY <2>6, SpawningSteps, AnswersSpawn
  <2>7. CASE AnswerDropped(c)
    BY <2>7, <1>1, <1>2, <1>7
    DEF AnswerDropped, taskVars, connVars, clientVars, lockVars, diskVars, histVars,
        AnswersInLine, Current, AnsweredStaysAnswered, NoGhostWidget
  <2>8. CASE ConfirmLive(c)
    BY <1>4, <2>8 DEF ConfirmLive, Unasked
  <2>9. CASE ConfirmRecovers(c)
    BY <1>4, <2>9 DEF ConfirmRecovers, Unasked
  <2>10. CASE ConfirmUnbound(c)
    BY <1>4, <2>10 DEF ConfirmUnbound, Unasked
  <2>11. CASE ResumeFromTurn(c)
    BY <2>11, <1>1, <1>2, <1>7
    DEF ResumeFromTurn, Rewind, taskVars, connVars, clientVars, lockVars, diskVars,
        histVars, AnswersInLine, Current, AnsweredStaysAnswered, NoGhostWidget
  <2>12. CASE ResumeFromRound(c)
    BY <2>12, <1>1, <1>2, <1>7
    DEF ResumeFromRound, Rewind, taskVars, connVars, clientVars, lockVars, diskVars,
        histVars, AnswersInLine, Current, AnsweredStaysAnswered, NoGhostWidget
  <2>13. CASE EvolutionComplete(c)
    BY <1>4, <2>13 DEF EvolutionComplete, Unasked
  <2> QED BY <1>8, <2>1, <2>2, <2>3, <2>4, <2>5, <2>6, <2>7, <2>8, <2>9, <2>10, <2>11,
  <2>12, <2>13 DEF ClientFrame
<1>9. ASSUME NEW c \in Conn, HandlerStep(c) PROVE AnswersInLine'
  <2>1. CASE QuiescedForTurn(c)
    BY <2>1, <1>1, <1>2, <1>7
    DEF QuiescedForTurn, Quiesced, Wants, taskVars, connVars, clientVars, lockVars,
        diskVars, histVars, AnswersInLine, Current, AnsweredStaysAnswered, NoGhostWidget
  <2>2. CASE QuiescedForRound(c)
    BY <2>2, <1>1, <1>2, <1>7
    DEF QuiescedForRound, Quiesced, taskVars, connVars, clientVars, lockVars, diskVars,
        histVars, AnswersInLine, Current, AnsweredStaysAnswered, NoGhostWidget
  <2>3. CASE QuiescedForHub(c)
    BY <1>6, <2>3 DEF QuiescedForHub, Quiesced
  <2>4. CASE GrantHandler(c)
    BY <2>4, <1>1, <1>2, <1>7
    DEF GrantHandler, Grant, taskVars, connVars, clientVars, lockVars, diskVars,
        histVars, AnswersInLine, Current, AnsweredStaysAnswered, NoGhostWidget
  <2>5. CASE Rewound(c)
    BY <2>5, <1>1, <1>2, <1>7
    DEF Rewound, taskVars, connVars, clientVars, lockVars, diskVars, histVars,
        AnswersInLine, Current, AnsweredStaysAnswered, NoGhostWidget
  <2>6. CASE RewindRaises(c)
    BY <2>6, <1>1, <1>2, <1>7
    DEF RewindRaises, taskVars, connVars, clientVars, lockVars, diskVars, histVars,
        AnswersInLine, Current, AnsweredStaysAnswered, NoGhostWidget
  <2>7. CASE Truncated(c)
    BY <2>7, <1>1, <1>2, <1>7
    DEF Truncated, Wants, taskVars, connVars, clientVars, lockVars, diskVars, histVars,
        AnswersInLine, Current, AnsweredStaysAnswered, NoGhostWidget
  <2>8. CASE Evicted(c)
    BY <2>8, SpawningSteps, AnswersSpawn
  <2>9. CASE EvictTimeout(c)
    BY <2>9, SpawningSteps, AnswersSpawn
  <2> QED BY <1>9, <2>1, <2>2, <2>3, <2>4, <2>5, <2>6, <2>7, <2>8, <2>9 DEF HandlerStep
<1>10. ASSUME NEW t \in Task, TurnStep(t) PROVE AnswersInLine'
  <2>1. CASE Start(t)
    BY <2>1, <1>1, <1>2, <1>7
    DEF Start, Wants, taskVars, connVars, clientVars, lockVars, diskVars, histVars,
        AnswersInLine, Current, AnsweredStaysAnswered, NoGhostWidget
  <2>2. CASE StartFails(t)
    BY <2>2, <1>1, <1>2, <1>7
    DEF StartFails, taskVars, connVars, clientVars, lockVars, diskVars, histVars,
        AnswersInLine, Current, AnsweredStaysAnswered, NoGhostWidget
  <2>3. CASE GrantTurn(t)
    BY <2>3, <1>1, <1>2, <1>7
    DEF GrantTurn, Grant, taskVars, connVars, clientVars, lockVars, diskVars, histVars,
        AnswersInLine, Current, AnsweredStaysAnswered, NoGhostWidget
  <2>4. CASE Emit(t)
    <3> DEFINE w == emitted + 1
    <3>1. Current(t) /\ job[t].owner \in Conn /\ pc[t] = "running" /\ inbox[t] = <<>> /\ w \in Widget
      BY <1>1, <1>2, <2>4, ConstantsAssumption DEF Emit, Current, AnswersInLine, Widget, IInv,
         TypeOK
    <3>2. /\ UNCHANGED <<job, inbox, cancelReq, appliedLive, recoveries, marker>>
          /\ \A u \in Task : pc'[u] = IF u = t THEN "emitting" ELSE pc[u]
          /\ \A u \in Task : at'[u] = IF u = t THEN w ELSE at[u]
          /\ w \in cache'[job[t].owner]
      BY <1>1, <3>1, <2>4 DEF Emit, diskVars
    <3>3. /\ w \notin appliedLive /\ recoveries[w] = 0
      BY <1>1, <3>1 DEF WidgetsInOrder, Emitted
    <3> HIDE DEF w
    <3>4. \A u \in Task : Current(u)' => u = t
      BY <1>2, <3>1, <3>2 DEF Current
    <3>5. \A u \in Task : pc'[u] = "none" => inbox'[u] = <<>>
      BY <3>2 DEF AnswersInLine
    <3> QED BY <1>1, <3>1, <3>2, <3>3, <3>4, <3>5
            DEF AnswersInLine, AnsweredStaysAnswered, NoGhostWidget
  <2>5. CASE Persist(t)
    BY <2>5, <1>1, <1>2, <1>7
    DEF Persist, taskVars, connVars, clientVars, lockVars, diskVars, histVars,
        AnswersInLine, Current, AnsweredStaysAnswered, NoGhostWidget
  <2>6. CASE TakeAnswer(t)
    <3>1. Current(t) /\ pc[t] = "parked" /\ inbox[t] = <<at[t]>>
      BY <2>6 DEF TakeAnswer, Current, AnswersInLine
    <3>2. at[t] # marker /\ recoveries[at[t]] = 0
      BY <3>1 DEF AnswersInLine
    <3>3. /\ UNCHANGED <<job, cancelReq, recoveries, marker>>
          /\ \A u \in Task : pc'[u] = IF u = t THEN "running" ELSE pc[u]
          /\ \A u \in Task : at'[u] = IF u = t THEN None ELSE at[u]
          /\ \A u \in Task : inbox'[u] = IF u = t THEN <<>> ELSE inbox[u]
          /\ appliedLive' = appliedLive \cup {at[t]}
      BY <1>1, <3>1, <2>6 DEF TakeAnswer, diskVars
    <3>4. \A u \in Task : Current(u)' => u = t
      BY <1>2, <3>1, <3>3 DEF Current
    <3>5. \A u \in Task : pc'[u] = "none" \/ (Current(u)' /\ pc'[u] \in {"created", "waiting", "running"})
                            => inbox'[u] = <<>>
      BY <3>1, <3>3, <3>4 DEF AnswersInLine
    <3>6. \A u \in Task : at'[u] \notin appliedLive'
      BY <1>7, <3>1, <3>3 DEF AnswersInLine, WidgetsInOrder
    <3>7. \A u \in Task : Current(u)' => pc'[u] = "running"
      BY <3>3, <3>4
    <3>8. AnsweredStaysAnswered'
      BY <3>2, <3>3 DEF AnswersInLine, AnsweredStaysAnswered, NoGhostWidget
    <3> QED BY <3>5, <3>6, <3>7, <3>8 DEF AnswersInLine
  <2>7. CASE Complete(t)
    BY <2>7, <1>1, <1>2, <1>7
    DEF Complete, LeaveTurn, taskVars, connVars, clientVars, lockVars, diskVars,
        histVars, AnswersInLine, Current, AnsweredStaysAnswered, NoGhostWidget
  <2>8. CASE Fail(t)
    BY <2>8, <1>1, <1>2, <1>7
    DEF Fail, LeaveTurn, taskVars, connVars, clientVars, lockVars, diskVars, histVars,
        AnswersInLine, Current, AnsweredStaysAnswered, NoGhostWidget
  <2>9. CASE Interrupt(t)
    BY <2>9, <1>1, <1>2, <1>7
    DEF Interrupt, taskVars, connVars, clientVars, lockVars, diskVars, histVars,
        AnswersInLine, Current, AnsweredStaysAnswered, NoGhostWidget
  <2>10. CASE Unwound(t)
    BY <2>10, <1>1, <1>2, <1>7
    DEF Unwound, LeaveTurn, taskVars, connVars, clientVars, lockVars, diskVars,
        histVars, AnswersInLine, Current, AnsweredStaysAnswered, NoGhostWidget
  <2>11. CASE UnwindRaises(t)
    BY <2>11, <1>1, <1>2, <1>7
    DEF UnwindRaises, LeaveTurn, taskVars, connVars, clientVars, lockVars, diskVars,
        histVars, AnswersInLine, Current, AnsweredStaysAnswered, NoGhostWidget
  <2>12. CASE Finish(t)
    BY <2>12, <1>1, <1>2, <1>7
    DEF Finish, Finally, taskVars, connVars, clientVars, lockVars, diskVars, histVars,
        AnswersInLine, Current, AnsweredStaysAnswered, NoGhostWidget
  <2>13. CASE FinishError(t)
    BY <2>13, <1>1, <1>2, <1>7
    DEF FinishError, Finally, taskVars, connVars, clientVars, lockVars, diskVars,
        histVars, AnswersInLine, Current, AnsweredStaysAnswered, NoGhostWidget
  <2> QED BY <1>10, <2>1, <2>2, <2>3, <2>4, <2>5, <2>6, <2>7, <2>8, <2>9, <2>10, <2>11,
  <2>12, <2>13 DEF TurnStep
<1>11. CASE Crash
  BY <1>11, <1>1, <1>2, <1>7
  DEF Crash, taskVars, connVars, clientVars, lockVars, diskVars, histVars,
      AnswersInLine, Current, AnsweredStaysAnswered, NoGhostWidget
<1> QED BY <1>8, <1>9, <1>10, <1>11 DEF Next

\* A turn stops waiting for a person by taking an answer, or it is over.
LEMMA OnlyAnAnswer ==
  ASSUME IInv, Next, NEW u \in Task, pc[u] = "parked", pc'[u] = "running"
  PROVE  TakeAnswer(u)
<1>1. /\ pc \in [Task -> Pcs] /\ created \in Nat /\ \A t \in Task : t > created <=> pc[t] = "none"
  BY DEF IInv, TypeOK, TasksInOrder
<1>2. ASSUME NEW c \in Conn, ClientFrame(c) PROVE TakeAnswer(u)
  <2>1. CASE Connect(c)
    BY <2>1, <1>1
    DEF Connect, taskVars, connVars, clientVars, lockVars, diskVars, histVars, Spawn,
        Close, Recover, Rewind, RunAgain
  <2>2. CASE Disconnect(c)
    BY <2>2, <1>1
    DEF Disconnect, Close, taskVars, connVars, clientVars, lockVars, diskVars, histVars,
        Spawn, Close, Recover, Rewind, RunAgain
  <2>3. CASE Message(c)
    BY <2>3, <1>1
    DEF Message, taskVars, connVars, clientVars, lockVars, diskVars, histVars, Spawn,
        Close, Recover, Rewind, RunAgain
  <2>4. CASE Cancel(c)
    BY <2>4, <1>1
    DEF Cancel, taskVars, connVars, clientVars, lockVars, diskVars, histVars, Spawn,
        Close, Recover, Rewind, RunAgain
  <2>5. CASE AnswerLive(c)
    BY <2>5, <1>1
    DEF AnswerLive, taskVars, connVars, clientVars, lockVars, diskVars, histVars, Spawn,
        Close, Recover, Rewind, RunAgain
  <2>6. CASE AnswerRecovers(c)
    BY <2>6, <1>1
    DEF AnswerRecovers, Recover, taskVars, connVars, clientVars, lockVars, diskVars,
        histVars, Spawn, Close, Recover, Rewind, RunAgain
  <2>7. CASE AnswerDropped(c)
    BY <2>7, <1>1
    DEF AnswerDropped, taskVars, connVars, clientVars, lockVars, diskVars, histVars,
        Spawn, Close, Recover, Rewind, RunAgain
  <2>8. CASE ConfirmLive(c)
    BY <2>8, <1>1
    DEF ConfirmLive, taskVars, connVars, clientVars, lockVars, diskVars, histVars,
        Spawn, Close, Recover, Rewind, RunAgain
  <2>9. CASE ConfirmRecovers(c)
    BY <2>9, <1>1
    DEF ConfirmRecovers, Recover, taskVars, connVars, clientVars, lockVars, diskVars,
        histVars, Spawn, Close, Recover, Rewind, RunAgain
  <2>10. CASE ConfirmUnbound(c)
    BY <2>10, <1>1
    DEF ConfirmUnbound, Close, taskVars, connVars, clientVars, lockVars, diskVars,
        histVars, Spawn, Close, Recover, Rewind, RunAgain
  <2>11. CASE ResumeFromTurn(c)
    BY <2>11, <1>1
    DEF ResumeFromTurn, Rewind, taskVars, connVars, clientVars, lockVars, diskVars,
        histVars, Spawn, Close, Recover, Rewind, RunAgain
  <2>12. CASE ResumeFromRound(c)
    BY <2>12, <1>1
    DEF ResumeFromRound, Rewind, taskVars, connVars, clientVars, lockVars, diskVars,
        histVars, Spawn, Close, Recover, Rewind, RunAgain
  <2>13. CASE EvolutionComplete(c)
    BY <2>13, <1>1
    DEF EvolutionComplete, Rewind, taskVars, connVars, clientVars, lockVars, diskVars,
        histVars, Spawn, Close, Recover, Rewind, RunAgain
  <2> QED BY <1>2, <2>1, <2>2, <2>3, <2>4, <2>5, <2>6, <2>7, <2>8, <2>9, <2>10, <2>11,
  <2>12, <2>13 DEF ClientFrame
<1>3. ASSUME NEW c \in Conn, HandlerStep(c) PROVE TakeAnswer(u)
  <2>1. CASE QuiescedForTurn(c)
    BY <2>1, <1>1
    DEF QuiescedForTurn, Quiesced, Wants, taskVars, connVars, clientVars, lockVars,
        diskVars, histVars, Spawn, Close, Recover, Rewind, RunAgain
  <2>2. CASE QuiescedForRound(c)
    BY <2>2, <1>1
    DEF QuiescedForRound, Quiesced, taskVars, connVars, clientVars, lockVars, diskVars,
        histVars, Spawn, Close, Recover, Rewind, RunAgain
  <2>3. CASE QuiescedForHub(c)
    BY <2>3, <1>1
    DEF QuiescedForHub, Quiesced, taskVars, connVars, clientVars, lockVars, diskVars,
        histVars, Spawn, Close, Recover, Rewind, RunAgain
  <2>4. CASE GrantHandler(c)
    BY <2>4, <1>1
    DEF GrantHandler, Grant, taskVars, connVars, clientVars, lockVars, diskVars,
        histVars, Spawn, Close, Recover, Rewind, RunAgain
  <2>5. CASE Rewound(c)
    BY <2>5, <1>1
    DEF Rewound, taskVars, connVars, clientVars, lockVars, diskVars, histVars, Spawn,
        Close, Recover, Rewind, RunAgain
  <2>6. CASE RewindRaises(c)
    BY <2>6, <1>1
    DEF RewindRaises, taskVars, connVars, clientVars, lockVars, diskVars, histVars,
        Spawn, Close, Recover, Rewind, RunAgain
  <2>7. CASE Truncated(c)
    BY <2>7, <1>1
    DEF Truncated, Wants, taskVars, connVars, clientVars, lockVars, diskVars, histVars,
        Spawn, Close, Recover, Rewind, RunAgain
  <2>8. CASE Evicted(c)
    BY <2>8, <1>1
    DEF Evicted, RunAgain, taskVars, connVars, clientVars, lockVars, diskVars, histVars,
        Spawn, Close, Recover, Rewind, RunAgain
  <2>9. CASE EvictTimeout(c)
    BY <2>9, <1>1
    DEF EvictTimeout, RunAgain, taskVars, connVars, clientVars, lockVars, diskVars,
        histVars, Spawn, Close, Recover, Rewind, RunAgain
  <2> QED BY <1>3, <2>1, <2>2, <2>3, <2>4, <2>5, <2>6, <2>7, <2>8, <2>9 DEF HandlerStep
<1>4. ASSUME NEW t \in Task, TurnStep(t) PROVE TakeAnswer(u)
  <2>1. CASE Start(t)
    BY <2>1, <1>1
    DEF Start, Wants, taskVars, connVars, clientVars, lockVars, diskVars, histVars,
        Spawn, Close, Recover, Rewind, RunAgain
  <2>2. CASE StartFails(t)
    BY <2>2, <1>1
    DEF StartFails, taskVars, connVars, clientVars, lockVars, diskVars, histVars, Spawn,
        Close, Recover, Rewind, RunAgain
  <2>3. CASE GrantTurn(t)
    BY <2>3, <1>1
    DEF GrantTurn, Grant, taskVars, connVars, clientVars, lockVars, diskVars, histVars,
        Spawn, Close, Recover, Rewind, RunAgain
  <2>4. CASE Emit(t)
    BY <2>4, <1>1
    DEF Emit, taskVars, connVars, clientVars, lockVars, diskVars, histVars, Spawn,
        Close, Recover, Rewind, RunAgain
  <2>5. CASE Persist(t)
    BY <2>5, <1>1
    DEF Persist, taskVars, connVars, clientVars, lockVars, diskVars, histVars, Spawn,
        Close, Recover, Rewind, RunAgain
  <2>6. CASE TakeAnswer(t)
    BY <2>6, <1>1
    DEF TakeAnswer, taskVars, connVars, clientVars, lockVars, diskVars, histVars, Spawn,
        Close, Recover, Rewind, RunAgain
  <2>7. CASE Complete(t)
    BY <2>7, <1>1
    DEF Complete, LeaveTurn, taskVars, connVars, clientVars, lockVars, diskVars,
        histVars, Spawn, Close, Recover, Rewind, RunAgain
  <2>8. CASE Fail(t)
    BY <2>8, <1>1
    DEF Fail, LeaveTurn, taskVars, connVars, clientVars, lockVars, diskVars, histVars,
        Spawn, Close, Recover, Rewind, RunAgain
  <2>9. CASE Interrupt(t)
    BY <2>9, <1>1
    DEF Interrupt, taskVars, connVars, clientVars, lockVars, diskVars, histVars, Spawn,
        Close, Recover, Rewind, RunAgain
  <2>10. CASE Unwound(t)
    BY <2>10, <1>1
    DEF Unwound, LeaveTurn, taskVars, connVars, clientVars, lockVars, diskVars,
        histVars, Spawn, Close, Recover, Rewind, RunAgain
  <2>11. CASE UnwindRaises(t)
    BY <2>11, <1>1
    DEF UnwindRaises, LeaveTurn, taskVars, connVars, clientVars, lockVars, diskVars,
        histVars, Spawn, Close, Recover, Rewind, RunAgain
  <2>12. CASE Finish(t)
    BY <2>12, <1>1
    DEF Finish, Finally, taskVars, connVars, clientVars, lockVars, diskVars, histVars,
        Spawn, Close, Recover, Rewind, RunAgain
  <2>13. CASE FinishError(t)
    BY <2>13, <1>1
    DEF FinishError, Finally, taskVars, connVars, clientVars, lockVars, diskVars,
        histVars, Spawn, Close, Recover, Rewind, RunAgain
  <2> QED BY <1>4, <2>1, <2>2, <2>3, <2>4, <2>5, <2>6, <2>7, <2>8, <2>9, <2>10, <2>11,
  <2>12, <2>13 DEF TurnStep
<1>5. CASE Crash
  BY <1>5, <1>1
  DEF Crash, taskVars, connVars, clientVars, lockVars, diskVars, histVars, Spawn, Close,
      Recover, Rewind, RunAgain
<1> QED BY <1>2, <1>3, <1>4, <1>5 DEF Next

\* The initial state.
LEMMA OneTabInit ==
  ASSUME Init
  PROVE  OneSocket /\ Stamped /\ LockedBefore /\ WidgetsInOrder /\ QueueFits /\ AnswersInLine
<1>1. /\ \A t \in Task : pc[t] = "none" /\ at[t] = None /\ inbox[t] = <<>> /\ turn[t] = 0
                         /\ job[t] = NoJob
      /\ \A c \in Conn : handler[c] = "new" /\ mode[c] = "none" /\ shown[c] = None
                         /\ cache[c] = {} /\ activeQueue[c] = None
      /\ marker = None /\ emitted = 0 /\ appliedLive = {} /\ \A w \in Widget : recoveries[w] = 0
  BY DEF Init
<1>2. None \in Emitted /\ \A t \in Task : t # None
  BY <1>1 DEF Emitted, None, Task
<1> QED
  BY <1>1, <1>2
  DEF OneSocket, Open, Stamped, StampMatches, LockedBefore, TruncateExclusive, WidgetsInOrder,
      QueueFits, AnswersInLine, AnsweredStaysAnswered, NoGhostWidget, Current, NoJob

\* One socket at a time, and what is stamped under it.
LEMMA OneTabInvariance ==
  ASSUME Tabs <= 1
  PROVE  Spec => [](IInv /\ OneSocket /\ Stamped)
<1>1. Init => IInv /\ OneSocket /\ Stamped
  BY InitIInv, OneTabInit
<1>2. IInv /\ OneSocket /\ Stamped /\ [Next]_vars => (OneSocket /\ Stamped)'
  <2>1. CASE UNCHANGED vars
    BY <2>1 DEF OneSocket, Open, Stamped, StampMatches, Current, vars, taskVars, connVars, diskVars
  <2> QED BY <2>1, OneSocketStep, StampedStep
<1> QED BY <1>1, <1>2, NextIInv, PTL DEF Spec

\* A message is stamped with the number of the turn it becomes, as long as one socket is
\* open at a time (next_turn_number before the lock, begin_turn under it).
THEOREM StampsMatch ==
  ASSUME Tabs <= 1
  PROVE  Spec => []StampMatches
<1>1. Stamped => StampMatches
  BY DEF Stamped
<1> QED BY <1>1, OneTabInvariance, PTL

\* No turn runs or unwinds while a frame truncates the session, when the frames that do go
\* through prepare_rewind; the lock is free again by then, and nobody is left to take it.
THEOREM TruncationsExclude ==
  ASSUME Tabs <= 1, "resumeRound" \notin Frames
  PROVE  Spec => []TruncateExclusive
<1>1. Init => LockedBefore
  BY OneTabInit
<1>2. IInv /\ OneSocket /\ LockedBefore /\ [Next]_vars => LockedBefore'
  <2>1. CASE UNCHANGED vars
    BY <2>1 DEF LockedBefore, TruncateExclusive, InTurn, vars, taskVars, connVars
  <2> QED BY <2>1, LockedStep
<1>3. LockedBefore => TruncateExclusive
  BY DEF LockedBefore
<1> QED BY <1>1, <1>2, <1>3, OneTabInvariance, PTL DEF Spec

\* The widgets, when nothing but an answer comes while one is on display.
LEMMA AnswersInvariance ==
  ASSUME Tabs <= 1, Frames \cap Unasked = {}
  PROVE  Spec => [](IInv /\ OneSocket /\ WidgetsInOrder /\ QueueFits /\ AnswersInLine)
<1>1. Init => WidgetsInOrder /\ QueueFits /\ AnswersInLine
  BY OneTabInit
<1>2. IInv /\ OneSocket /\ WidgetsInOrder /\ QueueFits /\ AnswersInLine /\ [Next]_vars =>
        (WidgetsInOrder /\ QueueFits /\ AnswersInLine)'
  <2>1. CASE UNCHANGED vars
    <3>1. /\ UNCHANGED <<pc, job, at, inbox, cancelReq, handler, mode, activeQueue, cache, shown>>
          /\ UNCHANGED <<marker, emitted, appliedLive, recoveries>>
      BY <2>1 DEF vars, taskVars, connVars, clientVars, diskVars, histVars
    <3>2. ASSUME WidgetsInOrder PROVE WidgetsInOrder'
      BY <3>1, <3>2 DEF WidgetsInOrder, Emitted
    <3>3. ASSUME QueueFits PROVE QueueFits'
      BY <3>1, <3>3 DEF QueueFits, Current
    <3>4. ASSUME AnswersInLine PROVE AnswersInLine'
      BY <3>1, <3>4 DEF AnswersInLine, Current, AnsweredStaysAnswered, NoGhostWidget
    <3> QED BY <3>2, <3>3, <3>4
  <2> QED BY <2>1, WidgetsStep, QueueStep, AnswersStep
<1> QED BY <1>1, <1>2, OneTabInvariance, PTL DEF Spec

\* An answered widget is over, through cancellations, recoveries, closed sockets and crashes:
\* the marker never shows it again and no recovery applies a second answer to it.
THEOREM AnswersStay ==
  ASSUME Tabs <= 1, Frames \cap Unasked = {}
  PROVE  Spec => []AnsweredStaysAnswered
<1>1. AnswersInLine => AnsweredStaysAnswered
  BY DEF AnswersInLine
<1> QED BY <1>1, AnswersInvariance, PTL

\* What a turn takes from its queue answers the widget it has on display: the frames of
\* Unasked are the only way for a stale answer to get there (aget_input).
THEOREM AnswersAreFit ==
  ASSUME Tabs <= 1, Frames \cap Unasked = {}
  PROVE  Spec => AnswersFit
<1> DEFINE Fit == \A t \in Task : pc[t] = "parked" /\ pc'[t] = "running" => Head(inbox[t]) = at[t]
<1>1. ASSUME IInv, AnswersInLine, Next PROVE Fit
  <2> SUFFICES ASSUME NEW t \in Task, pc[t] = "parked", pc'[t] = "running"
               PROVE  Head(inbox[t]) = at[t]
    OBVIOUS
  <2>1. TakeAnswer(t)
    BY <1>1, OnlyAnAnswer
  <2>2. inbox[t] = <<at[t]>>
    BY <1>1, <2>1 DEF TakeAnswer, Current, AnswersInLine
  <2> QED BY <2>2
<1>2. ASSUME UNCHANGED vars PROVE Fit
  BY <1>2 DEF vars, taskVars
<1>3. IInv /\ AnswersInLine /\ [Next]_vars => [Fit]_vars
  BY <1>1, <1>2
<1> QED BY <1>3, AnswersInvariance, PTL DEF Spec, AnswersFit

\* Without failures no task reports an error.
NoneFails == \A t \in Task : pc[t] # "failing"

\* A task fails by a failure.
LEMMA FailingStep ==
  ASSUME IInv, NoneFails, "fail" \notin Frames, Next
  PROVE  NoneFails'
<1>1. pc \in [Task -> Pcs]
  BY DEF IInv, TypeOK
<1>2. ASSUME NEW c \in Conn, ClientFrame(c) PROVE NoneFails'
  <2>1. CASE Connect(c)
    BY <2>1, <1>1
    DEF Connect, taskVars, connVars, clientVars, lockVars, diskVars, histVars, Spawn,
        NoneFails
  <2>2. CASE Disconnect(c)
    BY <2>2, <1>1
    DEF Disconnect, Close, taskVars, connVars, clientVars, lockVars, diskVars, histVars,
        Spawn, NoneFails
  <2>3. CASE Message(c)
    BY <2>3, <1>1
    DEF Message, taskVars, connVars, clientVars, lockVars, diskVars, histVars, Spawn,
        NoneFails
  <2>4. CASE Cancel(c)
    BY <2>4, <1>1
    DEF Cancel, taskVars, connVars, clientVars, lockVars, diskVars, histVars, Spawn,
        NoneFails
  <2>5. CASE AnswerLive(c)
    BY <2>5, <1>1
    DEF AnswerLive, taskVars, connVars, clientVars, lockVars, diskVars, histVars, Spawn,
        NoneFails
  <2>6. CASE AnswerRecovers(c)
    BY <2>6, <1>1
    DEF AnswerRecovers, Recover, taskVars, connVars, clientVars, lockVars, diskVars,
        histVars, Spawn, NoneFails
  <2>7. CASE AnswerDropped(c)
    BY <2>7, <1>1
    DEF AnswerDropped, taskVars, connVars, clientVars, lockVars, diskVars, histVars,
        Spawn, NoneFails
  <2>8. CASE ConfirmLive(c)
    BY <2>8, <1>1
    DEF ConfirmLive, taskVars, connVars, clientVars, lockVars, diskVars, histVars,
        Spawn, NoneFails
  <2>9. CASE ConfirmRecovers(c)
    BY <2>9, <1>1
    DEF ConfirmRecovers, Recover, taskVars, connVars, clientVars, lockVars, diskVars,
        histVars, Spawn, NoneFails
  <2>10. CASE ConfirmUnbound(c)
    BY <2>10, <1>1
    DEF ConfirmUnbound, Close, taskVars, connVars, clientVars, lockVars, diskVars,
        histVars, Spawn, NoneFails
  <2>11. CASE ResumeFromTurn(c)
    BY <2>11, <1>1
    DEF ResumeFromTurn, Rewind, taskVars, connVars, clientVars, lockVars, diskVars,
        histVars, Spawn, NoneFails
  <2>12. CASE ResumeFromRound(c)
    BY <2>12, <1>1
    DEF ResumeFromRound, Rewind, taskVars, connVars, clientVars, lockVars, diskVars,
        histVars, Spawn, NoneFails
  <2>13. CASE EvolutionComplete(c)
    BY <2>13, <1>1
    DEF EvolutionComplete, Rewind, taskVars, connVars, clientVars, lockVars, diskVars,
        histVars, Spawn, NoneFails
  <2> QED BY <1>2, <2>1, <2>2, <2>3, <2>4, <2>5, <2>6, <2>7, <2>8, <2>9, <2>10, <2>11,
  <2>12, <2>13 DEF ClientFrame
<1>3. ASSUME NEW c \in Conn, HandlerStep(c) PROVE NoneFails'
  <2>1. CASE QuiescedForTurn(c)
    BY <2>1, <1>1
    DEF QuiescedForTurn, Quiesced, Wants, taskVars, connVars, clientVars, lockVars,
        diskVars, histVars, Spawn, NoneFails
  <2>2. CASE QuiescedForRound(c)
    BY <2>2, <1>1
    DEF QuiescedForRound, Quiesced, taskVars, connVars, clientVars, lockVars, diskVars,
        histVars, Spawn, NoneFails
  <2>3. CASE QuiescedForHub(c)
    BY <2>3, <1>1
    DEF QuiescedForHub, Quiesced, taskVars, connVars, clientVars, lockVars, diskVars,
        histVars, Spawn, NoneFails
  <2>4. CASE GrantHandler(c)
    BY <2>4, <1>1
    DEF GrantHandler, Grant, taskVars, connVars, clientVars, lockVars, diskVars,
        histVars, Spawn, NoneFails
  <2>5. CASE Rewound(c)
    BY <2>5, <1>1
    DEF Rewound, taskVars, connVars, clientVars, lockVars, diskVars, histVars, Spawn,
        NoneFails
  <2>6. CASE RewindRaises(c)
    BY <2>6, <1>1
    DEF RewindRaises, taskVars, connVars, clientVars, lockVars, diskVars, histVars,
        Spawn, NoneFails
  <2>7. CASE Truncated(c)
    BY <2>7, <1>1
    DEF Truncated, Wants, taskVars, connVars, clientVars, lockVars, diskVars, histVars,
        Spawn, NoneFails
  <2>8. CASE Evicted(c)
    BY <2>8, <1>1
    DEF Evicted, RunAgain, taskVars, connVars, clientVars, lockVars, diskVars, histVars,
        Spawn, NoneFails
  <2>9. CASE EvictTimeout(c)
    BY <2>9, <1>1
    DEF EvictTimeout, RunAgain, taskVars, connVars, clientVars, lockVars, diskVars,
        histVars, Spawn, NoneFails
  <2> QED BY <1>3, <2>1, <2>2, <2>3, <2>4, <2>5, <2>6, <2>7, <2>8, <2>9 DEF HandlerStep
<1>4. ASSUME NEW t \in Task, TurnStep(t) PROVE NoneFails'
  <2>1. CASE Start(t)
    BY <2>1, <1>1
    DEF Start, Wants, taskVars, connVars, clientVars, lockVars, diskVars, histVars,
        Spawn, NoneFails
  <2>2. CASE StartFails(t)
    BY <2>2, <1>1
    DEF StartFails, taskVars, connVars, clientVars, lockVars, diskVars, histVars, Spawn,
        NoneFails
  <2>3. CASE GrantTurn(t)
    BY <2>3, <1>1
    DEF GrantTurn, Grant, taskVars, connVars, clientVars, lockVars, diskVars, histVars,
        Spawn, NoneFails
  <2>4. CASE Emit(t)
    BY <2>4, <1>1
    DEF Emit, taskVars, connVars, clientVars, lockVars, diskVars, histVars, Spawn,
        NoneFails
  <2>5. CASE Persist(t)
    BY <2>5, <1>1
    DEF Persist, taskVars, connVars, clientVars, lockVars, diskVars, histVars, Spawn,
        NoneFails
  <2>6. CASE TakeAnswer(t)
    BY <2>6, <1>1
    DEF TakeAnswer, taskVars, connVars, clientVars, lockVars, diskVars, histVars, Spawn,
        NoneFails
  <2>7. CASE Complete(t)
    BY <2>7, <1>1
    DEF Complete, LeaveTurn, taskVars, connVars, clientVars, lockVars, diskVars,
        histVars, Spawn, NoneFails
  <2>8. CASE Fail(t)
    BY <2>8, <1>1
    DEF Fail, LeaveTurn, taskVars, connVars, clientVars, lockVars, diskVars, histVars,
        Spawn, NoneFails
  <2>9. CASE Interrupt(t)
    BY <2>9, <1>1
    DEF Interrupt, taskVars, connVars, clientVars, lockVars, diskVars, histVars, Spawn,
        NoneFails
  <2>10. CASE Unwound(t)
    BY <2>10, <1>1
    DEF Unwound, LeaveTurn, taskVars, connVars, clientVars, lockVars, diskVars,
        histVars, Spawn, NoneFails
  <2>11. CASE UnwindRaises(t)
    BY <2>11, <1>1
    DEF UnwindRaises, LeaveTurn, taskVars, connVars, clientVars, lockVars, diskVars,
        histVars, Spawn, NoneFails
  <2>12. CASE Finish(t)
    BY <2>12, <1>1
    DEF Finish, Finally, taskVars, connVars, clientVars, lockVars, diskVars, histVars,
        Spawn, NoneFails
  <2>13. CASE FinishError(t)
    BY <2>13, <1>1
    DEF FinishError, Finally, taskVars, connVars, clientVars, lockVars, diskVars,
        histVars, Spawn, NoneFails
  <2> QED BY <1>4, <2>1, <2>2, <2>3, <2>4, <2>5, <2>6, <2>7, <2>8, <2>9, <2>10, <2>11,
  <2>12, <2>13 DEF TurnStep
<1>5. CASE Crash
  BY <1>5, <1>1
  DEF Crash, taskVars, connVars, clientVars, lockVars, diskVars, histVars, Spawn,
      NoneFails
<1> QED BY <1>2, <1>3, <1>4, <1>5 DEF Next

\* Who ends the busy state of a connection whose loop is idle: its active turn.
LEMMA WhoEndsBusy ==
  ASSUME IInv, Next, NEW u \in Task, pc[u] \notin {"none", "failing"}, pc'[u] # pc[u],
         handler'[job[u].owner] = "idle", busy[job[u].owner], ~ busy'[job[u].owner]
  PROVE  activeTask[job[u].owner] = u
<1>1. /\ pc \in [Task -> Pcs] /\ busy \in [Conn -> BOOLEAN] /\ handler \in [Conn -> Handlers]
      /\ job \in [Task -> [owner: Conn \cup {None}, kind: Kinds, subject: Widget \cup {None}]]
      /\ created \in Nat /\ \A t \in Task : t > created <=> pc[t] = "none"
      /\ pc[u] # "none" /\ job[u].owner \in Conn
  BY DEF IInv, TypeOK, TasksInOrder
<1>2. pc[u] \in {"created", "waiting", "running", "emitting", "parked"} /\ u \notin cancelReq =>
        activeTask[job[u].owner] = u
  BY DEF IInv, NoOrphanTurn
<1>3. ASSUME NEW c \in Conn, ClientFrame(c) PROVE activeTask[job[u].owner] = u
  <2>1. CASE Connect(c)
    BY <2>1, <1>1, <1>2
    DEF Connect, taskVars, connVars, clientVars, lockVars, diskVars, histVars, Spawn,
        InClient
  <2>2. CASE Disconnect(c)
    BY <2>2, <1>1, <1>2
    DEF Disconnect, Close, taskVars, connVars, clientVars, lockVars, diskVars, histVars,
        Spawn, InClient
  <2>3. CASE Message(c)
    BY <2>3, <1>1, <1>2
    DEF Message, taskVars, connVars, clientVars, lockVars, diskVars, histVars, Spawn,
        InClient
  <2>4. CASE Cancel(c)
    BY <2>4, <1>1, <1>2
    DEF Cancel, taskVars, connVars, clientVars, lockVars, diskVars, histVars, Spawn,
        InClient
  <2>5. CASE AnswerLive(c)
    BY <2>5, <1>1, <1>2
    DEF AnswerLive, taskVars, connVars, clientVars, lockVars, diskVars, histVars, Spawn,
        InClient
  <2>6. CASE AnswerRecovers(c)
    BY <2>6, <1>1, <1>2
    DEF AnswerRecovers, Recover, taskVars, connVars, clientVars, lockVars, diskVars,
        histVars, Spawn, InClient
  <2>7. CASE AnswerDropped(c)
    BY <2>7, <1>1, <1>2
    DEF AnswerDropped, taskVars, connVars, clientVars, lockVars, diskVars, histVars,
        Spawn, InClient
  <2>8. CASE ConfirmLive(c)
    BY <2>8, <1>1, <1>2
    DEF ConfirmLive, taskVars, connVars, clientVars, lockVars, diskVars, histVars,
        Spawn, InClient
  <2>9. CASE ConfirmRecovers(c)
    BY <2>9, <1>1, <1>2
    DEF ConfirmRecovers, Recover, taskVars, connVars, clientVars, lockVars, diskVars,
        histVars, Spawn, InClient
  <2>10. CASE ConfirmUnbound(c)
    BY <2>10, <1>1, <1>2
    DEF ConfirmUnbound, Close, taskVars, connVars, clientVars, lockVars, diskVars,
        histVars, Spawn, InClient
  <2>11. CASE ResumeFromTurn(c)
    BY <2>11, <1>1, <1>2
    DEF ResumeFromTurn, Rewind, taskVars, connVars, clientVars, lockVars, diskVars,
        histVars, Spawn, InClient
  <2>12. CASE ResumeFromRound(c)
    BY <2>12, <1>1, <1>2
    DEF ResumeFromRound, Rewind, taskVars, connVars, clientVars, lockVars, diskVars,
        histVars, Spawn, InClient
  <2>13. CASE EvolutionComplete(c)
    BY <2>13, <1>1, <1>2
    DEF EvolutionComplete, Rewind, taskVars, connVars, clientVars, lockVars, diskVars,
        histVars, Spawn, InClient
  <2> QED BY <1>3, <2>1, <2>2, <2>3, <2>4, <2>5, <2>6, <2>7, <2>8, <2>9, <2>10, <2>11,
  <2>12, <2>13 DEF ClientFrame
<1>4. ASSUME NEW c \in Conn, HandlerStep(c) PROVE activeTask[job[u].owner] = u
  <2>1. CASE QuiescedForTurn(c)
    BY <2>1, <1>1, <1>2
    DEF QuiescedForTurn, Quiesced, Wants, taskVars, connVars, clientVars, lockVars,
        diskVars, histVars, Spawn, InClient
  <2>2. CASE QuiescedForRound(c)
    BY <2>2, <1>1, <1>2
    DEF QuiescedForRound, Quiesced, taskVars, connVars, clientVars, lockVars, diskVars,
        histVars, Spawn, InClient
  <2>3. CASE QuiescedForHub(c)
    BY <2>3, <1>1, <1>2
    DEF QuiescedForHub, Quiesced, taskVars, connVars, clientVars, lockVars, diskVars,
        histVars, Spawn, InClient
  <2>4. CASE GrantHandler(c)
    BY <2>4, <1>1, <1>2
    DEF GrantHandler, Grant, taskVars, connVars, clientVars, lockVars, diskVars,
        histVars, Spawn, InClient
  <2>5. CASE Rewound(c)
    BY <2>5, <1>1, <1>2
    DEF Rewound, taskVars, connVars, clientVars, lockVars, diskVars, histVars, Spawn,
        InClient
  <2>6. CASE RewindRaises(c)
    BY <2>6, <1>1, <1>2
    DEF RewindRaises, taskVars, connVars, clientVars, lockVars, diskVars, histVars,
        Spawn, InClient
  <2>7. CASE Truncated(c)
    BY <2>7, <1>1, <1>2
    DEF Truncated, Wants, taskVars, connVars, clientVars, lockVars, diskVars, histVars,
        Spawn, InClient
  <2>8. CASE Evicted(c)
    BY <2>8, <1>1, <1>2
    DEF Evicted, RunAgain, taskVars, connVars, clientVars, lockVars, diskVars, histVars,
        Spawn, InClient
  <2>9. CASE EvictTimeout(c)
    BY <2>9, <1>1, <1>2
    DEF EvictTimeout, RunAgain, taskVars, connVars, clientVars, lockVars, diskVars,
        histVars, Spawn, InClient
  <2> QED BY <1>4, <2>1, <2>2, <2>3, <2>4, <2>5, <2>6, <2>7, <2>8, <2>9 DEF HandlerStep
<1>5. ASSUME NEW t \in Task, TurnStep(t) PROVE activeTask[job[u].owner] = u
  <2>1. CASE Start(t)
    BY <2>1, <1>1, <1>2
    DEF Start, Wants, taskVars, connVars, clientVars, lockVars, diskVars, histVars,
        Spawn, InClient
  <2>2. CASE StartFails(t)
    BY <2>2, <1>1, <1>2
    DEF StartFails, taskVars, connVars, clientVars, lockVars, diskVars, histVars, Spawn,
        InClient
  <2>3. CASE GrantTurn(t)
    BY <2>3, <1>1, <1>2
    DEF GrantTurn, Grant, taskVars, connVars, clientVars, lockVars, diskVars, histVars,
        Spawn, InClient
  <2>4. CASE Emit(t)
    BY <2>4, <1>1, <1>2
    DEF Emit, taskVars, connVars, clientVars, lockVars, diskVars, histVars, Spawn,
        InClient
  <2>5. CASE Persist(t)
    BY <2>5, <1>1, <1>2
    DEF Persist, taskVars, connVars, clientVars, lockVars, diskVars, histVars, Spawn,
        InClient
  <2>6. CASE TakeAnswer(t)
    BY <2>6, <1>1, <1>2
    DEF TakeAnswer, taskVars, connVars, clientVars, lockVars, diskVars, histVars, Spawn,
        InClient
  <2>7. CASE Complete(t)
    BY <2>7, <1>1, <1>2
    DEF Complete, LeaveTurn, taskVars, connVars, clientVars, lockVars, diskVars,
        histVars, Spawn, InClient
  <2>8. CASE Fail(t)
    BY <2>8, <1>1, <1>2
    DEF Fail, LeaveTurn, taskVars, connVars, clientVars, lockVars, diskVars, histVars,
        Spawn, InClient
  <2>9. CASE Interrupt(t)
    BY <2>9, <1>1, <1>2
    DEF Interrupt, taskVars, connVars, clientVars, lockVars, diskVars, histVars, Spawn,
        InClient
  <2>10. CASE Unwound(t)
    BY <2>10, <1>1, <1>2
    DEF Unwound, LeaveTurn, taskVars, connVars, clientVars, lockVars, diskVars,
        histVars, Spawn, InClient
  <2>11. CASE UnwindRaises(t)
    BY <2>11, <1>1, <1>2
    DEF UnwindRaises, LeaveTurn, taskVars, connVars, clientVars, lockVars, diskVars,
        histVars, Spawn, InClient
  <2>12. CASE Finish(t)
    BY <2>12, <1>1, <1>2
    DEF Finish, Finally, taskVars, connVars, clientVars, lockVars, diskVars, histVars,
        Spawn, InClient
  <2>13. CASE FinishError(t)
    BY <2>13, <1>1, <1>2
    DEF FinishError, Finally, taskVars, connVars, clientVars, lockVars, diskVars,
        histVars, Spawn, InClient
  <2> QED BY <1>5, <2>1, <2>2, <2>3, <2>4, <2>5, <2>6, <2>7, <2>8, <2>9, <2>10, <2>11,
  <2>12, <2>13 DEF TurnStep
<1>6. CASE Crash
  BY <1>6, <1>1, <1>2
  DEF Crash, taskVars, connVars, clientVars, lockVars, diskVars, histVars, Spawn,
      InClient
<1> QED BY <1>3, <1>4, <1>5, <1>6 DEF Next

\* As long as nothing raises, the late terminal frame of a replaced turn never ends the busy
\* state of the turn that replaced it, whatever the number of sockets
\* (send_cancelled_status asks whether the task is still active).
THEOREM ReplacedTurnsAreSilent ==
  ASSUME "fail" \notin Frames
  PROVE  Spec => NoLateTerminal
<1> DEFINE Silent ==
      \A t \in Task :
        LET c == job[t].owner IN
        /\ pc'[t] # pc[t] /\ pc[t] # "none" /\ handler'[c] = "idle"
        /\ busy[c] /\ ~busy'[c]
        => activeTask[c] = t
<1>1. Init => NoneFails
  BY DEF Init, NoneFails
<1>2. IInv /\ NoneFails /\ [Next]_vars => NoneFails'
  <2>1. CASE UNCHANGED vars
    BY <2>1 DEF NoneFails, vars, taskVars
  <2> QED BY <2>1, FailingStep
<1>3. ASSUME IInv, NoneFails, Next PROVE Silent
  BY <1>3, WhoEndsBusy DEF NoneFails
<1>4. ASSUME UNCHANGED vars PROVE Silent
  BY <1>4 DEF vars, taskVars
<1>5. IInv /\ NoneFails /\ [Next]_vars => [Silent]_vars
  BY <1>3, <1>4
<1> QED BY <1>1, <1>2, <1>5, Invariance, PTL DEF Spec, NoLateTerminal

=============================================================================
