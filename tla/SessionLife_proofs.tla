-------------------------- MODULE SessionLife_proofs --------------------------
(***************************************************************************)
(* What is proved of SessionLife, for every value of its constants: its    *)
(* types; that nothing but a creation makes a session (NoResurrection);    *)
(* and, when one socket at a time sends hub frames (Tabs <= 1), that every *)
(* live hub run is within reach of those who cancel runs (IInv) and that a *)
(* session goes after its runs (DeleteFollowsItsRuns).  With two sockets   *)
(* the last two fail: see the run double.                                  *)
(***************************************************************************)
EXTENDS SessionLife, FiniteSetTheorems, TLAPS

-----------------------------------------------------------------------------
(* Types.                                                                  *)

\* Writing a session that is there with what is of the right form keeps the types.
LEMMA PersistTyped ==
  ASSUME TypeOK, NEW s, NEW c, s \in full => c \in Content, Persist(s, c)
  PROVE  state' \in [Session -> Content] /\ index' \subseteq Session
BY DEF TypeOK, Persist

\* What a controller leaves in the session is of the right form.
LEMMA OpenedTyped ==
  ASSUME TypeOK, NEW s, NEW wc \in Hub \union {None}, NEW ids \in SUBSET Hub,
         Opened(s, wc, ids)
  PROVE  state' \in [Session -> Content] /\ index' \subseteq Session
<1>1. ASSUME NEW h \in Hub, NEW g \in Hub \union {None}, s \in full
      PROVE  Shown([state[s] EXCEPT !.hub = g], h) \in Content
  <2>1. state[s] \in Content
    BY <1>1 DEF TypeOK
  <2> QED BY <1>1, <2>1 DEF Shown, Content
<1>2. NewHub \subseteq Hub
  BY DEF NewHub
<1>3. CASE \E h \in NewHub \union ({wc} \ {None}) :
             Persist(s, Shown([state[s] EXCEPT !.hub = h], h))
  <2>1. PICK h \in NewHub \union ({wc} \ {None}) :
               Persist(s, Shown([state[s] EXCEPT !.hub = h], h))
    BY <1>3
  <2>2. h \in Hub
    BY <1>2
  <2> QED BY <1>1, <2>1, <2>2, PersistTyped
<1>4. CASE \E h \in ids : Persist(s, Shown([state[s] EXCEPT !.hub = wc], h))
  <2>1. PICK h \in ids : Persist(s, Shown([state[s] EXCEPT !.hub = wc], h))
    BY <1>4
  <2> QED BY <1>1, <2>1, PersistTyped
<1> QED BY <1>3, <1>4 DEF Opened

LEMMA TypeInit == Init => TypeOK
BY LifeAssumption DEF Init, TypeOK, LifeAssumption, Content, Rewind, HubRun, Call, Fresh,
   NoThread, NoRun, NoReq, Hub, Run, None, NoSession

\* A step of a call that gives it a proper new value keeps the calls typed.
LEMMA CallTyped ==
  ASSUME TypeOK, NEW r \in Request, NEW c \in Call, req' = [req EXCEPT ![r] = c]
  PROVE  req' \in [Request -> Call]
BY DEF TypeOK

\* So does the end of a call.
LEMMA NoReqTyped == NoReq \in Call
BY DEF NoReq, Call, NoSession, None

\* The keys of a session's runs are keys.
LEMMA KeysTyped ==
  ASSUME TypeOK, NEW s
  PROVE  Keys(s) \subseteq Key \union {None} \union Run
BY DEF TypeOK, Keys, HubRun

\* Every step of the store and of the turns keeps the types.
LEMMA TypeStepStore ==
  ASSUME TypeOK, NEW s \in Session,
         \/ Create(s) \/ Connect(s) \/ StartTurn(s) \/ TurnOpens(s) \/ EndTurn(s)
         \/ ThreadReads(s) \/ ThreadWrites(s) \/ ThreadScans(s) \/ ThreadLists(s)
  PROVE  TypeOK'
<1> USE LifeAssumption DEF LifeAssumption
<1>1. Fresh \in Content
  BY DEF Fresh, Content, Hub, None
<1>2. state[s] \in Content /\ thread[s] \in Rewind
  BY DEF TypeOK
<1>3. CASE Create(s)
  BY <1>1, <1>3 DEF TypeOK, Create
<1>4. CASE Connect(s)
  <2>1. [state[s] EXCEPT !.ref = [h \in Hub |-> IF @[h] = "open" THEN "closed" ELSE @[h]]]
          \in Content
    BY <1>2 DEF Content
  <2> QED BY <1>4, <2>1, PersistTyped DEF TypeOK, Connect
<1>5. CASE StartTurn(s)
  BY <1>5 DEF TypeOK, StartTurn, disk
<1>6. CASE TurnOpens(s)
  <2>1. state[s].hub \in Hub \union {None}
    BY <1>2 DEF Content
  <2>2. (IF OpenHub(s) = {} THEN NewHub ELSE OpenHub(s)) \in SUBSET Hub
    BY DEF OpenHub, NewHub
  <2> QED BY <1>6, <2>1, <2>2, OpenedTyped DEF TypeOK, TurnOpens
<1>7. CASE EndTurn(s)
  <2>1. [state[s] EXCEPT !.hub = None] \in Content
    BY <1>2 DEF Content
  <2> QED BY <1>7, <2>1, PersistTyped DEF TypeOK, EndTurn
<1>8. ASSUME NEW th \in Rewind, thread' = [thread EXCEPT ![s] = th]
      PROVE  thread' \in [Session -> Rewind]
  BY <1>8 DEF TypeOK
<1>9. CASE ThreadReads(s)
  <2>1. [at |-> "write", copy |-> state[s], seen |-> {}] \in Rewind
    BY <1>2 DEF Rewind
  <2> QED BY <1>8, <1>9, <2>1 DEF TypeOK, ThreadReads, disk
<1>10. CASE ThreadWrites(s)
  <2>1. PICK cut \in SUBSET Hub : state' = [state EXCEPT ![s] = Without(thread[s].copy, cut)]
    BY <1>10 DEF ThreadWrites
  <2>2. thread[s].copy \in Content
    BY <1>2 DEF Rewind
  <2>3. Without(thread[s].copy, cut) \in Content
    BY <2>2 DEF Content, Without
  <2>4. state' \in [Session -> Content]
    BY <2>1, <2>3 DEF TypeOK
  <2>5. [thread[s] EXCEPT !.at = "scan"] \in Rewind
    BY <1>2 DEF Rewind
  <2>6. thread' = [thread EXCEPT ![s] = [thread[s] EXCEPT !.at = "scan"]]
    BY <1>10 DEF ThreadWrites, TypeOK
  <2> QED BY <1>8, <1>10, <2>4, <2>5, <2>6 DEF TypeOK, ThreadWrites
<1>11. CASE ThreadScans(s)
  <2>1. [[thread[s] EXCEPT !.at = "index"] EXCEPT !.seen = full] \in Rewind
    BY <1>2 DEF Rewind, TypeOK
  <2>2. thread' = [thread EXCEPT ![s] = [thread[s] EXCEPT !.at = "index", !.seen = full]]
    BY <1>11 DEF ThreadScans
  <2> QED BY <1>8, <1>11, <2>1, <2>2 DEF TypeOK, ThreadScans, disk
<1>12. CASE ThreadLists(s)
  <2>1. NoThread \in Rewind
    BY <1>1 DEF NoThread, Rewind
  <2>2. thread[s].seen \subseteq Session
    BY <1>2 DEF Rewind
  <2> QED BY <1>8, <1>12, <2>1, <2>2 DEF TypeOK, ThreadLists
<1> QED BY <1>3, <1>4, <1>5, <1>6, <1>7, <1>9, <1>10, <1>11, <1>12

\* Every step of a hub run keeps the types.
LEMMA TypeStepRun ==
  ASSUME TypeOK, NEW i \in Run, Begin(i) \/ RunPersists(i) \/ RunEnds(i)
  PROVE  TypeOK'
<1>1. run[i] \in HubRun
  BY DEF TypeOK
<1>2. run[i].s \in full => [state[run[i].s] EXCEPT !.hub = run[i].wc] \in Content
  <2> SUFFICES ASSUME run[i].s \in full
               PROVE  [state[run[i].s] EXCEPT !.hub = run[i].wc] \in Content
    OBVIOUS
  <2>1. state[run[i].s] \in Content
    BY DEF TypeOK
  <2> QED BY <1>1, <2>1 DEF Content, HubRun
<1>3. CASE Begin(i)
  <2>1. [run[i] EXCEPT !.pc = "live"] \in HubRun
    BY <1>1 DEF HubRun
  <2>2. run' = [run EXCEPT ![i] = [run[i] EXCEPT !.pc = "live"]]
    BY <1>3 DEF Begin
  <2> QED BY <1>3, <2>1, <2>2 DEF TypeOK, Begin, disk
<1>4. CASE RunPersists(i)
  BY <1>2, <1>4, PersistTyped DEF TypeOK, RunPersists
<1>5. CASE RunEnds(i)
  <2>1. state' \in [Session -> Content] /\ index' \subseteq Session
    BY <1>2, <1>5, PersistTyped DEF TypeOK, RunEnds
  <2>2. [NoRun EXCEPT !.pc = "done"] \in HubRun
    BY DEF NoRun, HubRun, NoSession, None
  <2> QED BY <1>5, <2>1, <2>2 DEF TypeOK, RunEnds
<1> QED BY <1>3, <1>4, <1>5

\* Every step of a call that is under way keeps the types.
LEMMA TypeStepCall ==
  ASSUME TypeOK, NEW r \in Request,
         \/ CancelNext(r) \/ Awaited(r) \/ Spawn(r) \/ Open(r) \/ Close(r)
         \/ Evicted(r) \/ Delete(r) \/ Shutdown(r) \/ ShutdownNext(r)
  PROVE  TypeOK'
<1>1. req[r] \in Call
  BY DEF TypeOK
<1>2. CASE CancelNext(r)
  <2>1. PICK k \in req[r].keys :
       LET own == {i \in tracked : run[i].s = req[r].s /\ run[i].key = k}
       IN  IF own = {}
           THEN req' = [req EXCEPT ![r].keys = @ \ {k}] /\ UNCHANGED run
           ELSE \E i \in own :
                  /\ req' = [req EXCEPT ![r].keys = @ \ {k}, ![r].wait = i]
                  /\ run' = [run EXCEPT ![i].pc = CASE @ = "queued" -> "dropped"
                                                    [] @ = "live" -> "unwinding"
                                                    [] OTHER -> @]
    BY <1>2 DEF CancelNext
  <2> DEFINE own == {i \in tracked : run[i].s = req[r].s /\ run[i].key = k}
  <2>2. CASE own = {}
    <3>1. [req[r] EXCEPT !.keys = @ \ {k}] \in Call
      BY <1>1 DEF Call
    <3>2. req' = [req EXCEPT ![r] = [req[r] EXCEPT !.keys = @ \ {k}]] /\ UNCHANGED run
      BY <2>1, <2>2
    <3> QED BY <1>2, <3>1, <3>2, CallTyped DEF TypeOK, CancelNext, disk
  <2>3. CASE own # {}
    <3>1. PICK i \in own :
            /\ req' = [req EXCEPT ![r].keys = @ \ {k}, ![r].wait = i]
            /\ run' = [run EXCEPT ![i].pc = CASE @ = "queued" -> "dropped"
                                              [] @ = "live" -> "unwinding"
                                              [] OTHER -> @]
      BY <2>1, <2>3, Zenon
    <3>2. i \in Run
      BY <3>1 DEF TypeOK
    <3>3. [req[r] EXCEPT !.keys = @ \ {k}, !.wait = i] \in Call
      BY <1>1, <3>2 DEF Call
    <3>4. run[i] \in HubRun
      BY <3>2 DEF TypeOK
    <3>5. [run[i] EXCEPT !.pc = CASE @ = "queued" -> "dropped" [] @ = "live" -> "unwinding"
                                  [] OTHER -> @] \in HubRun
      BY <3>4 DEF HubRun
    <3>6. run' \in [Run -> HubRun]
      BY <3>1, <3>5 DEF TypeOK
    <3>7. req' = [req EXCEPT ![r] = [req[r] EXCEPT !.keys = @ \ {k}, !.wait = i]]
      BY <3>1 DEF TypeOK
    <3>8. req' \in [Request -> Call]
      BY <3>3, <3>7, CallTyped
    <3> QED BY <1>2, <3>6, <3>8 DEF TypeOK, CancelNext, disk
  <2> QED BY <2>2, <2>3
<1>3. CASE Awaited(r)
  <2>1. [req[r] EXCEPT !.wait = None] \in Call
    BY <1>1 DEF Call
  <2>2. req' = [req EXCEPT ![r] = [req[r] EXCEPT !.wait = None]]
    BY <1>3 DEF Awaited
  <2> QED BY <1>3, <2>1, <2>2, CallTyped DEF TypeOK, Awaited, disk
<1>4. CASE Spawn(r)
  <2>1. state' \in [Session -> Content] /\ index' \subseteq Session
    <3>1. req[r].s \in full => [state[req[r].s] EXCEPT !.hub = req[r].h] \in Content
      <4> SUFFICES ASSUME req[r].s \in full
                   PROVE  [state[req[r].s] EXCEPT !.hub = req[r].h] \in Content
        OBVIOUS
      <4>1. state[req[r].s] \in Content
        BY DEF TypeOK
      <4> QED BY <1>1, <4>1 DEF Content, Call
    <3>2. Persist(req[r].s, [state[req[r].s] EXCEPT !.hub = req[r].h])
            \/ UNCHANGED <<state, index>>
      BY <1>4 DEF Spawn
    <3> QED BY <3>1, <3>2, PersistTyped DEF TypeOK
  <2>2. PICK i \in Run :
          /\ run' = [run EXCEPT ![i] = [s |-> req[r].s,
                       key |-> IF req[r].key = None THEN i ELSE req[r].key,
                       wc |-> req[r].h, pc |-> "queued"]]
          /\ tracked' \subseteq {i} \union tracked
    BY <1>4 DEF Spawn
  <2>3. [s |-> req[r].s, key |-> IF req[r].key = None THEN i ELSE req[r].key,
         wc |-> req[r].h, pc |-> "queued"] \in HubRun
    BY <1>1 DEF HubRun, Call
  <2>4. run' \in [Run -> HubRun] /\ tracked' \subseteq Run
    BY <2>2, <2>3 DEF TypeOK
  <2> QED BY <1>4, <2>1, <2>4, NoReqTyped DEF TypeOK, Spawn
<1>5. CASE Open(r)
  <2>1. req[r].h \in Hub \union {None} /\ NewHub \in SUBSET Hub
    BY <1>1 DEF Call, NewHub
  <2>2. state' \in [Session -> Content] /\ index' \subseteq Session
    BY <1>5, <2>1, OpenedTyped DEF Open
  <2> QED BY <1>5, <2>2, NoReqTyped DEF TypeOK, Open
<1>6. CASE Close(r)
  BY <1>6, NoReqTyped DEF TypeOK, Close, disk
<1>7. CASE Evicted(r)
  <2>1. Keys(req[r].s) \subseteq Key \union {None} \union Run
    BY KeysTyped
  <2>2. {i \in tracked : run[i].s = req[r].s} \subseteq Run
    BY DEF TypeOK
  <2>3. [req[r] EXCEPT !.at = "cancel", !.keys = Keys(req[r].s),
                       !.pre = {i \in tracked : run[i].s = req[r].s}] \in Call
    BY <1>1, <2>1, <2>2 DEF Call
  <2>4. req' = [req EXCEPT ![r] = [req[r] EXCEPT !.at = "cancel", !.keys = Keys(req[r].s),
                                     !.pre = {i \in tracked : run[i].s = req[r].s}]]
    BY <1>7 DEF Evicted
  <2> QED BY <1>7, <2>3, <2>4, CallTyped DEF TypeOK, Evicted, disk
<1>8. CASE Delete(r)
  <2>1. Fresh \in Content
    BY LifeAssumption DEF Fresh, Content, Hub, None, LifeAssumption
  <2> QED BY <1>8, <2>1, NoReqTyped DEF TypeOK, Delete
<1>9. CASE Shutdown(r)
  <2>1. Listing \subseteq Session
    BY DEF TypeOK, Listing
  <2>2. [NoReq EXCEPT !.op = "shutdown", !.at = "cancel", !.rest = Listing] \in Call
    BY <2>1, NoReqTyped DEF Call
  <2>3. req' \in [Request -> Call]
    BY <1>9, <2>2, CallTyped DEF Shutdown
  <2>4. UNCHANGED <<full, bare, state, index, thread, turn, run, tracked, births>> /\ up' = FALSE
    BY <1>9 DEF Shutdown, disk
  <2> QED BY <2>3, <2>4 DEF TypeOK
<1>10. CASE ShutdownNext(r)
  <2>1. PICK s \in req[r].rest :
          req' = [req EXCEPT ![r].s = s, ![r].keys = Keys(s), ![r].rest = @ \ {s}]
    BY <1>10 DEF ShutdownNext
  <2>2. s \in Session
    BY <1>1 DEF Call
  <2>3. Keys(s) \subseteq Key \union {None} \union Run
    BY KeysTyped
  <2>4. [req[r] EXCEPT !.s = s, !.keys = Keys(s), !.rest = @ \ {s}] \in Call
    BY <1>1, <2>2, <2>3 DEF Call
  <2>5. req' = [req EXCEPT ![r] = [req[r] EXCEPT !.s = s, !.keys = Keys(s), !.rest = @ \ {s}]]
    BY <2>1 DEF TypeOK
  <2> QED BY <1>10, <2>4, <2>5, CallTyped DEF TypeOK, ShutdownNext, disk
<1> QED BY <1>2, <1>3, <1>4, <1>5, <1>6, <1>7, <1>8, <1>9, <1>10

\* Every step that starts a call keeps the types.
LEMMA TypeStepAsk ==
  ASSUME TypeOK, NEW r \in Request, NEW s \in Session,
         \/ AskOpen(r, s) \/ AskDelete(r, s)
         \/ \E k \in Key \union {None} : AskRun(r, s, k)
         \/ \E h \in Hub : AskClose(r, s, h)
  PROVE  TypeOK'
<1>1. state[s] \in Content /\ WithDir(s) \subseteq Session
  BY DEF TypeOK, WithDir
<1>2. (IF s \in full THEN state[s].hub ELSE None) \in Hub \union {None}
  BY <1>1 DEF Content
<1>3. CASE AskOpen(r, s)
  <2>1. [NoReq EXCEPT !.op = "open", !.s = s, !.at = "open",
                      !.h = IF s \in full THEN state[s].hub ELSE None] \in Call
    BY <1>2, NoReqTyped DEF Call
  <2> QED BY <1>1, <1>3, <2>1, CallTyped DEF TypeOK, AskOpen
<1>4. CASE AskDelete(r, s)
  <2>1. [NoReq EXCEPT !.op = "delete", !.s = s, !.at = "evict"] \in Call
    BY NoReqTyped DEF Call
  <2> QED BY <1>4, <2>1, CallTyped DEF TypeOK, AskDelete, disk
<1>5. ASSUME NEW k \in Key \union {None}, AskRun(r, s, k) PROVE TypeOK'
  <2>1. ToReplace(k) \subseteq Key
    BY DEF ToReplace
  <2>2. [NoReq EXCEPT !.op = IF k = None THEN "submission" ELSE "command",
           !.s = s, !.h = IF s \in full THEN state[s].hub ELSE None,
           !.key = k, !.at = "cancel", !.keys = ToReplace(k)] \in Call
    BY <1>2, <2>1, NoReqTyped DEF Call
  <2> QED BY <1>1, <1>5, <2>2, CallTyped DEF TypeOK, AskRun
<1>6. ASSUME NEW h \in Hub, AskClose(r, s, h) PROVE TypeOK'
  <2>1. [hub |-> IF state[s].hub = h THEN None ELSE state[s].hub,
         ref |-> [state[s].ref EXCEPT ![h] = "closed"]] \in Content
    BY <1>1 DEF Content
  <2>2. state' \in [Session -> Content] /\ index' \subseteq Session
    BY <1>6, <2>1, PersistTyped DEF AskClose
  <2>3. Keys(s) \subseteq Key \union {None} \union Run
    BY KeysTyped
  <2>4. [NoReq EXCEPT !.op = "close", !.s = s, !.h = h, !.at = "cancel", !.keys = Keys(s)]
          \in Call
    BY <2>3, NoReqTyped DEF Call
  <2> QED BY <1>6, <2>2, <2>4, CallTyped DEF TypeOK, AskClose
<1> QED BY <1>3, <1>4, <1>5, <1>6

\* Every step keeps the types.
LEMMA TypeStep == TypeOK /\ [Next]_vars => TypeOK'
<1> SUFFICES ASSUME TypeOK, [Next]_vars PROVE TypeOK'
  OBVIOUS
<1>1. CASE UNCHANGED vars
  BY <1>1 DEF TypeOK, vars
<1>2. CASE Next
  BY <1>2, TypeStepStore, TypeStepRun, TypeStepCall, TypeStepAsk DEF Next
<1> QED BY <1>1, <1>2

\* The types, for every value of the constants.
THEOREM TypeCorrect == Spec => []TypeOK
BY TypeInit, TypeStep, PTL DEF Spec

-----------------------------------------------------------------------------
(* Sessions that are deleted stay deleted.                                 *)

\* Every step keeps the invariant, and creates a session only as Create does.
LEMMA LifeStep ==
  ASSUME TypeOK, WritesIntoSession, [Next]_vars
  PROVE  /\ WritesIntoSession'
         /\ \A s \in Session : s \in full' \ full => births'[s] = births[s] + 1
<1> DEFINE Goal == /\ WritesIntoSession'
                   /\ \A s \in Session : s \in full' \ full => births'[s] = births[s] + 1
<1>1. ASSUME UNCHANGED <<full, thread>> PROVE Goal
  BY <1>1 DEF WritesIntoSession
<1>2. CASE UNCHANGED vars
  BY <1>1, <1>2 DEF vars
<1>3. ASSUME NEW s \in Session, Create(s) PROVE Goal
  BY <1>3 DEF TypeOK, WritesIntoSession, Create
<1>4. ASSUME NEW s \in Session, Connect(s) \/ StartTurn(s) \/ TurnOpens(s) \/ EndTurn(s) PROVE Goal
  BY <1>1, <1>4 DEF Connect, StartTurn, TurnOpens, EndTurn, disk
<1>5. ASSUME NEW s \in Session, ThreadReads(s) PROVE Goal
  BY <1>5 DEF TypeOK, WritesIntoSession, ThreadReads, disk
<1>6. ASSUME NEW s \in Session, ThreadWrites(s) PROVE Goal
  <2>1. full' = full
    BY <1>6 DEF WritesIntoSession, ThreadWrites
  <2>2. \A q \in Session : thread'[q].at = "write" => thread[q].at = "write"
    BY <1>6 DEF TypeOK, Rewind, ThreadWrites
  <2> QED BY <2>1, <2>2 DEF WritesIntoSession
<1>7. ASSUME NEW s \in Session, ThreadScans(s) PROVE Goal
  BY <1>7 DEF TypeOK, Rewind, WritesIntoSession, ThreadScans, disk
<1>8. ASSUME NEW s \in Session, ThreadLists(s) PROVE Goal
  BY <1>8 DEF TypeOK, WritesIntoSession, ThreadLists, NoThread
<1>9. ASSUME NEW i \in Run, Begin(i) \/ RunPersists(i) \/ RunEnds(i) PROVE Goal
  BY <1>1, <1>9 DEF Begin, RunPersists, RunEnds, disk
<1>10. ASSUME NEW r \in Request,
              \/ CancelNext(r) \/ Awaited(r) \/ Spawn(r) \/ Open(r) \/ Close(r)
              \/ Evicted(r) \/ Shutdown(r) \/ ShutdownNext(r)
       PROVE  Goal
  BY <1>1, <1>10 DEF CancelNext, Awaited, Spawn, Open, Close, Evicted, Shutdown, ShutdownNext, disk
<1>11. ASSUME NEW r \in Request, Delete(r) PROVE Goal
  <2>1. full' = full \ {req[r].s} /\ UNCHANGED thread /\ thread[req[r].s].at = "idle"
    BY <1>11 DEF Delete, Removable, LockFree
  <2> QED BY <2>1 DEF WritesIntoSession
<1>12. ASSUME NEW r \in Request, NEW s \in Session,
              \/ AskOpen(r, s) \/ AskDelete(r, s)
              \/ \E k \in Key \union {None} : AskRun(r, s, k)
              \/ \E h \in Hub : AskClose(r, s, h)
       PROVE  Goal
  BY <1>1, <1>12 DEF AskOpen, AskDelete, AskRun, AskClose, disk
<1> QED
  BY <1>2, <1>3, <1>4, <1>5, <1>6, <1>7, <1>8, <1>9, <1>10, <1>11, <1>12 DEF Next

\* Nothing but a creation makes a session (delete_session, _persist_session), for
\* any number of sessions, runs and requests, in every order.
THEOREM SessionsStayDeleted == Spec => NoResurrection
<1>1. Init => WritesIntoSession
  BY DEF Init, WritesIntoSession, NoThread
<1>2. Spec => [](TypeOK /\ WritesIntoSession)
  <2>1. TypeOK /\ WritesIntoSession /\ [Next]_vars => (TypeOK /\ WritesIntoSession)'
    BY TypeStep, LifeStep
  <2> QED BY <1>1, <2>1, TypeInit, PTL DEF Spec
<1>3. TypeOK /\ WritesIntoSession /\ [Next]_vars
        => [\A s \in Session : s \in full' \ full => births'[s] = births[s] + 1]_vars
  BY LifeStep
<1> QED BY <1>2, <1>3, PTL DEF Spec, NoResurrection

-----------------------------------------------------------------------------
(* Hub runs stay within reach, when one socket sends hub frames.           *)

\* What is claimed of calls and runs, without the types.
RunsInStep == RunsAreTracked /\ OneRunPerId /\ KeysAreOwn /\ OneFrame /\ CallsInStep

\* What is claimed of one call.
InStep(c) == Replacing(c) /\ Awaiting(c) /\ (c.op = "submission" => c.key = None)

LEMMA Idle == InStep(NoReq) /\ NoReq.op \notin HubFrames
BY DEF InStep, Replacing, Awaiting, NoReq, HubFrames

\* A step that changes no run and one call, to one that is in step.
LEMMA OneCall ==
  ASSUME TypeOK, RunsInStep, UNCHANGED <<run, tracked>>, NEW r \in Request, NEW c,
         req' = [req EXCEPT ![r] = c], InStep(c),
         \/ c.op \notin HubFrames \/ req[r].op \in HubFrames
         \/ \A q \in Request : req[q].op \notin HubFrames
  PROVE  RunsInStep'
<1>1. Alive' = Alive
  BY DEF Alive
<1>2. \A q \in Request : req'[q] = IF q = r THEN c ELSE req[q]
  BY DEF TypeOK
<1>3. (RunsAreTracked /\ OneRunPerId /\ KeysAreOwn)'
  BY <1>1 DEF RunsInStep, RunsAreTracked, OneRunPerId, KeysAreOwn
<1>4. OneFrame'
  BY <1>2 DEF RunsInStep, OneFrame
<1>5. CallsInStep'
  <2> SUFFICES ASSUME NEW q \in Request
               PROVE  /\ Replacing(req[q])' /\ Awaiting(req[q])'
                      /\ (req[q].op = "submission" => req[q].key = None)'
    BY DEF CallsInStep
  <2>1. InStep(IF q = r THEN c ELSE req[q])
    BY DEF RunsInStep, CallsInStep, InStep
  <2> QED BY <1>1, <1>2, <2>1 DEF InStep, Replacing, Awaiting
<1> QED BY <1>3, <1>4, <1>5 DEF RunsInStep

\* A run that begins, or is told to stop, is the run it was.
LEMMA SameRuns ==
  ASSUME TypeOK, NEW i \in Run, NEW p, run' = [run EXCEPT ![i].pc = p],
         run[i].pc \in {"queued", "live", "unwinding", "dropped"},
         p \in {"queued", "live", "unwinding", "dropped"}
  PROVE  /\ Alive' = Alive
         /\ \A j \in Run : /\ run'[j].s = run[j].s /\ run'[j].key = run[j].key
                           /\ run[j].pc = "done" => run'[j].pc = "done"
<1>1. \A j \in Run : run'[j] = IF j = i THEN [run[i] EXCEPT !.pc = p] ELSE run[j]
  BY DEF TypeOK
<1>2. \A j \in Run : run[j] \in HubRun
  BY DEF TypeOK
<1>3. \A j \in Run : /\ run'[j].s = run[j].s /\ run'[j].key = run[j].key
                     /\ run'[j].pc = IF j = i THEN p ELSE run[j].pc
  BY <1>1, <1>2 DEF HubRun
<1> QED BY <1>3 DEF Alive

\* A step of a run, of which no call is part.
LEMMA RunStep ==
  ASSUME TypeOK, RunsInStep, NEW i \in Run, Begin(i) \/ RunPersists(i) \/ RunEnds(i)
  PROVE  RunsInStep'
<1>1. CASE Begin(i)
  <2>1. /\ Alive' = Alive /\ UNCHANGED <<req, tracked>>
        /\ \A j \in Run : /\ run'[j].s = run[j].s /\ run'[j].key = run[j].key
                          /\ run[j].pc = "done" => run'[j].pc = "done"
    BY <1>1, SameRuns DEF Begin
  <2>2. \A r \in Request : req[r].pre \subseteq Run
    BY DEF TypeOK, Call
  <2>3. (RunsAreTracked /\ OneRunPerId /\ KeysAreOwn /\ OneFrame)'
    BY <2>1 DEF RunsInStep, RunsAreTracked, OneRunPerId, KeysAreOwn, OneFrame, Alive
  <2>4. CallsInStep'
    BY <2>1, <2>2 DEF RunsInStep, CallsInStep, Replacing, Awaiting, Alive
  <2> QED BY <2>3, <2>4 DEF RunsInStep
<1>2. CASE RunPersists(i)
  BY <1>2 DEF RunPersists, RunsInStep, RunsAreTracked, OneRunPerId, KeysAreOwn, OneFrame,
     CallsInStep, Replacing, Awaiting, Alive
<1>3. CASE RunEnds(i)
  <2>1. \A j \in Run : run'[j] = IF j = i THEN [NoRun EXCEPT !.pc = "done"] ELSE run[j]
    BY <1>3 DEF TypeOK, RunEnds
  <2>2. Alive' = Alive \ {i} /\ tracked' = tracked \ {i} /\ UNCHANGED req
    BY <1>3, <2>1 DEF Alive, RunEnds, NoRun
  <2>3. run'[i].pc = "done"
    BY <2>1 DEF NoRun
  <2>4. \A r \in Request : req[r].pre \subseteq Run
    BY DEF TypeOK, Call
  <2>5. (RunsAreTracked /\ OneRunPerId /\ KeysAreOwn /\ OneFrame)'
    BY <2>1, <2>2 DEF RunsInStep, RunsAreTracked, OneRunPerId, KeysAreOwn, OneFrame, Alive
  <2>6. CallsInStep'
    <3>1. \A j \in Alive' : j \in Alive /\ run'[j] = run[j]
      BY <2>1, <2>2 DEF Alive
    <3>2. ASSUME NEW r \in Request PROVE Replacing(req[r])'
      BY <2>2, <3>1 DEF RunsInStep, CallsInStep, Replacing
    <3>3. ASSUME NEW r \in Request PROVE Awaiting(req[r])'
      <4> SUFFICES ASSUME req[r].op = "delete", req[r].at = "cancel", NEW j \in req[r].pre, j # i
                   PROVE  \/ run'[j].pc = "done"
                          \/ j \in Alive' /\ run'[j].s = req[r].s
                               /\ (run'[j].key \in req[r].keys \/ req[r].wait = j)
        BY <2>2, <2>3 DEF Awaiting
      <4>1. j \in Run /\ run'[j] = run[j]
        BY <2>1, <2>4
      <4>2. \/ run[j].pc = "done"
            \/ j \in Alive /\ run[j].s = req[r].s /\ (run[j].key \in req[r].keys \/ req[r].wait = j)
        BY DEF RunsInStep, CallsInStep, Awaiting
      <4> QED BY <2>2, <4>1, <4>2
    <3> QED BY <2>2, <3>2, <3>3 DEF RunsInStep, CallsInStep
  <2> QED BY <2>5, <2>6 DEF RunsInStep
<1> QED BY <1>1, <1>2, <1>3

\* Cancelling the next run id: the run it finds is the only one of that id, and
\* if it finds none there is none.
LEMMA CancelStep ==
  ASSUME TypeOK, RunsInStep, NEW r \in Request, CancelNext(r)
  PROVE  RunsInStep'
<1> DEFINE c == req[r]
<1>1. PICK k \in c.keys :
       LET own == {i \in tracked : run[i].s = req[r].s /\ run[i].key = k}
       IN  IF own = {}
           THEN req' = [req EXCEPT ![r].keys = @ \ {k}] /\ UNCHANGED run
           ELSE \E i \in own :
                  /\ req' = [req EXCEPT ![r].keys = @ \ {k}, ![r].wait = i]
                  /\ run' = [run EXCEPT ![i].pc = CASE @ = "queued" -> "dropped"
                                                    [] @ = "live" -> "unwinding"
                                                    [] OTHER -> @]
  BY DEF CancelNext
<1> DEFINE own == {i \in tracked : run[i].s = c.s /\ run[i].key = k}
<1>2. c \in Call /\ c.at = "cancel" /\ c.wait = None /\ UNCHANGED tracked
  BY DEF TypeOK, CancelNext
<1>3. Alive = tracked /\ InStep(c) /\ Alive \subseteq Run /\ None \notin Run
  BY DEF RunsInStep, RunsAreTracked, CallsInStep, InStep, Alive, Run, None
<1>4. CASE own = {}
  <2> DEFINE d == [c EXCEPT !.keys = @ \ {k}]
  <2>1. req' = [req EXCEPT ![r] = d] /\ UNCHANGED run
    BY <1>1, <1>4 DEF TypeOK
  <2>2. /\ d.op = c.op /\ d.s = c.s /\ d.key = c.key /\ d.at = c.at /\ d.wait = c.wait
        /\ d.pre = c.pre /\ d.keys = c.keys \ {k}
    BY <1>2 DEF Call
  <2> HIDE DEF d
  <2>3. InStep(d)
    <3>1. Replacing(d)
      BY <1>2, <1>3, <1>4, <2>2 DEF InStep, Replacing
    <3>2. Awaiting(d)
      BY <1>2, <1>3, <1>4, <2>2 DEF InStep, Awaiting
    <3> QED BY <1>3, <2>2, <3>1, <3>2 DEF InStep
  <2>4. d.op \notin HubFrames \/ req[r].op \in HubFrames
    BY <2>2
  <2> QED BY <1>2, <2>1, <2>3, <2>4, OneCall
<1>5. CASE own # {}
  <2>1. PICK i \in own :
          /\ req' = [req EXCEPT ![r].keys = @ \ {k}, ![r].wait = i]
          /\ run' = [run EXCEPT ![i].pc = CASE @ = "queued" -> "dropped"
                                            [] @ = "live" -> "unwinding"
                                            [] OTHER -> @]
    BY <1>1, <1>5, Zenon
  <2> DEFINE d == [c EXCEPT !.keys = @ \ {k}, !.wait = i]
             p == CASE run[i].pc = "queued" -> "dropped" [] run[i].pc = "live" -> "unwinding"
                    [] OTHER -> run[i].pc
  <2>2. /\ \A q \in Request : req'[q] = IF q = r THEN d ELSE req[q]
        /\ run' = [run EXCEPT ![i].pc = p]
    BY <2>1 DEF TypeOK
  <2>3. /\ d.op = c.op /\ d.s = c.s /\ d.key = c.key /\ d.at = c.at /\ d.wait = i
        /\ d.pre = c.pre /\ d.keys = c.keys \ {k}
    BY <1>2 DEF Call
  <2>4. i \in Alive /\ i \in Run
    BY <1>3
  <2>5. run[i].pc \in {"queued", "live", "unwinding", "dropped"}
    BY <2>4 DEF Alive
  <2>6. p \in {"queued", "live", "unwinding", "dropped"}
    BY <2>5
  <2>7. /\ Alive' = Alive
        /\ \A j \in Run : /\ run'[j].s = run[j].s /\ run'[j].key = run[j].key
                          /\ run[j].pc = "done" => run'[j].pc = "done"
    <3> HIDE DEF p
    <3> QED BY <2>2, <2>4, <2>5, <2>6, SameRuns
  <2>8. \A j \in Alive : (run[j].s = c.s /\ run[j].key = k) => j = i
    BY <2>4 DEF RunsInStep, OneRunPerId
  <2> HIDE DEF d
  <2>9. (RunsAreTracked /\ OneRunPerId /\ KeysAreOwn /\ OneFrame)'
    BY <1>2, <1>3, <2>2, <2>3, <2>7 DEF RunsInStep, RunsAreTracked, OneRunPerId, KeysAreOwn, OneFrame
  <2>10. InStep(d)
    <3>1. Replacing(d)
      BY <1>2, <1>3, <2>3, <2>8 DEF InStep, Replacing
    <3>2. Awaiting(d)
      BY <1>2, <1>3, <2>3, <2>8 DEF InStep, Awaiting
    <3> QED BY <1>3, <2>3, <3>1, <3>2 DEF InStep
  <2>11. ASSUME NEW q \in Request
         PROVE  /\ Replacing(req[q])' /\ Awaiting(req[q])'
                /\ (req[q].op = "submission" => req[q].key = None)'
    <3> DEFINE e == IF q = r THEN d ELSE req[q]
    <3>1. InStep(e) /\ e = req'[q]
      BY <2>2, <2>10 DEF RunsInStep, CallsInStep, InStep
    <3>2. e.pre \subseteq Run
      BY <1>2, <2>3 DEF TypeOK, Call
    <3> HIDE DEF e
    <3> QED BY <1>3, <2>7, <3>1, <3>2 DEF InStep, Replacing, Awaiting
  <2> QED BY <2>9, <2>11 DEF RunsInStep, CallsInStep
<1> QED BY <1>4, <1>5

\* A run starts when none of its id is live, so that it takes nobody's place in the
\* registry.
LEMMA SpawnStep ==
  ASSUME TypeOK, RunsInStep, NEW r \in Request, Spawn(r)
  PROVE  RunsInStep'
<1> USE LifeAssumption DEF LifeAssumption
<1> DEFINE c == req[r]
<1>1. /\ c \in Call /\ c.op \in {"command", "submission"}
      /\ c.at = "cancel" /\ c.keys = {} /\ c.wait = None
      /\ \A q \in Request : req'[q] = IF q = r THEN NoReq ELSE req[q]
  BY DEF TypeOK, Spawn, Cancelled
<1>2. PICK i \in Run :
        /\ run[i].pc = "new"
        /\ run' = [run EXCEPT ![i] = [s |-> c.s, key |-> IF c.key = None THEN i ELSE c.key,
                                      wc |-> c.h, pc |-> "queued"]]
        /\ tracked' = {i} \union {j \in tracked : run[j].s # c.s \/ run[j].key # c.key}
  BY DEF Spawn
<1> DEFINE k == IF c.key = None THEN i ELSE c.key
<1>3. \A j \in Run : run'[j] = IF j = i THEN [s |-> c.s, key |-> k, wc |-> c.h, pc |-> "queued"]
                               ELSE run[j]
  BY <1>2 DEF TypeOK
<1>4. Alive' = Alive \union {i} /\ i \notin Alive /\ Alive = tracked /\ Alive \subseteq Run
  BY <1>2, <1>3 DEF Alive, RunsInStep, RunsAreTracked
<1>5. /\ \A j \in Run : j \notin Key /\ j # None
      /\ None \notin Key
  BY DEF Run, None
<1>6. k \in Key \/ k = i
  BY <1>1 DEF RunsInStep, CallsInStep, Replacing
<1>7. \A j \in Alive : run[j].s # c.s \/ (run[j].key # k /\ run[j].key # c.key)
  <2>1. CASE c.op = "command"
    <3>1. c.key \in Key /\ \A j \in Alive : run[j].s # c.s \/ run[j].key # c.key
      BY <1>1, <1>4, <1>5, <2>1 DEF RunsInStep, CallsInStep, Replacing
    <3> QED BY <1>5, <3>1
  <2>2. CASE c.op = "submission"
    <3>1. c.key = None
      BY <2>2 DEF RunsInStep, CallsInStep
    <3>2. \A j \in Alive : run[j].key \in Key \/ run[j].key = j
      BY DEF RunsInStep, KeysAreOwn
    <3> QED BY <1>2, <1>4, <1>5, <3>1, <3>2
  <2> QED BY <1>1, <2>1, <2>2
<1>8. RunsAreTracked'
  BY <1>2, <1>4, <1>7 DEF RunsAreTracked
<1>9. OneRunPerId'
  <2> SUFFICES ASSUME NEW a \in Alive', NEW b \in Alive',
                      run'[a].s = run'[b].s, run'[a].key = run'[b].key
               PROVE  a = b
    BY DEF OneRunPerId
  <2>1. a \in Run /\ b \in Run
    BY <1>2, <1>4
  <2>2. CASE a # i /\ b # i
    BY <1>3, <1>4, <2>1, <2>2 DEF RunsInStep, OneRunPerId
  <2>3. CASE a = i /\ b # i
    BY <1>3, <1>4, <1>7, <2>1, <2>3
  <2>4. CASE a # i /\ b = i
    BY <1>3, <1>4, <1>7, <2>1, <2>4
  <2> QED BY <2>2, <2>3, <2>4
<1>10. KeysAreOwn'
  BY <1>3, <1>4, <1>6 DEF RunsInStep, KeysAreOwn
<1>11. OneFrame'
  BY <1>1, Idle DEF RunsInStep, OneFrame
<1>12. ASSUME NEW q \in Request
       PROVE  /\ Replacing(req[q])' /\ Awaiting(req[q])'
              /\ (req[q].op = "submission" => req[q].key = None)'
  <2>1. CASE q = r
    <3>1. req'[q] = NoReq
      BY <1>1, <2>1
    <3> QED BY <3>1 DEF Replacing, Awaiting, NoReq
  <2>2. CASE q # r
    <3>1. req'[q] = req[q] /\ InStep(req[q]) /\ req[q].pre \subseteq Run
      BY <1>1, <2>2 DEF RunsInStep, CallsInStep, InStep, TypeOK, Call
    <3>2. ASSUME req[q].op = "command", run'[i].s = req[q].s PROVE run'[i].key # req[q].key
      <4>1. c.op = "submission" /\ c.key = None
        BY <1>1, <2>2, <3>2 DEF RunsInStep, OneFrame, CallsInStep, HubFrames
      <4>2. run'[i].key = i /\ req[q].key \in Key
        BY <1>3, <3>1, <3>2, <4>1 DEF InStep, Replacing
      <4> QED BY <1>5, <4>2
    <3>3. Replacing(req[q])'
      BY <1>3, <1>4, <3>1, <3>2 DEF InStep, Replacing
    <3>4. Awaiting(req[q])'
      <4>1. \A j \in Run : run[j].pc = "done" \/ j \in Alive => j # i /\ run'[j] = run[j]
        BY <1>2, <1>3, <1>4
      <4> QED BY <1>4, <3>1, <4>1 DEF InStep, Awaiting
    <3> QED BY <3>1, <3>3, <3>4 DEF InStep
  <2> QED BY <2>1, <2>2
<1> QED BY <1>8, <1>9, <1>10, <1>11, <1>12 DEF RunsInStep, CallsInStep

\* The other steps of a call that is under way.
LEMMA CallStep ==
  ASSUME TypeOK, RunsInStep, NEW r \in Request,
         \/ Awaited(r) \/ Open(r) \/ Close(r) \/ Evicted(r) \/ Delete(r)
         \/ Shutdown(r) \/ ShutdownNext(r)
  PROVE  RunsInStep'
<1> DEFINE c == req[r]
<1>1. /\ c \in Call /\ InStep(c) /\ Alive = tracked /\ Alive \subseteq Run /\ None \notin Run
      /\ UNCHANGED <<run, tracked>>
  <2>1. c \in Call /\ InStep(c)
    BY DEF TypeOK, RunsInStep, CallsInStep, InStep
  <2>2. Alive = tracked /\ Alive \subseteq Run /\ None \notin Run
    BY DEF RunsInStep, RunsAreTracked, Alive, Run, None
  <2>3. UNCHANGED <<run, tracked>>
    BY DEF Awaited, Open, Close, Evicted, Delete, Shutdown, ShutdownNext
  <2> QED BY <2>1, <2>2, <2>3
<1>2. CASE Open(r) \/ Close(r) \/ Delete(r)
  <2>1. req' = [req EXCEPT ![r] = NoReq]
    BY <1>2 DEF Open, Close, Delete
  <2> QED BY <1>1, <2>1, Idle, OneCall
<1>3. CASE Awaited(r)
  <2> DEFINE d == [c EXCEPT !.wait = None]
  <2>1. req' = [req EXCEPT ![r] = d] /\ run[c.wait].pc = "done"
    BY <1>3 DEF Awaited
  <2>2. d.op = c.op /\ d.s = c.s /\ d.key = c.key /\ d.at = c.at /\ d.pre = c.pre /\ d.keys = c.keys
    BY <1>1 DEF Call
  <2>3. c.wait \notin Alive
    BY <2>1 DEF Alive
  <2> HIDE DEF d
  <2>4. InStep(d)
    BY <1>1, <2>2, <2>3 DEF InStep, Replacing, Awaiting
  <2> QED BY <1>1, <2>1, <2>2, <2>4, OneCall
<1>4. CASE Evicted(r)
  <2> DEFINE pre == {i \in tracked : run[i].s = c.s}
             d == [c EXCEPT !.at = "cancel", !.keys = Keys(c.s), !.pre = pre]
  <2>1. req' = [req EXCEPT ![r] = d] /\ c.at = "evict"
    BY <1>4 DEF Evicted
  <2>2. d.op = c.op /\ d.s = c.s /\ d.key = c.key /\ d.pre = pre /\ d.keys = Keys(c.s)
    BY <1>1 DEF Call
  <2> HIDE DEF d
  <2>3. InStep(d)
    BY <1>1, <2>2 DEF InStep, Replacing, Awaiting, Keys
  <2> QED BY <1>1, <2>1, <2>2, <2>3, OneCall
<1>5. CASE Shutdown(r)
  <2> DEFINE d == [NoReq EXCEPT !.op = "shutdown", !.at = "cancel", !.rest = Listing]
  <2>1. req' = [req EXCEPT ![r] = d]
    BY <1>5 DEF Shutdown
  <2>2. d.op = "shutdown"
    BY DEF NoReq
  <2> HIDE DEF d
  <2>3. InStep(d) /\ d.op \notin HubFrames
    BY <2>2 DEF InStep, Replacing, Awaiting, HubFrames
  <2> QED BY <1>1, <2>1, <2>3, OneCall
<1>6. CASE ShutdownNext(r)
  <2>1. PICK s \in c.rest : req' = [req EXCEPT ![r].s = s, ![r].keys = Keys(s), ![r].rest = @ \ {s}]
    BY <1>6 DEF ShutdownNext
  <2> DEFINE d == [c EXCEPT !.s = s, !.keys = Keys(s), !.rest = @ \ {s}]
  <2>2. req' = [req EXCEPT ![r] = d]
    BY <2>1 DEF TypeOK
  <2>3. d.op = "shutdown"
    BY <1>1, <1>6 DEF Call, ShutdownNext
  <2> HIDE DEF d
  <2>4. InStep(d) /\ d.op \notin HubFrames
    BY <2>3 DEF InStep, Replacing, Awaiting, HubFrames
  <2> QED BY <1>1, <2>2, <2>4, OneCall
<1> QED BY <1>2, <1>3, <1>4, <1>5, <1>6

\* With one tab no hub frame is under way when the next one comes.
LEMMA FirstFrame ==
  ASSUME Tabs <= 1, TabFree
  PROVE  \A q \in Request : req[q].op \notin HubFrames
<1> DEFINE F == {q \in Request : req[q].op \in HubFrames}
<1>1. IsFiniteSet(F)
  BY LifeAssumption, FS_Subset DEF LifeAssumption
<1>2. Cardinality(F) \in Nat /\ Cardinality(F) < Tabs
  BY <1>1, FS_CardinalityType DEF TabFree
<1>3. F = {}
  BY <1>1, <1>2, FS_EmptySet, LifeAssumption DEF LifeAssumption
<1> QED BY <1>3

\* The steps that start a call.
LEMMA AskStep ==
  ASSUME TypeOK, RunsInStep, Tabs <= 1, NEW r \in Request, NEW s \in Session,
         \/ AskOpen(r, s) \/ AskDelete(r, s)
         \/ \E k \in Key \union {None} : AskRun(r, s, k)
         \/ \E h \in Hub : AskClose(r, s, h)
  PROVE  RunsInStep'
<1>1. CASE AskOpen(r, s)
  <2> DEFINE c == [NoReq EXCEPT !.op = "open", !.s = s, !.at = "open",
                                !.h = IF s \in full THEN state[s].hub ELSE None]
  <2>1. req' = [req EXCEPT ![r] = c] /\ UNCHANGED <<run, tracked>> /\ TabFree
    BY <1>1 DEF AskOpen
  <2>2. c.op = "open"
    BY DEF NoReq
  <2> HIDE DEF c
  <2>3. InStep(c)
    BY <2>2 DEF InStep, Replacing, Awaiting
  <2> QED BY <2>1, <2>3, FirstFrame, OneCall
<1>2. CASE AskDelete(r, s)
  <2> DEFINE c == [NoReq EXCEPT !.op = "delete", !.s = s, !.at = "evict"]
  <2>1. req' = [req EXCEPT ![r] = c] /\ UNCHANGED <<run, tracked>>
    BY <1>2 DEF AskDelete, disk
  <2>2. c.op = "delete" /\ c.at = "evict"
    BY DEF NoReq
  <2> HIDE DEF c
  <2>3. InStep(c) /\ c.op \notin HubFrames
    BY <2>2 DEF InStep, Replacing, Awaiting, HubFrames
  <2> QED BY <2>1, <2>3, OneCall
<1>3. ASSUME NEW k \in Key \union {None}, AskRun(r, s, k) PROVE RunsInStep'
  <2> DEFINE c == [NoReq EXCEPT !.op = IF k = None THEN "submission" ELSE "command",
                     !.s = s, !.h = IF s \in full THEN state[s].hub ELSE None,
                     !.key = k, !.at = "cancel", !.keys = ToReplace(k)]
  <2>1. req' = [req EXCEPT ![r] = c] /\ UNCHANGED <<run, tracked>>
    BY <1>3 DEF AskRun
  <2>2. c.op = (IF k = None THEN "submission" ELSE "command") /\ c.key = k /\ c.keys = ToReplace(k)
    BY DEF NoReq
  <2>3. c.op \notin HubFrames \/ TabFree
    <3>1. CASE k = None
      BY <2>2, <3>1 DEF HubFrames
    <3>2. CASE k # None
      BY <1>3, <3>2 DEF AskRun
    <3> QED BY <3>1, <3>2
  <2> HIDE DEF c
  <2>4. InStep(c)
    BY <2>2 DEF InStep, Replacing, Awaiting, ToReplace
  <2> QED BY <2>1, <2>3, <2>4, FirstFrame, OneCall
<1>4. ASSUME NEW h \in Hub, AskClose(r, s, h) PROVE RunsInStep'
  <2> DEFINE c == [NoReq EXCEPT !.op = "close", !.s = s, !.h = h, !.at = "cancel", !.keys = Keys(s)]
  <2>1. req' = [req EXCEPT ![r] = c] /\ UNCHANGED <<run, tracked>>
    BY <1>4 DEF AskClose
  <2>2. c.op = "close"
    BY DEF NoReq
  <2> HIDE DEF c
  <2>3. InStep(c) /\ c.op \notin HubFrames
    BY <2>2 DEF InStep, Replacing, Awaiting, HubFrames
  <2> QED BY <2>1, <2>3, OneCall
<1> QED BY <1>1, <1>2, <1>3, <1>4

\* The inductive step.
LEMMA RunsStep ==
  ASSUME TypeOK, RunsInStep, Tabs <= 1, [Next]_vars
  PROVE  RunsInStep'
<1>1. ASSUME UNCHANGED <<run, tracked, req>> PROVE RunsInStep'
  BY <1>1 DEF RunsInStep, RunsAreTracked, OneRunPerId, KeysAreOwn, OneFrame, CallsInStep,
     Replacing, Awaiting, Alive
<1>2. CASE UNCHANGED vars
  BY <1>1, <1>2 DEF vars
<1>3. ASSUME NEW s \in Session,
             \/ Create(s) \/ Connect(s) \/ StartTurn(s) \/ TurnOpens(s) \/ EndTurn(s)
             \/ ThreadReads(s) \/ ThreadWrites(s) \/ ThreadScans(s) \/ ThreadLists(s)
      PROVE  RunsInStep'
  BY <1>1, <1>3 DEF Create, Connect, StartTurn, TurnOpens, EndTurn, ThreadReads, ThreadWrites,
     ThreadScans, ThreadLists
<1> QED
  BY <1>2, <1>3, RunStep, CancelStep, SpawnStep, CallStep, AskStep DEF Next

\* When one socket at a time sends hub frames, every live run is in the registry,
\* no id has two of them, and the calls under way know what they still have to
\* cancel (HubRunSupervisor.spawn, cancel, cancel_session).
THEOREM RunsWithinReach ==
  ASSUME Tabs <= 1
  PROVE  Spec => []IInv
<1>1. Init => RunsInStep
  BY DEF Init, RunsInStep, RunsAreTracked, OneRunPerId, KeysAreOwn, OneFrame, CallsInStep,
     Replacing, Awaiting, Alive, NoRun, NoReq, HubFrames
<1>2. TypeOK /\ RunsInStep /\ [Next]_vars => (TypeOK /\ RunsInStep)'
  BY TypeStep, RunsStep
<1>3. TypeOK /\ RunsInStep => IInv
  BY DEF RunsInStep, IInv
<1> QED BY <1>1, <1>2, <1>3, TypeInit, PTL DEF Spec

\* Then a session's directory is removed after the runs that were in it when its
\* deletion came to cancel them have ended (DELETE /sessions/{id}).
THEOREM DeletionWaits ==
  ASSUME Tabs <= 1
  PROVE  Spec => []DeleteFollowsItsRuns
<1>1. IInv => DeleteFollowsItsRuns
  <2> SUFFICES ASSUME IInv, NEW r \in Request, Removable(r), NEW i \in req[r].pre
               PROVE  run[i].pc = "done"
    BY DEF DeleteFollowsItsRuns
  <2>1. req[r].op = "delete" /\ req[r].at = "cancel" /\ req[r].keys = {} /\ req[r].wait = None
    BY DEF Removable, Cancelled
  <2>2. Awaiting(req[r]) /\ i \in Run
    BY DEF IInv, CallsInStep, TypeOK, Call
  <2>3. i # None
    BY <2>2 DEF Run, None
  <2> QED BY <2>1, <2>2, <2>3 DEF Awaiting
<1> QED BY <1>1, RunsWithinReach, PTL

=============================================================================
