------------------------ MODULE HistoryFiles_proofs ------------------------
(***************************************************************************)
(* Proofs about the files of one session, continued: on top of the         *)
(* invariant IInv of SessionHistory, what the files of the rounds, the SOP *)
(* and the summaries of the turns hold, and that no rewind leaves them     *)
(* behind the history or ahead of it.                                      *)
(***************************************************************************)
EXTENDS SessionHistory_proofs, WellFoundedInduction

-----------------------------------------------------------------------------
(* The summaries of the turns.                                             *)

\* A truncation is about to remove what comes after its cut; the summaries of
\* the turns before Unsummed are those of the history that is left.
Truncating == op.kind \in {"turn", "round"} /\ op.pc \in {"unmark", "unlink", "summary", "remove"}
Outside == op.pc \in {"idle", "checkpoint", "read", "persist", "evict"}
Unsummed == IF op.kind = "round" /\ op.pc = "remove" THEN op.cut + 1 ELSE op.cut

\* The summary of a turn names bubbles of that turn.
BubblesOf(ms, k) == {m.id : m \in {x \in Range(ms) : x.turn = k}}
Summed(ms, t, k) == t[k].summary \subseteq BubblesOf(ms, k)

\* A restore puts back the turns as they were.
Copied ==
  op.kind = "restore" /\ op.pc \in {"copy", "apply", "unmark", "unlink"} =>
  LET c == checkpoints[op.at]
  IN  /\ \A k \in Dirs(turns) : turns[k] = c.turns[k]
      /\ state # Missing => state.sop = c.state.sop

\* The summaries name what is in the history, in every checkpoint, in the
\* session, and below the cut while a truncation is under way.
SummedUp ==
  /\ \A k \in DOMAIN checkpoints :
       Readable(k) /\ Sound(checkpoints[k].flaws) =>
       \A n \in Dirs(checkpoints[k].turns) :
         Summed(checkpoints[k].state.messages, checkpoints[k].turns, n)
  /\ Sound(flaws) /\ state # Missing =>
       \A n \in Dirs(turns) :
         Outside \/ (Truncating /\ n < Unsummed) => Summed(state.messages, turns, n)

\* A round's id is new to the history until its bubble is appended.
IdOfItsOwn ==
  /\ turn.pc \in {"round", "saved"} => turn.id \notin History
  /\ turn.pc = "bubble" => turn.id \in BubblesOf(state.messages, turn.n)

InSummary == Copied /\ SummedUp /\ IdOfItsOwn

\* The turns that a step of a turn leaves as they are.
LEMMA TurnsAreWritten ==
  ASSUME TurnStep
  PROVE  Seed \/ BeginRound \/ SaveRound \/ Summarise \/ SaveFailed \/ UNCHANGED turns
BY DEF TurnStep, Send, Stamp, UnlinkBlob, CommitBubble, Tools, WriteBlob, WriteMarker, Answer,
       AnswerFromHub, Finish, Stop, StopEarly, RecoverWidget, ExpireWidget, Fail, FailEarly,
       ReportFailure, LeaveFailed, StopReporting, diskVars

\* Where a turn with a number writes, there is a directory.
LEMMA HasDirectory ==
  ASSUME IInv, turn.n # None
  PROVE  /\ turns \in TurnDirs /\ turn.n \in Dirs(turns) /\ turn.n \in TurnNo
         /\ turns[turn.n] \in TurnDir
         /\ turn.r \in RoundNo \cup {0}
         /\ turn.r > 0 /\ turn.id # None =>
              turn.r \in Dirs(turns[turn.n].rounds) /\ turn.r \in RoundNo
<1>1. turns \in TurnDirs /\ turn.n \in Dirs(turns) /\ turn \in Turn
  BY DEF IInv, TypeOK, Housed
<1>2. turn.n \in TurnNo /\ turns[turn.n] \in TurnDir /\ turn.r \in RoundNo \cup {0}
  BY <1>1, DirsType, TurnFields
<1> QED BY <1>1, <1>2 DEF IInv, Housed, RoundNo

\* A step of a turn adds its own bubble to its own summary.
LEMMA SummaryGrows ==
  ASSUME IInv, TurnStep, NEW k \in Dirs(turns')
  PROVE  \/ turns'[k].summary = {}
         \/ k \in Dirs(turns) /\ turns'[k].summary = turns[k].summary
         \/ /\ Summarise /\ k = turn.n /\ k \in Dirs(turns)
            /\ turns'[k].summary = turns[k].summary \cup {turn.id}
<1>1. turns \in TurnDirs /\ turn \in Turn
  BY DEF IInv, TypeOK
<1>2. \A j \in TurnNo : turns[j] # Missing => j \in Dirs(turns) /\ turns[j] \in TurnDir
  BY <1>1 DEF TurnDirs, Dirs
<1>3. CASE Seed
  <2> DEFINE n == NextTurn
             fresh == [entry |-> {}, rounds |-> [r \in RoundNo |-> Missing], summary |-> {}]
             old == IF turns[n] # Missing THEN turns[n] ELSE fresh
             new == [old EXCEPT !.entry = Sop]
  <2>1. turns' = [turns EXCEPT ![n] = new]
    BY <1>3 DEF Seed
  <2>2. n \in TurnNo
    BY <1>1, <1>3, DirsType, BoundsAssumption DEF Seed, NextTurn, TurnNo
  <2>3. old \in TurnDir
    BY <1>2, <2>2, NewTurnDir
  <2>4. new.summary = old.summary
    BY <2>3 DEF TurnDir
  <2> HIDE DEF new
  <2>5. k = n => turns'[k].summary = old.summary
    BY <1>1, <2>1, <2>2, <2>4 DEF TurnDirs
  <2>6. k # n => turns'[k] = turns[k] /\ k \in Dirs(turns)
    BY <1>1, <2>1, <2>2 DEF TurnDirs, Dirs
  <2> QED BY <1>2, <2>2, <2>5, <2>6
<1>4. CASE BeginRound \/ SaveRound \/ SaveFailed
  <2>1. turn.n # None \/ UNCHANGED turns
    <3>1. BeginRound \/ SaveRound => turn.pc \in {"seeded", "round"}
      BY DEF BeginRound, SaveRound, At
    <3>2. BeginRound \/ SaveRound => turn.n \in TurnNo
      BY <3>1 DEF IInv, Numbered, InARound
    <3>3. SaveFailed => InRound \/ UNCHANGED turns
      BY DEF SaveFailed
    <3> QED BY <1>4, <3>2, <3>3 DEF InRound, TurnNo, None
  <2>2. CASE turn.n # None
    <3>1. turn.n \in TurnNo /\ turns[turn.n] \in TurnDir
      BY <2>2, HasDirectory
    <3>2. \/ UNCHANGED turns
          \/ \E x : turns' = [turns EXCEPT ![turn.n] = [turns[turn.n] EXCEPT !.rounds = x]]
      <4>1. CASE BeginRound
        BY <4>1 DEF BeginRound
      <4>2. CASE SaveRound
        BY <4>2 DEF SaveRound
      <4>3. CASE SaveFailed
        BY <4>3 DEF SaveFailed
      <4> QED BY <1>4, <4>1, <4>2, <4>3
    <3>3. ASSUME NEW x, turns' = [turns EXCEPT ![turn.n] = [turns[turn.n] EXCEPT !.rounds = x]]
          PROVE  k \in Dirs(turns) /\ turns'[k].summary = turns[k].summary
      <4> DEFINE d == [turns[turn.n] EXCEPT !.rounds = x]
      <4>1. d.summary = turns[turn.n].summary
        BY <3>1 DEF TurnDir
      <4> HIDE DEF d
      <4>2. turns' = [turns EXCEPT ![turn.n] = d]
        BY <3>3 DEF d
      <4> QED BY <1>1, <2>2, <3>1, <4>1, <4>2, HasDirectory DEF Dirs, TurnDirs
    <3> QED BY <3>2, <3>3
  <2> QED BY <2>1, <2>2
<1>5. CASE Summarise
  <2>1. turn.n # None
    BY <1>1, <1>5 DEF Summarise, At, IInv, Numbered, InARound, TurnNo, None
  <2>2. turn.n \in TurnNo /\ turns[turn.n] \in TurnDir /\ turn.n \in Dirs(turns)
    BY <2>1, HasDirectory
  <2> DEFINE d == [turns[turn.n] EXCEPT !.summary = turns[turn.n].summary \cup {turn.id}]
  <2>3. d.summary = turns[turn.n].summary \cup {turn.id}
    BY <2>2 DEF TurnDir
  <2> HIDE DEF d
  <2>4. turns' = [turns EXCEPT ![turn.n] = d]
    BY <1>5 DEF Summarise, WithSummary, d
  <2> QED BY <1>1, <1>5, <2>2, <2>3, <2>4 DEF Dirs, TurnDirs
<1> QED BY <1>3, <1>4, <1>5, TurnsAreWritten

\* Where a turn is after a step says which step it was.
LEMMA TurnCameFrom ==
  ASSUME IInv, TurnStep
  PROVE  /\ turn'.pc = "round" => BeginRound
         /\ turn'.pc = "saved" => SaveRound
         /\ turn'.pc = "bubble" => CommitBubble
         /\ turn'.pc = "tools" => SaveRound \/ Summarise
         /\ turn'.pc = "emit" => Tools
         /\ turn'.pc = "marker" => WriteBlob
         /\ turn'.pc = "await" => WriteMarker
         /\ turn'.pc = "unlink" => Answer
         /\ turn'.pc = "seeded" => \/ Seed \/ Tools \/ AnswerFromHub \/ RecoverWidget
                                   \/ UnlinkBlob /\ turn.pc = "unlink"
<1>1. turn \in Turn
  BY DEF IInv, TypeOK
<1> USE DEF Go, Turn, At
<1>2. Send \/ Stamp => turn'.pc \in {"unlinkSent", "stamped"}
  BY <1>1 DEF Send, Stamp, IdleTurn
<1>3. UnlinkBlob => turn'.pc \in {"arrived", "idle"} \/ (turn.pc = "unlink" /\ turn'.pc = "seeded")
  BY <1>1 DEF UnlinkBlob, IdleTurn
<1>4. /\ Seed => turn'.pc = "seeded"
      /\ BeginRound => turn'.pc = "round"
      /\ SaveRound => turn'.pc \in {"saved", "tools"}
  BY <1>1 DEF Seed, BeginRound, SaveRound
<1>5. /\ CommitBubble => turn'.pc = "bubble"
      /\ Summarise => turn'.pc = "tools"
      /\ Tools => turn'.pc \in {"seeded", "emit", "exit"}
  BY <1>1 DEF CommitBubble, Summarise, Tools
<1>6. /\ WriteBlob => turn'.pc = "marker"
      /\ WriteMarker => turn'.pc = "await"
      /\ Answer => turn'.pc = "unlink"
      /\ AnswerFromHub => turn'.pc = "seeded"
      /\ RecoverWidget => turn'.pc = "seeded"
  BY <1>1 DEF WriteBlob, WriteMarker, Answer, AnswerFromHub, RecoverWidget, IdleTurn
<1> DEFINE rest == {"idle", "exit", "failed", "reporting", "reported", "unlinkLast"}
<1>7. Finish \/ Stop \/ StopEarly \/ ExpireWidget => turn'.pc \in rest
  <2>1. \A clear : Leave(clear) => turn'.pc \in rest
    BY <1>1 DEF Leave, IdleTurn
  <2>2. Finish \/ Stop => turn'.pc \in rest
    BY <2>1 DEF Finish, Stop
  <2>3. StopEarly \/ ExpireWidget => turn'.pc \in rest
    BY <1>1 DEF StopEarly, ExpireWidget, IdleTurn, memVars, Quiet
  <2> QED BY <2>2, <2>3
<1>8. Fail \/ FailEarly \/ SaveFailed \/ ReportFailure \/ LeaveFailed \/ StopReporting =>
        turn'.pc \in rest
  BY <1>1 DEF Fail, FailEarly, SaveFailed, ReportFailure, LeaveFailed, StopReporting, IdleTurn
<1> QED BY <1>2, <1>3, <1>4, <1>5, <1>6, <1>7, <1>8 DEF TurnStep

\* More messages are more bubbles.
LEMMA MoreBubbles ==
  ASSUME NEW ms, NEW us, Range(ms) \subseteq Range(us)
  PROVE  \A k : BubblesOf(ms, k) \subseteq BubblesOf(us, k)
BY DEF BubblesOf

\* A step of a turn keeps the summaries: a text is added to the summary after
\* its bubble was appended.
LEMMA InSummaryTurn ==
  ASSUME IInv, InSummary, TurnStep
  PROVE  InSummary'
<1>1. /\ state \in States /\ state' \in States /\ state # Missing /\ state' # Missing
      /\ op.pc = "idle" /\ UNCHANGED <<checkpoints, op>> /\ turn \in Turn /\ minted \in Nat
  BY TurnStepAlone, TurnStepType, Absent, BoundsAssumption DEF IInv, TypeOK
<1>2. Copied'
  BY <1>1 DEF Copied
<1>3. Range(state.messages) \subseteq Range(state'.messages)
  BY HistoryGrows
<1>4. Sound(flaws') => Sound(flaws)
  BY TurnNumber DEF Sound
<1>5. SummedUp'
  <2>1. ASSUME Sound(flaws'), NEW n \in Dirs(turns')
        PROVE  Summed(state'.messages, turns', n)
    <3>1. n \in Dirs(turns) => Summed(state.messages, turns, n)
      BY <1>1, <1>4, <2>1 DEF InSummary, SummedUp, Outside
    <3>2. BubblesOf(state.messages, n) \subseteq BubblesOf(state'.messages, n)
      BY <1>3, MoreBubbles
    <3>3. Summarise => turn.id \in BubblesOf(state.messages, turn.n)
      BY DEF Summarise, At, InSummary, IdOfItsOwn
    <3> QED BY <3>1, <3>2, <3>3, SummaryGrows DEF Summed
  <2>2. \A k \in DOMAIN checkpoints' :
          Readable(k)' /\ Sound(checkpoints'[k].flaws) =>
          \A n \in Dirs(checkpoints'[k].turns) :
            Summed(checkpoints'[k].state.messages, checkpoints'[k].turns, n)
    BY <1>1 DEF InSummary, SummedUp, Readable
  <2> QED BY <2>1, <2>2 DEF SummedUp
<1>6. IdOfItsOwn'
  <2>1. IdsOf(state.messages) \subseteq 1..minted
    BY <1>1 DEF IInv, Level, NoTwins, Minted
  <2>2. turn'.pc = "round" => turn'.id \notin IdsOf(state'.messages)
    <3> SUFFICES ASSUME BeginRound PROVE turn'.id \notin IdsOf(state'.messages)
      BY TurnCameFrom
    <3>1. turn'.id = minted + 1 /\ state' = state
      BY <1>1 DEF BeginRound, Mint, Turn
    <3> QED BY <1>1, <2>1, <3>1
  <2>3. turn'.pc = "saved" => turn'.id \notin IdsOf(state'.messages)
    <3> SUFFICES ASSUME SaveRound PROVE turn'.id \notin IdsOf(state'.messages)
      BY TurnCameFrom
    <3>1. turn'.id = turn.id /\ turn.pc = "round"
      BY <1>1 DEF SaveRound, At, Go, Turn
    <3>2. state'.messages = state.messages
      BY <1>1 DEF SaveRound, States
    <3> QED BY <1>1, <3>1, <3>2 DEF InSummary, IdOfItsOwn, History
  <2>4. turn'.pc = "bubble" => turn'.id \in BubblesOf(state'.messages, turn'.n)
    <3> SUFFICES ASSUME CommitBubble PROVE turn'.id \in BubblesOf(state'.messages, turn'.n)
      BY TurnCameFrom
    <3> DEFINE msg == [id |-> turn.id, role |-> "assistant", turn |-> turn.n, round |-> turn.r]
    <3>1. turn'.id = turn.id /\ turn'.n = turn.n /\ turn.pc = "saved"
      BY <1>1 DEF CommitBubble, At, Go, Turn
    <3>2. turn.id \notin IdsOf(state.messages)
      BY <1>1, <3>1 DEF InSummary, IdOfItsOwn, History
    <3>3. state' = [state EXCEPT !.messages = Append(@, msg)]
      BY <3>2 DEF CommitBubble, Append1
    <3>4. msg \in Message
      <4>1. turn.n \in TurnNo /\ turn.r \in RoundNo /\ turn.id \in Id
        BY <3>1 DEF IInv, Numbered, InARound
      <4> QED BY <4>1, MessageType
    <3> HIDE DEF msg
    <3>5. state'.messages = Append(state.messages, msg)
      BY <1>1, <3>3 DEF States
    <3>6. msg \in Range(state'.messages)
      <4>1. state.messages \in Seq(Message)
        BY <1>1, StateFields
      <4>2. /\ Len(state.messages) + 1 \in DOMAIN state'.messages
            /\ state'.messages[Len(state.messages) + 1] = msg
        BY <3>4, <3>5, <4>1, AppendProperties, LenProperties
      <4> QED BY <4>2 DEF Range
    <3>7. msg.id = turn.id /\ msg.turn = turn.n
      BY DEF msg
    <3> QED BY <3>1, <3>6, <3>7 DEF BubblesOf
  <2> QED BY <1>1, <2>2, <2>3, <2>4 DEF IdOfItsOwn, History
<1> QED BY <1>2, <1>5, <1>6 DEF InSummary

\* The event loop and the clicks leave the turns, a crash the files.
LEMMA InSummaryEvent ==
  ASSUME IInv, InSummary, Event
  PROVE  InSummary'
<1>1. /\ op \in Op /\ turn \in Turn /\ minted \in Nat /\ state \in States \cup {Missing}
      /\ UNCHANGED <<turns, checkpoints>>
  BY EventLoopSteps, ClickAlone, BoundsAssumption
     DEF IInv, TypeOK, Event, RestMessage, SetBackend, EndVendorSession, Crash, diskVars
<1>2. CASE RestMessage \/ SetBackend \/ EndVendorSession
  <2>1. /\ UNCHANGED <<op, flaws>> /\ state \in States /\ state' \in States
        /\ state # Missing /\ state' # Missing
        /\ Range(state.messages) \subseteq Range(state'.messages)
        /\ turn'.n = turn.n /\ turn'.id = turn.id
        /\ turn'.pc # turn.pc => turn'.pc = "exit"
    BY <1>2, EventLoopSteps, LoopSays, Absent
  <2>2. ASSUME NEW k PROVE Summed(state.messages, turns, k) => Summed(state'.messages, turns', k)
    BY <1>1, <2>1, MoreBubbles DEF Summed
  <2>3. Copied'
    <3>1. ~Locked
      BY <1>2, EventLoopSteps
    <3>2. ~(op.kind = "restore" /\ op.pc \in {"copy", "apply", "unmark", "unlink"})
      BY <3>1 DEF Locked
    <3> QED BY <2>1, <3>2 DEF Copied
  <2>4. SummedUp'
    BY <1>1, <2>1, <2>2 DEF InSummary, SummedUp, Readable, Outside, Truncating, Unsummed
  <2>5. IdOfItsOwn'
    <3>1. turn'.pc \in {"round", "saved"} => turn'.id \notin IdsOf(state'.messages)
      <4>1. SUFFICES ASSUME turn'.pc \in {"round", "saved"}
                     PROVE  turn.id \notin IdsOf(state'.messages)
        BY <2>1
      <4>2. turn.id \notin IdsOf(state.messages) /\ turn.id <= minted
        BY <2>1, <4>1 DEF InSummary, IdOfItsOwn, History, IInv, Level, NoTwins
      <4>3. CASE state'.messages = state.messages
        BY <4>2, <4>3
      <4>4. CASE state'.messages # state.messages
        <5>1. PICK msg \in Message :
                state' = Append1(state, msg) /\ msg.id = minted' /\ minted' = minted + 1
          BY <1>2, <4>4, LoopSays
        <5>2. \A i \in DOMAIN state'.messages :
                state'.messages[i].id \in IdsOf(state.messages) \cup {minted + 1}
          BY <2>1, <5>1, Appended DEF IdsOf
        <5>3. turn.id # minted + 1
          BY <1>1, <4>2, TurnFields, BoundsAssumption DEF Id, None
        <5> QED BY <4>2, <5>2, <5>3 DEF IdsOf
      <4> QED BY <4>3, <4>4
    <3>2. turn'.pc = "bubble" => turn'.id \in BubblesOf(state'.messages, turn'.n)
      BY <2>1, MoreBubbles DEF InSummary, IdOfItsOwn
    <3> QED BY <2>1, <3>1, <3>2 DEF IdOfItsOwn, History
  <2> QED BY <2>3, <2>4, <2>5 DEF InSummary
<1>3. CASE Clicks
  <2>1. op'.pc = "checkpoint" /\ turn.pc = "idle" /\ op.pc = "idle" /\ UNCHANGED <<turn, flaws>>
    BY <1>3, ClickAlone DEF Clicks, TurnCut, RoundCut, Restore, IdleOp
  <2>2. state' # Missing => state # Missing /\ state'.messages = state.messages
    <3>1. CASE UNCHANGED state
      BY <3>1
    <3>2. CASE state # Missing /\ \E x : state' = [state EXCEPT !.record = x]
      BY <1>1, <3>2 DEF States
    <3> QED BY <1>3, <3>1, <3>2 DEF Clicks, TurnCut, RoundCut, Restore, diskVars
  <2>3. SummedUp'
    BY <1>1, <2>1, <2>2 DEF InSummary, SummedUp, Readable, Outside, Summed
  <2> QED BY <2>1, <2>3 DEF InSummary, Copied, IdOfItsOwn
<1>4. CASE Crash
  <2>1. op' = IdleOp /\ turn' = IdleTurn /\ UNCHANGED state /\ flaws \subseteq flaws'
        /\ (Truncating => "cut" \in flaws')
        /\ (op.kind = "restore" /\ op.pc \in {"clear", "copy", "apply", "unmark", "unlink"} =>
              "restore" \in flaws')
    BY <1>4 DEF Crash, diskVars, Truncating
  <2>2. Sound(flaws') => Sound(flaws) /\ ~Truncating
                         /\ ~(op.kind = "restore"
                                /\ op.pc \in {"clear", "copy", "apply", "unmark", "unlink"})
    BY <2>1 DEF Sound
  <2>3. Sound(flaws') => Outside
    <3>1. Idle /\ Cutting /\ Restoring
      BY DEF IInv
    <3> QED BY <1>1, <2>2, <3>1, OpFields DEF Idle, Cutting, Restoring, Truncating, Outside
  <2>4. SummedUp'
    BY <1>1, <2>1, <2>2, <2>3 DEF InSummary, SummedUp, Readable
  <2> QED BY <2>1, <2>4 DEF InSummary, Copied, IdOfItsOwn, IdleOp, IdleTurn
<1> QED BY <1>2, <1>3, <1>4 DEF Event

\* A restore puts the turns back one by one.
LEMMA CopiedRewind ==
  ASSUME IInv, Copied, RewindStep
  PROVE  Copied'
<1>1. /\ op \in Op /\ turns \in TurnDirs /\ state \in States \cup {Missing}
      /\ Cutting /\ Restoring /\ Backed /\ PutBack
  BY DEF IInv, TypeOK, Level
<1>2. SUFFICES ASSUME op'.kind = "restore", op'.pc \in {"copy", "apply", "unmark", "unlink"}
               PROVE  LET c == checkpoints'[op'.at]
                      IN  /\ \A k \in Dirs(turns') : turns'[k] = c.turns[k]
                          /\ state' # Missing => state'.sop = c.state.sop
  BY DEF Copied
<1>3. ~Evict /\ op.kind = "restore" /\ op'.at = op.at
  BY <1>2, RewindGoes DEF IdleOp
<1>4. op.at \in DOMAIN checkpoints /\ Readable(op.at) /\ checkpoints'[op.at] = checkpoints[op.at]
  BY <1>1, <1>3, CheckpointsStay DEF Restoring
<1> DEFINE c == checkpoints[op.at]
<1>5. SUFFICES /\ \A k \in Dirs(turns') : turns'[k] = c.turns[k]
               /\ state' # Missing => state'.sop = c.state.sop
  BY <1>3, <1>4
<1>6. op.pc \in {"checkpoint", "clear", "copy", "apply", "unmark", "unlink", "evict"}
  BY <1>1, <1>3 DEF Restoring
<1>7. CASE ClearOne
  <2>1. op.pc = "clear" /\ op.left = {} /\ UNCHANGED <<state, turns>>
    BY <1>1, <1>2, <1>7 DEF ClearOne, Op
  <2>2. Dirs(turns) = {} /\ state = Missing
    BY <1>1, <1>3, <2>1 DEF PutBack, LeftTurns, Backed
  <2> QED BY <2>1, <2>2
<1>8. CASE CopyOne
  <2>1. op.pc = "copy"
    BY <1>8 DEF CopyOne
  <2>2. \A k \in Dirs(turns) : turns[k] = c.turns[k]
    BY <1>3, <2>1 DEF Copied
  <2>3. state # Missing => state.sop = c.state.sop
    BY <1>3, <2>1 DEF Copied
  <2>4. CASE UNCHANGED <<state, turns>>
    BY <2>2, <2>3, <2>4
  <2>5. CASE \E x \in op.left :
               /\ state' = IF x[1] = "state" THEN c.state ELSE state
               /\ turns' = IF x[1] = "turn" THEN [turns EXCEPT ![x[2]] = c.turns[x[2]]]
                           ELSE turns
    <3>1. PICK x \in op.left :
               /\ state' = IF x[1] = "state" THEN c.state ELSE state
               /\ turns' = IF x[1] = "turn" THEN [turns EXCEPT ![x[2]] = c.turns[x[2]]]
                           ELSE turns
      BY <2>5
    <3>2. ASSUME NEW k \in Dirs(turns') PROVE turns'[k] = c.turns[k]
      BY <1>1, <2>2, <3>1 DEF Dirs, TurnDirs
    <3> QED BY <2>3, <3>1, <3>2
  <2> QED BY <1>8, <2>4, <2>5 DEF CopyOne
<1>9. CASE Unmark \/ ApplyUpdates
  <2>1. /\ op.pc \in {"unmark", "apply"} /\ UNCHANGED turns /\ state # Missing
        /\ state' \in {state, [state EXCEPT !.pending = Missing],
                       [state EXCEPT !.record = op.record]}
    BY <1>1, <1>3, <1>9 DEF Unmark, ApplyUpdates, Restoring
  <2>2. state'.sop = state.sop
    BY <1>1, <2>1 DEF States
  <2> QED BY <1>3, <2>1, <2>2 DEF Copied
<1>10. ~(TakeCheckpoint \/ ReadSession \/ PersistCut \/ Unlink \/ ResetSummary \/ RemoveOne \/ Removed)
  <2>1. TakeCheckpoint => op'.pc = "clear"
    BY <1>1, <1>3 DEF TakeCheckpoint, Op
  <2>2. Unlink => op'.pc = "evict"
    BY <1>1, <1>3 DEF Unlink, Op
  <2>3. ~(ReadSession \/ PersistCut \/ ResetSummary \/ RemoveOne \/ Removed)
    BY <1>6 DEF ReadSession, PersistCut, ResetSummary, RemoveOne, Removed
  <2> QED BY <1>2, <2>1, <2>2, <2>3
<1> QED BY <1>3, <1>7, <1>8, <1>9, <1>10 DEF RewindStep

\* A rewind goes through its steps in the order of its kind.
LEMMA RewindOrder ==
  ASSUME IInv, RewindStep
  PROVE  /\ TakeCheckpoint => /\ op.pc = "checkpoint" /\ UNCHANGED <<state, turns, flaws>>
                              /\ op'.pc = IF op.kind = "restore" THEN "clear" ELSE "read"
         /\ ReadSession => /\ op.pc = "read" /\ op'.pc = "persist" /\ op.kind # "restore"
                           /\ UNCHANGED <<state, turns, flaws>>
         /\ PersistCut => /\ op.pc = "persist" /\ op'.pc = "unmark" /\ op.kind # "restore"
                          /\ UNCHANGED turns /\ op.read = state /\ state \in States
         /\ Unmark => op.pc = "unmark" /\ op'.pc = "unlink" /\ UNCHANGED <<turns, flaws>>
         /\ Unlink => /\ op.pc = "unlink" /\ UNCHANGED <<state, turns>>
                      /\ op.kind = "turn" => op'.pc = "remove"
                      /\ op.kind = "round" => op'.pc = "summary"
                      /\ op.kind = "restore" => op'.pc = "evict"
         /\ ResetSummary => /\ op.pc = "summary" /\ op'.pc = "remove" /\ op.kind = "round"
                            /\ UNCHANGED <<state, flaws>>
         /\ RemoveOne => /\ op.pc = "remove" /\ op'.pc = "remove" /\ op.kind # "restore"
                         /\ UNCHANGED <<state, flaws>>
         /\ Removed => /\ op.pc = "remove" /\ op'.pc = "evict" /\ op.kind # "restore"
                       /\ op.left = {} /\ op'.left = {} /\ UNCHANGED <<state, turns, flaws>>
         /\ ClearOne => op'.pc \in {"clear", "copy"} /\ op.kind = "restore" /\ op.pc = "clear"
         /\ CopyOne => op'.pc \in {"copy", "apply"} /\ op.kind = "restore" /\ op.pc = "copy"
         /\ ApplyUpdates => /\ op.pc = "apply" /\ op'.pc = "unmark" /\ op.kind = "restore"
                            /\ UNCHANGED turns
         /\ Evict => op.pc = "evict" /\ op' = IdleOp /\ UNCHANGED <<turns, flaws>>
<1>1. /\ op \in Op /\ op.kind \in {"turn", "round", "restore"} /\ state \in States \cup {Missing}
      /\ Cutting /\ Restoring /\ Backed
  BY RewindGoes DEF IInv, TypeOK
<1>2. /\ op.kind = "restore" =>
           op.pc \in {"checkpoint", "clear", "copy", "apply", "unmark", "unlink", "evict"}
      /\ op.kind \in {"turn", "round"} =>
           op.pc \in {"checkpoint", "read", "persist", "unmark", "unlink", "summary", "remove",
                      "evict"}
      /\ op.pc = "summary" => op.kind = "round"
      /\ op.kind \in {"turn", "round"} => state # Missing
  BY <1>1 DEF Cutting, Restoring
<1>3. TakeCheckpoint => /\ op.pc = "checkpoint" /\ UNCHANGED <<state, turns, flaws>>
                        /\ op'.pc = IF op.kind = "restore" THEN "clear" ELSE "read"
  BY <1>1 DEF TakeCheckpoint, Op
<1>4. /\ ReadSession => /\ op.pc = "read" /\ op'.pc = "persist" /\ op.kind # "restore"
                        /\ UNCHANGED <<state, turns, flaws>>
      /\ PersistCut => /\ op.pc = "persist" /\ op'.pc = "unmark" /\ op.kind # "restore"
                       /\ UNCHANGED turns /\ op.read = state /\ state \in States
  BY <1>1, <1>2 DEF ReadSession, PersistCut, diskVars, Op, Backed
<1>5. /\ Unmark => op.pc = "unmark" /\ op'.pc = "unlink" /\ UNCHANGED <<turns, flaws>>
      /\ ApplyUpdates => /\ op.pc = "apply" /\ op'.pc = "unmark" /\ op.kind = "restore"
                         /\ UNCHANGED turns
  BY <1>1, <1>2 DEF Unmark, ApplyUpdates, Op
<1>6. Unlink => /\ op.pc = "unlink" /\ UNCHANGED <<state, turns>>
                /\ op.kind = "turn" => op'.pc = "remove"
                /\ op.kind = "round" => op'.pc = "summary"
                /\ op.kind = "restore" => op'.pc = "evict"
  BY <1>1 DEF Unlink, Op
<1>7. /\ ResetSummary => /\ op.pc = "summary" /\ op'.pc = "remove" /\ op.kind = "round"
                         /\ UNCHANGED <<state, flaws>>
      /\ RemoveOne => /\ op.pc = "remove" /\ op'.pc = "remove" /\ op.kind # "restore"
                      /\ UNCHANGED <<state, flaws>>
  BY <1>1, <1>2 DEF ResetSummary, RemoveOne, Op
<1>8. Removed => /\ op.pc = "remove" /\ op'.pc = "evict" /\ op.kind # "restore"
                 /\ op.left = {} /\ op'.left = {} /\ UNCHANGED <<state, turns, flaws>>
  BY <1>1, <1>2 DEF Removed, diskVars, Op
<1>9. /\ ClearOne => op'.pc \in {"clear", "copy"} /\ op.kind = "restore" /\ op.pc = "clear"
      /\ CopyOne => op'.pc \in {"copy", "apply"} /\ op.kind = "restore" /\ op.pc = "copy"
  BY <1>1, <1>2 DEF ClearOne, CopyOne, Op
<1> QED BY <1>3, <1>4, <1>5, <1>6, <1>7, <1>8, <1>9, RewindGoes

\* What the cut keeps: every message of a turn before the one that is cut.
LEMMA EarlierIsKept ==
  ASSUME IInv, PersistCut, op.kind \in {"turn", "round"}, Ordered(op.read.messages),
         op.read.messages[IndexOf(op.read.messages, op.at)].turn = op.cut,
         NEW m \in Range(op.read.messages), m.turn # None, m.turn < op.cut
  PROVE  m \in Range(Kept)
<1> DEFINE ms == op.read.messages
           i == IndexOf(ms, op.at)
<1>1. /\ op.read \in States /\ op.at \in IdsOf(ms) /\ i \in DOMAIN ms /\ ms \in Seq(Message)
  BY WhatIsRead, StateFields, Absent DEF PersistCut
<1>2. PICK j \in DOMAIN ms : ms[j] = m
  BY DEF Range
<1>3. i \in Nat /\ j \in Nat /\ DOMAIN ms = 1..Len(ms) /\ Len(ms) \in Nat
  BY <1>1, InMessages
<1>4. op.cut \in Nat /\ m.turn \in Nat
  BY <1>1, <1>2, CutNumbers, Stamps
<1>5. j < i
  BY <1>1, <1>2, <1>3, <1>4 DEF Ordered
<1>6. Kept = SubSeq(ms, 1, IF op.kind = "turn" THEN i ELSE i - 1)
  BY DEF Kept
<1> HIDE DEF ms, i
<1>7. j \in DOMAIN Kept /\ Kept[j] = ms[j]
  <2> DEFINE n == IF op.kind = "turn" THEN i ELSE i - 1
  <2>1. n \in Nat /\ j \in 1..n /\ n <= Len(ms)
    BY <1>1, <1>2, <1>3, <1>5
  <2>2. Kept = SubSeq(ms, 1, n)
    BY <1>6
  <2> HIDE DEF n
  <2> QED BY <1>1, <1>3, <2>1, <2>2, SubSeqProperties
<1> QED BY <1>2, <1>7 DEF Range

\* A rewind keeps the summaries below its cut, and rebuilds that of the turn it cuts.
LEMMA SummedUpRewind ==
  ASSUME IInv, Copied, SummedUp, RewindStep
  PROVE  SummedUp'
<1>1. /\ op \in Op /\ turns \in TurnDirs /\ state \in States \cup {Missing} /\ None = 0
      /\ Lined /\ Cutting /\ Restoring /\ CutInLine /\ PutBack
      /\ op.kind \in {"turn", "round", "restore"}
      /\ op.cut \in Nat /\ op.kind \in {"turn", "round"} => LastKept \in Nat
  BY RewindGoes, CutNumbers, OpFields DEF IInv, Level, TypeOK, None
<1>2. \A k \in DOMAIN checkpoints' :
        Readable(k)' /\ Sound(checkpoints'[k].flaws) =>
        \A n \in Dirs(checkpoints'[k].turns) :
          Summed(checkpoints'[k].state.messages, checkpoints'[k].turns, n)
  <2>1. CASE UNCHANGED checkpoints
    BY <2>1 DEF SummedUp, Readable
  <2>2. CASE TakeCheckpoint
    <3>1. op.pc = "checkpoint"
      BY <2>2 DEF TakeCheckpoint
    <3>2. Sound(flaws) /\ state # Missing => \A n \in Dirs(turns) : Summed(state.messages, turns, n)
      BY <3>1 DEF SummedUp, Outside
    <3> QED BY <2>2, <3>2, CheckpointTaken DEF SummedUp, Readable, Sound
  <2> QED BY <2>1, <2>2, RewindGoes
<1>3. SUFFICES ASSUME Sound(flaws'), state' # Missing, NEW n \in Dirs(turns'),
                      (Outside \/ (Truncating /\ n < Unsummed))'
               PROVE  Summed(state'.messages, turns', n)
  BY <1>2 DEF SummedUp
<1>4. \A k \in Dirs(turns) :
        Sound(flaws) /\ state # Missing /\ (Outside \/ (Truncating /\ k < Unsummed)) =>
        Summed(state.messages, turns, k)
  BY DEF SummedUp
<1>5. CASE TakeCheckpoint \/ ReadSession
  <2>1. op.pc \in {"checkpoint", "read"} /\ UNCHANGED <<state, turns, flaws>>
    BY <1>5, RewindOrder
  <2> QED BY <1>3, <1>4, <2>1 DEF Outside
<1>6. CASE PersistCut
  <2>1. /\ op.pc = "persist" /\ UNCHANGED turns /\ op.read = state /\ state \in States
        /\ op.kind \in {"turn", "round"} /\ state # Missing
    BY <1>1, <1>6, RewindOrder, Absent
  <2>2. Sound(flaws) /\ state'.messages = Kept
    BY <1>3, <1>6, <2>1, CutAtTheTurn DEF PersistCut, States
  <2>3. n < op.cut
    BY <1>3, <1>6, RewindOrder, RewindGoes DEF Outside, Truncating, Unsummed
  <2>4. Ordered(op.read.messages)
    BY <1>1, <2>1, <2>2 DEF Lined, InLine
  <2>5. op.read.messages[IndexOf(op.read.messages, op.at)].turn = op.cut
    <3> DEFINE i == IndexOf(op.read.messages, op.at)
    <3>1. i \in DOMAIN op.read.messages /\ op.read.messages[i].id = op.at
      BY <2>1, WhatIsRead
    <3>2. Clicked(op.read.messages)
      BY <1>1, <2>1, <2>1 DEF CutInLine
    <3>3. op.read.messages[i].turn # None
      BY <1>3, <1>6 DEF PersistCut, Sound
    <3> QED BY <2>1, <3>1, <3>2, <3>3 DEF Clicked
  <2>6. n \in TurnNo /\ n # None
    BY <1>1, <2>1, DirsType DEF TurnNo
  <2>7. BubblesOf(state.messages, n) \subseteq BubblesOf(Kept, n)
    BY <1>6, <2>1, <2>3, <2>4, <2>5, <2>6, EarlierIsKept DEF BubblesOf
  <2> QED BY <1>3, <1>4, <2>1, <2>2, <2>7 DEF Summed, Outside
<1>7. CASE Unmark
  <2>1. op.pc = "unmark" /\ op'.pc = "unlink" /\ UNCHANGED <<turns, flaws>>
        /\ state # Missing /\ state'.messages = state.messages
    <3>1. state # Missing
      BY <1>1, <1>7 DEF Unmark, Cutting, Restoring
    <3>2. state' = [state EXCEPT !.pending = Missing]
      BY <1>7 DEF Unmark
    <3>3. state'.messages = state.messages
      BY <1>1, <3>1, <3>2 DEF States
    <3> QED BY <1>7, <3>1, <3>3, RewindOrder
  <2>2. Truncating /\ n < Unsummed
    BY <1>3, <1>7, <2>1, RewindGoes DEF Truncating, Outside, Unsummed
  <2> QED BY <1>3, <1>4, <2>1, <2>2 DEF Summed
<1>8. CASE Unlink
  <2>1. op.pc = "unlink" /\ UNCHANGED <<state, turns, checkpoints>>
    BY <1>8 DEF Unlink
  <2>2. CASE op.kind = "restore"
    <3> DEFINE c == checkpoints[op.at]
    <3>1. /\ Readable(op.at) /\ op.at \in DOMAIN checkpoints /\ Sound(c.flaws)
          /\ state # Missing
      BY <1>1, <1>3, <1>8, <2>1, <2>2 DEF Restoring, Unlink, Sound
    <3>2. Dirs(turns) = Dirs(c.turns) /\ state.messages = c.state.messages
      BY <1>1, <2>1, <2>2, <3>1 DEF PutBack
    <3>3. turns[n] = c.turns[n] /\ n \in Dirs(turns)
      BY <2>1, <2>2 DEF Copied
    <3>4. Summed(c.state.messages, c.turns, n)
      BY <3>1, <3>2, <3>3 DEF SummedUp
    <3> QED BY <2>1, <3>2, <3>3, <3>4 DEF Summed
  <2>3. CASE op.kind # "restore"
    <3>1. UNCHANGED flaws /\ op'.pc \in {"remove", "summary"}
      BY <1>1, <1>8, <2>3, RewindOrder DEF Unlink
    <3>2. Truncating /\ n < op.cut /\ Unsummed = op.cut
      BY <1>1, <1>3, <1>8, <2>1, <2>3, <3>1, RewindGoes, RewindOrder
         DEF Truncating, Outside, Unsummed
    <3> QED BY <1>1, <1>3, <1>4, <2>1, <3>1, <3>2 DEF Summed, Cutting
  <2> QED BY <2>2, <2>3
<1>9. CASE ResetSummary
  <2>1. /\ op.pc = "summary" /\ op'.pc = "remove" /\ op.kind = "round" /\ UNCHANGED <<state, flaws>>
        /\ op'.cut = op.cut /\ op'.kind = "round" /\ state # Missing /\ op.cut \in TurnNo
    BY <1>1, <1>9, RewindOrder, RewindGoes DEF Cutting
  <2>2. n < op.cut + 1
    BY <1>3, <2>1 DEF Truncating, Outside, Unsummed
  <2> DEFINE d == [turns[op.cut] EXCEPT !.summary =
                     {m.id : m \in {x \in Range(state.messages) :
                                      x.role # "user" /\ x.turn = op.cut}}]
  <2>3. turns' = [turns EXCEPT ![op.cut] = d]
    BY <1>9 DEF ResetSummary, WithSummary
  <2>4. CASE n = op.cut
    <3>1. turns[op.cut] \in TurnDir
      BY <1>1, <2>1, DirsType DEF IInv, Housed
    <3>2. d.summary = {m.id : m \in {x \in Range(state.messages) :
                                      x.role # "user" /\ x.turn = op.cut}}
      BY <3>1 DEF TurnDir
    <3> HIDE DEF d
    <3>3. turns'[n] = d
      BY <1>1, <2>1, <2>3, <2>4 DEF TurnDirs
    <3> QED BY <2>1, <2>4, <3>2, <3>3 DEF Summed, BubblesOf
  <2>5. CASE n # op.cut
    <3> HIDE DEF d
    <3>1. turns'[n] = turns[n] /\ n \in Dirs(turns)
      BY <1>1, <2>1, <2>3, <2>5 DEF TurnDirs, Dirs
    <3>2. n < op.cut /\ Truncating /\ Unsummed = op.cut
      BY <1>1, <2>1, <2>2, <2>5, <3>1, DirsType DEF Truncating, Unsummed, TurnNo
    <3> QED BY <1>3, <1>4, <2>1, <3>1, <3>2 DEF Summed
  <2> QED BY <2>4, <2>5
<1>10. CASE RemoveOne
  <2>1. /\ op.pc = "remove" /\ op'.pc = "remove" /\ op.kind # "restore" /\ UNCHANGED <<state, flaws>>
        /\ op'.cut = op.cut /\ op'.kind = op.kind /\ op'.round = op.round /\ state # Missing
    BY <1>1, <1>10, RewindOrder, RewindGoes DEF Cutting
  <2>2. n \in Dirs(turns) /\ turns'[n].summary = turns[n].summary
    <3>1. PICK c \in op.left :
            turns' = IF c[1] = "turn" THEN [turns EXCEPT ![c[2]] = Missing]
                     ELSE [turns EXCEPT ![op.cut].rounds[c[2]] = Missing]
      BY <1>10 DEF RemoveOne
    <3>2. CASE c[1] = "turn"
      BY <1>1, <3>1, <3>2 DEF Dirs, TurnDirs
    <3>3. CASE c[1] # "turn"
      <4>1. op.kind = "round" /\ op.cut \in Dirs(turns)
        BY <1>1, <2>1, <3>3 DEF Cutting, Doomed
      <4>2. turns[op.cut] \in TurnDir
        BY <1>1, <4>1, DirsType
      <4> DEFINE d == [turns[op.cut] EXCEPT !.rounds = [@ EXCEPT ![c[2]] = Missing]]
      <4>3. d.summary = turns[op.cut].summary
        BY <4>2 DEF TurnDir
      <4>4. turns' = [turns EXCEPT ![op.cut] = d]
        BY <3>1, <3>3
      <4> HIDE DEF d
      <4> QED BY <1>1, <4>1, <4>3, <4>4 DEF Dirs, TurnDirs
    <3> QED BY <3>2, <3>3
  <2>3. Truncating /\ n < Unsummed
    BY <1>1, <1>3, <2>1 DEF Truncating, Outside, Unsummed
  <2> QED BY <1>3, <1>4, <2>1, <2>2, <2>3 DEF Summed
<1>11. CASE Removed
  <2>1. /\ op.pc = "remove" /\ op.kind \in {"turn", "round"} /\ op.left = {}
        /\ UNCHANGED <<state, turns, flaws>>
    BY <1>1, <1>11, RewindOrder
  <2>2. Dirs(turns) = 1..LastKept /\ state # Missing
    BY <1>1, <1>3, <2>1 DEF CutInLine, LeftTurns, Cutting
  <2>3. n < Unsummed /\ Truncating
    BY <1>1, <2>1, <2>2, CutNumbers DEF Unsummed, Truncating
  <2> QED BY <1>3, <1>4, <2>1, <2>2, <2>3
<1>12. CASE Evict
  <2>1. op.pc = "evict" /\ UNCHANGED <<turns, flaws>> /\ state # Missing
    BY <1>1, <1>12, RewindOrder DEF Cutting, Restoring
  <2>2. Range(state.messages) \subseteq Range(state'.messages)
    <3>1. CASE UNCHANGED state
      BY <3>1
    <3>2. CASE op.kind = "turn"
      <4> DEFINE msg == op.read.messages[IndexOf(op.read.messages, op.at)]
      <4>1. state' = Append1(state, msg) /\ msg \in Message
        BY <1>12, <2>1, <3>2, WhatIsRead DEF Evict
      <4> HIDE DEF msg
      <4> QED BY <1>1, <2>1, <4>1, Appended
    <3> QED BY <1>12, <3>1, <3>2 DEF Evict
  <2>3. Summed(state.messages, turns, n)
    BY <1>3, <1>4, <2>1 DEF Outside
  <2> QED BY <2>1, <2>2, <2>3, MoreBubbles DEF Summed
<1>13. ~(ClearOne \/ CopyOne \/ ApplyUpdates)
  BY <1>3, RewindOrder, RewindGoes DEF Outside, Truncating
<1> QED BY <1>5, <1>6, <1>7, <1>8, <1>9, <1>10, <1>11, <1>12, <1>13 DEF RewindStep

\* A rewind finds no turn, and leaves one that has yet to begin a round.
LEMMA InSummaryRewind ==
  ASSUME IInv, InSummary, RewindStep
  PROVE  InSummary'
<1>1. turn.pc = "idle" /\ turn'.pc \in {"idle", "stamped", "seeded"}
  BY RewindStepAlone DEF Evict, RoundAgain, IdleTurn
<1> QED BY <1>1, CopiedRewind, SummedUpRewind DEF InSummary, IdOfItsOwn

\* Summaries at every step.
LEMMA InSummaryAlways == Spec => []InSummary
<1>1. Init => InSummary
  <2> SUFFICES ASSUME Init PROVE InSummary
    OBVIOUS
  <2>1. op.pc = "idle" /\ op.kind = "none" /\ turn.pc = "idle" /\ checkpoints = <<>> /\ Dirs(turns) = {}
    BY DEF Init, IdleOp, IdleTurn, Dirs
  <2> QED BY <2>1 DEF InSummary, Copied, SummedUp, IdOfItsOwn
<1>2. IInv /\ InSummary /\ [Next]_vars => InSummary'
  <2>1. ASSUME IInv, InSummary, Next PROVE InSummary'
    BY <2>1, Steps, InSummaryTurn, InSummaryRewind, InSummaryEvent
  <2>2. ASSUME InSummary, UNCHANGED vars PROVE InSummary'
    BY <2>2 DEF InSummary, Copied, SummedUp, IdOfItsOwn, Readable, Outside, Truncating, Unsummed,
       History, vars, diskVars, memVars, histVars
  <2> QED BY <2>1, <2>2
<1> QED BY <1>1, <1>2, Invariance, PTL DEF Spec

\* The summary of a turn names only bubbles that are still in the history, whatever
\* was cut, restored or run again.
THEOREM SummariesAreOfTheKept == Spec => []SummaryOfTheKept
<1>1. IInv /\ InSummary => SummaryOfTheKept
  <2> SUFFICES ASSUME IInv, InSummary, Settled, op.pc \in {"idle", "checkpoint", "evict"},
                      NEW k \in Dirs(turns)
               PROVE  turns[k].summary \subseteq History
    BY DEF SummaryOfTheKept
  <2>1. Sound(flaws) /\ state # Missing
    BY DEF Settled, Sound
  <2>2. Summed(state.messages, turns, k)
    BY <2>1 DEF InSummary, SummedUp, Outside
  <2> QED BY <2>1, <2>2 DEF Summed, BubblesOf, History, IdsOf, Range
<1> QED BY <1>1, Invariance, InSummaryAlways, PTL

-----------------------------------------------------------------------------
(* What the SOP and the boundaries of the turns and rounds stand on.       *)

\* The rounds before round r of turn k, and what their files hold.
Earlier(j, q, k, r) == j < k \/ (j = k /\ q < r)
Before(t, k, r) ==
  UNION {UNION {t[j].rounds[q].saved : q \in {p \in Dirs(t[j].rounds) : Earlier(j, p, k, r)}} :
         j \in Dirs(t)}
EndOf == MaxTurn + 1

\* The first r rounds of turn k have files; in front of a round all have, in
\* the turns before round d of turn c.
Whole(t, k, r) == \A p \in 1..r : p \in Dirs(t[k].rounds) /\ t[k].rounds[p].saved # {}
Gapless(t, c, d) ==
  \A k \in Dirs(t) : \A r \in Dirs(t[k].rounds) : Earlier(k, r, c, d) => Whole(t, k, r - 1)

\* The boundary of a turn, and of a round, stands on the rounds before it.
Based(t, c, d) ==
  \A k \in Dirs(t) :
    /\ Earlier(k, 0, c, d) => t[k].entry \subseteq Before(t, k, 0)
    /\ \A r \in Dirs(t[k].rounds) :
         Earlier(k, r, c, d) => t[k].rounds[r].entry \subseteq Before(t, k, r)

\* The files of the rounds only grow; a truncation removes whole rounds, and
\* none before round d of turn c.
Grows(t, u) ==
  \A k \in Dirs(t) :
    /\ k \in Dirs(u)
    /\ \A r \in Dirs(t[k].rounds) :
         r \in Dirs(u[k].rounds) /\ t[k].rounds[r].saved \subseteq u[k].rounds[r].saved
Trimmed(t, u, c, d) ==
  /\ \A k \in Dirs(u) :
       /\ k \in Dirs(t) /\ u[k].entry = t[k].entry
       /\ \A r \in Dirs(u[k].rounds) :
            r \in Dirs(t[k].rounds) /\ u[k].rounds[r] = t[k].rounds[r]
  /\ \A k \in Dirs(t) :
       k < c \/ (k = c /\ d > 0) =>
       k \in Dirs(u) /\ \A r \in Dirs(t[k].rounds) :
                          Earlier(k, r, c, d) => r \in Dirs(u[k].rounds)

LEMMA InBefore ==
  ASSUME NEW t, NEW k, NEW r, NEW x
  PROVE  /\ x \in Before(t, k, r) <=>
              \E j \in Dirs(t) : \E q \in Dirs(t[j].rounds) :
                Earlier(j, q, k, r) /\ x \in t[j].rounds[q].saved
         /\ x \in Rounds(t) <=>
              \E j \in Dirs(t) : \E q \in Dirs(t[j].rounds) : x \in t[j].rounds[q].saved
BY DEF Before, Rounds

\* The turns and rounds there are come before the end.
LEMMA Everywhere ==
  ASSUME NEW t \in TurnDirs
  PROVE  /\ \A k \in Dirs(t) :
              /\ k \in TurnNo /\ k \in Nat /\ k > 0 /\ t[k] \in TurnDir
              /\ \A r : Earlier(k, r, EndOf, 0)
              /\ \A r \in Dirs(t[k].rounds) : /\ r \in RoundNo /\ r \in Nat /\ r > 0
                                              /\ t[k].rounds[r] \in RoundDir
         /\ \A k, r : Before(t, k, r) \subseteq Rounds(t)
<1>1. ASSUME NEW k \in Dirs(t)
      PROVE  /\ k \in TurnNo /\ k \in Nat /\ k > 0 /\ t[k] \in TurnDir
             /\ \A r : Earlier(k, r, EndOf, 0)
  BY DirsType, BoundsAssumption DEF TurnNo, Earlier, EndOf
<1>2. ASSUME NEW k \in Dirs(t), NEW r \in Dirs(t[k].rounds)
      PROVE  r \in RoundNo /\ r \in Nat /\ r > 0 /\ t[k].rounds[r] \in RoundDir
  <2>1. t[k].rounds \in [RoundNo -> RoundDir \cup {Missing}]
    BY <1>1, TurnDirFields
  <2> QED BY <2>1, BoundsAssumption DEF Dirs, RoundNo
<1>3. \A k, r : Before(t, k, r) \subseteq Rounds(t)
  BY InBefore
<1> QED BY <1>1, <1>2, <1>3

\* Where files grow, what stood on them stands.
LEMMA GrownFiles ==
  ASSUME NEW t \in TurnDirs, NEW u \in TurnDirs, Grows(t, u)
  PROVE  /\ Rounds(t) \subseteq Rounds(u)
         /\ \A k, r : Before(t, k, r) \subseteq Before(u, k, r)
         /\ \A k \in Dirs(t) : \A r \in Int : Whole(t, k, r) => Whole(u, k, r)
<1>1. ASSUME NEW k, NEW r, NEW x \in Before(t, k, r) PROVE x \in Before(u, k, r)
  <2>1. PICK j \in Dirs(t) : \E q \in Dirs(t[j].rounds) :
          Earlier(j, q, k, r) /\ x \in t[j].rounds[q].saved
    BY InBefore
  <2>2. PICK q \in Dirs(t[j].rounds) : Earlier(j, q, k, r) /\ x \in t[j].rounds[q].saved
    BY <2>1
  <2>3. j \in Dirs(u) /\ q \in Dirs(u[j].rounds) /\ x \in u[j].rounds[q].saved
    BY <2>2 DEF Grows
  <2> QED BY <2>2, <2>3, InBefore
<1>3. ASSUME NEW x \in Rounds(t) PROVE x \in Rounds(u)
  <2>1. PICK j \in Dirs(t) : \E q \in Dirs(t[j].rounds) : x \in t[j].rounds[q].saved
    BY InBefore
  <2>2. PICK q \in Dirs(t[j].rounds) : x \in t[j].rounds[q].saved
    BY <2>1
  <2>3. j \in Dirs(u) /\ q \in Dirs(u[j].rounds) /\ x \in u[j].rounds[q].saved
    BY <2>2 DEF Grows
  <2> QED BY <2>3, InBefore
<1>2. ASSUME NEW k \in Dirs(t), NEW r \in Int, Whole(t, k, r) PROVE Whole(u, k, r)
  <2> SUFFICES ASSUME NEW p \in 1..r
               PROVE  p \in Dirs(u[k].rounds) /\ u[k].rounds[p].saved # {}
    BY DEF Whole
  <2>1. p \in Dirs(t[k].rounds) /\ t[k].rounds[p].saved # {}
    BY <1>2 DEF Whole
  <2> QED BY <2>1 DEF Grows
<1> QED BY <1>1, <1>2, <1>3

\* What lies before a cut is not touched by it.
LEMMA TrimmedFiles ==
  ASSUME NEW t \in TurnDirs, NEW u \in TurnDirs, NEW c \in Nat, NEW d \in Nat,
         Trimmed(t, u, c, d)
  PROVE  /\ Gapless(t, c, d) => Gapless(u, c, d)
         /\ Based(t, c, d) => Based(u, c, d)
         /\ Before(t, c, d) \subseteq Before(u, c, d)
         /\ d > 0 /\ c \in Dirs(t) /\ Whole(t, c, d - 1) => Whole(u, c, d - 1)
         /\ \A k \in Dirs(t) : \A r \in Nat :
              r > 0 /\ Earlier(k, r, c, d) /\ Whole(t, k, r - 1) => Whole(u, k, r - 1)
<1>1. ASSUME NEW k \in Nat, NEW r \in Nat, Earlier(k, r, c, d) \/ (k = c /\ r = d)
      PROVE  Before(t, k, r) \subseteq Before(u, k, r)
  <2> SUFFICES ASSUME NEW x \in Before(t, k, r) PROVE x \in Before(u, k, r)
    OBVIOUS
  <2>0. PICK j \in Dirs(t) : \E q \in Dirs(t[j].rounds) :
          Earlier(j, q, k, r) /\ x \in t[j].rounds[q].saved
    BY InBefore
  <2>1. PICK q \in Dirs(t[j].rounds) : Earlier(j, q, k, r) /\ x \in t[j].rounds[q].saved
    BY <2>0
  <2>2. j \in Nat /\ q \in Nat /\ q > 0
    BY Everywhere
  <2>3. Earlier(j, q, c, d) /\ (j < c \/ (j = c /\ d > 0))
    BY <1>1, <2>1, <2>2 DEF Earlier
  <2>4. j \in Dirs(u) /\ q \in Dirs(u[j].rounds)
    BY <2>1, <2>3 DEF Trimmed
  <2>5. u[j].rounds[q] = t[j].rounds[q]
    BY <2>4 DEF Trimmed
  <2> QED BY <2>1, <2>4, <2>5, InBefore
<1>2. ASSUME NEW k \in Dirs(t), NEW r \in Nat, r > 0, Earlier(k, r, c, d) \/ (k = c /\ r = d),
             Whole(t, k, r - 1)
      PROVE  Whole(u, k, r - 1)
  <2> SUFFICES ASSUME NEW p \in 1..(r - 1)
               PROVE  p \in Dirs(u[k].rounds) /\ u[k].rounds[p].saved # {}
    BY DEF Whole
  <2>1. p \in Dirs(t[k].rounds) /\ t[k].rounds[p].saved # {}
    BY <1>2 DEF Whole
  <2>2. k \in Nat /\ Earlier(k, p, c, d) /\ (k < c \/ (k = c /\ d > 0))
    BY <1>2, Everywhere DEF Earlier
  <2>3. k \in Dirs(u) /\ p \in Dirs(u[k].rounds)
    BY <2>1, <2>2 DEF Trimmed
  <2>4. u[k].rounds[p] = t[k].rounds[p]
    BY <2>3 DEF Trimmed
  <2> QED BY <2>1, <2>3, <2>4
<1>3. ASSUME Gapless(t, c, d), NEW k \in Dirs(u), NEW r \in Dirs(u[k].rounds),
             Earlier(k, r, c, d)
      PROVE  Whole(u, k, r - 1)
  <2>1. k \in Dirs(t) /\ r \in Dirs(t[k].rounds)
    BY DEF Trimmed
  <2>2. r \in Nat /\ r > 0 /\ Whole(t, k, r - 1)
    BY <1>3, <2>1, Everywhere DEF Gapless
  <2> QED BY <1>2, <1>3, <2>1, <2>2
<1>4. ASSUME Based(t, c, d), NEW k \in Dirs(u)
      PROVE  /\ Earlier(k, 0, c, d) => u[k].entry \subseteq Before(u, k, 0)
             /\ \A r \in Dirs(u[k].rounds) :
                  Earlier(k, r, c, d) => u[k].rounds[r].entry \subseteq Before(u, k, r)
  <2>1. k \in Dirs(t) /\ u[k].entry = t[k].entry /\ k \in Nat
    BY Everywhere DEF Trimmed
  <2>2. Earlier(k, 0, c, d) => t[k].entry \subseteq Before(t, k, 0)
    BY <1>4, <2>1 DEF Based
  <2>3. ASSUME NEW r \in Dirs(u[k].rounds), Earlier(k, r, c, d)
        PROVE  u[k].rounds[r].entry \subseteq Before(u, k, r)
    <3>1. r \in Dirs(t[k].rounds) /\ u[k].rounds[r] = t[k].rounds[r] /\ r \in Nat
      BY <2>1, Everywhere DEF Trimmed
    <3>2. t[k].rounds[r].entry \subseteq Before(t, k, r)
      BY <1>4, <2>1, <2>3, <3>1 DEF Based
    <3> QED BY <1>1, <2>1, <2>3, <3>1, <3>2
  <2> QED BY <1>1, <2>1, <2>2, <2>3
<1>5. d > 0 /\ c \in Dirs(t) /\ Whole(t, c, d - 1) => Whole(u, c, d - 1)
  BY <1>2
<1> QED BY <1>1, <1>2, <1>3, <1>4, <1>5 DEF Gapless, Based

\* A step of a turn adds files; only the boundary of a new turn and of a new
\* round is written, which is the SOP of the moment.
LEMMA TurnFiles ==
  ASSUME IInv, TurnStep
  PROVE  /\ turns \in TurnDirs /\ turns' \in TurnDirs /\ Grows(turns, turns')
         /\ \A k \in Dirs(turns') :
              \/ k \in Dirs(turns) /\ turns'[k].entry = turns[k].entry
              \/ Seed /\ k = NextTurn /\ turns'[k].entry = Sop
         /\ \A k \in Dirs(turns') : \A r \in Dirs(turns'[k].rounds) :
              \/ /\ k \in Dirs(turns) /\ r \in Dirs(turns[k].rounds)
                 /\ turns'[k].rounds[r].entry = turns[k].rounds[r].entry
              \/ /\ BeginRound /\ k = turn.n /\ r = turn.r + 1
                 /\ turns'[k].rounds[r].entry = Sop
         /\ SaveRound => turn.id \in turns'[turn.n].rounds[turn.r].saved
<1>1. /\ turns \in TurnDirs /\ turns' \in TurnDirs /\ turn \in Turn /\ minted \in Nat
      /\ state \in States
  BY TurnStepType, TurnStepAlone, BoundsAssumption DEF IInv, TypeOK, FilesOK
<1> DEFINE Entries == \A k \in Dirs(turns') :
                         \/ k \in Dirs(turns) /\ turns'[k].entry = turns[k].entry
                         \/ Seed /\ k = NextTurn /\ turns'[k].entry = Sop
           RoundEntries == \A k \in Dirs(turns') : \A r \in Dirs(turns'[k].rounds) :
              \/ /\ k \in Dirs(turns) /\ r \in Dirs(turns[k].rounds)
                 /\ turns'[k].rounds[r].entry = turns[k].rounds[r].entry
              \/ /\ BeginRound /\ k = turn.n /\ r = turn.r + 1
                 /\ turns'[k].rounds[r].entry = Sop
           Saves == SaveRound => turn.id \in turns'[turn.n].rounds[turn.r].saved
<1>2. CASE Seed
  <2> DEFINE n == NextTurn
             fresh == [entry |-> {}, rounds |-> [r \in RoundNo |-> Missing], summary |-> {}]
             old == IF turns[n] # Missing THEN turns[n] ELSE fresh
             new == [old EXCEPT !.entry = Sop]
  <2>1. turns' = [turns EXCEPT ![n] = new]
    BY <1>2 DEF Seed
  <2>2. n \in TurnNo
    BY <1>1, <1>2, DirsType, BoundsAssumption DEF Seed, NextTurn, TurnNo
  <2>3. old \in TurnDir /\ fresh \in TurnDir
    BY <1>1, <2>2, NewTurnDir DEF TurnDirs
  <2>4. new.entry = Sop /\ new.rounds = old.rounds /\ Dirs(fresh.rounds) = {}
    BY <2>3 DEF TurnDir, Dirs
  <2>5. turns[n] # Missing <=> n \in Dirs(turns)
    BY <1>1, <2>2 DEF Dirs, TurnDirs
  <2>6. new \in TurnDir
    BY <1>1, <2>3, SopType, TurnDirFields DEF IInv, TypeOK
  <2> HIDE DEF new, fresh
  <2>7. turns'[n] = new /\ \A k \in Dirs(turns') : k # n => k \in Dirs(turns) /\ turns'[k] = turns[k]
    BY <1>1, <2>1, <2>2 DEF TurnDirs, Dirs
  <2>8. \A k \in Dirs(turns) : k \in Dirs(turns') /\ (k # n => turns'[k] = turns[k])
    BY <1>1, <2>1, <2>2, <2>6, Absent DEF TurnDirs, Dirs
  <2>9. Grows(turns, turns')
    BY <2>4, <2>5, <2>7, <2>8 DEF Grows
  <2>10. Entries
    BY <1>2, <2>4, <2>7
  <2>11. RoundEntries
    <3> SUFFICES ASSUME NEW k \in Dirs(turns'), NEW r \in Dirs(turns'[k].rounds)
                 PROVE  /\ k \in Dirs(turns) /\ r \in Dirs(turns[k].rounds)
                        /\ turns'[k].rounds[r].entry = turns[k].rounds[r].entry
      OBVIOUS
    <3>1. CASE k # n
      BY <2>7, <3>1
    <3>2. CASE k = n
      BY <2>4, <2>5, <2>7, <3>2
    <3> QED BY <3>1, <3>2
  <2>12. ~SaveRound
    BY <1>2 DEF Seed, SaveRound, At
  <2> QED BY <1>1, <2>9, <2>10, <2>11, <2>12
<1>3. CASE BeginRound \/ SaveRound \/ (SaveFailed /\ ~UNCHANGED turns)
  <2>1. /\ BeginRound => turn.pc = "seeded" /\ turn.n \in TurnNo /\ turn.r + 1 \in RoundNo
        /\ SaveRound => turn.pc = "round" /\ turn.n \in TurnNo /\ turn.r > 0 /\ turn.id \in Id
        /\ SaveFailed /\ ~UNCHANGED turns =>
             InRound /\ turns' = [turns EXCEPT ![turn.n].rounds[turn.r].saved = @ \cup {turn.id}]
    <3>1. BeginRound => turn.pc = "seeded" /\ turn.n \in TurnNo /\ turn.r + 1 \in RoundNo
      BY <1>1, BoundsAssumption DEF BeginRound, At, IInv, Numbered, RoundNo, Turn
    <3>2. SaveRound => turn.pc = "round" /\ turn.n \in TurnNo /\ turn.r > 0 /\ turn.id \in Id
      <4>1. SaveRound => turn.pc = "round"
        BY DEF SaveRound, At
      <4>2. SaveRound => turn.n \in TurnNo /\ turn.r \in RoundNo /\ turn.id \in Id
        BY <4>1 DEF IInv, Numbered, InARound
      <4> QED BY <4>1, <4>2 DEF RoundNo
    <3>3. SaveFailed /\ ~UNCHANGED turns =>
             InRound /\ turns' = [turns EXCEPT ![turn.n].rounds[turn.r].saved = @ \cup {turn.id}]
      BY DEF SaveFailed
    <3> QED BY <3>1, <3>2, <3>3
  <2>2. turn.n # None
    BY <1>3, <2>1, BoundsAssumption DEF TurnNo, None, InRound
  <2>3. turn.n \in Dirs(turns) /\ turns[turn.n] \in TurnDir /\ turn.n \in TurnNo
    BY <2>2, HasDirectory
  <2>4. PICK r \in RoundNo, e \in RoundDir :
          /\ turns' = [turns EXCEPT ![turn.n].rounds[r] = e]
          /\ r \in Dirs(turns[turn.n].rounds) => turns[turn.n].rounds[r].saved \subseteq e.saved
          /\ ~BeginRound => /\ r \in Dirs(turns[turn.n].rounds)
                            /\ e.entry = turns[turn.n].rounds[r].entry
          /\ BeginRound => r = turn.r + 1 /\ e.entry = Sop
          /\ SaveRound => r = turn.r /\ turn.id \in e.saved
    <3>1. CASE BeginRound
      <4> DEFINE r == turn.r + 1
                 before == turns[turn.n].rounds[r]
                 saved == IF before # Missing THEN before.saved ELSE {}
                 e == [entry |-> Sop, saved |-> saved]
      <4>1. turns' = [turns EXCEPT ![turn.n].rounds[r] = e]
        BY <3>1 DEF BeginRound
      <4>2. r \in RoundNo /\ Sop \in SUBSET Id
        BY <1>1, <2>1, <3>1, SopType DEF IInv, TypeOK
      <4>3. before \in RoundDir \cup {Missing}
        BY <2>3, <4>2, TurnDirFields
      <4>4. saved \in SUBSET Id
        BY <4>3 DEF RoundDir
      <4>5. e \in RoundDir
        BY <4>2, <4>4 DEF RoundDir
      <4>6. r \in Dirs(turns[turn.n].rounds) => before # Missing
        BY DEF Dirs
      <4>7. ~SaveRound
        BY <3>1 DEF BeginRound, SaveRound, At
      <4> QED BY <3>1, <4>1, <4>2, <4>5, <4>6, <4>7
    <3>2. CASE SaveRound \/ (SaveFailed /\ ~UNCHANGED turns)
      <4> DEFINE before == turns[turn.n].rounds[turn.r]
                 e == [before EXCEPT !.saved = before.saved \cup {turn.id}]
      <4>1. turns' = [turns EXCEPT ![turn.n].rounds[turn.r] = e]
        BY <2>1, <3>2 DEF SaveRound
      <4>2. turn.r > 0 /\ turn.id # None /\ turn.id \in Id
        BY <1>1, <2>1, <3>2, TurnFields DEF InRound, Id, None
      <4>3. turn.r \in RoundNo /\ turn.r \in Dirs(turns[turn.n].rounds)
        BY <2>2, <4>2, HasDirectory
      <4>4. before \in RoundDir
        BY <1>1, <2>3, <4>3, Everywhere
      <4>5. /\ e \in RoundDir /\ e.entry = before.entry
            /\ e.saved = before.saved \cup {turn.id}
        BY <4>2, <4>4 DEF RoundDir
      <4>6. ~BeginRound
        BY <3>2 DEF BeginRound, SaveRound, SaveFailed, At
      <4> HIDE DEF e
      <4> QED BY <4>1, <4>3, <4>5, <4>6
    <3> QED BY <1>3, <3>1, <3>2
  <2>5. /\ Dirs(turns') = Dirs(turns)
        /\ \A k \in Dirs(turns) : turns'[k].entry = turns[k].entry
        /\ turns'[turn.n].rounds[r] = e /\ r \in Dirs(turns'[turn.n].rounds)
        /\ \A k \in Dirs(turns) : \A q :
             k # turn.n \/ q # r =>
             /\ q \in Dirs(turns'[k].rounds) <=> q \in Dirs(turns[k].rounds)
             /\ q \in Dirs(turns[k].rounds) => turns'[k].rounds[q] = turns[k].rounds[q]
    <3> DEFINE d == [turns[turn.n] EXCEPT !.rounds = [@ EXCEPT ![r] = e]]
    <3>1. turns' = [turns EXCEPT ![turn.n] = d]
      BY <2>4
    <3>2. /\ d.rounds = [turns[turn.n].rounds EXCEPT ![r] = e]
          /\ d.entry = turns[turn.n].entry /\ d \in TurnDir
      BY <2>3 DEF TurnDir
    <3> HIDE DEF d
    <3>3. turns[turn.n].rounds \in [RoundNo -> RoundDir \cup {Missing}] /\ e # Missing
      BY <2>3, TurnDirFields, Absent
    <3>4. turns'[turn.n] = d /\ \A k \in Dirs(turns) : k # turn.n => turns'[k] = turns[k]
      BY <1>1, <2>3, <3>1 DEF TurnDirs, Dirs
    <3>5. Dirs(turns') = Dirs(turns)
      BY <1>1, <2>3, <3>1, <3>2, Absent DEF TurnDirs, Dirs
    <3>6. turns'[turn.n].rounds[r] = e /\ r \in Dirs(turns'[turn.n].rounds)
      BY <3>2, <3>3, <3>4 DEF Dirs
    <3>7. ASSUME NEW k \in Dirs(turns), NEW q, k # turn.n \/ q # r
          PROVE  /\ q \in Dirs(turns'[k].rounds) <=> q \in Dirs(turns[k].rounds)
                 /\ q \in Dirs(turns[k].rounds) => turns'[k].rounds[q] = turns[k].rounds[q]
      <4>1. CASE k # turn.n
        BY <3>4, <4>1
      <4>2. CASE k = turn.n
        BY <3>2, <3>3, <3>4, <3>7, <4>2 DEF Dirs
      <4> QED BY <4>1, <4>2
    <3> QED BY <3>2, <3>4, <3>5, <3>6, <3>7
  <2>6. Grows(turns, turns')
    <3>1. ASSUME NEW k \in Dirs(turns), NEW q \in Dirs(turns[k].rounds)
          PROVE  q \in Dirs(turns'[k].rounds)
                 /\ turns[k].rounds[q].saved \subseteq turns'[k].rounds[q].saved
      <4>1. CASE k # turn.n \/ q # r
        BY <2>5, <4>1
      <4>2. CASE k = turn.n /\ q = r
        BY <2>4, <2>5, <4>2
      <4> QED BY <4>1, <4>2
    <3> QED BY <2>5, <3>1 DEF Grows
  <2>7. Entries
    BY <2>5
  <2>8. RoundEntries
    <3> SUFFICES ASSUME NEW k \in Dirs(turns'), NEW q \in Dirs(turns'[k].rounds)
                 PROVE  \/ /\ k \in Dirs(turns) /\ q \in Dirs(turns[k].rounds)
                           /\ turns'[k].rounds[q].entry = turns[k].rounds[q].entry
                        \/ /\ BeginRound /\ k = turn.n /\ q = turn.r + 1
                           /\ turns'[k].rounds[q].entry = Sop
      OBVIOUS
    <3>1. CASE k # turn.n \/ q # r
      BY <2>5, <3>1
    <3>2. CASE k = turn.n /\ q = r
      BY <2>4, <2>5, <3>2
    <3> QED BY <3>1, <3>2
  <2>9. Saves
    BY <2>4, <2>5
  <2> QED BY <1>1, <2>6, <2>7, <2>8, <2>9
<1>4. CASE Summarise
  <2>1. turn.pc = "bubble" /\ turn.n # None
    BY <1>1, <1>4, BoundsAssumption DEF Summarise, At, IInv, Numbered, InARound, TurnNo, None
  <2>2. turn.n \in TurnNo /\ turns[turn.n] \in TurnDir /\ turn.n \in Dirs(turns)
    BY <2>1, HasDirectory
  <2> DEFINE d == [turns[turn.n] EXCEPT !.summary = turns[turn.n].summary \cup {turn.id}]
  <2>3. d.rounds = turns[turn.n].rounds /\ d.entry = turns[turn.n].entry /\ d # Missing
    <3>1. d.rounds = turns[turn.n].rounds /\ d.entry = turns[turn.n].entry
      BY <2>2 DEF TurnDir
    <3>2. d \in TurnDir
      <4>1. turn.id \in Id
        BY <2>1 DEF IInv, Numbered, InARound
      <4> QED BY <2>2, <4>1, TurnDirFields
    <3> QED BY <3>1, <3>2, Absent
  <2> HIDE DEF d
  <2>4. turns' = [turns EXCEPT ![turn.n] = d]
    BY <1>4 DEF Summarise, WithSummary, d
  <2>5. /\ Dirs(turns') = Dirs(turns)
        /\ \A k \in Dirs(turns) : /\ turns'[k].rounds = turns[k].rounds
                                  /\ turns'[k].entry = turns[k].entry
    BY <1>1, <2>2, <2>3, <2>4 DEF Dirs, TurnDirs
  <2>6. ~SaveRound
    BY <1>4 DEF Summarise, SaveRound, At
  <2> QED BY <1>1, <2>5, <2>6 DEF Grows
<1>5. CASE UNCHANGED turns /\ ~SaveRound
  BY <1>1, <1>5 DEF Grows
<1> QED BY <1>2, <1>3, <1>4, <1>5, TurnsAreWritten

-----------------------------------------------------------------------------
(* The rounds follow one another, and the SOP stands on them.              *)

\* A session that lived through nothing but a vendor session left behind, and
\* the round where a truncation cuts: of a turn that goes, the first.
NoRerun(f) == f \subseteq {"behind"}
CutRound == IF op.kind = "turn" THEN 0 ELSE op.round

\* A round that answered has its files, the marker is that of the turn that
\* runs, and a truncation has taken it; what is left of the rounds it removes.
Marks ==
  /\ turn.pc \in InARound \ {"round"} => turn.id \in turns[turn.n].rounds[turn.r].saved
  /\ turn.pc = "marker" => blob = [widget |-> turn.id, n |-> turn.n, r |-> turn.r]
  /\ turn.pc # "idle" /\ turn.n = None => state.pending = Missing
  /\ turn.n # None /\ state.pending # Missing => state.pending.n = turn.n
  /\ op.kind \in {"turn", "round"} /\ op.pc \in {"unlink", "summary", "remove", "evict"} =>
       state.pending = Missing
  /\ op.kind = "round" /\ op.pc \in {"remove", "evict"} =>
       \A r \in Dirs(turns[op.cut].rounds) : r < op.round \/ <<"round", r>> \in op.left

\* The rounds before one that is cut, that runs or that a widget waits in have
\* their files.
FollowsOn ==
  /\ op.kind = "round" => Whole(turns, op.cut, op.round - 1)
  /\ turn.pc = "seeded" => Whole(turns, turn.n, turn.r)
  /\ InRound => Whole(turns, turn.n, turn.r - 1)
  /\ state # Missing /\ ~Replacing /\ state.pending # Missing /\ blob # Missing =>
       blob.n = state.pending.n /\ blob.n \in Dirs(turns) /\ Whole(turns, blob.n, blob.r)

\* No round is missing in front of another, in every checkpoint, in the
\* session, and before the cut while a truncation is under way.
InSequence ==
  /\ \A k \in DOMAIN checkpoints :
       Readable(k) /\ NoRerun(checkpoints[k].flaws) => Gapless(checkpoints[k].turns, EndOf, 0)
  /\ NoRerun(flaws) /\ state # Missing =>
       /\ Outside => Gapless(turns, EndOf, 0)
       /\ Truncating => Gapless(turns, op.cut, CutRound)

\* The SOP, and what a truncation resets it to, stands on those rounds.
OnRounds ==
  /\ \A k \in DOMAIN checkpoints :
       Readable(k) /\ NoRerun(checkpoints[k].flaws) =>
       /\ Based(checkpoints[k].turns, EndOf, 0)
       /\ checkpoints[k].state.sop \subseteq Rounds(checkpoints[k].turns)
  /\ NoRerun(flaws) /\ state # Missing =>
       /\ Outside => Based(turns, EndOf, 0) /\ state.sop \subseteq Rounds(turns)
       /\ op.pc \in {"idle", "checkpoint", "read", "persist"} /\ live # Missing =>
            live.sop \subseteq Rounds(turns)
       /\ op.pc = "persist" \/ (op.kind = "round" /\ op.pc \in {"checkpoint", "read"}) =>
            op.sop \subseteq Before(turns, op.cut, CutRound)
       /\ Truncating => /\ Based(turns, op.cut, CutRound)
                        /\ state.sop \subseteq Before(turns, op.cut, CutRound)

SopInv == /\ Marks /\ InSequence /\ OnRounds
          /\ NoRerun(flaws) => FollowsOn

\* A turn in a round is still in the same one after a step, unless the round begins.
LEMMA SameRound ==
  ASSUME IInv, TurnStep, turn'.pc \in InARound \ {"round"}
  PROVE  /\ turn'.n = turn.n /\ turn'.r = turn.r /\ turn'.id = turn.id
         /\ turn.pc \in InARound /\ (turn.pc = "round" => SaveRound)
         /\ turn.n # None /\ turn.r > 0 /\ turn.id # None
<1>1. turn \in Turn
  BY DEF IInv, TypeOK
<1>2. SaveRound \/ CommitBubble \/ Summarise \/ Tools \/ WriteBlob \/ WriteMarker \/ Answer
  BY TurnCameFrom DEF InARound
<1>3. /\ turn'.n = turn.n /\ turn'.r = turn.r /\ turn'.id = turn.id
      /\ turn.pc \in InARound /\ (turn.pc = "round" => SaveRound)
  BY <1>1, <1>2 DEF SaveRound, CommitBubble, Summarise, Tools, WriteBlob, WriteMarker, Answer,
     At, Go, Turn, InARound
<1>4. turn.n \in TurnNo /\ turn.r \in RoundNo /\ turn.id \in Id
  BY <1>3 DEF IInv, Numbered
<1> QED BY <1>3, <1>4, BoundsAssumption DEF TurnNo, RoundNo, Id, None

\* A turn writes the sidecar of its own widget only.
LEMMA TurnBlob ==
  ASSUME TurnStep
  PROVE  \/ blob' \in {blob, Missing}
         \/ WriteBlob /\ blob' = [widget |-> turn.id, n |-> turn.n, r |-> turn.r]
BY DEF TurnStep, Send, Stamp, UnlinkBlob, Seed, BeginRound, SaveRound, CommitBubble,
       Summarise, Tools, WriteBlob, WriteMarker, Answer, AnswerFromHub, Finish, Stop, StopEarly,
       RecoverWidget, ExpireWidget, Fail, FailEarly, SaveFailed, ReportFailure, LeaveFailed,
       StopReporting, diskVars

LEMMA MarksTurn ==
  ASSUME IInv, Marks, TurnStep
  PROVE  Marks'
<1>1. /\ state \in States /\ state' \in States /\ op.pc = "idle" /\ op' = op /\ turn \in Turn
      /\ None = 0 /\ None \notin TurnNo
  BY TurnStepAlone, TurnStepType, BoundsAssumption DEF IInv, TypeOK, TurnNo, None
<1>2. turn'.pc \in InARound \ {"round"} => turn'.id \in turns'[turn'.n].rounds[turn'.r].saved
  <2> SUFFICES ASSUME turn'.pc \in InARound \ {"round"}
               PROVE  turn.id \in turns'[turn.n].rounds[turn.r].saved
    BY SameRound
  <2>1. turn.n \in Dirs(turns) /\ turn.r \in Dirs(turns[turn.n].rounds)
    BY SameRound, HasDirectory
  <2>2. turns[turn.n].rounds[turn.r].saved \subseteq turns'[turn.n].rounds[turn.r].saved
    BY <2>1, TurnFiles DEF Grows
  <2>3. CASE SaveRound
    BY <2>3, TurnFiles
  <2>4. CASE ~SaveRound
    BY <2>2, <2>4, SameRound DEF Marks
  <2> QED BY <2>3, <2>4
<1>3. turn'.pc = "marker" => blob' = [widget |-> turn'.id, n |-> turn'.n, r |-> turn'.r]
  <2>1. turn'.pc = "marker" => WriteBlob
    BY TurnCameFrom
  <2> QED BY <1>1, <2>1 DEF WriteBlob, Go, Turn
<1>4. WriteMarker => turn.pc = "marker" /\ turn.n \in TurnNo /\ turn'.n = turn.n
  <2>1. WriteMarker => turn.pc = "marker" /\ turn'.n = turn.n
    BY <1>1 DEF WriteMarker, At, Go, Turn
  <2> QED BY <2>1 DEF IInv, Numbered, InARound
<1>5. CASE turn' = IdleTurn
  BY <1>1, <1>2, <1>3, <1>5 DEF Marks, IdleTurn
<1>6. CASE turn'.n = turn.n /\ turn.pc # "idle"
  <2>1. turn'.pc # "idle" /\ turn'.n = None => state'.pending = Missing
    BY <1>1, <1>4, <1>6, TurnMarks DEF Marks
  <2>2. turn'.n # None /\ state'.pending # Missing => state'.pending.n = turn'.n
    BY <1>1, <1>6, TurnMarks DEF Marks
  <2> QED BY <1>1, <1>2, <1>3, <2>1, <2>2 DEF Marks
<1>7. CASE Seed /\ turn'.n = NextTurn
  <2>1. turn.pc = "stamped" /\ state' = state /\ NextTurn # None
    BY <1>1, <1>7, DirsType DEF Seed, At, NextTurn, IInv, TypeOK
  <2>2. turn.n = None
    BY <2>1 DEF IInv, Numbered, BeforeItBegins
  <2>3. state'.pending = Missing
    BY <2>1, <2>2 DEF Marks
  <2> QED BY <1>1, <1>2, <1>3, <1>7, <2>1, <2>3 DEF Marks
<1>8. CASE Send /\ turn'.n = None /\ UNCHANGED turns /\ state'.pending = Missing
  BY <1>1, <1>2, <1>3, <1>8 DEF Marks
<1>9. CASE /\ RecoverWidget /\ UNCHANGED <<state, turns>>
           /\ state.pending # Missing /\ turn'.n = state.pending.n
  <2>1. state.pending \in Widgets
    BY <1>1, <1>9, StateFields
  <2>2. turn'.n \in TurnNo
    BY <1>9, <2>1 DEF Widgets
  <2> QED BY <1>1, <1>2, <1>3, <1>9, <2>2 DEF Marks
<1> QED BY <1>5, <1>6, <1>7, <1>8, <1>9, TurnNumber

\* A truncation removes nothing that comes before its cut.
LEMMA CutFiles ==
  ASSUME IInv, RemoveOne \/ ResetSummary
  PROVE  /\ turns \in TurnDirs /\ turns' \in TurnDirs /\ op.kind \in {"turn", "round"}
         /\ op.cut \in Nat /\ CutRound \in Nat /\ (op.kind = "round" => op.cut \in Dirs(turns))
         /\ Trimmed(turns, turns', op.cut, CutRound)
         /\ op.kind = "round" => /\ op.cut \in Dirs(turns') /\ CutRound > 0 /\ CutRound = op.round
                                 /\ op.round \in RoundNo
         /\ op.kind = "turn" => CutRound = 0
<1>1. /\ op \in Op /\ turns \in TurnDirs /\ turns' \in TurnDirs /\ RewindStep
      /\ op.kind \in {"turn", "round"} /\ Cutting
  BY RewindStepType, RewindGoes, RewindOrder DEF IInv, TypeOK, FilesOK, RewindStep
<1>2. /\ op.cut \in Nat /\ op.cut > 0 /\ CutRound \in Nat
      /\ op.kind = "round" => /\ op.cut \in Dirs(turns) /\ CutRound > 0 /\ CutRound = op.round
                              /\ op.round \in RoundNo
      /\ op.kind = "turn" => CutRound = 0
  <2>1. op.cut \in Nat /\ op.cut > 0
    BY <1>1, CutNumbers
  <2>2. op.kind = "round" => op.cut \in Dirs(turns) /\ op.round \in RoundNo
    BY <1>1 DEF IInv, Housed, Cutting
  <2> QED BY <1>1, <2>1, <2>2 DEF CutRound, RoundNo
<1> DEFINE u == turns'
           c == op.cut
           d == CutRound
<1>3. CASE ResetSummary
  <2> DEFINE x == {m.id : m \in {y \in Range(state.messages) :
                                   y.role # "user" /\ y.turn = op.cut}}
             e == [turns[op.cut] EXCEPT !.summary = x]
  <2>1. op.kind = "round" /\ turns' = [turns EXCEPT ![op.cut] = e]
    BY <1>1, <1>3, RewindOrder DEF ResetSummary, WithSummary
  <2>2. turns[op.cut] \in TurnDir /\ op.cut \in TurnNo
    BY <1>1, <1>2, <2>1, DirsType
  <2>3. e.rounds = turns[op.cut].rounds /\ e.entry = turns[op.cut].entry /\ e # Missing
    <3>1. e.rounds = turns[op.cut].rounds /\ e.entry = turns[op.cut].entry /\ e.summary = x
      BY <2>2 DEF TurnDir
    <3> HIDE DEF e
    <3>2. e = Missing => FALSE
      BY <2>2, <3>1 DEF Missing, TurnDir, e
    <3> QED BY <3>1, <3>2
  <2> HIDE DEF e
  <2>4. Dirs(turns') = Dirs(turns) /\ turns'[op.cut] = e
        /\ \A k \in Dirs(turns) : k # op.cut => turns'[k] = turns[k]
    <3>1. op.cut \in Dirs(turns)
      BY <1>2, <2>1
    <3>2. Dirs(turns') = Dirs(turns) \cup {op.cut}
      BY <1>1, <2>1, <2>2, <2>3, OneDirectory
    <3>3. turns'[op.cut] = e /\ \A k \in Dirs(turns) : k # op.cut => turns'[k] = turns[k]
      BY <1>1, <2>1, <2>2 DEF Dirs, TurnDirs
    <3> QED BY <3>1, <3>2, <3>3
  <2>5. \A k \in Dirs(turns) : /\ turns'[k].rounds = turns[k].rounds
                               /\ turns'[k].entry = turns[k].entry
    BY <2>3, <2>4
  <2>6. Trimmed(turns, turns', op.cut, CutRound)
    BY <2>4, <2>5 DEF Trimmed
  <2> QED BY <1>1, <1>2, <2>4, <2>6
<1>4. CASE RemoveOne
  <2>1. op.left \subseteq Doomed
    BY <1>1, <1>4 DEF RemoveOne, Cutting
  <2>2. PICK x \in op.left :
          turns' = IF x[1] = "turn" THEN [turns EXCEPT ![x[2]] = Missing]
                   ELSE [turns EXCEPT ![op.cut].rounds[x[2]] = Missing]
    BY <1>4 DEF RemoveOne
  <2>3. CASE x[1] = "turn"
    <3>1. x[2] > op.cut \/ (x[2] = op.cut /\ op.kind = "turn")
      BY <2>1, <2>3 DEF Doomed
    <3>2. x[2] \in Dirs(turns)
      BY <2>1, <2>3 DEF Doomed
    <3>3. x[2] \in Nat
      BY <1>1, <3>2, DirsType DEF TurnNo
    <3>4. turns' = [turns EXCEPT ![x[2]] = Missing]
      BY <2>2, <2>3
    <3>5. Dirs(turns') = Dirs(turns) \ {x[2]} /\ \A k \in Dirs(turns') : turns'[k] = turns[k]
      BY <1>1, <3>4 DEF Dirs, TurnDirs
    <3>6. \A k \in Dirs(turns) : k < c \/ (k = c /\ d > 0) => k \in Dirs(turns') /\ turns'[k] = turns[k]
      BY <1>1, <1>2, <3>1, <3>3, <3>5
    <3>7. Trimmed(turns, turns', op.cut, CutRound)
      BY <3>5, <3>6 DEF Trimmed
    <3>8. op.kind = "round" => op.cut \in Dirs(turns')
      BY <1>2, <3>6
    <3> QED BY <1>1, <1>2, <3>7, <3>8
  <2>4. CASE x[1] # "turn"
    <3>1. op.kind = "round" /\ x[2] \in Dirs(turns[op.cut].rounds) /\ x[2] >= op.round
      BY <1>1, <2>1, <2>4 DEF Doomed
    <3>2. turns[op.cut] \in TurnDir /\ op.cut \in TurnNo
          /\ turns[op.cut].rounds \in [RoundNo -> RoundDir \cup {Missing}]
      BY <1>1, <1>2, <3>1, DirsType, TurnDirFields
    <3>3. x[2] \in Nat /\ x[2] \in RoundNo
      BY <1>1, <1>2, <3>1, Everywhere
    <3> DEFINE e == [turns[op.cut] EXCEPT !.rounds = [@ EXCEPT ![x[2]] = Missing]]
    <3>4. /\ e.rounds = [turns[op.cut].rounds EXCEPT ![x[2]] = Missing]
          /\ e.entry = turns[op.cut].entry
      BY <3>2 DEF TurnDir
    <3>5. turns' = [turns EXCEPT ![op.cut] = e]
      BY <2>2, <2>4
    <3>6. op.cut \in Dirs(turns')
      <4>1. e = Missing => FALSE
        BY <3>2, <3>4 DEF Missing, TurnDir
      <4> HIDE DEF e
      <4>2. e # Missing
        BY <4>1
      <4>3. Dirs(turns') = Dirs(turns) \cup {op.cut}
        BY <1>1, <3>2, <3>5, <4>2, OneDirectory
      <4> QED BY <4>3
    <3> HIDE DEF e
    <3>7. turns'[op.cut] = e /\ Dirs(turns') = Dirs(turns)
          /\ \A k \in Dirs(turns) : k # op.cut => turns'[k] = turns[k]
      BY <1>1, <1>2, <3>1, <3>2, <3>5, <3>6 DEF Dirs, TurnDirs
    <3>8. Dirs(e.rounds) = Dirs(turns[op.cut].rounds) \ {x[2]}
          /\ \A r \in Dirs(e.rounds) : e.rounds[r] = turns[op.cut].rounds[r]
      BY <3>2, <3>4 DEF Dirs
    <3>9. \A k \in Dirs(turns') :
            /\ turns'[k].entry = turns[k].entry
            /\ \A r \in Dirs(turns'[k].rounds) :
                 r \in Dirs(turns[k].rounds) /\ turns'[k].rounds[r] = turns[k].rounds[r]
      BY <3>4, <3>7, <3>8
    <3>10. ASSUME NEW k \in Dirs(turns), NEW r \in Dirs(turns[k].rounds), Earlier(k, r, c, d)
           PROVE  r \in Dirs(turns'[k].rounds)
      <4>1. CASE k # op.cut
        BY <3>7, <4>1
      <4>2. CASE k = op.cut
        <5>1. r < op.round
          BY <1>2, <3>1, <3>10, <4>2 DEF Earlier
        <5>2. r # x[2]
          BY <1>2, <3>1, <3>3, <5>1 DEF RoundNo
        <5> QED BY <3>7, <3>8, <4>2, <5>2
      <4> QED BY <4>1, <4>2
    <3>11. Trimmed(turns, turns', op.cut, CutRound)
      BY <3>7, <3>9, <3>10 DEF Trimmed
    <3> QED BY <1>1, <1>2, <3>6, <3>11
  <2> QED BY <2>3, <2>4
<1> QED BY <1>3, <1>4

LEMMA MarksRewind ==
  ASSUME IInv, Marks, RewindStep
  PROVE  Marks'
<1>1. /\ op \in Op /\ turns \in TurnDirs /\ state \in States \cup {Missing} /\ None = 0
      /\ Cutting /\ Restoring /\ turn.pc = "idle" /\ turn = IdleTurn
      /\ op.kind \in {"turn", "round", "restore"}
  BY RewindGoes, RewindStepAlone DEF IInv, TypeOK, None, Numbered
<1>2. CASE Evict
  <2>1. op.pc = "evict" /\ op' = IdleOp
    BY <1>2, RewindOrder
  <2>2. CASE op.kind = "restore"
    <3>1. turn' = IdleTurn
      BY <1>1, <1>2, <2>2 DEF Evict
    <3> QED BY <1>1, <2>1, <3>1 DEF Marks, IdleTurn, IdleOp, InARound
  <2>3. CASE op.kind \in {"turn", "round"}
    <3>1. state.pending = Missing /\ state # Missing
      BY <1>1, <2>1, <2>3 DEF Marks, Cutting
    <3>2. state'.pending = Missing
      <4> DEFINE msg == op.read.messages[IndexOf(op.read.messages, op.at)]
      <4>1. state' \in {state, Append1(state, msg)} /\ msg \in Message
        BY <1>2, <2>1, <2>3, WhatIsRead DEF Evict
      <4> HIDE DEF msg
      <4> QED BY <1>1, <3>1, <4>1, Appended
    <3>3. turn'.pc \in {"stamped", "seeded"}
      BY <1>2, <2>3 DEF Evict, RoundAgain, IdleTurn
    <3> QED BY <2>1, <3>2, <3>3 DEF Marks, IdleOp, InARound
  <2> QED BY <1>1, <2>2, <2>3
<1>3. CASE ~Evict
  <2>1. /\ turn' = IdleTurn /\ op'.kind = op.kind /\ op'.cut = op.cut /\ op'.round = op.round
    BY <1>1, <1>3, RewindGoes, RewindStepAlone
  <2>2. ASSUME op.kind \in {"turn", "round"}, op'.pc \in {"unlink", "summary", "remove", "evict"}
        PROVE  state'.pending = Missing
    <3>0. state # Missing
      BY <1>1, <2>2 DEF Cutting
    <3>1. CASE Unmark
      BY <1>1, <3>0, <3>1 DEF Unmark, States
    <3>2. CASE Unlink \/ ResetSummary \/ RemoveOne \/ Removed
      <4>1. op.pc \in {"unlink", "summary", "remove"} /\ UNCHANGED state
        BY <3>2, RewindOrder
      <4> QED BY <2>2, <4>1 DEF Marks
    <3>3. ~(TakeCheckpoint \/ ReadSession \/ PersistCut \/ ClearOne \/ CopyOne \/ ApplyUpdates)
      BY <2>2, RewindOrder
    <3> QED BY <1>3, <3>1, <3>2, <3>3 DEF RewindStep
  <2>3. ASSUME op.kind = "round", op'.pc \in {"remove", "evict"},
               NEW r \in Dirs(turns'[op.cut].rounds)
        PROVE  r < op.round \/ <<"round", r>> \in op'.left
    <3>0. op.cut \in Dirs(turns) /\ turns[op.cut].rounds \in [RoundNo -> RoundDir \cup {Missing}]
      BY <1>1, <2>3, DirsType, TurnDirFields DEF IInv, Housed
    <3>1. CASE ResetSummary
      <4>1. r \in Dirs(turns[op.cut].rounds)
        BY <2>3, <3>1, CutFiles DEF Trimmed
      <4>2. op'.left = Doomed
        BY <1>1, <3>1 DEF ResetSummary, Op
      <4>3. r \in Nat /\ op.round \in Nat
        <5>1. op.round \in RoundNo
          BY <1>1, <2>3 DEF Cutting
        <5> QED BY <1>1, <3>0, <4>1, <5>1, Everywhere DEF RoundNo
      <4>4. op.round <= r => <<"round", r>> \in Doomed
        BY <2>3, <3>0, <4>1 DEF Doomed
      <4> QED BY <4>2, <4>3, <4>4
    <3>2. CASE RemoveOne
      <4>1. r \in Dirs(turns[op.cut].rounds) /\ op.pc = "remove"
        BY <2>3, <3>2, CutFiles, RewindOrder DEF Trimmed
      <4>2. r < op.round \/ <<"round", r>> \in op.left
        BY <2>3, <4>1 DEF Marks
      <4>3. PICK x \in op.left :
              /\ turns' = IF x[1] = "turn" THEN [turns EXCEPT ![x[2]] = Missing]
                          ELSE [turns EXCEPT ![op.cut].rounds[x[2]] = Missing]
              /\ op' = [op EXCEPT !.left = @ \ {x}]
        BY <3>2 DEF RemoveOne
      <4>4. op'.left = op.left \ {x}
        BY <1>1, <4>3 DEF Op
      <4>5. x # <<"round", r>>
        <5> SUFFICES ASSUME x = <<"round", r>> PROVE FALSE
          OBVIOUS
        <5> DEFINE e == [turns[op.cut] EXCEPT !.rounds = [@ EXCEPT ![r] = Missing]]
        <5>1. turns' = [turns EXCEPT ![op.cut] = e]
          BY <4>3
        <5>2. turns[op.cut] \in TurnDir /\ op.cut \in TurnNo /\ r \in RoundNo
          BY <1>1, <3>0, <4>1, DirsType, Everywhere
        <5>3. e.rounds[r] = Missing
          BY <3>0, <5>2 DEF TurnDir
        <5> HIDE DEF e
        <5>4. turns'[op.cut] = e
          BY <1>1, <5>1, <5>2 DEF TurnDirs
        <5> QED BY <2>3, <5>3, <5>4 DEF Dirs
      <4> QED BY <4>2, <4>4, <4>5
    <3>3. CASE Removed
      <4>1. op.pc = "remove" /\ op'.left = op.left /\ UNCHANGED turns
        BY <3>3, RewindOrder
      <4> QED BY <2>3, <4>1 DEF Marks
    <3>4. ~(TakeCheckpoint \/ ReadSession \/ PersistCut \/ Unmark \/ Unlink
            \/ ClearOne \/ CopyOne \/ ApplyUpdates)
      BY <2>3, RewindOrder
    <3> QED BY <1>3, <3>1, <3>2, <3>3, <3>4 DEF RewindStep
  <2> QED BY <2>1, <2>2, <2>3 DEF Marks, IdleTurn, InARound
<1> QED BY <1>2, <1>3

LEMMA MarksEvent ==
  ASSUME IInv, Marks, Event
  PROVE  Marks'
<1>1. CASE RestMessage \/ SetBackend \/ EndVendorSession
  <2>1. /\ UNCHANGED <<turns, blob, op>> /\ state'.pending = state.pending
        /\ turn'.n = turn.n /\ turn'.id = turn.id /\ turn'.r = turn.r
        /\ turn'.pc # turn.pc => turn'.pc = "exit" /\ turn.pc # "idle"
    <3>1. turn'.r = turn.r
      BY <1>1 DEF RestMessage, SetBackend, EndVendorSession, memVars, IInv, TypeOK, Turn
    <3> QED BY <1>1, <3>1, EventLoopSteps, LoopSays
  <2> QED BY <2>1 DEF Marks, InARound
<1>2. CASE Clicks
  <2>1. op'.pc = "checkpoint" /\ turn.pc = "idle" /\ UNCHANGED turn
    BY <1>2, ClickAlone DEF Clicks, TurnCut, RoundCut, Restore, IdleOp
  <2>2. turn = IdleTurn
    BY <2>1 DEF IInv, Numbered
  <2> QED BY <2>1, <2>2 DEF Marks, IdleTurn, InARound
<1>3. CASE Crash
  BY <1>3 DEF Crash, Marks, IdleTurn, IdleOp, InARound
<1> QED BY <1>1, <1>2, <1>3 DEF Event

\* A round that answered is whole.
LEMMA AnsweredIsWhole ==
  ASSUME IInv, Marks, FollowsOn, turn.pc \in InARound \ {"round"}
  PROVE  /\ turn.n \in Dirs(turns) /\ turn.r \in Int /\ InRound
         /\ Whole(turns, turn.n, turn.r)
<1>1. turn.n \in TurnNo /\ turn.r \in RoundNo /\ turn.id \in Id
  BY DEF IInv, Numbered
<1>2. InRound
  BY <1>1, BoundsAssumption DEF InRound, TurnNo, RoundNo, Id, None
<1>3. turn.n \in Dirs(turns) /\ turn.r \in Dirs(turns[turn.n].rounds)
  BY <1>2, HasDirectory DEF InRound
<1>4. Whole(turns, turn.n, turn.r - 1)
  BY <1>2 DEF FollowsOn
<1>5. turn.id \in turns[turn.n].rounds[turn.r].saved
  BY DEF Marks
<1>6. turn.r \in Nat /\ \A p \in 1..turn.r : p \in 1..(turn.r - 1) \/ p = turn.r
  BY <1>1 DEF RoundNo
<1> QED BY <1>2, <1>3, <1>4, <1>5, <1>6 DEF Whole

\* A turn is in the round it was in, unless one begins.
LEMMA RoundStays ==
  ASSUME IInv, TurnStep, InRound', ~BeginRound
  PROVE  InRound /\ turn'.n = turn.n /\ turn'.r = turn.r /\ turn'.id = turn.id
<1>1. /\ turn \in Turn /\ None = 0 /\ turn'.n # None /\ turn'.r > 0 /\ turn'.id # None
      /\ turn.n = None => turn.r = 0
  BY DEF IInv, TypeOK, None, InRound, Numbered
<1> DEFINE same == turn'.n = turn.n /\ turn'.r = turn.r /\ turn'.id = turn.id
<1>2. Send \/ Stamp \/ UnlinkBlob => same
  <2>1. ~Send
    BY <1>1 DEF Send, IdleTurn
  <2>2. ~Stamp
    <3>1. Stamp => turn.n = None /\ turn'.n = turn.n
      BY <1>1 DEF Stamp, At, IInv, Numbered, BeforeItBegins, Turn
    <3> QED BY <1>1, <3>1
  <2>3. UnlinkBlob => same
    BY <1>1 DEF UnlinkBlob, Go, Turn, IdleTurn
  <2> QED BY <2>1, <2>2, <2>3
<1>3. ~Seed
  <2>1. Seed => turn.n = None /\ turn'.r = turn.r
    BY <1>1 DEF Seed, At, IInv, Numbered, BeforeItBegins, Turn
  <2> QED BY <1>1, <2>1
<1>4. SaveRound \/ CommitBubble \/ Summarise \/ Tools \/ WriteBlob \/ WriteMarker \/ Answer
      \/ AnswerFromHub => same
  BY <1>1 DEF SaveRound, CommitBubble, Summarise, Tools, WriteBlob, WriteMarker, Answer,
     AnswerFromHub, Go, Turn
<1>5. Finish \/ Stop \/ StopEarly \/ Fail \/ FailEarly \/ SaveFailed \/ ReportFailure
      \/ LeaveFailed \/ StopReporting => same
  <2>1. Finish \/ Stop => \E clear : Leave(clear)
    BY DEF Finish, Stop
  <2>2. \A clear : Leave(clear) => turn' \in {[turn EXCEPT !.pc = "unlinkLast"], IdleTurn}
    BY DEF Leave
  <2>3. StopEarly \/ Fail \/ FailEarly \/ SaveFailed \/ ReportFailure \/ LeaveFailed \/ StopReporting =>
        turn' = IdleTurn \/ \E pc : turn' = [turn EXCEPT !.pc = pc]
    BY DEF StopEarly, Fail, FailEarly, SaveFailed, ReportFailure, LeaveFailed, StopReporting, Go
  <2>4. turn' # IdleTurn
    BY <1>1 DEF IdleTurn
  <2>5. (\E pc : turn' = [turn EXCEPT !.pc = pc]) => same
    BY <1>1 DEF Turn
  <2> QED BY <2>1, <2>2, <2>3, <2>4, <2>5
<1>6. ~RecoverWidget
  BY <1>1 DEF RecoverWidget, IdleTurn
<1>7. ExpireWidget => same
  BY DEF ExpireWidget, memVars
<1> QED BY <1>1, <1>2, <1>3, <1>4, <1>5, <1>6, <1>7 DEF TurnStep, InRound

\* A turn goes on after rounds that have their files.
LEMMA FollowsOnTurn ==
  ASSUME IInv, Marks, FollowsOn, TurnStep
  PROVE  FollowsOn'
<1>1. /\ state \in States /\ state' \in States /\ op.pc = "idle" /\ op' = op /\ turn \in Turn
      /\ None = 0 /\ op.kind = "none" /\ ~Replacing /\ state # Missing
      /\ turns \in TurnDirs /\ turns' \in TurnDirs /\ Grows(turns, turns')
  BY TurnStepAlone, TurnStepType, TurnFiles, Absent
     DEF IInv, TypeOK, FilesOK, None, Idle, Replacing
<1>2. \A k \in Dirs(turns) : k \in Dirs(turns')
                             /\ \A r \in Int : Whole(turns, k, r) => Whole(turns', k, r)
  BY <1>1, GrownFiles DEF Grows
<1>3. turn'.pc = "seeded" => Whole(turns', turn'.n, turn'.r)
  <2>1. CASE Seed
    <3>1. turn.n = None /\ turn'.r = turn.r
      BY <1>1, <2>1 DEF Seed, At, IInv, Numbered, BeforeItBegins, Turn
    <3>2. turn'.r = 0
      BY <1>1, <3>1 DEF IInv, Numbered
    <3> QED BY <3>2 DEF Whole
  <2>2. CASE Tools \/ AnswerFromHub \/ (UnlinkBlob /\ turn.pc = "unlink")
    <3>1. turn.pc \in InARound \ {"round"}
      BY <2>2 DEF Tools, AnswerFromHub, At, InARound
    <3>2. turn'.n = turn.n /\ turn'.r = turn.r
      BY <1>1, <2>2 DEF Tools, AnswerFromHub, UnlinkBlob, At, Go, Turn
    <3> QED BY <1>2, <3>1, <3>2, AnsweredIsWhole
  <2>3. CASE RecoverWidget
    <3>1. /\ state.pending # Missing /\ blob # Missing /\ UNCHANGED turns
          /\ turn'.n = state.pending.n /\ turn'.r = blob.r
      BY <1>1, <2>3 DEF RecoverWidget, diskVars, IdleTurn
    <3> QED BY <1>1, <3>1 DEF FollowsOn
  <2> QED BY <2>1, <2>2, <2>3, TurnCameFrom
<1>4. InRound' => Whole(turns', turn'.n, turn'.r - 1)
  <2> SUFFICES ASSUME InRound' PROVE Whole(turns', turn'.n, turn'.r - 1)
    OBVIOUS
  <2>1. CASE BeginRound
    <3>1. turn.pc = "seeded" /\ turn'.n = turn.n /\ turn'.r = turn.r + 1
      BY <1>1, <2>1 DEF BeginRound, At, Turn
    <3>2. turn.n # None /\ turn.r \in Nat
      BY <1>1, <3>1, BoundsAssumption DEF IInv, Numbered, TurnNo, RoundNo, Turn
    <3>3. turn.n \in Dirs(turns) /\ turn'.r - 1 = turn.r
      BY <3>1, <3>2, HasDirectory
    <3> QED BY <1>2, <3>1, <3>2, <3>3 DEF FollowsOn
  <2>2. CASE ~BeginRound
    <3>1. InRound /\ turn'.n = turn.n /\ turn'.r = turn.r
      BY <2>2, RoundStays
    <3>2. turn.n \in Dirs(turns) /\ turn.r - 1 \in Int
      BY <3>1, HasDirectory DEF InRound, RoundNo
    <3> QED BY <1>2, <3>1, <3>2 DEF FollowsOn
  <2> QED BY <2>1, <2>2
<1>5. ASSUME state'.pending # Missing, blob' # Missing
      PROVE  blob'.n = state'.pending.n /\ blob'.n \in Dirs(turns') /\ Whole(turns', blob'.n, blob'.r)
  <2>1. CASE WriteMarker
    <3>1. turn.pc = "marker" /\ blob' = blob
          /\ state'.pending = [widget |-> turn.id, n |-> turn.n, r |-> turn.r]
      BY <1>1, <2>1 DEF WriteMarker, At, States
    <3>2. blob = [widget |-> turn.id, n |-> turn.n, r |-> turn.r]
      BY <3>1 DEF Marks
    <3>3. turn.pc \in InARound \ {"round"}
      BY <3>1 DEF InARound
    <3> QED BY <1>2, <3>1, <3>2, <3>3, AnsweredIsWhole
  <2>2. CASE WriteBlob
    <3>1. turn.pc \in InARound \ {"round"} /\ UNCHANGED state
          /\ blob' = [widget |-> turn.id, n |-> turn.n, r |-> turn.r]
      BY <2>2 DEF WriteBlob, At, InARound
    <3>2. turn.n # None
      BY <3>1, AnsweredIsWhole DEF InRound
    <3>3. state.pending.n = turn.n
      BY <1>5, <3>1, <3>2 DEF Marks
    <3> QED BY <1>2, <3>1, <3>3, AnsweredIsWhole
  <2>3. CASE ~WriteMarker /\ ~WriteBlob
    <3>1. state'.pending = state.pending /\ blob' = blob
      BY <1>5, <2>3, TurnMarks, TurnBlob
    <3>2. blob.n = state.pending.n /\ blob.n \in Dirs(turns) /\ Whole(turns, blob.n, blob.r)
      BY <1>1, <1>5, <3>1 DEF FollowsOn
    <3>3. blob \in Widgets
      BY <1>5, <3>1 DEF IInv, TypeOK
    <3>4. blob.r \in Int
      BY <3>3 DEF Widgets, RoundNo
    <3> QED BY <1>2, <3>1, <3>2, <3>4
  <2> QED BY <2>1, <2>2, <2>3
<1> QED BY <1>1, <1>3, <1>4, <1>5 DEF FollowsOn

LEMMA FollowsOnRewind ==
  ASSUME IInv, Marks, FollowsOn, RewindStep
  PROVE  FollowsOn'
<1>1. /\ op \in Op /\ turns \in TurnDirs /\ state \in States \cup {Missing} /\ None = 0
      /\ Cutting /\ Restoring /\ Backed /\ turn = IdleTurn
      /\ op.kind \in {"turn", "round", "restore"}
  BY RewindGoes, RewindStepAlone DEF IInv, TypeOK, None, Numbered
<1>2. op'.kind = "round" => Whole(turns', op'.cut, op'.round - 1)
  <2> SUFFICES ASSUME op'.kind = "round"
               PROVE  Whole(turns', op'.cut, op'.round - 1)
    OBVIOUS
  <2>1. /\ ~Evict /\ op.kind = "round" /\ op'.cut = op.cut /\ op'.round = op.round
    BY RewindGoes DEF IdleOp
  <2>2. Whole(turns, op.cut, op.round - 1)
    BY <2>1 DEF FollowsOn
  <2>3. CASE RemoveOne \/ ResetSummary
    BY <2>1, <2>2, <2>3, CutFiles, TrimmedFiles
  <2>4. CASE UNCHANGED turns
    BY <2>1, <2>2, <2>4
  <2> QED BY <2>1, <2>3, <2>4, RewindOrder DEF RewindStep
<1>3. /\ turn'.pc = "seeded" => Whole(turns', turn'.n, turn'.r)
      /\ ~InRound'
  <2>1. CASE Evict /\ op.kind = "round"
    <3>1. UNCHANGED turns /\ turn'.n = op.cut /\ turn'.r = op.round - 1 /\ turn'.id = None
      BY <2>1, RewindOrder DEF Evict, RoundAgain, IdleTurn
    <3> QED BY <2>1, <3>1 DEF FollowsOn, InRound
  <2>2. CASE Evict /\ op.kind = "turn"
    BY <2>2 DEF Evict, IdleTurn, InRound
  <2>3. CASE turn' = IdleTurn
    BY <2>3 DEF IdleTurn, InRound
  <2>4. Evict /\ op.kind = "restore" => turn' = turn
    BY DEF Evict
  <2> QED BY <1>1, <2>1, <2>2, <2>3, <2>4, RewindStepAlone
<1>4. ASSUME state' # Missing, ~Replacing', state'.pending # Missing, blob' # Missing
      PROVE  blob'.n = state'.pending.n /\ blob'.n \in Dirs(turns') /\ Whole(turns', blob'.n, blob'.r)
  <2>1. CASE Evict
    <3>1. op.pc = "evict" /\ state # Missing /\ state.pending = Missing
      BY <1>1, <2>1, RewindOrder DEF Marks, Restoring, Cutting
    <3>2. state'.pending = Missing
      <4> DEFINE msg == op.read.messages[IndexOf(op.read.messages, op.at)]
      <4>1. \/ state' = state
            \/ op.kind = "turn" /\ state' = Append1(state, msg)
        BY <2>1 DEF Evict
      <4>2. op.kind = "turn" => msg \in Message
        BY <3>1, WhatIsRead
      <4> HIDE DEF msg
      <4> QED BY <1>1, <3>1, <4>1, <4>2, Appended
    <3> QED BY <1>4, <3>2
  <2>2. CASE ~Evict /\ op.kind = "restore"
    <3>1. op'.kind = "restore" /\ op'.pc \in {"evict", "checkpoint"}
      BY <1>4, <2>2, RewindGoes DEF Replacing
    <3>2. Unlink
      BY <1>1, <2>2, <3>1, RewindOrder DEF RewindStep
    <3>3. op.pc = "unlink" /\ UNCHANGED state
      BY <3>2, RewindOrder
    <3> QED BY <1>1, <1>4, <2>2, <3>3 DEF Restoring
  <2>3. CASE ~Evict /\ op.kind \in {"turn", "round"}
    <3>1. op'.kind = op.kind /\ state # Missing /\ ~Replacing
      BY <1>1, <2>3, RewindGoes DEF Cutting, Replacing
    <3>2. op'.pc \notin {"unlink", "summary", "remove", "evict"}
      BY <1>4, <2>3, <3>1, MarksRewind DEF Marks
    <3>3. TakeCheckpoint \/ ReadSession \/ PersistCut
      BY <1>1, <2>3, <3>2, RewindOrder DEF RewindStep
    <3>4. UNCHANGED <<turns, blob>> /\ state'.pending = state.pending
      <4>1. CASE TakeCheckpoint \/ ReadSession
        BY <4>1 DEF TakeCheckpoint, ReadSession, diskVars
      <4>2. CASE PersistCut
        <5>1. /\ op.read = state /\ state \in States /\ UNCHANGED <<turns, blob>>
              /\ state' = [op.read EXCEPT !.messages = Kept, !.sop = op.sop]
          BY <4>2, RewindOrder DEF PersistCut
        <5> QED BY <5>1 DEF States
      <4> QED BY <3>3, <4>1, <4>2
    <3> QED BY <1>4, <3>1, <3>4 DEF FollowsOn
  <2> QED BY <1>1, <2>1, <2>2, <2>3
<1> QED BY <1>2, <1>3, <1>4 DEF FollowsOn

LEMMA FollowsOnEvent ==
  ASSUME IInv, FollowsOn, Event, "restore" \notin flaws',
         Clicks /\ op'.kind = "round" => Whole(turns, op'.cut, op'.round - 1)
  PROVE  FollowsOn'
<1>1. CASE RestMessage \/ SetBackend \/ EndVendorSession
  <2>1. /\ UNCHANGED <<turns, blob, op>> /\ state'.pending = state.pending
        /\ turn'.n = turn.n /\ turn'.id = turn.id /\ turn'.r = turn.r /\ state \in States
        /\ turn'.pc # turn.pc => turn'.pc = "exit" /\ turn.pc # "idle"
    <3>1. turn'.r = turn.r
      BY <1>1 DEF RestMessage, SetBackend, EndVendorSession, memVars, IInv, TypeOK, Turn
    <3> QED BY <1>1, <3>1, EventLoopSteps, LoopSays
  <2>2. state # Missing
    BY <2>1, Absent
  <2> QED BY <2>1, <2>2 DEF FollowsOn, InRound, Replacing
<1>2. CASE Clicks
  <2>1. /\ op.pc = "idle" /\ turn.pc = "idle" /\ UNCHANGED <<turn, turns, blob>>
    BY <1>2, ClickAlone
  <2>2. turn = IdleTurn /\ op.kind = "none" /\ state \in States \cup {Missing}
    BY <2>1 DEF IInv, Numbered, Idle, TypeOK
  <2>3. state' # Missing => state # Missing /\ state'.pending = state.pending
    <3>1. CASE UNCHANGED state
      BY <3>1
    <3>2. CASE state # Missing /\ \E x : state' = [state EXCEPT !.record = x]
      BY <2>2, <3>2 DEF States
    <3> QED BY <1>2, <3>1, <3>2 DEF Clicks, TurnCut, RoundCut, Restore, diskVars
  <2>4. turn'.pc # "seeded" /\ ~InRound'
    BY <2>1, <2>2 DEF IdleTurn, InRound
  <2> QED BY <1>2, <2>1, <2>2, <2>3, <2>4 DEF FollowsOn, Replacing
<1>3. CASE Crash
  <2>1. /\ op' = IdleOp /\ turn' = IdleTurn /\ UNCHANGED <<state, turns, blob>>
        /\ ~(op.kind = "restore" /\ op.pc \in {"clear", "copy", "apply", "unmark", "unlink"})
    BY <1>3 DEF Crash, diskVars
  <2>2. ~Replacing
    BY <2>1 DEF IInv, Restoring, Replacing
  <2> QED BY <2>1, <2>2 DEF FollowsOn, IdleOp, IdleTurn, InRound
<1> QED BY <1>1, <1>2, <1>3 DEF Event

\* A restore that has copied everything has the turns of the checkpoint.
LEMMA RestoredTurns ==
  ASSUME IInv, Copied, op.kind = "restore", op.pc \in {"apply", "unmark", "unlink"}
  PROVE  /\ op.at \in DOMAIN checkpoints /\ Readable(op.at) /\ state # Missing
         /\ turns = checkpoints[op.at].turns /\ state.sop = checkpoints[op.at].state.sop
         /\ state.messages = checkpoints[op.at].state.messages
<1> DEFINE c == checkpoints[op.at]
<1>1. op.at \in DOMAIN checkpoints /\ Readable(op.at) /\ state # Missing
  BY DEF IInv, Restoring
<1>2. turns \in TurnDirs /\ c.turns \in TurnDirs
  BY <1>1, CheckpointHolds DEF IInv, TypeOK
<1>3. /\ Dirs(turns) = Dirs(c.turns) /\ \A k \in Dirs(turns) : turns[k] = c.turns[k]
      /\ state.sop = c.state.sop /\ state.messages = c.state.messages
  BY <1>1 DEF IInv, Level, PutBack, Copied
<1> HIDE DEF c
<1>4. \A k \in TurnNo : turns[k] = c.turns[k]
  BY <1>2, <1>3 DEF TurnDirs, Dirs
<1>5. turns = c.turns
  BY <1>2, <1>4 DEF TurnDirs
<1> QED BY <1>1, <1>3, <1>5 DEF c

\* When a truncation has removed all that it was to remove, nothing comes after its cut.
LEMMA NothingLater ==
  ASSUME IInv, Marks, Sound(flaws), op.kind \in {"turn", "round"}, op.pc = "remove", op.left = {},
         NEW k \in Dirs(turns)
  PROVE  /\ Earlier(k, 0, op.cut, CutRound)
         /\ \A r \in Dirs(turns[k].rounds) : Earlier(k, r, op.cut, CutRound)
<1>1. /\ turns \in TurnDirs /\ op \in Op /\ Cutting /\ CutInLine
  BY DEF IInv, Level, TypeOK
<1>2. Dirs(turns) = 1..LastKept
  BY <1>1 DEF CutInLine, LeftTurns
<1>3. /\ op.cut \in Nat /\ k \in Nat /\ LastKept \in Nat
      /\ op.kind = "turn" => LastKept = op.cut - 1
      /\ op.kind = "round" => LastKept = op.cut
  BY <1>1, CutNumbers, Everywhere
<1>4. CASE op.kind = "turn"
  BY <1>2, <1>3, <1>4 DEF Earlier
<1>5. CASE op.kind = "round"
  <2>1. CutRound = op.round /\ op.round \in Nat /\ op.round > 0
    BY <1>1, <1>5 DEF CutRound, Cutting, RoundNo
  <2>2. k = op.cut => \A r \in Dirs(turns[k].rounds) : r < op.round
    BY <1>5 DEF Marks
  <2> QED BY <1>2, <1>3, <1>5, <2>1, <2>2 DEF Earlier
<1> QED BY <1>4, <1>5

\* A round begins after one that has its files, and files are only added.
LEMMA SequenceTurn ==
  ASSUME IInv, InSequence, TurnStep, NoRerun(flaws) => FollowsOn
  PROVE  InSequence'
<1>1. /\ op.pc = "idle" /\ op' = op /\ checkpoints' = checkpoints /\ turn \in Turn /\ state \in States
      /\ turns \in TurnDirs /\ turns' \in TurnDirs /\ Grows(turns, turns') /\ state # Missing
  BY TurnStepAlone, TurnFiles, Absent DEF IInv, TypeOK
<1>2. NoRerun(flaws') => NoRerun(flaws)
  BY TurnNumber DEF NoRerun
<1>3. ASSUME NoRerun(flaws), NEW k \in Dirs(turns'), NEW r \in Dirs(turns'[k].rounds)
      PROVE  Whole(turns', k, r - 1)
  <2>1. CASE k \in Dirs(turns) /\ r \in Dirs(turns[k].rounds)
    <3>1. Whole(turns, k, r - 1) /\ r - 1 \in Int
      BY <1>1, <1>3, <2>1, Everywhere DEF InSequence, Outside, Gapless
    <3> QED BY <1>1, <2>1, <3>1, GrownFiles
  <2>2. CASE BeginRound /\ k = turn.n /\ r = turn.r + 1
    <3>1. turn.pc = "seeded"
      BY <2>2 DEF BeginRound, At
    <3>2. Whole(turns, turn.n, turn.r) /\ turn.n # None /\ turn.r \in Nat
      BY <1>1, <1>3, <3>1, BoundsAssumption
         DEF FollowsOn, IInv, Numbered, TurnNo, None, Turn, RoundNo
    <3>3. turn.n \in Dirs(turns) /\ r - 1 = turn.r
      BY <2>2, <3>2, HasDirectory
    <3> QED BY <1>1, <2>2, <3>2, <3>3, GrownFiles
  <2> QED BY <2>1, <2>2, TurnFiles
<1>4. ~Truncating'
  BY <1>1 DEF Truncating
<1> QED BY <1>1, <1>2, <1>3, <1>4 DEF InSequence, Gapless, Readable

LEMMA SequenceRewind ==
  ASSUME IInv, Marks, Copied, InSequence, RewindStep
  PROVE  InSequence'
<1>1. /\ op \in Op /\ turns \in TurnDirs /\ op.kind \in {"turn", "round", "restore"}
      /\ Cutting /\ Restoring /\ state \in States \cup {Missing}
  BY RewindGoes DEF IInv, TypeOK
<1>2. \A k \in DOMAIN checkpoints' :
        Readable(k)' /\ NoRerun(checkpoints'[k].flaws) => Gapless(checkpoints'[k].turns, EndOf, 0)
  <2>1. CASE UNCHANGED checkpoints
    BY <2>1 DEF InSequence, Readable
  <2>2. CASE TakeCheckpoint
    <3>1. op.pc = "checkpoint"
      BY <2>2 DEF TakeCheckpoint
    <3>2. NoRerun(flaws) /\ state # Missing => Gapless(turns, EndOf, 0)
      BY <3>1 DEF InSequence, Outside
    <3> QED BY <2>2, <3>2, CheckpointTaken DEF InSequence, Readable, NoRerun
  <2> QED BY <2>1, <2>2, RewindGoes
<1>3. SUFFICES ASSUME NoRerun(flaws'), state' # Missing
               PROVE  /\ Outside' => Gapless(turns', EndOf, 0)
                      /\ Truncating' => Gapless(turns', op'.cut, CutRound')
  BY <1>2 DEF InSequence
<1>4. NoRerun(flaws) /\ state # Missing =>
        /\ Outside => Gapless(turns, EndOf, 0)
        /\ Truncating => Gapless(turns, op.cut, CutRound)
  BY DEF InSequence
<1>5. CASE TakeCheckpoint \/ ReadSession \/ Evict
  <2>1. /\ Outside /\ UNCHANGED <<turns, flaws>> /\ state # Missing
    BY <1>1, <1>3, <1>5, RewindOrder DEF Outside, Cutting, Restoring
  <2>2. ~Truncating'
    BY <1>5, RewindOrder DEF Truncating, IdleOp
  <2> QED BY <1>3, <1>4, <2>1, <2>2
<1>6. CASE PersistCut
  <2>1. /\ Outside /\ ~Outside' /\ UNCHANGED turns /\ state # Missing
        /\ op'.cut = op.cut /\ CutRound' = CutRound
    BY <1>1, <1>6, RewindOrder, RewindGoes, Absent DEF Outside, CutRound, PersistCut
  <2>2. NoRerun(flaws)
    BY <1>3, <1>6 DEF PersistCut, NoRerun
  <2>3. Gapless(turns, op.cut, CutRound)
    BY <1>1, <1>4, <2>1, <2>2, Everywhere DEF Gapless
  <2> QED BY <2>1, <2>3
<1>7. CASE Unmark \/ (Unlink /\ op.kind # "restore") \/ ResetSummary \/ RemoveOne
  <2>1. /\ ~Outside' /\ UNCHANGED flaws /\ ~Evict
        /\ op.pc \in {"unmark", "unlink", "summary", "remove"}
    BY <1>1, <1>7, RewindOrder DEF Outside, Unlink
  <2>2. CASE op.kind = "restore"
    BY <2>1, <2>2, RewindGoes DEF Truncating
  <2>3. CASE op.kind # "restore"
    <3>1. Truncating /\ state # Missing /\ op'.cut = op.cut /\ CutRound' = CutRound
      BY <1>1, <2>1, <2>3, RewindGoes DEF Truncating, Cutting, CutRound
    <3>2. Gapless(turns, op.cut, CutRound)
      BY <1>3, <1>4, <2>1, <3>1
    <3>3. Gapless(turns', op.cut, CutRound)
      <4>1. CASE RemoveOne \/ ResetSummary
        BY <3>2, <4>1, CutFiles, TrimmedFiles
      <4>2. CASE UNCHANGED turns
        BY <3>2, <4>2
      <4> QED BY <1>7, <4>1, <4>2, RewindOrder
    <3> QED BY <2>1, <3>1, <3>3
  <2> QED BY <2>2, <2>3
<1>8. CASE Unlink /\ op.kind = "restore"
  <2>1. op.pc = "unlink" /\ UNCHANGED turns /\ checkpoints[op.at].flaws \subseteq flaws'
        /\ op'.kind = "restore"
    BY <1>8, RewindOrder, RewindGoes DEF Unlink, Evict
  <2>2. op.at \in DOMAIN checkpoints /\ Readable(op.at) /\ turns = checkpoints[op.at].turns
    BY <1>8, <2>1, RestoredTurns
  <2>3. Gapless(turns, EndOf, 0)
    BY <1>3, <2>1, <2>2 DEF InSequence, NoRerun
  <2> QED BY <2>1, <2>3 DEF Truncating
<1>9. CASE Removed
  <2>1. /\ op.pc = "remove" /\ op.kind \in {"turn", "round"} /\ op.left = {}
        /\ UNCHANGED <<state, turns, flaws>> /\ op'.pc = "evict"
    BY <1>1, <1>9, RewindOrder
  <2>2. Gapless(turns, op.cut, CutRound) /\ Sound(flaws)
    BY <1>3, <1>4, <2>1 DEF Truncating, NoRerun, Sound
  <2>3. Gapless(turns, EndOf, 0)
    BY <2>1, <2>2, NothingLater DEF Gapless
  <2> QED BY <2>1, <2>3 DEF Truncating
<1>10. CASE ClearOne \/ CopyOne \/ ApplyUpdates
  <2>1. op'.kind = "restore" /\ op'.pc \in {"clear", "copy", "apply", "unmark"}
    BY <1>10, RewindOrder, RewindGoes DEF Evict
  <2> QED BY <2>1 DEF Outside, Truncating
<1> QED BY <1>5, <1>6, <1>7, <1>8, <1>9, <1>10 DEF RewindStep

\* A crash of a truncation leaves its mark.
LEMMA CrashIsSeen ==
  ASSUME IInv, Crash, NoRerun(flaws')
  PROVE  /\ NoRerun(flaws) /\ Outside /\ op' = IdleOp /\ turn' = IdleTurn /\ live' = Missing
         /\ UNCHANGED <<state, turns, blob, checkpoints>>
<1>1. /\ op' = IdleOp /\ turn' = IdleTurn /\ live' = Missing
      /\ UNCHANGED <<state, turns, blob, checkpoints>> /\ flaws \subseteq flaws'
      /\ (op.kind # "restore" /\ op.pc \in {"unmark", "unlink", "summary", "remove"} =>
            "cut" \in flaws')
      /\ (op.kind = "restore" /\ op.pc \in {"clear", "copy", "apply", "unmark", "unlink"} =>
            "restore" \in flaws')
  BY DEF Crash, diskVars
<1>2. /\ NoRerun(flaws)
      /\ ~(op.kind # "restore" /\ op.pc \in {"unmark", "unlink", "summary", "remove"})
      /\ ~(op.kind = "restore" /\ op.pc \in {"clear", "copy", "apply", "unmark", "unlink"})
  BY <1>1 DEF NoRerun
<1>3. Idle /\ Cutting /\ Restoring /\ op \in Op
  BY DEF IInv, TypeOK
<1>4. Outside
  BY <1>2, <1>3, OpFields DEF Idle, Cutting, Restoring, Outside
<1> QED BY <1>1, <1>2, <1>4

LEMMA SequenceEvent ==
  ASSUME IInv, InSequence, Event
  PROVE  InSequence'
<1>1. CASE RestMessage \/ SetBackend \/ EndVendorSession
  <2>1. UNCHANGED <<turns, checkpoints, op, flaws>> /\ state # Missing
    BY <1>1, EventLoopSteps, LoopSays, Absent
       DEF RestMessage, SetBackend, EndVendorSession, diskVars, memVars
  <2> QED BY <2>1 DEF InSequence, Readable, Outside, Truncating, CutRound
<1>2. CASE Clicks
  <2>1. /\ op.pc = "idle" /\ op'.pc = "checkpoint" /\ UNCHANGED <<turns, checkpoints, flaws>>
    BY <1>2, ClickAlone DEF Clicks, TurnCut, RoundCut, Restore, IdleOp
  <2>2. state' # Missing => state # Missing
    BY <1>2 DEF Clicks, TurnCut, RoundCut, Restore, diskVars
  <2> QED BY <2>1, <2>2 DEF InSequence, Readable, Outside, Truncating
<1>3. CASE Crash
  <2>1. UNCHANGED <<turns, checkpoints, state>> /\ op' = IdleOp
    BY <1>3 DEF Crash, diskVars
  <2> QED BY <1>3, <2>1, CrashIsSeen DEF InSequence, Readable, Truncating, IdleOp
<1> QED BY <1>1, <1>2, <1>3 DEF Event

\* What a step of a turn does to the SOP: it is stored, loaded, and advanced by the
\* tools of a round that answered.
LEMMA SopStep ==
  ASSUME IInv, TurnStep
  PROVE  /\ state'.sop \in {state.sop, Sop}
         /\ live' \in {live, [sop |-> Sop]} \/ (Tools /\ live' = [sop |-> Sop \cup {turn.id}])
<1>1. state \in States
  BY TurnStepAlone
<1>2. live' \in {live, [sop |-> Sop]} \/ (Tools /\ live' = [sop |-> Sop \cup {turn.id}])
  BY DEF TurnStep, Send, Stamp, UnlinkBlob, Seed, BeginRound, SaveRound, CommitBubble,
     Summarise, Tools, WriteBlob, WriteMarker, Answer, AnswerFromHub, Finish, Stop, StopEarly,
     RecoverWidget, ExpireWidget, Fail, FailEarly, SaveFailed, ReportFailure, LeaveFailed,
     StopReporting, Loaded, memVars
<1>3. \A msg : Append1(state, msg).sop = state.sop
  BY <1>1 DEF Append1, States
<1>4. /\ \A x : [state EXCEPT !.pending = x].sop = state.sop
      /\ \A x : [state EXCEPT !.record = x].sop = state.sop
      /\ \A x : [state EXCEPT !.sop = x].sop = x
      /\ \A x, p : [state EXCEPT !.sop = x, !.pending = p].sop = x
  BY <1>1 DEF States
<1>5. \/ \E msg : state' = Append1(state, msg)
      \/ \E x : state' = [state EXCEPT !.pending = x]
      \/ \E x : state' = [state EXCEPT !.record = x]
      \/ state' = [state EXCEPT !.sop = Sop]
      \/ \E p : state' = [state EXCEPT !.sop = Sop, !.pending = p]
      \/ UNCHANGED state
  BY DEF TurnStep, Send, Stamp, UnlinkBlob, Seed, BeginRound, SaveRound, CommitBubble,
     Summarise, Tools, WriteBlob, WriteMarker, Answer, AnswerFromHub, Finish, Stop, StopEarly,
     RecoverWidget, ExpireWidget, Fail, FailEarly, SaveFailed, ReportFailure, LeaveFailed,
     StopReporting, Leave, diskVars
<1> QED BY <1>2, <1>3, <1>4, <1>5

\* The SOP the next turn works with.
LEMMA SopIsThere ==
  ASSUME OnRounds, NoRerun(flaws), op.pc = "idle", state # Missing
  PROVE  Sop \subseteq Rounds(turns)
BY DEF OnRounds, Outside, Sop

\* All rounds come before a turn that gets its directory ...
LEMMA AllBeforeTurn ==
  ASSUME IInv, NoRerun(flaws), op.pc = "idle", state # Missing
  PROVE  Rounds(turns) \subseteq Before(turns, NextTurn, 0)
<1>1. turns \in TurnDirs /\ Count(turns) \in Nat
  BY Counted DEF IInv, TypeOK
<1>2. Dirs(turns) = 1..Count(turns) /\ NextTurn = Count(turns) + 1
  BY DEF IInv, Level, Lined, InLine, NoRerun, Sound, NextTurn, Count
<1> SUFFICES ASSUME NEW x \in Rounds(turns) PROVE x \in Before(turns, NextTurn, 0)
  OBVIOUS
<1>3. PICK j \in Dirs(turns) : \E q \in Dirs(turns[j].rounds) : x \in turns[j].rounds[q].saved
  BY InBefore
<1>4. PICK q \in Dirs(turns[j].rounds) : x \in turns[j].rounds[q].saved
  BY <1>3
<1>5. Earlier(j, q, NextTurn, 0)
  BY <1>1, <1>2, <1>3 DEF Earlier
<1> QED BY <1>3, <1>4, <1>5, InBefore

\* ... and before a round that begins and is not run again.
LEMMA AllBeforeRound ==
  ASSUME IInv, InSequence, BeginRound, NoRerun(flaws'), state # Missing
  PROVE  Rounds(turns) \subseteq Before(turns, turn.n, turn.r + 1)
<1> DEFINE n == turn.n
           r == turn.r + 1
<1>1. /\ turns \in TurnDirs /\ Count(turns) \in Nat /\ turn.pc = "seeded" /\ turn \in Turn
      /\ TurnStep /\ op.pc = "idle"
  BY Counted, TurnStepAlone DEF IInv, TypeOK, BeginRound, At, TurnStep
<1>2. NoRerun(flaws)
  BY <1>1, TurnNumber DEF NoRerun
<1>3. n \in TurnNo /\ n # None /\ turn.r \in Nat /\ r \in RoundNo
  BY <1>1, BoundsAssumption DEF IInv, Numbered, TurnNo, None, BeginRound, Turn, RoundNo
<1>4. Dirs(turns) = 1..n
  BY <1>1, <1>2, <1>3 DEF IInv, Level, Lined, LastTurn, InLine, NoRerun, Sound
<1>5. ~(r \in Dirs(turns[n].rounds) /\ turns[n].rounds[r].saved # {})
  <2> SUFFICES ASSUME r \in Dirs(turns[n].rounds), turns[n].rounds[r].saved # {} PROVE FALSE
    OBVIOUS
  <2>1. turns[n].rounds[r] # Missing
    BY DEF Dirs
  <2>2. "rerun" \in flaws'
    BY <2>1 DEF BeginRound
  <2> QED BY <2>2 DEF NoRerun
<1> SUFFICES ASSUME NEW x \in Rounds(turns) PROVE x \in Before(turns, n, r)
  OBVIOUS
<1>6. PICK j \in Dirs(turns) : \E q \in Dirs(turns[j].rounds) : x \in turns[j].rounds[q].saved
  BY InBefore
<1>7. PICK q \in Dirs(turns[j].rounds) : x \in turns[j].rounds[q].saved
  BY <1>6
<1>8. j \in Nat /\ j <= n /\ n \in Nat /\ q \in Nat
  BY <1>1, <1>3, <1>4, <1>6, Everywhere DEF TurnNo
<1>9. j = n => q < r
  <2> SUFFICES ASSUME j = n, r <= q PROVE FALSE
    BY <1>3, <1>8
  <2>1. q # r
    BY <1>5, <1>7
  <2>2. Whole(turns, n, q - 1)
    BY <1>1, <1>2, <1>6, <1>7, Everywhere DEF InSequence, Outside, Gapless
  <2>3. r \in 1..(q - 1)
    BY <1>3, <1>8, <2>1
  <2> QED BY <1>5, <2>2, <2>3 DEF Whole
<1>10. Earlier(j, q, n, r)
  BY <1>8, <1>9 DEF Earlier
<1> QED BY <1>6, <1>7, <1>10, InBefore

LEMMA OnRoundsTurn ==
  ASSUME IInv, Marks, InSequence, OnRounds, TurnStep
  PROVE  OnRounds'
<1>1. /\ op.pc = "idle" /\ op' = op /\ checkpoints' = checkpoints /\ turn \in Turn /\ state \in States
      /\ turns \in TurnDirs /\ turns' \in TurnDirs /\ Grows(turns, turns') /\ state # Missing
      /\ op.kind = "none"
  BY TurnStepAlone, TurnFiles, Absent DEF IInv, TypeOK, Idle
<1>2. SUFFICES ASSUME NoRerun(flaws')
               PROVE  /\ Based(turns', EndOf, 0) /\ state'.sop \subseteq Rounds(turns')
                      /\ live' # Missing => live'.sop \subseteq Rounds(turns')
  BY <1>1 DEF OnRounds, Readable, Truncating
<1>3. NoRerun(flaws)
  BY <1>2, TurnNumber DEF NoRerun
<1>4. /\ Sop \subseteq Rounds(turns) /\ state.sop \subseteq Rounds(turns)
      /\ live # Missing => live.sop \subseteq Rounds(turns)
      /\ Based(turns, EndOf, 0)
  BY <1>1, <1>3, SopIsThere DEF OnRounds, Outside
<1>5. /\ Rounds(turns) \subseteq Rounds(turns')
      /\ \A k, r : Before(turns, k, r) \subseteq Before(turns', k, r)
  BY <1>1, GrownFiles
<1>6. ASSUME NEW k \in Dirs(turns') PROVE turns'[k].entry \subseteq Before(turns', k, 0)
  <2>1. CASE k \in Dirs(turns) /\ turns'[k].entry = turns[k].entry
    <3>1. turns[k].entry \subseteq Before(turns, k, 0)
      BY <1>1, <1>4, <2>1, Everywhere DEF Based
    <3> QED BY <1>5, <2>1, <3>1
  <2>2. CASE Seed /\ k = NextTurn /\ turns'[k].entry = Sop
    BY <1>1, <1>3, <1>4, <1>5, <2>2, AllBeforeTurn
  <2> QED BY <2>1, <2>2, TurnFiles
<1>7. ASSUME NEW k \in Dirs(turns'), NEW r \in Dirs(turns'[k].rounds)
      PROVE  turns'[k].rounds[r].entry \subseteq Before(turns', k, r)
  <2>1. CASE /\ k \in Dirs(turns) /\ r \in Dirs(turns[k].rounds)
             /\ turns'[k].rounds[r].entry = turns[k].rounds[r].entry
    <3>1. turns[k].rounds[r].entry \subseteq Before(turns, k, r)
      BY <1>1, <1>4, <2>1, Everywhere DEF Based
    <3> QED BY <1>5, <2>1, <3>1
  <2>2. CASE /\ BeginRound /\ k = turn.n /\ r = turn.r + 1
             /\ turns'[k].rounds[r].entry = Sop
    BY <1>1, <1>2, <1>4, <1>5, <2>2, AllBeforeRound
  <2> QED BY <2>1, <2>2, TurnFiles
<1>8. Based(turns', EndOf, 0)
  BY <1>6, <1>7 DEF Based
<1>9. live' # Missing => live'.sop \subseteq Rounds(turns')
  <2>1. CASE live' \in {live, [sop |-> Sop]}
    BY <1>4, <1>5, <2>1
  <2>2. CASE Tools /\ live' = [sop |-> Sop \cup {turn.id}]
    <3>1. turn.pc \in InARound \ {"round"} /\ UNCHANGED turns
      BY <2>2 DEF Tools, At, InARound
    <3>2. turn.n # None /\ turn.r > 0 /\ turn.id # None
      BY <3>1, BoundsAssumption DEF IInv, Numbered, TurnNo, RoundNo, Id, None
    <3>3. turn.n \in Dirs(turns) /\ turn.r \in Dirs(turns[turn.n].rounds)
          /\ turn.id \in turns[turn.n].rounds[turn.r].saved
      BY <3>1, <3>2, HasDirectory DEF Marks
    <3>4. turn.id \in Rounds(turns)
      BY <3>3, InBefore
    <3> QED BY <1>4, <2>2, <3>1, <3>4
  <2> QED BY <2>1, <2>2, SopStep
<1> QED BY <1>4, <1>5, <1>8, <1>9, SopStep

LEMMA OnRoundsRewind ==
  ASSUME IInv, Marks, Copied, OnRounds, RewindStep
  PROVE  OnRounds'
<1>1. /\ op \in Op /\ turns \in TurnDirs /\ op.kind \in {"turn", "round", "restore"}
      /\ Cutting /\ Restoring /\ state \in States \cup {Missing}
  BY RewindGoes DEF IInv, TypeOK
<1>2. \A k \in DOMAIN checkpoints' :
        Readable(k)' /\ NoRerun(checkpoints'[k].flaws) =>
        /\ Based(checkpoints'[k].turns, EndOf, 0)
        /\ checkpoints'[k].state.sop \subseteq Rounds(checkpoints'[k].turns)
  <2>1. CASE UNCHANGED checkpoints
    BY <2>1 DEF OnRounds, Readable
  <2>2. CASE TakeCheckpoint
    <3>1. op.pc = "checkpoint"
      BY <2>2 DEF TakeCheckpoint
    <3>2. NoRerun(flaws) /\ state # Missing =>
            Based(turns, EndOf, 0) /\ state.sop \subseteq Rounds(turns)
      BY <3>1 DEF OnRounds, Outside
    <3> QED BY <2>2, <3>2, CheckpointTaken DEF OnRounds, Readable, NoRerun
  <2> QED BY <2>1, <2>2, RewindGoes
<1>3. SUFFICES ASSUME NoRerun(flaws'), state' # Missing
               PROVE  /\ Outside' => Based(turns', EndOf, 0) /\ state'.sop \subseteq Rounds(turns')
                      /\ op'.pc \in {"idle", "checkpoint", "read", "persist"} /\ live' # Missing =>
                           live'.sop \subseteq Rounds(turns')
                      /\ op'.pc = "persist"
                           \/ (op'.kind = "round" /\ op'.pc \in {"checkpoint", "read"}) =>
                         op'.sop \subseteq Before(turns', op'.cut, CutRound')
                      /\ Truncating' => /\ Based(turns', op'.cut, CutRound')
                                        /\ state'.sop \subseteq Before(turns', op'.cut, CutRound')
  BY <1>2 DEF OnRounds
<1>4. NoRerun(flaws) /\ state # Missing =>
        /\ Outside => Based(turns, EndOf, 0) /\ state.sop \subseteq Rounds(turns)
        /\ op.pc \in {"idle", "checkpoint", "read", "persist"} /\ live # Missing =>
             live.sop \subseteq Rounds(turns)
        /\ op.pc = "persist" \/ (op.kind = "round" /\ op.pc \in {"checkpoint", "read"}) =>
             op.sop \subseteq Before(turns, op.cut, CutRound)
        /\ Truncating => /\ Based(turns, op.cut, CutRound)
                         /\ state.sop \subseteq Before(turns, op.cut, CutRound)
  BY DEF OnRounds
<1>5. CASE TakeCheckpoint
  <2>1. /\ Outside /\ op.pc = "checkpoint" /\ UNCHANGED <<state, turns, flaws, live>>
        /\ op'.pc = (IF op.kind = "restore" THEN "clear" ELSE "read") /\ op'.kind = op.kind
        /\ op'.sop = op.sop /\ op'.cut = op.cut /\ op'.round = op.round
    BY <1>1, <1>5 DEF Outside, TakeCheckpoint, Op
  <2>2. CutRound' = CutRound /\ ~Truncating'
    BY <2>1 DEF CutRound, Truncating
  <2> QED BY <1>3, <1>4, <2>1, <2>2
<1>6. CASE ReadSession
  <2>1. /\ Outside /\ op.pc = "read" /\ UNCHANGED <<state, turns, flaws, live>>
        /\ op'.pc = "persist" /\ op.kind # "restore" /\ op'.kind = op.kind
        /\ op'.cut = op.cut /\ op'.round = op.round
    BY <1>1, <1>6 DEF Outside, ReadSession, diskVars, Op, Restoring
  <2>2. op'.sop = IF op.kind = "round" THEN op.sop
                  ELSE IF op.cut \in Dirs(turns) THEN turns[op.cut].entry ELSE {}
    BY <1>1, <1>6 DEF ReadSession, Op
  <2>3. CutRound' = CutRound /\ ~Truncating'
    BY <2>1 DEF CutRound, Truncating
  <2>4. op.kind = "turn" /\ op.cut \in Dirs(turns) =>
          turns[op.cut].entry \subseteq Before(turns, op.cut, CutRound)
    BY <1>1, <1>3, <1>4, <2>1, Everywhere DEF Based, CutRound
  <2> QED BY <1>1, <1>3, <1>4, <2>1, <2>2, <2>3, <2>4
<1>7. CASE Evict
  <2>1. /\ op.pc = "evict" /\ op' = IdleOp /\ UNCHANGED <<turns, flaws>> /\ live' = Missing
        /\ state # Missing
    BY <1>1, <1>7, RewindOrder DEF Evict, Cutting, Restoring
  <2>2. state'.sop = state.sop
    <3> DEFINE msg == op.read.messages[IndexOf(op.read.messages, op.at)]
    <3>1. state' = state \/ state' = Append1(state, msg)
      BY <1>7 DEF Evict
    <3>2. Append1(state, msg).sop = state.sop
      BY <1>1, <2>1 DEF Append1, States
    <3> QED BY <3>1, <3>2
  <2> QED BY <1>3, <1>4, <2>1, <2>2 DEF Outside, Truncating, IdleOp
<1>8. CASE PersistCut
  <2>1. /\ Outside /\ op.pc = "persist" /\ op'.pc = "unmark" /\ UNCHANGED turns /\ op.read = state
        /\ state \in States /\ state # Missing /\ op'.cut = op.cut /\ CutRound' = CutRound
    BY <1>1, <1>8, RewindOrder, RewindGoes, Absent DEF Outside, CutRound, PersistCut
  <2>2. NoRerun(flaws)
    BY <1>3, <1>8 DEF PersistCut, NoRerun
  <2>3. state'.sop = op.sop
    BY <1>8, <2>1 DEF PersistCut, States
  <2>4. Based(turns, op.cut, CutRound)
    BY <1>1, <1>4, <2>1, <2>2, Everywhere DEF Based
  <2> QED BY <1>4, <2>1, <2>2, <2>3, <2>4 DEF Outside
<1>9. CASE Unmark \/ (Unlink /\ op.kind # "restore") \/ ResetSummary \/ RemoveOne
  <2>1. /\ op'.pc \in {"unlink", "remove", "summary"} /\ UNCHANGED flaws /\ ~Evict
        /\ op.pc \in {"unmark", "unlink", "summary", "remove"}
    BY <1>1, <1>9, RewindOrder DEF Unlink
  <2>2. CASE op.kind = "restore"
    BY <2>1, <2>2, RewindGoes DEF Truncating, Outside
  <2>3. CASE op.kind # "restore"
    <3>1. Truncating /\ state # Missing /\ op'.cut = op.cut /\ CutRound' = CutRound
      BY <1>1, <2>1, <2>3, RewindGoes DEF Truncating, Cutting, CutRound
    <3>2. /\ Based(turns, op.cut, CutRound)
          /\ state.sop \subseteq Before(turns, op.cut, CutRound)
      BY <1>3, <1>4, <2>1, <3>1
    <3>3. /\ Based(turns', op.cut, CutRound)
          /\ Before(turns, op.cut, CutRound) \subseteq Before(turns', op.cut, CutRound)
      <4>1. CASE RemoveOne \/ ResetSummary
        BY <3>2, <4>1, CutFiles, TrimmedFiles
      <4>2. CASE UNCHANGED turns
        BY <3>2, <4>2
      <4> QED BY <1>9, <4>1, <4>2, RewindOrder
    <3>4. state'.sop = state.sop
      <4>1. CASE Unmark
        BY <1>1, <3>1, <4>1 DEF Unmark, States
      <4>2. CASE UNCHANGED state
        BY <4>2
      <4> QED BY <1>9, <4>1, <4>2, RewindOrder
    <3> QED BY <2>1, <3>1, <3>2, <3>3, <3>4 DEF Outside
  <2> QED BY <2>2, <2>3
<1>10. CASE Unlink /\ op.kind = "restore"
  <2>1. /\ op.pc = "unlink" /\ UNCHANGED <<state, turns>> /\ checkpoints[op.at].flaws \subseteq flaws'
        /\ op'.kind = "restore" /\ op'.pc = "evict"
    BY <1>10, RewindOrder, RewindGoes DEF Unlink, Evict
  <2>2. /\ op.at \in DOMAIN checkpoints /\ Readable(op.at)
        /\ turns = checkpoints[op.at].turns /\ state.sop = checkpoints[op.at].state.sop
    BY <1>10, <2>1, RestoredTurns
  <2>3. Based(turns, EndOf, 0) /\ state.sop \subseteq Rounds(turns)
    BY <1>3, <2>1, <2>2 DEF OnRounds, NoRerun
  <2> QED BY <2>1, <2>3 DEF Truncating
<1>11. CASE Removed
  <2>1. /\ op.pc = "remove" /\ op.kind \in {"turn", "round"} /\ op.left = {}
        /\ UNCHANGED <<state, turns, flaws>> /\ op'.pc = "evict"
    BY <1>1, <1>11, RewindOrder
  <2>2. /\ Based(turns, op.cut, CutRound) /\ Sound(flaws)
        /\ state.sop \subseteq Before(turns, op.cut, CutRound)
    BY <1>3, <1>4, <2>1 DEF Truncating, NoRerun, Sound
  <2>3. Based(turns, EndOf, 0)
    BY <2>1, <2>2, NothingLater DEF Based
  <2>4. state.sop \subseteq Rounds(turns)
    BY <1>1, <2>2, Everywhere
  <2> QED BY <2>1, <2>3, <2>4 DEF Truncating
<1>12. CASE ClearOne \/ CopyOne \/ ApplyUpdates
  <2>1. op'.kind = "restore" /\ op'.pc \in {"clear", "copy", "apply", "unmark"}
    BY <1>12, RewindOrder, RewindGoes DEF Evict
  <2> QED BY <2>1 DEF Outside, Truncating
<1> QED BY <1>5, <1>6, <1>7, <1>8, <1>9, <1>10, <1>11, <1>12 DEF RewindStep

LEMMA OnRoundsEvent ==
  ASSUME IInv, OnRounds, Event
  PROVE  OnRounds'
<1>1. CASE RestMessage \/ SetBackend \/ EndVendorSession
  <2>1. UNCHANGED <<turns, checkpoints, op, flaws>> /\ state # Missing /\ state \in States
    BY <1>1, EventLoopSteps, LoopSays, Absent
       DEF RestMessage, SetBackend, EndVendorSession, diskVars, memVars
  <2>2. live' \in {live, Missing}
    BY <1>1 DEF RestMessage, SetBackend, EndVendorSession, memVars
  <2>3. state'.sop = state.sop
    <3>1. CASE RestMessage
      <4>1. \E msg : state' = Append1(state, msg)
        BY <3>1 DEF RestMessage
      <4> QED BY <2>1, <4>1 DEF Append1, States
    <3>2. CASE SetBackend \/ EndVendorSession
      BY <2>1, <3>2 DEF SetBackend, EndVendorSession, States
    <3> QED BY <1>1, <3>1, <3>2
  <2> QED BY <2>1, <2>2, <2>3 DEF OnRounds, Readable, Outside, Truncating, CutRound
<1>2. CASE Clicks
  <2>1. /\ op.pc = "idle" /\ op'.pc = "checkpoint" /\ UNCHANGED <<turns, checkpoints, flaws>>
        /\ turns \in TurnDirs /\ state \in States \cup {Missing}
    BY <1>2, ClickAlone DEF Clicks, TurnCut, RoundCut, Restore, IdleOp, IInv, TypeOK
  <2>2. live' \in {live, Missing}
    BY <1>2 DEF Clicks, TurnCut, RoundCut, Restore
  <2>3. state' # Missing => state # Missing /\ state'.sop = state.sop
    <3>1. CASE UNCHANGED state
      BY <3>1
    <3>2. CASE state # Missing /\ \E x : state' = [state EXCEPT !.record = x]
      BY <2>1, <3>2 DEF States
    <3> QED BY <1>2, <3>1, <3>2 DEF Clicks, TurnCut, RoundCut, Restore, diskVars
  <2>4. ASSUME NoRerun(flaws), state # Missing, op'.kind = "round"
        PROVE  op'.sop \subseteq Before(turns, op'.cut, CutRound')
    <3>1. PICK i \in DOMAIN state.messages : RoundCut(i)
      BY <1>2, <2>4 DEF Clicks, TurnCut, Restore, IdleOp
    <3> DEFINE msg == state.messages[i]
    <3>2. /\ msg.turn \in Dirs(turns) /\ msg.round \in Dirs(turns[msg.turn].rounds)
          /\ op'.cut = msg.turn /\ op'.round = msg.round
          /\ op'.sop = turns[msg.turn].rounds[msg.round].entry
      BY <3>1 DEF RoundCut, IdleOp
    <3>3. Based(turns, EndOf, 0)
      BY <2>1, <2>4 DEF OnRounds, Outside
    <3>4. turns[msg.turn].rounds[msg.round].entry \subseteq Before(turns, msg.turn, msg.round)
      BY <2>1, <3>2, <3>3, Everywhere DEF Based
    <3> HIDE DEF msg
    <3> QED BY <2>4, <3>2, <3>4 DEF CutRound
  <2> QED BY <2>1, <2>2, <2>3, <2>4 DEF OnRounds, Readable, Outside, Truncating
<1>3. CASE Crash
  <2>1. UNCHANGED <<turns, checkpoints, state>> /\ op' = IdleOp /\ live' = Missing
    BY <1>3 DEF Crash, diskVars
  <2> QED BY <1>3, <2>1, CrashIsSeen DEF OnRounds, Readable, Truncating, IdleOp
<1> QED BY <1>1, <1>2, <1>3 DEF Event

\* What a session lived through stays with it, until a restore ends and it has
\* lived through what its checkpoint has.
LEMMA FlawsStay ==
  ASSUME IInv, TurnStep \/ RewindStep \/ Event
  PROVE  flaws \subseteq flaws' \/ (RewindStep /\ Unlink /\ op.kind = "restore")
<1>1. TurnStep => flaws \subseteq flaws'
  BY TurnNumber
<1>2. RewindStep => flaws \subseteq flaws' \/ (Unlink /\ op.kind = "restore")
  BY RewindGoes DEF PersistCut, Unlink
<1>3. Event => flaws \subseteq flaws'
  <2>1. Clicks => flaws \subseteq flaws'
    BY ClickAlone
  <2>2. Crash => flaws \subseteq flaws'
    BY DEF Crash
  <2> QED BY <2>1, <2>2, LoopSays DEF Event
<1> QED BY <1>1, <1>2, <1>3

\* The rounds follow on at every step: after the last one of a restore there is no
\* round to speak of.
LEMMA FollowsOnStep ==
  ASSUME IInv, Marks, TurnStep \/ RewindStep \/ Event, "restore" \notin flaws',
         FollowsOn \/ (RewindStep /\ Unlink /\ op.kind = "restore"),
         Clicks /\ op'.kind = "round" => Whole(turns, op'.cut, op'.round - 1)
  PROVE  FollowsOn'
<1>1. CASE RewindStep /\ Unlink /\ op.kind = "restore"
  <2>1. op \in Op /\ Restoring /\ turn = IdleTurn /\ None = 0
    BY <1>1, RewindGoes, RewindStepAlone DEF IInv, TypeOK, None, Numbered
  <2>2. /\ op'.kind = "restore" /\ turn' = turn /\ state' = state /\ blob' = Missing
    BY <1>1, <2>1 DEF Unlink, Op
  <2>3. turn'.pc # "seeded" /\ ~InRound'
    BY <2>1, <2>2 DEF InRound, IdleTurn
  <2> QED BY <2>2, <2>3 DEF FollowsOn
<1>2. CASE FollowsOn
  BY <1>2, FollowsOnTurn, FollowsOnRewind, FollowsOnEvent
<1> QED BY <1>1, <1>2

\* A round that is cut at has its files before it: the rounds are in sequence.
LEMMA SopFollowsOn ==
  ASSUME IInv, SopInv, TurnStep \/ RewindStep \/ Event, NoRerun(flaws')
  PROVE  FollowsOn'
<1>1. FollowsOn \/ (RewindStep /\ Unlink /\ op.kind = "restore")
  BY FlawsStay DEF SopInv, NoRerun
<1>2. ASSUME Clicks, op'.kind = "round" PROVE Whole(turns, op'.cut, op'.round - 1)
  <2>1. /\ state # Missing /\ op.pc = "idle" /\ turns \in TurnDirs /\ NoRerun(flaws)
    BY <1>2, ClickAlone DEF Clicks, TurnCut, RoundCut, Restore, IdleOp, IInv, TypeOK, NoRerun
  <2>2. PICK i \in DOMAIN state.messages : RoundCut(i)
    BY <1>2 DEF Clicks, TurnCut, Restore, IdleOp
  <2> DEFINE msg == state.messages[i]
  <2>3. /\ msg.turn \in Dirs(turns) /\ msg.round \in Dirs(turns[msg.turn].rounds)
        /\ op'.cut = msg.turn /\ op'.round = msg.round
    BY <2>2 DEF RoundCut, IdleOp
  <2> HIDE DEF msg
  <2>4. Gapless(turns, EndOf, 0)
    BY <2>1 DEF SopInv, InSequence, Outside
  <2> QED BY <2>1, <2>3, <2>4, Everywhere DEF Gapless
<1> QED BY <1>1, <1>2, FollowsOnStep DEF SopInv, NoRerun

\* The SOP at every step.
LEMMA SopAlways == Spec => []SopInv
<1>1. Init => SopInv
  <2> SUFFICES ASSUME Init PROVE SopInv
    OBVIOUS
  <2>1. /\ op = IdleOp /\ turn = IdleTurn /\ checkpoints = <<>> /\ Dirs(turns) = {}
        /\ state.sop = {} /\ state.pending = Missing /\ live = Missing
    BY DEF Init, Dirs
  <2>2. Marks
    BY <2>1 DEF Marks, IdleOp, IdleTurn, InARound
  <2>3. FollowsOn
    BY <2>1 DEF FollowsOn, IdleOp, IdleTurn, InRound
  <2>4. InSequence
    BY <2>1 DEF InSequence, Gapless, IdleOp, Truncating
  <2>5. OnRounds
    BY <2>1 DEF OnRounds, Based, IdleOp, Truncating
  <2> QED BY <2>2, <2>3, <2>4, <2>5 DEF SopInv
<1>2. IInv /\ InSummary /\ SopInv /\ [Next]_vars => SopInv'
  <2>1. ASSUME IInv, InSummary, SopInv, TurnStep \/ RewindStep \/ Event PROVE SopInv'
    <3>1. NoRerun(flaws') => FollowsOn'
      BY <2>1, SopFollowsOn
    <3>2. CASE TurnStep
      BY <2>1, <3>1, <3>2, MarksTurn, SequenceTurn, OnRoundsTurn DEF SopInv
    <3>3. CASE RewindStep
      BY <2>1, <3>1, <3>3, MarksRewind, SequenceRewind, OnRoundsRewind DEF SopInv, InSummary
    <3>4. CASE Event
      BY <2>1, <3>1, <3>4, MarksEvent, SequenceEvent, OnRoundsEvent DEF SopInv
    <3> QED BY <2>1, <3>2, <3>3, <3>4
  <2>2. ASSUME SopInv, UNCHANGED vars PROVE SopInv'
    <3> USE DEF vars, diskVars, memVars, histVars
    <3>1. Marks'
      BY <2>2 DEF SopInv, Marks
    <3>2. (NoRerun(flaws) => FollowsOn)'
      BY <2>2 DEF SopInv, FollowsOn, InRound, Replacing
    <3>3. InSequence'
      BY <2>2 DEF SopInv, InSequence, Readable, Outside, Truncating, CutRound
    <3>4. OnRounds'
      BY <2>2 DEF SopInv, OnRounds, Readable, Outside, Truncating, CutRound
    <3> QED BY <3>1, <3>2, <3>3, <3>4 DEF SopInv
  <2> QED BY <2>1, <2>2, Steps
<1> QED BY <1>1, <1>2, Invariance, InSummaryAlways, PTL DEF Spec

\* The SOP, on disk and in memory, names only rounds whose files are there, whatever
\* was cut, restored or left by a crash, unless a round was run again in a
\* directory that a truncation had left.
THEOREM TheSopIsOfTheKept == Spec => []SopOfTheKept
<1>1. SopInv => SopOfTheKept
  <2> SUFFICES ASSUME SopInv, Settled, op.pc = "idle", "rerun" \notin flaws
               PROVE  state.sop \cup Sop \subseteq Rounds(turns)
    BY DEF SopOfTheKept
  <2>1. NoRerun(flaws) /\ state # Missing
    BY DEF Settled, NoRerun
  <2> QED BY <2>1, SopIsThere DEF SopInv, OnRounds, Outside
<1> QED BY <1>1, SopAlways, PTL

-----------------------------------------------------------------------------
(* The bubbles of the history and the files of their rounds.               *)

\* What a session may have lived through while its bubbles keep their files, and
\* while the history has a message of the human for every turn.
Trusted(f) == f \cap {"restore", "rerun", "gap"} = {} /\ ~({"cut", "guess"} \subseteq f)
Uncut(f) == f \subseteq {"guess", "behind"}

\* The messages of the human among the first i.
Users(ms, i) == Cardinality({j \in 1..i : ms[j].role = "user"})

\* Along the history the rounds of a turn grow, and the messages of the human
\* come after the bubbles of earlier turns.
Ascending(ms) ==
  \A i, j \in DOMAIN ms : i < j /\ ms[i].round # 0 =>
    /\ ms[j].round # 0 /\ ms[i].turn = ms[j].turn => ms[i].round < ms[j].round
    /\ ms[j].role = "user" /\ ms[j].turn # None => ms[i].turn < ms[j].turn

\* A bubble has its round's files, and those of the rounds before; each message
\* has the directories of the turns before its own.
HasFiles(m, t) ==
  /\ m.turn \in Dirs(t) /\ m.round \in Dirs(t[m.turn].rounds)
  /\ Whole(t, m.turn, m.round - 1)
  /\ m.role = "assistant" => m.id \in t[m.turn].rounds[m.round].saved
InFiles(ms, t) ==
  /\ Ordered(ms) /\ Ascending(ms)
  /\ \A i \in DOMAIN ms : /\ ms[i].round # 0 => HasFiles(ms[i], t) /\ ms[i].role # "user"
                          /\ 1..(ms[i].turn - 1) \subseteq Dirs(t)

\* The number of a turn is no more than the messages of the human up to it.
Begun(ms) == \A i \in DOMAIN ms : ms[i].turn <= Users(ms, i)
TurnsBegun(ms, t) ==
  Dirs(t) = 1..Count(t) /\ Count(t) <= Users(ms, Len(ms)) /\ Begun(ms)

\* What a message in the history is, field by field.
LEMMA MessageFields ==
  ASSUME NEW m \in Message
  PROVE  /\ m.turn \in Nat /\ m.round \in Nat /\ m.id \in Nat
         /\ m.turn \in TurnNo \/ m.turn = None
         /\ m.round \in RoundNo \/ m.round = 0
BY DEF Message, TurnNo, RoundNo, Id, None

\* Counting the messages of the human.
LEMMA CountUsers ==
  ASSUME NEW ms
  PROVE  /\ \A i \in Nat : Users(ms, i) \in Nat
         /\ \A i \in Nat : Users(ms, i + 1) = IF ms[i + 1].role = "user" THEN Users(ms, i) + 1
                                              ELSE Users(ms, i)
         /\ \A i, j \in Nat : i <= j => Users(ms, i) <= Users(ms, j)
<1> DEFINE U(i) == {j \in 1..i : ms[j].role = "user"}
<1>1. ASSUME NEW i \in Nat PROVE IsFiniteSet(U(i))
  <2>1. IsFiniteSet(1..i) /\ U(i) \subseteq 1..i
    BY FS_Interval
  <2> QED BY <2>1, FS_Subset
<1>2. ASSUME NEW i \in Nat PROVE Users(ms, i) \in Nat
  BY <1>1, FS_CardinalityType DEF Users
<1>3. ASSUME NEW i \in Nat
      PROVE  Users(ms, i + 1) = IF ms[i + 1].role = "user" THEN Users(ms, i) + 1
                                ELSE Users(ms, i)
  <2>1. CASE ms[i + 1].role = "user"
    <3>1. U(i + 1) = U(i) \cup {i + 1} /\ i + 1 \notin U(i)
      BY <2>1
    <3> QED BY <1>1, <2>1, <3>1, FS_AddElement DEF Users
  <2>2. CASE ms[i + 1].role # "user"
    <3>1. U(i + 1) = U(i)
      BY <2>2
    <3> QED BY <2>2, <3>1 DEF Users
  <2> QED BY <2>1, <2>2
<1>4. ASSUME NEW i \in Nat, NEW j \in Nat, i <= j PROVE Users(ms, i) <= Users(ms, j)
  <2>1. U(i) \subseteq U(j)
    BY <1>4
  <2> QED BY <1>1, <2>1, FS_Subset DEF Users
<1> QED BY <1>2, <1>3, <1>4

\* The count over a prefix is that over the whole.
LEMMA SameUsers ==
  ASSUME NEW ms, NEW us, NEW n \in Nat, \A i \in 1..n : us[i] = ms[i]
  PROVE  \A i \in 0..n : Users(us, i) = Users(ms, i)
<1> SUFFICES ASSUME NEW i \in 0..n PROVE Users(us, i) = Users(ms, i)
  OBVIOUS
<1>1. \A j \in 1..i : us[j] = ms[j]
  OBVIOUS
<1>2. {j \in 1..i : us[j].role = "user"} = {j \in 1..i : ms[j].role = "user"}
  BY <1>1
<1> QED BY <1>2 DEF Users

\* A message more.
LEMMA OneMore ==
  ASSUME NEW ms \in Seq(Message), NEW m \in Message
  PROVE  LET us == Append(ms, m)
         IN  /\ us \in Seq(Message) /\ Len(us) = Len(ms) + 1 /\ Len(ms) \in Nat
             /\ DOMAIN us = 1..(Len(ms) + 1) /\ DOMAIN ms = 1..Len(ms)
             /\ \A i \in DOMAIN ms : us[i] = ms[i] /\ Users(us, i) = Users(ms, i)
             /\ us[Len(ms) + 1] = m
             /\ Users(us, Len(us)) = IF m.role = "user" THEN Users(ms, Len(ms)) + 1
                                     ELSE Users(ms, Len(ms))
<1> DEFINE us == Append(ms, m)
<1>1. /\ us \in Seq(Message) /\ Len(us) = Len(ms) + 1 /\ Len(ms) \in Nat
      /\ DOMAIN us = 1..(Len(ms) + 1) /\ DOMAIN ms = 1..Len(ms)
      /\ \A i \in 1..Len(ms) : us[i] = ms[i]
      /\ us[Len(ms) + 1] = m
  BY AppendProperties, LenProperties
<1> HIDE DEF us
<1>2. \A i \in 0..Len(ms) : Users(us, i) = Users(ms, i)
  BY <1>1, SameUsers
<1>3. Users(us, Len(ms) + 1) = IF m.role = "user" THEN Users(us, Len(ms)) + 1
                               ELSE Users(us, Len(ms))
  BY <1>1, CountUsers
<1> QED BY <1>1, <1>2, <1>3 DEF us

\* A prefix of the history.
LEMMA FewerMessages ==
  ASSUME NEW ms \in Seq(Message), NEW n \in Nat, n <= Len(ms)
  PROVE  LET us == SubSeq(ms, 1, n)
         IN  /\ us \in Seq(Message) /\ Len(us) = n /\ DOMAIN us = 1..n /\ DOMAIN ms = 1..Len(ms)
             /\ \A i \in 1..n : i \in DOMAIN ms /\ us[i] = ms[i] /\ Users(us, i) = Users(ms, i)
             /\ Users(us, n) = Users(ms, n)
<1> DEFINE us == SubSeq(ms, 1, n)
<1>1. Len(ms) \in Nat /\ DOMAIN ms = 1..Len(ms)
  BY LenProperties
<1>2. /\ us \in Seq(Message) /\ Len(us) = n /\ DOMAIN us = 1..n
      /\ \A i \in 1..n : us[i] = ms[i]
  BY <1>1, SubSeqProperties
<1> HIDE DEF us
<1>3. \A i \in 0..n : Users(us, i) = Users(ms, i)
  BY <1>2, SameUsers
<1> QED BY <1>1, <1>2, <1>3 DEF us

\* Files that grow keep the history.
LEMMA InGrownFiles ==
  ASSUME NEW t \in TurnDirs, NEW u \in TurnDirs, Grows(t, u), NEW ms \in Seq(Message)
  PROVE  /\ \A i \in DOMAIN ms : HasFiles(ms[i], t) => HasFiles(ms[i], u)
         /\ Dirs(t) \subseteq Dirs(u)
         /\ InFiles(ms, t) => InFiles(ms, u)
<1>1. ASSUME NEW i \in DOMAIN ms, HasFiles(ms[i], t) PROVE HasFiles(ms[i], u)
  <2> DEFINE m == ms[i]
  <2>1. m \in Message
    BY ElementOfSeq
  <2> HIDE DEF m
  <2>2. m.turn \in Dirs(t) /\ m.round \in Dirs(t[m.turn].rounds) /\ Whole(t, m.turn, m.round - 1)
        /\ (m.role = "assistant" => m.id \in t[m.turn].rounds[m.round].saved)
    BY <1>1 DEF HasFiles, m
  <2>3. m.turn \in Dirs(u) /\ m.round \in Dirs(u[m.turn].rounds)
        /\ (m.role = "assistant" => m.id \in u[m.turn].rounds[m.round].saved)
    BY <2>2 DEF Grows
  <2>4. m.round - 1 \in Int
    BY <2>1, MessageFields
  <2>5. Whole(u, m.turn, m.round - 1)
    BY <2>2, <2>4, GrownFiles
  <2> QED BY <2>3, <2>5 DEF HasFiles, m
<1>2. Dirs(t) \subseteq Dirs(u)
  BY DEF Grows
<1>3. InFiles(ms, t) => InFiles(ms, u)
  BY <1>1, <1>2 DEF InFiles
<1> QED BY <1>1, <1>2, <1>3

\* So does a truncation that cut the history first.
LEMMA InTrimmedFiles ==
  ASSUME NEW t \in TurnDirs, NEW u \in TurnDirs, NEW c \in Nat, NEW d \in Nat, c > 0,
         Trimmed(t, u, c, d), NEW ms \in Seq(Message), InFiles(ms, t), UpTo(ms, c),
         \A i \in DOMAIN ms : ms[i].round # 0 => Earlier(ms[i].turn, ms[i].round, c, d)
  PROVE  InFiles(ms, u)
<1>1. ASSUME NEW i \in DOMAIN ms, ms[i].round # 0 PROVE HasFiles(ms[i], u)
  <2> DEFINE m == ms[i]
  <2>1. m \in Message /\ HasFiles(m, t) /\ Earlier(m.turn, m.round, c, d)
    BY <1>1, ElementOfSeq DEF InFiles
  <2> HIDE DEF m
  <2>2. /\ m.turn \in Dirs(t) /\ m.round \in Dirs(t[m.turn].rounds)
        /\ Whole(t, m.turn, m.round - 1)
        /\ m.role = "assistant" => m.id \in t[m.turn].rounds[m.round].saved
    BY <2>1 DEF HasFiles
  <2>3. m.turn \in Nat /\ m.round \in Nat /\ m.round > 0
    BY <2>2, Everywhere
  <2>4. m.turn < c \/ (m.turn = c /\ d > 0)
    BY <2>1, <2>3 DEF Earlier
  <2>5. m.turn \in Dirs(u) /\ m.round \in Dirs(u[m.turn].rounds)
    BY <2>1, <2>2, <2>4 DEF Trimmed
  <2>6. u[m.turn].rounds[m.round] = t[m.turn].rounds[m.round]
    BY <2>5 DEF Trimmed
  <2>7. Whole(u, m.turn, m.round - 1)
    BY <2>1, <2>2, <2>3, TrimmedFiles
  <2> QED BY <2>2, <2>5, <2>6, <2>7 DEF HasFiles, m
<1>2. ASSUME NEW i \in DOMAIN ms PROVE 1..(ms[i].turn - 1) \subseteq Dirs(u)
  <2>1. ms[i].turn \in Nat /\ ms[i].turn <= c /\ 1..(ms[i].turn - 1) \subseteq Dirs(t)
    BY Stamps DEF UpTo, InFiles
  <2> SUFFICES ASSUME NEW k \in 1..(ms[i].turn - 1) PROVE k \in Dirs(u)
    OBVIOUS
  <2>2. k \in Dirs(t) /\ k < c
    BY <2>1
  <2> QED BY <2>2 DEF Trimmed
<1> QED BY <1>1, <1>2 DEF InFiles

\* So does a message more that has its files and comes after the rest.
LEMMA InFilesAppended ==
  ASSUME NEW s \in States, NEW m \in Message, NEW t \in TurnDirs, InFiles(s.messages, t),
         m.turn # None => UpTo(s.messages, m.turn),
         1..(m.turn - 1) \subseteq Dirs(t),
         m.round # 0 =>
           /\ HasFiles(m, t) /\ m.role # "user"
           /\ \A i \in DOMAIN s.messages :
                s.messages[i].round # 0 /\ s.messages[i].turn = m.turn =>
                s.messages[i].round < m.round \/ s.messages[i].id = m.id,
         m.role = "user" /\ m.turn # None =>
           \A i \in DOMAIN s.messages : s.messages[i].round # 0 => s.messages[i].turn < m.turn
  PROVE  InFiles(Append1(s, m).messages, t)
<1> DEFINE ms == s.messages
           us == Append(ms, m)
<1>1. ms \in Seq(Message)
  BY StateFields
<1>2. Append1(s, m).messages = IF m.id \in IdsOf(ms) THEN ms ELSE us
  BY DEF Append1, States
<1>3. CASE m.id \in IdsOf(ms)
  BY <1>2, <1>3
<1>4. CASE m.id \notin IdsOf(ms)
  <2>1. /\ Len(ms) \in Nat /\ DOMAIN ms = 1..Len(ms) /\ DOMAIN us = 1..(Len(ms) + 1)
        /\ \A i \in DOMAIN ms : us[i] = ms[i]
        /\ us[Len(ms) + 1] = m
    BY <1>1, OneMore
  <2>2. \A i \in DOMAIN us : i \in DOMAIN ms \/ (i = Len(ms) + 1 /\ us[i] = m)
    BY <2>1
  <2>3. Ordered(us)
    <3>1. Ordered(ms)
      BY DEF InFiles
    <3> QED BY <1>2, <1>4, <3>1, AddedInOrder
  <2>4. \A i \in DOMAIN ms : ms[i].id # m.id
    BY <1>4 DEF IdsOf
  <2> HIDE DEF ms, us
  <2>5. Ascending(us)
    <3> SUFFICES ASSUME NEW i \in DOMAIN us, NEW j \in DOMAIN us, i < j, us[i].round # 0
                 PROVE  /\ us[j].round # 0 /\ us[i].turn = us[j].turn => us[i].round < us[j].round
                        /\ us[j].role = "user" /\ us[j].turn # None => us[i].turn < us[j].turn
      BY DEF Ascending
    <3>1. i \in DOMAIN ms /\ us[i] = ms[i]
      BY <2>1
    <3>2. CASE j \in DOMAIN ms
      BY <2>1, <3>1, <3>2 DEF InFiles, Ascending, ms
    <3>3. CASE us[j] = m
      BY <2>4, <3>1, <3>3 DEF ms
    <3> QED BY <2>2, <3>2, <3>3
  <2>6. \A i \in DOMAIN us : /\ us[i].round # 0 => HasFiles(us[i], t) /\ us[i].role # "user"
                             /\ 1..(us[i].turn - 1) \subseteq Dirs(t)
    BY <2>1, <2>2 DEF InFiles, ms
  <2> QED BY <1>2, <1>4, <2>3, <2>5, <2>6 DEF InFiles, ms, us
<1> QED BY <1>3, <1>4

\* And a history that is cut.
LEMMA InFilesCut ==
  ASSUME NEW ms \in Seq(Message), NEW n \in Nat, n <= Len(ms), NEW t, InFiles(ms, t)
  PROVE  InFiles(SubSeq(ms, 1, n), t)
<1> DEFINE us == SubSeq(ms, 1, n)
<1>1. /\ us \in Seq(Message) /\ DOMAIN us = 1..n
      /\ \A i \in DOMAIN us : i \in DOMAIN ms /\ us[i] = ms[i]
  BY FewerMessages
<1> HIDE DEF us
<1>2. Ordered(us)
  BY <1>1, PrefixInOrder DEF InFiles
<1>3. Ascending(us)
  BY <1>1 DEF InFiles, Ascending
<1> QED BY <1>1, <1>2, <1>3 DEF InFiles, us

\* Directories below each of which none is missing are numbered without a gap.
LEMMA Segment ==
  ASSUME NEW t \in TurnDirs, \A k \in Dirs(t) : 1..k \subseteq Dirs(t)
  PROVE  Dirs(t) = 1..Count(t)
<1> DEFINE W == {m \in Nat : m + 1 \notin Dirs(t)}
<1>1. \A k \in Dirs(t) : k \in Nat /\ k > 0 /\ k <= MaxTurn
  BY DirsType DEF TurnNo
<1>2. MaxTurn \in W
  BY <1>1, BoundsAssumption
<1>3. PICK m \in W : \A j \in W : m <= j
  <2>1. W \subseteq Nat /\ W # {}
    BY <1>2
  <2> HIDE DEF W
  <2> DEFINE Less == {ss \in Nat \X Nat : ss[1] < ss[2]}
  <2>2. IsWellFoundedOn(Less, Nat)
    <3>1. Less = OpToRel(<, Nat)
      BY DEF OpToRel
    <3> QED BY <3>1, NatLessThanWellFounded
  <2>3. PICK m \in W : \A j \in W : ~ (<<j, m>> \in Less)
    BY <2>1, <2>2, WFMin
  <2>4. ASSUME NEW j \in W PROVE m <= j
    <3>1. m \in Nat /\ j \in Nat /\ ~ (<<j, m>> \in Less)
      BY <2>1, <2>3
    <3> QED BY <3>1
  <2> QED BY <2>4
<1>4. Dirs(t) = 1..m
  <2>1. ASSUME NEW k \in Dirs(t) PROVE k \in 1..m
    <3> SUFFICES ASSUME m + 1 <= k PROVE FALSE
      BY <1>1
    <3>1. m + 1 \in 1..k
      BY <1>1
    <3> QED BY <1>3, <3>1
  <2>2. ASSUME NEW k \in 1..m PROVE k \in Dirs(t)
    <3>1. k - 1 \in Nat /\ k - 1 < m
      OBVIOUS
    <3>2. k - 1 \notin W
      BY <1>3, <3>1
    <3> QED BY <3>1, <3>2
  <2> QED BY <2>1, <2>2
<1> QED BY <1>4, Counted

\* The message a truncation goes back to is a human's, or the bubble of the round
\* it cuts; a human's stays, to be run again.
ClickedAt ==
  op.kind \in {"turn", "round"} =>
  /\ op.pc \in {"checkpoint", "read", "persist"} =>
       \A i \in DOMAIN state.messages : state.messages[i].id = op.at =>
         IF op.kind = "turn"
         THEN /\ state.messages[i].role = "user"
              /\ state.messages[i].turn = None => op.cut = Users(state.messages, i - 1) + 1
         ELSE state.messages[i].role # "user" /\ state.messages[i].round = op.round
  /\ op.kind = "turn" => op.at \in IdsOf(state.messages)

\* While a truncation removes directories, the history ends before them.
InTheCut ==
  op.kind \in {"turn", "round"} /\ (Truncating \/ op.pc = "evict") =>
  LET ms == state.messages
  IN  /\ UpTo(ms, op.cut)
      /\ \A i \in DOMAIN ms :
           ms[i].round # 0 => Earlier(ms[i].turn, ms[i].round, op.cut, CutRound)
      /\ \A k \in Dirs(turns) : k <= LastKept => 1..k \subseteq Dirs(turns)
      /\ op.pc \in {"remove", "evict"} => \A k \in Dirs(turns) : k <= LastKept \/ k \in LeftTurns
      /\ op.pc = "evict" => op.left = {}
      /\ Uncut(flaws) => op.cut <= Users(ms, Len(ms)) /\ Begun(ms)

\* The turn that runs, and the one whose widget waits, is the last of the history,
\* and so is the round; a turn that is to begin has a number of its own.
ItsBubbles ==
  LET ms == state.messages
  IN  /\ state.pending # Missing =>
           UpTo(ms, state.pending.n) /\ 1..state.pending.n \subseteq Dirs(turns)
      /\ turn.n # None => UpTo(ms, turn.n) /\ 1..turn.n \subseteq Dirs(turns)
      /\ turn.n = None /\ turn.pc \in {"stamped", "failed", "reporting"} =>
           /\ Dirs(turns) = 1..Count(turns)
           /\ Uncut(flaws) => Count(turns) + 1 <= Users(ms, Len(ms))
      /\ InRound => \A i \in DOMAIN ms :
           ms[i].round # 0 /\ ms[i].turn = turn.n => ms[i].round < turn.r \/ ms[i].id = turn.id

\* Every bubble has its files, in the checkpoints and in the session, also after a
\* crash in a truncation.
KeptBubbles ==
  \A k \in DOMAIN checkpoints :
    LET c == checkpoints[k]
    IN  Readable(k) /\ Trusted(c.flaws) =>
        /\ InFiles(c.state.messages, c.turns)
        /\ Uncut(c.flaws) => TurnsBegun(c.state.messages, c.turns)
Bubbles ==
  Trusted(flaws) /\ state # Missing /\ (Outside \/ Truncating) =>
  /\ InFiles(state.messages, turns)
  /\ Outside /\ Uncut(flaws) => TurnsBegun(state.messages, turns)
  /\ InTheCut /\ ItsBubbles

BubbleInv == KeptBubbles /\ ClickedAt /\ (Trusted(flaws) => FollowsOn) /\ Bubbles

\* Who knows a session that can be trusted ends up in one only from there.
LEMMA TrustedBefore ==
  ASSUME NEW f, NEW g, f \subseteq g
  PROVE  (Trusted(g) => Trusted(f)) /\ (Uncut(g) => Uncut(f))
BY DEF Trusted, Uncut

\* A turn with no number that waits or reports was just stamped, or stays so.
LEMMA StaysUnnumbered ==
  ASSUME IInv, TurnStep, turn'.n = None, turn'.pc \in {"stamped", "failed", "reporting"}
  PROVE  \/ Stamp
         \/ /\ turn.n = None /\ turn.pc \in {"stamped", "failed", "reporting"}
            /\ state'.messages = state.messages /\ UNCHANGED turns
<1>1. turn \in Turn /\ state \in States
  BY TurnStepAlone DEF IInv, TypeOK
<1> USE DEF Go, Turn, At
<1>2. CASE Stamp
  BY <1>2
<1>3. ~(Seed \/ BeginRound \/ SaveRound \/ CommitBubble \/ Summarise \/ Tools \/ WriteBlob
        \/ WriteMarker \/ Answer \/ AnswerFromHub \/ RecoverWidget)
  <2>1. ~(Seed \/ BeginRound \/ SaveRound \/ CommitBubble \/ Summarise)
    BY <1>1 DEF Seed, BeginRound, SaveRound, CommitBubble, Summarise
  <2>2. ~(Tools \/ WriteBlob \/ WriteMarker \/ Answer \/ AnswerFromHub \/ RecoverWidget)
    BY <1>1 DEF Tools, WriteBlob, WriteMarker, Answer, AnswerFromHub, RecoverWidget, IdleTurn
  <2> QED BY <2>1, <2>2
<1>4. ~(Send \/ UnlinkBlob \/ StopEarly \/ ExpireWidget \/ StopReporting \/ ReportFailure
        \/ LeaveFailed)
  BY <1>1 DEF Send, UnlinkBlob, StopEarly, ExpireWidget, StopReporting, ReportFailure,
     LeaveFailed, IdleTurn, memVars, Quiet
<1>5. ~(Finish \/ Stop)
  <2>1. \A clear : ~Leave(clear)
    BY <1>1 DEF Leave, IdleTurn
  <2> QED BY <2>1 DEF Finish, Stop
<1>6. ~Fail
  <2>1. Fail => turn.pc \in Stoppable /\ turn'.n = turn.n
    BY <1>1 DEF Fail
  <2>2. turn.pc \in Stoppable => turn.n # None
    BY BoundsAssumption DEF Stoppable, IInv, Numbered, InARound, TurnNo, None
  <2> QED BY <2>1, <2>2
<1>7. CASE FailEarly
  BY <1>1, <1>7 DEF FailEarly, diskVars
<1>8. CASE SaveFailed
  BY <1>1, <1>8 DEF SaveFailed, InRound
<1> QED BY <1>2, <1>3, <1>4, <1>5, <1>6, <1>7, <1>8 DEF TurnStep

\* Where no directory is missing, no message is stamped later than the turn to be.
LEMMA UpToTheNext ==
  ASSUME NEW t \in TurnDirs, NEW ms \in Seq(Message), InFiles(ms, t), Dirs(t) = 1..Count(t)
  PROVE  /\ UpTo(ms, Count(t) + 1)
         /\ \A i \in DOMAIN ms : ms[i].round # 0 => ms[i].turn < Count(t) + 1
<1>1. Count(t) \in Nat
  BY Counted
<1>2. ASSUME NEW i \in DOMAIN ms PROVE ms[i].turn <= Count(t) + 1
  <2>1. ms[i].turn \in Nat /\ 1..(ms[i].turn - 1) \subseteq 1..Count(t)
    BY Stamps DEF InFiles
  <2>2. CASE ms[i].turn = 0
    BY <1>1, <2>2
  <2>3. CASE ms[i].turn = 1
    BY <1>1, <2>3
  <2>4. CASE ms[i].turn > 1
    <3>1. ms[i].turn - 1 \in 1..(ms[i].turn - 1)
      BY <2>1, <2>4
    <3>2. ms[i].turn - 1 \in 1..Count(t)
      BY <2>1, <3>1
    <3> QED BY <1>1, <2>1, <3>2
  <2> QED BY <2>1, <2>2, <2>3, <2>4
<1>3. ASSUME NEW i \in DOMAIN ms, ms[i].round # 0 PROVE ms[i].turn < Count(t) + 1
  <2>1. ms[i].turn \in 1..Count(t)
    BY <1>3 DEF InFiles, HasFiles
  <2> QED BY <1>1, <2>1
<1> QED BY <1>2, <1>3 DEF UpTo

\* A step of a turn appends a message whose files are there.
LEMMA InFilesTurn ==
  ASSUME IInv, Marks, FollowsOn, TurnStep, InFiles(state.messages, turns), ItsBubbles,
         Trusted(flaws')
  PROVE  InFiles(state'.messages, turns')
<1>1. /\ state \in States /\ turn \in Turn /\ turns \in TurnDirs /\ turns' \in TurnDirs
      /\ Grows(turns, turns') /\ Count(turns) \in Nat /\ state.messages \in Seq(Message)
      /\ None = 0
  BY TurnStepAlone, TurnFiles, Counted, StateFields DEF IInv, TypeOK, None
<1>2. CASE state'.messages = state.messages
  BY <1>1, <1>2, InGrownFiles
<1>3. ASSUME NEW msg \in Message, state' = Append1(state, msg), UNCHANGED turns,
             msg.turn = Number,
             \/ Stamp /\ turn.n = None /\ msg.role = "user" /\ msg.round = 0
             \/ /\ InRound /\ msg.role \in {"assistant", "error"}
                /\ msg.round = turn.r /\ msg.id = turn.id
                /\ msg.role = "assistant" => turn.pc = "saved"
             \/ /\ turn.pc = "reporting" /\ msg.role = "error" /\ msg.round = 0
      PROVE  InFiles(state'.messages, turns')
  <2> DEFINE ms == state.messages
  <2>1. CASE Stamp /\ turn.n = None /\ msg.role = "user" /\ msg.round = 0
    <3>1. Dirs(turns) = 1..Count(turns) /\ msg.turn = Count(turns) + 1
      BY <1>1, <1>3, <2>1 DEF Stamp, Trusted, NextTurn, Count, Number
    <3> QED BY <1>1, <1>3, <2>1, <3>1, UpToTheNext, InFilesAppended
  <2>2. CASE /\ InRound /\ msg.role \in {"assistant", "error"}
             /\ msg.round = turn.r /\ msg.id = turn.id
             /\ msg.role = "assistant" => turn.pc = "saved"
    <3>1. /\ turn.n # None /\ msg.turn = turn.n /\ turn.n \in Nat
          /\ turn.n \in Dirs(turns) /\ turn.r \in Dirs(turns[turn.n].rounds)
      BY <1>3, <2>2, HasDirectory DEF InRound, Number, TurnNo
    <3>2. HasFiles(msg, turns)
      <4>1. Whole(turns, turn.n, turn.r - 1)
        BY <2>2 DEF FollowsOn
      <4>2. msg.role = "assistant" => turn.id \in turns[turn.n].rounds[turn.r].saved
        BY <2>2 DEF Marks, InARound
      <4> QED BY <2>2, <3>1, <4>1, <4>2 DEF HasFiles
    <3>3. UpTo(ms, turn.n) /\ 1..turn.n \subseteq Dirs(turns)
          /\ \A i \in DOMAIN ms :
               ms[i].round # 0 /\ ms[i].turn = turn.n => ms[i].round < turn.r \/ ms[i].id = turn.id
      BY <2>2, <3>1 DEF ItsBubbles
    <3>4. 1..(turn.n - 1) \subseteq Dirs(turns)
      BY <3>1, <3>3
    <3>5. msg.role # "user"
      BY <2>2
    <3> QED BY <1>1, <1>3, <2>2, <3>1, <3>2, <3>3, <3>4, <3>5, InFilesAppended
  <2>3. CASE turn.pc = "reporting" /\ msg.role = "error" /\ msg.round = 0
    <3>1. CASE turn.n = None
      <4>1. Dirs(turns) = 1..Count(turns) /\ msg.turn = Count(turns) + 1
        BY <1>3, <2>3, <3>1 DEF ItsBubbles, Number, NextTurn, Count
      <4> QED BY <1>1, <1>3, <2>3, <4>1, UpToTheNext, InFilesAppended
    <3>2. CASE turn.n # None
      <4>1. /\ msg.turn = turn.n /\ turn.n \in Nat
            /\ UpTo(ms, turn.n) /\ 1..turn.n \subseteq Dirs(turns)
        BY <1>3, <3>2, HasDirectory DEF ItsBubbles, Number, TurnNo
      <4>2. 1..(turn.n - 1) \subseteq Dirs(turns)
        BY <4>1
      <4> QED BY <1>1, <1>3, <2>3, <4>1, <4>2, InFilesAppended
    <3> QED BY <3>1, <3>2
  <2> QED BY <1>3, <2>1, <2>2, <2>3
<1> QED BY <1>2, <1>3, TurnSays

\* A message more: the messages of the human are no fewer.
LEMMA BegunAppended ==
  ASSUME NEW s \in States, NEW m \in Message, NEW t \in TurnDirs,
         m.turn <= IF m.role = "user" THEN Users(s.messages, Len(s.messages)) + 1
                   ELSE Users(s.messages, Len(s.messages))
  PROVE  LET ms == s.messages
             us == Append1(s, m).messages
         IN  /\ Users(ms, Len(ms)) \in Nat /\ Users(us, Len(us)) \in Nat
             /\ Users(ms, Len(ms)) <= Users(us, Len(us))
             /\ m.role = "user" /\ m.id \notin IdsOf(ms) =>
                  Users(us, Len(us)) = Users(ms, Len(ms)) + 1
             /\ Begun(ms) => Begun(us)
             /\ TurnsBegun(ms, t) => TurnsBegun(us, t)
<1> DEFINE ms == s.messages
           us == Append1(s, m).messages
           vs == Append(ms, m)
<1>1. ms \in Seq(Message) /\ Len(ms) \in Nat /\ Users(ms, Len(ms)) \in Nat
  BY StateFields, LenProperties, CountUsers
<1>2. us = IF m.id \in IdsOf(ms) THEN ms ELSE vs
  BY DEF Append1, States
<1>3. CASE m.id \in IdsOf(ms)
  BY <1>1, <1>2, <1>3
<1>4. CASE m.id \notin IdsOf(ms)
  <2>1. /\ Len(vs) = Len(ms) + 1 /\ DOMAIN ms = 1..Len(ms) /\ DOMAIN vs = 1..(Len(ms) + 1)
        /\ \A i \in DOMAIN ms : vs[i] = ms[i] /\ Users(vs, i) = Users(ms, i)
        /\ vs[Len(ms) + 1] = m
        /\ Users(vs, Len(vs)) = IF m.role = "user" THEN Users(ms, Len(ms)) + 1
                                ELSE Users(ms, Len(ms))
    BY <1>1, OneMore
  <2>2. us = vs
    BY <1>2, <1>4
  <2> HIDE DEF us, vs
  <2>3. Users(ms, Len(ms)) <= Users(us, Len(us)) /\ Users(us, Len(us)) \in Nat
        /\ m.turn <= Users(us, Len(us))
    BY <1>1, <2>1, <2>2
  <2>4. Begun(ms) => Begun(us)
    <3> SUFFICES ASSUME Begun(ms), NEW i \in DOMAIN us PROVE us[i].turn <= Users(us, i)
      BY DEF Begun
    <3>1. CASE i \in DOMAIN ms
      BY <2>1, <2>2, <3>1 DEF Begun
    <3>2. CASE i = Len(ms) + 1
      BY <2>1, <2>2, <2>3, <3>2
    <3> QED BY <2>1, <2>2, <3>1, <3>2, <1>1
  <2>5. TurnsBegun(ms, t) => TurnsBegun(us, t)
    <3>1. Count(t) \in Nat
      BY Counted
    <3> QED BY <1>1, <2>3, <2>4, <3>1 DEF TurnsBegun
  <2> QED BY <1>1, <1>4, <2>1, <2>2, <2>3, <2>4, <2>5 DEF us
<1> QED BY <1>3, <1>4

\* A turn that begins has a message of the human of its own.
LEMMA BegunTurn ==
  ASSUME IInv, TurnStep, ItsBubbles, Uncut(flaws'), TurnsBegun(state.messages, turns)
  PROVE  TurnsBegun(state'.messages, turns')
<1> DEFINE ms == state.messages
<1>1. /\ state \in States /\ turn \in Turn /\ turns \in TurnDirs /\ turns' \in TurnDirs
      /\ Count(turns) \in Nat /\ ms \in Seq(Message) /\ None = 0
      /\ Len(ms) \in Nat /\ Users(ms, Len(ms)) \in Nat
  BY TurnStepAlone, TurnFiles, Counted, StateFields, LenProperties, CountUsers
     DEF IInv, TypeOK, None
<1>2. Uncut(flaws)
  BY TurnNumber DEF Uncut
<1>3. CASE Seed
  <2>1. turn.pc = "stamped" /\ NextTurn <= MaxTurn /\ state' = state
    BY <1>3 DEF Seed, At
  <2>2. turn.n = None
    BY <2>1 DEF IInv, Numbered, BeforeItBegins
  <2>3. Dirs(turns) = 1..Count(turns) /\ Count(turns) + 1 <= Users(ms, Len(ms))
    BY <1>2, <2>1, <2>2 DEF ItsBubbles
  <2>4. NextTurn = Count(turns) + 1 /\ NextTurn \in TurnNo
    BY <1>1, <2>1, BoundsAssumption DEF NextTurn, Count, TurnNo
  <2>5. Dirs(turns') = 1..(Count(turns) + 1)
    BY <1>1, <1>3, <2>3, <2>4, DirsGrow, Counted
  <2>6. Count(turns') = Count(turns) + 1
    BY <1>1, <2>5, Counted
  <2> QED BY <2>1, <2>3, <2>5, <2>6 DEF TurnsBegun
<1>4. CASE ~Seed /\ state'.messages = ms
  <2>1. Dirs(turns') = Dirs(turns)
    BY <1>4, DirsGrow
  <2> QED BY <1>4, <2>1 DEF TurnsBegun, Count
<1>5. ASSUME NEW msg \in Message, state' = Append1(state, msg), UNCHANGED turns,
             msg.turn = Number,
             \/ Stamp /\ turn.n = None /\ msg.role = "user"
             \/ InRound
             \/ turn.pc = "reporting"
      PROVE  TurnsBegun(state'.messages, turns')
  <2>1. CASE turn.n = None
    <3>1. msg.turn = Count(turns) + 1
      BY <1>5, <2>1 DEF Number, NextTurn, Count
    <3>2. Stamp => Count(turns) <= Users(ms, Len(ms))
      BY DEF TurnsBegun
    <3>3. turn.pc = "reporting" => Count(turns) + 1 <= Users(ms, Len(ms))
      BY <1>2, <2>1 DEF ItsBubbles
    <3>4. ~InRound
      BY <2>1 DEF InRound
    <3>5. msg.turn <= IF msg.role = "user" THEN Users(ms, Len(ms)) + 1 ELSE Users(ms, Len(ms))
      BY <1>1, <1>5, <3>1, <3>2, <3>3, <3>4
    <3> HIDE DEF ms
    <3> QED BY <1>1, <1>5, <3>5, BegunAppended DEF ms
  <2>2. CASE turn.n # None
    <3>1. msg.turn = turn.n /\ turn.n \in 1..Count(turns)
      BY <1>5, <2>2, HasDirectory DEF Number, TurnsBegun
    <3>2. Count(turns) <= Users(ms, Len(ms))
      BY DEF TurnsBegun
    <3>3. msg.turn <= IF msg.role = "user" THEN Users(ms, Len(ms)) + 1 ELSE Users(ms, Len(ms))
      BY <1>1, <3>1, <3>2
    <3> HIDE DEF ms
    <3> QED BY <1>1, <1>5, <3>3, BegunAppended DEF ms
  <2> QED BY <2>1, <2>2
<1> QED BY <1>3, <1>4, <1>5, TurnSays

\* A round that begins and is not run again comes after those of all the bubbles.
LEMMA BubblesBeforeRound ==
  ASSUME IInv, BeginRound, InFiles(state.messages, turns), Trusted(flaws'), state \in States,
         NEW i \in DOMAIN state.messages, state.messages[i].round # 0,
         state.messages[i].turn = turn.n
  PROVE  state.messages[i].round < turn.r + 1
<1> DEFINE m == state.messages[i]
           r == turn.r + 1
           before == turns[turn.n].rounds[r]
           saved == IF before # Missing THEN before.saved ELSE {}
           bubbles == {x \in Range(state.messages) : x.turn = turn.n /\ x.round = r}
<1>1. /\ m \in Message /\ m \in Range(state.messages) /\ turn \in Turn
      /\ m.round \in Nat /\ m.round > 0 /\ turn.r \in Nat
  BY InMessages, MessageFields, TurnFields DEF Range, IInv, TypeOK, RoundNo
<1>2. /\ turn.n \in Dirs(turns) /\ m.round \in Dirs(turns[turn.n].rounds)
      /\ Whole(turns, turn.n, m.round - 1)
  BY DEF InFiles, HasFiles
<1>3. saved = {} /\ bubbles = {}
  BY DEF BeginRound, Trusted
<1>4. m.round # r
  BY <1>1, <1>3
<1>5. ~(r < m.round)
  <2> SUFFICES ASSUME r < m.round PROVE FALSE
    OBVIOUS
  <2>1. r \in 1..(m.round - 1)
    BY <1>1
  <2>2. r \in Dirs(turns[turn.n].rounds) /\ turns[turn.n].rounds[r].saved # {}
    BY <1>2, <2>1 DEF Whole
  <2>3. before # Missing
    BY <2>2 DEF Dirs
  <2> QED BY <1>3, <2>2, <2>3
<1> QED BY <1>1, <1>4, <1>5

\* What a turn adds is its own, and comes after what there is.
LEMMA ItsBubblesTurn ==
  ASSUME IInv, Marks, TurnStep, InFiles(state.messages, turns), ItsBubbles, Trusted(flaws'),
         Uncut(flaws) => TurnsBegun(state.messages, turns)
  PROVE  ItsBubbles'
<1> DEFINE ms == state.messages
           us == state'.messages
<1>1. /\ state \in States /\ state' \in States /\ turn \in Turn
      /\ turns \in TurnDirs /\ turns' \in TurnDirs
      /\ Dirs(turns) \subseteq Dirs(turns') /\ Count(turns) \in Nat /\ ms \in Seq(Message)
      /\ Len(ms) \in Nat /\ Users(ms, Len(ms)) \in Nat /\ None = 0 /\ minted \in Nat
      /\ turn.n \in Nat
  <2>1. /\ state \in States /\ state' \in States /\ turn \in Turn
        /\ turns \in TurnDirs /\ turns' \in TurnDirs
        /\ Dirs(turns) \subseteq Dirs(turns') /\ Count(turns) \in Nat /\ ms \in Seq(Message)
        /\ None = 0 /\ minted \in Nat
    BY TurnStepAlone, TurnStepType, TurnFiles, DirsGrow, Counted, StateFields, BoundsAssumption
       DEF IInv, TypeOK, None
  <2>2. Len(ms) \in Nat /\ Users(ms, Len(ms)) \in Nat
    BY <2>1, LenProperties, CountUsers
  <2>3. turn.n \in Nat
    BY <2>1, TurnFields DEF TurnNo
  <2> QED BY <2>1, <2>2, <2>3
<1>2. Uncut(flaws') => Uncut(flaws)
  BY TurnNumber DEF Uncut
<1>3. ASSUME NEW n \in Nat, UpTo(ms, n), turn.n # None => n = turn.n,
             turn.n = None /\ turn.pc # "idle" => us = ms
      PROVE  UpTo(us, n)
  <2>1. CASE us = ms
    BY <1>3, <2>1
  <2>2. ASSUME NEW msg \in Message, state' = Append1(state, msg), msg.turn = Number,
               turn.pc # "idle", us # ms
        PROVE  UpTo(us, n)
    <3>1. msg.turn <= n
      BY <1>3, <2>2 DEF Number
    <3>2. Ordered(ms) /\ (msg.turn # None => UpTo(ms, msg.turn))
      BY <1>3, <2>2 DEF InFiles, Number
    <3> QED BY <1>1, <1>3, <2>2, <3>1, <3>2, AddedInOrder
  <2> QED BY <2>1, <2>2, TurnSays
<1>5. state'.pending # Missing =>
        UpTo(us, state'.pending.n) /\ 1..state'.pending.n \subseteq Dirs(turns')
  <2> SUFFICES ASSUME state'.pending # Missing
               PROVE  UpTo(us, state'.pending.n) /\ 1..state'.pending.n \subseteq Dirs(turns')
    OBVIOUS
  <2>1. CASE WriteMarker /\ state'.pending = [widget |-> turn.id, n |-> turn.n, r |-> turn.r]
    <3>1. turn.pc = "marker" /\ us = ms
      BY <1>1, <2>1 DEF WriteMarker, At, States
    <3>2. turn.n # None
      BY <3>1, BoundsAssumption DEF IInv, Numbered, InARound, TurnNo, None
    <3> QED BY <1>1, <2>1, <3>1, <3>2 DEF ItsBubbles
  <2>2. CASE state'.pending = state.pending
    <3>1. UpTo(ms, state.pending.n) /\ 1..state.pending.n \subseteq Dirs(turns)
      BY <2>2 DEF ItsBubbles
    <3>2. state.pending.n \in Nat
      <4>1. state.pending \in Widgets
        BY <1>1, <2>2, StateFields
      <4> QED BY <4>1 DEF Widgets, TurnNo
    <3>3. (turn.n # None => state.pending.n = turn.n) /\ ~(turn.n = None /\ turn.pc # "idle")
      BY <2>2 DEF Marks
    <3> QED BY <1>1, <1>3, <2>2, <3>1, <3>2, <3>3
  <2> QED BY <2>1, <2>2, TurnMarks
<1>6. turn'.n # None => UpTo(us, turn'.n) /\ 1..turn'.n \subseteq Dirs(turns')
  <2> SUFFICES ASSUME turn'.n # None
               PROVE  UpTo(us, turn'.n) /\ 1..turn'.n \subseteq Dirs(turns')
    OBVIOUS
  <2>1. CASE turn'.n = turn.n
    <3>1. UpTo(ms, turn.n) /\ 1..turn.n \subseteq Dirs(turns)
      BY <2>1 DEF ItsBubbles
    <3> QED BY <1>1, <1>3, <2>1, <3>1
  <2>2. CASE Seed /\ turn'.n = NextTurn
    <3>1. turn.pc = "stamped" /\ NextTurn <= MaxTurn /\ state' = state
      BY <2>2 DEF Seed, At
    <3>2. turn.n = None
      BY <3>1 DEF IInv, Numbered, BeforeItBegins
    <3>3. Dirs(turns) = 1..Count(turns) /\ NextTurn = Count(turns) + 1
      BY <3>1, <3>2 DEF ItsBubbles, NextTurn, Count
    <3>4. NextTurn \in TurnNo
      BY <1>1, <3>1, <3>3, BoundsAssumption DEF TurnNo
    <3>5. Dirs(turns') = 1..NextTurn
      <4>1. Dirs(turns) \cup {Count(turns) + 1} = 1..(Count(turns) + 1)
        BY <1>1, <3>3, <3>4, Counted
      <4> QED BY <2>2, <3>3, <4>1, DirsGrow
    <3> QED BY <1>1, <2>2, <3>1, <3>3, <3>5, UpToTheNext
  <2>3. CASE /\ RecoverWidget /\ UNCHANGED <<state, turns>>
             /\ state.pending # Missing /\ turn'.n = state.pending.n
    BY <2>3 DEF ItsBubbles
  <2>4. turn' # IdleTurn
    BY <1>1 DEF IdleTurn
  <2> QED BY <2>1, <2>2, <2>3, <2>4, TurnNumber
<1>7. ASSUME turn'.n = None, turn'.pc \in {"stamped", "failed", "reporting"}
      PROVE  /\ Dirs(turns') = 1..Count(turns')
             /\ Uncut(flaws') => Count(turns') + 1 <= Users(us, Len(us))
  <2>1. CASE Stamp
    <3>1. Dirs(turns) = 1..Count(turns) /\ UNCHANGED turns /\ minted' = minted + 1
      BY <1>1, <2>1 DEF Stamp, Trusted, NextTurn, Count, Mint
    <3> DEFINE msg == [id |-> minted', role |-> "user", turn |-> NextTurn, round |-> 0]
    <3>2. state' = Append1(state, msg) /\ NextTurn = Count(turns) + 1 /\ msg \in Message
      <4>1. NextTurn = Count(turns) + 1 /\ NextTurn \in TurnNo
        BY <1>1, <2>1, BoundsAssumption DEF Stamp, NextTurn, Count, TurnNo
      <4>2. minted' \in Id
        BY <1>1, <2>1, BoundsAssumption DEF Stamp, Mint, Id
      <4>3. msg \in Message
        BY <4>1, <4>2, MessageType
      <4> QED BY <2>1, <4>1, <4>3 DEF Stamp
    <3>3. msg.role = "user" /\ msg.id = minted + 1 /\ msg.turn = Count(turns) + 1
      BY <3>1, <3>2
    <3> HIDE DEF msg
    <3>4. msg.id \notin IdsOf(ms)
      <4>1. IdsOf(ms) \subseteq 1..minted
        BY <1>1, Absent DEF IInv, Level, NoTwins, Minted
      <4> QED BY <1>1, <3>3, <4>1
    <3>5. Uncut(flaws') => Count(turns) <= Users(ms, Len(ms))
      BY <1>2 DEF TurnsBegun
    <3>6. Uncut(flaws') => msg.turn <= Users(ms, Len(ms)) + 1
      BY <1>1, <3>3, <3>5
    <3>7. Uncut(flaws') => Users(us, Len(us)) = Users(ms, Len(ms)) + 1
      BY <1>1, <3>2, <3>3, <3>4, <3>6, BegunAppended
    <3> QED BY <1>1, <3>1, <3>5, <3>7
  <2>2. CASE /\ turn.n = None /\ turn.pc \in {"stamped", "failed", "reporting"}
             /\ state'.messages = state.messages /\ UNCHANGED turns
    BY <1>2, <2>2 DEF ItsBubbles
  <2> QED BY <1>7, <2>1, <2>2, StaysUnnumbered
<1>8. ASSUME InRound', NEW i \in DOMAIN us, us[i].round # 0, us[i].turn = turn'.n
      PROVE  us[i].round < turn'.r \/ us[i].id = turn'.id
  <2>1. CASE BeginRound
    <3>1. turn'.n = turn.n /\ turn'.r = turn.r + 1 /\ state' = state
      BY <1>1, <2>1 DEF BeginRound, Turn
    <3> QED BY <1>1, <1>8, <2>1, <3>1, BubblesBeforeRound
  <2>2. CASE ~BeginRound
    <3>1. InRound /\ turn'.n = turn.n /\ turn'.r = turn.r /\ turn'.id = turn.id
      BY <1>8, <2>2, RoundStays
    <3>2. ASSUME i \in DOMAIN ms, us[i] = ms[i]
          PROVE  us[i].round < turn.r \/ us[i].id = turn.id
      BY <1>8, <3>1, <3>2 DEF ItsBubbles
    <3>3. ASSUME NEW msg \in Message, state' = Append1(state, msg),
                 msg.round = 0 \/ msg.id = turn.id
          PROVE  us[i].round < turn.r \/ us[i].id = turn.id
      <4>1. i \in DOMAIN ms \/ us[i] = msg
        BY <1>1, <3>3, Appended
      <4>2. i \in DOMAIN ms => us[i] = ms[i]
        BY <1>1, <3>3, Appended
      <4> QED BY <1>8, <3>2, <3>3, <4>1, <4>2
    <3> QED BY <1>8, <3>1, <3>2, <3>3, TurnSays
  <2> QED BY <2>1, <2>2
<1> QED BY <1>5, <1>6, <1>7, <1>8 DEF ItsBubbles

\* What a truncation keeps of the history ends before what it will remove.
LEMMA CutBubbles ==
  ASSUME IInv, ClickedAt, Bubbles, PersistCut, Trusted(flaws')
  PROVE  /\ InFiles(Kept, turns)
         /\ \A n \in Nat : UpTo(state.messages, n) => UpTo(Kept, n)
         /\ UpTo(Kept, op.cut)
         /\ \A j \in DOMAIN Kept :
              Kept[j].round # 0 => Earlier(Kept[j].turn, Kept[j].round, op.cut, CutRound)
         /\ \A k \in Dirs(turns) : k <= LastKept => 1..k \subseteq Dirs(turns)
         /\ Uncut(flaws') => op.cut <= Users(Kept, Len(Kept)) /\ Begun(Kept)
         /\ op.kind = "turn" => op.at \in IdsOf(Kept)
<1> DEFINE ms == state.messages
           i == IndexOf(ms, op.at)
           n == IF op.kind = "turn" THEN i ELSE i - 1
           us == SubSeq(ms, 1, n)
<1>1. /\ op.pc = "persist" /\ op.read = state /\ state \in States /\ state # Missing
      /\ op.kind \in {"turn", "round"} /\ turns \in TurnDirs /\ ms \in Seq(Message)
      /\ RewindStep /\ op \in Op /\ flaws \subseteq Flaws /\ None = 0
  <2>1. RewindStep
    BY DEF RewindStep
  <2>2. /\ op.pc = "persist" /\ op.read = state /\ state \in States
        /\ op.kind \in {"turn", "round"}
    BY <2>1, RewindOrder, RewindGoes
  <2> QED BY <2>1, <2>2, Absent, StateFields DEF IInv, TypeOK, None
<1>2. /\ i \in DOMAIN ms /\ ms[i].id = op.at /\ DOMAIN ms = 1..Len(ms) /\ Len(ms) \in Nat
      /\ i \in Nat /\ i > 0 /\ n \in Nat /\ n <= i /\ n <= Len(ms)
  <2>1. i \in DOMAIN ms /\ ms[i].id = op.at
    BY <1>1, WhatIsRead
  <2> HIDE DEF i
  <2> QED BY <1>1, <2>1, LenProperties
<1>3. /\ op.cut \in Nat /\ op.cut > 0 /\ LastKept \in Nat
      /\ op.kind = "turn" => LastKept = op.cut - 1 /\ CutRound = 0
      /\ op.kind = "round" => LastKept = op.cut /\ CutRound = op.round /\ op.round \in RoundNo
  BY <1>1, CutNumbers DEF CutRound, IInv, Cutting
<1>4. Trusted(flaws) /\ InFiles(ms, turns) /\ (Uncut(flaws) => TurnsBegun(ms, turns))
      /\ flaws \subseteq flaws'
  <2>1. flaws \subseteq flaws'
    BY DEF PersistCut
  <2>2. Trusted(flaws)
    BY <2>1, TrustedBefore
  <2> QED BY <1>1, <2>1, <2>2 DEF Bubbles, Outside
<1>5. Kept = us
  BY <1>1 DEF Kept
<1>6. IF op.kind = "turn"
      THEN /\ ms[i].role = "user" /\ ms[i].turn \in {None, op.cut}
           /\ ms[i].turn = None => op.cut = Users(ms, i - 1) + 1
      ELSE ms[i].role # "user" /\ ms[i].round = op.round /\ ms[i].turn = op.cut
  BY <1>1, <1>2 DEF ClickedAt, IInv, Level, CutInLine, Clicked
<1>7. ms[i].turn = None => Uncut(flaws) /\ Uncut(flaws')
  <2> SUFFICES ASSUME ms[i].turn = None PROVE Uncut(flaws) /\ Uncut(flaws')
    OBVIOUS
  <2>1. flaws' = flaws \cup {"guess"}
    BY <1>1 DEF PersistCut
  <2> QED BY <1>1, <2>1 DEF Trusted, Uncut, Flaws
<1> HIDE DEF ms, i
<1>8. /\ us \in Seq(Message) /\ Len(us) = n /\ DOMAIN us = 1..n
      /\ \A j \in 1..n : j \in DOMAIN ms /\ us[j] = ms[j] /\ Users(us, j) = Users(ms, j)
      /\ Users(us, n) = Users(ms, n)
  BY <1>1, <1>2, FewerMessages
<1> HIDE DEF us, n
<1>9. InFiles(us, turns)
  BY <1>1, <1>2, <1>4, InFilesCut DEF us
<1>10. \A k \in Nat : UpTo(ms, k) => UpTo(us, k)
  BY <1>8 DEF UpTo
<1>11. op.kind = "turn" => op.at \in IdsOf(us)
  <2> SUFFICES ASSUME op.kind = "turn" PROVE op.at \in IdsOf(us)
    OBVIOUS
  <2>1. n = i
    BY DEF n
  <2> QED BY <1>2, <1>8, <2>1 DEF IdsOf
<1>12. \A j \in DOMAIN ms : /\ ms[j].turn \in Nat /\ ms[j].round \in Nat
                            /\ ms[j].round # 0 => ms[j].role # "user"
  <2>1. \A j \in DOMAIN ms : ms[j] \in Message
    BY <1>1, ElementOfSeq
  <2> QED BY <1>4, <2>1, MessageFields DEF InFiles
<1>13. \A j, k \in Nat : Users(ms, j) \in Nat /\ (j <= k => Users(ms, j) <= Users(ms, k))
  BY CountUsers
<1>14. Users(ms, i) = IF ms[i].role = "user" THEN Users(ms, i - 1) + 1 ELSE Users(ms, i - 1)
  <2>1. i - 1 \in Nat /\ (i - 1) + 1 = i
    BY <1>2
  <2> QED BY <2>1, CountUsers
<1>15. Uncut(flaws') => TurnsBegun(ms, turns) /\ Begun(us)
  <2>1. Uncut(flaws') => TurnsBegun(ms, turns)
    BY <1>4, TrustedBefore
  <2> QED BY <1>8, <2>1 DEF TurnsBegun, Begun
<1> DEFINE Ends == /\ UpTo(us, op.cut)
                   /\ \A j \in 1..n :
                        us[j].round # 0 => Earlier(us[j].turn, us[j].round, op.cut, CutRound)
                   /\ \A k \in Dirs(turns) : k <= LastKept => 1..k \subseteq Dirs(turns)
                   /\ Uncut(flaws') => op.cut <= Users(us, n)
<1>16. ASSUME op.kind = "round" PROVE Ends
  <2>1. /\ n = i - 1 /\ ms[i].role # "user" /\ ms[i].round = op.round /\ ms[i].turn = op.cut
        /\ op.round \in Nat /\ op.round # 0
    BY <1>3, <1>6, <1>16 DEF n, RoundNo
  <2>2. op.cut \in Dirs(turns) /\ 1..(op.cut - 1) \subseteq Dirs(turns)
    BY <1>2, <1>4, <2>1 DEF InFiles, HasFiles
  <2>3. \A j \in 1..n : ms[j].turn <= op.cut
    <3> SUFFICES ASSUME NEW j \in 1..n PROVE ms[j].turn <= op.cut
      OBVIOUS
    <3>1. j \in DOMAIN ms /\ j < i /\ ms[i].turn # None
      BY <1>1, <1>2, <1>3, <1>8, <2>1
    <3> QED BY <1>2, <1>4, <2>1, <3>1 DEF InFiles, Ordered
  <2>4. ASSUME NEW j \in 1..n, ms[j].round # 0
        PROVE  Earlier(ms[j].turn, ms[j].round, op.cut, CutRound)
    <3>1. ms[j].turn = op.cut => ms[j].round < op.round
      BY <1>2, <1>4, <1>8, <2>1, <2>4 DEF InFiles, Ascending
    <3>2. ms[j].turn \in Nat /\ ms[j].turn <= op.cut
      BY <1>8, <1>12, <2>3
    <3> QED BY <1>3, <1>16, <3>1, <3>2 DEF Earlier
  <2>5. \A k \in Dirs(turns) : k <= LastKept => 1..k \subseteq Dirs(turns)
    <3>1. \A k \in Dirs(turns) : k \in Nat
      BY <1>1, Everywhere
    <3>2. 1..op.cut \subseteq Dirs(turns)
      BY <1>3, <2>2
    <3> QED BY <1>3, <1>16, <3>1, <3>2
  <2>6. Uncut(flaws') => op.cut <= Users(us, n)
    <3>1. Uncut(flaws') => op.cut <= Users(ms, i)
      BY <1>2, <1>15, <2>1 DEF TurnsBegun, Begun
    <3> QED BY <1>8, <1>14, <2>1, <3>1
  <2> QED BY <1>8, <2>3, <2>4, <2>5, <2>6 DEF UpTo
<1>17. ASSUME op.kind = "turn", ms[i].turn # None PROVE Ends
  <2>1. n = i /\ ms[i].role = "user" /\ ms[i].turn = op.cut
    BY <1>6, <1>17 DEF n
  <2>2. 1..(op.cut - 1) \subseteq Dirs(turns)
    BY <1>2, <1>4, <2>1 DEF InFiles
  <2>3. \A j \in 1..n : ms[j].turn <= op.cut
    <3>1. \A j \in 1..n : j < i => ms[j].turn <= op.cut
      BY <1>2, <1>4, <1>8, <1>17, <2>1 DEF InFiles, Ordered
    <3> QED BY <1>2, <1>3, <2>1, <3>1
  <2>4. ASSUME NEW j \in 1..n, ms[j].round # 0
        PROVE  Earlier(ms[j].turn, ms[j].round, op.cut, CutRound)
    <3>1. j # i
      BY <1>8, <1>12, <2>1, <2>4
    <3>2. j < i
      BY <1>2, <2>1, <3>1
    <3>3. ms[j].turn < op.cut
      BY <1>2, <1>4, <1>8, <1>17, <2>1, <2>4, <3>2 DEF InFiles, Ascending
    <3> QED BY <3>3 DEF Earlier
  <2>5. \A k \in Dirs(turns) : k <= LastKept => 1..k \subseteq Dirs(turns)
    <3>1. \A k \in Dirs(turns) : k \in Nat
      BY <1>1, Everywhere
    <3> QED BY <1>3, <1>17, <2>2, <3>1
  <2>6. Uncut(flaws') => op.cut <= Users(us, n)
    BY <1>2, <1>8, <1>15, <2>1 DEF TurnsBegun, Begun
  <2> QED BY <1>8, <2>3, <2>4, <2>5, <2>6 DEF UpTo
<1>18. ASSUME op.kind = "turn", ms[i].turn = None PROVE Ends
  <2>1. n = i /\ ms[i].role = "user" /\ op.cut = Users(ms, i - 1) + 1
    BY <1>6, <1>18 DEF n
  <2>2. TurnsBegun(ms, turns)
    BY <1>7, <1>15, <1>18
  <2>3. \A j \in 1..n : ms[j].turn <= Users(ms, j)
    BY <1>8, <2>2 DEF TurnsBegun, Begun
  <2>4. op.cut = Users(ms, i)
    BY <1>14, <2>1
  <2>5. \A j \in 1..n : ms[j].turn <= op.cut
    <3> SUFFICES ASSUME NEW j \in 1..n PROVE ms[j].turn <= op.cut
      OBVIOUS
    <3>1. Users(ms, j) \in Nat /\ Users(ms, j) <= Users(ms, i)
      BY <1>2, <1>13, <2>1
    <3> QED BY <1>3, <1>8, <1>12, <2>3, <2>4, <3>1
  <2>6. ASSUME NEW j \in 1..n, ms[j].round # 0
        PROVE  Earlier(ms[j].turn, ms[j].round, op.cut, CutRound)
    <3>1. j # i
      BY <1>8, <1>12, <2>1, <2>6
    <3>2. j <= i - 1 /\ j \in Nat /\ i - 1 \in Nat
      BY <1>2, <2>1, <3>1
    <3>3. Users(ms, j) \in Nat /\ Users(ms, i - 1) \in Nat /\ Users(ms, j) <= Users(ms, i - 1)
      BY <1>13, <3>2
    <3>4. ms[j].turn < op.cut
      BY <1>8, <1>12, <2>1, <2>3, <3>3
    <3> QED BY <3>4 DEF Earlier
  <2>7. \A k \in Dirs(turns) : k <= LastKept => 1..k \subseteq Dirs(turns)
    <3>1. Dirs(turns) = 1..Count(turns) /\ Count(turns) \in Nat
      BY <1>1, <2>2, Counted DEF TurnsBegun
    <3> QED BY <3>1
  <2>8. Uncut(flaws') => op.cut <= Users(us, n)
    BY <1>2, <1>3, <1>8, <2>1, <2>4
  <2> QED BY <1>8, <2>5, <2>6, <2>7, <2>8 DEF UpTo
<1>19. Ends
  BY <1>1, <1>16, <1>17, <1>18
<1> QED BY <1>5, <1>8, <1>9, <1>10, <1>11, <1>15, <1>19 DEF ms

\* A checkpoint is taken of a session whose bubbles have their files.
LEMMA KeptBubblesRewind ==
  ASSUME IInv, KeptBubbles, Bubbles, RewindStep
  PROVE  KeptBubbles'
<1>1. CASE UNCHANGED checkpoints
  BY <1>1 DEF KeptBubbles, Readable
<1>2. CASE TakeCheckpoint
  <2>1. Outside
    BY <1>2 DEF TakeCheckpoint, Outside
  <2>2. ASSUME NEW k \in DOMAIN checkpoints', Readable(k)', Trusted(checkpoints'[k].flaws)
        PROVE  LET c == checkpoints'[k]
               IN  /\ InFiles(c.state.messages, c.turns)
                   /\ Uncut(c.flaws) => TurnsBegun(c.state.messages, c.turns)
    <3>1. CASE k \in DOMAIN checkpoints /\ checkpoints'[k] = checkpoints[k]
      BY <2>2, <3>1 DEF KeptBubbles, Readable
    <3>2. CASE /\ checkpoints'[k].state = state /\ checkpoints'[k].turns = turns
               /\ flaws \subseteq checkpoints'[k].flaws
      <4>1. state # Missing /\ Trusted(flaws)
        BY <2>2, <3>2, TrustedBefore DEF Readable
      <4>2. Uncut(checkpoints'[k].flaws) => Uncut(flaws)
        BY <3>2, TrustedBefore
      <4> QED BY <2>1, <3>2, <4>1, <4>2 DEF Bubbles
    <3> QED BY <1>2, <3>1, <3>2, CheckpointTaken
  <2> QED BY <2>2 DEF KeptBubbles
<1> QED BY <1>1, <1>2, RewindGoes

\* What a truncation has left when it is done is numbered without a gap.
LEMMA CutIsDone ==
  ASSUME IInv, InTheCut, op.kind \in {"turn", "round"}, op.pc \in {"remove", "evict"},
         op.left = {}
  PROVE  /\ Dirs(turns) = 1..Count(turns) /\ Count(turns) <= LastKept /\ Count(turns) \in Nat
         /\ LastKept \in Nat /\ op.cut \in Nat
         /\ op.kind = "turn" => LastKept = op.cut - 1
         /\ op.kind = "round" => LastKept = op.cut
<1>1. turns \in TurnDirs /\ Count(turns) \in Nat
  BY Counted DEF IInv, TypeOK
<1>2. /\ LastKept \in Nat /\ op.cut \in Nat
      /\ op.kind = "turn" => LastKept = op.cut - 1
      /\ op.kind = "round" => LastKept = op.cut
  BY CutNumbers
<1>3. /\ \A k \in Dirs(turns) : k <= LastKept => 1..k \subseteq Dirs(turns)
      /\ \A k \in Dirs(turns) : k <= LastKept \/ k \in LeftTurns
  BY DEF InTheCut, Truncating
<1>4. \A k \in Dirs(turns) : k <= LastKept
  BY <1>3 DEF LeftTurns
<1>5. Dirs(turns) = 1..Count(turns)
  BY <1>1, <1>3, <1>4, Segment
<1>6. Count(turns) <= LastKept
  <2>1. CASE Count(turns) = 0
    BY <1>2, <2>1
  <2>2. CASE Count(turns) # 0
    <3>1. Count(turns) \in Dirs(turns)
      BY <1>1, <1>5, <2>2
    <3> QED BY <1>4, <3>1
  <2> QED BY <2>1, <2>2
<1> QED BY <1>1, <1>2, <1>5, <1>6

\* A removal leaves what comes before the cut, and all that it has yet to remove is left.
LEMMA InTheCutTrimmed ==
  ASSUME IInv, RemoveOne \/ ResetSummary, InTheCut, InFiles(state.messages, turns)
  PROVE  InFiles(state'.messages, turns') /\ InTheCut'
<1>1. /\ turns \in TurnDirs /\ turns' \in TurnDirs /\ op.kind \in {"turn", "round"} /\ op \in Op
      /\ Trimmed(turns, turns', op.cut, CutRound) /\ op.cut \in Nat /\ CutRound \in Nat
      /\ op.kind = "round" => CutRound > 0
      /\ RewindStep /\ state \in States /\ state.messages \in Seq(Message)
  <2>1. RewindStep
    BY DEF RewindStep
  <2>2. op.kind \in {"turn", "round"}
    BY CutFiles
  <2>3. state \in States
    BY <2>2 DEF IInv, TypeOK, Cutting
  <2> QED BY <2>1, <2>3, CutFiles, StateFields DEF IInv, TypeOK
<1>2. /\ op.cut > 0 /\ LastKept \in Nat
      /\ op.kind = "turn" => LastKept = op.cut - 1
      /\ op.kind = "round" => LastKept = op.cut
      /\ \A k \in Nat : (k > op.cut \/ (k = op.cut /\ op.kind = "turn")) <=> k > LastKept
  BY <1>1, CutNumbers
<1>3. /\ op.pc \in {"summary", "remove"} /\ op'.pc = "remove" /\ UNCHANGED <<state, flaws>>
      /\ op'.kind = op.kind /\ op'.cut = op.cut /\ op'.round = op.round
  BY <1>1, RewindOrder, RewindGoes
<1>4. CutRound' = CutRound /\ LastKept' = LastKept
  BY <1>3 DEF CutRound, LastKept
<1>5. /\ UpTo(state.messages, op.cut)
      /\ \A i \in DOMAIN state.messages :
           state.messages[i].round # 0 =>
           Earlier(state.messages[i].turn, state.messages[i].round, op.cut, CutRound)
      /\ \A k \in Dirs(turns) : k <= LastKept => 1..k \subseteq Dirs(turns)
      /\ op.pc = "remove" => \A k \in Dirs(turns) : k <= LastKept \/ k \in LeftTurns
      /\ Uncut(flaws) =>
           op.cut <= Users(state.messages, Len(state.messages)) /\ Begun(state.messages)
  BY <1>1, <1>3 DEF InTheCut, Truncating
<1>6. InFiles(state.messages, turns')
  BY <1>1, <1>2, <1>5, InTrimmedFiles
<1>7. Dirs(turns') \subseteq Dirs(turns) /\ \A k \in Dirs(turns) : k \in Nat /\ k > 0
  BY <1>1, Everywhere DEF Trimmed
<1>8. ASSUME NEW k \in Dirs(turns'), k <= LastKept PROVE 1..k \subseteq Dirs(turns')
  <2> SUFFICES ASSUME NEW j \in 1..k PROVE j \in Dirs(turns')
    OBVIOUS
  <2>1. j \in Dirs(turns) /\ j <= LastKept
    BY <1>2, <1>5, <1>7, <1>8
  <2>2. j < op.cut \/ (j = op.cut /\ CutRound > 0)
    BY <1>1, <1>2, <2>1
  <2> QED BY <1>1, <2>1, <2>2 DEF Trimmed
<1>9. ASSUME NEW k \in Dirs(turns') PROVE k <= LastKept \/ k \in LeftTurns'
  <2>1. k \in Dirs(turns) /\ k \in TurnNo /\ k \in Nat
    BY <1>1, <1>7, DirsType
  <2>2. CASE ResetSummary
    <3>1. op'.left = Doomed
      BY <1>1, <2>2 DEF ResetSummary, Op
    <3>2. k <= LastKept \/ <<"turn", k>> \in Doomed
      BY <1>2, <2>1, TurnsAmong
    <3> QED BY <2>1, <3>1, <3>2 DEF LeftTurns
  <2>3. CASE RemoveOne
    <3>1. PICK x \in op.left :
            /\ turns' = IF x[1] = "turn" THEN [turns EXCEPT ![x[2]] = Missing]
                        ELSE [turns EXCEPT ![op.cut].rounds[x[2]] = Missing]
            /\ op' = [op EXCEPT !.left = @ \ {x}]
      BY <2>3 DEF RemoveOne
    <3>2. op'.left = op.left \ {x} /\ op.pc = "remove"
      BY <1>1, <2>3, <3>1 DEF Op, RemoveOne
    <3>3. x # <<"turn", k>>
      <4> SUFFICES ASSUME x = <<"turn", k>> PROVE FALSE
        OBVIOUS
      <4>1. turns' = [turns EXCEPT ![k] = Missing]
        BY <3>1
      <4>2. Dirs(turns') = Dirs(turns) \ {k}
        BY <1>1, <2>1, <4>1, OneDirectory
      <4> QED BY <4>2
    <3> QED BY <1>5, <2>1, <3>2, <3>3 DEF LeftTurns
  <2> QED BY <2>2, <2>3
<1>10. InTheCut'
  BY <1>3, <1>4, <1>5, <1>8, <1>9 DEF InTheCut
<1> QED BY <1>3, <1>6, <1>10


\* Where no turn runs, only the widget on display is to be looked at.
LEMMA NoTurnsBubbles ==
  ASSUME turn' = IdleTurn,
         state'.pending # Missing =>
           UpTo(state'.messages, state'.pending.n) /\ 1..state'.pending.n \subseteq Dirs(turns')
  PROVE  ItsBubbles'
BY DEF ItsBubbles, IdleTurn, InRound

\* The cut leaves the files of what it keeps.
LEMMA BubblesPersist ==
  ASSUME IInv, ClickedAt, Bubbles, PersistCut, Trusted(flaws')
  PROVE  InFiles(state'.messages, turns') /\ InTheCut' /\ ItsBubbles' /\ ~Outside'
<1>1. RewindStep
  BY DEF RewindStep
<1>2. /\ op.pc = "persist" /\ op'.pc = "unmark" /\ op.kind \in {"turn", "round"}
      /\ turns' = turns /\ op.read = state /\ state \in States
      /\ op'.kind = op.kind /\ op'.cut = op.cut /\ op'.round = op.round
  <2>1. ~Evict
    BY <1>1, RewindOrder, RewindGoes
  <2> QED BY <1>1, <2>1, RewindOrder, RewindGoes
<1>3. state'.messages = Kept /\ state'.pending = state.pending
  BY <1>2 DEF PersistCut, States
<1>4. turn = IdleTurn /\ turn' = IdleTurn
  BY <1>1, RewindStepAlone DEF PersistCut, IInv, Numbered
<1>5. CutRound' = CutRound /\ LastKept' = LastKept
  BY <1>2 DEF CutRound, LastKept
<1>6. state # Missing /\ Trusted(flaws) /\ ItsBubbles
  <2>1. flaws \subseteq flaws'
    BY DEF PersistCut
  <2>2. state # Missing /\ Trusted(flaws) /\ Outside
    BY <1>2, <2>1, TrustedBefore, Absent DEF Outside
  <2> QED BY <2>2 DEF Bubbles
<1>7. ItsBubbles'
  <2>1. state.pending # Missing => state.pending.n \in Nat
    <3>1. state.pending \in Widgets \cup {Missing}
      BY <1>2, StateFields
    <3> QED BY <3>1 DEF Widgets, TurnNo
  <2>2. state.pending # Missing => UpTo(Kept, state.pending.n)
    BY <1>6, <2>1, CutBubbles DEF ItsBubbles
  <2> QED BY <1>2, <1>3, <1>4, <1>6, <2>2, NoTurnsBubbles DEF ItsBubbles
<1>8. InTheCut'
  BY <1>2, <1>3, <1>5, CutBubbles DEF InTheCut
<1>9. ~Outside'
  BY <1>2 DEF Outside
<1> QED BY <1>2, <1>3, <1>7, <1>8, <1>9, CutBubbles

\* What runs next has its place behind the history.
LEMMA BubblesEvict ==
  ASSUME IInv, Marks, ClickedAt, Bubbles, Evict, Trusted(flaws), state' # Missing
  PROVE  /\ InFiles(state'.messages, turns')
         /\ Uncut(flaws') => TurnsBegun(state'.messages, turns')
         /\ InTheCut' /\ ItsBubbles'
<1>1. RewindStep
  BY DEF RewindStep
<1>2. /\ op.pc = "evict" /\ op' = IdleOp /\ turns' = turns /\ flaws' = flaws
      /\ op.kind \in {"turn", "round", "restore"} /\ turn.pc = "idle"
  BY <1>1, RewindGoes, RewindStepAlone
<1>3. state \in States /\ state # Missing
  <2>1. state # Missing
    BY <1>2 DEF IInv, Cutting, Restoring
  <2> QED BY <2>1 DEF IInv, TypeOK
<1>4. /\ InFiles(state.messages, turns) /\ (Uncut(flaws) => TurnsBegun(state.messages, turns))
      /\ InTheCut /\ ItsBubbles
  BY <1>2, <1>3 DEF Bubbles, Outside
<1>5. state' = state
  <2>1. CASE op.kind = "turn"
    <3>1. op.read.messages[IndexOf(op.read.messages, op.at)].id = op.at
      BY <1>2, <2>1, WhatIsRead
    <3>2. op.at \in IdsOf(state.messages)
      BY <2>1 DEF ClickedAt
    <3>3. state' = Append1(state, op.read.messages[IndexOf(op.read.messages, op.at)])
      BY <2>1 DEF Evict
    <3> QED BY <3>1, <3>2, <3>3 DEF Append1
  <2>2. CASE op.kind # "turn"
    BY <2>2 DEF Evict
  <2> QED BY <2>1, <2>2
<1>6. InTheCut'
  BY <1>2 DEF InTheCut, IdleOp
<1>7. ASSUME op.kind \in {"turn", "round"}
      PROVE  /\ Dirs(turns) = 1..Count(turns) /\ Count(turns) <= LastKept
             /\ Count(turns) \in Nat /\ op.cut \in Nat
             /\ op.kind = "turn" => LastKept = op.cut - 1
             /\ op.kind = "round" => LastKept = op.cut
             /\ UpTo(state.messages, op.cut)
             /\ \A i \in DOMAIN state.messages :
                  state.messages[i].round # 0 =>
                  Earlier(state.messages[i].turn, state.messages[i].round, op.cut, CutRound)
             /\ Uncut(flaws) => op.cut <= Users(state.messages, Len(state.messages))
             /\ state.pending = Missing
  <2>1. op.left = {} /\ UpTo(state.messages, op.cut)
        /\ (Uncut(flaws) => op.cut <= Users(state.messages, Len(state.messages)))
        /\ \A i \in DOMAIN state.messages :
             state.messages[i].round # 0 =>
             Earlier(state.messages[i].turn, state.messages[i].round, op.cut, CutRound)
    BY <1>2, <1>4, <1>7 DEF InTheCut
  <2>2. state.pending = Missing
    BY <1>2, <1>7 DEF Marks
  <2> QED BY <1>2, <1>4, <1>7, <2>1, <2>2, CutIsDone
<1>8. ItsBubbles'
  <2>1. CASE op.kind = "turn"
    <3>1. turn' = [IdleTurn EXCEPT !.pc = "stamped", !.id = op.at]
      BY <2>1 DEF Evict
    <3>2. turn'.n = None /\ turn'.pc = "stamped" /\ ~InRound'
      BY <3>1 DEF IdleTurn, InRound
    <3>3. Uncut(flaws) => Count(turns) + 1 <= Users(state.messages, Len(state.messages))
      <4>1. /\ Len(state.messages) \in Nat
            /\ Users(state.messages, Len(state.messages)) \in Nat
        BY <1>3, StateFields, LenProperties, CountUsers
      <4> QED BY <1>7, <2>1, <4>1
    <3>4. state.pending = Missing /\ Dirs(turns) = 1..Count(turns)
      BY <1>7, <2>1
    <3> QED BY <1>2, <1>5, <3>2, <3>3, <3>4 DEF ItsBubbles, Count
  <2>2. CASE op.kind = "round"
    <3>1. turn' = [IdleTurn EXCEPT !.pc = "seeded", !.n = op.cut, !.r = op.round - 1,
                                   !.again = TRUE]
      BY <2>2 DEF Evict, RoundAgain
    <3>2. turn'.n = op.cut /\ turn'.pc = "seeded" /\ ~InRound'
      BY <3>1 DEF IdleTurn, InRound, None
    <3>3. op.cut \in Dirs(turns)
      BY <2>2 DEF IInv, Housed
    <3>4. state.pending = Missing /\ UpTo(state.messages, op.cut)
          /\ 1..op.cut \subseteq Dirs(turns)
      BY <1>7, <2>2, <3>3
    <3> QED BY <1>2, <1>5, <3>2, <3>4 DEF ItsBubbles
  <2>3. CASE op.kind = "restore"
    BY <1>2, <1>4, <1>5, <2>3 DEF ItsBubbles, Evict, InRound, Count
  <2> QED BY <1>2, <2>1, <2>2, <2>3
<1> QED BY <1>2, <1>4, <1>5, <1>6, <1>8


\* A restore brings back what the checkpoint has.
LEMMA BubblesRestored ==
  ASSUME IInv, Copied, KeptBubbles, Unlink, op.kind = "restore", Trusted(flaws')
  PROVE  /\ InFiles(state'.messages, turns')
         /\ Uncut(flaws') => TurnsBegun(state'.messages, turns')
         /\ InTheCut' /\ ItsBubbles'
<1>1. RewindStep
  BY DEF RewindStep
<1>2. /\ op.pc = "unlink" /\ op'.pc = "evict" /\ op'.kind = "restore"
      /\ UNCHANGED <<state, turns>> /\ checkpoints[op.at].flaws \subseteq flaws'
  <2>1. ~Evict
    BY DEF Unlink, Evict
  <2> QED BY <1>1, <2>1, RewindOrder, RewindGoes DEF Unlink
<1>3. /\ op.at \in DOMAIN checkpoints /\ Readable(op.at)
      /\ turns = checkpoints[op.at].turns
      /\ state.messages = checkpoints[op.at].state.messages
  BY <1>2, RestoredTurns
<1>4. /\ InFiles(state.messages, turns)
      /\ Uncut(flaws') => TurnsBegun(state.messages, turns)
  BY <1>2, <1>3, TrustedBefore DEF KeptBubbles
<1>5. ItsBubbles'
  <2>1. turn' = IdleTurn
    BY <1>1, RewindStepAlone DEF IInv, Numbered, Unlink
  <2>2. state.pending = Missing
    BY <1>2 DEF IInv, Restoring
  <2> QED BY <1>2, <2>1, <2>2, NoTurnsBubbles
<1>6. InTheCut'
  BY <1>2 DEF InTheCut
<1> QED BY <1>2, <1>4, <1>5, <1>6

\* The directories that a truncation at a turn removes are those from its cut on.
LEMMA BubblesUnlinked ==
  ASSUME IInv, InTheCut, Unlink, op.kind \in {"turn", "round"}
  PROVE  InTheCut'
<1>1. RewindStep
  BY DEF RewindStep
<1>2. /\ op.pc = "unlink" /\ UNCHANGED <<state, turns, flaws>>
      /\ op'.kind = op.kind /\ op'.cut = op.cut /\ op'.round = op.round
      /\ op.kind = "turn" => op'.pc = "remove" /\ op'.left = Doomed
      /\ op.kind = "round" => op'.pc = "summary"
  <2>1. ~Evict
    BY DEF Unlink, Evict
  <2>2. op \in Op
    BY DEF IInv, TypeOK
  <2>3. op.kind = "turn" => op'.left = Doomed
    BY <2>2 DEF Unlink, Op
  <2>4. UNCHANGED <<state, turns, flaws>>
    BY DEF Unlink
  <2> QED BY <1>1, <2>1, <2>3, <2>4, RewindOrder, RewindGoes
<1>3. CutRound' = CutRound /\ LastKept' = LastKept
  BY <1>2 DEF CutRound, LastKept
<1>4. /\ UpTo(state.messages, op.cut)
      /\ \A i \in DOMAIN state.messages :
           state.messages[i].round # 0 =>
           Earlier(state.messages[i].turn, state.messages[i].round, op.cut, CutRound)
      /\ \A k \in Dirs(turns) : k <= LastKept => 1..k \subseteq Dirs(turns)
      /\ Uncut(flaws) =>
           op.cut <= Users(state.messages, Len(state.messages)) /\ Begun(state.messages)
  BY <1>2 DEF InTheCut, Truncating
<1>5. ASSUME op'.pc \in {"remove", "evict"}, NEW k \in Dirs(turns)
      PROVE  k <= LastKept \/ k \in LeftTurns'
  <2>1. op.kind = "turn" /\ op'.left = Doomed
    BY <1>2, <1>5
  <2>2. k \in TurnNo /\ k \in Nat
    <3>1. turns \in TurnDirs
      BY DEF IInv, TypeOK
    <3> QED BY <1>2, <1>5, <3>1, Everywhere
  <2>3. LastKept \in Nat /\ op.cut \in Nat /\ LastKept = op.cut - 1
    BY <2>1, CutNumbers
  <2>4. k <= LastKept \/ <<"turn", k>> \in Doomed
    BY <1>5, <2>1, <2>2, <2>3, TurnsAmong
  <2> QED BY <2>1, <2>2, <2>4 DEF LeftTurns
<1>6. op'.pc # "evict"
  BY <1>2
<1> QED BY <1>2, <1>3, <1>4, <1>5, <1>6 DEF InTheCut


\* No rewind leaves a bubble without the files of its round.
LEMMA BubblesRewind ==
  ASSUME IInv, Marks, Copied, ClickedAt, KeptBubbles, Bubbles, RewindStep
  PROVE  Bubbles'
<1> SUFFICES ASSUME Trusted(flaws'), state' # Missing, Outside' \/ Truncating'
             PROVE  /\ InFiles(state'.messages, turns')
                    /\ Outside' /\ Uncut(flaws') => TurnsBegun(state'.messages, turns')
                    /\ InTheCut' /\ ItsBubbles'
  BY DEF Bubbles
<1>1. /\ op.kind \in {"turn", "round", "restore"} /\ turn = IdleTurn
      /\ ~Evict => /\ turn' = IdleTurn /\ op'.kind = op.kind /\ op'.cut = op.cut
                   /\ op'.round = op.round
  BY RewindGoes, RewindStepAlone DEF IInv, Numbered
<1>2. ASSUME ~(Unlink /\ op.kind = "restore")
      PROVE  Trusted(flaws) /\ (Uncut(flaws') => Uncut(flaws))
  BY <1>2, FlawsStay, TrustedBefore
<1>3. CASE TakeCheckpoint \/ ReadSession
  <2>1. /\ UNCHANGED <<state, turns, flaws>> /\ op'.pc \in {"clear", "read", "persist"}
        /\ op.pc \in {"checkpoint", "read"} /\ (op'.pc = "clear" => op'.kind = "restore")
    BY <1>1, <1>3, RewindOrder DEF TakeCheckpoint, ReadSession, Evict
  <2>2. op'.pc \in {"read", "persist"} /\ Outside
    BY <2>1 DEF Outside, Truncating
  <2>3. /\ InFiles(state.messages, turns)
        /\ Uncut(flaws) => TurnsBegun(state.messages, turns)
        /\ ItsBubbles
    BY <2>1, <2>2 DEF Bubbles
  <2>4. InTheCut'
    BY <2>2 DEF InTheCut, Truncating
  <2>5. ItsBubbles'
    BY <1>1, <1>3, <2>1, <2>3, NoTurnsBubbles DEF ItsBubbles, TakeCheckpoint, ReadSession, Evict
  <2> QED BY <2>1, <2>3, <2>4, <2>5
<1>4. CASE PersistCut
  BY <1>4, BubblesPersist
<1>5. CASE Unmark
  <2>1. /\ op.pc = "unmark" /\ op'.pc = "unlink" /\ UNCHANGED <<turns, flaws>>
        /\ op.kind \in {"turn", "round"} /\ op'.kind = op.kind /\ op'.cut = op.cut
        /\ op'.round = op.round /\ turn' = IdleTurn
    <3>1. op.pc = "unmark" /\ op'.pc = "unlink" /\ UNCHANGED <<turns, flaws>> /\ ~Evict
      BY <1>5, RewindOrder DEF Evict
    <3> QED BY <1>1, <3>1 DEF Outside, Truncating
  <2>2. state \in States /\ state'.messages = state.messages /\ state'.pending = Missing
    <3>1. state \in States
      BY <2>1 DEF IInv, TypeOK, Cutting
    <3> QED BY <1>5, <3>1 DEF Unmark, States
  <2>3. InFiles(state.messages, turns) /\ InTheCut
    BY <1>2, <1>5, <2>1, <2>2, Absent DEF Bubbles, Truncating, Unmark, Unlink
  <2>4. CutRound' = CutRound /\ LastKept' = LastKept
    BY <2>1 DEF CutRound, LastKept
  <2>5. InTheCut'
    BY <2>1, <2>2, <2>3, <2>4 DEF InTheCut, Truncating
  <2>6. ItsBubbles' /\ ~Outside'
    BY <2>1, <2>2, NoTurnsBubbles DEF Outside
  <2> QED BY <2>1, <2>2, <2>3, <2>5, <2>6
<1>6. CASE Unlink /\ op.kind = "restore"
  BY <1>6, BubblesRestored
<1>7. CASE Unlink /\ op.kind # "restore"
  <2>1. /\ op.pc = "unlink" /\ UNCHANGED <<state, turns, flaws>> /\ op'.pc \in {"remove", "summary"}
        /\ op.kind \in {"turn", "round"} /\ turn' = IdleTurn
    BY <1>1, <1>7, RewindOrder DEF Evict, Unlink
  <2>2. InFiles(state.messages, turns) /\ InTheCut
    BY <1>2, <1>7, <2>1 DEF Bubbles, Truncating
  <2>3. ItsBubbles' /\ ~Outside'
    BY <2>1, NoTurnsBubbles DEF Outside, Marks
  <2> QED BY <1>7, <2>1, <2>2, <2>3, BubblesUnlinked
<1>8. CASE RemoveOne \/ ResetSummary
  <2>1. /\ op.pc \in {"remove", "summary"} /\ op'.pc = "remove" /\ UNCHANGED <<state, flaws>>
        /\ op.kind \in {"turn", "round"} /\ turn' = IdleTurn
    BY <1>1, <1>8, RewindOrder DEF Evict, RemoveOne, ResetSummary
  <2>2. InFiles(state.messages, turns) /\ InTheCut
    BY <1>2, <1>8, <2>1 DEF Bubbles, Truncating, RemoveOne, ResetSummary, Unlink
  <2>3. ItsBubbles' /\ ~Outside'
    BY <2>1, NoTurnsBubbles DEF Outside, Marks
  <2> QED BY <1>8, <2>2, <2>3, InTheCutTrimmed
<1>9. CASE Removed
  <2>1. /\ op.pc = "remove" /\ op'.pc = "evict" /\ UNCHANGED <<state, turns, flaws>>
        /\ op.kind \in {"turn", "round"} /\ turn' = IdleTurn /\ op.left = {} /\ op'.left = {}
        /\ op'.kind = op.kind /\ op'.cut = op.cut /\ op'.round = op.round
    BY <1>1, <1>9, RewindOrder DEF Evict, Removed
  <2>2. InFiles(state.messages, turns) /\ InTheCut
    BY <1>2, <1>9, <2>1 DEF Bubbles, Truncating, Removed, Unlink
  <2>3. CutRound' = CutRound /\ LastKept' = LastKept /\ LeftTurns' = LeftTurns
    BY <2>1 DEF CutRound, LastKept, LeftTurns
  <2>4. InTheCut'
    BY <2>1, <2>2, <2>3 DEF InTheCut, Truncating
  <2>5. ItsBubbles'
    BY <2>1, NoTurnsBubbles DEF Marks
  <2>6. Uncut(flaws) => TurnsBegun(state.messages, turns)
    <3>1. /\ Dirs(turns) = 1..Count(turns) /\ Count(turns) <= LastKept /\ Count(turns) \in Nat
          /\ LastKept \in Nat /\ op.cut \in Nat /\ LastKept <= op.cut
      BY <2>1, <2>2, CutIsDone
    <3>2. Uncut(flaws) => /\ op.cut <= Users(state.messages, Len(state.messages))
                          /\ Begun(state.messages)
      BY <2>1, <2>2 DEF InTheCut, Truncating
    <3>3. Users(state.messages, Len(state.messages)) \in Nat
      <4>1. state \in States
        BY <2>1 DEF IInv, TypeOK, Cutting
      <4> QED BY <4>1, StateFields, LenProperties, CountUsers
    <3>4. Uncut(flaws) => Count(turns) <= Users(state.messages, Len(state.messages))
      BY <3>1, <3>2, <3>3
    <3> QED BY <3>1, <3>2, <3>4 DEF TurnsBegun
  <2> QED BY <2>1, <2>2, <2>4, <2>5, <2>6
<1>10. CASE Evict
  <2>1. Trusted(flaws)
    BY <1>2, <1>10 DEF Evict, Unlink
  <2> QED BY <1>10, <2>1, BubblesEvict
<1>11. ~(ClearOne \/ CopyOne \/ ApplyUpdates)
  <2> SUFFICES ASSUME ClearOne \/ CopyOne \/ ApplyUpdates PROVE FALSE
    OBVIOUS
  <2>1. op'.pc \in {"clear", "copy", "apply", "unmark"} /\ op.kind = "restore"
    BY RewindOrder
  <2>2. ~Evict
    BY DEF Evict, ClearOne, CopyOne, ApplyUpdates
  <2> QED BY <1>1, <2>1, <2>2 DEF Outside, Truncating
<1> QED BY <1>3, <1>4, <1>5, <1>6, <1>7, <1>8, <1>9, <1>10, <1>11 DEF RewindStep


\* The message a frame goes back to is looked up once, and nothing moves it.
LEMMA ClickedAtClicks ==
  ASSUME IInv, Clicks
  PROVE  ClickedAt'
<1>1. ASSUME NEW i \in DOMAIN state.messages, state # Missing, TurnCut(i) \/ RoundCut(i)
      PROVE  ClickedAt'
  <2>1. state'.messages = state.messages /\ state \in States
    <3>1. state \in States
      BY <1>1 DEF IInv, TypeOK
    <3> QED BY <1>1, <3>1 DEF TurnCut, RoundCut, States, diskVars
  <2>2. Distinct(state.messages)
    BY <1>1 DEF IInv, Level, NoTwins, Minted
  <2>3. op'.at = state.messages[i].id
    BY <1>1 DEF TurnCut, RoundCut, IdleOp
  <2>4. state.messages[i].id \in IdsOf(state.messages)
    BY DEF IdsOf
  <2>5. CASE TurnCut(i)
    <3>1. /\ op'.kind = "turn" /\ op'.cut = CutTurn(state.messages, i)
          /\ state.messages[i].role = "user"
      BY <2>5 DEF TurnCut, IdleOp
    <3>2. state.messages[i].turn = None => op'.cut = Users(state.messages, i - 1) + 1
      BY <3>1 DEF CutTurn, Users
    <3> QED BY <2>1, <2>2, <2>3, <2>4, <3>1, <3>2 DEF ClickedAt, Distinct
  <2>6. CASE RoundCut(i)
    <3>1. /\ op'.kind = "round" /\ op'.round = state.messages[i].round
          /\ state.messages[i].role # "user"
      BY <2>6 DEF RoundCut, IdleOp
    <3> QED BY <2>1, <2>2, <2>3, <3>1 DEF ClickedAt, Distinct
  <2> QED BY <1>1, <2>5, <2>6
<1>2. ASSUME NEW k \in DOMAIN checkpoints, Restore(k) PROVE ClickedAt'
  BY <1>2 DEF Restore, ClickedAt, IdleOp
<1> QED BY <1>1, <1>2 DEF Clicks

LEMMA ClickedAtLoop ==
  ASSUME IInv, ClickedAt, RestMessage \/ SetBackend \/ EndVendorSession
  PROVE  ClickedAt'
<1> SUFFICES ASSUME op.kind \in {"turn", "round"} PROVE ClickedAt'
  BY EventLoopSteps DEF ClickedAt
<1> DEFINE ms == state.messages
           us == state'.messages
<1>1. /\ op' = op /\ state \in States /\ ms \in Seq(Message) /\ Len(ms) \in Nat
      /\ DOMAIN ms = 1..Len(ms) /\ ~Locked
  BY EventLoopSteps, InMessages, StateFields
<1>2. op.pc \in {"checkpoint", "read", "evict"}
  BY <1>1 DEF IInv, Cutting, Locked
<1>3. CASE us = ms
  BY <1>1, <1>3 DEF ClickedAt
<1>4. ASSUME NEW msg \in Message, state' = Append1(state, msg), msg.id = minted + 1
      PROVE  ClickedAt'
  <2>1. /\ DOMAIN ms \subseteq DOMAIN us /\ \A i \in DOMAIN ms : us[i] = ms[i]
        /\ \A i \in DOMAIN us : i \in DOMAIN ms \/ us[i] = msg
        /\ IdsOf(ms) \subseteq IdsOf(us)
    <3> DEFINE u == Append1(state, msg)
    <3>1. /\ DOMAIN ms \subseteq DOMAIN u.messages
          /\ \A i \in DOMAIN ms : u.messages[i] = ms[i]
          /\ \A i \in DOMAIN u.messages : i \in DOMAIN ms \/ u.messages[i] = msg
          /\ IdsOf(ms) \subseteq IdsOf(u.messages)
      BY <1>1, Appended
    <3> HIDE DEF u
    <3>2. us = u.messages
      BY <1>4 DEF u
    <3> QED BY <3>1, <3>2
  <2> HIDE DEF ms, us
  <2>2. op.kind = "turn" => op.at \in IdsOf(us)
    BY <2>1 DEF ClickedAt, ms
  <2>3. op.pc \in {"checkpoint", "read"} => op.at # msg.id
    <3>1. op.pc \in {"checkpoint", "read"} => op.at \in IdsOf(ms)
      BY DEF IInv, Cutting, ms
    <3>2. IdsOf(ms) \subseteq 1..minted /\ minted \in Nat
      BY <1>1, Absent, BoundsAssumption DEF IInv, Level, NoTwins, Minted, TypeOK, ms
    <3> QED BY <1>4, <3>1, <3>2
  <2>4. ASSUME NEW i \in DOMAIN us, us[i].id = op.at, op.pc \in {"checkpoint", "read"}
        PROVE  IF op.kind = "turn"
               THEN us[i].role = "user" /\ (us[i].turn = None => op.cut = Users(us, i - 1) + 1)
               ELSE us[i].role # "user" /\ us[i].round = op.round
    <3>1. i \in DOMAIN ms /\ us[i] = ms[i]
      BY <2>1, <2>3, <2>4
    <3>2. i \in 1..Len(ms) /\ i - 1 \in 0..Len(ms)
      BY <1>1, <3>1
    <3>3. Users(us, i - 1) = Users(ms, i - 1)
      <4>1. \A j \in 1..Len(ms) : us[j] = ms[j]
        BY <1>1, <2>1
      <4> QED BY <1>1, <3>2, <4>1, SameUsers
    <3> QED BY <2>4, <3>1, <3>3 DEF ClickedAt, ms
  <2> QED BY <1>1, <1>2, <2>2, <2>4 DEF ClickedAt, us
<1> QED BY <1>3, <1>4, LoopSays


LEMMA ClickedAtRewind ==
  ASSUME IInv, ClickedAt, RewindStep
  PROVE  ClickedAt'
<1> SUFFICES ASSUME op'.kind \in {"turn", "round"} PROVE ClickedAt'
  BY DEF ClickedAt
<1>1. /\ ~Evict /\ op.kind \in {"turn", "round"} /\ op'.kind = op.kind /\ op'.at = op.at
      /\ op'.cut = op.cut /\ op'.round = op.round
  BY RewindGoes DEF IdleOp
<1>2. ~(ClearOne \/ CopyOne \/ ApplyUpdates)
  BY <1>1, RewindOrder
<1>3. CASE PersistCut
  <2>1. op'.pc = "unmark" /\ op.read = state /\ state'.messages = Kept
    <3>1. op'.pc = "unmark" /\ op.read = state /\ state \in States
      BY <1>3, RewindOrder
    <3> QED BY <1>3, <3>1 DEF PersistCut, States
  <2>2. op.kind = "turn" => op.at \in IdsOf(Kept)
    <3> SUFFICES ASSUME op.kind = "turn" PROVE op.at \in IdsOf(Kept)
      OBVIOUS
    <3> DEFINE ms == op.read.messages
               i == IndexOf(ms, op.at)
    <3>1. i \in DOMAIN ms /\ i \in Nat /\ ms[i].id = op.at /\ op.read \in States
      BY <1>1, <1>3, WhatIsRead DEF PersistCut
    <3>2. ms \in Seq(Message) /\ DOMAIN ms = 1..Len(ms) /\ Len(ms) \in Nat
      BY <3>1, StateFields, LenProperties
    <3>3. Kept = SubSeq(ms, 1, i)
      BY DEF Kept
    <3> HIDE DEF ms, i
    <3>4. i \in DOMAIN SubSeq(ms, 1, i) /\ SubSeq(ms, 1, i)[i] = ms[i]
      BY <3>1, <3>2, FewerMessages
    <3> QED BY <3>1, <3>3, <3>4 DEF IdsOf
  <2> QED BY <1>1, <2>1, <2>2 DEF ClickedAt
<1>4. CASE TakeCheckpoint \/ ReadSession
  <2>1. state' = state /\ op.pc \in {"checkpoint", "read"}
    BY <1>4, RewindOrder
  <2> QED BY <1>1, <2>1 DEF ClickedAt
<1>5. CASE Unmark \/ Unlink \/ ResetSummary \/ RemoveOne \/ Removed
  <2>1. op'.pc \in {"unlink", "summary", "remove", "evict"}
    BY <1>1, <1>5, RewindOrder
  <2>2. state'.messages = state.messages
    <3>1. CASE Unmark
      <4>1. state \in States
        BY <1>1 DEF IInv, TypeOK, Cutting
      <4> QED BY <3>1, <4>1 DEF Unmark, States
    <3>2. CASE ~Unmark
      BY <1>5, <3>2, RewindOrder
    <3> QED BY <3>1, <3>2
  <2> QED BY <1>1, <2>1, <2>2 DEF ClickedAt
<1> QED BY <1>2, <1>3, <1>4, <1>5, <1>1 DEF RewindStep

LEMMA ClickedAtStep ==
  ASSUME IInv, ClickedAt, TurnStep \/ RewindStep \/ Event
  PROVE  ClickedAt'
<1>1. CASE TurnStep
  <2>1. op.kind = "none" /\ op' = op
    BY <1>1, TurnStepAlone DEF IInv, Idle
  <2> QED BY <2>1 DEF ClickedAt
<1>2. CASE Crash
  BY <1>2 DEF Crash, ClickedAt, IdleOp
<1> QED BY <1>1, <1>2, ClickedAtClicks, ClickedAtLoop, ClickedAtRewind DEF Event


\* What the REST routes append is no turn's and no round's.
LEMMA LoopKeepsFiles ==
  ASSUME IInv, RestMessage \/ SetBackend \/ EndVendorSession, InFiles(state.messages, turns)
  PROVE  LET ms == state.messages
             us == state'.messages
         IN  /\ InFiles(us, turns)
             /\ \A n \in Nat : UpTo(ms, n) => UpTo(us, n)
             /\ \A i \in DOMAIN us : us[i].round # 0 => \E j \in DOMAIN ms : us[i] = ms[j]
             /\ Users(ms, Len(ms)) \in Nat /\ Users(us, Len(us)) \in Nat
             /\ Users(ms, Len(ms)) <= Users(us, Len(us))
             /\ Begun(ms) => Begun(us)
             /\ TurnsBegun(ms, turns) => TurnsBegun(us, turns)
<1> DEFINE ms == state.messages
           us == state'.messages
<1>1. /\ state \in States /\ ms \in Seq(Message) /\ turns \in TurnDirs /\ None = 0
      /\ Len(ms) \in Nat /\ Users(ms, Len(ms)) \in Nat
  BY EventLoopSteps, InMessages, StateFields, CountUsers DEF IInv, TypeOK, None
<1>2. CASE us = ms
  BY <1>1, <1>2
<1>3. ASSUME NEW msg \in Message, state' = Append1(state, msg), msg.turn = None, msg.round = 0
      PROVE  /\ InFiles(us, turns)
             /\ \A n \in Nat : UpTo(ms, n) => UpTo(us, n)
             /\ \A i \in DOMAIN us : us[i].round # 0 => \E j \in DOMAIN ms : us[i] = ms[j]
             /\ Users(us, Len(us)) \in Nat
             /\ Users(ms, Len(ms)) <= Users(us, Len(us))
             /\ Begun(ms) => Begun(us)
             /\ TurnsBegun(ms, turns) => TurnsBegun(us, turns)
  <2> DEFINE u == Append1(state, msg)
  <2>1. InFiles(u.messages, turns)
    <3>1. 1..(msg.turn - 1) \subseteq Dirs(turns)
      BY <1>1, <1>3
    <3> QED BY <1>1, <1>3, <3>1, InFilesAppended
  <2>2. \A n \in Nat : UpTo(ms, n) => UpTo(u.messages, n)
    <3>1. Ordered(ms)
      BY DEF InFiles
    <3>2. \A n \in Nat : msg.turn <= n
      BY <1>1, <1>3
    <3> QED BY <1>1, <1>3, <3>1, <3>2, AddedInOrder
  <2>3. \A i \in DOMAIN u.messages : u.messages[i].round # 0 =>
          \E j \in DOMAIN ms : u.messages[i] = ms[j]
    <3>1. /\ \A i \in DOMAIN ms : u.messages[i] = ms[i]
          /\ \A i \in DOMAIN u.messages : i \in DOMAIN ms \/ u.messages[i] = msg
      BY <1>1, Appended
    <3> QED BY <1>3, <3>1
  <2>4. /\ Users(u.messages, Len(u.messages)) \in Nat
        /\ Users(ms, Len(ms)) <= Users(u.messages, Len(u.messages))
        /\ Begun(ms) => Begun(u.messages)
        /\ TurnsBegun(ms, turns) => TurnsBegun(u.messages, turns)
    <3>1. msg.turn <= IF msg.role = "user" THEN Users(ms, Len(ms)) + 1 ELSE Users(ms, Len(ms))
      BY <1>1, <1>3
    <3> QED BY <1>1, <3>1, BegunAppended
  <2> HIDE DEF u
  <2>5. us = u.messages
    BY <1>3 DEF u
  <2> QED BY <2>1, <2>2, <2>3, <2>4, <2>5
<1> HIDE DEF ms, us
<1> QED BY <1>1, <1>2, <1>3, LoopSays DEF ms, us

LEMMA BubblesLoop ==
  ASSUME IInv, Bubbles, RestMessage \/ SetBackend \/ EndVendorSession
  PROVE  Bubbles'
<1> DEFINE ms == state.messages
           us == state'.messages
<1> SUFFICES ASSUME Trusted(flaws'), state' # Missing, Outside' \/ Truncating'
             PROVE  /\ InFiles(us, turns')
                    /\ Outside' /\ Uncut(flaws') => TurnsBegun(us, turns')
                    /\ InTheCut' /\ ItsBubbles'
  BY DEF Bubbles
<1>1. /\ op' = op /\ turns' = turns /\ flaws' = flaws /\ state \in States /\ state # Missing
      /\ state'.pending = state.pending /\ turn'.n = turn.n /\ turn'.id = turn.id
      /\ turn'.pc = turn.pc \/ turn'.pc = "exit"
      /\ ~Locked
  BY EventLoopSteps, LoopSays, Absent
<1>2. turn'.r = turn.r
  <2>1. turn \in Turn
    BY DEF IInv, TypeOK
  <2>2. turn' = turn \/ turn' = [turn EXCEPT !.pc = "exit"]
    BY DEF RestMessage, SetBackend, EndVendorSession, memVars
  <2> QED BY <2>1, <2>2 DEF Turn
<1>3. Outside
  BY <1>1 DEF Outside, Truncating, Locked
<1>4. /\ InFiles(ms, turns) /\ (Uncut(flaws) => TurnsBegun(ms, turns))
      /\ InTheCut /\ ItsBubbles
  BY <1>1, <1>3 DEF Bubbles
<1>5. /\ InFiles(us, turns)
      /\ \A n \in Nat : UpTo(ms, n) => UpTo(us, n)
      /\ \A i \in DOMAIN us : us[i].round # 0 => \E j \in DOMAIN ms : us[i] = ms[j]
      /\ Users(ms, Len(ms)) \in Nat /\ Users(us, Len(us)) \in Nat
      /\ Users(ms, Len(ms)) <= Users(us, Len(us))
      /\ Begun(ms) => Begun(us)
      /\ TurnsBegun(ms, turns) => TurnsBegun(us, turns)
  BY <1>4, LoopKeepsFiles
<1>6. InTheCut'
  <2> SUFFICES ASSUME op.kind \in {"turn", "round"}, op.pc = "evict" PROVE InTheCut'
    BY <1>1, <1>3 DEF InTheCut, Truncating, Outside
  <2>1. op.cut \in Nat /\ CutRound' = CutRound /\ LastKept' = LastKept /\ LeftTurns' = LeftTurns
    BY <1>1, CutNumbers DEF CutRound, LastKept, LeftTurns
  <2>2. /\ UpTo(ms, op.cut)
        /\ \A i \in DOMAIN ms :
             ms[i].round # 0 => Earlier(ms[i].turn, ms[i].round, op.cut, CutRound)
        /\ \A k \in Dirs(turns) : k <= LastKept => 1..k \subseteq Dirs(turns)
        /\ \A k \in Dirs(turns) : k <= LastKept \/ k \in LeftTurns
        /\ op.left = {}
        /\ Uncut(flaws) => op.cut <= Users(ms, Len(ms)) /\ Begun(ms)
    BY <1>4 DEF InTheCut
  <2>3. UpTo(us, op.cut)
    BY <1>5, <2>1, <2>2
  <2>4. \A i \in DOMAIN us :
          us[i].round # 0 => Earlier(us[i].turn, us[i].round, op.cut, CutRound)
    BY <1>5, <2>2
  <2>5. Uncut(flaws) => op.cut <= Users(us, Len(us)) /\ Begun(us)
    <3>1. op.cut <= Users(ms, Len(ms)) => op.cut <= Users(us, Len(us))
      BY <1>5, <2>1
    <3> QED BY <1>5, <2>2, <3>1
  <2> HIDE DEF ms, us
  <2> QED BY <1>1, <2>1, <2>2, <2>3, <2>4, <2>5 DEF InTheCut, us
<1>7. ItsBubbles'
  <2>1. state.pending # Missing =>
          UpTo(us, state.pending.n) /\ 1..state.pending.n \subseteq Dirs(turns)
    <3>1. state.pending \in Widgets \cup {Missing}
      BY <1>1, StateFields
    <3>2. state.pending # Missing => state.pending.n \in Nat
      BY <3>1 DEF Widgets, TurnNo
    <3> QED BY <1>4, <1>5, <3>2 DEF ItsBubbles
  <2>2. turn.n # None => UpTo(us, turn.n) /\ 1..turn.n \subseteq Dirs(turns)
    <3>1. turn.n \in Nat
      BY TurnFields DEF IInv, TypeOK, TurnNo, None
    <3> QED BY <1>4, <1>5, <3>1 DEF ItsBubbles
  <2>3. turn'.n = None /\ turn'.pc \in {"stamped", "failed", "reporting"} =>
          /\ Dirs(turns) = 1..Count(turns)
          /\ Uncut(flaws) => Count(turns) + 1 <= Users(us, Len(us))
    <3>1. Count(turns) \in Nat
      BY Counted DEF IInv, TypeOK
    <3>2. Count(turns) + 1 <= Users(ms, Len(ms)) => Count(turns) + 1 <= Users(us, Len(us))
      BY <1>5, <3>1
    <3> QED BY <1>1, <1>4, <3>2 DEF ItsBubbles
  <2>4. InRound' => InRound
    BY <1>1, <1>2 DEF InRound
  <2>5. InRound => \A i \in DOMAIN us :
          us[i].round # 0 /\ us[i].turn = turn.n => us[i].round < turn.r \/ us[i].id = turn.id
    BY <1>4, <1>5 DEF ItsBubbles
  <2> HIDE DEF ms, us
  <2> QED BY <1>1, <1>2, <2>1, <2>2, <2>3, <2>4, <2>5 DEF ItsBubbles, us, Count
<1> QED BY <1>1, <1>4, <1>5, <1>6, <1>7


LEMMA BubblesTurn ==
  ASSUME IInv, Marks, Trusted(flaws) => FollowsOn, Bubbles, TurnStep
  PROVE  Bubbles'
<1> SUFFICES ASSUME Trusted(flaws'), state' # Missing, Outside' \/ Truncating'
             PROVE  /\ InFiles(state'.messages, turns')
                    /\ Outside' /\ Uncut(flaws') => TurnsBegun(state'.messages, turns')
                    /\ InTheCut' /\ ItsBubbles'
  BY DEF Bubbles
<1>1. state \in States /\ state # Missing /\ op.pc = "idle" /\ op' = op
  BY TurnStepAlone, Absent
<1>2. Trusted(flaws) /\ (Uncut(flaws') => Uncut(flaws))
  <2>1. flaws \subseteq flaws'
    BY TurnNumber
  <2> QED BY <2>1, TrustedBefore
<1>3. /\ InFiles(state.messages, turns) /\ ItsBubbles
      /\ Uncut(flaws) => TurnsBegun(state.messages, turns)
  BY <1>1, <1>2 DEF Bubbles, Outside
<1>4. InTheCut'
  BY <1>1 DEF InTheCut, Truncating
<1>5. InFiles(state'.messages, turns')
  BY <1>2, <1>3, InFilesTurn
<1>6. ItsBubbles'
  BY <1>3, ItsBubblesTurn
<1>7. Uncut(flaws') => TurnsBegun(state'.messages, turns')
  BY <1>2, <1>3, BegunTurn
<1> QED BY <1>4, <1>5, <1>6, <1>7

\* A frame finds the history and the widget as they are.
LEMMA ClicksShow ==
  ASSUME IInv, Clicks
  PROVE  \/ state' = state
         \/ /\ state # Missing /\ state'.messages = state.messages
            /\ state'.pending = state.pending
<1>1. ASSUME NEW i \in DOMAIN state.messages, state # Missing, TurnCut(i) \/ RoundCut(i)
      PROVE  state'.messages = state.messages /\ state'.pending = state.pending
  <2>1. state \in States
    BY <1>1 DEF IInv, TypeOK
  <2> QED BY <1>1, <2>1 DEF TurnCut, RoundCut, States, diskVars
<1>2. ASSUME NEW k \in DOMAIN checkpoints, Restore(k) PROVE state' = state
  BY <1>2 DEF Restore
<1> QED BY <1>1, <1>2 DEF Clicks

LEMMA BubblesClicks ==
  ASSUME IInv, Bubbles, Clicks
  PROVE  Bubbles'
<1> SUFFICES ASSUME Trusted(flaws'), state' # Missing
             PROVE  /\ InFiles(state'.messages, turns')
                    /\ Uncut(flaws') => TurnsBegun(state'.messages, turns')
                    /\ InTheCut' /\ ItsBubbles'
  BY DEF Bubbles
<1>1. /\ turn.pc = "idle" /\ op.pc = "idle" /\ UNCHANGED <<turns, turn, flaws>>
  BY ClickAlone
<1>2. state # Missing /\ state'.messages = state.messages /\ state'.pending = state.pending
  BY ClicksShow
<1>3. /\ InFiles(state.messages, turns) /\ ItsBubbles
      /\ Uncut(flaws) => TurnsBegun(state.messages, turns)
  BY <1>1, <1>2 DEF Bubbles, Outside
<1>4. op'.pc = "checkpoint"
  BY DEF Clicks, TurnCut, RoundCut, Restore, IdleOp
<1>5. InTheCut'
  BY <1>4 DEF InTheCut, Truncating
<1>6. ItsBubbles'
  <2>1. turn' = IdleTurn
    BY <1>1 DEF IInv, Numbered
  <2> QED BY <1>1, <1>2, <1>3, <2>1, NoTurnsBubbles DEF ItsBubbles
<1> QED BY <1>1, <1>2, <1>3, <1>5, <1>6

LEMMA BubblesCrash ==
  ASSUME IInv, Bubbles, Crash
  PROVE  Bubbles'
<1> SUFFICES ASSUME Trusted(flaws'), state' # Missing
             PROVE  /\ InFiles(state'.messages, turns')
                    /\ Uncut(flaws') => TurnsBegun(state'.messages, turns')
                    /\ InTheCut' /\ ItsBubbles'
  BY DEF Bubbles
<1>1. UNCHANGED <<state, turns>> /\ turn' = IdleTurn /\ op' = IdleOp /\ flaws \subseteq flaws'
  BY DEF Crash, diskVars
<1>2. Trusted(flaws) /\ (Uncut(flaws') => Uncut(flaws))
  BY <1>1, TrustedBefore
<1>3. /\ op \in Op /\ op.kind \in {"none", "turn", "round", "restore"}
      /\ op.kind = "none" => op.pc = "idle"
  BY OpFields DEF IInv, TypeOK, Idle
<1>4. Outside \/ Truncating
  <2>1. CASE op.kind = "none"
    BY <1>3, <2>1 DEF Outside
  <2>2. CASE op.kind \in {"turn", "round"}
    <3>1. op.pc \in {"checkpoint", "read", "persist", "unmark", "unlink", "remove", "evict",
                     "summary"}
      BY <2>2 DEF IInv, Cutting
    <3> QED BY <2>2, <3>1 DEF Outside, Truncating
  <2>3. CASE op.kind = "restore"
    <3>1. op.pc \in {"checkpoint", "clear", "copy", "apply", "unmark", "unlink", "evict"}
      BY <2>3 DEF IInv, Restoring
    <3>2. "restore" \notin flaws'
      BY DEF Trusted
    <3>3. op.pc \notin {"clear", "copy", "apply", "unmark", "unlink"}
      BY <2>3, <3>2 DEF Crash
    <3> QED BY <3>1, <3>3 DEF Outside
  <2> QED BY <1>3, <2>1, <2>2, <2>3
<1>5. /\ InFiles(state.messages, turns) /\ ItsBubbles
      /\ Outside /\ Uncut(flaws) => TurnsBegun(state.messages, turns)
  BY <1>1, <1>2, <1>4 DEF Bubbles
<1>6. Uncut(flaws') => Outside
  <2>1. Uncut(flaws') => "cut" \notin flaws'
    BY DEF Uncut
  <2>2. Truncating => "cut" \in flaws'
    BY DEF Crash, Truncating
  <2> QED BY <1>4, <2>1, <2>2
<1>7. InTheCut'
  BY <1>1 DEF InTheCut, IdleOp
<1>8. ItsBubbles'
  BY <1>1, <1>5, NoTurnsBubbles DEF ItsBubbles
<1> QED BY <1>1, <1>2, <1>5, <1>6, <1>7, <1>8

LEMMA KeptBubblesStep ==
  ASSUME IInv, KeptBubbles, Bubbles, TurnStep \/ RewindStep \/ Event
  PROVE  KeptBubbles'
<1>1. CASE RewindStep
  BY <1>1, KeptBubblesRewind
<1>2. CASE TurnStep \/ Event
  <2>1. UNCHANGED checkpoints
    <3>1. CASE TurnStep
      BY <3>1, TurnStepAlone
    <3>2. CASE Event
      BY <3>2, EventLoopSteps, ClickAlone DEF Event, Crash, diskVars
    <3> QED BY <1>2, <3>1, <3>2
  <2> QED BY <2>1 DEF KeptBubbles, Readable
<1> QED BY <1>1, <1>2


\* A round that is cut at has its files before it: it has a bubble.
LEMMA BubblesFollowOn ==
  ASSUME IInv, Marks, Trusted(flaws) => FollowsOn, Bubbles,
         TurnStep \/ RewindStep \/ Event, Trusted(flaws')
  PROVE  FollowsOn'
<1>1. FollowsOn \/ (RewindStep /\ Unlink /\ op.kind = "restore")
  BY FlawsStay, TrustedBefore
<1>2. ASSUME Clicks, op'.kind = "round" PROVE Whole(turns, op'.cut, op'.round - 1)
  <2>1. state # Missing /\ op.pc = "idle" /\ turns \in TurnDirs /\ Trusted(flaws)
    BY <1>2, ClickAlone DEF Clicks, TurnCut, RoundCut, Restore, IdleOp, IInv, TypeOK
  <2>2. PICK i \in DOMAIN state.messages : RoundCut(i)
    BY <1>2 DEF Clicks, TurnCut, Restore, IdleOp
  <2> DEFINE msg == state.messages[i]
  <2>3. /\ msg.turn \in Dirs(turns) /\ msg.round \in Dirs(turns[msg.turn].rounds)
        /\ op'.cut = msg.turn /\ op'.round = msg.round
    BY <2>2 DEF RoundCut, IdleOp
  <2>4. InFiles(state.messages, turns)
    BY <2>1 DEF Bubbles, Outside
  <2>5. msg.round # 0 => HasFiles(msg, turns)
    BY <2>4 DEF InFiles
  <2> HIDE DEF msg
  <2>6. msg.round # 0
    BY <2>1, <2>3, Everywhere
  <2> QED BY <2>3, <2>5, <2>6 DEF HasFiles
<1>3. "restore" \notin flaws'
  BY DEF Trusted
<1> QED BY <1>1, <1>2, <1>3, FollowsOnStep

\* The bubbles and their files at every step.
LEMMA BubblesAlways == Spec => []BubbleInv
<1>1. Init => BubbleInv
  <2> SUFFICES ASSUME Init PROVE BubbleInv
    OBVIOUS
  <2>1. /\ op = IdleOp /\ turn = IdleTurn /\ checkpoints = <<>> /\ Dirs(turns) = {}
        /\ state.messages = <<>> /\ state.pending = Missing
    BY DEF Init, Dirs
  <2>2. KeptBubbles /\ ClickedAt /\ InTheCut
    BY <2>1 DEF KeptBubbles, ClickedAt, InTheCut, IdleOp
  <2>3. FollowsOn
    BY <2>1 DEF FollowsOn, IdleOp, IdleTurn, InRound
  <2>4. ItsBubbles
    BY <2>1 DEF ItsBubbles, IdleTurn, InRound
  <2>5. InFiles(state.messages, turns) /\ TurnsBegun(state.messages, turns)
    <3>1. Count(turns) = 0
      BY <2>1, FS_EmptySet DEF Count
    <3>2. Users(state.messages, Len(state.messages)) \in Nat
      BY <2>1, LenProperties, CountUsers
    <3>3. InFiles(state.messages, turns) /\ Begun(state.messages)
      BY <2>1 DEF InFiles, Ordered, Ascending, Begun
    <3> QED BY <2>1, <3>1, <3>2, <3>3 DEF TurnsBegun
  <2> QED BY <2>2, <2>3, <2>4, <2>5 DEF BubbleInv, Bubbles
<1>2. IInv /\ InSummary /\ SopInv /\ BubbleInv /\ [Next]_vars => BubbleInv'
  <2>1. ASSUME IInv, InSummary, SopInv, BubbleInv, TurnStep \/ RewindStep \/ Event
        PROVE  BubbleInv'
    <3>1. Trusted(flaws') => FollowsOn'
      BY <2>1, BubblesFollowOn DEF SopInv, BubbleInv
    <3>2. KeptBubbles' /\ ClickedAt'
      BY <2>1, KeptBubblesStep, ClickedAtStep DEF BubbleInv
    <3>3. Bubbles'
      <4>1. CASE TurnStep
        BY <2>1, <4>1, BubblesTurn DEF SopInv, BubbleInv
      <4>2. CASE RewindStep
        BY <2>1, <4>2, BubblesRewind DEF SopInv, InSummary, BubbleInv
      <4>3. CASE Event
        BY <2>1, <4>3, BubblesLoop, BubblesClicks, BubblesCrash DEF Event, BubbleInv
      <4> QED BY <2>1, <4>1, <4>2, <4>3
    <3> QED BY <3>1, <3>2, <3>3 DEF BubbleInv
  <2>2. ASSUME BubbleInv, UNCHANGED vars PROVE BubbleInv'
    <3> USE DEF vars, diskVars, memVars, histVars
    <3>1. KeptBubbles' /\ ClickedAt'
      BY <2>2 DEF BubbleInv, KeptBubbles, ClickedAt, Readable
    <3>2. (Trusted(flaws) => FollowsOn)'
      BY <2>2 DEF BubbleInv, FollowsOn, InRound, Replacing
    <3>3. Bubbles'
      <4>1. (InTheCut => InTheCut') /\ (ItsBubbles => ItsBubbles')
        BY <2>2 DEF InTheCut, ItsBubbles, Truncating, CutRound, LastKept, LeftTurns, InRound, Count
      <4> QED BY <2>2, <4>1 DEF BubbleInv, Bubbles, Outside, Truncating
    <3> QED BY <3>1, <3>2, <3>3 DEF BubbleInv
  <2> QED BY <2>1, <2>2, Steps
<1> QED BY <1>1, <1>2, Invariance, InSummaryAlways, SopAlways, PTL DEF Spec

\* Every bubble in the history has the files of its round, at every moment of a
\* truncation and after a crash at any point of it: what the cut takes is out of the
\* history before its directories are removed. So it is in every session but one
\* that a crash left inside a restore, or in which a round was run twice or a turn
\* was numbered over a gap.
THEOREM BubblesAreFiled == Spec => []BubblesHaveRounds
<1>1. IInv /\ BubbleInv => BubblesHaveRounds
  <2> SUFFICES ASSUME IInv, BubbleInv, state # Missing, Trusted(flaws), ~Replacing,
                      NEW m \in Range(state.messages), m.round # 0
               PROVE  /\ m.turn \in Dirs(turns) /\ m.round \in Dirs(turns[m.turn].rounds)
                      /\ m.role = "assistant" => m.id \in turns[m.turn].rounds[m.round].saved
    BY DEF BubblesHaveRounds, Trusted
  <2>1. Outside \/ Truncating
    <3>1. op.kind \in {"none", "turn", "round", "restore"} /\ (op.kind = "none" => op.pc = "idle")
      BY OpFields DEF IInv, TypeOK, Idle
    <3> QED BY <3>1 DEF IInv, Cutting, Replacing, Outside, Truncating
  <2>2. InFiles(state.messages, turns)
    BY <2>1 DEF BubbleInv, Bubbles
  <2>3. HasFiles(m, turns)
    BY <2>2 DEF InFiles, Range
  <2> QED BY <2>3 DEF HasFiles
<1> QED BY <1>1, Invariance, BubblesAlways, PTL

-----------------------------------------------------------------------------
(* The vendor session and its record.                                      *)

\* The bubbles of a history, with their turns: what a fresh vendor session is told.
Told(ms) == {<<m.turn, m.id>> : m \in {x \in Range(ms) : x.role = "assistant" /\ x.turn # None}}

\* A human's message comes after the bubbles of earlier turns only, and the
\* turns of the bubbles have their directories.
After(ms) == \A i, j \in DOMAIN ms :
  i < j /\ ms[i].role = "assistant" /\ ms[j].role = "user" /\ ms[j].turn # None =>
  ms[i].turn < ms[j].turn
Begin(ms, t) == \A x \in Told(ms) : x[1] \in Dirs(t)

\* What a vendor session remembers has its bubble, or the files of its round.
FilesOf(t, k) == UNION {t[k].rounds[r].saved : r \in Dirs(t[k].rounds)}
Held(ms, t, known) == \A x \in known \ Told(ms) : x[1] \in Dirs(t) /\ x[2] \in FilesOf(t, x[1])

Clean(f) == f \subseteq {"rerun"}

\* A record is what its vendor session remembers: that of the session unless it
\* is behind or a restore has yet to apply the fork, that of the fork, and that
\* of a checkpoint which is restored without one.
Current(v, r) == r # Missing => v[r.gen] = r.known
Unforked == op.kind = "restore" /\ op.pc \in {"copy", "apply"} /\ op.record # Missing
Recorded ==
  /\ "behind" \notin flaws /\ state # Missing /\ ~Unforked => Current(vendor, state.record)
  /\ Current(vendor, op.record)
  /\ op.kind = "restore" /\ op.record = Missing /\ op.pc # "evict" /\ "behind" \notin flaws =>
       Current(vendor, checkpoints[op.at].state.record)

\* A restore puts the record of the checkpoint back, or that of the fork made of
\* it, and the backend; no switch of the backend waits meanwhile.
PutRecord ==
  /\ op.kind # "restore" => op.record = Missing
  /\ op.kind = "restore" =>
     LET s == checkpoints[op.at].state
         back == op.pc \in {"copy", "apply", "unmark", "unlink"} /\ state # Missing
     IN  /\ op.record # Missing =>
              /\ s.record # Missing
              /\ op.record.known = Fork(s.record, Count(checkpoints[op.at].turns) + 1)
         /\ back => state.backend = s.backend
         /\ back => state.record = IF op.record = Missing \/ op.pc \in {"copy", "apply"}
                                   THEN s.record ELSE op.record
         /\ op.pc # "evict" => ~ending

\* The bubbles come in the order of the turns, in every checkpoint and in the
\* session; a truncation has kept those of the turns it keeps.
BubblesInTurn ==
  /\ \A k \in DOMAIN checkpoints :
       LET c == checkpoints[k]
       IN  Readable(k) /\ Sound(c.flaws) =>
           After(c.state.messages) /\ Begin(c.state.messages, c.turns)
  /\ Sound(flaws) /\ state # Missing =>
       /\ Outside \/ Truncating => After(state.messages)
       /\ Outside => Begin(state.messages, turns)
       /\ Truncating => \A x \in Told(state.messages) : x[1] <= LastKept

\* The record of a session, and of a checkpoint, is in step with the history: of a
\* session whose backend is no longer native only until the switch ends it, and
\* before the cut of a truncation only in the turns that are kept.
ToCut == op.kind = "turn" /\ op.pc \in {"checkpoint", "read", "persist"}
CopiesInStep ==
  \A k \in DOMAIN checkpoints :
    LET c == checkpoints[k]
    IN  Readable(k) /\ Clean(c.flaws) /\ c.state.record # Missing =>
        /\ c.state.backend = "native" /\ Told(c.state.messages) \subseteq c.state.record.known
        /\ Held(c.state.messages, c.turns, c.state.record.known)
InStep ==
  Clean(flaws) /\ state # Missing /\ state.record # Missing /\ (Outside \/ Truncating) =>
  /\ state.backend = "classic" => ending
  /\ state.backend = "native" =>
       /\ Held(state.messages, turns, state.record.known)
       /\ \A x \in Told(state.messages) : (ToCut => x[1] < op.cut) => x \in state.record.known
       /\ op.kind # "round"
       /\ op.kind = "turn" => \A x \in state.record.known : x[1] < op.cut
       /\ turn.pc = "saved" => <<turn.n, turn.id>> \in state.record.known

VendorInv == Recorded /\ PutRecord /\ BubblesInTurn /\ CopiesInStep /\ InStep

\* What is in the recap.
LEMMA InTold ==
  ASSUME NEW ms, NEW x
  PROVE  x \in Told(ms) <=> \E m \in Range(ms) : /\ m.role = "assistant" /\ m.turn # None
                                                 /\ x = <<m.turn, m.id>>
BY DEF Told

\* The bubbles of a history have turns and ids, and more messages tell more.
LEMMA ToldFields ==
  ASSUME NEW ms \in Seq(Message)
  PROVE  /\ \A x \in Told(ms) : x \in TurnNo \X Id /\ x[1] \in TurnNo /\ x[1] \in Nat /\ x[1] > 0
         /\ \A us : Range(ms) \subseteq Range(us) => Told(ms) \subseteq Told(us)
<1>1. Range(ms) \subseteq Message
  BY ElementOfSeq DEF Range
<1>2. ASSUME NEW x \in Told(ms)
      PROVE  x \in TurnNo \X Id /\ x[1] \in TurnNo /\ x[1] \in Nat /\ x[1] > 0
  <2>1. PICK m \in Message : m.turn # None /\ x = <<m.turn, m.id>>
    BY <1>1, InTold
  <2>2. m.turn \in TurnNo /\ m.id \in Id
    BY <2>1 DEF Message
  <2>3. m.turn \in Nat /\ m.turn > 0
    BY <2>2 DEF TurnNo
  <2> QED BY <2>1, <2>2, <2>3
<1>3. \A us : Range(ms) \subseteq Range(us) => Told(ms) \subseteq Told(us)
  BY InTold
<1> QED BY <1>2, <1>3

\* A message that is appended may be told, and comes after the bubbles it is told after.
LEMMA ToldAppended ==
  ASSUME NEW s \in States, NEW msg \in Message
  PROVE  LET us == Append1(s, msg).messages
         IN  /\ us \in Seq(Message) /\ Told(s.messages) \subseteq Told(us)
             /\ \A x \in Told(us) : x \in Told(s.messages)
                                    \/ (msg.role = "assistant" /\ x = <<msg.turn, msg.id>>)
             /\ After(s.messages)
                  /\ (msg.role = "user" /\ msg.turn # None =>
                        \A x \in Told(s.messages) : x[1] < msg.turn)
                  => After(us)
<1> DEFINE ms == s.messages
           us == Append1(s, msg).messages
<1>1. ms \in Seq(Message) /\ us \in Seq(Message) /\ Range(ms) \subseteq Range(us)
  BY StateFields, AppendedType, Appended
<1>2. /\ DOMAIN ms = 1..Len(ms) /\ Len(ms) \in Nat
      /\ \A i \in DOMAIN ms : us[i] = ms[i] /\ ms[i] \in Message
      /\ \A i \in DOMAIN us : i \in DOMAIN ms \/ (i = Len(ms) + 1 /\ us[i] = msg)
  BY Appended, InMessages
<1>3. Told(ms) \subseteq Told(us)
  BY <1>1, ToldFields
<1> HIDE DEF us
<1>4. \A x \in Told(us) : x \in Told(ms) \/ (msg.role = "assistant" /\ x = <<msg.turn, msg.id>>)
  <2> SUFFICES ASSUME NEW x \in Told(us)
               PROVE  x \in Told(ms) \/ (msg.role = "assistant" /\ x = <<msg.turn, msg.id>>)
    OBVIOUS
  <2>1. PICK i \in DOMAIN us : /\ us[i].role = "assistant" /\ us[i].turn # None
                               /\ x = <<us[i].turn, us[i].id>>
    BY InTold DEF Range
  <2>2. CASE i \in DOMAIN ms
    <3>1. ms[i] \in Range(ms) /\ us[i] = ms[i]
      BY <1>2, <2>2 DEF Range
    <3> QED BY <2>1, <3>1, InTold
  <2> QED BY <1>2, <2>1, <2>2
<1>5. ASSUME After(ms),
             msg.role = "user" /\ msg.turn # None => \A x \in Told(ms) : x[1] < msg.turn
      PROVE  After(us)
  <2> SUFFICES ASSUME NEW i \in DOMAIN us, NEW j \in DOMAIN us, i < j,
                      us[i].role = "assistant", us[j].role = "user", us[j].turn # None
               PROVE  us[i].turn < us[j].turn
    BY DEF After
  <2>1. CASE j \in DOMAIN ms
    <3>1. i \in DOMAIN ms
      BY <1>2, <2>1
    <3> QED BY <1>2, <1>5, <2>1, <3>1 DEF After
  <2>2. CASE j \notin DOMAIN ms
    <3>1. us[j] = msg /\ i \in DOMAIN ms
      BY <1>2, <2>2
    <3>2. us[i] = ms[i] /\ ms[i] \in Message /\ ms[i] \in Range(ms)
      BY <1>2, <3>1 DEF Range
    <3>3. CASE ms[i].turn = None
      <4>1. msg.turn \in Nat /\ msg.turn # 0 /\ None = 0
        BY <3>1, MessageFields DEF None
      <4> QED BY <3>1, <3>2, <3>3, <4>1
    <3>4. CASE ms[i].turn # None
      <4>1. <<ms[i].turn, ms[i].id>> \in Told(ms)
        BY <3>2, <3>4, InTold
      <4> QED BY <1>5, <3>1, <3>2, <4>1
    <3> QED BY <3>3, <3>4
  <2> QED BY <2>1, <2>2
<1> QED BY <1>1, <1>3, <1>4, <1>5 DEF us

\* What is held stays held when the history and the files grow.
LEMMA HeldGrows ==
  ASSUME NEW t \in TurnDirs, NEW u \in TurnDirs, Grows(t, u),
         NEW ms, NEW us, Told(ms) \subseteq Told(us), NEW known, Held(ms, t, known)
  PROVE  Held(us, u, known)
<1> SUFFICES ASSUME NEW x \in known \ Told(us)
             PROVE  x[1] \in Dirs(u) /\ x[2] \in FilesOf(u, x[1])
  BY DEF Held
<1>1. x[1] \in Dirs(t) /\ x[2] \in FilesOf(t, x[1])
  BY DEF Held
<1>2. PICK r \in Dirs(t[x[1]].rounds) : x[2] \in t[x[1]].rounds[r].saved
  BY <1>1 DEF FilesOf
<1>3. x[1] \in Dirs(u) /\ r \in Dirs(u[x[1]].rounds) /\ x[2] \in u[x[1]].rounds[r].saved
  BY <1>1, <1>2 DEF Grows
<1> QED BY <1>3 DEF FilesOf

\* ... and when only later turns are removed.
LEMMA HeldTrimmed ==
  ASSUME NEW t, NEW u, NEW c \in Nat, NEW d \in Nat, Trimmed(t, u, c, d), t \in TurnDirs,
         NEW ms, NEW known \in Memory, Held(ms, t, known), \A x \in known : x[1] < c
  PROVE  Held(ms, u, known)
<1> SUFFICES ASSUME NEW x \in known \ Told(ms)
             PROVE  x[1] \in Dirs(u) /\ x[2] \in FilesOf(u, x[1])
  BY DEF Held
<1>1. x[1] \in Dirs(t) /\ x[2] \in FilesOf(t, x[1]) /\ x[1] < c
  BY DEF Held
<1>2. PICK r \in Dirs(t[x[1]].rounds) : x[2] \in t[x[1]].rounds[r].saved
  BY <1>1 DEF FilesOf
<1>3. x[1] \in Dirs(u) /\ r \in Dirs(u[x[1]].rounds)
  BY <1>1, <1>2 DEF Trimmed, Earlier
<1>4. u[x[1]].rounds[r] = t[x[1]].rounds[r]
  BY <1>3 DEF Trimmed
<1> QED BY <1>2, <1>3, <1>4 DEF FilesOf

\* A rewind keeps the fork it made.
LEMMA ForkStays ==
  ASSUME IInv, RewindStep
  PROVE  Evict \/ op'.record = op.record
<1>1. op \in Op
  BY DEF IInv, TypeOK
<1>2. TakeCheckpoint \/ ReadSession \/ PersistCut \/ Unmark \/ Unlink \/ ResetSummary \/ RemoveOne
        \/ Removed => op'.record = op.record
  BY <1>1 DEF Op, TakeCheckpoint, ReadSession, PersistCut, Unmark, Unlink, ResetSummary, RemoveOne,
              Removed
<1>3. ClearOne \/ CopyOne \/ ApplyUpdates => op'.record = op.record
  BY <1>1 DEF Op, ClearOne, CopyOne, ApplyUpdates
<1> QED BY <1>2, <1>3 DEF RewindStep

\* What a restore does to the session state, file by file.
LEMMA StatePutBack ==
  ASSUME IInv, RewindStep, op.kind = "restore", ~Evict
  PROVE  /\ op'.kind = "restore" /\ op'.at = op.at /\ op.at \in DOMAIN checkpoints
         /\ checkpoints'[op.at] = checkpoints[op.at] /\ op'.record = op.record
         /\ op'.pc = "copy" => state' = Missing \/ state' = checkpoints[op.at].state
                               \/ (op.pc = "copy" /\ state' = state)
         /\ op'.pc = "apply" => op.pc = "copy" /\ state' = state
         /\ op'.pc = "unmark" =>
              /\ op.pc = "apply" /\ state \in States /\ state'.backend = state.backend
              /\ state'.record = IF op.record = Missing THEN state.record ELSE op.record
         /\ op'.pc = "unlink" =>
              /\ op.pc = "unmark" /\ state \in States /\ state'.backend = state.backend
              /\ state'.record = state.record
         /\ op'.pc = "evict" => op.pc = "unlink" /\ Unlink /\ state' = state /\ state # Missing
<1>1. /\ op \in Op /\ state \in States \cup {Missing} /\ Restoring /\ Backed /\ Cutting
  BY DEF IInv, TypeOK
<1>2. /\ op'.kind = "restore" /\ op'.at = op.at /\ op.at \in DOMAIN checkpoints
      /\ checkpoints'[op.at] = checkpoints[op.at] /\ op'.record = op.record
  BY <1>1, RewindGoes, CheckpointsStay, ForkStays DEF Restoring
<1>3. ~(ReadSession \/ PersistCut \/ ResetSummary \/ RemoveOne \/ Removed)
  BY RewindOrder
<1>4. CASE TakeCheckpoint
  BY <1>2, <1>4, RewindOrder
<1>5. CASE Unmark
  <2>1. op.pc = "unmark" /\ op'.pc = "unlink" /\ state \in States
    BY <1>1, <1>5, RewindOrder DEF Restoring
  <2>2. state' = [state EXCEPT !.pending = Missing]
    BY <1>5 DEF Unmark
  <2>3. state'.record = state.record /\ state'.backend = state.backend
    BY <2>1, <2>2 DEF States
  <2> QED BY <1>2, <2>1, <2>3
<1>6. CASE Unlink
  <2>1. op.pc = "unlink" /\ op'.pc = "evict" /\ UNCHANGED state /\ state # Missing
    BY <1>1, <1>6, RewindOrder DEF Restoring
  <2> QED BY <1>2, <1>6, <2>1
<1>7. CASE ClearOne
  <2>1. op.pc = "clear" /\ op'.pc \in {"clear", "copy"}
    BY <1>7, RewindOrder
  <2>2. op'.pc = "copy" => state' = Missing
    <3> SUFFICES ASSUME op'.pc = "copy" PROVE state' = Missing
      OBVIOUS
    <3>1. op.left = {} /\ UNCHANGED state
      BY <1>1, <1>7, <2>1 DEF ClearOne, Op
    <3> QED BY <1>1, <2>1, <3>1 DEF Backed
  <2> QED BY <1>2, <2>1, <2>2
<1>8. CASE CopyOne
  <2>1. op.pc = "copy" /\ op'.pc \in {"copy", "apply"}
    BY <1>8, RewindOrder
  <2>2. state' = state \/ state' = checkpoints[op.at].state
    BY <1>8 DEF CopyOne
  <2>3. op'.pc = "apply" => state' = state
    BY <1>1, <1>8, <2>1 DEF CopyOne, Op
  <2> QED BY <1>2, <2>1, <2>2, <2>3
<1>9. CASE ApplyUpdates
  <2>1. op.pc = "apply" /\ op'.pc = "unmark" /\ state \in States
    BY <1>1, <1>9, RewindOrder DEF Restoring
  <2>2. state' = IF op.record = Missing THEN state ELSE [state EXCEPT !.record = op.record]
    BY <1>9 DEF ApplyUpdates
  <2>3. /\ state'.backend = state.backend
        /\ state'.record = IF op.record = Missing THEN state.record ELSE op.record
    BY <2>1, <2>2 DEF States
  <2> QED BY <1>2, <2>1, <2>3
<1> QED BY <1>3, <1>4, <1>5, <1>6, <1>7, <1>8, <1>9 DEF RewindStep

\* What a restore puts back is what the checkpoint has, with the record of its fork.
LEMMA PutRecordStep ==
  ASSUME IInv, PutRecord, TurnStep \/ RewindStep \/ Event
  PROVE  PutRecord'
<1>1. op \in Op /\ Idle /\ Restoring
  BY DEF IInv, TypeOK
<1>2. CASE TurnStep
  <2>1. op.pc = "idle" /\ UNCHANGED op
    BY <1>2, TurnStepAlone
  <2>2. op.kind = "none"
    BY <1>1, <2>1 DEF Idle
  <2> QED BY <2>1, <2>2 DEF PutRecord
<1>3. CASE RewindStep
  <2>1. CASE Evict
    <3>1. op' = IdleOp
      BY <1>3, <2>1, RewindGoes
    <3> QED BY <3>1 DEF PutRecord, IdleOp
  <2>2. CASE op.kind # "restore" /\ ~Evict
    <3>1. op'.kind = op.kind /\ op'.record = op.record
      BY <1>3, <2>2, RewindGoes, ForkStays
    <3> QED BY <2>2, <3>1 DEF PutRecord
  <2>3. CASE op.kind = "restore" /\ ~Evict
    <3> DEFINE c == checkpoints[op.at]
    <3>1. ending' = ending
      BY <1>3, RewindStepAlone
    <3>2. /\ op'.kind = "restore" /\ op'.at = op.at /\ op'.record = op.record
          /\ checkpoints'[op.at] = c
      BY <1>3, <2>3, StatePutBack
    <3>3. /\ op.record # Missing => /\ c.state.record # Missing
                                    /\ op.record.known = Fork(c.state.record, Count(c.turns) + 1)
          /\ op.pc # "evict" => ~ending
      BY <2>3 DEF PutRecord
    <3>4. op'.pc # "evict" => ~ending'
      <4>1. op.pc = "evict" => FALSE
        <5>1. op.pc = "evict" => Evict
          BY <1>1, <1>3, <2>3, RewindOrder DEF RewindStep
        <5> QED BY <2>3, <5>1
      <4> QED BY <3>1, <3>3, <4>1
    <3>5. ASSUME op'.pc \in {"copy", "apply", "unmark", "unlink"}, state' # Missing
          PROVE  /\ state'.backend = c.state.backend
                 /\ state'.record = IF op.record = Missing \/ op'.pc \in {"copy", "apply"}
                                    THEN c.state.record ELSE op.record
      <4>1. CASE op'.pc = "copy"
        BY <1>3, <2>3, <3>5, <4>1, StatePutBack DEF PutRecord
      <4>2. CASE op'.pc = "apply"
        BY <1>3, <2>3, <3>5, <4>2, StatePutBack DEF PutRecord
      <4>3. CASE op'.pc = "unmark"
        <5>1. op.pc = "apply" /\ state # Missing
          BY <1>3, <2>3, <4>3, StatePutBack, Absent
        <5>2. state.backend = c.state.backend /\ state.record = c.state.record
          BY <2>3, <5>1 DEF PutRecord
        <5> QED BY <1>3, <2>3, <4>3, <5>2, StatePutBack
      <4>4. CASE op'.pc = "unlink"
        <5>1. op.pc = "unmark" /\ state # Missing
          BY <1>3, <2>3, <4>4, StatePutBack, Absent
        <5>2. /\ state.backend = c.state.backend
              /\ state.record = IF op.record = Missing THEN c.state.record ELSE op.record
          BY <2>3, <5>1 DEF PutRecord
        <5> QED BY <1>3, <2>3, <4>4, <5>2, StatePutBack
      <4> QED BY <3>5, <4>1, <4>2, <4>3, <4>4
    <3> QED BY <3>2, <3>3, <3>4, <3>5 DEF PutRecord
  <2> QED BY <2>1, <2>2, <2>3
<1>4. CASE RestMessage \/ SetBackend \/ EndVendorSession
  <2>1. UNCHANGED <<checkpoints, op>> /\ ~Locked
    BY <1>4, EventLoopSteps
  <2>2. op.kind = "restore" => op.pc = "evict"
    BY <1>1, <2>1 DEF Locked, Idle
  <2> QED BY <2>1, <2>2 DEF PutRecord
<1>5. CASE Clicks
  <2>1. CASE \E i \in DOMAIN state.messages : TurnCut(i) \/ RoundCut(i)
    BY <2>1 DEF TurnCut, RoundCut, IdleOp, PutRecord
  <2>2. ASSUME NEW k \in DOMAIN checkpoints, Restore(k) PROVE PutRecord'
    <3> DEFINE s == checkpoints[k].state
               stale == s.record # Missing /\ (state = Missing \/ s.record # state.record)
               memory == Fork(s.record, Count(checkpoints[k].turns) + 1)
    <3>1. /\ op' = [IdleOp EXCEPT !.pc = "checkpoint", !.kind = "restore", !.at = k,
                        !.record = IF stale THEN [gen |-> Len(vendor'), known |-> memory]
                                   ELSE Missing]
          /\ ~ending /\ UNCHANGED <<ending, checkpoints>>
      BY <2>2 DEF Restore, Count
    <3>2. /\ op'.kind = "restore" /\ op'.at = k /\ op'.pc = "checkpoint"
          /\ op'.record = IF stale THEN [gen |-> Len(vendor'), known |-> memory] ELSE Missing
      BY <3>1 DEF IdleOp
    <3>3. op'.record # Missing => s.record # Missing /\ op'.record.known = memory
      BY <3>2
    <3> QED BY <3>1, <3>2, <3>3 DEF PutRecord
  <2> QED BY <1>5, <2>1, <2>2 DEF Clicks
<1>6. CASE Crash
  BY <1>6 DEF Crash, PutRecord, IdleOp
<1> QED BY <1>2, <1>3, <1>4, <1>5, <1>6 DEF Event

\* What the event loop does to the record: the end of a vendor session drops it.
LEMMA LoopRecord ==
  ASSUME IInv, RestMessage \/ SetBackend \/ EndVendorSession
  PROVE  \/ state'.record = state.record /\ state'.backend = state.backend /\ ending' = ending
         \/ /\ SetBackend /\ state'.record = state.record /\ ~ending /\ ending'
            /\ state'.backend # state.backend
         \/ /\ EndVendorSession /\ ending /\ ~ending' /\ state'.backend = state.backend
            /\ state'.record = IF state.backend = "classic" THEN Missing ELSE state.record
<1>1. state \in States /\ ending \in BOOLEAN
  BY EventLoopSteps DEF IInv, TypeOK
<1>2. CASE RestMessage
  <2>1. ending' = ending
    BY <1>2 DEF RestMessage, memVars
  <2>2. PICK msg : state' = Append1(state, msg)
    BY <1>2 DEF RestMessage
  <2>3. state'.record = state.record /\ state'.backend = state.backend
    BY <1>1, <2>2 DEF Append1, States
  <2> QED BY <2>1, <2>3
<1>3. CASE SetBackend
  <2>1. PICK b \in {"classic", "native"} \ {state.backend} : state' = [state EXCEPT !.backend = b]
    BY <1>3 DEF SetBackend
  <2>2. state'.record = state.record /\ state'.backend # state.backend
    BY <1>1, <2>1 DEF States
  <2> QED BY <1>3, <2>2 DEF SetBackend
<1>4. CASE EndVendorSession
  <2>1. state' = IF state.backend = "classic" THEN [state EXCEPT !.record = Missing] ELSE state
    BY <1>4 DEF EndVendorSession
  <2>2. /\ state'.backend = state.backend
        /\ state'.record = IF state.backend = "classic" THEN Missing ELSE state.record
    BY <1>1, <2>1 DEF States
  <2> QED BY <1>4, <2>2 DEF EndVendorSession
<1> QED BY <1>2, <1>3, <1>4

\* A truncation leaves the record and the backend.
LEMMA TruncationKeepsRecord ==
  ASSUME IInv, RewindStep, op.kind # "restore"
  PROVE  /\ state \in States /\ state' \in States /\ op.kind \in {"turn", "round"}
         /\ state'.record = state.record /\ state'.backend = state.backend
<1>1. op.kind \in {"turn", "round"} /\ state \in States /\ op \in Op
  BY RewindGoes DEF IInv, TypeOK, Cutting
<1>2. FilesOK'
  BY RewindStepType
<1>3. ~(ClearOne \/ CopyOne \/ ApplyUpdates)
  BY RewindOrder
<1>4. CASE TakeCheckpoint \/ ReadSession \/ Unlink \/ ResetSummary \/ RemoveOne \/ Removed
  <2>1. state' = state
    BY <1>4, RewindOrder
  <2> QED BY <1>1, <2>1
<1>5. CASE PersistCut
  <2>1. op.read = state /\ op.read \in States
    BY <1>5, RewindOrder
  <2>2. state' = [op.read EXCEPT !.messages = Kept, !.sop = op.sop]
    BY <1>5 DEF PersistCut
  <2>3. state'.record = state.record /\ state'.backend = state.backend
    BY <2>1, <2>2 DEF States
  <2>4. state' \in States
    <3>1. Kept \in Seq(Message)
      <4>1. op.at \in IdsOf(op.read.messages)
        BY <1>1, <1>5, WhatIsRead, RewindOrder
      <4> QED BY <2>1, <4>1, KeptType
    <3>2. op.sop \subseteq Id
      BY <1>1, OpFields
    <3> QED BY <2>1, <2>2, <3>1, <3>2, StateSet DEF States
  <2> QED BY <1>1, <2>3, <2>4
<1>6. CASE Unmark
  <2>1. state' = [state EXCEPT !.pending = Missing]
    BY <1>6 DEF Unmark
  <2>2. state'.record = state.record /\ state'.backend = state.backend
    BY <1>1, <2>1 DEF States
  <2>3. state' \in States
    BY <1>1, <2>1, StateSet
  <2> QED BY <1>1, <2>2, <2>3
<1>7. CASE Evict
  <2>1. op.pc = "evict"
    BY <1>7, RewindGoes
  <2> DEFINE msg == op.read.messages[IndexOf(op.read.messages, op.at)]
  <2>2. msg \in Message
    BY <1>1, <2>1, WhatIsRead
  <2>3. state' = state \/ state' = Append1(state, msg)
    BY <1>1, <1>7 DEF Evict
  <2> HIDE DEF msg
  <2>4. Append1(state, msg) \in States
    BY <1>1, <2>2, AppendedType
  <2>5. Append1(state, msg).record = state.record /\ Append1(state, msg).backend = state.backend
    BY <1>1, <2>2, Appended
  <2> QED BY <1>1, <2>3, <2>4, <2>5
<1> QED BY <1>3, <1>4, <1>5, <1>6, <1>7 DEF RewindStep

\* A record stays current while vendor sessions are added.
LEMMA StaysCurrent ==
  ASSUME vendor \in Seq(Memory), NEW r, HasGen(r), Current(vendor, r),
         UNCHANGED vendor \/ \E m \in Memory : vendor' = Append(vendor, m)
  PROVE  Current(vendor', r)
<1>1. SUFFICES ASSUME r # Missing PROVE vendor'[r.gen] = vendor[r.gen]
  BY DEF Current
<1>2. r.gen \in DOMAIN vendor
  BY <1>1 DEF HasGen
<1>3. ASSUME NEW m \in Memory, vendor' = Append(vendor, m) PROVE vendor'[r.gen] = vendor[r.gen]
  BY <1>2, <1>3, AppendProperties, LenProperties
<1> QED BY <1>3

\* The answer of the model is remembered and recorded.
LEMMA RoundIsRecorded ==
  ASSUME IInv, TurnStep, SaveRound
  PROVE  /\ state \in States /\ state' \in States /\ state'.messages = state.messages
         /\ state'.backend = state.backend
         /\ \/ state.backend = "classic" /\ state'.record = state.record /\ UNCHANGED vendor
            \/ /\ state.backend = "native" /\ state'.record # Missing
               /\ Current(vendor', state'.record)
               /\ LET told == IF state.record = Missing THEN Recap ELSE vendor[state.record.gen]
                  IN  state'.record.known = told \cup {<<turn.n, turn.id>>}
<1>1. state \in States /\ state' \in States /\ vendor \in Seq(Memory) /\ turn \in Turn
  BY TurnStepType, TurnStepAlone DEF IInv, TypeOK
<1>2. CASE state.backend = "classic"
  <2>1. UNCHANGED <<state, vendor>>
    BY <1>2 DEF SaveRound
  <2> QED BY <1>1, <1>2, <2>1
<1>3. CASE state.backend # "classic"
  <2> DEFINE fresh == state.record = Missing
             g == IF fresh THEN Len(vendor) + 1 ELSE state.record.gen
             memory == (IF fresh THEN Recap ELSE vendor[g]) \cup {<<turn.n, turn.id>>}
  <2>1. /\ state.backend = "native"
        /\ vendor' = IF fresh THEN Append(vendor, memory) ELSE [vendor EXCEPT ![g] = memory]
        /\ state' = [state EXCEPT !.record = [gen |-> g, known |-> memory]]
    BY <1>3 DEF SaveRound
  <2>2. vendor'[g] = memory
    <3>1. CASE fresh
      BY <1>1, <2>1, <3>1, LenProperties
    <3>2. CASE ~fresh
      <4>1. g \in DOMAIN vendor
        BY <1>1, <3>2, Absent DEF IInv, Generations, HasGen
      <4> HIDE DEF memory
      <4> QED BY <1>1, <2>1, <3>2, <4>1
    <3> QED BY <3>1, <3>2
  <2> HIDE DEF memory
  <2>3. state'.record = [gen |-> g, known |-> memory]
        /\ state'.messages = state.messages /\ state'.backend = state.backend
    BY <1>1, <2>1 DEF States
  <2>4. state'.record.gen = g /\ state'.record.known = memory /\ state'.record # Missing
    BY <2>3 DEF Missing
  <2>5. Current(vendor', state'.record)
    BY <2>2, <2>4 DEF Current
  <2>6. memory = (IF state.record = Missing THEN Recap ELSE vendor[state.record.gen])
                 \cup {<<turn.n, turn.id>>}
    BY DEF memory
  <2> QED BY <1>1, <2>1, <2>3, <2>4, <2>5, <2>6
<1> QED BY <1>2, <1>3

\* The record follows the vendor session through a turn.
LEMMA RecordedTurn ==
  ASSUME IInv, PutRecord, Recorded, TurnStep
  PROVE  Recorded'
<1>1. /\ op.pc = "idle" /\ UNCHANGED <<op, checkpoints>> /\ state \in States /\ state # Missing
      /\ op.kind = "none" /\ op.record = Missing
  BY TurnStepAlone, Absent DEF IInv, Idle, PutRecord
<1>2. flaws \subseteq flaws'
  BY TurnNumber
<1>3. ~Unforked /\ ~Unforked'
  BY <1>1 DEF Unforked
<1>4. "behind" \notin flaws' => Current(vendor', state'.record)
  <2>1. SUFFICES ASSUME "behind" \notin flaws' PROVE Current(vendor', state'.record)
    OBVIOUS
  <2>2. Current(vendor, state.record)
    BY <1>1, <1>2, <1>3, <2>1 DEF Recorded
  <2>3. CASE SaveRound
    BY <2>2, <2>3, RoundIsRecorded DEF Current
  <2>4. CASE ~SaveRound
    <3>1. UNCHANGED vendor
      BY <2>4 DEF TurnStep, Send, Stamp, UnlinkBlob, Seed, BeginRound, CommitBubble, Summarise,
         Tools,
         WriteBlob, WriteMarker, Answer, AnswerFromHub, Finish, Stop, StopEarly, RecoverWidget,
         ExpireWidget, Fail, FailEarly, SaveFailed, ReportFailure, LeaveFailed, StopReporting,
         diskVars
    <3> QED BY <2>2, <2>4, <3>1, TurnKeepsRecord
  <2> QED BY <2>3, <2>4
<1>5. Current(vendor', op'.record)
  BY <1>1 DEF Current
<1> QED BY <1>1, <1>4, <1>5 DEF Recorded

\* ... through a rewind, whose fork is recorded when the restored state is back ...
LEMMA RecordedRewind ==
  ASSUME IInv, PutRecord, Recorded, RewindStep
  PROVE  Recorded'
<1>1. op \in Op /\ state \in States \cup {Missing} /\ UNCHANGED vendor /\ Idle
  BY RewindStepAlone DEF IInv, TypeOK
<1>2. flaws \subseteq flaws' \/ (Unlink /\ op.kind = "restore")
  BY FlawsStay
<1>3. CASE op.kind # "restore"
  <2>1. state # Missing /\ state'.record = state.record /\ op.record = Missing
    BY <1>3, TruncationKeepsRecord, Absent DEF PutRecord
  <2>2. op'.kind # "restore" /\ op'.record = Missing
    <3>1. CASE Evict
      BY <3>1, RewindGoes DEF IdleOp
    <3>2. CASE ~Evict
      BY <1>3, <2>1, <3>2, RewindGoes, ForkStays
    <3> QED BY <3>1, <3>2
  <2>3. "behind" \notin flaws' => Current(vendor, state.record)
    BY <1>2, <1>3, <2>1 DEF Recorded, Unforked
  <2> QED BY <1>1, <2>1, <2>2, <2>3 DEF Recorded, Current
<1>4. CASE op.kind = "restore" /\ Evict
  <2>1. op.pc = "evict" /\ op' = IdleOp /\ UNCHANGED <<flaws, state>>
    BY <1>4, RewindGoes DEF Evict
  <2>2. "behind" \notin flaws' /\ state # Missing => Current(vendor, state.record)
    BY <2>1 DEF Recorded, Unforked
  <2>3. op'.kind # "restore" /\ op'.record = Missing
    BY <2>1 DEF IdleOp
  <2> QED BY <1>1, <2>1, <2>2, <2>3 DEF Recorded, Current
<1>5. CASE op.kind = "restore" /\ ~Evict
  <2> DEFINE c == checkpoints[op.at]
  <2>1. /\ op'.kind = "restore" /\ op'.at = op.at /\ checkpoints'[op.at] = c
        /\ op'.record = op.record
    BY <1>5, StatePutBack
  <2>2. Current(vendor', op'.record)
    BY <1>1, <2>1 DEF Recorded
  <2>3. op.pc # "evict"
    BY <1>1, <1>5, RewindOrder DEF RewindStep
  <2>4. ASSUME op'.record = Missing, op'.pc # "evict", "behind" \notin flaws'
        PROVE  Current(vendor, c.state.record)
    <3>1. Unlink => op'.pc = "evict"
      BY <1>5, RewindOrder
    <3> QED BY <1>2, <1>5, <2>1, <2>3, <2>4, <3>1 DEF Recorded
  <2>5. ASSUME "behind" \notin flaws', state' # Missing, ~Unforked'
        PROVE  Current(vendor, state'.record)
    <3>1. CASE Unlink
      <4>1. op.pc = "unlink" /\ UNCHANGED state
        BY <3>1, RewindOrder
      <4>2. state.record = IF op.record = Missing THEN c.state.record ELSE op.record
        BY <1>5, <2>5, <4>1 DEF PutRecord
      <4>3. CASE op.record # Missing
        BY <4>1, <4>2, <4>3 DEF Recorded
      <4>4. CASE op.record = Missing /\ state.record # Missing
        <5>1. "behind" \notin flaws
          BY <1>5, <2>5, <3>1, <4>4 DEF Unlink, KeepsRecord
        <5> QED BY <2>5, <4>1, <4>4, <5>1 DEF Recorded, Unforked
      <4>5. CASE op.record = Missing /\ state.record = Missing
        BY <4>1, <4>5 DEF Current
      <4> QED BY <4>3, <4>4, <4>5
    <3>2. CASE ~Unlink
      <4>1. "behind" \notin flaws
        BY <1>2, <2>5, <3>2
      <4>2. op.record = Missing => Current(vendor, c.state.record)
        BY <1>5, <2>3, <4>1 DEF Recorded
      <4>3. op'.pc \in {"copy", "apply"} => op.record = Missing
        BY <2>1, <2>5 DEF Unforked
      <4>4. CASE op'.pc = "copy"
        <5>1. CASE state' = c.state
          BY <4>2, <4>3, <4>4, <5>1
        <5>2. CASE state' # c.state
          <6>1. state' = state
            BY <1>5, <2>5, <4>4, <5>2, StatePutBack
          <6> QED BY <2>5, <4>1, <4>3, <4>4, <6>1 DEF Recorded, Unforked
        <5> QED BY <5>1, <5>2
      <4>5. CASE op'.pc = "apply"
        <5>1. state' = state
          BY <1>5, <4>5, StatePutBack
        <5> QED BY <2>5, <4>1, <4>3, <4>5, <5>1 DEF Recorded, Unforked
      <4>6. CASE op'.pc = "unmark"
        <5>1. state # Missing /\ state'.record = IF op.record = Missing THEN state.record ELSE op.record
          BY <1>5, <4>6, StatePutBack, Absent
        <5> QED BY <4>1, <5>1 DEF Recorded, Unforked
      <4>7. CASE op'.pc = "unlink"
        <5>1. state # Missing /\ state'.record = state.record /\ op.pc = "unmark"
          BY <1>5, <4>7, StatePutBack, Absent
        <5> QED BY <4>1, <5>1 DEF Recorded, Unforked
      <4>8. CASE op'.pc \notin {"copy", "apply", "unmark", "unlink"}
        <5>1. op.pc \in {"checkpoint", "clear"} /\ state' = state
          <6>1. TakeCheckpoint \/ ClearOne
            BY <1>5, <3>2, <4>8, RewindOrder DEF RewindStep
          <6>2. ClearOne => state' \in {state, Missing}
            BY DEF ClearOne
          <6> QED BY <2>5, <6>1, <6>2, RewindOrder
        <5> QED BY <2>5, <4>1, <5>1 DEF Recorded, Unforked
      <4> QED BY <4>4, <4>5, <4>6, <4>7, <4>8
    <3> QED BY <3>1, <3>2
  <2> QED BY <1>1, <2>1, <2>2, <2>4, <2>5 DEF Recorded
<1> QED BY <1>3, <1>4, <1>5

\* ... and through a click, which may fork, the event loop and a crash.
LEMMA RecordedEvent ==
  ASSUME IInv, PutRecord, Recorded, Event
  PROVE  Recorded'
<1>1. /\ op \in Op /\ state \in States \cup {Missing} /\ vendor \in Seq(Memory) /\ Idle
      /\ Generations
  BY DEF IInv, TypeOK
<1>2. flaws \subseteq flaws'
  <2>1. Clicks => flaws \subseteq flaws'
    BY ClickAlone
  <2>2. Crash => flaws \subseteq flaws'
    BY DEF Crash
  <2> QED BY <2>1, <2>2, LoopSays DEF Event
<1>3. CASE RestMessage \/ SetBackend \/ EndVendorSession
  <2>1. /\ UNCHANGED <<vendor, op, checkpoints>> /\ ~Locked /\ state # Missing
        /\ state'.record \in {state.record, Missing}
    BY <1>3, EventLoopSteps, Absent
  <2>2. op.kind = "restore" => op.pc = "evict"
    BY <1>1, <2>1 DEF Locked, Idle
  <2>3. "behind" \notin flaws' => Current(vendor, state.record)
    BY <1>2, <2>1, <2>2 DEF Recorded, Unforked
  <2> QED BY <2>1, <2>2, <2>3 DEF Recorded, Current
<1>4. CASE Crash
  <2>1. UNCHANGED <<state, vendor>> /\ op' = IdleOp
    BY <1>4 DEF Crash, diskVars
  <2>2. "behind" \notin flaws' /\ state # Missing => Current(vendor, state.record)
    <3>1. Unforked /\ state # Missing /\ state.record # Missing => "behind" \in flaws'
      BY <1>4 DEF Crash, Unforked
    <3> QED BY <1>2, <3>1 DEF Recorded, Current
  <2> QED BY <2>1, <2>2 DEF Recorded, Current, IdleOp
<1>5. CASE Clicks
  <2>1. op.pc = "idle" /\ UNCHANGED flaws /\ ~Unforked
    BY <1>5, ClickAlone DEF Unforked
  <2>2. "behind" \notin flaws' /\ state # Missing => Current(vendor, state.record)
    BY <1>2, <2>1 DEF Recorded
  <2>3. ASSUME NEW i \in DOMAIN state.messages, state # Missing, TurnCut(i) PROVE Recorded'
    <3> DEFINE memory == Fork(state.record, CutTurn(state.messages, i))
    <3>1. op'.kind # "restore" /\ op'.record = Missing
      BY <2>3 DEF TurnCut, IdleOp
    <3>2. CASE UNCHANGED <<state, vendor>>
      BY <2>2, <3>1, <3>2 DEF Recorded, Current
    <3>3. CASE /\ state.record # Missing /\ Len(vendor) < MaxFork
               /\ vendor' = Append(vendor, memory)
               /\ state' = [state EXCEPT !.record = [gen |-> Len(vendor'), known |-> vendor'[Len(vendor')]]]
      <4>1. state'.record = [gen |-> Len(vendor'), known |-> vendor'[Len(vendor')]]
        BY <1>1, <2>3, <3>3 DEF States
      <4>2. Current(vendor', state'.record)
        BY <4>1 DEF Current
      <4> QED BY <3>1, <4>2 DEF Recorded, Current
    <3> QED BY <2>3, <3>2, <3>3 DEF TurnCut
  <2>4. ASSUME NEW i \in DOMAIN state.messages, state # Missing, RoundCut(i) PROVE Recorded'
    <3>1. UNCHANGED <<state, vendor>> /\ op'.kind # "restore" /\ op'.record = Missing
      BY <2>4 DEF RoundCut, IdleOp, diskVars
    <3> QED BY <2>2, <3>1 DEF Recorded, Current
  <2>5. ASSUME NEW k \in DOMAIN checkpoints, Restore(k) PROVE Recorded'
    <3> DEFINE saved == checkpoints[k].state.record
               stale == saved # Missing /\ (state = Missing \/ saved # state.record)
               memory == Fork(saved, Count(checkpoints[k].turns) + 1)
               record == IF stale THEN [gen |-> Len(vendor'), known |-> memory] ELSE Missing
    <3>1. /\ vendor' = IF stale THEN Append(vendor, memory) ELSE vendor
          /\ op' = [IdleOp EXCEPT !.pc = "checkpoint", !.kind = "restore", !.at = k,
                                  !.record = record]
          /\ UNCHANGED <<state, checkpoints>> /\ Readable(k)
      BY <2>5 DEF Restore, Count
    <3>2. op'.kind = "restore" /\ op'.at = k /\ op'.pc = "checkpoint" /\ op'.record = record
      BY <3>1 DEF IdleOp
    <3>3. stale => memory \in Memory
      <4>1. checkpoints[k].state \in States
        BY <2>5, <3>1, CheckpointHolds
      <4> QED BY <4>1, ForkType, StateFields
    <3> HIDE DEF memory
    <3>4. Current(vendor', op'.record)
      <4>1. CASE stale
        <5>1. vendor' = Append(vendor, memory) /\ op'.record = [gen |-> Len(vendor'), known |-> memory]
          BY <3>1, <3>2, <4>1
        <5>2. vendor'[Len(vendor')] = memory
          BY <1>1, <3>3, <4>1, <5>1, AppendProperties
        <5> QED BY <5>1, <5>2 DEF Current
      <4>2. CASE ~stale
        BY <3>2, <4>2 DEF Current
      <4> QED BY <4>1, <4>2
    <3>5. "behind" \notin flaws' /\ state # Missing => Current(vendor', state.record)
      <4>1. state # Missing => HasGen(state.record)
        BY <1>1 DEF Generations
      <4> QED BY <1>1, <2>2, <3>1, <3>3, <4>1, StaysCurrent
    <3>6. op'.record = Missing /\ "behind" \notin flaws' => Current(vendor', saved)
      <4>1. op'.record = Missing => ~stale
        BY <3>2 DEF Missing
      <4> QED BY <3>1, <3>5, <4>1 DEF Current
    <3> QED BY <3>1, <3>2, <3>4, <3>5, <3>6 DEF Recorded
  <2> QED BY <1>5, <2>3, <2>4, <2>5 DEF Clicks
<1> QED BY <1>3, <1>4, <1>5 DEF Event

\* A crash between the writes of a rewind is a flaw.
LEMMA CrashOutside ==
  ASSUME IInv, Crash, Sound(flaws')
  PROVE  /\ Sound(flaws) /\ Outside /\ flaws \subseteq flaws'
         /\ op' = IdleOp /\ turn' = IdleTurn /\ ~ending'
         /\ UNCHANGED <<state, turns, checkpoints>>
<1>1. /\ op' = IdleOp /\ turn' = IdleTurn /\ ~ending' /\ UNCHANGED <<state, turns, checkpoints>>
      /\ flaws \subseteq flaws' /\ (Truncating => "cut" \in flaws')
      /\ (op.kind = "restore" /\ op.pc \in {"clear", "copy", "apply", "unmark", "unlink"} =>
            "restore" \in flaws')
  BY DEF Crash, diskVars, Truncating
<1>2. Sound(flaws) /\ ~Truncating
      /\ ~(op.kind = "restore" /\ op.pc \in {"clear", "copy", "apply", "unmark", "unlink"})
  BY <1>1 DEF Sound
<1>3. Outside
  BY <1>2, OpFields DEF IInv, TypeOK, Idle, Cutting, Restoring, Truncating, Outside
<1> QED BY <1>1, <1>2, <1>3

\* A turn's message comes after the bubbles of the turns before.
LEMMA InTurnTurn ==
  ASSUME IInv, BubblesInTurn, TurnStep
  PROVE  BubblesInTurn'
<1>1. /\ state \in States /\ state # Missing /\ state' # Missing /\ op.pc = "idle"
      /\ UNCHANGED <<checkpoints, op>> /\ turns \in TurnDirs
  BY TurnStepAlone, TurnStepType, Absent DEF IInv, TypeOK
<1>2. SUFFICES ASSUME Sound(flaws') PROVE After(state'.messages) /\ Begin(state'.messages, turns')
  BY <1>1 DEF BubblesInTurn, Readable, Outside, Truncating
<1>3. Sound(flaws)
  BY <1>2, TurnNumber DEF Sound
<1>4. After(state.messages) /\ Begin(state.messages, turns) /\ Dirs(turns) \subseteq Dirs(turns')
  BY <1>1, <1>3, DirsGrow DEF BubblesInTurn, Outside
<1>5. CASE state'.messages = state.messages
  BY <1>4, <1>5 DEF Begin
<1>6. ASSUME NEW msg \in Message, state' = Append1(state, msg), msg.turn = Number,
             \/ Stamp /\ turn.n = None /\ msg.role = "user"
             \/ InRound /\ msg.role # "user"
             \/ msg.role = "error"
      PROVE  After(state'.messages) /\ Begin(state'.messages, turns')
  <2>1. msg.role = "user" => \A x \in Told(state.messages) : x[1] < msg.turn
    <3> SUFFICES ASSUME msg.role = "user", NEW x \in Told(state.messages) PROVE x[1] < msg.turn
      OBVIOUS
    <3>1. InLine(state, turns)
      BY <1>1, <1>3 DEF IInv, Level, Lined
    <3>2. x[1] \in 1..Count(turns) /\ Count(turns) \in Nat
      BY <1>1, <1>4, <3>1, Counted DEF InLine, Begin
    <3>3. CASE turn.n = None
      <4>1. msg.turn = Count(turns) + 1
        BY <1>6, <3>3 DEF Number, NextTurn, Count
      <4> QED BY <3>2, <4>1
    <3>4. CASE turn.n # None
      BY <1>6, <3>4
    <3> QED BY <3>3, <3>4
  <2>2. msg.role = "assistant" => msg.turn \in Dirs(turns)
    <3>1. msg.role = "assistant" => InRound
      BY <1>6
    <3> QED BY <1>6, <3>1, HasDirectory DEF InRound, Number
  <2> QED BY <1>1, <1>4, <1>6, <2>1, <2>2, ToldAppended DEF Begin
<1> QED BY <1>5, <1>6, TurnSays

\* The messages of the REST routes have no turn.
LEMMA LoopTells ==
  ASSUME IInv, RestMessage \/ SetBackend \/ EndVendorSession
  PROVE  /\ Told(state'.messages) = Told(state.messages)
         /\ After(state.messages) => After(state'.messages)
<1>1. state \in States /\ state' \in States
  BY EventLoopSteps
<1>2. CASE state'.messages = state.messages
  BY <1>2
<1>3. ASSUME NEW msg \in Message, state' = Append1(state, msg), msg.turn = None
      PROVE  /\ Told(state'.messages) = Told(state.messages)
             /\ After(state.messages) => After(state'.messages)
  <2>1. \A x \in Told(state'.messages) : x[1] # None
    BY <1>1, StateFields, ToldFields DEF None
  <2>2. /\ Told(state'.messages) \subseteq Told(state.messages) \cup {<<msg.turn, msg.id>>}
        /\ Told(state.messages) \subseteq Told(state'.messages)
    BY <1>1, <1>3, ToldAppended
  <2>3. <<msg.turn, msg.id>>[1] = None
    BY <1>3
  <2>4. Told(state'.messages) = Told(state.messages)
    BY <2>1, <2>2, <2>3
  <2>5. After(state.messages) => After(state'.messages)
    BY <1>1, <1>3, ToldAppended
  <2> QED BY <2>4, <2>5
<1> QED BY <1>2, <1>3, LoopSays

\* What the event loop, a click or a crash leaves is in the order of the turns.
LEMMA InTurnEvent ==
  ASSUME IInv, BubblesInTurn, Event
  PROVE  BubblesInTurn'
<1>1. CASE RestMessage \/ SetBackend \/ EndVendorSession
  <2>1. UNCHANGED <<turns, checkpoints, op, flaws>> /\ state # Missing
    BY <1>1, EventLoopSteps, LoopSays, Absent
  <2> QED BY <1>1, <2>1, LoopTells
          DEF BubblesInTurn, Readable, Outside, Truncating, Begin, LastKept
<1>2. CASE Clicks
  <2>1. op.pc = "idle" /\ op'.pc = "checkpoint" /\ UNCHANGED <<turns, checkpoints, flaws>>
    BY <1>2, ClickAlone DEF Clicks, TurnCut, RoundCut, Restore, IdleOp
  <2>2. state' # Missing => state # Missing /\ state'.messages = state.messages
    BY <1>2, ClicksShow
  <2> QED BY <2>1, <2>2 DEF BubblesInTurn, Readable, Outside, Truncating, Begin
<1>3. CASE Crash
  <2>1. UNCHANGED <<state, turns, checkpoints>> /\ op' = IdleOp
    BY <1>3 DEF Crash, diskVars
  <2> QED BY <1>3, <2>1, CrashOutside
          DEF BubblesInTurn, Readable, Outside, Truncating, Begin, IdleOp
<1> QED BY <1>1, <1>2, <1>3 DEF Event

\* The message that is handed over after the cut is there already.
LEMMA HandedOver ==
  ASSUME IInv, ClickedAt, Evict
  PROVE  /\ state' = state /\ op.pc = "evict" /\ op' = IdleOp
         /\ UNCHANGED <<turns, checkpoints, flaws, vendor, ending>>
<1>1. RewindStep
  BY DEF RewindStep
<1>2. op.pc = "evict" /\ op' = IdleOp /\ UNCHANGED <<turns, checkpoints, flaws, vendor, ending>>
  BY <1>1, RewindGoes, RewindStepAlone
<1>3. CASE op.kind = "turn"
  <2>1. /\ op.at \in IdsOf(state.messages)
        /\ op.read.messages[IndexOf(op.read.messages, op.at)].id = op.at
    BY <1>2, <1>3, WhatIsRead DEF ClickedAt
  <2> QED BY <1>2, <1>3, <2>1 DEF Evict, Append1
<1>4. CASE op.kind # "turn"
  BY <1>2, <1>4 DEF Evict
<1> QED BY <1>2, <1>3, <1>4

\* A truncation keeps the bubbles of the turns it keeps, a restore has those of its
\* checkpoint.
LEMMA InTurnRewind ==
  ASSUME IInv, Copied, ClickedAt, BubblesInTurn, RewindStep
  PROVE  BubblesInTurn'
<1>1. op \in Op /\ turns \in TurnDirs /\ Idle /\ Cutting /\ Restoring /\ CutInLine
  BY DEF IInv, TypeOK, Level
<1>2. \A k \in DOMAIN checkpoints' :
        Readable(k)' /\ Sound(checkpoints'[k].flaws) =>
        After(checkpoints'[k].state.messages)
          /\ Begin(checkpoints'[k].state.messages, checkpoints'[k].turns)
  <2>1. CASE UNCHANGED checkpoints
    BY <2>1 DEF BubblesInTurn, Readable
  <2>2. CASE TakeCheckpoint
    <3>1. op.pc = "checkpoint"
      BY <2>2, RewindOrder
    <3>2. Sound(flaws) /\ state # Missing => After(state.messages) /\ Begin(state.messages, turns)
      BY <3>1 DEF BubblesInTurn, Outside
    <3> QED BY <2>2, <3>2, CheckpointTaken DEF BubblesInTurn, Readable, Sound
  <2> QED BY <2>1, <2>2, RewindGoes
<1>3. SUFFICES ASSUME Sound(flaws'), state' # Missing
               PROVE  /\ Outside' \/ Truncating' => After(state'.messages)
                      /\ Outside' => Begin(state'.messages, turns')
                      /\ Truncating' => \A x \in Told(state'.messages) : x[1] <= LastKept'
  BY <1>2 DEF BubblesInTurn
<1>4. CASE TakeCheckpoint \/ ReadSession
  <2>1. op.pc \in {"checkpoint", "read"} /\ op'.pc \in {"read", "persist", "clear"}
        /\ UNCHANGED <<state, turns, flaws>>
    BY <1>4, RewindOrder
  <2> QED BY <1>3, <2>1 DEF BubblesInTurn, Outside, Truncating
<1>5. CASE Evict
  <2>1. state' = state /\ op.pc = "evict" /\ op' = IdleOp /\ UNCHANGED <<turns, flaws>>
    BY <1>5, HandedOver
  <2> QED BY <1>3, <2>1 DEF BubblesInTurn, Outside, Truncating, IdleOp
<1>6. CASE PersistCut
  <2>1. /\ op.pc = "persist" /\ op'.pc = "unmark" /\ op.kind \in {"turn", "round"}
        /\ op.read = state /\ state \in States /\ state'.messages = Kept /\ Sound(flaws)
        /\ op'.kind = op.kind /\ op'.cut = op.cut
    <3>1. op.read = state /\ state \in States /\ op.pc = "persist" /\ op'.pc = "unmark"
      BY <1>6, RewindOrder
    <3>2. state' = [op.read EXCEPT !.messages = Kept, !.sop = op.sop]
      BY <1>6 DEF PersistCut
    <3>3. state'.messages = Kept
      BY <3>1, <3>2 DEF States
    <3>4. ~Evict
      BY <3>1, RewindGoes
    <3> QED BY <1>3, <1>6, <3>1, <3>3, <3>4, CutAtTheTurn, RewindGoes, RewindOrder
  <2>2. /\ op.at \in IdsOf(op.read.messages) /\ IndexOf(op.read.messages, op.at) \in DOMAIN op.read.messages
        /\ op.read.messages[IndexOf(op.read.messages, op.at)].id = op.at
    BY <2>1, WhatIsRead
  <2>3. /\ Kept \in Seq(Message)
        /\ \A j \in DOMAIN Kept :
             /\ Kept[j] = state.messages[j] /\ j \in DOMAIN state.messages
             /\ j <= IndexOf(state.messages, op.at)
    BY <2>1, <2>2, KeptType
  <2>4. After(state.messages)
    BY <2>1, Absent DEF BubblesInTurn, Outside
  <2>5. After(Kept)
    BY <2>3, <2>4 DEF After
  <2>6. ASSUME NEW x \in Told(Kept) PROVE x[1] <= LastKept
    <3>1. PICK j \in DOMAIN Kept : /\ Kept[j].role = "assistant" /\ Kept[j].turn # None
                                   /\ x = <<Kept[j].turn, Kept[j].id>>
      BY InTold DEF Range
    <3>2. x[1] = Kept[j].turn /\ x[1] \in Nat /\ op.cut \in Nat
      BY <2>1, <2>3, <3>1, ToldFields, CutNumbers
    <3>3. x[1] <= op.cut
      BY <1>3, <1>6, <3>2, CutAtTheTurn DEF UpTo
    <3>4. CASE op.kind = "turn"
      <4> DEFINE i == IndexOf(state.messages, op.at)
      <4>1. state.messages[i].role = "user" /\ state.messages[i].turn \in {None, op.cut}
        BY <2>1, <2>2, <3>4 DEF ClickedAt, CutInLine, Clicked, IInv, Level
      <4>2. state.messages[i].turn # None
        BY <1>3, <1>6, <2>1 DEF PersistCut, Sound
      <4>3. j # i
        BY <2>3, <3>1, <4>1
      <4>4. j < i
        BY <2>1, <2>2, <2>3, <4>3, InMessages
      <4>5. state.messages[j].turn < op.cut
        BY <2>1, <2>2, <2>3, <2>4, <3>1, <4>1, <4>2, <4>4 DEF After
      <4> QED BY <2>1, <2>3, <3>2, <3>4, <4>5, CutNumbers
    <3>5. CASE op.kind = "round"
      BY <2>1, <3>3, <3>5, CutNumbers
    <3> QED BY <2>1, <3>4, <3>5
  <2>7. LastKept' = LastKept
    BY <2>1 DEF LastKept
  <2> QED BY <2>1, <2>5, <2>6, <2>7 DEF Outside, Truncating
<1>7. CASE Unmark \/ ResetSummary \/ RemoveOne \/ (Unlink /\ op.kind # "restore")
  <2>1. CASE op.kind = "restore"
    <3>1. Unmark /\ op'.pc = "unlink" /\ op'.kind = "restore"
      BY <1>7, <2>1, RewindOrder, RewindGoes DEF Evict, Unmark
    <3> QED BY <3>1 DEF Outside, Truncating
  <2>2. CASE op.kind # "restore"
    <3>1. /\ op.kind \in {"turn", "round"} /\ op.pc \in {"unmark", "unlink", "summary", "remove"}
          /\ op'.pc \in {"unlink", "summary", "remove"} /\ UNCHANGED flaws
      BY <1>7, <2>2, RewindOrder, RewindGoes DEF Unlink
    <3>2. op'.kind = op.kind /\ op'.cut = op.cut
      BY <3>1, RewindGoes
    <3>3. state # Missing /\ state'.messages = state.messages
      <4>1. state \in States
        BY <2>2, TruncationKeepsRecord
      <4>2. Unmark => state' = [state EXCEPT !.pending = Missing]
        BY DEF Unmark
      <4>3. ~Unmark => state' = state
        BY <1>7, RewindOrder
      <4> QED BY <4>1, <4>2, <4>3, Absent DEF States
    <3> QED BY <1>3, <3>1, <3>2, <3>3 DEF BubblesInTurn, Outside, Truncating, LastKept
  <2> QED BY <2>1, <2>2
<1>8. CASE Unlink /\ op.kind = "restore"
  <2>1. op.pc = "unlink" /\ op'.pc = "evict" /\ UNCHANGED <<state, turns>> /\ op'.kind = "restore"
        /\ checkpoints[op.at].flaws \subseteq flaws'
    BY <1>8, RewindOrder, RewindGoes DEF Unlink, Evict
  <2>2. /\ op.at \in DOMAIN checkpoints /\ Readable(op.at) /\ turns = checkpoints[op.at].turns
        /\ state.messages = checkpoints[op.at].state.messages
    BY <1>8, <2>1, RestoredTurns
  <2> QED BY <1>3, <2>1, <2>2 DEF BubblesInTurn, Sound, Truncating
<1>9. CASE Removed
  <2>1. /\ op.pc = "remove" /\ op.kind \in {"turn", "round"} /\ op.left = {} /\ op'.left = {}
        /\ UNCHANGED <<state, turns, flaws>> /\ op'.pc = "evict"
    BY <1>9, RewindOrder, RewindGoes
  <2>2. Dirs(turns) = 1..LastKept
    BY <1>1, <1>3, <2>1 DEF CutInLine, LeftTurns
  <2>3. After(state.messages) /\ \A x \in Told(state.messages) : x[1] <= LastKept
    BY <1>3, <2>1 DEF BubblesInTurn, Truncating
  <2>4. \A x \in Told(state.messages) : x[1] \in Nat /\ x[1] > 0
    <3>1. state \in States
      BY <2>1, TruncationKeepsRecord
    <3> QED BY <3>1, StateFields, ToldFields
  <2>5. LastKept \in Nat
    BY <2>1, CutNumbers
  <2> QED BY <2>1, <2>2, <2>3, <2>4, <2>5 DEF Begin, Truncating
<1>10. CASE ClearOne \/ CopyOne \/ ApplyUpdates
  <2>1. op'.kind = "restore" /\ op'.pc \in {"clear", "copy", "apply", "unmark"}
    BY <1>10, RewindOrder, RewindGoes DEF Evict
  <2> QED BY <2>1 DEF Outside, Truncating
<1> QED BY <1>4, <1>5, <1>6, <1>7, <1>8, <1>9, <1>10 DEF RewindStep

\* A turn that runs: the round that is saved is remembered before its bubble is
\* committed, and a fresh vendor session is told the bubbles.
LEMMA VendorTurn ==
  ASSUME IInv, Recorded, InStep, TurnStep
  PROVE  InStep'
<1>1. /\ state \in States /\ state' \in States /\ state # Missing /\ op.pc = "idle"
      /\ op.kind = "none" /\ UNCHANGED <<op, ending>> /\ Outside
      /\ turns \in TurnDirs /\ turns' \in TurnDirs /\ Grows(turns, turns')
  BY TurnStepAlone, TurnStepType, TurnFiles, Absent DEF IInv, Idle, Outside
<1>2. SUFFICES ASSUME Clean(flaws'), state'.record # Missing
               PROVE  /\ state'.backend = "classic" => ending
                      /\ state'.backend = "native" =>
                           /\ Held(state'.messages, turns', state'.record.known)
                           /\ Told(state'.messages) \subseteq state'.record.known
                           /\ turn'.pc = "saved" => <<turn'.n, turn'.id>> \in state'.record.known
  BY <1>1 DEF InStep
<1>3. Clean(flaws)
  BY <1>2, TurnNumber DEF Clean
<1>4. state.record # Missing =>
        /\ state.backend = "classic" => ending
        /\ state.backend = "native" =>
             /\ Held(state.messages, turns, state.record.known)
             /\ Told(state.messages) \subseteq state.record.known
             /\ turn.pc = "saved" => <<turn.n, turn.id>> \in state.record.known
  BY <1>1, <1>3 DEF InStep, ToCut
<1>5. CASE ~SaveRound
  <2>1. state'.record = state.record /\ state'.backend = state.backend /\ turn'.pc # "saved"
    BY <1>5, TurnKeepsRecord, TurnCameFrom
  <2>2. /\ Told(state.messages) \subseteq Told(state'.messages)
        /\ \A x \in Told(state'.messages) :
             \/ x \in Told(state.messages)
             \/ turn.pc = "saved" /\ x = <<turn.n, turn.id>>
    <3>1. ASSUME NEW msg \in Message, state' = Append1(state, msg), msg.turn = Number,
                 msg.role = "assistant" => /\ InRound /\ turn.pc = "saved" /\ msg.id = turn.id
          PROVE  /\ Told(state.messages) \subseteq Told(state'.messages)
                 /\ \A x \in Told(state'.messages) :
                      \/ x \in Told(state.messages)
                      \/ turn.pc = "saved" /\ x = <<turn.n, turn.id>>
      <4>1. msg.role = "assistant" => msg.turn = turn.n
        BY <3>1 DEF InRound, Number
      <4> QED BY <1>1, <3>1, <4>1, ToldAppended
    <3> QED BY <3>1, TurnSays
  <2>3. CASE state.backend = "native"
    <3>1. Held(state'.messages, turns', state.record.known)
      BY <1>1, <1>2, <1>4, <2>1, <2>2, <2>3, HeldGrows
    <3> QED BY <1>2, <1>4, <2>1, <2>2, <2>3, <3>1
  <2> QED BY <1>2, <1>4, <2>1, <2>3
<1>6. CASE SaveRound
  <2>1. state'.messages = state.messages /\ state'.backend = state.backend
    BY <1>6, RoundIsRecorded
  <2>2. CASE state.backend = "classic"
    <3>1. state'.record = state.record
      BY <1>6, <2>2, RoundIsRecorded
    <3> QED BY <1>2, <1>4, <2>1, <2>2, <3>1
  <2>3. CASE state.backend = "native"
    <3> DEFINE old == IF state.record = Missing THEN Told(state.messages) ELSE state.record.known
               new == <<turn.n, turn.id>>
    <3>1. state'.record.known = old \cup {new}
      <4>1. state'.record.known =
              (IF state.record = Missing THEN Recap ELSE vendor[state.record.gen]) \cup {new}
        BY <1>6, <2>3, RoundIsRecorded
      <4>2. Recap = Told(state.messages)
        BY DEF Recap, Told
      <4>3. state.record # Missing => vendor[state.record.gen] = state.record.known
        BY <1>1, <1>3 DEF Recorded, Unforked, Clean, Current
      <4> QED BY <4>1, <4>2, <4>3
    <3>2. Told(state.messages) \subseteq old
      BY <1>4, <2>3
    <3>3. Held(state.messages, turns', old)
      <4>1. Held(state.messages, turns, old)
        BY <1>4, <2>3 DEF Held
      <4> QED BY <1>1, <4>1, HeldGrows
    <3>4. turn'.n = turn.n /\ turn'.id = turn.id
      <4>1. turn \in Turn
        BY DEF IInv, TypeOK
      <4> QED BY <1>6, <4>1 DEF SaveRound, Go, Turn
    <3>5. turn.n \in Dirs(turns') /\ turn.id \in FilesOf(turns', turn.n)
      <4>1. turn.n \in Dirs(turns) /\ turn.r \in Dirs(turns[turn.n].rounds)
        <5>1. turn.n \in TurnNo /\ turn.r \in RoundNo /\ turn.id \in Id
          BY <1>6 DEF IInv, Numbered, SaveRound, At, InARound
        <5>2. turn.n # None /\ turn.r > 0 /\ turn.id # None
          BY <5>1 DEF None, TurnNo, RoundNo, Id
        <5> QED BY <5>2, HasDirectory
      <4>2. turn.n \in Dirs(turns') /\ turn.r \in Dirs(turns'[turn.n].rounds)
        BY <1>1, <4>1 DEF Grows
      <4>3. turn.id \in turns'[turn.n].rounds[turn.r].saved
        BY <1>6, TurnFiles
      <4> QED BY <4>2, <4>3 DEF FilesOf
    <3> HIDE DEF old
    <3>6. Held(state.messages, turns', old \cup {new})
      <4>1. new[1] = turn.n /\ new[2] = turn.id
        OBVIOUS
      <4> QED BY <3>3, <3>5, <4>1 DEF Held
    <3> QED BY <2>1, <2>3, <3>1, <3>2, <3>4, <3>6
  <2> QED BY <1>1, <2>2, <2>3, StateFields
<1> QED BY <1>5, <1>6

\* The event loop: a switch away from the native backend waits to drop its record.
LEMMA VendorLoop ==
  ASSUME IInv, InStep, RestMessage \/ SetBackend \/ EndVendorSession
  PROVE  InStep'
<1>1. /\ UNCHANGED <<turns, op, flaws>> /\ state \in States /\ state' \in States
      /\ state # Missing /\ Told(state'.messages) = Told(state.messages)
      /\ turn'.n = turn.n /\ turn'.id = turn.id /\ (turn'.pc = "saved" => turn.pc = "saved")
  BY EventLoopSteps, LoopSays, LoopTells, Absent
<1>2. \A known : Held(state'.messages, turns, known) <=> Held(state.messages, turns, known)
  BY <1>1 DEF Held
<1>3. CASE state'.record = state.record /\ state'.backend = state.backend
           /\ (ending' = ending \/ state.backend = "native")
  BY <1>1, <1>2, <1>3 DEF InStep, Outside, Truncating, ToCut
<1>4. CASE state'.record = state.record /\ ~ending /\ ending' /\ state'.backend # state.backend
  <2>1. state'.backend \in {"classic", "native"} /\ state.backend \in {"classic", "native"}
    BY <1>1, StateFields
  <2>2. CASE state.backend = "native"
    <3>1. state'.backend = "classic"
      BY <1>4, <2>1, <2>2
    <3> QED BY <1>4, <3>1 DEF InStep
  <2>3. CASE state.backend = "classic"
    BY <1>1, <1>4, <2>3 DEF InStep, Outside, Truncating
  <2> QED BY <2>1, <2>2, <2>3
<1>5. CASE state'.record = Missing
  BY <1>5 DEF InStep
<1>6. state.backend \in {"classic", "native"}
  BY <1>1, StateFields
<1> QED BY <1>3, <1>4, <1>5, <1>6, LoopRecord

\* A click: the fork for a cut at a turn forgets that turn and the later ones.
LEMMA VendorClick ==
  ASSUME IInv, InStep, Clicks
  PROVE  InStep'
<1>1. /\ turn.pc = "idle" /\ op.pc = "idle" /\ op.kind = "none" /\ Outside
      /\ UNCHANGED <<turns, turn, ending, flaws>>
      /\ state \in States \cup {Missing} /\ vendor \in Seq(Memory)
  BY ClickAlone DEF IInv, Idle, Outside, TypeOK
<1>2. ASSUME NEW k \in DOMAIN checkpoints, Restore(k) PROVE InStep'
  <2>1. state' = state /\ op'.kind = "restore"
    BY <1>2 DEF Restore, IdleOp
  <2> QED BY <1>1, <2>1 DEF InStep, Outside, ToCut
<1>3. ASSUME NEW i \in DOMAIN state.messages, state # Missing, RoundCut(i) PROVE InStep'
  <2>1. state' = state /\ state.backend = "classic"
    BY <1>3 DEF RoundCut, ResumesRounds, diskVars
  <2> QED BY <1>1, <2>1 DEF InStep
<1>4. ASSUME NEW i \in DOMAIN state.messages, state # Missing, TurnCut(i) PROVE InStep'
  <2> DEFINE cut == CutTurn(state.messages, i)
             memory == Fork(state.record, cut)
  <2>1. op'.kind = "turn" /\ op'.cut = cut /\ op'.pc = "checkpoint" /\ ~ending
    BY <1>4 DEF TurnCut, IdleOp
  <2>2. CASE state'.record = Missing
    BY <2>2 DEF InStep
  <2>3. CASE state.record # Missing /\ vendor' = Append(vendor, memory)
             /\ state' = [state EXCEPT !.record =
                            [gen |-> Len(vendor'), known |-> vendor'[Len(vendor')]]]
    <3>1. memory \in Memory
      BY <1>1, <1>4, <2>3, StateFields, ForkType
    <3> HIDE DEF memory
    <3>2. vendor'[Len(vendor')] = memory
      BY <1>1, <2>3, <3>1, AppendProperties
    <3>3. /\ state'.record = [gen |-> Len(vendor'), known |-> memory]
          /\ state'.messages = state.messages /\ state'.backend = state.backend
      BY <1>1, <1>4, <2>3, <3>2 DEF States
    <3>4. state'.record.known = memory
      BY <3>3
    <3>5. Clean(flaws) => state.backend # "classic"
      BY <1>1, <1>4, <2>1, <2>3 DEF InStep
    <3>6. ASSUME Clean(flaws), state.backend = "native"
          PROVE  /\ Held(state.messages, turns, memory)
                 /\ \A x \in Told(state.messages) : x[1] < cut => x \in memory
                 /\ \A x \in memory : x[1] < cut
      <4>1. /\ Held(state.messages, turns, state.record.known)
            /\ Told(state.messages) \subseteq state.record.known
        BY <1>1, <1>4, <2>3, <3>6 DEF InStep, ToCut
      <4> QED BY <4>1 DEF memory, Fork, Held
    <3> HIDE DEF cut
    <3> QED BY <1>1, <2>1, <3>3, <3>4, <3>5, <3>6 DEF InStep, ToCut
  <2>4. state.record = Missing => state' = state
    BY <1>4 DEF TurnCut
  <2> QED BY <1>4, <2>2, <2>3, <2>4 DEF TurnCut
<1> QED BY <1>2, <1>3, <1>4 DEF Clicks

\* A crash that leaves the record without the fork, or the wrong backend's, is a flaw.
LEMMA VendorCrash ==
  ASSUME IInv, InStep, Crash
  PROVE  InStep'
<1> SUFFICES ASSUME Clean(flaws'), state' # Missing, state'.record # Missing PROVE InStep'
  BY DEF InStep
<1>1. /\ Clean(flaws) /\ Outside /\ op' = IdleOp /\ turn' = IdleTurn /\ ~ending'
      /\ UNCHANGED <<state, turns>>
  BY CrashOutside DEF Clean, Sound
<1>2. ~ending /\ ~ToCut
  <2>1. ending \/ ToCut => "behind" \in flaws'
    BY <1>1 DEF Crash, ToCut
  <2> QED BY <2>1 DEF Clean
<1>3. IdleOp.kind = "none" /\ IdleTurn.pc = "idle"
  BY DEF IdleOp, IdleTurn
<1> QED BY <1>1, <1>2, <1>3 DEF InStep, ToCut

\* What a checkpoint keeps is in step: a record that a cut or a switch has left behind
\* is marked.
LEMMA CopiesStep ==
  ASSUME IInv, CopiesInStep, InStep, TurnStep \/ RewindStep \/ Event
  PROVE  CopiesInStep'
<1>1. /\ \A k \in DOMAIN checkpoints : checkpoints'[k] = checkpoints[k]
      /\ DOMAIN checkpoints = 1..Len(checkpoints) /\ Len(checkpoints) \in Nat
  BY CheckpointsStay
<1>2. TakeCheckpoint \/ UNCHANGED checkpoints
  <2>1. TurnStep => UNCHANGED checkpoints
    BY TurnStepAlone
  <2>2. RewindStep => TakeCheckpoint \/ UNCHANGED checkpoints
    BY RewindGoes
  <2>3. Clicks => UNCHANGED checkpoints
    BY ClickAlone
  <2>4. RestMessage \/ SetBackend \/ EndVendorSession => UNCHANGED checkpoints
    BY EventLoopSteps
  <2>5. Crash => UNCHANGED checkpoints
    BY DEF Crash, diskVars
  <2> QED BY <2>1, <2>2, <2>3, <2>4, <2>5 DEF Event
<1>3. CASE UNCHANGED checkpoints
  BY <1>3 DEF CopiesInStep, Readable
<1>4. CASE TakeCheckpoint
  <2> DEFINE c == [state |-> state, turns |-> turns, blob |-> blob,
                   flaws |-> IF Astray THEN flaws \cup {"behind"} ELSE flaws]
  <2>1. checkpoints' = Append(checkpoints, c) /\ op.pc = "checkpoint"
    BY <1>4 DEF TakeCheckpoint
  <2>2. c.state = state /\ c.turns = turns
        /\ c.flaws = IF Astray THEN flaws \cup {"behind"} ELSE flaws
    OBVIOUS
  <2> HIDE DEF c
  <2>3. /\ DOMAIN checkpoints' = DOMAIN checkpoints \cup {Len(checkpoints) + 1}
        /\ checkpoints'[Len(checkpoints) + 1] = c
    <3>1. checkpoints \in Seq(Checkpoint) /\ checkpoints' \in Seq(Checkpoint)
      <4>1. FilesOK'
        BY <1>4, RewindStepType DEF RewindStep
      <4> QED BY <4>1 DEF IInv, TypeOK, FilesOK
    <3>2. Len(checkpoints') = Len(checkpoints) + 1
      BY <2>1, <3>1, AppendProperties
    <3>3. checkpoints'[Len(checkpoints) + 1] = c
      BY <2>1, <3>1, AppendProperties
    <3> QED BY <1>1, <3>1, <3>2, <3>3, LenProperties
  <2>4. ASSUME state # Missing, Clean(c.flaws), state.record # Missing
        PROVE  /\ state.backend = "native" /\ Told(state.messages) \subseteq state.record.known
               /\ Held(state.messages, turns, state.record.known)
    <3>1. ~Astray /\ Clean(flaws)
      BY <2>2, <2>4 DEF Clean
    <3>2. op.kind # "turn" /\ ~ending
      BY <2>4, <3>1 DEF Astray
    <3>3. state.backend \in {"classic", "native"}
      BY <2>4, StateFields DEF IInv, TypeOK
    <3> QED BY <2>1, <2>4, <3>1, <3>2, <3>3 DEF InStep, Outside, ToCut
  <2>5. ASSUME NEW k \in DOMAIN checkpoints', Readable(k)', Clean(checkpoints'[k].flaws),
               checkpoints'[k].state.record # Missing
        PROVE  LET d == checkpoints'[k]
               IN  /\ d.state.backend = "native"
                   /\ Told(d.state.messages) \subseteq d.state.record.known
                   /\ Held(d.state.messages, d.turns, d.state.record.known)
    <3>1. CASE k \in DOMAIN checkpoints
      BY <1>1, <2>5, <3>1 DEF CopiesInStep, Readable
    <3>2. CASE k = Len(checkpoints) + 1
      BY <2>2, <2>3, <2>4, <2>5, <3>2 DEF Readable
    <3> QED BY <2>3, <3>1, <3>2
  <2> QED BY <2>5 DEF CopiesInStep
<1> QED BY <1>2, <1>3, <1>4

\* A rewind: what the fork remembers is what is kept, and a restore puts a record back
\* with the history that it knows.
LEMMA VendorRewind ==
  ASSUME IInv, Copied, ClickedAt, PutRecord, BubblesInTurn, CopiesInStep, InStep, RewindStep
  PROVE  InStep'
<1>1. op \in Op /\ turns \in TurnDirs /\ state \in States \cup {Missing} /\ turn.pc = "idle"
      /\ ending' = ending /\ BubblesInTurn' /\ Idle
  BY RewindStepAlone, InTurnRewind DEF IInv, TypeOK
<1>2. turn'.pc # "saved"
  <2>1. CASE Evict
    <3>1. turn' = [IdleTurn EXCEPT !.pc = "stamped", !.id = op.at] \/ turn' = turn
          \/ turn' = [IdleTurn EXCEPT !.pc = "seeded", !.n = op.cut, !.r = op.round - 1,
                                      !.again = TRUE]
      BY <2>1 DEF Evict, RoundAgain
    <3> QED BY <1>1, <3>1 DEF IdleTurn
  <2>2. CASE ~Evict
    BY <1>1, <2>2, RewindStepAlone
  <2> QED BY <2>1, <2>2
<1>3. SUFFICES ASSUME Clean(flaws'), state' # Missing, state'.record # Missing,
                      Outside' \/ Truncating'
               PROVE  /\ state'.backend = "classic" => ending
                      /\ state'.backend = "native" =>
                           /\ Held(state'.messages, turns', state'.record.known)
                           /\ \A x \in Told(state'.messages) :
                                (ToCut' => x[1] < op'.cut) => x \in state'.record.known
                           /\ op'.kind # "round"
                           /\ op'.kind = "turn" => \A x \in state'.record.known : x[1] < op'.cut
  BY <1>1, <1>2 DEF InStep
<1>4. CASE TakeCheckpoint \/ ReadSession
  <2>1. op.pc \in {"checkpoint", "read"} /\ op'.pc \in {"read", "persist", "clear"}
        /\ UNCHANGED <<state, turns, flaws>> /\ op'.kind = op.kind /\ op'.cut = op.cut
        /\ (op'.pc = "clear" => op.kind = "restore")
    <3>1. ~Evict
      BY <1>4, RewindOrder
    <3> QED BY <1>4, <3>1, RewindOrder, RewindGoes
  <2> QED BY <1>3, <2>1 DEF InStep, Outside, Truncating, ToCut
<1>5. CASE Evict
  <2>1. state' = state /\ op.pc = "evict" /\ op' = IdleOp /\ UNCHANGED <<turns, flaws>>
    BY <1>5, HandedOver
  <2>2. op'.kind = "none"
    BY <2>1 DEF IdleOp
  <2> QED BY <1>3, <2>1, <2>2 DEF InStep, Outside, ToCut
<1>6. CASE PersistCut
  <2>1. /\ op.pc = "persist" /\ op'.pc = "unmark" /\ op.kind \in {"turn", "round"}
        /\ op.read = state /\ state \in States /\ state'.messages = Kept
        /\ op'.kind = op.kind /\ op'.cut = op.cut /\ UNCHANGED turns /\ state # Missing
        /\ state'.record = state.record /\ state'.backend = state.backend
    <3>1. op.read = state /\ state \in States /\ op.pc = "persist" /\ op'.pc = "unmark"
          /\ op.kind # "restore" /\ UNCHANGED turns
      BY <1>6, RewindOrder
    <3>2. state' = [op.read EXCEPT !.messages = Kept, !.sop = op.sop]
      BY <1>6 DEF PersistCut
    <3>3. state'.messages = Kept
      BY <3>1, <3>2 DEF States
    <3>4. ~Evict
      BY <3>1, RewindGoes
    <3> QED BY <3>1, <3>3, <3>4, RewindGoes, TruncationKeepsRecord, Absent
  <2>2. Clean(flaws) /\ Sound(flaws')
        /\ op.read.messages[IndexOf(op.read.messages, op.at)].turn # None
    BY <1>3, <1>6 DEF PersistCut, Clean, Sound
  <2>3. /\ state.backend = "classic" => ending
        /\ state.backend = "native" =>
             /\ Held(state.messages, turns, state.record.known)
             /\ \A x \in Told(state.messages) :
                  (ToCut => x[1] < op.cut) => x \in state.record.known
             /\ op.kind # "round"
             /\ op.kind = "turn" => \A x \in state.record.known : x[1] < op.cut
    BY <1>3, <2>1, <2>2 DEF InStep, Outside
  <2>4. CASE state.backend = "native"
    <3>1. op.kind = "turn"
      BY <2>1, <2>3, <2>4
    <3>2. Kept \in Seq(Message) /\ Range(Kept) \subseteq Range(state.messages)
      <4>1. op.at \in IdsOf(op.read.messages)
        BY <2>1, WhatIsRead
      <4> QED BY <2>1, <4>1, KeptType DEF Range
    <3>3. \A x \in Told(Kept) : x \in Told(state.messages) /\ x[1] < op.cut
      <4>1. Told(Kept) \subseteq Told(state.messages)
        BY <3>2, ToldFields
      <4>2. \A x \in Told(Kept) : x[1] <= LastKept'
        BY <1>1, <1>3, <2>1, <2>2 DEF BubblesInTurn, Truncating
      <4>3. LastKept' = op.cut - 1 /\ op.cut \in Nat
        BY <2>1, <3>1, CutNumbers DEF LastKept
      <4>4. \A x \in Told(Kept) : x[1] \in Nat
        BY <3>2, ToldFields
      <4> QED BY <4>1, <4>2, <4>3, <4>4
    <3>4. Told(Kept) \subseteq state.record.known
      BY <2>3, <2>4, <3>3
    <3>5. ASSUME NEW x \in Told(state.messages), x[1] < op.cut PROVE x \in Told(Kept)
      <4>1. PICK m \in Range(state.messages) : /\ m.role = "assistant" /\ m.turn # None
                                               /\ x = <<m.turn, m.id>>
        BY <3>5, InTold
      <4>2. m.turn < op.cut
        BY <3>5, <4>1
      <4>3. Ordered(op.read.messages)
        BY <2>1, <2>2 DEF IInv, Level, Lined, InLine, Clean, Sound
      <4>4. op.read.messages[IndexOf(op.read.messages, op.at)].turn = op.cut
        <5>1. Clicked(op.read.messages)
          BY <2>1 DEF IInv, Level, CutInLine
        <5> QED BY <2>1, <2>2, <3>1, <5>1, WhatIsRead DEF Clicked
      <4>5. m \in Range(Kept)
        BY <1>6, <2>1, <4>1, <4>2, <4>3, <4>4, EarlierIsKept
      <4> QED BY <4>1, <4>5, InTold
    <3>6. Held(Kept, turns, state.record.known)
      BY <2>3, <2>4, <3>1, <3>5 DEF Held
    <3> QED BY <2>1, <2>3, <2>4, <3>4, <3>6
  <2> QED BY <2>1, <2>3, <2>4
<1>7. CASE (Unmark \/ ResetSummary \/ RemoveOne \/ Unlink) /\ op.kind # "restore"
  <2>1. /\ op.kind \in {"turn", "round"} /\ op.pc \in {"unmark", "unlink", "summary", "remove"}
        /\ op'.pc \in {"unlink", "summary", "remove"} /\ UNCHANGED flaws
    BY <1>7, RewindOrder, RewindGoes DEF Unlink
  <2>2. op'.kind = op.kind /\ op'.cut = op.cut
    BY <2>1, RewindGoes
  <2>3. state \in States /\ state'.record = state.record /\ state'.backend = state.backend
    BY <1>7, TruncationKeepsRecord
  <2>4. state # Missing /\ state'.messages = state.messages
    <3>1. Unmark => state' = [state EXCEPT !.pending = Missing]
      BY DEF Unmark
    <3>2. ~Unmark => state' = state
      BY <1>7, RewindOrder
    <3> QED BY <2>3, <3>1, <3>2, Absent DEF States
  <2>5. /\ state.backend = "classic" => ending
        /\ state.backend = "native" =>
             /\ Held(state.messages, turns, state.record.known)
             /\ Told(state.messages) \subseteq state.record.known
             /\ op.kind # "round"
             /\ op.kind = "turn" => \A x \in state.record.known : x[1] < op.cut
    BY <1>3, <2>1, <2>3, <2>4 DEF InStep, Truncating, ToCut
  <2>6. state.backend = "native" => Held(state.messages, turns', state.record.known)
    <3>1. CASE UNCHANGED turns
      BY <2>5, <3>1
    <3>2. CASE RemoveOne
      <4>1. state.record.known \in Memory
        BY <1>3, <2>3, StateFields DEF Record
      <4> QED BY <2>1, <2>5, <3>2, <4>1, CutFiles, HeldTrimmed
    <3>3. CASE ResetSummary
      BY <2>5, <3>3, RewindOrder
    <3> QED BY <1>7, <3>1, <3>2, <3>3, RewindOrder
  <2> QED BY <2>1, <2>2, <2>3, <2>4, <2>5, <2>6
<1>8. CASE Unlink /\ op.kind = "restore"
  <2> DEFINE c == checkpoints[op.at]
             old == c.state.record
  <2>1. op.pc = "unlink" /\ op'.pc = "evict" /\ UNCHANGED <<state, turns>> /\ op'.kind = "restore"
        /\ c.flaws \subseteq flaws'
    BY <1>8, RewindOrder, RewindGoes DEF Unlink, Evict
  <2>2. /\ op.at \in DOMAIN checkpoints /\ Readable(op.at) /\ turns = c.turns
        /\ state.messages = c.state.messages /\ c.state \in States
    BY <1>8, <2>1, RestoredTurns, CheckpointHolds
  <2>3. /\ state.backend = c.state.backend
        /\ state.record = IF op.record = Missing THEN old ELSE op.record
        /\ op.record # Missing => /\ old # Missing
                                  /\ op.record.known = Fork(old, Count(c.turns) + 1)
    BY <1>3, <1>8, <2>1 DEF PutRecord
  <2>4. Clean(c.flaws) /\ Sound(c.flaws) /\ old # Missing
    BY <1>3, <2>1, <2>3 DEF Clean, Sound
  <2>5. /\ c.state.backend = "native" /\ Told(c.state.messages) \subseteq old.known
        /\ Held(c.state.messages, c.turns, old.known)
    BY <2>2, <2>4 DEF CopiesInStep
  <2>6. ASSUME NEW x \in Told(state.messages) PROVE x \in state.record.known
    <3>1. CASE op.record = Missing
      BY <2>2, <2>3, <2>5, <2>6, <3>1
    <3>2. CASE op.record # Missing
      <4>1. x[1] \in Dirs(c.turns)
        BY <2>2, <2>4, <2>6 DEF BubblesInTurn, Begin
      <4>2. Dirs(c.turns) = 1..Count(c.turns)
        BY <2>2, <2>4 DEF IInv, Level, Lined, InLine
      <4>3. Count(c.turns) \in Nat
        BY <1>1, <2>2, Counted
      <4>4. x[1] < Count(c.turns) + 1
        BY <4>1, <4>2, <4>3
      <4> QED BY <2>2, <2>3, <2>5, <2>6, <3>2, <4>4 DEF Fork
    <3> QED BY <3>1, <3>2
  <2>7. state.record.known \subseteq old.known
    BY <2>3 DEF Fork
  <2>8. Held(state.messages, turns, state.record.known)
    BY <2>2, <2>5, <2>7 DEF Held
  <2> QED BY <2>1, <2>3, <2>5, <2>6, <2>8
<1>9. CASE Removed
  <2>1. /\ op.pc = "remove" /\ op.kind \in {"turn", "round"} /\ op'.pc = "evict"
        /\ UNCHANGED <<state, turns, flaws>>
    BY <1>9, RewindOrder, RewindGoes
  <2>2. op'.kind = op.kind /\ op'.cut = op.cut
    BY <2>1, RewindGoes
  <2> QED BY <1>3, <2>1, <2>2 DEF InStep, Truncating, ToCut
<1>10. CASE ClearOne \/ CopyOne \/ ApplyUpdates \/ (Unmark /\ op.kind = "restore")
  <2>1. op'.kind = "restore" /\ op'.pc \in {"clear", "copy", "apply", "unmark", "unlink"}
    BY <1>10, RewindOrder, RewindGoes
  <2> QED BY <1>3, <2>1 DEF Outside, Truncating
<1> QED BY <1>4, <1>5, <1>6, <1>7, <1>8, <1>9, <1>10, RewindOrder DEF RewindStep

\* The invariant of the vendor sessions.
LEMMA VendorAlways == Spec => []VendorInv
<1>1. Init => VendorInv
  <2> SUFFICES ASSUME Init PROVE VendorInv
    OBVIOUS
  <2>1. op = IdleOp /\ turn = IdleTurn /\ checkpoints = <<>> /\ state.messages = <<>>
        /\ state.record = Missing
    BY DEF Init
  <2>2. op.kind = "none" /\ op.record = Missing
    BY <2>1 DEF IdleOp
  <2>3. Recorded /\ PutRecord /\ CopiesInStep /\ InStep
    BY <2>1, <2>2 DEF Recorded, PutRecord, CopiesInStep, InStep, Current
  <2>4. After(state.messages) /\ Begin(state.messages, turns)
    BY <2>1 DEF After, Begin, Told, Range
  <2> QED BY <2>1, <2>2, <2>3, <2>4 DEF VendorInv, BubblesInTurn, Truncating
<1>2. IInv /\ InSummary /\ BubbleInv /\ VendorInv /\ [Next]_vars => VendorInv'
  <2>1. ASSUME IInv, InSummary, BubbleInv, VendorInv, TurnStep \/ RewindStep \/ Event
        PROVE  VendorInv'
    <3>1. PutRecord' /\ CopiesInStep'
      BY <2>1, PutRecordStep, CopiesStep DEF VendorInv
    <3>2. CASE TurnStep
      BY <2>1, <3>1, <3>2, RecordedTurn, InTurnTurn, VendorTurn DEF VendorInv
    <3>3. CASE RewindStep
      BY <2>1, <3>1, <3>3, RecordedRewind, InTurnRewind, VendorRewind
         DEF VendorInv, InSummary, BubbleInv
    <3>4. CASE Event
      <4>1. InStep'
        BY <2>1, <3>4, VendorLoop, VendorClick, VendorCrash DEF VendorInv, Event
      <4> QED BY <2>1, <3>1, <3>4, <4>1, RecordedEvent, InTurnEvent DEF VendorInv
    <3> QED BY <2>1, <3>2, <3>3, <3>4
  <2>2. ASSUME VendorInv, UNCHANGED vars PROVE VendorInv'
    <3> USE DEF vars, diskVars, memVars, histVars
    <3>1. Recorded' /\ PutRecord'
      BY <2>2 DEF VendorInv, Recorded, PutRecord, Unforked
    <3>2. BubblesInTurn'
      BY <2>2 DEF VendorInv, BubblesInTurn, Readable, Outside, Truncating, LastKept
    <3>3. CopiesInStep' /\ InStep'
      BY <2>2 DEF VendorInv, CopiesInStep, InStep, Readable, Outside, Truncating, ToCut
    <3> QED BY <3>1, <3>2, <3>3 DEF VendorInv
  <2> QED BY <2>1, <2>2, Steps
<1> QED BY <1>1, <1>2, Invariance, InSummaryAlways, BubblesAlways, PTL DEF Spec

\* Between the rewinds, a native vendor session remembers nothing that was cut, and
\* every bubble of the history: through forks, switches of the backend and crashes,
\* unless a crash or a checkpoint left the record behind its vendor session.
THEOREM VendorsFollow == Spec => []VendorInStep
<1>1. IInv /\ VendorInv => VendorInStep
  <2> SUFFICES ASSUME IInv, VendorInv, VendorSettled, "behind" \notin flaws
               PROVE  /\ Known \subseteq Rounds(turns) \cup History
                      /\ {x[2] : x \in Recap} \subseteq Known
    BY DEF VendorInStep
  <2> DEFINE known == state.record.known
  <2>1. /\ state # Missing /\ state \in States /\ state.record # Missing /\ ~ending
        /\ op.pc = "idle" /\ op.kind = "none" /\ Clean(flaws)
    BY DEF VendorSettled, Settled, Clean, IInv, TypeOK, Idle
  <2>2. vendor[state.record.gen] = known
    BY <2>1 DEF VendorInv, Recorded, Unforked, Current
  <2>3. state.backend = "native"
    BY <2>1, StateFields DEF VendorInv, InStep, Outside
  <2>4. Held(state.messages, turns, known) /\ Told(state.messages) \subseteq known
    BY <2>1, <2>3 DEF VendorInv, InStep, Outside, ToCut
  <2>5. Recap = Told(state.messages)
    BY DEF Recap, Told
  <2>6. ASSUME NEW x \in known PROVE x[2] \in Rounds(turns) \cup History
    <3>1. CASE x \in Told(state.messages)
      <4>1. PICK m \in Range(state.messages) : x = <<m.turn, m.id>>
        BY <3>1, InTold
      <4>2. x[2] = m.id
        BY <4>1
      <4> QED BY <2>1, <4>2 DEF History, IdsOf, Range
    <3>2. CASE x \notin Told(state.messages)
      BY <2>4, <2>6, <3>2 DEF Held, FilesOf, Rounds
    <3> QED BY <3>1, <3>2
  <2> QED BY <2>2, <2>4, <2>5, <2>6 DEF Known
<1> QED BY <1>1, Invariance, VendorAlways, PTL

=============================================================================
