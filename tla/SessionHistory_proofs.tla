----------------------- MODULE SessionHistory_proofs -----------------------
(***************************************************************************)
(* Proofs about the files of one session (SessionHistory): the invariant   *)
(* IInv is inductive, the marker and its sidecar implement the slot of     *)
(* WidgetSlot, a turn gets a directory that was not there, and what a      *)
(* rewind removes from the history can be brought back.  The steps are     *)
(* taken in three groups: those of a turn (TurnStep), those of a rewind    *)
(* (RewindStep), and the rest (Event); there is one lemma                  *)
(* for each part of the invariant.                                         *)
(***************************************************************************)
EXTENDS SessionHistory, SequenceTheorems, FiniteSetTheorems, TLAPS

-----------------------------------------------------------------------------
(* The records of the files.                                               *)

\* A file that does not exist is none of those that do.
LEMMA Absent ==
  /\ Missing \notin States /\ Missing \notin Widgets /\ Missing \notin Record
  /\ Missing \notin TurnDir /\ Missing \notin RoundDir /\ Missing \notin [sop : SUBSET Id]
BY DEF Missing, States, Widgets, Record, TurnDir, RoundDir

\* A session state has its fields.
LEMMA StateFields ==
  ASSUME NEW s \in States
  PROVE  /\ s.messages \in Seq(Message) /\ s.sop \subseteq Id
         /\ s.pending \in Widgets \cup {Missing} /\ s.record \in Record \cup {Missing}
         /\ s.backend \in {"classic", "native"}
BY DEF States

\* A session state stays one when a field is replaced.
LEMMA StateSet ==
  ASSUME NEW s \in States
  PROVE  /\ \A ms \in Seq(Message) : [s EXCEPT !.messages = ms] \in States
         /\ \A x \in SUBSET Id : [s EXCEPT !.sop = x] \in States
         /\ \A p \in Widgets \cup {Missing} : [s EXCEPT !.pending = p] \in States
         /\ \A r \in Record \cup {Missing} : [s EXCEPT !.record = r] \in States
         /\ \A b \in {"classic", "native"} : [s EXCEPT !.backend = b] \in States
BY DEF States

\* append_message keeps the type, and every message that was there.
LEMMA AppendedType ==
  ASSUME NEW s \in States, NEW msg \in Message
  PROVE  Append1(s, msg) \in States
<1>1. Append(s.messages, msg) \in Seq(Message)
  BY StateFields, AppendProperties
<1> QED BY <1>1, StateSet DEF Append1

\* A message as the handlers make it.
LEMMA MessageType ==
  ASSUME NEW i \in Id, NEW role \in {"user", "assistant", "error"},
         NEW n \in TurnNo \cup {None}, NEW r \in RoundNo \cup {0}
  PROVE  [id |-> i, role |-> role, turn |-> n, round |-> r] \in Message
BY DEF Message

\* The turn that runs has its fields, and stays a turn wherever it goes.
LEMMA TurnFields ==
  ASSUME NEW t \in Turn
  PROVE  /\ t.pc \in TurnPcs /\ t.n \in TurnNo \cup {None} /\ t.r \in RoundNo \cup {0}
         /\ t.id \in Id \cup {None} /\ t.again \in BOOLEAN /\ t.recovers \in BOOLEAN
         /\ \A pc \in TurnPcs : [t EXCEPT !.pc = pc] \in Turn
BY DEF Turn

\* No turn, and no rewind.
LEMMA IdleTypes ==
  /\ IdleTurn \in Turn /\ IdleOp \in Op
<1>1. IdleTurn \in Turn
  BY DEF IdleTurn, Turn, TurnPcs, None
<1>2. IdleOp \in Op
  BY DEF IdleOp, Op, OpPcs, None, Missing
<1> QED BY <1>1, <1>2

\* The SOP progress is a set of rounds.
LEMMA SopType ==
  ASSUME state \in States, live \in [sop : SUBSET Id] \cup {Missing}
  PROVE  Sop \in SUBSET Id
BY StateFields DEF Sop

\* What the directories of turns, and of rounds, look like when one changes.
LEMMA DirsType ==
  ASSUME NEW t \in TurnDirs
  PROVE  /\ Dirs(t) \subseteq TurnNo /\ IsFiniteSet(Dirs(t)) /\ Cardinality(Dirs(t)) \in Nat
         /\ \A k \in Dirs(t) : t[k] \in TurnDir
         /\ \A k \in TurnNo, d \in TurnDir : [t EXCEPT ![k] = d] \in TurnDirs
         /\ \A k \in TurnNo : [t EXCEPT ![k] = Missing] \in TurnDirs
<1>1. Dirs(t) \subseteq TurnNo
  BY DEF Dirs, TurnDirs
<1>2. IsFiniteSet(TurnNo)
  BY FS_Interval, BoundsAssumption DEF TurnNo
<1>3. IsFiniteSet(Dirs(t)) /\ Cardinality(Dirs(t)) \in Nat
  BY <1>1, <1>2, FS_Subset, FS_CardinalityType
<1>4. \A k \in Dirs(t) : t[k] \in TurnDir
  BY DEF Dirs, TurnDirs
<1>5. \A k \in TurnNo, d \in TurnDir : [t EXCEPT ![k] = d] \in TurnDirs
  BY DEF TurnDirs
<1>6. \A k \in TurnNo : [t EXCEPT ![k] = Missing] \in TurnDirs
  BY DEF TurnDirs
<1> QED BY <1>1, <1>3, <1>4, <1>5, <1>6

\* What a turn's directory has, and stays one when one of these is replaced.
LEMMA TurnDirFields ==
  ASSUME NEW d \in TurnDir
  PROVE  /\ d.entry \in SUBSET Id /\ d.summary \in SUBSET Id
         /\ d.rounds \in [RoundNo -> RoundDir \cup {Missing}]
         /\ \A x \in SUBSET Id : [d EXCEPT !.entry = x] \in TurnDir
         /\ \A x \in SUBSET Id : [d EXCEPT !.summary = x] \in TurnDir
         /\ \A r \in RoundNo, e \in RoundDir \cup {Missing} :
              [d EXCEPT !.rounds[r] = e] \in TurnDir
<1>1. /\ d.entry \in SUBSET Id /\ d.summary \in SUBSET Id
      /\ d.rounds \in [RoundNo -> RoundDir \cup {Missing}]
  BY DEF TurnDir
<1>2. \A x \in SUBSET Id : /\ [d EXCEPT !.entry = x] \in TurnDir
                           /\ [d EXCEPT !.summary = x] \in TurnDir
  BY DEF TurnDir
<1>3. ASSUME NEW r \in RoundNo, NEW e \in RoundDir \cup {Missing}
      PROVE  [d EXCEPT !.rounds[r] = e] \in TurnDir
  <2>1. [d.rounds EXCEPT ![r] = e] \in [RoundNo -> RoundDir \cup {Missing}]
    BY <1>1
  <2> QED BY <2>1 DEF TurnDir
<1> QED BY <1>1, <1>2, <1>3

\* A round's directory is added to a turn's, or its files are.
LEMMA RoundSet ==
  ASSUME NEW t \in TurnDirs, NEW n \in Dirs(t), NEW r \in RoundNo,
         NEW e \in RoundDir \cup {Missing}
  PROVE  /\ [t EXCEPT ![n].rounds[r] = e] \in TurnDirs
         /\ Dirs([t EXCEPT ![n].rounds[r] = e]) = Dirs(t)
         /\ [t EXCEPT ![n].rounds[r] = e][n].rounds = [t[n].rounds EXCEPT ![r] = e]
<1> DEFINE d == [t[n] EXCEPT !.rounds[r] = e]
<1>1. n \in TurnNo /\ t[n] \in TurnDir
  BY DirsType
<1>2. d \in TurnDir /\ d # Missing
  BY <1>1, TurnDirFields, Absent
<1>3. d.rounds = [t[n].rounds EXCEPT ![r] = e]
  BY <1>1 DEF TurnDir
<1>4. [t EXCEPT ![n].rounds[r] = e] = [t EXCEPT ![n] = d]
  OBVIOUS
<1> HIDE DEF d
<1>5. [t EXCEPT ![n] = d] \in TurnDirs
  BY <1>1, <1>2, DirsType
<1>6. Dirs([t EXCEPT ![n] = d]) = Dirs(t)
  BY <1>1, <1>2 DEF Dirs, TurnDirs
<1>7. [t EXCEPT ![n] = d][n] = d
  BY <1>1 DEF TurnDirs
<1> QED BY <1>3, <1>4, <1>5, <1>6, <1>7

\* The round is added to the files of its directory.
LEMMA SavedSet ==
  ASSUME NEW t \in TurnDirs, NEW n \in Dirs(t), NEW r \in Dirs(t[n].rounds), NEW i \in Id
  PROVE  /\ [t EXCEPT ![n].rounds[r].saved = @ \cup {i}] \in TurnDirs
         /\ Dirs([t EXCEPT ![n].rounds[r].saved = @ \cup {i}]) = Dirs(t)
         /\ Dirs([t EXCEPT ![n].rounds[r].saved = @ \cup {i}][n].rounds) = Dirs(t[n].rounds)
<1> DEFINE e == [t[n].rounds[r] EXCEPT !.saved = @ \cup {i}]
           u == [t EXCEPT ![n].rounds[r].saved = @ \cup {i}]
<1>1. t[n] \in TurnDir /\ t[n].rounds \in [RoundNo -> RoundDir \cup {Missing}]
  BY DirsType, TurnDirFields
<1>2. r \in RoundNo /\ t[n].rounds[r] \in RoundDir
  BY <1>1 DEF Dirs
<1>3. e \in RoundDir /\ e # Missing
  BY <1>2, Absent DEF RoundDir
<1>4. u = [t EXCEPT ![n].rounds[r] = e]
  OBVIOUS
<1> HIDE DEF e, u
<1>5. /\ u \in TurnDirs /\ Dirs(u) = Dirs(t)
      /\ u[n].rounds = [t[n].rounds EXCEPT ![r] = e]
  <2>1. /\ [t EXCEPT ![n].rounds[r] = e] \in TurnDirs
        /\ Dirs([t EXCEPT ![n].rounds[r] = e]) = Dirs(t)
        /\ [t EXCEPT ![n].rounds[r] = e][n].rounds = [t[n].rounds EXCEPT ![r] = e]
    BY <1>2, <1>3, RoundSet
  <2> QED BY <1>4, <2>1
<1>6. Dirs(u[n].rounds) = Dirs(t[n].rounds)
  BY <1>1, <1>2, <1>3, <1>5 DEF Dirs
<1> QED BY <1>5, <1>6 DEF u

\* The messages of a session state.
LEMMA InMessages ==
  ASSUME NEW s \in States
  PROVE  /\ Range(s.messages) \subseteq Message /\ Len(s.messages) \in Nat
         /\ DOMAIN s.messages = 1..Len(s.messages)
         /\ \A i \in DOMAIN s.messages : s.messages[i] \in Message
BY StateFields, LenProperties, ElementOfSeq DEF Range

\* What a fresh vendor session is told is a memory.
LEMMA RecapType ==
  ASSUME state \in States
  PROVE  Recap \in Memory
BY InMessages DEF Recap, Memory, Message, None

\* The directory that a turn is given.
LEMMA NewTurnDir ==
  [entry |-> {}, rounds |-> [r \in RoundNo |-> Missing], summary |-> {}] \in TurnDir
BY DEF TurnDir

-----------------------------------------------------------------------------
(* Types are kept.                                                         *)

\* The types of all but the history variables of the widgets.
FilesOK ==
  /\ state \in States \cup {Missing} /\ turns \in TurnDirs
  /\ blob \in Widgets \cup {Missing} /\ checkpoints \in Seq(Checkpoint)
  /\ vendor \in Seq(Memory) /\ live \in [sop : SUBSET Id] \cup {Missing}
  /\ turn \in Turn /\ op \in Op /\ ending \in BOOLEAN
  /\ minted \in 0..MaxId /\ flaws \subseteq Flaws /\ faults \in 0..MaxFault

\* Turns and rewinds exclude each other: a step of a turn finds a session and
\* no rewind, and starts none.
LEMMA TurnStepAlone ==
  ASSUME IInv, TurnStep
  PROVE  state \in States /\ op.pc = "idle" /\ UNCHANGED <<checkpoints, op, ending>>
<1>1. turn.pc # "idle" \/ Quiet => state \in States /\ op.pc = "idle"
  BY DEF IInv, TypeOK, Exclusive, Quiet
<1> USE DEF At
<1>2. CASE Send
  BY <1>1, <1>2 DEF Send, diskVars, memVars
<1>3. CASE Stamp
  BY <1>1, <1>3 DEF Stamp, diskVars, memVars
<1>4. CASE UnlinkBlob
  BY <1>1, <1>4 DEF UnlinkBlob, diskVars, memVars
<1>5. CASE Seed
  BY <1>1, <1>5 DEF Seed, diskVars, memVars
<1>6. CASE BeginRound
  BY <1>1, <1>6 DEF BeginRound, diskVars, memVars
<1>7. CASE SaveRound
  BY <1>1, <1>7 DEF SaveRound, diskVars, memVars
<1>8. CASE CommitBubble
  BY <1>1, <1>8 DEF CommitBubble, diskVars, memVars
<1>9. CASE Summarise
  BY <1>1, <1>9 DEF Summarise, diskVars, memVars, WithSummary
<1>10. CASE Tools
  BY <1>1, <1>10 DEF Tools, diskVars, memVars
<1>11. CASE WriteBlob
  BY <1>1, <1>11 DEF WriteBlob, diskVars, memVars
<1>12. CASE WriteMarker
  BY <1>1, <1>12 DEF WriteMarker, diskVars, memVars
<1>13. CASE Answer
  BY <1>1, <1>13 DEF Answer, diskVars, memVars
<1>14. CASE AnswerFromHub
  BY <1>1, <1>14 DEF AnswerFromHub, diskVars, memVars
<1>15. CASE Finish
  BY <1>1, <1>15 DEF Finish, diskVars, memVars
<1>16. CASE Stop
  BY <1>1, <1>16 DEF Stop, diskVars, memVars, Stoppable
<1>17. CASE StopEarly
  BY <1>1, <1>17 DEF StopEarly, diskVars, memVars
<1>18. CASE RecoverWidget
  BY <1>1, <1>18 DEF RecoverWidget, diskVars, memVars
<1>19. CASE ExpireWidget
  BY <1>1, <1>19 DEF ExpireWidget, diskVars, memVars
<1>20. CASE Fail
  BY <1>1, <1>20 DEF Fail, diskVars, memVars, Stoppable
<1>21. CASE FailEarly
  BY <1>1, <1>21 DEF FailEarly, diskVars, memVars
<1>22. CASE SaveFailed
  BY <1>1, <1>22 DEF SaveFailed, diskVars, memVars
<1>23. CASE ReportFailure
  BY <1>1, <1>23 DEF ReportFailure, diskVars, memVars
<1>24. CASE LeaveFailed
  BY <1>1, <1>24 DEF LeaveFailed, diskVars, memVars
<1>25. CASE StopReporting
  BY <1>1, <1>25 DEF StopReporting, diskVars, memVars
<1> QED BY <1>2, <1>3, <1>4, <1>5, <1>6, <1>7, <1>8, <1>9, <1>10, <1>11, <1>12, <1>13, <1>14,
           <1>15, <1>16, <1>17, <1>18, <1>19, <1>20, <1>21, <1>22, <1>23, <1>24, <1>25 DEF TurnStep

\* A step of a turn keeps the types, and the session.
LEMMA TurnStepType ==
  ASSUME IInv, TurnStep
  PROVE  FilesOK' /\ state' \in States
<1> USE DEF At
<1>1. FilesOK
  BY DEF IInv, TypeOK, FilesOK
<1>2. MaxId \in Nat /\ MaxFault \in Nat /\ None = 0
  BY BoundsAssumption DEF None
<1>3. state \in States
  BY TurnStepAlone
<1>4. IdleTurn \in Turn /\ \A pc \in TurnPcs : Go(pc) => turn' \in Turn
  BY <1>1, IdleTypes, TurnFields DEF FilesOK, Go
<1>5. state \in States => Sop \in SUBSET Id
  BY <1>1, SopType DEF FilesOK
<1>6. ASSUME Mint PROVE minted' \in Id /\ minted' \in 0..MaxId
  BY <1>1, <1>2, <1>6 DEF Mint, FilesOK, Id
<1>7. NextTurn \in Nat /\ NextTurn > 0
  BY <1>1, DirsType DEF NextTurn, FilesOK
<1>8. state \in States => /\ [state EXCEPT !.pending = Missing] \in States
                          /\ [state EXCEPT !.sop = Sop] \in States
                          /\ [state EXCEPT !.sop = Sop, !.pending = Missing] \in States
  BY <1>5 DEF States
<1>9. ASSUME turn.pc # "idle", NEW clear \in BOOLEAN, Leave(clear)
      PROVE  state' \in States /\ turn' \in Turn
  <2>1. state' \in States
    BY <1>3, <1>5, <1>9 DEF Leave, States
  <2>2. turn' \in Turn
    BY <1>1, <1>4, <1>9 DEF Leave, FilesOK, Turn, TurnPcs
  <2> QED BY <2>1, <2>2
<1>10. /\ turn.pc \in InARound \cup {"seeded"} => turn.n \in Dirs(turns) /\ turn.n \in TurnNo
       /\ turn.pc \in InARound => /\ turn.r \in Dirs(turns[turn.n].rounds) /\ turn.r \in RoundNo
                                  /\ turn.id \in Id
  BY <1>2 DEF IInv, Numbered, Housed, TurnNo, RoundNo, Id
<1>11. ASSUME SaveRound, state.backend = "native"
       PROVE  vendor' \in Seq(Memory) /\ state' \in States
  <2> DEFINE fresh == state.record = Missing
             g == IF fresh THEN Len(vendor) + 1 ELSE state.record.gen
             memory == (IF fresh THEN Recap ELSE vendor[g]) \cup {<<turn.n, turn.id>>}
  <2>1. /\ vendor' = IF fresh THEN Append(vendor, memory) ELSE [vendor EXCEPT ![g] = memory]
        /\ state' = [state EXCEPT !.record = [gen |-> g, known |-> memory]]
        /\ g <= MaxFork /\ turn.pc = "round"
    BY <1>11 DEF SaveRound
  <2>2. state \in States /\ vendor \in Seq(Memory)
    BY <1>1, <1>3, <2>1 DEF FilesOK
  <2>3. <<turn.n, turn.id>> \in TurnNo \X Id
    BY <1>10, <2>1 DEF InARound
  <2>4. CASE fresh
    <3>1. memory \in Memory
      BY <2>2, <2>3, <2>4, RecapType DEF Memory
    <3>2. g = Len(vendor) + 1 /\ Len(vendor) \in Nat
      BY <2>2, <2>4, LenProperties
    <3> HIDE DEF memory, g
    <3>3. vendor' \in Seq(Memory)
      BY <2>1, <2>2, <2>4, <3>1, AppendProperties
    <3>4. [gen |-> g, known |-> memory] \in Record
      BY <2>1, <3>1, <3>2, BoundsAssumption DEF Record
    <3> QED BY <2>1, <2>2, <3>3, <3>4, StateSet
  <2>5. CASE ~fresh
    <3>1. g = state.record.gen /\ g \in DOMAIN vendor /\ g \in 1..MaxFork
      BY <2>2, <2>5, StateFields, Absent DEF IInv, Generations, HasGen, Record
    <3>2. memory \in Memory
      <4>1. vendor[g] \in Memory
        BY <2>2, <3>1, ElementOfSeq, LenProperties
      <4> HIDE DEF g
      <4> QED BY <2>3, <2>5, <4>1 DEF Memory
    <3> HIDE DEF memory, g
    <3>3. vendor' \in Seq(Memory)
      BY <2>1, <2>2, <2>5, <3>1, <3>2, ExceptSeq
    <3>4. [gen |-> g, known |-> memory] \in Record
      BY <3>1, <3>2 DEF Record
    <3> QED BY <2>1, <2>2, <3>3, <3>4, StateSet
  <2> QED BY <2>4, <2>5
<1>12. CASE Send
  <2>1. UNCHANGED <<turns, blob, checkpoints, vendor, live, op, ending, minted, flaws, faults>>
    BY <1>12 DEF Send, diskVars, memVars
  <2>2. state' \in States
    BY <1>12, <1>1, <1>8 DEF Send, Quiet, FilesOK
  <2>3. turn' \in Turn
    BY <1>12 DEF Send, IdleTurn, Turn, TurnPcs, None
  <2> QED BY <1>1, <1>3, <2>1, <2>2, <2>3 DEF FilesOK
<1>13. CASE Stamp
  <2>1. UNCHANGED <<turns, blob, checkpoints, vendor, live, op, ending, faults>>
    BY <1>13 DEF Stamp, diskVars, memVars
  <2>2. minted' \in 0..MaxId
    BY <1>13, <1>6 DEF Stamp
  <2>3. state' \in States
    BY <1>13, <1>3, <1>2, <1>6, <1>7, MessageType, AppendedType DEF Stamp, TurnNo, RoundNo
  <2>4. turn' \in Turn
    BY <1>13, <1>1, <1>6 DEF Stamp, FilesOK, Turn, TurnPcs
  <2>5. flaws' \subseteq Flaws
    BY <1>13, <1>1 DEF Stamp, FilesOK, Flaws
  <2> QED BY <1>1, <1>3, <2>1, <2>2, <2>3, <2>4, <2>5 DEF FilesOK
<1>14. CASE UnlinkBlob
  <2>1. UNCHANGED <<state, turns, checkpoints, vendor, live, op, ending, minted, flaws, faults>>
    BY <1>14 DEF UnlinkBlob, diskVars, memVars
  <2>2. blob' \in Widgets \cup {Missing}
    BY <1>14 DEF UnlinkBlob
  <2>3. turn' \in Turn
    BY <1>14, <1>4 DEF UnlinkBlob, TurnPcs
  <2> QED BY <1>1, <1>3, <2>1, <2>2, <2>3 DEF FilesOK
<1>15. CASE Seed
  <2>1. UNCHANGED <<state, blob, checkpoints, vendor, op, ending, minted, flaws, faults>>
    BY <1>15 DEF Seed, diskVars, memVars
  <2>2. turns' \in TurnDirs
    BY <1>15, <1>1, <1>3, <1>5, <1>7, DirsType, NewTurnDir, TurnDirFields
       DEF Seed, FilesOK, TurnDirs, TurnNo
  <2>3. live' \in [sop : SUBSET Id] \cup {Missing}
    BY <1>15, <1>3, <1>5 DEF Seed, Loaded
  <2>4. turn' \in Turn
    <3>1. NextTurn \in TurnNo /\ turn' = [turn EXCEPT !.pc = "seeded", !.n = NextTurn]
      BY <1>15, <1>2, <1>7, BoundsAssumption DEF Seed, TurnNo
    <3> QED BY <1>1, <3>1 DEF FilesOK, Turn, TurnPcs
  <2> QED BY <1>1, <1>3, <2>1, <2>2, <2>3, <2>4 DEF FilesOK
<1>16. CASE BeginRound
  <2>1. UNCHANGED <<state, blob, checkpoints, vendor, op, ending, faults>>
    BY <1>16 DEF BeginRound, diskVars, memVars
  <2>2. turns' \in TurnDirs
    <3> DEFINE before == turns[turn.n].rounds[turn.r + 1]
               saved == IF before # Missing THEN before.saved ELSE {}
    <3>1. turn.n \in Dirs(turns) /\ turn.r + 1 \in RoundNo
      BY <1>16, <1>10, <1>1, <1>2, BoundsAssumption DEF BeginRound, FilesOK, Turn, RoundNo
    <3>2. before \in RoundDir \cup {Missing}
      BY <1>1, <3>1, DirsType, TurnDirFields DEF FilesOK
    <3>3. [entry |-> Sop, saved |-> saved] \in RoundDir
      BY <1>16, <1>3, <1>5, <3>2 DEF BeginRound, RoundDir
    <3>4. turns' = [turns EXCEPT ![turn.n].rounds[turn.r + 1] = [entry |-> Sop, saved |-> saved]]
      BY <1>16 DEF BeginRound
    <3> HIDE DEF saved
    <3> QED BY <1>1, <3>1, <3>3, <3>4, RoundSet DEF FilesOK
  <2>3. live' \in [sop : SUBSET Id] \cup {Missing}
    BY <1>16, <1>3, <1>5 DEF BeginRound, Loaded
  <2>4. turn' \in Turn
    <3>1. /\ turn' = [turn EXCEPT !.pc = "round", !.r = turn.r + 1, !.id = minted']
          /\ minted' \in Id /\ turn.r + 1 \in RoundNo
      BY <1>16, <1>1, <1>2, <1>6, BoundsAssumption DEF BeginRound, FilesOK, Turn, RoundNo
    <3> QED BY <1>1, <3>1 DEF FilesOK, Turn, TurnPcs
  <2>5. minted' \in 0..MaxId
    BY <1>16, <1>6 DEF BeginRound
  <2>6. flaws' \subseteq Flaws
    BY <1>16, <1>1 DEF BeginRound, FilesOK, Flaws
  <2> QED BY <1>1, <1>3, <2>1, <2>2, <2>3, <2>4, <2>5, <2>6 DEF FilesOK
<1>17. CASE SaveRound
  <2>1. UNCHANGED <<blob, checkpoints, live, op, ending, minted, flaws, faults>>
    BY <1>17 DEF SaveRound, diskVars, memVars
  <2>2. turns' \in TurnDirs
    BY <1>17, <1>10, <1>1, SavedSet DEF SaveRound, InARound, FilesOK
  <2>3. vendor' \in Seq(Memory)
    <3>1. CASE state.backend = "classic"
      BY <1>17, <1>1, <3>1 DEF SaveRound, FilesOK
    <3>2. CASE state.backend = "native"
      BY <1>17, <1>1, <1>11, <3>2 DEF SaveRound, FilesOK
    <3> QED BY <1>17, <3>1, <3>2 DEF SaveRound
  <2>4. state' \in States
    <3>1. CASE state.backend = "classic"
      BY <1>17, <1>1, <1>3, <3>1 DEF SaveRound, FilesOK
    <3>2. CASE state.backend = "native"
      BY <1>17, <1>11, <3>2
    <3> QED BY <1>17, <3>1, <3>2 DEF SaveRound
  <2>5. turn' \in Turn
    BY <1>17, <1>4 DEF SaveRound, TurnPcs
  <2> QED BY <1>1, <1>3, <2>1, <2>2, <2>3, <2>4, <2>5 DEF FilesOK
<1>18. CASE CommitBubble
  <2>1. UNCHANGED <<turns, blob, checkpoints, vendor, live, op, ending, minted, flaws, faults>>
    BY <1>18 DEF CommitBubble, diskVars, memVars
  <2>2. state' \in States
    <3>1. [id |-> turn.id, role |-> "assistant", turn |-> turn.n, round |-> turn.r] \in Message
      BY <1>18, <1>10, MessageType DEF CommitBubble, InARound
    <3> QED BY <1>18, <1>3, <3>1, AppendedType DEF CommitBubble
  <2>3. turn' \in Turn
    BY <1>18, <1>4 DEF CommitBubble, TurnPcs
  <2> QED BY <1>1, <1>3, <2>1, <2>2, <2>3 DEF FilesOK
<1>19. CASE Summarise
  <2>1. UNCHANGED <<state, blob, checkpoints, vendor, live, op, ending, minted, flaws, faults>>
    BY <1>19 DEF Summarise, diskVars, memVars, WithSummary
  <2>2. turns' \in TurnDirs
    <3>1. /\ turn.n \in Dirs(turns) /\ turn.n \in TurnNo /\ turn.id \in Id
          /\ turns[turn.n] \in TurnDir
      BY <1>19, <1>10, <1>1, DirsType DEF Summarise, InARound, FilesOK, WithSummary
    <3>2. [turns[turn.n] EXCEPT !.summary = @ \cup {turn.id}] \in TurnDir
      BY <3>1, TurnDirFields
    <3>3. turns' = [turns EXCEPT ![turn.n] = [turns[turn.n] EXCEPT !.summary = @ \cup {turn.id}]]
      BY <1>19 DEF Summarise, WithSummary
    <3> QED BY <1>1, <3>1, <3>2, <3>3, DirsType DEF FilesOK
  <2>3. turn' \in Turn
    BY <1>19, <1>4 DEF Summarise, TurnPcs, WithSummary
  <2> QED BY <1>1, <1>3, <2>1, <2>2, <2>3 DEF FilesOK
<1>20. CASE Tools
  <2>1. UNCHANGED <<state, turns, blob, checkpoints, vendor, op, ending, minted, flaws, faults>>
    BY <1>20 DEF Tools, diskVars, memVars
  <2>2. live' \in [sop : SUBSET Id] \cup {Missing}
    BY <1>20, <1>10, <1>3, <1>5 DEF Tools, InARound
  <2>3. turn' \in Turn
    BY <1>20, <1>4 DEF Tools, TurnPcs
  <2> QED BY <1>1, <1>3, <2>1, <2>2, <2>3 DEF FilesOK
<1>21. CASE WriteBlob
  <2>1. UNCHANGED <<state, turns, checkpoints, vendor, live, op, ending, minted, flaws, faults>>
    BY <1>21 DEF WriteBlob, diskVars, memVars
  <2>2. blob' \in Widgets \cup {Missing}
    BY <1>21, <1>10 DEF WriteBlob, InARound, Widgets
  <2>3. turn' \in Turn
    BY <1>21, <1>4 DEF WriteBlob, TurnPcs
  <2> QED BY <1>1, <1>3, <2>1, <2>2, <2>3 DEF FilesOK
<1>22. CASE WriteMarker
  <2>1. UNCHANGED <<turns, blob, checkpoints, vendor, live, op, ending, minted, flaws, faults>>
    BY <1>22 DEF WriteMarker, diskVars, memVars
  <2>2. state' \in States
    <3>1. [widget |-> turn.id, n |-> turn.n, r |-> turn.r] \in Widgets
      BY <1>22, <1>10 DEF WriteMarker, InARound, Widgets
    <3> QED BY <1>22, <1>3, <3>1, StateSet DEF WriteMarker
  <2>3. turn' \in Turn
    BY <1>22, <1>4 DEF WriteMarker, TurnPcs
  <2> QED BY <1>1, <1>3, <2>1, <2>2, <2>3 DEF FilesOK
<1>23. CASE Answer
  <2>1. UNCHANGED <<turns, blob, checkpoints, vendor, live, op, ending, minted, flaws, faults>>
    BY <1>23 DEF Answer, diskVars, memVars
  <2>2. state' \in States
    BY <1>23, <1>3, <1>8 DEF Answer
  <2>3. turn' \in Turn
    BY <1>23, <1>4 DEF Answer, TurnPcs
  <2> QED BY <1>1, <1>3, <2>1, <2>2, <2>3 DEF FilesOK
<1>24. CASE AnswerFromHub
  <2>1. UNCHANGED <<state, turns, blob, checkpoints, vendor, live, op, ending, minted, flaws, faults>>
    BY <1>24 DEF AnswerFromHub, diskVars, memVars
  <2>2. turn' \in Turn
    BY <1>24, <1>4 DEF AnswerFromHub, TurnPcs
  <2> QED BY <1>1, <1>3, <2>1, <2>2 DEF FilesOK
<1>25. CASE Finish
  <2>1. UNCHANGED <<turns, blob, checkpoints, vendor, live, op, ending, minted, flaws, faults>>
    BY <1>25 DEF Finish, diskVars, memVars
  <2>2. state' \in States
    BY <1>25, <1>1, <1>9 DEF Finish, FilesOK, Turn
  <2>3. turn' \in Turn
    BY <1>25, <1>1, <1>9 DEF Finish, FilesOK, Turn
  <2> QED BY <1>1, <1>3, <2>1, <2>2, <2>3 DEF FilesOK
<1>26. CASE Stop
  <2>1. UNCHANGED <<turns, blob, checkpoints, vendor, live, op, ending, minted, flaws, faults>>
    BY <1>26 DEF Stop, diskVars, memVars
  <2>2. state' \in States
    BY <1>26, <1>1, <1>9 DEF Stop, FilesOK, Turn, Stoppable
  <2>3. turn' \in Turn
    BY <1>26, <1>1, <1>9 DEF Stop, FilesOK, Turn, Stoppable
  <2> QED BY <1>1, <1>3, <2>1, <2>2, <2>3 DEF FilesOK
<1>27. CASE StopEarly
  <2>1. UNCHANGED <<state, turns, blob, checkpoints, vendor, live, op, ending, minted, flaws, faults>>
    BY <1>27 DEF StopEarly, diskVars, memVars
  <2>2. turn' \in Turn
    BY <1>27, <1>4 DEF StopEarly
  <2> QED BY <1>1, <1>3, <2>1, <2>2 DEF FilesOK
<1>28. CASE RecoverWidget
  <2>1. UNCHANGED <<state, turns, blob, checkpoints, vendor, op, ending, minted, flaws, faults>>
    BY <1>28 DEF RecoverWidget, diskVars, memVars
  <2>2. turn' \in Turn
    BY <1>28, <1>1, StateFields DEF RecoverWidget, FilesOK, IdleTurn, Turn, TurnPcs, Widgets,
       Quiet, None
  <2>3. live' \in [sop : SUBSET Id] \cup {Missing}
    BY <1>28, <1>1, <1>5 DEF RecoverWidget, Loaded, Quiet, FilesOK
  <2> QED BY <1>1, <1>3, <2>1, <2>2, <2>3 DEF FilesOK
<1>29. CASE ExpireWidget
  <2>1. UNCHANGED <<turns, blob, checkpoints, vendor, live, turn, op, ending, minted, flaws, faults>>
    BY <1>29 DEF ExpireWidget, diskVars, memVars
  <2>2. state' \in States
    BY <1>29, <1>1, <1>8 DEF ExpireWidget, Quiet, FilesOK
  <2> QED BY <1>1, <1>3, <2>1, <2>2 DEF FilesOK
<1>30. CASE Fail
  <2>1. UNCHANGED <<turns, blob, checkpoints, vendor, live, op, ending, minted, flaws>>
    BY <1>30 DEF Fail, diskVars, memVars
  <2>2. state' \in States
    BY <1>30, <1>3, <1>8 DEF Fail, Stoppable
  <2>3. turn' \in Turn
    BY <1>30, <1>4 DEF Fail, TurnPcs
  <2>4. faults' \in 0..MaxFault
    BY <1>30, <1>1, <1>2 DEF Fail, MayFail, FilesOK
  <2> QED BY <1>1, <1>3, <2>1, <2>2, <2>3, <2>4 DEF FilesOK
<1>31. CASE FailEarly
  <2>1. UNCHANGED <<state, turns, blob, checkpoints, vendor, live, op, ending, minted, flaws>>
    BY <1>31 DEF FailEarly, diskVars, memVars
  <2>2. turn' \in Turn
    BY <1>31, <1>4 DEF FailEarly, TurnPcs
  <2>3. faults' \in 0..MaxFault
    BY <1>31, <1>1, <1>2 DEF FailEarly, MayFail, FilesOK
  <2> QED BY <1>1, <1>3, <2>1, <2>2, <2>3 DEF FilesOK
<1>32. CASE SaveFailed
  <2>1. UNCHANGED <<state, blob, checkpoints, vendor, live, op, ending, minted, flaws, faults>>
    BY <1>32 DEF SaveFailed, diskVars, memVars
  <2>2. turns' \in TurnDirs
    <3>1. CASE UNCHANGED turns
      BY <1>1, <3>1 DEF FilesOK
    <3>2. CASE /\ InRound
               /\ turns' = [turns EXCEPT ![turn.n].rounds[turn.r].saved = @ \cup {turn.id}]
      <4>1. turn.n \in Dirs(turns) /\ turn.r \in Dirs(turns[turn.n].rounds) /\ turn.id \in Id
        BY <1>1, <3>2 DEF InRound, IInv, Housed, FilesOK, Turn
      <4> QED BY <1>1, <3>2, <4>1, SavedSet DEF FilesOK
    <3> QED BY <1>32, <3>1, <3>2 DEF SaveFailed
  <2>3. turn' \in Turn
    BY <1>32, <1>4 DEF SaveFailed, TurnPcs
  <2> QED BY <1>1, <1>3, <2>1, <2>2, <2>3 DEF FilesOK
<1>33. CASE ReportFailure
  <2>1. UNCHANGED <<turns, blob, checkpoints, vendor, live, op, ending, flaws, faults>>
    BY <1>33 DEF ReportFailure, diskVars, memVars
  <2>2. minted' \in 0..MaxId
    BY <1>33, <1>1, <1>6 DEF ReportFailure, FilesOK
  <2>3. state' \in States
    <3>1. CASE InRound
      <4>1. [id |-> turn.id, role |-> "error", turn |-> turn.n, round |-> turn.r] \in Message
        BY <1>1, <3>1, MessageType DEF InRound, FilesOK, Turn
      <4> QED BY <1>33, <1>3, <3>1, <4>1, AppendedType DEF ReportFailure
    <3>2. CASE ~InRound
      <4> DEFINE n == IF turn.n = None THEN NextTurn ELSE turn.n
      <4>1. minted' \in Id
        BY <1>33, <1>6, <3>2 DEF ReportFailure
      <4>2. n \in TurnNo \cup {None}
        BY <1>33, <1>1, <1>7, <1>2, BoundsAssumption DEF ReportFailure, FilesOK, Turn, TurnNo
      <4>3. state' = Append1(state, [id |-> minted', role |-> "error", round |-> 0, turn |-> n])
        BY <1>33, <3>2 DEF ReportFailure
      <4>4. [id |-> minted', role |-> "error", round |-> 0, turn |-> n] \in Message
        BY <4>1, <4>2 DEF Message
      <4> QED BY <1>33, <1>3, <4>3, <4>4, AppendedType DEF ReportFailure
    <3> QED BY <3>1, <3>2
  <2>4. turn' \in Turn
    BY <1>33, <1>4 DEF ReportFailure, TurnPcs
  <2> QED BY <1>1, <1>3, <2>1, <2>2, <2>3, <2>4 DEF FilesOK
<1>34. CASE LeaveFailed
  <2>1. UNCHANGED <<turns, blob, checkpoints, vendor, live, op, ending, minted, flaws, faults>>
    BY <1>34 DEF LeaveFailed, diskVars, memVars
  <2>2. state' \in States
    BY <1>34, <1>3, <1>8 DEF LeaveFailed
  <2>3. turn' \in Turn
    BY <1>34, <1>4 DEF LeaveFailed, TurnPcs
  <2> QED BY <1>1, <1>3, <2>1, <2>2, <2>3 DEF FilesOK
<1>35. CASE StopReporting
  <2>1. UNCHANGED <<turns, blob, checkpoints, vendor, live, op, ending, minted, flaws, faults>>
    BY <1>35 DEF StopReporting, diskVars, memVars
  <2>2. state' \in States
    BY <1>35, <1>3, <1>8 DEF StopReporting
  <2>3. turn' \in Turn
    BY <1>35, <1>4 DEF StopReporting, TurnPcs
  <2> QED BY <1>1, <1>3, <2>1, <2>2, <2>3 DEF FilesOK
<1> QED BY <1>12, <1>13, <1>14, <1>15, <1>16, <1>17, <1>18, <1>19, <1>20, <1>21, <1>22, <1>23,
           <1>24, <1>25, <1>26, <1>27, <1>28, <1>29, <1>30, <1>31, <1>32, <1>33, <1>34, <1>35
           DEF TurnStep

\* A rewind keeps its type when it goes on.
LEMMA OpFields ==
  ASSUME NEW o \in Op
  PROVE  /\ o.pc \in OpPcs /\ o.kind \in {"none", "turn", "round", "restore"}
         /\ o.at \in Nat /\ o.cut \in Nat /\ o.round \in RoundNo \cup {0}
         /\ o.read \in States \cup {Missing} /\ o.left \in SUBSET Child
         /\ o.sop \in SUBSET Id /\ o.record \in Record \cup {Missing}
         /\ \A pc \in OpPcs : [o EXCEPT !.pc = pc] \in Op
         /\ \A left \in SUBSET Child : [o EXCEPT !.left = left] \in Op
         /\ \A pc \in OpPcs, left \in SUBSET Child : [o EXCEPT !.pc = pc, !.left = left] \in Op
<1> USE DEF Op
<1>1. /\ o.pc \in OpPcs /\ o.kind \in {"none", "turn", "round", "restore"}
      /\ o.at \in Nat /\ o.cut \in Nat /\ o.round \in RoundNo \cup {0}
      /\ o.read \in States \cup {Missing} /\ o.left \in SUBSET Child
      /\ o.sop \in SUBSET Id /\ o.record \in Record \cup {Missing}
  OBVIOUS
<1>2. \A pc \in OpPcs : [o EXCEPT !.pc = pc] \in Op
  OBVIOUS
<1>3. \A left \in SUBSET Child : [o EXCEPT !.left = left] \in Op
  OBVIOUS
<1>4. \A pc \in OpPcs, left \in SUBSET Child : [o EXCEPT !.pc = pc, !.left = left] \in Op
  OBVIOUS
<1> QED BY <1>1, <1>2, <1>3, <1>4

\* The children of a session directory, and the directories that a truncation
\* removes.
LEMMA ChildrenType ==
  /\ \A s, b : \A t \in TurnDirs : Children(s, t, b) \in SUBSET Child
  /\ turns \in TurnDirs => Doomed \in SUBSET Child
<1>1. ASSUME NEW s, NEW b, NEW t \in TurnDirs
      PROVE  Children(s, t, b) \in SUBSET Child
  BY DirsType DEF Children, Child, TurnNo
<1>2. ASSUME turns \in TurnDirs PROVE Doomed \in SUBSET Child
  <2>1. Dirs(turns) \subseteq Nat
    BY <1>2, DirsType DEF TurnNo
  <2>2. ASSUME op.cut \in Dirs(turns) PROVE Dirs(turns[op.cut].rounds) \subseteq Nat
    <3>1. turns[op.cut] \in TurnDir
      BY <1>2, <2>2, DirsType
    <3>2. turns[op.cut].rounds \in [RoundNo -> RoundDir \cup {Missing}]
      BY <3>1, TurnDirFields
    <3>3. DOMAIN turns[op.cut].rounds = RoundNo
      BY <3>2
    <3>4. RoundNo \subseteq Nat
      BY DEF RoundNo
    <3> QED BY <3>3, <3>4 DEF Dirs
  <2> QED BY <2>1, <2>2 DEF Doomed, Child
<1> QED BY <1>1, <1>2

\* _resolve_cut_turn yields a number.
LEMMA CutTurnType ==
  ASSUME NEW s \in States, NEW i \in DOMAIN s.messages
  PROVE  CutTurn(s.messages, i) \in Nat /\ CutTurn(s.messages, i) > 0
<1> DEFINE Earlier == {j \in 1..(i-1) : s.messages[j].role = "user"}
<1>1. i \in Nat /\ s.messages[i].turn \in TurnNo \cup {None}
  BY InMessages DEF Message
<1>2. IsFiniteSet(1..(i-1))
  BY <1>1, FS_Interval
<1>3. IsFiniteSet(Earlier) /\ Cardinality(Earlier) \in Nat
  BY <1>2, FS_Subset, FS_CardinalityType
<1> QED BY <1>1, <1>3 DEF CutTurn, TurnNo, None

\* The message that a truncation goes back to is where IndexOf says.
LEMMA IndexIsThere ==
  ASSUME NEW ms, NEW id \in IdsOf(ms)
  PROVE  IndexOf(ms, id) \in DOMAIN ms /\ ms[IndexOf(ms, id)].id = id
BY DEF IdsOf, IndexOf

\* A fork remembers a part of what its record does.
LEMMA ForkType ==
  ASSUME NEW record \in Record, NEW cut
  PROVE  Fork(record, cut) \in Memory
BY DEF Fork, Record, Memory

\* The new vendor session of a rewind, and the record of it.
LEMMA ForkedTypes ==
  ASSUME vendor \in Seq(Memory), Len(vendor) < MaxFork, NEW memory \in Memory,
         vendor' = Append(vendor, memory)
  PROVE  /\ vendor' \in Seq(Memory) /\ vendor'[Len(vendor')] = memory
         /\ [gen |-> Len(vendor'), known |-> memory] \in Record
         /\ DOMAIN vendor' = DOMAIN vendor \cup {Len(vendor')}
<1>1. /\ vendor' \in Seq(Memory) /\ Len(vendor') = Len(vendor) + 1 /\ Len(vendor) \in Nat
      /\ vendor'[Len(vendor) + 1] = memory
  BY AppendProperties, LenProperties
<1>2. DOMAIN vendor' = 1..Len(vendor') /\ DOMAIN vendor = 1..Len(vendor)
  BY <1>1, LenProperties
<1>3. Len(vendor') \in 1..MaxFork
  BY <1>1, BoundsAssumption
<1> QED BY <1>1, <1>2, <1>3 DEF Record

\* What is kept of the history is a history.
LEMMA KeptType ==
  ASSUME op.read \in States, op.at \in IdsOf(op.read.messages)
  PROVE  /\ Kept \in Seq(Message) /\ Len(Kept) <= Len(op.read.messages)
         /\ \A j \in DOMAIN Kept :
              /\ Kept[j] = op.read.messages[j] /\ j \in DOMAIN op.read.messages
              /\ j <= IndexOf(op.read.messages, op.at)
              /\ op.kind # "turn" => j < IndexOf(op.read.messages, op.at)
<1> DEFINE ms == op.read.messages
           i == IndexOf(ms, op.at)
           n == IF op.kind = "turn" THEN i ELSE i - 1
<1>1. ms \in Seq(Message) /\ Len(ms) \in Nat /\ DOMAIN ms = 1..Len(ms) /\ i \in DOMAIN ms
  BY InMessages, StateFields, IndexIsThere
<1>2. Kept = SubSeq(ms, 1, n)
  BY DEF Kept
<1>3. n \in 0..Len(ms) /\ i \in Nat /\ n <= i /\ (op.kind # "turn" => n < i)
  BY <1>1
<1> HIDE DEF ms, n, i
<1>4. /\ SubSeq(ms, 1, n) \in Seq(Message)
      /\ Len(SubSeq(ms, 1, n)) = n
      /\ \A j \in 1..n : SubSeq(ms, 1, n)[j] = ms[j]
  BY <1>1, <1>3, SubSeqProperties
<1>5. DOMAIN Kept = 1..n
  BY <1>2, <1>4, LenProperties
<1>6. \A j \in 1..n : j \in DOMAIN ms /\ j <= i /\ (op.kind # "turn" => j < i)
  BY <1>1, <1>3
<1> QED BY <1>1, <1>2, <1>3, <1>4, <1>5, <1>6 DEF ms, i

\* A step of a rewind keeps the types.
LEMMA RewindStepType ==
  ASSUME IInv, RewindStep
  PROVE  FilesOK'
<1>1. FilesOK
  BY DEF IInv, TypeOK, FilesOK
<1>2. op \in Op
  BY <1>1 DEF FilesOK
<1>3. op.kind \in {"turn", "round"} => state \in States
  BY <1>1 DEF IInv, Cutting, FilesOK
<1>4. \A k \in DOMAIN checkpoints : checkpoints[k] \in Checkpoint
  BY <1>1, LenProperties, ElementOfSeq DEF FilesOK
<1>5. op.pc = "persist" => op.read \in States /\ op.at \in IdsOf(op.read.messages)
  BY <1>2, OpFields DEF IInv, Cutting, Restoring, Idle
<1>6. op.pc = "copy" =>
        /\ op.at \in DOMAIN checkpoints /\ checkpoints[op.at] \in Checkpoint
        /\ op.left \subseteq Children(checkpoints[op.at].state, checkpoints[op.at].turns,
                                   checkpoints[op.at].blob)
  BY <1>2, <1>4, OpFields DEF IInv, Cutting, Restoring, Idle
<1>7. CASE TakeCheckpoint
  <2>1. UNCHANGED <<state, turns, blob, vendor, live, turn, ending, minted, flaws, faults>>
    BY <1>7 DEF TakeCheckpoint, diskVars, memVars, Astray
  <2>2. checkpoints' \in Seq(Checkpoint)
    <3> DEFINE c == [state |-> state, turns |-> turns, blob |-> blob,
                     flaws |-> IF Astray THEN flaws \cup {"behind"} ELSE flaws]
    <3>1. c \in Checkpoint
      BY <1>1 DEF FilesOK, Checkpoint, Flaws
    <3>2. checkpoints' = Append(checkpoints, c)
      BY <1>7 DEF TakeCheckpoint, Astray
    <3> QED BY <1>1, <3>1, <3>2, AppendProperties DEF FilesOK
  <2>3. op' \in Op
    <3>1. Children(state, turns, blob) \in SUBSET Child
      BY <1>1, ChildrenType DEF FilesOK
    <3> QED BY <1>7, <1>2, <3>1, OpFields DEF TakeCheckpoint, OpPcs, Astray
  <2> QED BY <1>1, <2>1, <2>2, <2>3 DEF FilesOK
<1>8. CASE ReadSession
  <2>1. UNCHANGED <<state, turns, blob, checkpoints, vendor, live, turn, ending, minted, flaws, faults>>
    BY <1>8 DEF ReadSession, diskVars, memVars
  <2>2. op' \in Op
    <3> DEFINE sop == IF op.kind = "round" THEN op.sop
                      ELSE IF op.cut \in Dirs(turns) THEN turns[op.cut].entry ELSE {}
    <3>1. sop \in SUBSET Id
      BY <1>1, <1>2, OpFields, DirsType, TurnDirFields DEF FilesOK
    <3>2. op' = [op EXCEPT !.pc = "persist", !.read = state, !.sop = sop]
      BY <1>8 DEF ReadSession
    <3> HIDE DEF sop
    <3> QED BY <1>1, <1>2, <3>1, <3>2 DEF FilesOK, Op, OpPcs
  <2> QED BY <1>1, <2>1, <2>2 DEF FilesOK
<1>9. CASE PersistCut
  <2>1. UNCHANGED <<turns, blob, checkpoints, vendor, live, turn, ending, minted, faults>>
    BY <1>9 DEF PersistCut, diskVars, memVars
  <2>2. state' \in States \cup {Missing}
    <3>1. op.read \in States /\ op.at \in IdsOf(op.read.messages)
      BY <1>9, <1>5 DEF PersistCut
    <3>2. Kept \in Seq(Message)
      BY <3>1, KeptType
    <3>3. state' = [op.read EXCEPT !.messages = Kept, !.sop = op.sop]
      BY <1>9 DEF PersistCut
    <3> QED BY <1>2, <3>1, <3>2, <3>3, OpFields DEF States
  <2>3. op' \in Op
    BY <1>9, <1>2, OpFields DEF PersistCut, OpPcs
  <2>4. flaws' \subseteq Flaws
    BY <1>9, <1>1 DEF PersistCut, FilesOK, Flaws
  <2> QED BY <1>1, <2>1, <2>2, <2>3, <2>4 DEF FilesOK
<1>10. CASE Unmark
  <2>1. UNCHANGED <<turns, blob, checkpoints, vendor, live, turn, ending, minted, flaws, faults>>
    BY <1>10 DEF Unmark, diskVars, memVars
  <2>2. state' \in States \cup {Missing}
    <3>1. state \in States
      BY <1>10, <1>1 DEF Unmark, IInv, Idle, Cutting, Restoring, FilesOK, Op
    <3> QED BY <1>10, <3>1, StateSet DEF Unmark
  <2>3. op' \in Op
    BY <1>10, <1>2, OpFields DEF Unmark, OpPcs
  <2> QED BY <1>1, <2>1, <2>2, <2>3 DEF FilesOK
<1>11. CASE Unlink
  <2>1. UNCHANGED <<state, turns, checkpoints, vendor, live, turn, ending, minted, faults>>
    BY <1>11 DEF Unlink, diskVars, memVars
  <2>2. blob' \in Widgets \cup {Missing}
    BY <1>11 DEF Unlink
  <2>3. op' \in Op
    <3>1. Doomed \in SUBSET Child
      BY <1>1, ChildrenType DEF FilesOK
    <3> QED BY <1>11, <1>2, <3>1, OpFields DEF Unlink, OpPcs
  <2>4. flaws' \subseteq Flaws
    <3>1. CASE op.kind = "restore"
      <4>1. op.at \in DOMAIN checkpoints
        BY <3>1 DEF IInv, Restoring
      <4>2. checkpoints[op.at].flaws \subseteq Flaws /\ flaws \subseteq Flaws
        BY <1>1, <1>4, <4>1 DEF Checkpoint, FilesOK
      <4> QED BY <1>11, <3>1, <4>2 DEF Unlink
    <3>2. CASE op.kind # "restore"
      BY <1>11, <1>1, <3>2 DEF Unlink, FilesOK
    <3> QED BY <3>1, <3>2
  <2> QED BY <1>1, <2>1, <2>2, <2>3, <2>4 DEF FilesOK
<1>12. CASE ResetSummary
  <2>1. UNCHANGED <<state, blob, checkpoints, vendor, live, turn, ending, minted, flaws, faults>>
    BY <1>12 DEF ResetSummary, diskVars, memVars, WithSummary
  <2>2. turns' \in TurnDirs
    <3> DEFINE left == {m.id : m \in {x \in Range(state.messages) :
                                     x.role # "user" /\ x.turn = op.cut}}
    <3>1. op.kind = "round" /\ state \in States /\ op.cut \in TurnNo /\ op.cut \in Dirs(turns)
      BY <1>12, <1>1, <1>2, <1>3, OpFields DEF ResetSummary, IInv, Cutting, Restoring, Idle,
         Housed, WithSummary
    <3>2. left \in SUBSET Id
      BY <3>1, InMessages DEF Message
    <3>3. [turns[op.cut] EXCEPT !.summary = left] \in TurnDir
      BY <1>1, <3>1, <3>2, DirsType, TurnDirFields DEF FilesOK
    <3>4. turns' = [turns EXCEPT ![op.cut] = [turns[op.cut] EXCEPT !.summary = left]]
      BY <1>12 DEF ResetSummary, WithSummary
    <3> HIDE DEF left
    <3> QED BY <1>1, <3>1, <3>3, <3>4, DirsType DEF FilesOK
  <2>3. op' \in Op
    <3>1. Doomed \in SUBSET Child
      BY <1>1, ChildrenType DEF FilesOK
    <3> QED BY <1>12, <1>2, <3>1, OpFields DEF ResetSummary, OpPcs, WithSummary
  <2> QED BY <1>1, <2>1, <2>2, <2>3 DEF FilesOK
<1>13. CASE RemoveOne
  <2>1. UNCHANGED <<state, blob, checkpoints, vendor, live, turn, ending, minted, flaws, faults>>
    BY <1>13 DEF RemoveOne, diskVars, memVars
  <2>2. turns' \in TurnDirs
    <3>1. PICK c \in op.left :
            turns' = IF c[1] = "turn" THEN [turns EXCEPT ![c[2]] = Missing]
                     ELSE [turns EXCEPT ![op.cut].rounds[c[2]] = Missing]
      BY <1>13 DEF RemoveOne
    <3>2. c \in Doomed
      BY <1>13, <1>2, OpFields DEF RemoveOne, IInv, Cutting, Restoring, Idle
    <3>3. CASE c[1] = "turn"
      <4>1. c[2] \in TurnNo
        BY <1>1, <3>2, <3>3, DirsType DEF Doomed, FilesOK
      <4> QED BY <1>1, <3>1, <3>3, <4>1, DirsType DEF FilesOK
    <3>4. CASE c[1] # "turn"
      <4>1. op.cut \in Dirs(turns) /\ c[2] \in Dirs(turns[op.cut].rounds)
        BY <3>2, <3>4 DEF Doomed
      <4>2. c[2] \in RoundNo
        BY <1>1, <4>1, DirsType, TurnDirFields DEF Dirs, FilesOK
      <4> QED BY <1>1, <3>1, <3>4, <4>1, <4>2, RoundSet DEF FilesOK
    <3> QED BY <3>3, <3>4
  <2>3. op' \in Op
    <3>1. PICK c \in op.left : op' = [op EXCEPT !.left = op.left \ {c}]
      BY <1>13 DEF RemoveOne
    <3>2. op.left \ {c} \in SUBSET Child
      BY <1>2, OpFields
    <3> QED BY <1>2, <3>1, <3>2, OpFields
  <2> QED BY <1>1, <2>1, <2>2, <2>3 DEF FilesOK
<1>14. CASE Removed
  <2>1. UNCHANGED <<state, turns, blob, checkpoints, vendor, live, turn, ending, minted, flaws, faults>>
    BY <1>14 DEF Removed, diskVars, memVars
  <2>2. op' \in Op
    BY <1>14, <1>2, OpFields DEF Removed, OpPcs
  <2> QED BY <1>1, <2>1, <2>2 DEF FilesOK
<1>15. CASE ClearOne
  <2>1. UNCHANGED <<checkpoints, vendor, live, turn, ending, minted, flaws, faults>>
    BY <1>15 DEF ClearOne, diskVars, memVars
  <2>2. state' \in States \cup {Missing}
    BY <1>15, <1>1 DEF ClearOne, FilesOK
  <2>3. blob' \in Widgets \cup {Missing}
    BY <1>15, <1>1 DEF ClearOne, FilesOK
  <2>4. turns' \in TurnDirs
    <3>1. CASE UNCHANGED turns
      BY <1>1, <3>1 DEF FilesOK
    <3>2. CASE \E c \in op.left : turns' = [turns EXCEPT ![c[2]] = Missing]
      BY <1>1, <3>2 DEF FilesOK, TurnDirs
    <3> QED BY <1>15, <3>1, <3>2 DEF ClearOne
  <2>5. op' \in Op
    <3>1. op.kind = "restore" /\ op.at \in DOMAIN checkpoints
      BY <1>15, <1>2, OpFields DEF ClearOne, IInv, Cutting, Restoring, Idle
    <3>2. LET c == checkpoints[op.at] IN Children(c.state, c.turns, c.blob) \in SUBSET Child
      BY <1>4, <3>1, ChildrenType DEF Checkpoint
    <3>3. \A c : op.left \ {c} \in SUBSET Child
      BY <1>2, OpFields
    <3>4. CASE \E c \in op.left : op' = [op EXCEPT !.left = op.left \ {c}]
      BY <1>2, <3>3, <3>4, OpFields
    <3>5. CASE LET c == checkpoints[op.at]
               IN  op' = [op EXCEPT !.pc = "copy", !.left = Children(c.state, c.turns, c.blob)]
      BY <1>2, <3>2, <3>5, OpFields DEF OpPcs
    <3> QED BY <1>15, <3>4, <3>5 DEF ClearOne
  <2> QED BY <1>1, <2>1, <2>2, <2>3, <2>4, <2>5 DEF FilesOK
<1>16. CASE CopyOne
  <2>1. UNCHANGED <<checkpoints, vendor, live, turn, ending, minted, flaws, faults>>
    BY <1>16 DEF CopyOne, diskVars, memVars
  <2>2. state' \in States \cup {Missing}
    BY <1>16, <1>1, <1>6 DEF CopyOne, FilesOK, Checkpoint
  <2>3. blob' \in Widgets \cup {Missing}
    BY <1>16, <1>1, <1>6 DEF CopyOne, FilesOK, Checkpoint
  <2>4. turns' \in TurnDirs
    <3> DEFINE from == checkpoints[op.at]
    <3>1. CASE UNCHANGED turns
      BY <1>1, <3>1 DEF FilesOK
    <3>2. ASSUME NEW c \in op.left, c[1] = "turn", turns' = [turns EXCEPT ![c[2]] = from.turns[c[2]]]
          PROVE  turns' \in TurnDirs
      <4>1. c \in Children(from.state, from.turns, from.blob)
        BY <1>16, <1>6, <3>2 DEF CopyOne
      <4>2. c[2] \in Dirs(from.turns)
        BY <3>2, <4>1 DEF Children
      <4>3. from.turns \in TurnDirs
        BY <1>16, <1>6 DEF CopyOne, Checkpoint
      <4>4. from.turns[c[2]] \in TurnDir /\ c[2] \in TurnNo
        BY <4>2, <4>3, DirsType
      <4> QED BY <1>1, <3>2, <4>4, DirsType DEF FilesOK
    <3> QED BY <1>16, <3>1, <3>2 DEF CopyOne
  <2>5. op' \in Op
    <3>1. \A c : op.left \ {c} \in SUBSET Child
      BY <1>2, OpFields
    <3>2. CASE \E c \in op.left : op' = [op EXCEPT !.left = op.left \ {c}]
      BY <1>2, <3>1, <3>2, OpFields
    <3>3. CASE op' = [op EXCEPT !.pc = "apply"]
      BY <1>2, <3>3, OpFields DEF OpPcs
    <3> QED BY <1>16, <3>2, <3>3 DEF CopyOne
  <2> QED BY <1>1, <2>1, <2>2, <2>3, <2>4, <2>5 DEF FilesOK
<1>17. CASE ApplyUpdates
  <2>1. UNCHANGED <<turns, blob, checkpoints, vendor, live, turn, ending, minted, flaws, faults>>
    BY <1>17 DEF ApplyUpdates, diskVars, memVars
  <2>2. state' \in States \cup {Missing}
    <3>1. state \in States
      BY <1>17, <1>1, <1>2, OpFields DEF ApplyUpdates, IInv, Idle, Cutting, Restoring, FilesOK
    <3> QED BY <1>17, <1>2, <3>1, OpFields, StateSet DEF ApplyUpdates
  <2>3. op' \in Op
    BY <1>17, <1>2, OpFields DEF ApplyUpdates, OpPcs
  <2> QED BY <1>1, <2>1, <2>2, <2>3 DEF FilesOK
<1>18. CASE Evict
  <2>1. UNCHANGED <<turns, blob, checkpoints, vendor, ending, minted, flaws, faults>>
    BY <1>18 DEF Evict, diskVars, memVars
  <2>2. live' \in [sop : SUBSET Id] \cup {Missing}
    BY <1>18 DEF Evict
  <2>3. op' \in Op
    BY <1>18, IdleTypes DEF Evict
  <2>4. state' \in States \cup {Missing}
    <3>1. CASE op.kind = "turn"
      <4> DEFINE msg == op.read.messages[IndexOf(op.read.messages, op.at)]
      <4>1. op.read \in States /\ op.at \in IdsOf(op.read.messages)
        BY <1>18, <1>2, <3>1, OpFields DEF Evict, IInv, Cutting
      <4>2. msg \in Message
        BY <4>1, IndexIsThere, InMessages
      <4>3. state' = Append1(state, msg)
        BY <1>18, <3>1 DEF Evict
      <4> HIDE DEF msg
      <4> QED BY <1>3, <3>1, <4>2, <4>3, AppendedType
    <3>2. CASE op.kind # "turn"
      BY <1>18, <1>1, <3>2 DEF Evict, FilesOK
    <3> QED BY <3>1, <3>2
  <2>5. turn' \in Turn
    <3>1. CASE op.kind = "turn"
      <4>1. op.at \in IdsOf(op.read.messages) /\ op.read \in States
        BY <1>18, <1>2, <3>1, OpFields DEF Evict, IInv, Cutting
      <4>2. op.at \in Id
        BY <4>1, InMessages DEF IdsOf, Message
      <4> QED BY <1>18, <3>1, <4>2 DEF Evict, IdleTurn, Turn, TurnPcs, None
    <3>2. CASE op.kind = "round"
      <4>1. op.cut \in TurnNo /\ op.round \in RoundNo
        BY <3>2 DEF IInv, Cutting
      <4>2. op.round - 1 \in RoundNo \cup {0}
        BY <4>1, BoundsAssumption DEF RoundNo
      <4> QED BY <1>18, <3>2, <4>1, <4>2 DEF Evict, RoundAgain, IdleTurn, Turn, TurnPcs, None
    <3>3. CASE op.kind = "restore"
      BY <1>18, <1>1, <3>3 DEF Evict, FilesOK
    <3> QED BY <1>18, <3>1, <3>2, <3>3 DEF Evict
  <2> QED BY <1>1, <2>1, <2>2, <2>3, <2>4, <2>5 DEF FilesOK
<1> QED BY <1>7, <1>8, <1>9, <1>10, <1>11, <1>12, <1>13, <1>14, <1>15, <1>16, <1>17, <1>18
           DEF RewindStep

\* A REST route, a switch of the backend, a click on a rewind, and a crash keep
\* the types.
LEMMA EventType ==
  ASSUME IInv, RestMessage \/ SetBackend \/ EndVendorSession \/ Clicks \/ Crash
  PROVE  FilesOK'
<1>1. FilesOK
  BY DEF IInv, TypeOK, FilesOK
<1>2. MaxId \in Nat /\ MaxFault \in Nat /\ None = 0
  BY BoundsAssumption DEF None
<1>3. state # Missing => state \in States
  BY <1>1 DEF FilesOK
<1>4. \A k \in DOMAIN checkpoints : checkpoints[k] \in Checkpoint /\ k \in Nat
  BY <1>1, LenProperties, ElementOfSeq DEF FilesOK
<1>5. CASE RestMessage
  <2>1. UNCHANGED <<turns, blob, checkpoints, vendor, live, turn, op, ending, flaws, faults>>
    BY <1>5 DEF RestMessage, diskVars, memVars
  <2>2. minted' \in 0..MaxId
    BY <1>5, <1>1, <1>2 DEF RestMessage, Mint, FilesOK
  <2>3. state' \in States \cup {Missing}
    <3>1. PICK role \in {"user", "assistant"} :
            state' = Append1(state, [id |-> minted', role |-> role, turn |-> None, round |-> 0])
      BY <1>5 DEF RestMessage
    <3>2. minted' \in Id /\ state \in States
      BY <1>5, <1>1, <1>2, <1>3 DEF RestMessage, EventLoopFree, Mint, FilesOK, Id
    <3>3. [id |-> minted', role |-> role, turn |-> None, round |-> 0] \in Message
      BY <3>2, MessageType
    <3> QED BY <3>1, <3>2, <3>3, AppendedType
  <2> QED BY <1>1, <2>1, <2>2, <2>3 DEF FilesOK
<1>6. CASE SetBackend
  <2>1. UNCHANGED <<turns, blob, checkpoints, vendor, live, op, minted, flaws>>
    BY <1>6 DEF SetBackend, diskVars, memVars
  <2>2. state' \in States \cup {Missing}
    BY <1>6, <1>3, StateSet DEF SetBackend, EventLoopFree
  <2>3. turn' \in Turn
    BY <1>6, <1>1, TurnFields DEF SetBackend, FilesOK, TurnPcs
  <2>4. ending' \in BOOLEAN
    BY <1>6 DEF SetBackend
  <2>5. faults' \in 0..MaxFault
    BY <1>6, <1>1, <1>2 DEF SetBackend, FilesOK
  <2> QED BY <1>1, <2>1, <2>2, <2>3, <2>4, <2>5 DEF FilesOK
<1>7. CASE EndVendorSession
  <2>1. UNCHANGED <<turns, blob, checkpoints, vendor, turn, op, minted, flaws, faults>>
    BY <1>7 DEF EndVendorSession, diskVars, memVars
  <2>2. ending' \in BOOLEAN
    BY <1>7 DEF EndVendorSession
  <2>3. live' \in [sop : SUBSET Id] \cup {Missing}
    BY <1>7 DEF EndVendorSession
  <2>4. state' \in States \cup {Missing}
    BY <1>7, <1>1, <1>3, StateSet DEF EndVendorSession, EventLoopFree, FilesOK
  <2> QED BY <1>1, <2>1, <2>2, <2>3, <2>4 DEF FilesOK
<1>8. ASSUME NEW i \in DOMAIN state.messages, state # Missing, TurnCut(i)
      PROVE  FilesOK'
  <2> DEFINE cut == CutTurn(state.messages, i)
             memory == Fork(state.record, cut)
  <2>1. UNCHANGED <<turns, blob, checkpoints, live, turn, ending, minted, flaws, faults>>
    BY <1>8 DEF TurnCut
  <2>2. state \in States /\ cut \in Nat /\ state.messages[i].id \in Id
    BY <1>3, <1>8, CutTurnType, InMessages DEF Message
  <2>3. op' \in Op
    <3>1. op' = [IdleOp EXCEPT !.pc = "checkpoint", !.kind = "turn",
                               !.at = state.messages[i].id, !.cut = cut]
      BY <1>8 DEF TurnCut
    <3>2. state.messages[i].id \in Nat /\ cut \in Nat
      BY <2>2 DEF Id
    <3> HIDE DEF cut
    <3> QED BY <3>1, <3>2, IdleTypes DEF Op, OpPcs
  <2>4. CASE UNCHANGED <<state, vendor>>
    BY <1>1, <2>1, <2>3, <2>4 DEF FilesOK
  <2>5. CASE /\ state.record # Missing /\ Len(vendor) < MaxFork
             /\ vendor' = Append(vendor, memory)
             /\ state' = [state EXCEPT !.record =
                           [gen |-> Len(vendor'), known |-> vendor'[Len(vendor')]]]
    <3>1. memory \in Memory
      BY <2>2, <2>5, ForkType, StateFields
    <3>2. /\ vendor' \in Seq(Memory) /\ vendor'[Len(vendor')] = memory
          /\ [gen |-> Len(vendor'), known |-> memory] \in Record
      BY <1>1, <2>5, <3>1, ForkedTypes DEF FilesOK
    <3>3. state' \in States
      BY <2>2, <2>5, <3>2, StateSet
    <3> QED BY <1>1, <2>1, <2>3, <3>2, <3>3 DEF FilesOK
  <2> QED BY <1>8, <2>4, <2>5 DEF TurnCut
<1>9. ASSUME NEW i \in DOMAIN state.messages, state # Missing, RoundCut(i)
      PROVE  FilesOK'
  <2> DEFINE msg == state.messages[i]
  <2>1. UNCHANGED <<state, turns, blob, checkpoints, vendor, live, turn, ending, minted, flaws,
                    faults>>
    BY <1>9 DEF RoundCut, diskVars
  <2>2. msg \in Message
    BY <1>3, <1>9, InMessages
  <2>3. op' \in Op
    <3>1. /\ msg.turn \in Dirs(turns) /\ msg.round \in Dirs(turns[msg.turn].rounds)
          /\ op' = [IdleOp EXCEPT !.pc = "checkpoint", !.kind = "round", !.at = msg.id,
                                  !.cut = msg.turn, !.round = msg.round,
                                  !.sop = turns[msg.turn].rounds[msg.round].entry]
      BY <1>9 DEF RoundCut
    <3>2. turns[msg.turn].rounds \in [RoundNo -> RoundDir \cup {Missing}]
      BY <1>1, <3>1, DirsType, TurnDirFields DEF FilesOK
    <3>3. turns[msg.turn].rounds[msg.round].entry \in SUBSET Id
      BY <3>1, <3>2 DEF Dirs, RoundDir
    <3>4. msg.id \in Nat /\ msg.turn \in Nat /\ msg.round \in RoundNo \cup {0}
      BY <2>2 DEF Message, Id, TurnNo, None
    <3> HIDE DEF msg
    <3> QED BY <3>1, <3>3, <3>4, IdleTypes DEF Op, OpPcs
  <2> QED BY <1>1, <2>1, <2>3 DEF FilesOK
<1>10. ASSUME NEW k \in DOMAIN checkpoints, Restore(k)
       PROVE  FilesOK'
  <2> DEFINE saved == checkpoints[k].state.record
             stale == saved # Missing /\ (state = Missing \/ saved # state.record)
             memory == Fork(saved, Cardinality(Dirs(checkpoints[k].turns)) + 1)
             record == IF stale THEN [gen |-> Len(vendor'), known |-> memory] ELSE Missing
  <2>1. UNCHANGED <<state, turns, blob, checkpoints, turn, ending, minted, flaws, faults>>
    BY <1>10 DEF Restore
  <2>2. /\ live' = Missing /\ stale => Len(vendor) < MaxFork
        /\ vendor' = IF stale THEN Append(vendor, memory) ELSE vendor
        /\ op' = [IdleOp EXCEPT !.pc = "checkpoint", !.kind = "restore", !.at = k,
                                !.record = record]
    BY <1>10 DEF Restore
  <2>3. /\ stale => Len(vendor) < MaxFork /\ vendor' = Append(vendor, memory)
        /\ ~stale => UNCHANGED vendor
    BY <1>10 DEF Restore
  <2>4. vendor' \in Seq(Memory) /\ record \in Record \cup {Missing}
    <3>1. CASE stale
      <4>1. checkpoints[k].state \in States
        BY <1>4, <1>10 DEF Checkpoint, Restore, Readable
      <4>4. memory \in Memory
        BY <3>1, <4>1, ForkType, StateFields
      <4> HIDE DEF memory
      <4>5. Len(vendor) < MaxFork /\ vendor' = Append(vendor, memory)
        BY <2>3, <3>1
      <4>6. vendor' \in Seq(Memory) /\ [gen |-> Len(vendor'), known |-> memory] \in Record
        BY <1>1, <4>4, <4>5, ForkedTypes DEF FilesOK
      <4> QED BY <3>1, <4>6
    <3>2. CASE ~stale
      BY <1>1, <2>2, <3>2 DEF FilesOK
    <3> QED BY <3>1, <3>2
  <2>5. op' \in Op
    <3> HIDE DEF record
    <3> QED BY <1>4, <2>2, <2>4, IdleTypes DEF Op, OpPcs
  <2>6. live' = Missing
    BY <1>10 DEF Restore
  <2> HIDE DEF record
  <2> QED BY <1>1, <2>1, <2>4, <2>5, <2>6 DEF FilesOK
<1>11. CASE Crash
  <2>1. UNCHANGED <<state, turns, blob, checkpoints, vendor, minted>>
    BY <1>11 DEF Crash, diskVars
  <2>2. live' = Missing /\ turn' = IdleTurn /\ op' = IdleOp /\ ending' = FALSE
    BY <1>11 DEF Crash
  <2>3. flaws' \subseteq Flaws /\ faults' \in 0..MaxFault
    BY <1>1, <1>2, <1>11 DEF Crash, FilesOK, Flaws
  <2> QED BY <1>1, <2>1, <2>2, <2>3, IdleTypes DEF FilesOK
<1> QED BY <1>5, <1>6, <1>7, <1>8, <1>9, <1>10, <1>11 DEF Clicks

-----------------------------------------------------------------------------
(* What a step leaves as it was.                                           *)

\* append_message adds one message at the end, or none, and nothing else.
LEMMA Appended ==
  ASSUME NEW s \in States, NEW msg \in Message
  PROVE  LET u == Append1(s, msg)
         IN  /\ u.pending = s.pending /\ u.record = s.record /\ u.sop = s.sop
             /\ u.backend = s.backend
             /\ DOMAIN s.messages \subseteq DOMAIN u.messages
             /\ \A i \in DOMAIN s.messages : u.messages[i] = s.messages[i]
             /\ \A i \in DOMAIN u.messages :
                  i \notin DOMAIN s.messages =>
                  /\ i = Len(s.messages) + 1 /\ u.messages[i] = msg
                  /\ msg.id \notin IdsOf(s.messages)
             /\ Range(s.messages) \subseteq Range(u.messages)
             /\ IdsOf(s.messages) \subseteq IdsOf(u.messages)
             /\ msg.id \in IdsOf(u.messages)
<1> DEFINE u == Append1(s, msg)
           ms == s.messages
<1>1. ms \in Seq(Message) /\ Len(ms) \in Nat /\ DOMAIN ms = 1..Len(ms)
  BY InMessages, StateFields
<1>2. CASE msg.id \in IdsOf(ms)
  BY <1>2 DEF Append1
<1>3. CASE msg.id \notin IdsOf(ms)
  <2>1. u = [s EXCEPT !.messages = Append(ms, msg)]
    BY <1>3 DEF Append1
  <2>2. /\ u.pending = s.pending /\ u.record = s.record /\ u.sop = s.sop
        /\ u.backend = s.backend /\ u.messages = Append(ms, msg)
    BY <2>1 DEF States
  <2>3. /\ Append(ms, msg) \in Seq(Message) /\ Len(Append(ms, msg)) = Len(ms) + 1
        /\ \A i \in 1..Len(ms) : Append(ms, msg)[i] = ms[i]
        /\ Append(ms, msg)[Len(ms) + 1] = msg
    BY <1>1, AppendProperties
  <2>4. DOMAIN u.messages = 1..(Len(ms) + 1)
    BY <2>2, <2>3, LenProperties
  <2> HIDE DEF u, ms
  <2>5. DOMAIN ms \subseteq DOMAIN u.messages /\ \A i \in DOMAIN ms : u.messages[i] = ms[i]
    BY <1>1, <2>2, <2>3, <2>4
  <2>6. \A i \in DOMAIN u.messages : i \notin DOMAIN ms => i = Len(ms) + 1
    BY <1>1, <2>4
  <2>7. Len(ms) + 1 \in DOMAIN u.messages /\ u.messages[Len(ms) + 1] = msg
    BY <1>1, <2>2, <2>3, <2>4
  <2>8. Range(ms) \subseteq Range(u.messages) /\ IdsOf(ms) \subseteq IdsOf(u.messages)
    BY <2>5 DEF Range, IdsOf
  <2>9. msg.id \in IdsOf(u.messages)
    BY <2>7 DEF IdsOf
  <2> QED BY <1>3, <2>2, <2>5, <2>6, <2>7, <2>8, <2>9 DEF u, ms
<1> QED BY <1>2, <1>3

\* A rewind finds no turn; only its last step starts one.
LEMMA RewindStepAlone ==
  ASSUME IInv, RewindStep
  PROVE  /\ turn.pc = "idle" /\ op.pc # "idle"
         /\ UNCHANGED <<vendor, ending, minted, faults>>
         /\ Evict \/ UNCHANGED <<live, turn>>
<1>1. op.pc # "idle" => turn.pc = "idle"
  BY DEF IInv, Exclusive
<1>2. CASE TakeCheckpoint
  BY <1>1, <1>2 DEF TakeCheckpoint, diskVars, Astray
<1>3. CASE ReadSession
  BY <1>1, <1>3 DEF ReadSession, diskVars
<1>4. CASE PersistCut
  BY <1>1, <1>4 DEF PersistCut, diskVars
<1>5. CASE Unmark
  BY <1>1, <1>5 DEF Unmark, diskVars
<1>6. CASE Unlink
  BY <1>1, <1>6 DEF Unlink, diskVars
<1>7. CASE ResetSummary
  BY <1>1, <1>7 DEF ResetSummary, diskVars, WithSummary
<1>8. CASE RemoveOne
  BY <1>1, <1>8 DEF RemoveOne, diskVars
<1>9. CASE Removed
  BY <1>1, <1>9 DEF Removed, diskVars
<1>10. CASE ClearOne
  BY <1>1, <1>10 DEF ClearOne, diskVars
<1>11. CASE CopyOne
  BY <1>1, <1>11 DEF CopyOne, diskVars
<1>12. CASE ApplyUpdates
  BY <1>1, <1>12 DEF ApplyUpdates, diskVars
<1>13. CASE Evict
  BY <1>1, <1>13 DEF Evict, diskVars
<1> QED BY <1>2, <1>3, <1>4, <1>5, <1>6, <1>7, <1>8, <1>9, <1>10, <1>11, <1>12, <1>13 DEF RewindStep

\* What is done besides: by the REST routes, a switch of the backend, a click
\* and a crash.
Event == RestMessage \/ SetBackend \/ EndVendorSession \/ Clicks \/ Crash

\* A click finds neither a turn nor a rewind.
LEMMA ClickAlone ==
  ASSUME Clicks
  PROVE  /\ turn.pc = "idle" /\ op.pc = "idle"
         /\ UNCHANGED <<turns, blob, checkpoints, turn, ending, minted, flaws, faults>>
<1>1. ASSUME NEW i \in DOMAIN state.messages, state # Missing, TurnCut(i) \/ RoundCut(i)
      PROVE  /\ turn.pc = "idle" /\ op.pc = "idle"
             /\ UNCHANGED <<turns, blob, checkpoints, turn, ending, minted, flaws, faults>>
  BY <1>1 DEF TurnCut, RoundCut, MayRewind, Quiet, diskVars
<1>2. ASSUME NEW k \in DOMAIN checkpoints, Restore(k)
      PROVE  /\ turn.pc = "idle" /\ op.pc = "idle"
             /\ UNCHANGED <<turns, blob, checkpoints, turn, ending, minted, flaws, faults>>
  BY <1>2 DEF Restore
<1> QED BY <1>1, <1>2 DEF Clicks

\* Checkpoints are added, and stay as they are.
LEMMA CheckpointsStay ==
  ASSUME IInv, TurnStep \/ RewindStep \/ Event
  PROVE  /\ Len(checkpoints) \in Nat /\ DOMAIN checkpoints = 1..Len(checkpoints)
         /\ DOMAIN checkpoints \subseteq DOMAIN checkpoints'
         /\ \A k \in DOMAIN checkpoints : checkpoints'[k] = checkpoints[k]
<1>1. checkpoints \in Seq(Checkpoint)
  BY DEF IInv, TypeOK
<1>2. Len(checkpoints) \in Nat /\ DOMAIN checkpoints = 1..Len(checkpoints)
  BY <1>1, LenProperties
<1>3. CASE UNCHANGED checkpoints
  BY <1>2, <1>3
<1>4. ASSUME TakeCheckpoint
      PROVE  \E c \in Checkpoint : checkpoints' = Append(checkpoints, c)
  <2> DEFINE c == [state |-> state, turns |-> turns, blob |-> blob,
                   flaws |-> IF Astray THEN flaws \cup {"behind"} ELSE flaws]
  <2>1. c \in Checkpoint
    BY DEF IInv, TypeOK, Checkpoint, Flaws
  <2>2. checkpoints' = Append(checkpoints, c)
    BY <1>4 DEF TakeCheckpoint, Astray
  <2> QED BY <2>1, <2>2
<1>5. CASE TakeCheckpoint
  <2>1. PICK c \in Checkpoint : checkpoints' = Append(checkpoints, c)
    BY <1>4, <1>5
  <2>2. /\ checkpoints' \in Seq(Checkpoint) /\ Len(checkpoints') = Len(checkpoints) + 1
        /\ \A k \in 1..Len(checkpoints) : checkpoints'[k] = checkpoints[k]
    BY <1>1, <2>1, AppendProperties
  <2>3. DOMAIN checkpoints' = 1..(Len(checkpoints) + 1)
    BY <2>2, LenProperties
  <2> QED BY <1>2, <2>2, <2>3
<1>6. TurnStep \/ Clicks => UNCHANGED checkpoints
  BY TurnStepAlone, ClickAlone
<1>7. RestMessage \/ SetBackend \/ EndVendorSession \/ Crash => UNCHANGED checkpoints
  BY DEF RestMessage, SetBackend, EndVendorSession, Crash, diskVars
<1>8. RewindStep => TakeCheckpoint \/ UNCHANGED checkpoints
  BY DEF RewindStep, ReadSession, PersistCut, Unmark, Unlink, ResetSummary, RemoveOne, Removed,
         ClearOne, CopyOne, ApplyUpdates, Evict, diskVars, WithSummary
<1> QED BY <1>3, <1>5, <1>6, <1>7, <1>8 DEF Event

-----------------------------------------------------------------------------
(* The parts of the invariant, one after the other.                        *)

\* A turn and a rewind exclude each other.
LEMMA ExclusiveStep ==
  ASSUME IInv, TurnStep \/ RewindStep \/ Event
  PROVE  Exclusive'
<1>1. CASE TurnStep
  BY <1>1, TurnStepAlone, TurnStepType, Absent DEF Exclusive
<1>2. CASE RewindStep
  <2>1. turn.pc = "idle" /\ (Evict \/ UNCHANGED turn)
    BY <1>2, RewindStepAlone
  <2>2. CASE Evict
    <3>1. op'.pc = "idle"
      BY <2>2 DEF Evict, IdleOp
    <3>2. op.kind \in {"turn", "round"} => state # Missing
      BY DEF IInv, Cutting
    <3>3. ASSUME op.kind = "turn" PROVE state' # Missing
      <4> DEFINE msg == op.read.messages[IndexOf(op.read.messages, op.at)]
      <4>1. state' = Append1(state, msg) /\ state \in States
        BY <2>2, <3>2, <3>3 DEF Evict, IInv, TypeOK
      <4>2. state' = state \/ state' = [state EXCEPT !.messages = Append(@, msg)]
        BY <4>1 DEF Append1
      <4> QED BY <4>1, <4>2, Absent DEF States, Missing
    <3> QED BY <2>1, <2>2, <3>1, <3>2, <3>3 DEF Evict, Exclusive
  <2> QED BY <2>1, <2>2 DEF Exclusive
<1>3. CASE RestMessage \/ SetBackend \/ EndVendorSession
  <2>1. state \in States /\ state' \in States \cup {Missing} /\ UNCHANGED op
    BY <1>3, EventType DEF FilesOK, EventLoopFree, RestMessage, SetBackend, EndVendorSession,
       IInv, TypeOK, memVars
  <2>2. turn'.pc # "idle" => turn.pc # "idle"
    BY <1>3 DEF RestMessage, SetBackend, EndVendorSession, memVars, Stoppable
  <2>3. state' # Missing
    <3>1. CASE RestMessage
      <4>1. PICK msg : state' = Append1(state, msg)
        BY <3>1 DEF RestMessage
      <4>2. state' = state \/ state' = [state EXCEPT !.messages = Append(@, msg)]
        BY <4>1 DEF Append1
      <4> QED BY <2>1, <4>2, Absent DEF States, Missing
    <3>2. CASE SetBackend
      BY <2>1, <3>2, Absent, StateSet DEF SetBackend
    <3>3. CASE EndVendorSession
      BY <2>1, <3>3, Absent, StateSet DEF EndVendorSession
    <3> QED BY <1>3, <3>1, <3>2, <3>3
  <2> QED BY <2>1, <2>2, <2>3 DEF IInv, Exclusive
<1>4. CASE Clicks
  BY <1>4, ClickAlone DEF Exclusive
<1>5. CASE Crash
  BY <1>5 DEF Crash, Exclusive, IdleTurn
<1> QED BY <1>1, <1>2, <1>3, <1>4, <1>5 DEF Event

\* A turn that began keeps its number, round and id.
LEMMA NumberedStep ==
  ASSUME IInv, TurnStep \/ RewindStep \/ Event
  PROVE  Numbered'
<1>1. turn \in Turn /\ Numbered /\ None = 0
  BY DEF IInv, TypeOK, None
<1>2. MaxTurn \in Nat /\ MaxRound \in Nat /\ MaxId \in Nat
  BY BoundsAssumption
<1>3. NextTurn \in Nat /\ NextTurn > 0
  BY DirsType DEF NextTurn, IInv, TypeOK
<1>4. Numbered' <=> /\ turn'.pc = "idle" => turn' = IdleTurn
                    /\ turn'.pc \in BeforeItBegins => turn'.n = None
                    /\ turn'.n = None => turn'.r = 0
                    /\ turn'.pc \in InARound \cup {"seeded"} => turn'.n \in TurnNo
                    /\ turn'.pc \in InARound => turn'.r \in RoundNo /\ turn'.id \in Id
  BY DEF Numbered, BeforeItBegins, InARound, TurnNo, RoundNo, Id, IdleTurn, None
<1>5. ASSUME NEW pc, pc # "idle", Go(pc),
             pc \in InARound \cup {"seeded"} => turn.pc \in InARound \cup {"seeded"},
             pc \in InARound => turn.pc \in InARound,
             pc \in BeforeItBegins => turn.pc \in BeforeItBegins
      PROVE  Numbered'
  BY <1>1, <1>4, <1>5 DEF Go, Numbered, Turn
<1> USE DEF BeforeItBegins
<1>6. turn' = IdleTurn => Numbered'
  BY <1>4 DEF IdleTurn, InARound
<1>7. UNCHANGED turn => Numbered'
  BY <1>1, <1>4 DEF Numbered
<1>8. ASSUME NEW clear \in BOOLEAN, Leave(clear) PROVE Numbered'
  <2>1. Go("unlinkLast") \/ turn' = IdleTurn
    BY <1>8 DEF Leave, Go
  <2>2. Go("unlinkLast") => Numbered'
    BY <1>5 DEF InARound
  <2> QED BY <1>6, <2>1, <2>2
<1> USE DEF At
<1>9. CASE Send
  <2>1. turn'.pc = "unlinkSent" /\ turn'.r = 0 /\ turn'.n = None
    BY <1>9 DEF Send, IdleTurn
  <2> QED BY <1>4, <2>1 DEF InARound
<1>10. CASE Stamp
  <2>1. turn.pc = "arrived" /\ turn'.pc = "stamped" /\ turn'.n = turn.n /\ turn'.r = turn.r
    BY <1>1, <1>10 DEF Stamp, Turn
  <2> QED BY <1>1, <1>4, <2>1 DEF InARound, Numbered
<1>11. CASE UnlinkBlob
  BY <1>5, <1>6, <1>11 DEF UnlinkBlob, InARound
<1>12. CASE Seed
  <2>1. turn' = [turn EXCEPT !.pc = "seeded", !.n = NextTurn] /\ NextTurn <= MaxTurn
    BY <1>12 DEF Seed
  <2>2. turn'.pc = "seeded" /\ turn'.n \in TurnNo
    BY <1>1, <1>2, <1>3, <2>1 DEF Turn, TurnNo
  <2> QED BY <1>1, <1>4, <2>2 DEF InARound, TurnNo
<1>13. CASE BeginRound
  <2>1. /\ turn' = [turn EXCEPT !.pc = "round", !.r = turn.r + 1, !.id = minted']
        /\ turn.pc = "seeded" /\ turn.r < MaxRound
        /\ minted < MaxId /\ minted' = minted + 1
    BY <1>13 DEF BeginRound, Mint
  <2>2. turn.r + 1 \in RoundNo /\ minted' \in Id
    BY <1>1, <1>2, <2>1 DEF Turn, RoundNo, Id, IInv, TypeOK
  <2>3. /\ turn'.pc = "round" /\ turn'.n = turn.n /\ turn'.r = turn.r + 1
        /\ turn'.id = minted'
    BY <1>1, <2>1 DEF Turn
  <2> QED BY <1>1, <1>4, <2>1, <2>2, <2>3 DEF Numbered, TurnNo
<1>14. CASE SaveRound
  BY <1>5, <1>14 DEF SaveRound, InARound
<1>15. CASE CommitBubble
  BY <1>5, <1>15 DEF CommitBubble, InARound
<1>16. CASE Summarise
  BY <1>5, <1>16 DEF Summarise, InARound, WithSummary
<1>17. CASE Tools
  BY <1>5, <1>17 DEF Tools, InARound
<1>18. CASE WriteBlob
  BY <1>5, <1>18 DEF WriteBlob, InARound
<1>19. CASE WriteMarker
  BY <1>5, <1>19 DEF WriteMarker, InARound
<1>20. CASE Answer
  BY <1>5, <1>20 DEF Answer, InARound
<1>21. CASE AnswerFromHub
  BY <1>5, <1>21 DEF AnswerFromHub, InARound
<1>22. CASE Finish
  BY <1>1, <1>8, <1>22 DEF Finish, Turn
<1>23. CASE Stop
  BY <1>1, <1>8, <1>23 DEF Stop, Turn
<1>24. CASE StopEarly
  BY <1>6, <1>24 DEF StopEarly
<1>25. CASE RecoverWidget
  <2>1. /\ turn' = [IdleTurn EXCEPT !.pc = "seeded", !.n = state.pending.n, !.r = blob.r,
                                   !.recovers = TRUE]
        /\ state.pending \in Widgets
    BY <1>25, StateFields DEF RecoverWidget, Quiet, IInv, TypeOK
  <2>2. turn'.pc = "seeded" /\ turn'.n \in TurnNo
    BY <2>1 DEF IdleTurn, Widgets
  <2> QED BY <1>1, <1>4, <2>2 DEF InARound, TurnNo
<1>26. CASE ExpireWidget
  BY <1>7, <1>26 DEF ExpireWidget, memVars
<1>27. CASE Fail
  BY <1>5, <1>27 DEF Fail, InARound, Stoppable
<1>28. CASE FailEarly
  BY <1>5, <1>28 DEF FailEarly, InARound
<1>29. CASE SaveFailed
  BY <1>5, <1>29 DEF SaveFailed, InARound
<1>30. CASE ReportFailure
  BY <1>5, <1>30 DEF ReportFailure, InARound
<1>31. CASE LeaveFailed
  BY <1>5, <1>6, <1>31 DEF LeaveFailed, InARound
<1>32. CASE StopReporting
  BY <1>5, <1>6, <1>32 DEF StopReporting, InARound
<1>33. CASE RewindStep
  <2>1. Evict \/ UNCHANGED turn
    BY <1>33, RewindStepAlone
  <2>2. CASE Evict
    <3>1. CASE op.kind = "turn"
      <4>1. turn'.pc = "stamped" /\ turn'.r = 0 /\ turn'.n = None
        BY <2>2, <3>1 DEF Evict, IdleTurn
      <4> QED BY <1>4, <4>1 DEF InARound
    <3>2. CASE op.kind = "round"
      <4>1. turn'.pc = "seeded" /\ turn'.n = op.cut
        BY <2>2, <3>2 DEF Evict, RoundAgain, IdleTurn
      <4>2. op.cut \in TurnNo
        BY <3>2 DEF IInv, Cutting
      <4> QED BY <1>1, <1>4, <4>1, <4>2 DEF InARound, TurnNo
    <3>3. CASE op.kind = "restore"
      BY <1>7, <2>2, <3>3 DEF Evict
    <3> QED BY <2>2, <3>1, <3>2, <3>3 DEF Evict
  <2> QED BY <1>7, <2>1, <2>2
<1>34. CASE Event
  <2>1. CASE SetBackend
    <3>1. UNCHANGED turn \/ (turn.pc \in Stoppable /\ turn' = [turn EXCEPT !.pc = "exit"])
      BY <2>1 DEF SetBackend
    <3>2. Go("exit") => Numbered'
      BY <1>5 DEF InARound
    <3> QED BY <1>7, <3>1, <3>2 DEF Go
  <2>2. CASE RestMessage \/ EndVendorSession \/ Clicks
    BY <1>7, <2>2, ClickAlone DEF RestMessage, EndVendorSession, memVars
  <2>3. CASE Crash
    BY <1>6, <2>3 DEF Crash
  <2> QED BY <1>34, <2>1, <2>2, <2>3 DEF Event
<1> QED BY <1>9, <1>10, <1>11, <1>12, <1>13, <1>14, <1>15, <1>16, <1>17, <1>18, <1>19, <1>20,
           <1>21, <1>22, <1>23, <1>24, <1>25, <1>26, <1>27, <1>28, <1>29, <1>30, <1>31, <1>32,
           <1>33, <1>34 DEF TurnStep

\* No rewind is of no kind.
LEMMA IdleStep ==
  ASSUME IInv, TurnStep \/ RewindStep \/ Event
  PROVE  Idle'
<1>1. op \in Op /\ Idle
  BY DEF IInv, TypeOK
<1>2. op' = IdleOp \/ UNCHANGED op => Idle'
  BY <1>1 DEF Idle, IdleOp
<1>3. CASE TurnStep
  BY <1>2, <1>3, TurnStepAlone
<1>4. CASE RewindStep
  <2>1. op.pc # "idle" /\ op.kind # "none"
    BY <1>1, <1>4, RewindStepAlone DEF Idle
  <2>2. op' = IdleOp \/ (op'.kind = op.kind /\ op'.pc # "idle")
    BY <1>1, <1>4, <2>1 DEF Op, RewindStep, TakeCheckpoint, ReadSession, PersistCut, Unmark, Unlink,
       ResetSummary, RemoveOne, Removed, ClearOne, CopyOne, ApplyUpdates, Evict, WithSummary, Astray
  <2> QED BY <1>2, <2>1, <2>2 DEF Idle
<1>5. CASE Clicks
  <2>1. op'.pc = "checkpoint" /\ op'.kind # "none"
    BY <1>5 DEF Clicks, TurnCut, RoundCut, Restore, IdleOp
  <2> QED BY <2>1 DEF Idle
<1>6. CASE RestMessage \/ SetBackend \/ EndVendorSession \/ Crash
  BY <1>2, <1>6 DEF RestMessage, SetBackend, EndVendorSession, Crash, memVars
<1> QED BY <1>3, <1>4, <1>5, <1>6 DEF Event

\* A step of a turn removes no directory; a turn and a round that begin have theirs.
LEMMA DirsGrow ==
  ASSUME IInv, TurnStep
  PROVE  /\ Dirs(turns) \subseteq Dirs(turns')
         /\ \A n \in Dirs(turns) : Dirs(turns[n].rounds) \subseteq Dirs(turns'[n].rounds)
         /\ Seed => turn'.n \in Dirs(turns') /\ Dirs(turns') = Dirs(turns) \cup {NextTurn}
         /\ ~Seed => Dirs(turns') = Dirs(turns)
         /\ BeginRound => turn'.r \in Dirs(turns'[turn'.n].rounds)
<1>1. turns \in TurnDirs /\ turn \in Turn /\ None = 0
  BY DEF IInv, TypeOK, None
<1>2. UNCHANGED turns => /\ Dirs(turns') = Dirs(turns)
                         /\ \A n \in Dirs(turns) :
                              Dirs(turns[n].rounds) \subseteq Dirs(turns'[n].rounds)
  OBVIOUS
<1>3. ASSUME NEW n \in TurnNo, NEW d \in TurnDir, turns' = [turns EXCEPT ![n] = d],
             n \in Dirs(turns) => Dirs(turns[n].rounds) \subseteq Dirs(d.rounds)
      PROVE  /\ Dirs(turns') = Dirs(turns) \cup {n}
             /\ \A k \in Dirs(turns) : Dirs(turns[k].rounds) \subseteq Dirs(turns'[k].rounds)
  <2>1. \A k \in TurnNo : turns'[k] = IF k = n THEN d ELSE turns[k]
    BY <1>1, <1>3 DEF TurnDirs
  <2>2. DOMAIN turns = TurnNo /\ DOMAIN turns' = TurnNo
    BY <1>1, <1>3 DEF TurnDirs
  <2>3. Dirs(turns') = Dirs(turns) \cup {n}
    BY <1>3, <2>1, <2>2, Absent DEF Dirs
  <2>4. Dirs(turns) \subseteq TurnNo
    BY <2>2 DEF Dirs
  <2> QED BY <1>3, <2>1, <2>3, <2>4
<1>4. /\ turn.pc \in InARound \cup {"seeded"} => turn.n \in Dirs(turns) /\ turn.n \in TurnNo
      /\ turn.pc \in InARound => turn.r \in Dirs(turns[turn.n].rounds) /\ turn.r \in RoundNo
                               /\ turn.id \in Id
  BY <1>1 DEF IInv, Numbered, Housed, TurnNo, RoundNo, Id
<1>5. ASSUME Seed
      PROVE  /\ NextTurn \in TurnNo
             /\ \E d \in TurnDir : /\ turns' = [turns EXCEPT ![NextTurn] = d]
                                   /\ NextTurn \in Dirs(turns) => d.rounds = turns[NextTurn].rounds
  <2> DEFINE n == NextTurn
             old == IF turns[n] # Missing THEN turns[n]
                    ELSE [entry |-> {}, rounds |-> [r \in RoundNo |-> Missing], summary |-> {}]
             d == [old EXCEPT !.entry = Sop]
  <2>1. n \in TurnNo
    BY <1>1, <1>5, DirsType, BoundsAssumption DEF Seed, NextTurn, TurnNo
  <2>2. old \in TurnDir
    BY <1>1, <2>1, NewTurnDir DEF TurnDirs
  <2>3. Sop \in SUBSET Id
    BY <1>5, TurnStepAlone, SopType DEF IInv, TypeOK, TurnStep
  <2>4. d \in TurnDir /\ d.rounds = old.rounds
    BY <2>2, <2>3 DEF TurnDir
  <2>5. turns' = [turns EXCEPT ![n] = d]
    BY <1>5 DEF Seed
  <2>6. n \in Dirs(turns) => old = turns[n]
    BY DEF Dirs
  <2> HIDE DEF old, d
  <2> QED BY <2>1, <2>4, <2>5, <2>6
<1>6. CASE Seed
  <2>1. PICK d \in TurnDir : /\ turns' = [turns EXCEPT ![NextTurn] = d]
                             /\ NextTurn \in Dirs(turns) => d.rounds = turns[NextTurn].rounds
    BY <1>5, <1>6
  <2>2. turn'.n = NextTurn
    BY <1>1, <1>6 DEF Seed, Turn
  <2>3. ~BeginRound
    BY <1>6 DEF Seed, BeginRound, At
  <2>4. NextTurn \in Dirs(turns) => Dirs(turns[NextTurn].rounds) \subseteq Dirs(d.rounds)
    BY <2>1
  <2> QED BY <1>3, <1>5, <1>6, <2>1, <2>2, <2>3, <2>4
<1>7. ASSUME NEW n \in Dirs(turns), NEW r \in RoundNo, NEW e \in RoundDir,
             turns' = [turns EXCEPT ![n].rounds[r] = e]
      PROVE  /\ Dirs(turns') = Dirs(turns)
             /\ \A k \in Dirs(turns) : Dirs(turns[k].rounds) \subseteq Dirs(turns'[k].rounds)
             /\ r \in Dirs(turns'[n].rounds)
  <2> DEFINE u == [turns EXCEPT ![n].rounds[r] = e]
  <2>1. Dirs(u) = Dirs(turns) /\ u[n].rounds = [turns[n].rounds EXCEPT ![r] = e]
    BY <1>1, RoundSet
  <2>2. /\ Dirs(turns') = Dirs(turns)
        /\ turns'[n].rounds = [turns[n].rounds EXCEPT ![r] = e]
    <3> HIDE DEF u
    <3>1. turns' = u
      BY <1>7 DEF u
    <3> QED BY <2>1, <3>1
  <2>3. turns[n].rounds \in [RoundNo -> RoundDir \cup {Missing}]
    BY <1>1, DirsType, TurnDirFields
  <2>4. Dirs(turns[n].rounds) \subseteq Dirs(turns'[n].rounds) /\ r \in Dirs(turns'[n].rounds)
    BY <2>2, <2>3, Absent DEF Dirs
  <2>5. \A k \in Dirs(turns) : k # n => turns'[k] = turns[k]
    BY <1>1, <1>7 DEF Dirs, TurnDirs
  <2> QED BY <2>2, <2>4, <2>5
<1>8. CASE BeginRound
  <2>1. PICK e \in RoundDir : turns' = [turns EXCEPT ![turn.n].rounds[turn.r + 1] = e]
    <3> DEFINE before == turns[turn.n].rounds[turn.r + 1]
               saved == IF before # Missing THEN before.saved ELSE {}
    <3>1. turn.n \in Dirs(turns) /\ turn.r + 1 \in RoundNo
      BY <1>1, <1>4, <1>8, BoundsAssumption DEF BeginRound, At, Turn, RoundNo
    <3>2. before \in RoundDir \cup {Missing}
      BY <1>1, <3>1, DirsType, TurnDirFields
    <3>3. Sop \in SUBSET Id
      BY <1>8, TurnStepAlone, SopType DEF IInv, TypeOK, TurnStep
    <3>4. [entry |-> Sop, saved |-> saved] \in RoundDir
      BY <3>2, <3>3 DEF RoundDir
    <3>5. turns' = [turns EXCEPT ![turn.n].rounds[turn.r + 1] = [entry |-> Sop, saved |-> saved]]
      BY <1>8 DEF BeginRound
    <3> HIDE DEF saved
    <3> QED BY <3>4, <3>5
  <2>2. turn.n \in Dirs(turns) /\ turn.r + 1 \in RoundNo
    BY <1>1, <1>4, <1>8, BoundsAssumption DEF BeginRound, At, Turn, RoundNo
  <2>3. turn'.n = turn.n /\ turn'.r = turn.r + 1
    BY <1>1, <1>8 DEF BeginRound, Turn
  <2>4. ~Seed
    BY <1>8 DEF Seed, BeginRound, At
  <2> QED BY <1>7, <2>1, <2>2, <2>3, <2>4
<1>9. CASE SaveRound \/ SaveFailed
  <2>1. CASE UNCHANGED turns
    BY <1>2, <1>9, <2>1 DEF SaveRound, SaveFailed, Seed, BeginRound, At
  <2>2. CASE turns' # turns
    <3>1. /\ turns' = [turns EXCEPT ![turn.n].rounds[turn.r].saved = @ \cup {turn.id}]
          /\ turn.n \in Dirs(turns) /\ turn.r \in Dirs(turns[turn.n].rounds) /\ turn.id \in Id
      BY <1>1, <1>4, <1>9, <2>2 DEF SaveRound, SaveFailed, InRound, IInv, Housed, At, InARound, Turn
    <3> DEFINE n == turn.n
               r == turn.r
               i == turn.id
               u == [turns EXCEPT ![n].rounds[r].saved = @ \cup {i}]
    <3>2. n \in Dirs(turns) /\ r \in Dirs(turns[n].rounds) /\ i \in Id /\ turns \in TurnDirs
      BY <1>1, <3>1
    <3>3. turns' = u
      BY <3>1
    <3>4. /\ Dirs(turns') = Dirs(turns)
          /\ Dirs(turns'[n].rounds) = Dirs(turns[n].rounds)
      <4> HIDE DEF n, r, i
      <4>1. Dirs(u) = Dirs(turns) /\ Dirs(u[n].rounds) = Dirs(turns[n].rounds)
        BY <3>2, SavedSet
      <4> HIDE DEF u
      <4> QED BY <3>3, <4>1
    <3>5. \A k \in Dirs(turns) : k # turn.n => turns'[k] = turns[k]
      BY <1>1, <3>1 DEF Dirs, TurnDirs
    <3>6. ~Seed /\ ~BeginRound
      BY <1>9 DEF SaveRound, SaveFailed, Seed, BeginRound, At
    <3> QED BY <3>4, <3>5, <3>6
  <2> QED BY <2>1, <2>2
<1>10. CASE Summarise
  <2> DEFINE d == [turns[turn.n] EXCEPT !.summary = @ \cup {turn.id}]
  <2>1. /\ turn.n \in Dirs(turns) /\ turn.n \in TurnNo /\ turn.id \in Id
        /\ turns[turn.n] \in TurnDir
    BY <1>1, <1>4, <1>10, DirsType DEF Summarise, InARound, At, WithSummary
  <2>2. d \in TurnDir /\ d.rounds = turns[turn.n].rounds
    BY <2>1 DEF TurnDir
  <2>3. turns' = [turns EXCEPT ![turn.n] = d]
    BY <1>10 DEF Summarise, WithSummary
  <2>4. ~Seed /\ ~BeginRound
    BY <1>10 DEF Summarise, Seed, BeginRound, At, WithSummary
  <2> HIDE DEF d
  <2>5. Dirs(turns') = Dirs(turns) \cup {turn.n}
    BY <1>3, <2>1, <2>2, <2>3
  <2>6. Dirs(turns') = Dirs(turns)
    BY <2>1, <2>5
  <2> QED BY <1>3, <2>1, <2>2, <2>3, <2>4, <2>6
<1>11. \/ Seed \/ BeginRound \/ SaveRound \/ Summarise \/ SaveFailed
       \/ UNCHANGED turns /\ ~Seed /\ ~BeginRound
  BY DEF TurnStep, Send, Stamp, UnlinkBlob, CommitBubble, Tools, WriteBlob, WriteMarker, Answer,
     AnswerFromHub, Finish, Stop, StopEarly, RecoverWidget, ExpireWidget, Fail, FailEarly,
     ReportFailure, LeaveFailed, StopReporting, diskVars, Seed, BeginRound, At
<1> QED BY <1>2, <1>6, <1>8, <1>9, <1>10, <1>11

\* A turn that began has its directory, and so has one that is cut at a round.
LEMMA HousedStep ==
  ASSUME IInv, TurnStep \/ RewindStep \/ Event
  PROVE  Housed'
<1>1. turn \in Turn /\ turns \in TurnDirs /\ op \in Op /\ Housed /\ Numbered /\ None = 0
  BY DEF IInv, TypeOK, None
<1>2. Housed' <=>
        /\ turn'.n # None => turn'.n \in Dirs(turns')
        /\ turn'.id # None /\ turn'.n # None /\ turn'.r > 0 =>
             turn'.r \in Dirs(turns'[turn'.n].rounds)
        /\ op'.kind = "round" => op'.cut \in Dirs(turns')
  BY DEF Housed
<1>3. CASE TurnStep
  <2>1. op'.kind = "round" => op'.cut \in Dirs(turns')
    BY <1>1, <1>3, TurnStepAlone, DirsGrow DEF Housed
  <2>2. turn'.n = None => Housed'
    BY <1>2, <2>1
  <2>3. turn'.n = turn.n /\ turn'.r = turn.r /\ turn'.id = turn.id => Housed'
    <3>1. turn.n # None => /\ turn.n \in Dirs(turns')
                           /\ Dirs(turns[turn.n].rounds) \subseteq Dirs(turns'[turn.n].rounds)
      BY <1>1, <1>3, DirsGrow DEF Housed
    <3> QED BY <1>1, <1>2, <2>1, <3>1 DEF Housed
  <2>4. CASE Send \/ StopEarly
    BY <2>2, <2>4 DEF Send, StopEarly, IdleTurn
  <2>5. CASE Stamp
    BY <1>1, <2>2, <2>5 DEF Stamp, At, Numbered, BeforeItBegins, Turn
  <2>6. CASE Seed
    <3>1. turn'.n \in Dirs(turns') /\ turn'.r = turn.r /\ turn.n = None
      BY <1>1, <1>3, <2>6, DirsGrow DEF Seed, At, Numbered, BeforeItBegins, Turn
    <3>2. turn'.r = 0
      BY <1>1, <3>1 DEF Numbered
    <3> QED BY <1>2, <2>1, <3>1, <3>2
  <2>7. CASE BeginRound
    <3>1. turn'.n = turn.n /\ turn.n # None
      BY <1>1, <2>7 DEF BeginRound, At, Numbered, Turn, TurnNo
    <3> QED BY <1>1, <1>2, <1>3, <2>1, <2>7, <3>1, DirsGrow DEF Housed
  <2>8. CASE RecoverWidget
    <3>1. turn'.n \in Dirs(turns) /\ turn'.id = None
      BY <2>8 DEF RecoverWidget, IdleTurn
    <3> QED BY <1>2, <1>3, <2>1, <3>1, DirsGrow
  <2>9. \/ Send \/ StopEarly \/ Stamp \/ Seed \/ BeginRound \/ RecoverWidget
        \/ turn' = IdleTurn \/ UNCHANGED turn \/ \E pc : turn' = [turn EXCEPT !.pc = pc]
    BY <1>3 DEF TurnStep, UnlinkBlob, SaveRound, CommitBubble, Summarise, Tools, WriteBlob,
       WriteMarker, Answer, AnswerFromHub, Finish, Stop, ExpireWidget, Fail, FailEarly, SaveFailed,
       ReportFailure, LeaveFailed, StopReporting, Leave, Go, memVars, WithSummary
  <2>10. turn' = IdleTurn => turn'.n = None
    BY DEF IdleTurn
  <2>11. (\E pc : turn' = [turn EXCEPT !.pc = pc]) =>
         turn'.n = turn.n /\ turn'.r = turn.r /\ turn'.id = turn.id
    BY <1>1 DEF Turn
  <2> QED BY <2>2, <2>3, <2>4, <2>5, <2>6, <2>7, <2>8, <2>9, <2>10, <2>11
<1>4. CASE RewindStep
  <2>1. turn = IdleTurn /\ turn.n = None
    BY <1>1, <1>4, RewindStepAlone DEF Numbered, IdleTurn
  <2>2. CASE Evict
    <3>1. op' = IdleOp /\ turns' = turns
      BY <2>2 DEF Evict
    <3>2. op.kind = "round" => turn'.n = op.cut /\ turn'.id = None
      BY <2>2 DEF Evict, RoundAgain, IdleTurn
    <3>3. op.kind # "round" => turn'.n = None
      BY <2>1, <2>2 DEF Evict, IdleTurn
    <3> QED BY <1>1, <1>2, <3>1, <3>2, <3>3 DEF Housed, IdleOp
  <2>3. CASE ~Evict
    <3>1. UNCHANGED turn
      BY <1>4, <2>3, RewindStepAlone
    <3>2. op'.kind = op.kind /\ op'.cut = op.cut
      BY <1>1, <1>4, <2>3 DEF Op, RewindStep, TakeCheckpoint, ReadSession, PersistCut, Unmark,
         Unlink, ResetSummary, RemoveOne, Removed, ClearOne, CopyOne, ApplyUpdates, WithSummary, Astray
    <3>3. ASSUME op.kind = "round" PROVE op.cut \in Dirs(turns')
      <4>1. op.cut \in Dirs(turns) /\ op.cut \in TurnNo /\ op.pc \notin {"clear", "copy"}
        BY <1>1, <3>3 DEF Housed, IInv, Cutting
      <4>2. turns[op.cut] \in TurnDir
        BY <1>1, <4>1, DirsType
      <4>3. CASE ResetSummary
        <5> DEFINE x == {m.id : m \in {y \in Range(state.messages) :
                                         y.role # "user" /\ y.turn = op.cut}}
        <5>1. turns' = [turns EXCEPT ![op.cut].summary = x]
          BY <4>3 DEF ResetSummary, WithSummary
        <5> HIDE DEF x
        <5>2. turns'[op.cut] = [turns[op.cut] EXCEPT !.summary = x] /\ DOMAIN turns' = TurnNo
          BY <1>1, <4>1, <5>1 DEF TurnDirs
        <5>3. [turns[op.cut] EXCEPT !.summary = x] # Missing
          BY <4>2 DEF TurnDir, Missing
        <5> QED BY <4>1, <5>2, <5>3 DEF Dirs
      <4>4. CASE RemoveOne
        <5>1. PICK c \in op.left :
                turns' = IF c[1] = "turn" THEN [turns EXCEPT ![c[2]] = Missing]
                         ELSE [turns EXCEPT ![op.cut].rounds[c[2]] = Missing]
          BY <4>4 DEF RemoveOne
        <5>2. c \in Doomed
          BY <3>3, <4>4, <5>1 DEF IInv, Cutting, RemoveOne
        <5>3. CASE c[1] = "turn"
          <6>1. c[2] # op.cut
            BY <1>1, <3>3, <4>1, <5>2, <5>3, DirsType DEF Doomed, TurnNo
          <6> QED BY <1>1, <4>1, <5>1, <5>3, <6>1 DEF Dirs, TurnDirs
        <5>4. CASE c[1] # "turn"
          <6>1. turns'[op.cut] = [turns[op.cut] EXCEPT !.rounds[c[2]] = Missing]
                /\ DOMAIN turns' = TurnNo
            BY <1>1, <4>1, <5>1, <5>4 DEF TurnDirs
          <6>2. [turns[op.cut] EXCEPT !.rounds[c[2]] = Missing] # Missing
            BY <4>2 DEF TurnDir, Missing
          <6> QED BY <4>1, <6>1, <6>2 DEF Dirs
        <5> QED BY <5>3, <5>4
      <4>5. CASE UNCHANGED turns
        BY <4>1, <4>5
      <4>6. ResetSummary \/ RemoveOne \/ UNCHANGED turns
        BY <1>4, <2>3, <4>1 DEF RewindStep, TakeCheckpoint, ReadSession, PersistCut, Unmark,
           Unlink, Removed, ClearOne, CopyOne, ApplyUpdates, diskVars, Astray
      <4> QED BY <4>3, <4>4, <4>5, <4>6
    <3> QED BY <1>2, <2>1, <3>1, <3>2, <3>3
  <2> QED BY <2>2, <2>3
<1>5. CASE Event
  <2>1. UNCHANGED turns
    BY <1>5, ClickAlone DEF Event, RestMessage, SetBackend, EndVendorSession, Crash, diskVars
  <2>2. UNCHANGED op /\ turn'.n = turn.n /\ turn'.r = turn.r /\ turn'.id = turn.id => Housed'
    BY <1>1, <1>2, <2>1 DEF Housed
  <2>3. CASE RestMessage \/ EndVendorSession
    BY <2>2, <2>3 DEF RestMessage, EndVendorSession, memVars
  <2>4. CASE SetBackend
    BY <1>1, <2>2, <2>4 DEF SetBackend, Turn
  <2>5. CASE Crash
    BY <1>2, <2>5 DEF Crash, IdleTurn, IdleOp
  <2>6. CASE Clicks
    <3>1. UNCHANGED turn
      BY <2>6, ClickAlone
    <3>2. op'.kind = "round" => op'.cut \in Dirs(turns)
      BY <2>6 DEF Clicks, TurnCut, RoundCut, Restore, IdleOp
    <3> QED BY <1>1, <1>2, <2>1, <3>1, <3>2 DEF Housed
  <2> QED BY <1>5, <2>3, <2>4, <2>5, <2>6 DEF Event
<1> QED BY <1>3, <1>4, <1>5

\* What a truncation still has to remove stays to be removed.
LEMMA DoomedStay ==
  ASSUME IInv, op.kind \in {"turn", "round"},
         op'.kind = op.kind, op'.cut = op.cut, op'.round = op.round
  PROVE  /\ UNCHANGED turns => Doomed' = Doomed
         /\ ResetSummary => Doomed' = Doomed /\ Dirs(turns') = Dirs(turns)
         /\ \A c \in op.left : RemoveOne /\ op'.left = op.left \ {c} =>
              op'.left \subseteq Doomed'
<1>1. turns \in TurnDirs /\ op \in Op
  BY DEF IInv, TypeOK
<1>2. op.kind = "round" => /\ op.cut \in Dirs(turns) /\ op.cut \in TurnNo
                           /\ turns[op.cut] \in TurnDir
  BY <1>1, DirsType DEF IInv, Housed
<1>3. UNCHANGED turns => Doomed' = Doomed
  BY DEF Doomed
<1>4. ASSUME ResetSummary PROVE Doomed' = Doomed /\ Dirs(turns') = Dirs(turns)
  <2>1. op.kind = "round"
    BY <1>4 DEF ResetSummary, IInv, Cutting, WithSummary
  <2> DEFINE x == {m.id : m \in {y \in Range(state.messages) :
                                   y.role # "user" /\ y.turn = op.cut}}
             d == [turns[op.cut] EXCEPT !.summary = x]
  <2>2. turns' = [turns EXCEPT ![op.cut].summary = x]
    BY <1>4 DEF ResetSummary, WithSummary
  <2> HIDE DEF x
  <2>3. turns' = [turns EXCEPT ![op.cut] = d] /\ d.rounds = turns[op.cut].rounds
    BY <1>1, <1>2, <2>1, <2>2 DEF TurnDirs, TurnDir
  <2>4. d # Missing
    BY <1>2, <2>1 DEF TurnDir, Missing
  <2> HIDE DEF d
  <2>5. Dirs(turns') = Dirs(turns) /\ turns'[op.cut].rounds = turns[op.cut].rounds
    BY <1>1, <1>2, <2>1, <2>3, <2>4 DEF Dirs, TurnDirs
  <2> QED BY <2>1, <2>5 DEF Doomed
<1>5. ASSUME NEW n \in Dirs(turns), NEW q \in RoundNo, NEW e \in RoundDir \cup {Missing},
             turns' = [turns EXCEPT ![n].rounds[q] = e]
      PROVE  /\ Dirs(turns') = Dirs(turns)
             /\ turns'[n].rounds = [turns[n].rounds EXCEPT ![q] = e]
  <2> DEFINE u == [turns EXCEPT ![n].rounds[q] = e]
  <2>1. Dirs(u) = Dirs(turns) /\ u[n].rounds = [turns[n].rounds EXCEPT ![q] = e]
    BY <1>1, RoundSet
  <2>2. turns' = u
    BY <1>5
  <2> HIDE DEF u
  <2> QED BY <2>1, <2>2
<1>6. ASSUME NEW c \in op.left, RemoveOne, op'.left = op.left \ {c}
      PROVE  op'.left \subseteq Doomed'
  <2>1. PICK b \in op.left :
          /\ turns' = IF b[1] = "turn" THEN [turns EXCEPT ![b[2]] = Missing]
                      ELSE [turns EXCEPT ![op.cut].rounds[b[2]] = Missing]
          /\ op' = [op EXCEPT !.left = @ \ {b}]
    BY <1>6 DEF RemoveOne
  <2>2. op'.left = op.left \ {b} /\ op.left \subseteq Doomed
    BY <1>1, <1>6, <2>1 DEF Op, IInv, Cutting, RemoveOne
  <2>3. SUFFICES ASSUME NEW a \in Doomed, b \in Doomed, a # b PROVE a \in Doomed'
    BY <2>2
  <2>4. CASE b[1] = "turn"
    <3>1. PICK k \in Dirs(turns) : b = <<"turn", k>> /\
                                   (k > op.cut \/ (k = op.cut /\ op.kind = "turn"))
      BY <2>3, <2>4 DEF Doomed
    <3>2. \A j \in Dirs(turns) : j # k => j \in Dirs(turns') /\ turns'[j] = turns[j]
      BY <1>1, <2>1, <3>1 DEF Dirs, TurnDirs
    <3>3. CASE a[1] = "turn"
      <4>1. PICK j \in Dirs(turns) : a = <<"turn", j>> /\
                                     (j > op.cut \/ (j = op.cut /\ op.kind = "turn"))
        BY <2>3, <3>3 DEF Doomed
      <4>2. j \in Dirs(turns')
        BY <2>3, <3>1, <3>2, <4>1
      <4> QED BY <4>1, <4>2 DEF Doomed
    <3>4. CASE a[1] # "turn"
      <4>1. /\ op.kind = "round"
            /\ \E r \in Dirs(turns[op.cut].rounds) : a = <<"round", r>> /\ r >= op.round
        BY <2>3, <3>4 DEF Doomed
      <4>2. k # op.cut
        BY <1>1, <1>2, <3>1, <4>1, DirsType DEF TurnNo
      <4>3. op.cut \in Dirs(turns') /\ turns'[op.cut] = turns[op.cut]
        BY <1>2, <3>2, <4>1, <4>2
      <4> QED BY <4>1, <4>3 DEF Doomed
    <3> QED BY <3>3, <3>4
  <2>5. CASE b[1] # "turn"
    <3>1. PICK q \in Dirs(turns[op.cut].rounds) :
            op.kind = "round" /\ b = <<"round", q>> /\ q >= op.round
      BY <2>3, <2>5 DEF Doomed
    <3>2. turns[op.cut].rounds \in [RoundNo -> RoundDir \cup {Missing}] /\ q \in RoundNo
      BY <1>2, <3>1, TurnDirFields DEF Dirs
    <3>3. turns' = [turns EXCEPT ![op.cut].rounds[q] = Missing]
      BY <2>1, <2>5, <3>1
    <3>4. Dirs(turns') = Dirs(turns)
          /\ turns'[op.cut].rounds = [turns[op.cut].rounds EXCEPT ![q] = Missing]
      BY <1>2, <1>5, <3>1, <3>2, <3>3
    <3>5. CASE a[1] = "turn"
      BY <2>3, <3>4, <3>5 DEF Doomed
    <3>6. CASE a[1] # "turn"
      <4>1. PICK r \in Dirs(turns[op.cut].rounds) : a = <<"round", r>> /\ r >= op.round
        BY <2>3, <3>6 DEF Doomed
      <4>2. r # q
        BY <2>3, <3>1, <4>1
      <4>3. r \in Dirs(turns'[op.cut].rounds)
        BY <3>2, <3>4, <4>1, <4>2 DEF Dirs
      <4> QED BY <1>2, <3>1, <3>4, <4>1, <4>3 DEF Doomed
    <3> QED BY <3>5, <3>6
  <2> QED BY <2>4, <2>5
<1> QED BY <1>3, <1>4, <1>6

\* A truncation goes through its steps, at a message of the history it read.
LEMMA CuttingStep ==
  ASSUME IInv, TurnStep \/ RewindStep \/ Event
  PROVE  Cutting'
<1>1. op \in Op /\ Cutting /\ Idle /\ turns \in TurnDirs /\ state \in States \cup {Missing}
  BY DEF IInv, TypeOK
<1>2. Cutting' <=>
        (op'.kind \in {"turn", "round"} =>
         /\ op'.pc \in {"checkpoint", "read", "persist", "unmark", "unlink", "remove", "evict"}
                       \cup (IF op'.kind = "round" THEN {"summary"} ELSE {})
         /\ state' # Missing
         /\ op'.kind = "round" => op'.cut \in TurnNo /\ op'.round \in RoundNo
         /\ IF op'.pc \in {"checkpoint", "read"} THEN op'.at \in IdsOf(state'.messages)
            ELSE op'.read # Missing /\ op'.at \in IdsOf(op'.read.messages)
         /\ op'.pc = "remove" => op'.left \subseteq Doomed')
  BY DEF Cutting
<1>3. op' = IdleOp => Cutting'
  BY <1>2 DEF IdleOp
<1>4. CASE TurnStep
  <2>1. op.kind = "none" /\ UNCHANGED op
    BY <1>1, <1>4, TurnStepAlone DEF Idle
  <2> QED BY <1>2, <2>1
<1>5. CASE RewindStep
  <2>1. CASE Evict
    BY <1>3, <2>1 DEF Evict
  <2>2. CASE ~Evict /\ op.kind \in {"turn", "round"}
    <3>1. /\ op'.kind = op.kind /\ op'.cut = op.cut /\ op'.round = op.round /\ op'.at = op.at
      BY <1>1, <1>5, <2>2 DEF Op, RewindStep, TakeCheckpoint, ReadSession, PersistCut, Unmark,
         Unlink, ResetSummary, RemoveOne, Removed, ClearOne, CopyOne, ApplyUpdates, WithSummary, Astray
    <3>2. op.kind = "round" => op'.cut \in TurnNo /\ op'.round \in RoundNo
      BY <1>1, <3>1 DEF Cutting
    <3>3. state # Missing /\ op.pc # "clear" /\ op.pc # "copy" /\ op.pc # "apply"
      BY <1>1, <2>2 DEF Cutting
    <3>4. CASE TakeCheckpoint
      <4>1. op.pc = "checkpoint" /\ op'.pc = "read" /\ UNCHANGED state
        BY <1>1, <2>2, <3>4 DEF TakeCheckpoint, Op, Astray
      <4> QED BY <1>1, <1>2, <2>2, <3>1, <3>2, <3>3, <4>1 DEF Cutting
    <3>5. CASE ReadSession
      <4>1. op.pc = "read" /\ op'.pc = "persist" /\ UNCHANGED state /\ op'.read = state
        BY <1>1, <2>2, <3>5 DEF ReadSession, Op, diskVars
      <4> QED BY <1>1, <1>2, <2>2, <3>1, <3>2, <3>3, <4>1 DEF Cutting
    <3>6. CASE PersistCut
      <4>1. op.pc = "persist" /\ op'.pc = "unmark" /\ op'.read = op.read
        BY <1>1, <2>2, <3>6 DEF PersistCut, Op
      <4>2. state' # Missing
        <5>1. op.read \in States /\ op.at \in IdsOf(op.read.messages)
          BY <1>1, <2>2, <4>1, OpFields DEF Cutting
        <5>2. Kept \in Seq(Message) /\ op.sop \in SUBSET Id
          BY <1>1, <5>1, KeptType, OpFields
        <5>3. state' = [[op.read EXCEPT !.messages = Kept] EXCEPT !.sop = op.sop]
          BY <3>6, <5>1 DEF PersistCut, States
        <5>4. [op.read EXCEPT !.messages = Kept] \in States
          BY <5>1, <5>2, StateSet
        <5> QED BY <5>2, <5>3, <5>4, StateSet, Absent
      <4> QED BY <1>1, <1>2, <2>2, <3>1, <3>2, <4>1, <4>2 DEF Cutting
    <3>7. CASE Unmark
      <4>1. op.pc = "unmark" /\ op'.pc = "unlink" /\ op'.read = op.read
        BY <1>1, <2>2, <3>7 DEF Unmark, Op
      <4>2. state' # Missing
        <5>1. state \in States /\ state' = [state EXCEPT !.pending = Missing]
          BY <1>1, <3>3, <3>7 DEF Unmark
        <5>2. state' \in States
          BY <5>1, StateSet
        <5> QED BY <5>2, Absent
      <4> QED BY <1>1, <1>2, <2>2, <3>1, <3>2, <4>1, <4>2 DEF Cutting
    <3>8. CASE Unlink
      <4>1. /\ op.pc = "unlink" /\ op'.read = op.read /\ UNCHANGED <<state, turns>>
            /\ op.kind = "turn" => op'.pc = "remove" /\ op'.left = Doomed
            /\ op.kind = "round" => op'.pc = "summary"
        BY <1>1, <2>2, <3>8 DEF Unlink, Op
      <4>2. Doomed' = Doomed
        BY <2>2, <3>1, <4>1, DoomedStay
      <4> QED BY <1>1, <1>2, <2>2, <3>1, <3>2, <3>3, <4>1, <4>2 DEF Cutting
    <3>9. CASE ResetSummary
      <4>1. /\ op.pc = "summary" /\ op'.read = op.read /\ UNCHANGED state
            /\ op'.pc = "remove" /\ op'.left = Doomed
        BY <1>1, <2>2, <3>9 DEF ResetSummary, Op, WithSummary
      <4>2. Doomed' = Doomed
        BY <2>2, <3>1, <3>9, DoomedStay
      <4> QED BY <1>1, <1>2, <2>2, <3>1, <3>2, <3>3, <4>1, <4>2 DEF Cutting
    <3>10. CASE RemoveOne
      <4>1. /\ op.pc = "remove" /\ op'.pc = "remove" /\ op'.read = op.read /\ UNCHANGED state
            /\ \E c \in op.left : op'.left = op.left \ {c}
        BY <1>1, <2>2, <3>10 DEF RemoveOne, Op
      <4>2. op'.left \subseteq Doomed'
        BY <2>2, <3>1, <3>10, <4>1, DoomedStay
      <4> QED BY <1>1, <1>2, <2>2, <3>1, <3>2, <3>3, <4>1, <4>2 DEF Cutting
    <3>11. CASE Removed
      <4>1. op.pc = "remove" /\ op'.pc = "evict" /\ op'.read = op.read /\ UNCHANGED state
        BY <1>1, <2>2, <3>11 DEF Removed, Op, diskVars
      <4> QED BY <1>1, <1>2, <2>2, <3>1, <3>2, <3>3, <4>1 DEF Cutting
    <3> QED BY <1>5, <2>2, <3>3, <3>4, <3>5, <3>6, <3>7, <3>8, <3>9, <3>10, <3>11
            DEF RewindStep, ClearOne, CopyOne, ApplyUpdates
  <2>3. CASE ~Evict /\ op.kind \notin {"turn", "round"}
    <3>1. op'.kind = op.kind
      BY <1>1, <1>5, <2>3 DEF Op, RewindStep, TakeCheckpoint, ReadSession, PersistCut, Unmark,
         Unlink, ResetSummary, RemoveOne, Removed, ClearOne, CopyOne, ApplyUpdates, WithSummary, Astray
    <3> QED BY <1>2, <2>3, <3>1
  <2> QED BY <2>1, <2>2, <2>3
<1>6. CASE RestMessage \/ SetBackend \/ EndVendorSession
  <2>1. /\ UNCHANGED <<op, turns>> /\ state \in States
    BY <1>1, <1>6 DEF RestMessage, SetBackend, EndVendorSession, EventLoopFree, memVars
  <2>2. state' # Missing /\ IdsOf(state.messages) \subseteq IdsOf(state'.messages)
    <3>1. CASE RestMessage
      <4>1. PICK msg : state' = Append1(state, msg)
        BY <3>1 DEF RestMessage
      <4>2. CASE state' = state
        BY <2>1, <4>2, Absent
      <4>3. CASE state' = [state EXCEPT !.messages = Append(@, msg)]
        <5>1. state'.messages = Append(state.messages, msg) /\ state' # Missing
          BY <2>1, <4>3 DEF States, Missing
        <5>2. state.messages \in Seq(Message)
          BY <2>1, StateFields
        <5>3. /\ DOMAIN state.messages \subseteq DOMAIN state'.messages
              /\ \A i \in DOMAIN state.messages : state'.messages[i] = state.messages[i]
          BY <5>1, <5>2
        <5> QED BY <5>1, <5>3 DEF IdsOf
      <4> QED BY <4>1, <4>2, <4>3 DEF Append1
    <3>2. CASE SetBackend \/ EndVendorSession
      <4>1. state'.messages = state.messages
        BY <2>1, <3>2 DEF SetBackend, EndVendorSession, States
      <4>2. state' \in States
        <5>1. SetBackend => \E b \in {"classic", "native"} : state' = [state EXCEPT !.backend = b]
          BY DEF SetBackend
        <5>2. EndVendorSession => state' = state \/ state' = [state EXCEPT !.record = Missing]
          BY DEF EndVendorSession
        <5> QED BY <2>1, <3>2, <5>1, <5>2, StateSet
      <4> QED BY <4>1, <4>2, Absent
    <3> QED BY <1>6, <3>1, <3>2, Absent
  <2>3. Doomed' = Doomed
    BY <2>1 DEF Doomed
  <2> QED BY <1>1, <1>2, <2>1, <2>2, <2>3 DEF Cutting
<1>7. CASE Clicks
  <2>1. ASSUME NEW i \in DOMAIN state.messages, state \in States, TurnCut(i) PROVE Cutting'
    <3> DEFINE c == CutTurn(state.messages, i)
    <3>1. /\ op' = [IdleOp EXCEPT !.pc = "checkpoint", !.kind = "turn",
                                  !.at = state.messages[i].id, !.cut = c]
          /\ \/ state' = state
             \/ \E r : state' = [state EXCEPT !.record = r]
      BY <2>1 DEF TurnCut
    <3>2. op'.pc = "checkpoint" /\ op'.kind = "turn" /\ op'.at = state.messages[i].id
      BY <3>1 DEF IdleOp
    <3>3. state' # Missing /\ state'.messages = state.messages
      BY <2>1, <3>1, Absent DEF States, Missing
    <3>4. op'.at \in IdsOf(state'.messages)
      BY <3>2, <3>3 DEF IdsOf
    <3> QED BY <1>2, <3>2, <3>3, <3>4
  <2>2. ASSUME NEW i \in DOMAIN state.messages, state \in States, RoundCut(i) PROVE Cutting'
    <3> DEFINE msg == state.messages[i]
    <3>1. /\ op'.pc = "checkpoint" /\ op'.kind = "round" /\ op'.at = msg.id
          /\ op'.cut = msg.turn /\ op'.round = msg.round /\ UNCHANGED state
          /\ msg.turn \in Dirs(turns) /\ msg.round \in Dirs(turns[msg.turn].rounds)
      BY <2>2 DEF RoundCut, IdleOp, diskVars
    <3>2. op'.at \in IdsOf(state'.messages)
      BY <3>1 DEF IdsOf
    <3>3. msg.turn \in TurnNo /\ turns[msg.turn] \in TurnDir
      BY <1>1, <3>1, DirsType
    <3>4. msg.round \in RoundNo
      BY <3>1, <3>3, TurnDirFields DEF Dirs
    <3> QED BY <1>2, <2>2, <3>1, <3>2, <3>3, <3>4, Absent
  <2>3. ASSUME NEW k \in DOMAIN checkpoints, Restore(k) PROVE Cutting'
    <3>1. op'.kind = "restore"
      BY <2>3 DEF Restore, IdleOp
    <3> QED BY <1>2, <3>1
  <2> QED BY <1>1, <1>7, <2>1, <2>2, <2>3 DEF Clicks
<1>8. CASE Crash
  BY <1>3, <1>8 DEF Crash
<1> QED BY <1>4, <1>5, <1>6, <1>7, <1>8 DEF Event

\* The newest checkpoint is the one just taken.
LEMMA TakenIsNewest ==
  ASSUME IInv, TakeCheckpoint
  PROVE  checkpoints' # <<>> /\ Newest'.state = state
<1>1. checkpoints \in Seq(Checkpoint)
  BY DEF IInv, TypeOK
<1> DEFINE c == [state |-> state, turns |-> turns, blob |-> blob,
                 flaws |-> IF Astray THEN flaws \cup {"behind"} ELSE flaws]
<1>2. checkpoints' = Append(checkpoints, c) /\ c.state = state
  BY DEF TakeCheckpoint, Astray
<1>3. c \in Checkpoint
  BY DEF IInv, TypeOK, Checkpoint, Flaws
<1> HIDE DEF c
<1>4. checkpoints' # <<>> /\ checkpoints'[Len(checkpoints')] = c
  BY <1>1, <1>2, <1>3, AppendProperties, LenProperties
<1> QED BY <1>2, <1>4 DEF Newest

\* The REST routes and the switch of the backend leave the marker, and add to
\* the history what has no stamp; while the lock is held they wait.
LEMMA EventLoopSteps ==
  ASSUME IInv, RestMessage \/ SetBackend \/ EndVendorSession
  PROVE  /\ UNCHANGED <<turns, blob, checkpoints, vendor, op>> /\ ~Locked
         /\ state \in States /\ state' \in States
         /\ state'.pending = state.pending
         /\ state'.record \in {state.record, Missing}
         /\ Range(state.messages) \subseteq Range(state'.messages)
         /\ \A m \in Range(state'.messages) : m.turn # None => m \in Range(state.messages)
<1>1. /\ UNCHANGED <<turns, blob, checkpoints, vendor, op>> /\ ~Locked /\ state \in States
  BY DEF RestMessage, SetBackend, EndVendorSession, EventLoopFree, memVars, IInv, TypeOK
<1>2. CASE RestMessage
  <2>1. PICK role \in {"user", "assistant"} :
          state' = Append1(state, [id |-> minted', role |-> role, turn |-> None, round |-> 0])
    BY <1>2 DEF RestMessage
  <2> DEFINE msg == [id |-> minted', role |-> role, turn |-> None, round |-> 0]
  <2>2. minted' \in Id
    BY <1>2, BoundsAssumption DEF RestMessage, Mint, Id, IInv, TypeOK
  <2>3. msg \in Message /\ msg.turn = None
    BY <2>2, MessageType
  <2>4. state' = Append1(state, msg)
    BY <2>1
  <2> HIDE DEF msg
  <2> DEFINE u == Append1(state, msg)
  <2>5. u \in States
    BY <1>1, <2>3, AppendedType
  <2>6. /\ u.pending = state.pending /\ u.record = state.record
        /\ Range(state.messages) \subseteq Range(u.messages)
        /\ \A i \in DOMAIN state.messages : u.messages[i] = state.messages[i]
        /\ \A i \in DOMAIN u.messages : i \notin DOMAIN state.messages => u.messages[i] = msg
    BY <1>1, <2>3, Appended
  <2> HIDE DEF u
  <2>7. \A m \in Range(u.messages) : m.turn # None => m \in Range(state.messages)
    BY <2>3, <2>6 DEF Range
  <2>8. state' = u
    BY <2>4 DEF u
  <2> QED BY <1>1, <2>5, <2>6, <2>7, <2>8
<1>3. CASE SetBackend
  <2>1. PICK b \in {"classic", "native"} : state' = [state EXCEPT !.backend = b]
    BY <1>3 DEF SetBackend
  <2>2. /\ state'.messages = state.messages /\ state'.pending = state.pending
        /\ state'.record = state.record
    BY <1>1, <2>1 DEF States
  <2>3. state' \in States
    BY <1>1, <2>1, StateSet
  <2> QED BY <1>1, <2>2, <2>3
<1>4. CASE EndVendorSession
  <2>1. state' = state \/ state' = [state EXCEPT !.record = Missing]
    BY <1>4 DEF EndVendorSession
  <2>2. /\ state'.messages = state.messages /\ state'.pending = state.pending
        /\ state'.record \in {state.record, Missing}
    BY <1>1, <2>1 DEF States
  <2>3. state' \in States
    BY <1>1, <2>1, StateSet
  <2> QED BY <1>1, <2>2, <2>3
<1> QED BY <1>2, <1>3, <1>4

\* A restore goes through its steps, from a checkpoint with a session state; it
\* drops the marker before it ends.
LEMMA RestoringStep ==
  ASSUME IInv, TurnStep \/ RewindStep \/ Event
  PROVE  Restoring'
<1>1. op \in Op /\ Restoring /\ Cutting /\ Idle /\ state \in States \cup {Missing}
  BY DEF IInv, TypeOK
<1>2. Restoring' <=>
        (op'.kind = "restore" =>
         /\ op'.pc \in {"checkpoint", "clear", "copy", "apply", "unmark", "unlink", "evict"}
         /\ op'.at \in DOMAIN checkpoints' /\ checkpoints'[op'.at].state # Missing
         /\ op'.pc = "copy" => LET c == checkpoints'[op'.at]
                               IN  op'.left \subseteq Children(c.state, c.turns, c.blob)
         /\ op'.pc \in {"apply", "unmark", "unlink", "evict"} => state' # Missing
         /\ op'.pc \in {"unlink", "evict"} => state'.pending = Missing)
  BY DEF Restoring, Readable
<1>3. op' = IdleOp => Restoring'
  BY <1>2 DEF IdleOp
<1>4. CASE TurnStep
  <2>1. op.kind = "none" /\ UNCHANGED op
    BY <1>1, <1>4, TurnStepAlone DEF Idle
  <2> QED BY <1>2, <2>1
<1>5. CASE RewindStep
  <2>1. CASE Evict
    BY <1>3, <2>1 DEF Evict
  <2>2. CASE ~Evict /\ op.kind # "restore"
    <3>1. op'.kind = op.kind
      BY <1>1, <1>5, <2>2 DEF Op, RewindStep, TakeCheckpoint, ReadSession, PersistCut, Unmark,
         Unlink, ResetSummary, RemoveOne, Removed, ClearOne, CopyOne, ApplyUpdates, WithSummary, Astray
    <3> QED BY <1>2, <2>2, <3>1
  <2>3. CASE ~Evict /\ op.kind = "restore"
    <3>1. op'.kind = op.kind /\ op'.at = op.at
      BY <1>1, <1>5, <2>3 DEF Op, RewindStep, TakeCheckpoint, ReadSession, PersistCut, Unmark,
         Unlink, ResetSummary, RemoveOne, Removed, ClearOne, CopyOne, ApplyUpdates, WithSummary, Astray
    <3>2. op.at \in DOMAIN checkpoints /\ checkpoints[op.at].state # Missing
      BY <1>1, <2>3 DEF Restoring, Readable
    <3>3. op.at \in DOMAIN checkpoints' /\ checkpoints'[op.at] = checkpoints[op.at]
      BY <1>5, <3>2, CheckpointsStay
    <3>4. op.pc \in {"checkpoint", "clear", "copy", "apply", "unmark", "unlink", "evict"}
      BY <1>1, <2>3 DEF Restoring
    <3>5. CASE TakeCheckpoint
      <4>1. op'.pc = "clear"
        BY <1>1, <2>3, <3>5 DEF TakeCheckpoint, Op, Astray
      <4> QED BY <1>2, <3>1, <3>2, <3>3, <4>1
    <3>6. CASE ClearOne
      <4>1. \/ op'.pc = "clear"
            \/ /\ op'.pc = "copy"
               /\ LET c == checkpoints[op.at]
                  IN  op'.left = Children(c.state, c.turns, c.blob)
        BY <1>1, <2>3, <3>6 DEF ClearOne, Op
      <4> QED BY <1>2, <3>1, <3>2, <3>3, <4>1
    <3>7. CASE CopyOne
      <4>1. op.pc = "copy"
        BY <3>7 DEF CopyOne
      <4>2. CASE op.left = {} /\ op' = [op EXCEPT !.pc = "apply"] /\ UNCHANGED state
        <5>1. op'.pc = "apply"
          BY <1>1, <4>2 DEF Op
        <5>2. state # Missing
          BY <4>1, <4>2 DEF IInv, Backed
        <5> QED BY <1>2, <3>1, <3>2, <3>3, <4>2, <5>1, <5>2
      <4>3. CASE \E c \in op.left : op' = [op EXCEPT !.left = @ \ {c}]
        <5>1. op'.pc = "copy" /\ op'.left \subseteq op.left
          BY <1>1, <4>1, <4>3 DEF Op
        <5>2. LET c == checkpoints[op.at]
              IN  op.left \subseteq Children(c.state, c.turns, c.blob)
          BY <1>1, <2>3, <4>1 DEF Restoring
        <5> QED BY <1>2, <3>1, <3>2, <3>3, <5>1, <5>2
      <4> QED BY <3>7, <4>2, <4>3 DEF CopyOne
    <3>8. CASE ApplyUpdates
      <4>1. op'.pc = "unmark" /\ op.pc = "apply"
        BY <1>1, <2>3, <3>8 DEF ApplyUpdates, Op
      <4>2. state \in States
        BY <1>1, <2>3, <4>1 DEF Restoring
      <4>3. state' = state \/ state' = [state EXCEPT !.record = op.record]
        BY <3>8 DEF ApplyUpdates
      <4>4. state' \in States
        BY <1>1, <4>2, <4>3, StateSet, OpFields
      <4> QED BY <1>2, <3>1, <3>2, <3>3, <4>1, <4>4, Absent
    <3>9. CASE Unmark
      <4>1. op'.pc = "unlink" /\ op.pc = "unmark" /\ state' = [state EXCEPT !.pending = Missing]
        BY <1>1, <2>3, <3>9 DEF Unmark, Op
      <4>2. state \in States
        BY <1>1, <2>3, <4>1 DEF Restoring
      <4>3. state' \in States /\ state'.pending = Missing
        <5>1. state'.pending = Missing
          BY <4>1, <4>2 DEF States
        <5> QED BY <4>1, <4>2, <5>1, StateSet
      <4> QED BY <1>2, <3>1, <3>2, <3>3, <4>1, <4>3, Absent
    <3>10. CASE Unlink
      <4>1. op'.pc = "evict" /\ op.pc = "unlink" /\ UNCHANGED state
        BY <1>1, <2>3, <3>10 DEF Unlink, Op
      <4>2. state # Missing /\ state.pending = Missing
        BY <1>1, <2>3, <4>1 DEF Restoring
      <4> QED BY <1>2, <3>1, <3>2, <3>3, <4>1, <4>2
    <3> QED BY <1>5, <2>3, <3>4, <3>5, <3>6, <3>7, <3>8, <3>9, <3>10
            DEF RewindStep, ReadSession, PersistCut, ResetSummary, RemoveOne, Removed, WithSummary
  <2> QED BY <2>1, <2>2, <2>3
<1>6. CASE RestMessage \/ SetBackend \/ EndVendorSession
  <2>1. /\ UNCHANGED <<checkpoints, op>> /\ state' \in States /\ state'.pending = state.pending
    BY <1>6, EventLoopSteps
  <2> QED BY <1>1, <1>2, <2>1, Absent DEF Restoring, Readable
<1>7. CASE Clicks
  <2>1. UNCHANGED checkpoints
    BY <1>7, ClickAlone
  <2>2. op'.kind = "restore" =>
          /\ op'.pc = "checkpoint" /\ op'.at \in DOMAIN checkpoints
          /\ checkpoints[op'.at].state # Missing
    BY <1>7 DEF Clicks, TurnCut, RoundCut, Restore, IdleOp, Readable
  <2> QED BY <1>2, <2>1, <2>2
<1>8. CASE Crash
  BY <1>3, <1>8 DEF Crash
<1> QED BY <1>4, <1>5, <1>6, <1>7, <1>8 DEF Event

\* The checkpoint taken first has what a truncation will cut; a restore has
\* removed the session state when it copies that of the checkpoint.
LEMMA BackedStep ==
  ASSUME IInv, TurnStep \/ RewindStep \/ Event
  PROVE  Backed'
<1>1. op \in Op /\ Backed /\ Restoring /\ Cutting /\ Idle /\ state \in States \cup {Missing}
  BY DEF IInv, TypeOK
<1>2. Backed' <=>
        /\ op'.pc \in {"read", "persist"} =>
             /\ checkpoints' # <<>> /\ Newest'.state # Missing
             /\ \A m \in Range(state'.messages) :
                  m.turn # None => m \in Range(Newest'.state.messages)
        /\ op'.pc = "persist" => op'.read = state'
        /\ op'.pc = "clear" /\ state' # Missing =>
             checkpoints' # <<>> /\ state' = Newest'.state /\ <<"state", 0>> \in op'.left
        /\ op'.pc = "copy" => (state' = Missing) = (<<"state", 0>> \in op'.left)
  BY DEF Backed
<1>3. op'.pc \notin {"read", "persist", "clear", "copy"} => Backed'
  BY <1>2
<1>4. UNCHANGED checkpoints => Newest' = Newest
  BY DEF Newest
<1>5. CASE TurnStep
  <2>1. op.pc = "idle" /\ UNCHANGED op
    BY <1>5, TurnStepAlone
  <2> QED BY <1>3, <2>1
<1>6. CASE RewindStep
  <2>1. CASE TakeCheckpoint
    <3>1. checkpoints' # <<>> /\ Newest'.state = state /\ UNCHANGED state
      BY <2>1, TakenIsNewest DEF TakeCheckpoint, Astray
    <3>2. op.kind = "restore" => op'.pc = "clear" /\ op'.left = Children(state, turns, blob)
      BY <1>1, <2>1 DEF TakeCheckpoint, Op, Astray
    <3>3. op.kind # "restore" => op'.pc = "read" /\ state # Missing
      BY <1>1, <2>1 DEF TakeCheckpoint, Op, Cutting, Idle, Astray
    <3>4. state # Missing => <<"state", 0>> \in Children(state, turns, blob)
      BY DEF Children
    <3> QED BY <1>2, <3>1, <3>2, <3>3, <3>4
  <2>2. CASE ReadSession
    <3>1. /\ op.pc = "read" /\ op'.pc = "persist" /\ op'.read = state
          /\ UNCHANGED <<state, checkpoints>>
      BY <1>1, <2>2 DEF ReadSession, Op, diskVars
    <3> QED BY <1>1, <1>2, <1>4, <3>1 DEF Backed
  <2>3. CASE ClearOne
    <3>1. op.pc = "clear" /\ op.kind = "restore" /\ UNCHANGED checkpoints
      BY <1>1, <2>3 DEF ClearOne, Cutting, Idle, Op
    <3>2. CASE \E c \in op.left : /\ state' = IF c[1] = "state" THEN Missing ELSE state
                                  /\ op' = [op EXCEPT !.left = @ \ {c}]
      <4>1. PICK c \in op.left : /\ state' = IF c[1] = "state" THEN Missing ELSE state
                                 /\ op' = [op EXCEPT !.left = @ \ {c}]
        BY <3>2
      <4>2. op'.pc = "clear" /\ op'.left = op.left \ {c}
        BY <1>1, <3>1, <4>1 DEF Op
      <4>3. state' # Missing => state' = state /\ c # <<"state", 0>>
        BY <4>1
      <4> QED BY <1>1, <1>2, <1>4, <3>1, <4>2, <4>3 DEF Backed
    <3>3. CASE /\ op.left = {} /\ UNCHANGED state
               /\ LET c == checkpoints[op.at]
                  IN  op' = [op EXCEPT !.pc = "copy", !.left = Children(c.state, c.turns, c.blob)]
      <4> DEFINE c == checkpoints[op.at]
      <4>1. op'.pc = "copy" /\ op'.left = Children(c.state, c.turns, c.blob)
        BY <1>1, <3>3 DEF Op
      <4>2. state' = Missing
        BY <1>1, <3>1, <3>3 DEF Backed
      <4>3. c.state # Missing
        BY <1>1, <3>1 DEF Restoring, Readable
      <4>4. <<"state", 0>> \in op'.left
        BY <4>1, <4>3 DEF Children
      <4> QED BY <1>2, <4>1, <4>2, <4>4
    <3> QED BY <2>3, <3>2, <3>3 DEF ClearOne
  <2>4. CASE CopyOne
    <3>1. op.pc = "copy" /\ op.kind = "restore" /\ UNCHANGED checkpoints
      BY <1>1, <2>4 DEF CopyOne, Cutting, Idle, Op
    <3> DEFINE from == checkpoints[op.at]
    <3>2. CASE \E c \in op.left : /\ state' = IF c[1] = "state" THEN from.state ELSE state
                                  /\ op' = [op EXCEPT !.left = @ \ {c}]
      <4>1. PICK c \in op.left : /\ state' = IF c[1] = "state" THEN from.state ELSE state
                                 /\ op' = [op EXCEPT !.left = @ \ {c}]
        BY <3>2
      <4>2. op'.pc = "copy" /\ op'.left = op.left \ {c}
        BY <1>1, <3>1, <4>1 DEF Op
      <4>3. from.state # Missing /\ c \in Children(from.state, from.turns, from.blob)
        BY <1>1, <3>1, <4>1 DEF Restoring, Readable
      <4>4. c[1] = "state" => c = <<"state", 0>>
        BY <4>3 DEF Children
      <4>5. CASE c[1] = "state"
        BY <1>2, <4>1, <4>2, <4>3, <4>4, <4>5
      <4>6. CASE c[1] # "state"
        <5>1. state' = state /\ c # <<"state", 0>>
          BY <4>1, <4>6
        <5> QED BY <1>1, <1>2, <3>1, <4>2, <5>1 DEF Backed
      <4> QED BY <4>5, <4>6
    <3>3. CASE op' = [op EXCEPT !.pc = "apply"]
      BY <1>1, <1>3, <3>3 DEF Op
    <3> QED BY <2>4, <3>2, <3>3 DEF CopyOne
  <2>5. CASE Evict
    BY <1>3, <2>5 DEF Evict, IdleOp
  <2>6. CASE PersistCut \/ Unmark \/ Unlink \/ ResetSummary \/ RemoveOne \/ Removed \/ ApplyUpdates
    <3>1. op'.pc \notin {"read", "persist", "clear", "copy"}
      BY <1>1, <2>6 DEF Op, PersistCut, Unmark, Unlink, ResetSummary, RemoveOne, Removed,
         ApplyUpdates, WithSummary
    <3> QED BY <1>3, <3>1
  <2> QED BY <1>6, <2>1, <2>2, <2>3, <2>4, <2>5, <2>6 DEF RewindStep
<1>7. CASE RestMessage \/ SetBackend \/ EndVendorSession
  <2>1. /\ UNCHANGED <<checkpoints, op>> /\ ~Locked
        /\ \A m \in Range(state'.messages) : m.turn # None => m \in Range(state.messages)
    BY <1>7, EventLoopSteps
  <2>2. op.pc \notin {"persist", "clear", "copy"}
    BY <1>1, <2>1 DEF Locked, Cutting, Idle, Op
  <2>3. op.pc = "read" => /\ checkpoints' # <<>> /\ Newest'.state # Missing
                          /\ \A m \in Range(state'.messages) :
                               m.turn # None => m \in Range(Newest'.state.messages)
    BY <1>1, <1>4, <2>1 DEF Backed
  <2> QED BY <1>2, <2>1, <2>2, <2>3
<1>8. CASE Clicks \/ Crash
  <2>1. Clicks => op'.pc = "checkpoint"
    BY DEF Clicks, TurnCut, RoundCut, Restore, IdleOp
  <2>2. Crash => op'.pc = "idle"
    BY DEF Crash, IdleOp
  <2> QED BY <1>3, <1>8, <2>1, <2>2
<1> QED BY <1>5, <1>6, <1>7, <1>8 DEF Event

\* A vendor session, once there, stays.
LEMMA VendorGrows ==
  ASSUME IInv, TurnStep \/ RewindStep \/ Event
  PROVE  DOMAIN vendor \subseteq DOMAIN vendor'
<1>1. vendor \in Seq(Memory) /\ Len(vendor) \in Nat /\ DOMAIN vendor = 1..Len(vendor)
  BY LenProperties DEF IInv, TypeOK
<1>2. ASSUME NEW m, vendor' = Append(vendor, m) PROVE DOMAIN vendor \subseteq DOMAIN vendor'
  <2>1. DOMAIN Append(vendor, m) = 1..(Len(vendor) + 1)
    BY <1>1
  <2> QED BY <1>1, <1>2, <2>1
<1>3. ASSUME NEW g, NEW m, vendor' = [vendor EXCEPT ![g] = m]
      PROVE  DOMAIN vendor \subseteq DOMAIN vendor'
  BY <1>3
<1>4. SaveRound => \/ UNCHANGED vendor \/ \E m : vendor' = Append(vendor, m)
                   \/ \E g, m : vendor' = [vendor EXCEPT ![g] = m]
  BY DEF SaveRound
<1>5. Clicks => UNCHANGED vendor \/ \E m : vendor' = Append(vendor, m)
  BY DEF Clicks, TurnCut, RoundCut, Restore, diskVars
<1>6. TurnStep => SaveRound \/ UNCHANGED vendor
  BY DEF TurnStep, Send, Stamp, UnlinkBlob, Seed, BeginRound, CommitBubble, Summarise, Tools,
     WriteBlob, WriteMarker, Answer, AnswerFromHub, Finish, Stop, StopEarly, RecoverWidget,
     ExpireWidget, Fail, FailEarly, SaveFailed, ReportFailure, LeaveFailed, StopReporting, diskVars, WithSummary
<1>7. RewindStep \/ RestMessage \/ SetBackend \/ EndVendorSession \/ Crash => UNCHANGED vendor
  BY RewindStepAlone, EventLoopSteps DEF Crash, diskVars
<1> QED BY <1>2, <1>3, <1>4, <1>5, <1>6, <1>7 DEF Event

\* Only the answer of the model touches the record of the vendor session.
LEMMA TurnKeepsRecord ==
  ASSUME IInv, TurnStep, ~SaveRound
  PROVE  state'.record = state.record /\ state'.backend = state.backend
<1>1. state \in States
  BY TurnStepAlone
<1>2. ASSUME NEW msg, state' = Append1(state, msg)
      PROVE  state'.record = state.record /\ state'.backend = state.backend
  BY <1>1, <1>2 DEF Append1, States
<1>3. \/ UNCHANGED state
      \/ \E msg : state' = Append1(state, msg)
      \/ \E p : state' = [state EXCEPT !.pending = p]
      \/ \E x : state' = [state EXCEPT !.sop = x]
      \/ \E x, p : state' = [state EXCEPT !.sop = x, !.pending = p]
  BY DEF TurnStep, Send, Stamp, UnlinkBlob, Seed, BeginRound, CommitBubble, Summarise, Tools,
     WriteBlob, WriteMarker, Answer, AnswerFromHub, Finish, Stop, StopEarly, RecoverWidget,
     ExpireWidget, Fail, FailEarly, SaveFailed, ReportFailure, LeaveFailed, StopReporting, diskVars,
     Leave, WithSummary
<1> QED BY <1>1, <1>2, <1>3 DEF States

\* A record, wherever it is kept, is that of a vendor session that exists.
LEMMA GenerationsStep ==
  ASSUME IInv, TurnStep \/ RewindStep \/ Event
  PROVE  Generations'
<1>1. op \in Op /\ state \in States \cup {Missing} /\ Cutting /\ Restoring /\ Idle
  BY DEF IInv, TypeOK
<1>2. /\ state # Missing => HasGen(state.record)
      /\ \A k \in DOMAIN checkpoints : Readable(k) => HasGen(checkpoints[k].state.record)
      /\ HasGen(op.record) /\ (op.read # Missing => HasGen(op.read.record))
  BY DEF IInv, Generations
<1> DEFINE Has(r) == r # Missing => r.gen \in DOMAIN vendor'
<1>3. Generations' <=>
        /\ state' # Missing => Has(state'.record)
        /\ \A k \in DOMAIN checkpoints' :
             checkpoints'[k].state # Missing => Has(checkpoints'[k].state.record)
        /\ Has(op'.record) /\ (op'.read # Missing => Has(op'.read.record))
  BY DEF Generations, HasGen, Readable
<1>4. \A r : HasGen(r) => Has(r)
  BY VendorGrows DEF HasGen
<1>5. Has(Missing)
  OBVIOUS
<1> HIDE DEF Has
<1>6. ASSUME state' # Missing => Has(state'.record), UNCHANGED checkpoints,
             op'.record = Missing \/ Has(op'.record), op'.read = Missing \/ Has(op'.read.record)
      PROVE  Generations'
  BY <1>2, <1>3, <1>4, <1>5, <1>6 DEF Readable
<1>7. Has(op.record) /\ (op.read = Missing \/ Has(op.read.record))
  BY <1>2, <1>4
<1>8. CASE TurnStep
  <2>1. UNCHANGED <<checkpoints, op>> /\ state \in States
    BY <1>8, TurnStepAlone
  <2>2. CASE SaveRound
    <3>1. CASE UNCHANGED <<state, vendor>>
      BY <1>2, <1>4, <1>6, <1>7, <2>1, <3>1
    <3>2. CASE state.backend = "native"
      <4> DEFINE fresh == state.record = Missing
                 g == IF fresh THEN Len(vendor) + 1 ELSE state.record.gen
                 memory == (IF fresh THEN Recap ELSE vendor[g]) \cup {<<turn.n, turn.id>>}
      <4>1. /\ vendor' = IF fresh THEN Append(vendor, memory) ELSE [vendor EXCEPT ![g] = memory]
            /\ state' = [state EXCEPT !.record = [gen |-> g, known |-> memory]]
        BY <2>2, <3>2 DEF SaveRound
      <4>2. g \in DOMAIN vendor'
        <5>1. CASE fresh
          <6>1. Len(vendor) \in Nat
            BY LenProperties DEF IInv, TypeOK
          <6>2. vendor' = Append(vendor, memory) /\ g = Len(vendor) + 1
            BY <4>1, <5>1
          <6> HIDE DEF memory, g, fresh
          <6>3. DOMAIN Append(vendor, memory) = 1..(Len(vendor) + 1)
            BY <6>1
          <6> QED BY <6>1, <6>2, <6>3
        <5>2. CASE ~fresh
          BY <1>2, <2>1, <4>1, <5>2, VendorGrows, Absent DEF HasGen
        <5> QED BY <5>1, <5>2
      <4> HIDE DEF memory, g
      <4>3. state'.record = [gen |-> g, known |-> memory]
        BY <2>1, <4>1 DEF States
      <4>4. Has(state'.record)
        BY <4>2, <4>3 DEF Has
      <4> QED BY <1>6, <1>7, <2>1, <4>4
    <3> QED BY <2>2, <3>1, <3>2 DEF SaveRound
  <2>3. CASE ~SaveRound
    <3>1. state'.record = state.record
      BY <1>8, <2>3, TurnKeepsRecord
    <3> QED BY <1>2, <1>4, <1>6, <1>7, <2>1, <3>1, Absent
  <2> QED BY <2>2, <2>3
<1>9. CASE RewindStep
  <2>1. CASE TakeCheckpoint
    <3>1. UNCHANGED state /\ op'.record = op.record /\ op'.read = op.read
      BY <1>1, <2>1 DEF TakeCheckpoint, Op, Astray
    <3>2. \A k \in DOMAIN checkpoints' : k \in DOMAIN checkpoints \/ checkpoints'[k].state = state
      <4>1. checkpoints \in Seq(Checkpoint) /\ Len(checkpoints) \in Nat
            /\ DOMAIN checkpoints = 1..Len(checkpoints)
        BY LenProperties DEF IInv, TypeOK
      <4> DEFINE c == [state |-> state, turns |-> turns, blob |-> blob,
                       flaws |-> IF Astray THEN flaws \cup {"behind"} ELSE flaws]
      <4>2. checkpoints' = Append(checkpoints, c) /\ c.state = state
        BY <2>1 DEF TakeCheckpoint, Astray
      <4> HIDE DEF c
      <4>3. /\ DOMAIN Append(checkpoints, c) = 1..(Len(checkpoints) + 1)
            /\ Append(checkpoints, c)[Len(checkpoints) + 1] = c
        BY <4>1
      <4> QED BY <4>1, <4>2, <4>3
    <3>3. \A k \in DOMAIN checkpoints : checkpoints'[k] = checkpoints[k]
      BY <1>9, CheckpointsStay
    <3>4. \A k \in DOMAIN checkpoints' :
            checkpoints'[k].state # Missing => Has(checkpoints'[k].state.record)
      BY <1>2, <1>4, <3>2, <3>3 DEF Readable
    <3> QED BY <1>2, <1>3, <1>4, <1>7, <3>1, <3>4
  <2>2. CASE ReadSession
    <3>1. op'.record = op.record /\ op'.read = state /\ UNCHANGED <<state, checkpoints>>
      BY <1>1, <2>2 DEF ReadSession, Op, diskVars
    <3> QED BY <1>2, <1>4, <1>6, <1>7, <3>1
  <2>3. CASE PersistCut
    <3>1. /\ op'.record = op.record /\ op'.read = op.read /\ UNCHANGED checkpoints
          /\ op.pc = "persist" /\ state' = [op.read EXCEPT !.messages = Kept, !.sop = op.sop]
      BY <1>1, <2>3 DEF PersistCut, Op
    <3>2. op.read \in States
      BY <1>1, <3>1, OpFields DEF Cutting, Restoring, Idle
    <3>3. state'.record = op.read.record
      BY <3>1, <3>2 DEF States
    <3> QED BY <1>6, <1>7, <3>1, <3>2, <3>3, Absent
  <2>4. CASE Unmark \/ Unlink \/ ResetSummary \/ RemoveOne \/ Removed
    <3>1. /\ op'.record = op.record /\ op'.read = op.read /\ UNCHANGED checkpoints
          /\ state' = state \/ (op.pc = "unmark" /\ state' = [state EXCEPT !.pending = Missing])
      BY <1>1, <2>4 DEF Unmark, Unlink, ResetSummary, RemoveOne, Removed, Op, diskVars, WithSummary
    <3>2. op.pc = "unmark" => state \in States
      BY <1>1 DEF Cutting, Restoring, Idle, Op
    <3>3. state' # Missing => state # Missing /\ state'.record = state.record
      BY <3>1, <3>2, Absent DEF States
    <3> QED BY <1>2, <1>4, <1>6, <1>7, <3>1, <3>3
  <2>5. CASE ClearOne
    <3>1. /\ op'.record = op.record /\ op'.read = op.read /\ UNCHANGED checkpoints
          /\ state' = state \/ state' = Missing
      BY <1>1, <2>5 DEF ClearOne, Op
    <3> QED BY <1>2, <1>4, <1>6, <1>7, <3>1
  <2>6. CASE CopyOne
    <3>1. /\ op'.record = op.record /\ op'.read = op.read /\ UNCHANGED checkpoints
          /\ state' = state \/ state' = checkpoints[op.at].state
      BY <1>1, <2>6 DEF CopyOne, Op
    <3>2. op.at \in DOMAIN checkpoints /\ Readable(op.at)
      BY <1>1, <2>6 DEF CopyOne, Cutting, Restoring, Idle, Op
    <3> QED BY <1>2, <1>4, <1>6, <1>7, <3>1, <3>2
  <2>7. CASE ApplyUpdates
    <3>1. /\ op'.record = op.record /\ op'.read = op.read /\ UNCHANGED checkpoints
          /\ state' = state \/ state' = [state EXCEPT !.record = op.record]
          /\ op.pc = "apply"
      BY <1>1, <2>7 DEF ApplyUpdates, Op
    <3>2. state \in States
      BY <1>1, <3>1 DEF Cutting, Restoring, Idle, Op
    <3>3. state'.record \in {state.record, op.record}
      BY <3>1, <3>2 DEF States
    <3> QED BY <1>2, <1>4, <1>6, <1>7, <3>1, <3>2, <3>3, Absent
  <2>8. CASE Evict
    <3>1. op' = IdleOp /\ UNCHANGED checkpoints
      BY <2>8 DEF Evict
    <3>2. state' # Missing => state # Missing /\ state'.record = state.record
      <4>1. state' = state \/ (op.kind = "turn" /\ \E msg : state' = Append1(state, msg))
        BY <2>8 DEF Evict
      <4>2. op.kind = "turn" => state \in States
        BY <1>1 DEF Cutting
      <4>3. ASSUME NEW msg, state \in States, state' = Append1(state, msg)
            PROVE  state # Missing /\ state'.record = state.record
        BY <4>3, Absent DEF Append1, States
      <4> QED BY <4>1, <4>2, <4>3
    <3> QED BY <1>2, <1>4, <1>6, <3>1, <3>2 DEF IdleOp
  <2> QED BY <1>9, <2>1, <2>2, <2>3, <2>4, <2>5, <2>6, <2>7, <2>8 DEF RewindStep
<1>10. CASE RestMessage \/ SetBackend \/ EndVendorSession
  <2>1. /\ UNCHANGED <<op, checkpoints>> /\ state \in States
        /\ state'.record \in {state.record, Missing}
    BY <1>10, EventLoopSteps
  <2> QED BY <1>2, <1>4, <1>5, <1>6, <1>7, <2>1, Absent
<1>11. CASE Clicks
  <2>1. UNCHANGED checkpoints /\ op.pc = "idle"
    BY <1>11, ClickAlone
  <2>2. ASSUME NEW m, vendor' = Append(vendor, m)
        PROVE  Len(vendor') \in DOMAIN vendor'
    <3>1. Len(vendor) \in Nat
      BY LenProperties DEF IInv, TypeOK
    <3>2. DOMAIN Append(vendor, m) = 1..(Len(vendor) + 1) /\ Len(Append(vendor, m)) = Len(vendor) + 1
      BY <3>1
    <3> QED BY <2>2, <3>1, <3>2
  <2>3. ASSUME NEW i \in DOMAIN state.messages, state \in States, TurnCut(i) PROVE Generations'
    <3>1. op'.record = Missing /\ op'.read = Missing
      BY <2>3 DEF TurnCut, IdleOp
    <3>2. CASE UNCHANGED <<state, vendor>>
      BY <1>2, <1>4, <1>6, <2>1, <3>1, <3>2
    <3>3. CASE \E m : vendor' = Append(vendor, m) /\
                      state' = [state EXCEPT !.record = [gen |-> Len(vendor'),
                                                         known |-> vendor'[Len(vendor')]]]
      <4>1. PICK m : vendor' = Append(vendor, m) /\
                     state' = [state EXCEPT !.record = [gen |-> Len(vendor'),
                                                        known |-> vendor'[Len(vendor')]]]
        BY <3>3
      <4>2. state'.record = [gen |-> Len(vendor'), known |-> vendor'[Len(vendor')]]
        BY <2>3, <4>1 DEF States
      <4>3. Has(state'.record)
        BY <2>2, <4>1, <4>2 DEF Has
      <4> QED BY <1>6, <2>1, <3>1, <4>3
    <3> QED BY <2>3, <3>2, <3>3 DEF TurnCut
  <2>4. ASSUME NEW i \in DOMAIN state.messages, state \in States, RoundCut(i) PROVE Generations'
    <3>1. op'.record = Missing /\ op'.read = Missing /\ UNCHANGED state
      BY <2>4 DEF RoundCut, IdleOp, diskVars
    <3> QED BY <1>2, <1>4, <1>6, <2>1, <3>1
  <2>5. ASSUME NEW k \in DOMAIN checkpoints, Restore(k) PROVE Generations'
    <3>1. op'.read = Missing /\ UNCHANGED state
      BY <2>5 DEF Restore, IdleOp
    <3>2. \/ op'.record = Missing
          \/ \E m : vendor' = Append(vendor, m) /\ op'.record = [gen |-> Len(vendor'), known |-> m]
      BY <2>5 DEF Restore, IdleOp
    <3>3. ASSUME NEW m, vendor' = Append(vendor, m),
                 op'.record = [gen |-> Len(vendor'), known |-> m]
          PROVE  Has(op'.record)
      <4>1. op'.record.gen \in DOMAIN vendor'
        BY <2>2, <3>3
      <4> QED BY <4>1 DEF Has
    <3> QED BY <1>2, <1>4, <1>6, <2>1, <3>1, <3>2, <3>3
  <2> QED BY <1>1, <1>11, <2>3, <2>4, <2>5 DEF Clicks
<1>12. CASE Crash
  <2>1. op' = IdleOp /\ UNCHANGED <<state, checkpoints>>
    BY <1>12 DEF Crash, diskVars
  <2> QED BY <1>2, <1>4, <1>6, <2>1 DEF IdleOp
<1> QED BY <1>8, <1>9, <1>10, <1>11, <1>12 DEF Event

\* Nothing hides the marker.
Visible == /\ "restore" \notin flaws
           /\ op.kind = "restore" => op.pc \in {"checkpoint", "unlink", "evict"}

\* A step of a turn leaves the marker, drops it, or writes it.
LEMMA TurnMarks ==
  ASSUME IInv, TurnStep
  PROVE  \/ state'.pending \in {state.pending, Missing}
         \/ WriteMarker /\ state'.pending = [widget |-> turn.id, n |-> turn.n, r |-> turn.r]
<1>1. state \in States
  BY TurnStepAlone
<1>2. ASSUME NEW msg, state' = Append1(state, msg) PROVE state'.pending = state.pending
  BY <1>1, <1>2 DEF Append1, States
<1>3. WriteMarker => state'.pending = [widget |-> turn.id, n |-> turn.n, r |-> turn.r]
  BY <1>1 DEF WriteMarker, States
<1>4. \/ UNCHANGED state \/ WriteMarker
      \/ \E msg : state' = Append1(state, msg)
      \/ state' = [state EXCEPT !.pending = Missing]
      \/ \E x : state' = [state EXCEPT !.sop = x]
      \/ \E x : \E p \in {state.pending, Missing} : state' = [state EXCEPT !.sop = x, !.pending = p]
      \/ \E r : state' = [state EXCEPT !.record = r]
  <2>1. ASSUME NEW clear, Leave(clear)
        PROVE  \E x : \E p \in {state.pending, Missing} :
                 state' = [state EXCEPT !.sop = x, !.pending = p]
    <3>1. CASE clear
      BY <2>1, <3>1 DEF Leave
    <3>2. CASE ~clear
      BY <2>1, <3>2 DEF Leave
    <3> QED BY <3>1, <3>2
  <2> QED BY <2>1 DEF TurnStep, Send, Stamp, UnlinkBlob, Seed, BeginRound, SaveRound, CommitBubble,
     Summarise, Tools, WriteBlob, Answer, AnswerFromHub, Finish, Stop, StopEarly, RecoverWidget,
     ExpireWidget, Fail, FailEarly, SaveFailed, ReportFailure, LeaveFailed, StopReporting, diskVars, WithSummary
<1> QED BY <1>1, <1>2, <1>3, <1>4 DEF States

\* The widget on display stays, or goes, or a marker is written over it.
LEMMA SlotMoves ==
  ASSUME IInv, TurnStep \/ RewindStep \/ Event
  PROVE  Slot' \in {Slot, None} \/ (WriteMarker /\ Slot' = turn.id)
<1>1. op \in Op /\ state \in States \cup {Missing} /\ Cutting /\ Restoring /\ Idle
  BY DEF IInv, TypeOK
<1>2. /\ Slot = IF state # Missing /\ state.pending # Missing /\ Visible
                THEN state.pending.widget ELSE None
      /\ Slot' = IF state' # Missing /\ state'.pending # Missing /\ Visible'
                 THEN state'.pending.widget ELSE None
  BY DEF Slot, Visible
<1>3. state' = Missing \/ state'.pending = Missing => Slot' = None
  BY <1>2
<1>4. state # Missing /\ state'.pending = state.pending /\ (Visible' => Visible) =>
        Slot' \in {Slot, None}
  BY <1>2
<1>5. CASE TurnStep
  <2>1. state \in States /\ UNCHANGED op
    BY <1>5, TurnStepAlone
  <2>2. flaws \subseteq flaws'
    BY <1>5 DEF TurnStep, Send, Stamp, UnlinkBlob, Seed, BeginRound, SaveRound, CommitBubble,
     Summarise, Tools, WriteBlob, WriteMarker, Answer, AnswerFromHub, Finish, Stop, StopEarly,
     RecoverWidget, ExpireWidget, Fail, FailEarly, SaveFailed, ReportFailure, LeaveFailed,
     StopReporting, WithSummary
  <2>3. Visible' => Visible
    BY <2>1, <2>2 DEF Visible
  <2>4. CASE WriteMarker /\ state'.pending = [widget |-> turn.id, n |-> turn.n, r |-> turn.r]
    BY <1>2, <2>4
  <2> QED BY <1>3, <1>4, <1>5, <2>1, <2>3, <2>4, TurnMarks, Absent
<1>6. CASE RewindStep
  <2>1. CASE op.kind \in {"turn", "round"}
    <3>1. state \in States
      BY <1>1, <2>1 DEF Cutting
    <3>2. Evict => op'.kind # "restore"
      BY DEF Evict, IdleOp
    <3>3. ~Evict => op'.kind # "restore"
      BY <1>1, <1>6, <2>1 DEF RewindStep, Op, TakeCheckpoint, ReadSession, PersistCut, Unmark,
         Unlink, ResetSummary, RemoveOne, Removed, ClearOne, CopyOne, ApplyUpdates, WithSummary, Astray
    <3>4. flaws \subseteq flaws'
      BY <1>1, <1>6, <2>1 DEF RewindStep, TakeCheckpoint, ReadSession, PersistCut, Unmark,
         Unlink, ResetSummary, RemoveOne, Removed, ClearOne, CopyOne, ApplyUpdates, Evict, WithSummary, Astray
    <3>5. op'.kind # "restore" /\ flaws \subseteq flaws'
      BY <3>2, <3>3, <3>4
    <3>6. Visible' => Visible
      BY <2>1, <3>5 DEF Visible
    <3>7. CASE PersistCut
      <4>1. op.read = state /\ state' = [op.read EXCEPT !.messages = Kept, !.sop = op.sop]
        BY <3>7 DEF PersistCut, IInv, Backed
      <4>2. state'.pending = state.pending
        BY <3>1, <4>1 DEF States
      <4> QED BY <1>4, <3>1, <3>6, <4>2, Absent
    <3>8. CASE Unmark
      <4>1. state'.pending = Missing
        BY <3>1, <3>8 DEF Unmark, States
      <4> QED BY <1>3, <4>1
    <3>9. CASE Evict
      <4>1. ASSUME NEW msg, state' = Append1(state, msg) PROVE state'.pending = state.pending
        BY <3>1, <4>1 DEF Append1, States
      <4>2. state' = state \/ \E msg : state' = Append1(state, msg)
        BY <3>9 DEF Evict
      <4> QED BY <1>4, <3>1, <3>6, <4>1, <4>2, Absent
    <3>10. PersistCut \/ Unmark \/ Evict \/ UNCHANGED state
      BY <1>1, <1>6, <2>1 DEF RewindStep, TakeCheckpoint, ReadSession, Unlink, ResetSummary,
         RemoveOne, Removed, ClearOne, CopyOne, ApplyUpdates, Cutting, diskVars, WithSummary, Astray
    <3> QED BY <1>4, <3>1, <3>6, <3>7, <3>8, <3>9, <3>10, Absent
  <2>2. CASE op.kind = "restore"
    <3>1. CASE op.pc = "unmark"
      <4>1. state \in States /\ state' = [state EXCEPT !.pending = Missing]
        BY <1>1, <1>6, <2>2, <3>1 DEF Restoring, RewindStep, TakeCheckpoint, ReadSession,
           PersistCut, Unmark, Unlink, ResetSummary, RemoveOne, Removed, ClearOne, CopyOne,
           ApplyUpdates, Evict, WithSummary, Astray
      <4>2. state'.pending = Missing
        BY <4>1 DEF States
      <4> QED BY <1>3, <4>2
    <3>2. CASE op.pc \in {"unlink", "evict"}
      <4>1. UNCHANGED state
        BY <1>6, <2>2, <3>2 DEF RewindStep, TakeCheckpoint, ReadSession,
           PersistCut, Unmark, Unlink, ResetSummary, RemoveOne, Removed, ClearOne, CopyOne,
           ApplyUpdates, Evict, WithSummary, Astray
      <4> QED BY <1>1, <1>3, <2>2, <3>2, <4>1 DEF Restoring
    <3>3. CASE op.pc \in {"checkpoint", "clear", "copy", "apply"}
      <4>1. op'.kind = "restore" /\ op'.pc \in {"clear", "copy", "apply", "unmark"}
        BY <1>1, <1>6, <2>2, <3>3 DEF RewindStep, Op, TakeCheckpoint, ReadSession,
           PersistCut, Unmark, Unlink, ResetSummary, RemoveOne, Removed, ClearOne, CopyOne,
           ApplyUpdates, Evict, WithSummary, Astray
      <4>2. ~Visible'
        BY <4>1 DEF Visible
      <4> QED BY <1>2, <4>2
    <3> QED BY <1>1, <2>2, <3>1, <3>2, <3>3 DEF Restoring
  <2>3. op.kind # "none"
    BY <1>1, <1>6, RewindStepAlone DEF Idle
  <2> QED BY <1>1, <2>1, <2>2, <2>3, OpFields
<1>7. CASE RestMessage \/ SetBackend \/ EndVendorSession
  <2>1. /\ UNCHANGED op /\ state \in States /\ state'.pending = state.pending
    BY <1>7, EventLoopSteps
  <2>2. UNCHANGED flaws
    BY <1>7 DEF RestMessage, SetBackend, EndVendorSession
  <2>3. Visible' => Visible
    BY <2>1, <2>2 DEF Visible
  <2> QED BY <1>4, <2>1, <2>3, Absent
<1>8. CASE Clicks
  <2>1. UNCHANGED flaws /\ op.pc = "idle"
    BY <1>8, ClickAlone
  <2>2. Visible' => Visible
    BY <1>1, <2>1 DEF Visible, Idle
  <2>3. CASE state = Missing
    <3>1. UNCHANGED state
      BY <1>8, <2>3 DEF Clicks, Restore
    <3> QED BY <1>3, <2>3, <3>1
  <2>4. CASE state \in States
    <3>1. UNCHANGED state \/ \E r : state' = [state EXCEPT !.record = r]
      BY <1>8 DEF Clicks, TurnCut, RoundCut, Restore, diskVars
    <3>2. state'.pending = state.pending
      BY <2>4, <3>1 DEF States
    <3> QED BY <1>4, <2>2, <2>4, <3>2, Absent
  <2> QED BY <1>1, <2>3, <2>4
<1>9. CASE Crash
  <2>1. UNCHANGED state /\ flaws \subseteq flaws'
    BY <1>9 DEF Crash, diskVars
  <2>2. op.kind = "restore" /\ op.pc \in {"clear", "copy", "apply", "unmark", "unlink"} =>
        "restore" \in flaws'
    BY <1>9 DEF Crash
  <2>3. Visible' => Visible
    BY <1>1, <2>1, <2>2 DEF Visible, Restoring
  <2> QED BY <1>3, <1>4, <2>1, <2>3
<1> QED BY <1>5, <1>6, <1>7, <1>8, <1>9 DEF Event

\* What is done to the widgets on display, besides the step itself.
Displayed == shown' = IF Slot' # Slot /\ Slot # None THEN shown \cup {Slot} ELSE shown

\* The id of the round that a widget may yet come from.
ToBeShown == InARound \ {"await", "unlink"}

\* Ids are minted one after the other.
LEMMA MintedGrows ==
  ASSUME IInv, TurnStep \/ RewindStep \/ Event
  PROVE  /\ minted \in Nat /\ minted' \in Nat /\ minted <= minted'
         /\ BeginRound => minted' = minted + 1
<1>1. minted \in Nat
  BY BoundsAssumption DEF IInv, TypeOK
<1>2. BeginRound => minted' = minted + 1
  BY DEF BeginRound, Mint
<1>3. TurnStep => minted' \in {minted, minted + 1}
  BY DEF TurnStep, Send, Stamp, UnlinkBlob, Seed, BeginRound, SaveRound, CommitBubble,
     Summarise, Tools, WriteBlob, WriteMarker, Answer, AnswerFromHub, Finish, Stop, StopEarly,
     RecoverWidget, ExpireWidget, Fail, FailEarly, SaveFailed, ReportFailure, LeaveFailed,
     StopReporting, Mint, WithSummary
<1>4. RewindStep \/ Clicks => minted' = minted
  BY RewindStepAlone, ClickAlone
<1>5. RestMessage \/ SetBackend \/ EndVendorSession \/ Crash => minted' \in {minted, minted + 1}
  BY DEF RestMessage, SetBackend, EndVendorSession, Crash, Mint
<1> QED BY <1>1, <1>2, <1>3, <1>4, <1>5 DEF Event

\* A round from which a widget may come has just begun, or goes on.
LEMMA RoundGoesOn ==
  ASSUME IInv, TurnStep \/ RewindStep \/ Event, turn'.pc \in ToBeShown
  PROVE  \/ BeginRound /\ turn'.id = minted'
         \/ turn.pc \in ToBeShown /\ turn'.id = turn.id /\ ~WriteMarker
<1>1. turn \in Turn
  BY DEF IInv, TypeOK
<1> USE DEF ToBeShown, InARound
<1>2. BeginRound => turn'.id = minted'
  BY <1>1 DEF BeginRound, Turn
<1>3. CASE TurnStep /\ ~BeginRound
  <2>1. CASE SaveRound \/ CommitBubble \/ Summarise \/ Tools \/ WriteBlob
    <3>1. turn.pc \in {"round", "saved", "bubble", "tools", "emit"}
      BY <2>1 DEF SaveRound, CommitBubble, Summarise, Tools, WriteBlob, At, WithSummary
    <3>2. turn'.id = turn.id
      BY <1>1, <2>1 DEF SaveRound, CommitBubble, Summarise, Tools, WriteBlob, Go, Turn, WithSummary
    <3> QED BY <3>1, <3>2 DEF WriteMarker, At
  <2>2. ASSUME NEW pc \in {"arrived", "await", "unlink", "seeded", "unlinkLast", "failed",
                           "reporting", "reported"},
               Go(pc)
        PROVE  FALSE
    BY <1>1, <2>2 DEF Go, Turn
  <2>3. turn' # IdleTurn
    BY DEF IdleTurn
  <2>4. ~Send
    BY DEF Send, IdleTurn
  <2>5. ~Stamp /\ ~Seed
    BY <1>1 DEF Stamp, Seed, Turn
  <2>6. ~RecoverWidget
    BY DEF RecoverWidget, IdleTurn
  <2>7. CASE ExpireWidget
    BY <2>7 DEF ExpireWidget, memVars, Quiet
  <2>8. ~UnlinkBlob /\ ~WriteMarker /\ ~Answer /\ ~AnswerFromHub
    BY <2>2, <2>3 DEF UnlinkBlob, WriteMarker, Answer, AnswerFromHub
  <2>9. ~Finish /\ ~Stop /\ ~StopEarly
    BY <2>2, <2>3 DEF Finish, Stop, StopEarly, Leave, Go
  <2>10. ~Fail /\ ~FailEarly /\ ~SaveFailed /\ ~ReportFailure /\ ~LeaveFailed /\ ~StopReporting
    BY <2>2, <2>3 DEF Fail, FailEarly, SaveFailed, ReportFailure, LeaveFailed, StopReporting
  <2> QED BY <1>3, <2>1, <2>4, <2>5, <2>6, <2>7, <2>8, <2>9, <2>10 DEF TurnStep
<1>4. CASE RewindStep
  <2>1. Evict => turn'.pc \in {"stamped", "seeded"} \/ UNCHANGED turn
    BY DEF Evict, RoundAgain, IdleTurn
  <2>2. turn.pc = "idle" /\ (Evict \/ UNCHANGED turn)
    BY <1>4, RewindStepAlone
  <2> QED BY <2>1, <2>2
<1>5. CASE Event
  <2>1. UNCHANGED turn \/ turn' = IdleTurn \/ turn' = [turn EXCEPT !.pc = "exit"]
    BY <1>5, ClickAlone DEF Event, RestMessage, SetBackend, EndVendorSession, Crash, memVars
  <2>2. turn'.pc = "idle" \/ turn'.pc = "exit" \/ UNCHANGED turn
    BY <1>1, <2>1 DEF IdleTurn, Turn
  <2>3. WriteMarker => turn'.pc = "await"
    BY <1>1 DEF WriteMarker, Go, Turn
  <2> QED BY <2>2, <2>3
<1> QED BY <1>2, <1>3, <1>4, <1>5

\* The widget on display was minted, and that of a running round is new.
LEMMA UnshownStep ==
  ASSUME IInv, TurnStep \/ RewindStep \/ Event, Displayed
  PROVE  Unshown' /\ shown' \subseteq 1..minted'
<1>1. /\ shown \subseteq 1..minted
      /\ Slot = None \/ Slot \in 1..minted
      /\ turn.pc \in ToBeShown =>
           turn.id \in 1..minted /\ turn.id \notin shown /\ turn.id # Slot
  BY DEF IInv, TypeOK, Unshown, ToBeShown
<1>2. minted \in Nat /\ minted' \in Nat /\ minted <= minted' /\ (BeginRound => minted' = minted + 1)
  BY MintedGrows
<1>3. Slot' \in {Slot, None} \/ (WriteMarker /\ Slot' = turn.id)
  BY SlotMoves
<1>4. WriteMarker => turn.pc \in ToBeShown
  BY DEF WriteMarker, At, ToBeShown, InARound
<1>5. Slot' = None \/ Slot' \in 1..minted'
  BY <1>1, <1>2, <1>3, <1>4
<1>6. shown' = shown \/ (shown' = shown \cup {Slot} /\ Slot # None)
  BY DEF Displayed
<1>7. 1..minted \subseteq 1..minted'
  BY <1>2
<1>8. shown' \subseteq shown \cup ({Slot} \ {None}) /\ shown' \subseteq 1..minted'
  BY <1>1, <1>6, <1>7
<1>9. ASSUME turn'.pc \in ToBeShown
      PROVE  turn'.id \in 1..minted' /\ turn'.id \notin shown' /\ turn'.id # Slot'
  <2>1. CASE BeginRound /\ turn'.id = minted'
    <3>1. ~WriteMarker
      BY <2>1 DEF BeginRound, WriteMarker, At
    <3> QED BY <1>1, <1>2, <1>3, <1>8, <2>1, <3>1 DEF None
  <2>2. CASE turn.pc \in ToBeShown /\ turn'.id = turn.id /\ ~WriteMarker
    BY <1>1, <1>2, <1>3, <1>8, <2>2 DEF None
  <2> QED BY <1>9, <2>1, <2>2, RoundGoesOn
<1> QED BY <1>5, <1>8, <1>9 DEF Unshown, ToBeShown

-----------------------------------------------------------------------------
(* The history and the directories of turns are in line.                   *)

\* What is kept of a history keeps its order and its names.
LEMMA PrefixInOrder ==
  ASSUME NEW ms \in Seq(Message), NEW us \in Seq(Message),
         DOMAIN us \subseteq DOMAIN ms, \A i \in DOMAIN us : us[i] = ms[i]
  PROVE  /\ Ordered(ms) => Ordered(us)
         /\ \A n \in Nat : Minted(ms, n) => Minted(us, n)
         /\ \A n \in Nat : UpTo(ms, n) => UpTo(us, n)
BY DEF Ordered, Minted, Distinct, IdsOf, UpTo

\* The stamps of messages are numbers; what is bounded by one is by a larger one.
LEMMA Stamps ==
  ASSUME NEW ms \in Seq(Message)
  PROVE  /\ \A i \in DOMAIN ms : ms[i].turn \in Nat /\ ms[i].id \in Nat
         /\ \A k \in Nat, n \in Nat : UpTo(ms, k) /\ k <= n => UpTo(ms, n)
         /\ \A k \in Nat, n \in Nat : Minted(ms, k) /\ k <= n => Minted(ms, n)
<1>1. \A i \in DOMAIN ms : ms[i] \in Message
  BY ElementOfSeq
<1>2. \A i \in DOMAIN ms : ms[i].turn \in Nat /\ ms[i].id \in Nat
  BY <1>1 DEF Message, TurnNo, Id, None
<1> QED BY <1>2 DEF UpTo, Minted

\* A message appended at the end keeps the history in order.
LEMMA AddedInOrder ==
  ASSUME NEW s \in States, NEW msg \in Message, Ordered(s.messages),
         msg.turn # None => UpTo(s.messages, msg.turn)
  PROVE  LET u == Append1(s, msg)
         IN  /\ Ordered(u.messages)
             /\ \A n \in Nat : UpTo(s.messages, n) /\ msg.turn <= n => UpTo(u.messages, n)
<1> DEFINE u == Append1(s, msg)
           ms == s.messages
           us == u.messages
<1>1. ms \in Seq(Message) /\ DOMAIN ms = 1..Len(ms) /\ Len(ms) \in Nat
  BY StateFields, InMessages
<1>2. /\ \A i \in DOMAIN ms : us[i] = ms[i]
      /\ \A i \in DOMAIN us : i \notin DOMAIN ms => i = Len(ms) + 1 /\ us[i] = msg
  BY Appended
<1> HIDE DEF u, ms, us
<1>3. ASSUME NEW n \in Nat, UpTo(ms, n), msg.turn <= n PROVE UpTo(us, n)
  <2> SUFFICES ASSUME NEW i \in DOMAIN us PROVE us[i].turn <= n
    BY DEF UpTo
  <2> QED BY <1>2, <1>3 DEF UpTo
<1>4. Ordered(us)
  <2> SUFFICES ASSUME NEW i \in DOMAIN us, NEW j \in DOMAIN us, i < j, us[j].turn # None
               PROVE  us[i].turn <= us[j].turn
    BY DEF Ordered
  <2>1. i \in DOMAIN ms
    BY <1>1, <1>2
  <2>2. CASE j \in DOMAIN ms
    BY <1>2, <2>1, <2>2 DEF Ordered, ms
  <2>3. CASE j \notin DOMAIN ms
    <3>1. us[j] = msg /\ msg.turn # None
      BY <1>2, <2>3
    <3> QED BY <1>2, <2>1, <3>1 DEF UpTo, ms
  <2> QED BY <2>2, <2>3
<1> QED BY <1>3, <1>4 DEF u, ms, us

\* ... and its names apart.
LEMMA AddedIsMinted ==
  ASSUME NEW s \in States, NEW msg \in Message, NEW k \in Nat, NEW n \in Nat,
         Minted(s.messages, k), k <= n, msg.id <= n
  PROVE  Minted(Append1(s, msg).messages, n)
<1> DEFINE u == Append1(s, msg)
           ms == s.messages
           us == u.messages
<1>1. ms \in Seq(Message) /\ DOMAIN ms = 1..Len(ms) /\ Len(ms) \in Nat
  BY StateFields, InMessages
<1>2. /\ \A i \in DOMAIN ms : us[i] = ms[i]
      /\ \A i \in DOMAIN us : i \notin DOMAIN ms =>
           i = Len(ms) + 1 /\ us[i] = msg /\ msg.id \notin IdsOf(ms)
  BY Appended
<1>3. msg.id \in 1..n
  BY DEF Message, Id
<1>4. Minted(ms, n)
  BY <1>1, Stamps
<1> HIDE DEF u, ms, us
<1>5. ASSUME NEW i \in DOMAIN us PROVE us[i].id \in 1..n
  <2>1. CASE i \in DOMAIN ms
    BY <1>2, <1>4, <2>1 DEF Minted, IdsOf
  <2> QED BY <1>2, <1>3, <2>1
<1>6. ASSUME NEW i \in DOMAIN us, NEW j \in DOMAIN us, us[i].id = us[j].id PROVE i = j
  <2>1. \A q \in DOMAIN us : q \notin DOMAIN ms => \A p \in DOMAIN ms : us[p].id # us[q].id
    BY <1>2 DEF IdsOf
  <2>2. CASE i \in DOMAIN ms /\ j \in DOMAIN ms
    BY <1>2, <1>4, <1>6, <2>2 DEF Minted, Distinct
  <2>3. CASE i \notin DOMAIN ms /\ j \notin DOMAIN ms
    BY <1>2, <2>3
  <2> QED BY <1>6, <2>1, <2>2, <2>3
<1>7. Minted(us, n)
  BY <1>5, <1>6 DEF Minted, Distinct, IdsOf
<1> QED BY <1>7 DEF u, us

\* The directories that are there, counted when they have no gap.
LEMMA Counted ==
  ASSUME NEW t \in TurnDirs
  PROVE  /\ Count(t) \in Nat
         /\ \A n \in Nat : Dirs(t) = 1..n => Count(t) = n
         /\ \A n \in Nat : Dirs(t) = 1..n /\ n + 1 \in TurnNo => Dirs(t) \cup {n + 1} = 1..(n + 1)
<1>1. \A n \in Nat : Cardinality(1..n) = n
  BY FS_Interval
<1>2. Count(t) \in Nat
  BY DirsType DEF Count
<1>3. \A n \in Nat : (1..n) \cup {n + 1} = 1..(n + 1)
  OBVIOUS
<1> QED BY <1>1, <1>2, <1>3 DEF Count

\* The number a turn has, or is to get.
Number == IF turn.n = None THEN NextTurn ELSE turn.n

\* A step of a turn leaves the history, or appends a message stamped with the
\* number of the turn: the human's, the bubble of its round, or a failure.
LEMMA TurnSays ==
  ASSUME IInv, TurnStep
  PROVE  \/ state'.messages = state.messages
         \/ \E msg \in Message :
              /\ state' = Append1(state, msg) /\ UNCHANGED turns
              /\ msg.turn = Number /\ msg.id \in {turn.id, minted'}
              /\ turn.pc # "idle" /\ turn'.n = turn.n
              /\ \/ Stamp /\ turn.n = None /\ msg.role = "user" /\ msg.round = 0
                 \/ /\ InRound /\ msg.role \in {"assistant", "error"}
                    /\ msg.round = turn.r /\ msg.id = turn.id
                    /\ msg.role = "assistant" => turn.pc = "saved"
                 \/ /\ turn.pc = "reporting" /\ msg.role = "error" /\ msg.round = 0
<1>1. state \in States /\ turn \in Turn /\ turns \in TurnDirs /\ None = 0
  BY TurnStepAlone DEF IInv, TypeOK, None
<1>2. minted \in 0..MaxId /\ minted \in Nat
  BY BoundsAssumption DEF IInv, TypeOK
<1>3. NextTurn \in Nat \ {0} /\ (NextTurn <= MaxTurn => NextTurn \in TurnNo)
  BY <1>1, DirsType, BoundsAssumption DEF NextTurn, TurnNo
<1>4. \A i \in Id : \A n \in TurnNo \cup {None} : \A r \in RoundNo \cup {0} :
        \A role \in {"user", "assistant", "error"} :
          LET msg == [id |-> i, role |-> role, turn |-> n, round |-> r]
          IN  /\ msg \in Message /\ msg.turn = n /\ msg.id = i
              /\ msg.role = role /\ msg.round = r
  BY MessageType
<1>5. Mint => minted' \in Id
  BY <1>2, BoundsAssumption DEF Mint, Id
<1>6. CASE Stamp
  <2>1. /\ state' = Append1(state, [id |-> minted', role |-> "user",
                                    turn |-> NextTurn, round |-> 0])
        /\ UNCHANGED turns /\ turn.pc = "arrived" /\ turn'.n = turn.n /\ minted' \in Id
        /\ NextTurn \in TurnNo
    BY <1>1, <1>3, <1>5, <1>6 DEF Stamp, At, Turn
  <2>2. turn.n = None
    BY <2>1 DEF IInv, Numbered, BeforeItBegins
  <2> DEFINE msg == [id |-> minted', role |-> "user", turn |-> NextTurn, round |-> 0]
  <2>3. /\ msg \in Message /\ msg.turn = NextTurn /\ msg.id = minted'
        /\ msg.role = "user" /\ msg.round = 0
    BY <1>4, <2>1
  <2>4. state' = Append1(state, msg)
    BY <2>1
  <2> HIDE DEF msg
  <2> QED BY <1>6, <2>1, <2>2, <2>3, <2>4 DEF Number
<1>7. CASE CommitBubble
  <2>1. /\ state' = Append1(state, [id |-> turn.id, role |-> "assistant",
                                    turn |-> turn.n, round |-> turn.r])
        /\ UNCHANGED turns /\ turn.pc = "saved" /\ turn'.n = turn.n
    BY <1>1, <1>7 DEF CommitBubble, At, Go, Turn
  <2>2. turn.n \in TurnNo /\ turn.r \in RoundNo /\ turn.id \in Id /\ turn.n # None
    BY <1>1, <2>1 DEF IInv, Numbered, InARound, TurnNo
  <2> DEFINE msg == [id |-> turn.id, role |-> "assistant", turn |-> turn.n, round |-> turn.r]
  <2>3. /\ msg \in Message /\ msg.turn = turn.n /\ msg.id = turn.id
        /\ msg.role = "assistant" /\ msg.round = turn.r
    BY <1>4, <2>2
  <2>4. state' = Append1(state, msg)
    BY <2>1
  <2>5. InRound
    BY <1>1, <2>2 DEF InRound, Id, RoundNo
  <2> HIDE DEF msg
  <2> QED BY <2>1, <2>2, <2>3, <2>4, <2>5 DEF Number
<1>8. CASE ReportFailure
  <2>1. UNCHANGED turns /\ turn.pc = "reporting" /\ turn'.n = turn.n
    BY <1>1, <1>8 DEF ReportFailure, At, Go, Turn
  <2>2. CASE InRound
    <3>1. /\ state' = Append1(state, [id |-> turn.id, role |-> "error",
                                      turn |-> turn.n, round |-> turn.r])
          /\ turn.n \in TurnNo /\ turn.r \in RoundNo /\ turn.id \in Id /\ turn.n # None
      BY <1>1, <1>8, <2>2 DEF ReportFailure, InRound, Turn, None
    <3> DEFINE msg == [id |-> turn.id, role |-> "error", turn |-> turn.n, round |-> turn.r]
    <3>2. /\ msg \in Message /\ msg.turn = turn.n /\ msg.id = turn.id
          /\ msg.role = "error" /\ msg.round = turn.r
      BY <1>4, <3>1
    <3>3. state' = Append1(state, msg)
      BY <3>1
    <3> HIDE DEF msg
    <3> QED BY <2>1, <2>2, <3>1, <3>2, <3>3 DEF Number
  <2>3. CASE ~InRound
    <3>1. /\ state' = Append1(state, [id |-> minted', role |-> "error", round |-> 0,
                                      turn |-> Number])
          /\ minted' \in Id /\ Number \in TurnNo
      BY <1>1, <1>3, <1>5, <1>8, <2>3 DEF ReportFailure, Turn, Number
    <3> DEFINE msg == [id |-> minted', role |-> "error", round |-> 0, turn |-> Number]
    <3>2. /\ msg \in Message /\ msg.turn = Number /\ msg.id = minted'
          /\ msg.role = "error" /\ msg.round = 0
      BY <3>1 DEF Message
    <3>3. state' = Append1(state, msg)
      BY <3>1
    <3> HIDE DEF msg
    <3> QED BY <2>1, <3>2, <3>3
  <2> QED BY <2>2, <2>3
<1>9. CASE ~Stamp /\ ~CommitBubble /\ ~ReportFailure
  <2>1. \/ UNCHANGED state
        \/ \E p : state' = [state EXCEPT !.pending = p]
        \/ \E x : state' = [state EXCEPT !.sop = x]
        \/ \E x, p : state' = [state EXCEPT !.sop = x, !.pending = p]
        \/ \E r : state' = [state EXCEPT !.record = r]
    BY <1>9 DEF TurnStep, Send, UnlinkBlob, Seed, BeginRound, SaveRound, Summarise, Tools,
       WriteBlob, WriteMarker, Answer, AnswerFromHub, Finish, Stop, StopEarly, RecoverWidget,
       ExpireWidget, Fail, FailEarly, SaveFailed, LeaveFailed, StopReporting, diskVars, Leave, WithSummary
  <2> QED BY <1>1, <2>1 DEF States
<1> QED BY <1>6, <1>7, <1>8, <1>9

\* How the number of the turn changes: it ends, goes on, begins or is taken up.
LEMMA TurnNumber ==
  ASSUME IInv, TurnStep
  PROVE  /\ \/ turn' = IdleTurn
            \/ turn'.n = turn.n /\ turn.pc # "idle"
            \/ Seed /\ turn'.n = NextTurn
            \/ Send /\ turn'.n = None /\ UNCHANGED turns /\ state'.pending = Missing
            \/ /\ RecoverWidget /\ UNCHANGED <<state, turns>>
               /\ state.pending # Missing /\ turn'.n = state.pending.n
         /\ turn'.pc = "stamped" => Stamp /\ turn'.id = minted' /\ turn.n = None /\ turn.pc = "arrived"
         /\ turn'.id \in {turn.id, None} \/ (turn'.id = minted')
         /\ flaws' \in {flaws, flaws \cup {"rerun"}, flaws \cup {"gap"}}
<1>1. state \in States /\ turn \in Turn /\ None = 0
  BY TurnStepAlone DEF IInv, TypeOK, None
<1>2. IdleTurn.id = None /\ IdleTurn.pc = "idle"
  BY DEF IdleTurn
<1>3. \A pc : [IdleTurn EXCEPT !.pc = pc].n = None /\ [IdleTurn EXCEPT !.pc = pc].pc = pc
              /\ [IdleTurn EXCEPT !.pc = pc].id = None
  BY DEF IdleTurn
<1>4. turn.pc \in BeforeItBegins => turn.n = None
  BY DEF IInv, Numbered

<1>5. CASE Send
  <2>1. turn' = [IdleTurn EXCEPT !.pc = "unlinkSent"] /\ UNCHANGED turns /\ UNCHANGED flaws
    BY <1>5 DEF Send
  <2>2. state'.pending = Missing
    BY <1>1, <1>5 DEF Send, States
  <2> QED BY <1>3, <1>5, <2>1, <2>2
<1>6. CASE Stamp
  BY <1>1, <1>2, <1>3, <1>4, <1>6 DEF Stamp, At, Go, Turn, BeforeItBegins
<1>7. CASE UnlinkBlob
  BY <1>1, <1>2, <1>3, <1>4, <1>7 DEF UnlinkBlob, At, Go, Turn, BeforeItBegins
<1>8. CASE Seed
  BY <1>1, <1>2, <1>3, <1>4, <1>8 DEF Seed, At, Go, Turn, BeforeItBegins
<1>9. CASE BeginRound
  BY <1>1, <1>2, <1>3, <1>4, <1>9 DEF BeginRound, At, Go, Turn, BeforeItBegins
<1>10. CASE SaveRound
  BY <1>1, <1>2, <1>3, <1>4, <1>10 DEF SaveRound, At, Go, Turn, BeforeItBegins
<1>11. CASE CommitBubble
  BY <1>1, <1>2, <1>3, <1>4, <1>11 DEF CommitBubble, At, Go, Turn, BeforeItBegins
<1>12. CASE Summarise
  BY <1>1, <1>2, <1>3, <1>4, <1>12 DEF Summarise, At, Go, Turn, BeforeItBegins, WithSummary
<1>13. CASE Tools
  BY <1>1, <1>2, <1>3, <1>4, <1>13 DEF Tools, At, Go, Turn, BeforeItBegins
<1>14. CASE WriteBlob
  BY <1>1, <1>2, <1>3, <1>4, <1>14 DEF WriteBlob, At, Go, Turn, BeforeItBegins
<1>15. CASE WriteMarker
  BY <1>1, <1>2, <1>3, <1>4, <1>15 DEF WriteMarker, At, Go, Turn, BeforeItBegins
<1>16. CASE Answer
  BY <1>1, <1>2, <1>3, <1>4, <1>16 DEF Answer, At, Go, Turn, BeforeItBegins
<1>17. CASE AnswerFromHub
  BY <1>1, <1>2, <1>3, <1>4, <1>17 DEF AnswerFromHub, At, Go, Turn, BeforeItBegins
<1>18. CASE Finish
  BY <1>1, <1>2, <1>3, <1>4, <1>18 DEF Finish, Leave, At, Go, Turn, BeforeItBegins
<1>19. CASE Stop
  BY <1>1, <1>2, <1>3, <1>4, <1>19 DEF Stop, Leave, Stoppable, At, Go, Turn, BeforeItBegins
<1>20. CASE StopEarly
  BY <1>1, <1>2, <1>3, <1>4, <1>20 DEF StopEarly, At, Go, Turn, BeforeItBegins
<1>21. CASE RecoverWidget
  <2>1. /\ turn'.n = state.pending.n /\ turn'.pc = "seeded" /\ turn'.id = None
        /\ UNCHANGED <<state, turns, flaws>> /\ state.pending # Missing
    BY <1>21 DEF RecoverWidget, IdleTurn, diskVars
  <2> QED BY <1>21, <2>1
<1>22. CASE ExpireWidget
  <2>1. turn' = turn /\ turn.pc = "idle" /\ UNCHANGED flaws
    BY <1>22 DEF ExpireWidget, Quiet, memVars
  <2>2. turn = IdleTurn
    BY <2>1 DEF IInv, Numbered
  <2> QED BY <1>2, <2>1, <2>2
<1>23. CASE Fail
  BY <1>1, <1>2, <1>3, <1>4, <1>23 DEF Fail, Stoppable, At, Go, Turn, BeforeItBegins
<1>24. CASE FailEarly
  BY <1>1, <1>2, <1>3, <1>4, <1>24 DEF FailEarly, At, Go, Turn, BeforeItBegins
<1>25. CASE SaveFailed
  BY <1>1, <1>2, <1>3, <1>4, <1>25 DEF SaveFailed, InRound, At, Go, Turn, BeforeItBegins
<1>26. CASE ReportFailure
  BY <1>1, <1>2, <1>3, <1>4, <1>26 DEF ReportFailure, InRound, At, Go, Turn, BeforeItBegins
<1>27. CASE LeaveFailed
  BY <1>1, <1>2, <1>3, <1>4, <1>27 DEF LeaveFailed, At, Go, Turn, BeforeItBegins
<1>28. CASE StopReporting
  BY <1>1, <1>2, <1>3, <1>4, <1>28 DEF StopReporting, At, Go, Turn, BeforeItBegins
<1> QED BY <1>5, <1>6, <1>7, <1>8, <1>9, <1>10, <1>11, <1>12, <1>13, <1>14, <1>15, <1>16, <1>17,
       <1>18, <1>19, <1>20, <1>21, <1>22, <1>23, <1>24, <1>25, <1>26, <1>27, <1>28 DEF TurnStep

\* What a checkpoint that can be restored holds.
LEMMA CheckpointHolds ==
  ASSUME IInv, NEW k \in DOMAIN checkpoints, Readable(k)
  PROVE  checkpoints[k].state \in States /\ checkpoints[k].turns \in TurnDirs
<1>1. checkpoints[k] \in Checkpoint
  BY ElementOfSeq DEF IInv, TypeOK
<1> QED BY <1>1 DEF Checkpoint, Readable

\* Names that were minted stay so.
LEMMA NamesStay ==
  ASSUME IInv, minted' \in Nat, minted <= minted'
  PROVE  /\ op.read # Missing => Minted(op.read.messages, minted')
         /\ \A k \in DOMAIN checkpoints :
              Readable(k) => Minted(checkpoints[k].state.messages, minted')
         /\ state # Missing => Minted(state.messages, minted')
         /\ turn.id <= minted'
<1>1. minted \in Nat /\ NoTwins /\ turn.id \in Nat
  BY BoundsAssumption DEF IInv, Level, TypeOK, Turn, Id, None
<1>2. ASSUME NEW s \in States, Minted(s.messages, minted) PROVE Minted(s.messages, minted')
  BY <1>1, <1>2, StateFields, Stamps
<1>3. op.read \in States \cup {Missing} /\ state \in States \cup {Missing}
  BY DEF IInv, TypeOK, Op
<1>4. turn.id <= minted'
  BY <1>1 DEF NoTwins
<1> QED BY <1>1, <1>2, <1>3, <1>4, CheckpointHolds DEF NoTwins

\* A turn keeps the names apart, ...
LEMMA NoTwinsTurn ==
  ASSUME IInv, TurnStep
  PROVE  NoTwins'
<1>1. state \in States /\ state' \in States /\ UNCHANGED <<checkpoints, op>>
  BY TurnStepAlone, TurnStepType
<1>2. minted \in Nat /\ minted' \in Nat /\ minted <= minted'
  BY MintedGrows
<1>3. NoTwins /\ state # Missing /\ turn.id \in Nat
  BY <1>1, Absent DEF IInv, Level, TypeOK, Turn, Id, None
<1>4. Minted(state'.messages, minted')
  <2>1. CASE state'.messages = state.messages
    BY <1>2, <1>3, <2>1, NamesStay
  <2>2. ASSUME NEW msg \in Message, state' = Append1(state, msg), msg.id \in {turn.id, minted'}
        PROVE  Minted(state'.messages, minted')
    <3>1. msg.id <= minted' /\ Minted(state.messages, minted)
      BY <1>2, <1>3, <2>2 DEF NoTwins
    <3> QED BY <1>1, <1>2, <2>2, <3>1, AddedIsMinted
  <2> QED BY <2>1, <2>2, TurnSays
<1>5. turn'.id <= minted'
  BY <1>2, <1>3, TurnNumber DEF NoTwins, None
<1>6. \A k : Readable(k)' = Readable(k)
  BY <1>1 DEF Readable
<1> QED BY <1>1, <1>2, <1>4, <1>5, <1>6, NamesStay DEF NoTwins

\* ... the history in line with the directories, ...
LEMMA LinedTurn ==
  ASSUME IInv, TurnStep
  PROVE  Lined' /\ LastTurn'
<1>1. /\ state \in States /\ state' \in States /\ turns \in TurnDirs /\ turns' \in TurnDirs
      /\ op.pc = "idle" /\ UNCHANGED <<checkpoints, op>> /\ None = 0 /\ state # Missing
  BY TurnStepAlone, TurnStepType, Absent DEF IInv, TypeOK, FilesOK, None
<1>2. /\ state.messages \in Seq(Message) /\ state'.messages \in Seq(Message)
      /\ turn \in Turn /\ turn.n \in Nat /\ minted \in Nat
  BY <1>1, StateFields, BoundsAssumption DEF IInv, TypeOK, Turn, TurnNo, None
<1>3. NoTwins /\ Lined /\ LastTurn
  BY DEF IInv, Level
<1>4. \A k \in DOMAIN checkpoints' :
        Readable(k)' /\ Sound(checkpoints'[k].flaws) =>
        InLine(checkpoints'[k].state, checkpoints'[k].turns)
  BY <1>1, <1>3 DEF Lined, Readable
<1>5. Sound(flaws') => Sound(flaws)
  BY TurnNumber DEF Sound
<1>6. SUFFICES ASSUME Sound(flaws') PROVE InLine(state', turns') /\ LastTurn'
  BY <1>4, <1>6 DEF Lined, LastTurn
<1> DEFINE n == Count(turns)
<1>7. InLine(state, turns) /\ n \in Nat /\ NextTurn = n + 1 /\ Count(turns') \in Nat
  BY <1>1, <1>3, <1>5, <1>6, Counted DEF Lined, NextTurn, Count
<1>8. turn.pc # "idle" => /\ turn.n # None => turn.n = n /\ UpTo(state.messages, n)
                          /\ turn.n = None => state.pending = Missing
  BY <1>3, <1>5, <1>6 DEF LastTurn
<1> HIDE DEF n
<1>9. /\ Dirs(turns) = 1..n /\ Ordered(state.messages) /\ UpTo(state.messages, n + 1)
      /\ state.pending # Missing => state.pending.n = n /\ UpTo(state.messages, n)
  BY <1>7 DEF InLine, n
<1>10. CASE Seed
  <2>1. /\ state' = state /\ turn.pc = "stamped" /\ turn'.pc = "seeded" /\ turn'.n = n + 1
        /\ n + 1 <= MaxTurn
    BY <1>2, <1>7, <1>10 DEF Seed, At, Turn
  <2>2. turn.n = None
    BY <2>1 DEF IInv, Numbered, BeforeItBegins
  <2>3. state.pending = Missing
    BY <1>8, <2>1, <2>2
  <2>4. Dirs(turns') = 1..(n + 1) /\ Count(turns') = n + 1
    <3>1. n + 1 \in TurnNo /\ n + 1 \in Nat
      BY <1>7, <2>1, BoundsAssumption DEF TurnNo
    <3>2. Dirs(turns') = Dirs(turns) \cup {n + 1}
      BY <1>7, <1>10, DirsGrow
    <3>3. Dirs(turns') = 1..(n + 1)
      BY <1>1, <1>7, <1>9, <3>1, <3>2, Counted
    <3> QED BY <1>1, <3>1, <3>3, Counted
  <2>5. UpTo(state.messages, n + 1 + 1)
    BY <1>2, <1>7, <1>9, Stamps
  <2>6. InLine(state', turns')
    BY <1>9, <2>1, <2>3, <2>4, <2>5 DEF InLine
  <2>7. LastTurn'
    BY <1>1, <1>7, <1>9, <2>1, <2>4 DEF LastTurn
  <2> QED BY <2>6, <2>7
<1>11. CASE ~Seed
  <2>1. Dirs(turns') = 1..n /\ Count(turns') = n /\ NextTurn' = n + 1
    BY <1>1, <1>7, <1>9, <1>11, DirsGrow, Counted DEF NextTurn, Count
  <2>2. CASE state'.messages = state.messages
    <3>1. WriteMarker => /\ turn.n = n /\ UpTo(state.messages, n) /\ turn.n # None
                         /\ state'.pending # Missing => state'.pending.n = n
      <4>1. WriteMarker => turn.pc = "marker" /\ turn.n # None
        BY <1>1 DEF WriteMarker, At, IInv, Numbered, InARound, TurnNo
      <4>2. WriteMarker => state'.pending.n = turn.n
        BY <1>1 DEF WriteMarker, States
      <4> QED BY <1>8, <4>1, <4>2
    <3>2. \/ state'.pending \in {state.pending, Missing}
          \/ WriteMarker
      BY TurnMarks
    <3>3. state'.pending # Missing => state'.pending.n = n /\ UpTo(state.messages, n)
      BY <1>9, <3>1, <3>2
    <3>4. InLine(state', turns')
      BY <1>9, <2>1, <2>2, <3>3 DEF InLine
    <3>5. turn'.pc # "idle" /\ turn'.n # None => turn'.n = n /\ UpTo(state'.messages, n)
      BY <1>8, <1>9, <1>11, <2>2, TurnNumber DEF IdleTurn
    <3>6. turn'.pc # "idle" /\ turn'.n = None => state'.pending = Missing
      <4>1. CASE turn'.n = turn.n /\ turn.pc # "idle"
        BY <1>8, <3>1, <3>2, <4>1
      <4>2. CASE RecoverWidget /\ turn'.n = state.pending.n /\ state.pending # Missing
        <5>1. state.pending \in Widgets
          BY <1>1, <4>2, StateFields
        <5>2. turn'.n # None
          BY <1>1, <4>2, <5>1 DEF Widgets, TurnNo
        <5> QED BY <5>2
      <4> QED BY <1>11, <4>1, <4>2, TurnNumber DEF IdleTurn
    <3>7. turn'.pc # "stamped"
      <4>1. ASSUME Stamp PROVE FALSE
        <5>1. /\ turn'.id = minted' /\ minted' = minted + 1
          BY <1>2, <4>1 DEF Stamp, Mint, Turn
        <5> DEFINE msg == [id |-> minted', role |-> "user", turn |-> NextTurn, round |-> 0]
        <5>2. state' = Append1(state, msg)
          BY <4>1 DEF Stamp
        <5>3. msg \in Message /\ msg.id = minted'
          <6>1. minted' \in Id
            BY <1>2, <4>1, BoundsAssumption DEF Stamp, Mint, Id
          <6>2. NextTurn <= MaxTurn
            BY <4>1 DEF Stamp
          <6>3. NextTurn \in TurnNo
            BY <1>7, <6>2, BoundsAssumption DEF TurnNo
          <6> QED BY <6>1, <6>3 DEF Message
        <5> HIDE DEF msg
        <5>4. msg.id \in IdsOf(state'.messages)
          BY <1>1, <5>2, <5>3, Appended
        <5>5. msg.id \in 1..minted
          BY <1>1, <1>3, <2>2, <5>4 DEF NoTwins, Minted
        <5> QED BY <1>2, <5>1, <5>3, <5>5
      <4> QED BY <4>1, TurnNumber
    <3> QED BY <2>1, <3>4, <3>5, <3>6, <3>7 DEF LastTurn
  <2>3. CASE state'.messages # state.messages
    <3>1. PICK msg \in Message :
            /\ state' = Append1(state, msg) /\ UNCHANGED turns
            /\ msg.turn = Number /\ msg.id \in {turn.id, minted'}
            /\ turn.pc # "idle" /\ turn'.n = turn.n
      BY <2>3, TurnSays
    <3>2. msg.turn = (IF turn.n = None THEN n + 1 ELSE n) /\ UpTo(state.messages, msg.turn)
      BY <1>7, <1>8, <1>9, <3>1 DEF Number
    <3>3. /\ Ordered(state'.messages) /\ state'.pending = state.pending
          /\ \A k \in Nat : UpTo(state.messages, k) /\ msg.turn <= k => UpTo(state'.messages, k)
      BY <1>1, <1>9, <3>1, <3>2, AddedInOrder, Appended
    <3>4. UpTo(state'.messages, n + 1) /\ (turn.n # None => UpTo(state'.messages, n))
      BY <1>7, <1>8, <1>9, <3>1, <3>2, <3>3
    <3>5. state'.pending # Missing => state'.pending.n = n /\ UpTo(state'.messages, n)
      BY <1>8, <1>9, <3>1, <3>3, <3>4
    <3>6. InLine(state', turns')
      BY <2>1, <3>3, <3>4, <3>5 DEF InLine
    <3>7. turn'.pc = "stamped" => \A m \in Range(state'.messages) :
                                    m.id = turn'.id => m.turn \in {None, NextTurn'}
      <4> SUFFICES ASSUME turn'.pc = "stamped", NEW i \in DOMAIN state'.messages,
                          state'.messages[i].id = turn'.id
                   PROVE  state'.messages[i].turn \in {None, NextTurn'}
        BY DEF Range
      <4>1. Stamp /\ turn'.id = minted' /\ turn.n = None
        BY TurnNumber
      <4>2. minted' = minted + 1
        BY <4>1 DEF Stamp, Mint
      <4>3. Minted(state.messages, minted)
        BY <1>1, <1>3 DEF NoTwins
      <4>4. i \in DOMAIN state.messages => state'.messages[i].id \in 1..minted
        BY <1>1, <3>1, <4>3, Appended DEF Minted, IdsOf
      <4>5. i \notin DOMAIN state.messages
        BY <1>2, <4>1, <4>2, <4>4
      <4>6. state'.messages[i] = msg
        BY <1>1, <3>1, <4>5, Appended
      <4> QED BY <2>1, <3>2, <4>1, <4>6
    <3>8. LastTurn'
      BY <1>8, <2>1, <3>1, <3>3, <3>4, <3>7 DEF LastTurn
    <3> QED BY <3>6, <3>8
  <2> QED BY <2>2, <2>3
<1> QED BY <1>10, <1>11

\* ... and meets no rewind.
LEMMA LevelTurn ==
  ASSUME IInv, TurnStep
  PROVE  Level'
<1>1. op.pc = "idle" /\ UNCHANGED op
  BY TurnStepAlone
<1>2. op'.kind = "none"
  BY <1>1 DEF IInv, Idle
<1>3. CutInLine' /\ PutBack'
  BY <1>2 DEF CutInLine, PutBack
<1> QED BY <1>3, NoTwinsTurn, LinedTurn DEF Level

\* The REST routes and the switch of the backend append at most a message
\* without a stamp, and leave the turn its number.
LEMMA LoopSays ==
  ASSUME IInv, RestMessage \/ SetBackend \/ EndVendorSession
  PROVE  /\ \/ state'.messages = state.messages
            \/ \E msg \in Message : /\ state' = Append1(state, msg) /\ msg.turn = None
                                    /\ msg.id = minted' /\ minted' = minted + 1
                                    /\ msg.round = 0
         /\ turn'.n = turn.n /\ turn'.id = turn.id
         /\ turn'.pc # turn.pc => turn'.pc = "exit" /\ turn.pc # "idle"
         /\ UNCHANGED flaws
<1>1. state \in States /\ turn \in Turn /\ minted \in 0..MaxId
  BY EventLoopSteps DEF IInv, TypeOK
<1>2. CASE RestMessage
  <2>1. PICK role \in {"user", "assistant"} :
          state' = Append1(state, [id |-> minted', role |-> role, turn |-> None, round |-> 0])
    BY <1>2 DEF RestMessage
  <2> DEFINE msg == [id |-> minted', role |-> role, turn |-> None, round |-> 0]
  <2>2. minted' \in Id /\ minted' = minted + 1
    BY <1>1, <1>2, BoundsAssumption DEF RestMessage, Mint, Id
  <2>3. msg \in Message /\ msg.turn = None /\ msg.id = minted' /\ msg.round = 0
    BY <2>2, MessageType
  <2>4. state' = Append1(state, msg)
    BY <2>1
  <2>5. UNCHANGED <<turn, flaws>>
    BY <1>2 DEF RestMessage, memVars
  <2> HIDE DEF msg
  <2> QED BY <2>2, <2>3, <2>4, <2>5
<1>3. CASE SetBackend
  <2>1. PICK b \in {"classic", "native"} : state' = [state EXCEPT !.backend = b]
    BY <1>3 DEF SetBackend
  <2>2. state'.messages = state.messages
    BY <1>1, <2>1 DEF States
  <2>3. /\ turn' = IF turn.pc \in Stoppable THEN [turn EXCEPT !.pc = "exit"] ELSE turn
        /\ UNCHANGED flaws
    BY <1>3 DEF SetBackend
  <2>4. /\ turn'.n = turn.n /\ turn'.id = turn.id
        /\ turn'.pc # turn.pc => turn'.pc = "exit" /\ turn.pc # "idle"
    BY <1>1, <2>3 DEF Turn, Stoppable
  <2> QED BY <2>2, <2>3, <2>4
<1>4. CASE EndVendorSession
  <2>1. state' = state \/ state' = [state EXCEPT !.record = Missing]
    BY <1>4 DEF EndVendorSession
  <2>2. state'.messages = state.messages
    BY <1>1, <2>1 DEF States
  <2> QED BY <1>4, <2>2 DEF EndVendorSession
<1> QED BY <1>2, <1>3, <1>4

\* They may come between the steps of a turn, and of a truncation that has not
\* read the session yet or is over.
LEMMA LevelLoop ==
  ASSUME IInv, RestMessage \/ SetBackend \/ EndVendorSession
  PROVE  Level'
<1>1. /\ UNCHANGED <<turns, checkpoints, op, flaws>> /\ ~Locked
      /\ state \in States /\ state' \in States /\ state # Missing
      /\ state'.pending = state.pending
  BY EventLoopSteps, LoopSays, Absent
<1>2. /\ NoTwins /\ Lined /\ LastTurn /\ CutInLine /\ None = 0
      /\ turns \in TurnDirs /\ turn \in Turn /\ op \in Op
  BY DEF IInv, Level, TypeOK, None
<1>3. minted \in Nat /\ minted' \in Nat /\ minted <= minted'
  BY MintedGrows DEF Event
<1>4. state.messages \in Seq(Message)
  BY <1>1, StateFields
<1>5. /\ Minted(state'.messages, minted')
      /\ Ordered(state.messages) => Ordered(state'.messages)
      /\ \A n \in Nat : UpTo(state.messages, n) => UpTo(state'.messages, n)
      /\ \A i \in DOMAIN state'.messages :
           \/ i \in DOMAIN state.messages /\ state'.messages[i] = state.messages[i]
           \/ state'.messages[i].turn = None /\ state'.messages[i].id = minted + 1
  <2>1. Minted(state.messages, minted)
    BY <1>1, <1>2 DEF NoTwins
  <2>2. CASE state'.messages = state.messages
    BY <1>3, <1>4, <2>1, <2>2, Stamps
  <2>3. ASSUME NEW msg \in Message, state' = Append1(state, msg), msg.turn = None,
               msg.id = minted', minted' = minted + 1
        PROVE  <1>5!:
    <3>1. Minted(state'.messages, minted')
      BY <1>1, <1>3, <2>1, <2>3, AddedIsMinted
    <3>2. \A i \in DOMAIN state'.messages :
            \/ i \in DOMAIN state.messages /\ state'.messages[i] = state.messages[i]
            \/ state'.messages[i] = msg
      BY <1>1, <2>3, Appended
    <3>3. Ordered(state.messages) =>
            /\ Ordered(state'.messages)
            /\ \A n \in Nat : UpTo(state.messages, n) => UpTo(state'.messages, n)
      BY <1>1, <1>2, <2>3, AddedInOrder
    <3>4. \A n \in Nat : UpTo(state.messages, n) => UpTo(state'.messages, n)
      BY <1>2, <2>3, <3>2 DEF UpTo
    <3> QED BY <2>3, <3>1, <3>2, <3>3, <3>4
  <2> QED BY <2>2, <2>3, LoopSays
<1>6. NoTwins'
  <2>1. \A k : Readable(k)' = Readable(k)
    BY <1>1 DEF Readable
  <2> QED BY <1>1, <1>3, <1>5, <2>1, LoopSays, NamesStay DEF NoTwins
<1>7. Lined'
  <2>1. InLine(state, turns) => InLine(state', turns)
    BY <1>1, <1>2, <1>5, Counted DEF InLine
  <2> QED BY <1>1, <1>2, <2>1 DEF Lined, Readable
<1>8. LastTurn'
  <2>1. turn'.pc # "idle" => turn.pc # "idle"
    BY LoopSays
  <2>2. turn'.pc = "stamped" => turn.pc = "stamped" /\ turn'.id = turn.id
    BY LoopSays
  <2>3. turn.n \in Nat /\ NextTurn' = NextTurn
    BY <1>1, <1>2 DEF Turn, TurnNo, NextTurn
  <2>4. Sound(flaws) /\ turn.pc = "stamped" =>
          \A m \in Range(state'.messages) : m.id = turn.id => m.turn \in {None, NextTurn}
    BY <1>2, <1>5 DEF LastTurn, Range
  <2> QED BY <1>1, <1>2, <1>5, <2>1, <2>2, <2>3, <2>4, LoopSays DEF LastTurn
<1>9. CutInLine'
  <2> SUFFICES ASSUME op.kind \in {"turn", "round"} PROVE CutInLine'
    BY <1>1 DEF CutInLine
  <2>1. op.pc \in {"checkpoint", "read", "evict"}
    BY <1>1 DEF IInv, Cutting, Locked
  <2>2. op.at \in 1..minted
    <3>1. op.pc \in {"checkpoint", "read"} => op.at \in IdsOf(state.messages)
      BY DEF IInv, Cutting
    <3>2. op.pc = "evict" => op.read # Missing /\ op.at \in IdsOf(op.read.messages)
      BY DEF IInv, Cutting
    <3> QED BY <1>1, <1>2, <2>1, <3>1, <3>2 DEF NoTwins, Minted
  <2>3. Clicked(state.messages)'
    <3>1. \A i \in DOMAIN state.messages : state.messages[i].id = op.at =>
            IF op.kind = "turn" THEN state.messages[i].turn \in {None, op.cut}
            ELSE state.messages[i].turn = op.cut
      BY <1>2 DEF CutInLine, Clicked
    <3>2. \A i \in DOMAIN state'.messages : state'.messages[i].id = op.at =>
            i \in DOMAIN state.messages /\ state'.messages[i] = state.messages[i]
      BY <1>3, <1>5, <2>2
    <3> QED BY <1>1, <3>1, <3>2 DEF Clicked
  <2>4. op.read # Missing => Clicked(op.read.messages)'
    BY <1>1, <1>2 DEF CutInLine, Clicked
  <2>5. LastKept' = LastKept /\ LeftTurns' = LeftTurns
    BY <1>1 DEF LastKept, LeftTurns
  <2>6. op.cut \in Nat
    BY <1>2 DEF Op
  <2>7. Sound(flaws) /\ op.pc = "evict" =>
          /\ Ordered(state.messages) /\ UpTo(state.messages, op.cut)
          /\ state.pending = Missing /\ Dirs(turns) = 1..LastKept \cup LeftTurns
          /\ op.left = {}
    BY <1>2 DEF CutInLine
  <2>8. Sound(flaws) /\ op.pc = "evict" =>
          /\ Ordered(state'.messages) /\ UpTo(state'.messages, op.cut)
          /\ state'.pending = Missing
    BY <1>1, <1>5, <2>6, <2>7
  <2>9. op.cut > 0
    BY <1>2 DEF CutInLine
  <2> QED BY <1>1, <2>1, <2>3, <2>4, <2>5, <2>7, <2>8, <2>9 DEF CutInLine
<1>10. PutBack'
  <2>1. op.kind = "restore" => op.pc = "evict"
    BY <1>1 DEF IInv, Restoring, Locked
  <2> QED BY <1>1, <2>1 DEF PutBack
<1> QED BY <1>6, <1>7, <1>8, <1>9, <1>10 DEF Level

\* A click starts a rewind, at a message or a checkpoint there is.
LEMMA LevelClick ==
  ASSUME IInv, Clicks
  PROVE  Level'
<1>1. /\ turn.pc = "idle" /\ op.pc = "idle"
      /\ UNCHANGED <<turns, checkpoints, turn, minted, flaws>>
  BY ClickAlone
<1>2. /\ NoTwins /\ Lined /\ LastTurn /\ None = 0 /\ minted \in Nat
      /\ turns \in TurnDirs /\ turn \in Turn
  BY BoundsAssumption DEF IInv, Level, TypeOK, None
<1>3. \/ \E i \in DOMAIN state.messages : state # Missing /\ (TurnCut(i) \/ RoundCut(i))
      \/ \E k \in DOMAIN checkpoints : Restore(k)
  BY DEF Clicks
<1>4. \/ state' = state
      \/ state # Missing /\ \E r : state' = [state EXCEPT !.record = r]
  BY <1>3 DEF TurnCut, RoundCut, Restore, diskVars
<1>5. /\ state' # Missing => state # Missing
      /\ state # Missing => /\ state'.messages = state.messages
                            /\ state'.pending = state.pending
  BY <1>4, Absent DEF IInv, TypeOK, States
<1>6. op'.pc = "checkpoint" /\ op'.read = Missing
  BY <1>3 DEF TurnCut, RoundCut, Restore, IdleOp
<1>7. NoTwins'
  <2>1. \A k : Readable(k)' = Readable(k)
    BY <1>1 DEF Readable
  <2> QED BY <1>1, <1>2, <1>5, <1>6, <2>1 DEF NoTwins
<1>8. Lined'
  <2>1. state # Missing /\ InLine(state, turns) => InLine(state', turns)
    BY <1>5 DEF InLine
  <2> QED BY <1>1, <1>2, <1>5, <1>6, <2>1 DEF Lined, Readable
<1>9. LastTurn'
  BY <1>1 DEF LastTurn
<1>10. CutInLine'
  <2>1. ASSUME NEW i \in DOMAIN state.messages, state # Missing, TurnCut(i) \/ RoundCut(i)
        PROVE  op'.cut > 0 /\ Clicked(state.messages)'
    <3>1. state \in States /\ state'.messages = state.messages
      BY <1>5, <2>1 DEF IInv, TypeOK
    <3>2. /\ op'.at = state.messages[i].id
          /\ TurnCut(i) => op'.kind = "turn" /\ op'.cut = CutTurn(state.messages, i)
          /\ RoundCut(i) => /\ op'.kind = "round" /\ op'.cut = state.messages[i].turn
                            /\ op'.cut \in Dirs(turns)
      BY <2>1 DEF TurnCut, RoundCut, IdleOp
    <3>3. op'.cut > 0
      BY <1>2, <2>1, <3>1, <3>2, CutTurnType, DirsType DEF TurnNo
    <3>4. \A j \in DOMAIN state.messages : state.messages[j].id = op'.at => j = i
      BY <1>2, <2>1, <3>2 DEF NoTwins, Minted, Distinct
    <3>5. TurnCut(i) => state.messages[i].turn \in {None, op'.cut}
      BY <3>2 DEF CutTurn
    <3> QED BY <2>1, <3>1, <3>2, <3>3, <3>4, <3>5 DEF Clicked
  <2>2. ASSUME NEW k \in DOMAIN checkpoints, Restore(k) PROVE op'.kind = "restore"
    BY <2>2 DEF Restore, IdleOp
  <2> QED BY <1>3, <1>6, <2>1, <2>2 DEF CutInLine
<1>11. PutBack'
  BY <1>6 DEF PutBack
<1> QED BY <1>7, <1>8, <1>9, <1>10, <1>11 DEF Level

\* A crash ends the turn and the rewind; what it finds half done it notes.
LEMMA LevelCrash ==
  ASSUME IInv, Crash
  PROVE  Level'
<1>1. /\ turn' = IdleTurn /\ op' = IdleOp
      /\ UNCHANGED <<state, turns, checkpoints, minted>>
  BY DEF Crash, diskVars
<1>2. NoTwins /\ Lined /\ minted \in Nat
  BY BoundsAssumption DEF IInv, Level, TypeOK
<1>3. /\ op'.kind = "none" /\ op'.pc = "idle" /\ op'.read = Missing
      /\ turn'.pc = "idle" /\ turn'.id = 0
  BY <1>1 DEF IdleOp, IdleTurn, None
<1>4. NoTwins'
  BY <1>1, <1>2, <1>3 DEF NoTwins, Readable
<1>5. Sound(flaws') => Sound(flaws) /\ op.pc \in {"idle", "checkpoint", "read", "persist", "evict"}
  <2> SUFFICES ASSUME Sound(flaws')
               PROVE  Sound(flaws) /\ op.pc \in {"idle", "checkpoint", "read", "persist", "evict"}
    OBVIOUS
  <2>1. flaws \subseteq flaws' /\ "restore" \notin flaws' /\ "cut" \notin flaws'
    BY DEF Crash, Sound
  <2>2. /\ op.kind = "restore" => op.pc \notin {"clear", "copy", "apply", "unmark", "unlink"}
        /\ op.kind # "restore" => op.pc \notin {"unmark", "unlink", "summary", "remove"}
    BY <2>1 DEF Crash
  <2>3. op.kind \in {"none", "turn", "round", "restore"}
    BY DEF IInv, TypeOK, Op
  <2> QED BY <2>1, <2>2, <2>3 DEF Sound, IInv, Idle, Cutting, Restoring
<1>6. Lined'
  BY <1>1, <1>2, <1>5 DEF Lined, Readable
<1> QED BY <1>3, <1>4, <1>6 DEF Level, LastTurn, CutInLine, PutBack

\* The checkpoints are those there were, and the one that is taken.
LEMMA CheckpointTaken ==
  ASSUME IInv, TakeCheckpoint
  PROVE  \A k \in DOMAIN checkpoints' :
           \/ k \in DOMAIN checkpoints /\ checkpoints'[k] = checkpoints[k]
           \/ /\ checkpoints'[k].state = state /\ checkpoints'[k].turns = turns
              /\ flaws \subseteq checkpoints'[k].flaws
<1>1. checkpoints \in Seq(Checkpoint)
  BY DEF IInv, TypeOK
<1> DEFINE c == [state |-> state, turns |-> turns, blob |-> blob,
                 flaws |-> IF Astray THEN flaws \cup {"behind"} ELSE flaws]
<1>2. checkpoints' = Append(checkpoints, c)
  BY DEF TakeCheckpoint, Astray
<1>3. c \in Checkpoint
  BY DEF IInv, TypeOK, Checkpoint, Flaws
<1>4. c.state = state /\ c.turns = turns /\ flaws \subseteq c.flaws
  OBVIOUS
<1> HIDE DEF c
<1>5. /\ Len(checkpoints') = Len(checkpoints) + 1 /\ checkpoints' \in Seq(Checkpoint)
      /\ \A k \in 1..Len(checkpoints) : checkpoints'[k] = checkpoints[k]
      /\ checkpoints'[Len(checkpoints) + 1] = c
  BY <1>1, <1>2, <1>3, AppendProperties
<1>6. /\ DOMAIN checkpoints' = 1..(Len(checkpoints) + 1) /\ DOMAIN checkpoints = 1..Len(checkpoints)
      /\ Len(checkpoints) \in Nat
  BY <1>1, <1>5, LenProperties
<1> QED BY <1>4, <1>5, <1>6

\* A rewind keeps its kind, and what it goes back to; it reads the session once.
LEMMA RewindGoes ==
  ASSUME IInv, RewindStep
  PROVE  /\ op.kind \in {"turn", "round", "restore"}
         /\ Evict => op.pc = "evict" /\ op' = IdleOp /\ UNCHANGED <<turns, checkpoints, flaws>>
         /\ ~Evict => /\ op'.kind = op.kind /\ op'.at = op.at
                      /\ op'.cut = op.cut /\ op'.round = op.round
         /\ ~Evict => op'.read = op.read \/ (ReadSession /\ op'.read = state)
         /\ TakeCheckpoint \/ UNCHANGED checkpoints
         /\ PersistCut \/ Unlink \/ UNCHANGED flaws
<1>1. op \in Op
  BY DEF IInv, TypeOK
<1>2. op.kind \in {"turn", "round", "restore"}
  BY <1>1, RewindStepAlone DEF Op, IInv, Idle
<1>3. Evict => op.pc = "evict" /\ op' = IdleOp /\ UNCHANGED <<turns, checkpoints, flaws>>
  BY DEF Evict
<1>4. ~Evict => /\ op'.kind = op.kind /\ op'.at = op.at
                /\ op'.cut = op.cut /\ op'.round = op.round
  BY <1>1 DEF Op, RewindStep, TakeCheckpoint, ReadSession, PersistCut, Unmark,
     Unlink, ResetSummary, RemoveOne, Removed, ClearOne, CopyOne, ApplyUpdates, WithSummary, Astray
<1>5. ~Evict => op'.read = op.read \/ (ReadSession /\ op'.read = state)
  BY <1>1 DEF Op, RewindStep, TakeCheckpoint, ReadSession, PersistCut, Unmark,
     Unlink, ResetSummary, RemoveOne, Removed, ClearOne, CopyOne, ApplyUpdates, WithSummary, Astray
<1>6. TakeCheckpoint \/ UNCHANGED checkpoints
  BY DEF RewindStep, ReadSession, PersistCut, Unmark, Unlink, ResetSummary, RemoveOne, Removed,
         ClearOne, CopyOne, ApplyUpdates, Evict, diskVars, WithSummary
<1>7. PersistCut \/ Unlink \/ UNCHANGED flaws
  BY DEF RewindStep, TakeCheckpoint, ReadSession, Unmark, ResetSummary, RemoveOne, Removed,
         ClearOne, CopyOne, ApplyUpdates, Evict, WithSummary, Astray
<1> QED BY <1>2, <1>3, <1>4, <1>5, <1>6, <1>7

\* The history it goes back to is one it has read: the message is there.
LEMMA WhatIsRead ==
  ASSUME IInv, op.kind \in {"turn", "round"}, op.pc \notin {"checkpoint", "read"}
  PROVE  LET i == IndexOf(op.read.messages, op.at)
         IN  /\ op.read \in States /\ op.at \in IdsOf(op.read.messages)
             /\ i \in DOMAIN op.read.messages /\ i \in Nat
             /\ op.read.messages[i] \in Message /\ op.read.messages[i].id = op.at
<1>1. op.read \in States /\ op.at \in IdsOf(op.read.messages)
  BY OpFields DEF IInv, TypeOK, Cutting
<1> QED BY <1>1, IndexIsThere, InMessages

\* A rewind leaves the messages as they are, but where it removes or copies the
\* session state, cuts the history, or hands over the message it goes back to.
LEMMA RewindKeeps ==
  ASSUME IInv, RewindStep
  PROVE  \/ state' = Missing
         \/ /\ state # Missing /\ state'.messages = state.messages
            /\ state'.pending \in {state.pending, Missing}
         \/ PersistCut /\ state'.messages = Kept
         \/ CopyOne /\ op.kind = "restore" /\ state' = checkpoints[op.at].state
         \/ /\ Evict /\ op.kind = "turn"
            /\ state' = Append1(state, op.read.messages[IndexOf(op.read.messages, op.at)])
<1>1. state \in States \cup {Missing} /\ op \in Op
  BY DEF IInv, TypeOK
<1>2. CASE UNCHANGED state
  BY <1>2
<1>3. CASE PersistCut
  <2>1. op.read \in States
    BY <1>1, <1>3, OpFields DEF PersistCut, IInv, Cutting, Restoring, Idle
  <2> QED BY <1>3, <2>1 DEF PersistCut, States
<1>4. CASE Unmark \/ ApplyUpdates
  <2>1. state \in States
    <3>1. op.pc \in {"unmark", "apply"}
      BY <1>4 DEF Unmark, ApplyUpdates
    <3>2. CASE op.pc = "apply"
      BY <1>1, <3>2, RewindGoes DEF IInv, Cutting, Restoring
    <3>3. CASE op.pc = "unmark"
      BY <1>1, <3>3, RewindGoes DEF IInv, Cutting, Restoring
    <3> QED BY <3>1, <3>2, <3>3
  <2>2. \/ UNCHANGED state \/ state' = [state EXCEPT !.pending = Missing]
        \/ \E r : state' = [state EXCEPT !.record = r]
    BY <1>4 DEF Unmark, ApplyUpdates
  <2> QED BY <2>1, <2>2, Absent DEF States
<1>5. CASE ClearOne
  BY <1>2, <1>5 DEF ClearOne
<1>6. CASE CopyOne
  <2>1. op.pc = "copy" /\ op.kind = "restore"
    BY <1>1, <1>6 DEF CopyOne, IInv, Cutting, Idle, Op
  <2> QED BY <1>2, <1>6, <2>1 DEF CopyOne
<1>7. CASE Evict
  BY <1>2, <1>7 DEF Evict
<1>8. TakeCheckpoint \/ ReadSession \/ Unlink \/ ResetSummary \/ RemoveOne \/ Removed =>
        UNCHANGED state
  BY DEF TakeCheckpoint, ReadSession, Unlink, ResetSummary, RemoveOne, Removed, diskVars,
     WithSummary, Astray
<1> QED BY <1>2, <1>3, <1>4, <1>5, <1>6, <1>7, <1>8 DEF RewindStep

\* A rewind keeps the names apart.
LEMMA NoTwinsRewind ==
  ASSUME IInv, RewindStep
  PROVE  NoTwins'
<1>1. /\ state \in States \cup {Missing} /\ state' \in States \cup {Missing}
      /\ minted \in Nat /\ minted' = minted /\ op.read \in States \cup {Missing} /\ None = 0
  <2>1. state' \in States \cup {Missing} /\ minted' = minted
    BY RewindStepAlone, RewindStepType DEF FilesOK
  <2>2. op \in Op /\ minted \in Nat /\ state \in States \cup {Missing}
    BY BoundsAssumption DEF IInv, TypeOK
  <2> QED BY <2>1, <2>2, OpFields DEF None
<1>2. NoTwins
  BY DEF IInv, Level
<1>3. op.kind = "turn" /\ Evict =>
        LET msg == op.read.messages[IndexOf(op.read.messages, op.at)]
        IN  op.at <= minted /\ msg \in Message /\ msg.id <= minted /\ state \in States
  <2> SUFFICES ASSUME op.kind = "turn", Evict
               PROVE  LET msg == op.read.messages[IndexOf(op.read.messages, op.at)]
                      IN  op.at <= minted /\ msg \in Message /\ msg.id <= minted /\ state \in States
    OBVIOUS
  <2>1. op.pc = "evict"
    BY DEF Evict
  <2>2. op.read \in States /\ op.at \in IdsOf(op.read.messages) /\ state \in States
    BY <1>1, <2>1, WhatIsRead DEF IInv, Cutting
  <2>3. op.at \in 1..minted
    BY <1>2, <2>2, Absent DEF NoTwins, Minted
  <2> QED BY <1>1, <2>1, <2>2, <2>3, WhatIsRead
<1>4. turn'.id <= minted
  <2>1. Evict /\ turn' # turn =>
          \/ turn'.id = None
          \/ turn'.id = op.at /\ op.kind = "turn"
    BY DEF Evict, RoundAgain, IdleTurn
  <2> QED BY <1>1, <1>2, <1>3, <2>1, RewindStepAlone DEF NoTwins
<1>5. state' # Missing => Minted(state'.messages, minted)
  <2> SUFFICES ASSUME state' # Missing PROVE Minted(state'.messages, minted)
    OBVIOUS
  <2>1. CASE state # Missing /\ state'.messages = state.messages
    BY <1>2, <2>1 DEF NoTwins
  <2>2. CASE PersistCut /\ state'.messages = Kept
    <3>1. op.read \in States /\ op.at \in IdsOf(op.read.messages)
      BY <2>2, RewindGoes, WhatIsRead DEF PersistCut, IInv, Restoring
    <3>2. op.read.messages \in Seq(Message) /\ Minted(op.read.messages, minted)
      BY <1>2, <3>1, StateFields, Absent DEF NoTwins
    <3>3. Kept \in Seq(Message) /\ \A j \in DOMAIN Kept :
            j \in DOMAIN op.read.messages /\ Kept[j] = op.read.messages[j]
      BY <3>1, KeptType
    <3>4. Minted(Kept, minted)
      BY <1>1, <3>2, <3>3, PrefixInOrder
    <3> QED BY <2>2, <3>4
  <2>3. CASE CopyOne /\ op.kind = "restore" /\ state' = checkpoints[op.at].state
    BY <1>2, <2>3 DEF NoTwins, IInv, Restoring
  <2>4. CASE /\ Evict /\ op.kind = "turn"
             /\ state' = Append1(state, op.read.messages[IndexOf(op.read.messages, op.at)])
    <3> DEFINE msg == op.read.messages[IndexOf(op.read.messages, op.at)]
    <3>1. msg \in Message /\ msg.id <= minted /\ state \in States
      BY <1>3, <2>4
    <3>2. state' = Append1(state, msg)
      BY <2>4
    <3> HIDE DEF msg
    <3>3. Minted(state.messages, minted)
      BY <1>2, <3>1, Absent DEF NoTwins
    <3> QED BY <1>1, <3>1, <3>2, <3>3, AddedIsMinted
  <2> QED BY <2>1, <2>2, <2>3, <2>4, RewindKeeps
<1>6. op'.read # Missing => Minted(op'.read.messages, minted)
  <2>1. IdleOp.read = Missing
    BY DEF IdleOp
  <2> QED BY <1>2, <2>1, RewindGoes DEF NoTwins
<1>7. \A k \in DOMAIN checkpoints' :
        Readable(k)' => Minted(checkpoints'[k].state.messages, minted)
  <2>1. CASE UNCHANGED checkpoints
    BY <1>2, <2>1 DEF NoTwins, Readable
  <2>2. CASE TakeCheckpoint
    BY <1>2, <2>2, CheckpointTaken DEF NoTwins, Readable
  <2> QED BY <2>1, <2>2, RewindGoes
<1> QED BY <1>1, <1>4, <1>5, <1>6, <1>7 DEF NoTwins

\* The directories after one was removed, or put back.
LEMMA OneDirectory ==
  ASSUME NEW t \in TurnDirs, NEW k
  PROVE  /\ Dirs([t EXCEPT ![k] = Missing]) = Dirs(t) \ {k}
         /\ \A d : k \in TurnNo /\ d # Missing => Dirs([t EXCEPT ![k] = d]) = Dirs(t) \cup {k}
BY DEF Dirs, TurnDirs

\* What is left to do loses the one that was done.
LEMMA OneLeft ==
  ASSUME IInv, NEW c \in op.left, op'.left = op.left \ {c}
  PROVE  /\ c[1] = "turn" => LeftTurns' = LeftTurns \ {c[2]}
         /\ c[1] # "turn" => LeftTurns' = LeftTurns
<1>1. c \in Child
  BY OpFields DEF IInv, TypeOK
<1>2. c = <<c[1], c[2]>>
  BY <1>1 DEF Child
<1>3. \A k : <<"turn", k>> \in op'.left <=>
               <<"turn", k>> \in op.left /\ ~(c[1] = "turn" /\ c[2] = k)
  BY <1>2
<1> QED BY <1>3 DEF LeftTurns

\* The directories among the children of a session, and among those that a
\* truncation removes.
LEMMA TurnsAmong ==
  /\ \A s, b : \A t \in TurnDirs : \A k : <<"turn", k>> \in Children(s, t, b) <=> k \in Dirs(t)
  /\ \A k : <<"turn", k>> \in Doomed <=>
              k \in Dirs(turns) /\ (k > op.cut \/ (k = op.cut /\ op.kind = "turn"))
BY DEF Children, Doomed

\* A restore puts back what the checkpoint has.
LEMMA PutBackRewind ==
  ASSUME IInv, RewindStep
  PROVE  PutBack'
<1>1. /\ op \in Op /\ turns \in TurnDirs /\ state \in States \cup {Missing}
      /\ Restoring /\ PutBack /\ Backed
  BY DEF IInv, Level, TypeOK
<1>2. CASE Evict \/ op.kind # "restore"
  <2>1. op'.kind # "restore"
    BY <1>2, RewindGoes DEF IdleOp
  <2> QED BY <2>1 DEF PutBack
<1>3. CASE ~Evict /\ op.kind = "restore"
  <2> DEFINE c == checkpoints[op.at]
  <2>1. /\ op'.kind = "restore" /\ op'.at = op.at /\ checkpoints'[op.at] = c
        /\ c.state \in States /\ c.turns \in TurnDirs
    BY <1>1, <1>3, RewindGoes, CheckpointsStay, CheckpointHolds DEF Restoring
  <2>2. /\ op.pc = "clear" => Dirs(turns) = LeftTurns
        /\ op.pc = "copy" => Dirs(turns) \cup LeftTurns = Dirs(c.turns)
        /\ op.pc \in {"apply", "unmark", "unlink"} => Dirs(turns) = Dirs(c.turns)
        /\ op.pc \in {"copy", "apply", "unmark", "unlink"} /\ state # Missing =>
             state.messages = c.state.messages
    BY <1>1, <1>3 DEF PutBack
  <2> HIDE DEF c
  <2>3. PutBack' <=>
          /\ op'.pc = "clear" => Dirs(turns') = LeftTurns'
          /\ op'.pc = "copy" => Dirs(turns') \cup LeftTurns' = Dirs(c.turns)
          /\ op'.pc \in {"apply", "unmark", "unlink"} => Dirs(turns') = Dirs(c.turns)
          /\ op'.pc \in {"copy", "apply", "unmark", "unlink"} /\ state' # Missing =>
               state'.messages = c.state.messages
    BY <2>1 DEF PutBack
  <2>4. op.pc \in {"checkpoint", "clear", "copy", "apply", "unmark", "unlink", "evict"}
    BY <1>1, <1>3 DEF Restoring
  <2>5. CASE TakeCheckpoint
    <3>1. op'.pc = "clear" /\ op'.left = Children(state, turns, blob) /\ UNCHANGED turns
      BY <1>1, <1>3, <2>5 DEF TakeCheckpoint, Op, Astray
    <3>2. LeftTurns' = Dirs(turns)
      BY <1>1, <3>1, TurnsAmong, DirsType DEF LeftTurns
    <3> QED BY <2>3, <3>1, <3>2
  <2>6. CASE ClearOne
    <3>1. op.pc = "clear"
      BY <2>6 DEF ClearOne
    <3>2. ASSUME NEW x \in op.left, op' = [op EXCEPT !.left = @ \ {x}],
                 turns' = IF x[1] = "turn" THEN [turns EXCEPT ![x[2]] = Missing] ELSE turns
          PROVE  PutBack'
      <4>1. op'.pc = "clear" /\ op'.left = op.left \ {x}
        BY <1>1, <3>1, <3>2 DEF Op
      <4>2. CASE x[1] = "turn"
        <5>1. LeftTurns' = LeftTurns \ {x[2]}
          BY <4>1, <4>2, OneLeft
        <5>2. Dirs(turns') = Dirs(turns) \ {x[2]}
          BY <1>1, <3>2, <4>2, OneDirectory
        <5> QED BY <2>2, <2>3, <3>1, <4>1, <5>1, <5>2
      <4>3. CASE x[1] # "turn"
        <5>1. LeftTurns' = LeftTurns /\ UNCHANGED turns
          BY <3>2, <4>1, <4>3, OneLeft
        <5> QED BY <2>2, <2>3, <3>1, <4>1, <5>1
      <4> QED BY <4>2, <4>3
    <3>3. CASE /\ op.left = {} /\ UNCHANGED <<state, turns>>
               /\ op' = [op EXCEPT !.pc = "copy", !.left = Children(c.state, c.turns, c.blob)]
      <4>1. op'.pc = "copy" /\ op'.left = Children(c.state, c.turns, c.blob)
        BY <1>1, <3>3 DEF Op
      <4>2. state' = Missing
        BY <1>1, <3>1, <3>3 DEF Backed
      <4>3. LeftTurns = {}
        BY <3>3 DEF LeftTurns
      <4>4. LeftTurns' = Dirs(c.turns)
        BY <2>1, <4>1, TurnsAmong, DirsType DEF LeftTurns
      <4> QED BY <2>2, <2>3, <3>1, <3>3, <4>1, <4>2, <4>3, <4>4
    <3> QED BY <2>6, <3>2, <3>3 DEF ClearOne, c
  <2>7. CASE CopyOne
    <3>1. op.pc = "copy" /\ op.left \subseteq Children(c.state, c.turns, c.blob)
      BY <1>1, <1>3, <2>7 DEF CopyOne, Restoring, c
    <3>2. ASSUME NEW x \in op.left, op' = [op EXCEPT !.left = @ \ {x}],
                 state' = IF x[1] = "state" THEN c.state ELSE state,
                 turns' = IF x[1] = "turn" THEN [turns EXCEPT ![x[2]] = c.turns[x[2]]] ELSE turns
          PROVE  PutBack'
      <4>1. op'.pc = "copy" /\ op'.left = op.left \ {x}
        BY <1>1, <3>1, <3>2 DEF Op
      <4>2. state' # Missing => state'.messages = c.state.messages
        BY <2>2, <3>1, <3>2
      <4>3. CASE x[1] = "turn"
        <5>1. x[2] \in Dirs(c.turns)
          BY <3>1, <3>2, <4>3 DEF Children
        <5>2. x = <<"turn", x[2]>>
          BY <3>1, <3>2, <4>3 DEF Children
        <5>3. x[2] \in TurnNo /\ c.turns[x[2]] # Missing /\ x[2] \in LeftTurns
          BY <2>1, <3>2, <5>1, <5>2, DirsType DEF Dirs, LeftTurns
        <5>4. Dirs(turns') = Dirs(turns) \cup {x[2]}
          BY <1>1, <3>2, <4>3, <5>3, OneDirectory
        <5>5. LeftTurns' = LeftTurns \ {x[2]}
          BY <4>1, <4>3, OneLeft
        <5> QED BY <2>2, <2>3, <3>1, <4>1, <4>2, <5>3, <5>4, <5>5
      <4>4. CASE x[1] # "turn"
        <5>1. LeftTurns' = LeftTurns /\ UNCHANGED turns
          BY <3>2, <4>1, <4>4, OneLeft
        <5> QED BY <2>2, <2>3, <3>1, <4>1, <4>2, <5>1
      <4> QED BY <4>3, <4>4
    <3>3. CASE op.left = {} /\ op' = [op EXCEPT !.pc = "apply"] /\ UNCHANGED <<state, turns>>
      <4>1. op'.pc = "apply" /\ LeftTurns = {}
        BY <1>1, <3>3 DEF Op, LeftTurns
      <4> QED BY <2>2, <2>3, <3>1, <3>3, <4>1
    <3> QED BY <2>7, <3>2, <3>3 DEF CopyOne, c
  <2>8. CASE ApplyUpdates \/ Unmark \/ Unlink
    <3>1. UNCHANGED turns
      BY <2>8 DEF ApplyUpdates, Unmark, Unlink
    <3>2. /\ op.pc \in {"apply", "unmark", "unlink"}
          /\ op'.pc \in {"unmark", "unlink", "evict"}
      BY <1>1, <1>3, <2>8 DEF ApplyUpdates, Unmark, Unlink, Op
    <3>3. state' # Missing => state # Missing /\ state'.messages = state.messages
      BY <2>4, <3>2, RewindKeeps DEF PersistCut, CopyOne, Evict
    <3> QED BY <2>2, <2>3, <3>1, <3>2, <3>3
  <2> QED BY <1>3, <2>4, <2>5, <2>6, <2>7, <2>8
          DEF RewindStep, ReadSession, PersistCut, ResetSummary, RemoveOne, Removed, WithSummary
<1> QED BY <1>2, <1>3

\* What a truncation goes by while it goes on; the numbers it counts with.
LEMMA CutNumbers ==
  ASSUME IInv, op.kind \in {"turn", "round"}
  PROVE  /\ op.cut \in Nat /\ op.cut > 0 /\ LastKept \in Nat
         /\ op.kind = "turn" => LastKept = op.cut - 1
         /\ op.kind = "round" => LastKept = op.cut
         /\ \A k \in Nat : (k > op.cut \/ (k = op.cut /\ op.kind = "turn")) <=> k > LastKept
<1>1. op.cut \in Nat /\ op.cut > 0
  BY DEF IInv, TypeOK, Op, Level, CutInLine
<1> QED BY <1>1 DEF LastKept

\* The cut: what is kept of a history in line goes up to the turn where it cuts.
LEMMA CutAtTheTurn ==
  ASSUME IInv, PersistCut, Sound(flaws')
  PROVE  /\ Sound(flaws) /\ Ordered(Kept) /\ UpTo(Kept, op.cut)
         /\ Dirs(turns) = 1..Count(turns) /\ LastKept <= Count(turns)
<1> DEFINE ms == op.read.messages
           i == IndexOf(ms, op.at)
<1>1. op.pc = "persist" /\ op.kind \in {"turn", "round"} /\ turns \in TurnDirs
  BY RewindGoes DEF PersistCut, RewindStep, IInv, Restoring, TypeOK
<1>2. /\ op.read \in States /\ op.at \in IdsOf(ms) /\ i \in DOMAIN ms /\ i \in Nat
      /\ ms[i] \in Message /\ ms[i].id = op.at /\ ms \in Seq(Message)
  BY <1>1, WhatIsRead, StateFields
<1>3. Sound(flaws) /\ ms[i].turn # None
  BY DEF PersistCut, Sound
<1>4. op.read = state /\ state # Missing
  BY <1>1, <1>2, Absent DEF IInv, Backed
<1>5. InLine(state, turns)
  BY <1>1, <1>3, <1>4 DEF IInv, Level, Lined
<1>6. Clicked(ms)
  BY <1>1, <1>2, Absent DEF IInv, Level, CutInLine
<1>7. ms[i].turn = op.cut
  BY <1>1, <1>2, <1>3, <1>6 DEF Clicked
<1>8. /\ Kept \in Seq(Message)
      /\ \A j \in DOMAIN Kept : /\ Kept[j] = ms[j] /\ j \in DOMAIN ms /\ j <= i
  BY <1>2, KeptType
<1>9. Ordered(ms) /\ UpTo(ms, Count(turns) + 1) /\ Dirs(turns) = 1..Count(turns)
  BY <1>4, <1>5 DEF InLine
<1> HIDE DEF ms, i
<1>10. Ordered(Kept)
  BY <1>2, <1>8, <1>9, PrefixInOrder
<1>11. UpTo(Kept, op.cut)
  <2> SUFFICES ASSUME NEW j \in DOMAIN Kept PROVE Kept[j].turn <= op.cut
    BY DEF UpTo
  <2>1. j \in DOMAIN ms /\ j <= i /\ Kept[j] = ms[j]
    BY <1>8
  <2>2. CASE j = i
    BY <1>1, <1>7, <2>1, <2>2, CutNumbers
  <2>3. CASE j # i
    <3>1. j \in Nat
      BY <1>2, <2>1, InMessages DEF ms
    <3>2. j < i
      BY <1>2, <2>1, <2>3, <3>1
    <3> QED BY <1>2, <1>3, <1>7, <1>9, <2>1, <3>2 DEF Ordered
  <2> QED BY <2>2, <2>3
<1>12. LastKept <= Count(turns)
  <2>1. Count(turns) \in Nat
    BY <1>1, Counted
  <2>2. CASE op.kind = "turn"
    <3>1. op.cut <= Count(turns) + 1
      BY <1>2, <1>7, <1>9 DEF UpTo
    <3> QED BY <1>1, <2>1, <2>2, <3>1, CutNumbers
  <2>3. CASE op.kind = "round"
    <3>1. op.cut \in 1..Count(turns)
      BY <1>9, <2>3 DEF IInv, Housed
    <3> QED BY <1>1, <2>1, <2>3, <3>1, CutNumbers
  <2> QED BY <1>1, <2>2, <2>3
<1> QED BY <1>3, <1>9, <1>10, <1>11, <1>12

\* The directories that are left to remove are those after the last one kept.
LEMMA LeftAreLater ==
  ASSUME IInv, op.kind \in {"turn", "round"}, Dirs(turns) = 1..Count(turns),
         LastKept <= Count(turns), op'.left = Doomed
  PROVE  Dirs(turns) = 1..LastKept \cup LeftTurns'
<1>1. turns \in TurnDirs /\ Count(turns) \in Nat
  BY Counted DEF IInv, TypeOK
<1>2. \A k : k \in LeftTurns' <=> k \in Dirs(turns) /\ (k > op.cut \/ (k = op.cut /\ op.kind = "turn"))
  <2>1. \A k : <<"turn", k>> \in op'.left <=>
                 k \in Dirs(turns) /\ (k > op.cut \/ (k = op.cut /\ op.kind = "turn"))
    BY TurnsAmong
  <2> QED BY <1>1, <2>1, DirsType DEF LeftTurns
<1>3. \A k : k \in LeftTurns' <=> k \in 1..Count(turns) /\ k > LastKept
  BY <1>1, <1>2, CutNumbers
<1>4. LastKept \in Nat
  BY CutNumbers
<1> HIDE DEF LastKept
<1> QED BY <1>1, <1>3, <1>4

\* A removal removes one that is left.
LEMMA OneRemoved ==
  ASSUME IInv, RemoveOne, op.kind \in {"turn", "round"},
         Dirs(turns) = 1..LastKept \cup LeftTurns
  PROVE  Dirs(turns') = 1..LastKept \cup LeftTurns'
<1>1. turns \in TurnDirs /\ op \in Op /\ op.left \subseteq Doomed
  BY DEF RemoveOne, IInv, TypeOK, Cutting
<1>2. PICK c \in op.left :
        /\ turns' = IF c[1] = "turn" THEN [turns EXCEPT ![c[2]] = Missing]
                    ELSE [turns EXCEPT ![op.cut].rounds[c[2]] = Missing]
        /\ op' = [op EXCEPT !.left = @ \ {c}]
  BY DEF RemoveOne
<1>3. op'.left = op.left \ {c} /\ c \in Doomed
  BY <1>1, <1>2 DEF Op
<1>4. CASE c[1] = "turn"
  <2>1. Dirs(turns') = Dirs(turns) \ {c[2]} /\ LeftTurns' = LeftTurns \ {c[2]}
    BY <1>1, <1>2, <1>3, <1>4, OneDirectory, OneLeft
  <2>2. c = <<"turn", c[2]>>
    BY <1>3, <1>4 DEF Doomed
  <2>3. c[2] \in Nat /\ c[2] > LastKept
    <3>1. c[2] \in Dirs(turns) /\ (c[2] > op.cut \/ (c[2] = op.cut /\ op.kind = "turn"))
      BY <1>3, <2>2, TurnsAmong
    <3> QED BY <1>1, <3>1, CutNumbers, DirsType DEF TurnNo
  <2>4. c[2] \notin 1..LastKept
    BY <2>3, CutNumbers
  <2> QED BY <2>1, <2>4
<1>5. CASE c[1] # "turn"
  <2>1. PICK q \in Dirs(turns[op.cut].rounds) :
          op.cut \in Dirs(turns) /\ c = <<"round", q>>
    BY <1>3, <1>5 DEF Doomed
  <2>2. turns[op.cut].rounds \in [RoundNo -> RoundDir \cup {Missing}] /\ q \in RoundNo
    BY <1>1, <2>1, TurnDirFields, DirsType DEF Dirs
  <2>3. ASSUME NEW n \in Dirs(turns), NEW r \in RoundNo, NEW e \in RoundDir \cup {Missing},
               turns' = [turns EXCEPT ![n].rounds[r] = e]
        PROVE  Dirs(turns') = Dirs(turns)
    <3> DEFINE u == [turns EXCEPT ![n].rounds[r] = e]
    <3>1. Dirs(u) = Dirs(turns) /\ u[n].rounds = [turns[n].rounds EXCEPT ![r] = e]
      BY <1>1, RoundSet
    <3>2. turns' = u
      BY <2>3
    <3> HIDE DEF u
    <3> QED BY <3>1, <3>2
  <2>4. Dirs(turns') = Dirs(turns)
    BY <1>2, <1>5, <2>1, <2>2, <2>3
  <2>5. LeftTurns' = LeftTurns
    BY <1>3, <1>5, OneLeft
  <2> QED BY <2>4, <2>5
<1> QED BY <1>4, <1>5

\* A truncation brings the history and the directories in line again.
LEMMA CutInLineRewind ==
  ASSUME IInv, RewindStep
  PROVE  CutInLine'
<1>1. op \in Op /\ turns \in TurnDirs /\ Cutting /\ CutInLine
  BY DEF IInv, Level, TypeOK
<1>2. CASE Evict \/ op.kind = "restore"
  <2>1. op'.kind \notin {"turn", "round"}
    BY <1>2, RewindGoes DEF IdleOp
  <2> QED BY <2>1 DEF CutInLine
<1>3. CASE ~Evict /\ op.kind # "restore"
  <2>1. /\ op.kind \in {"turn", "round"} /\ op'.kind = op.kind /\ op'.cut = op.cut
        /\ op'.at = op.at
    BY <1>3, RewindGoes
  <2>2. /\ op.pc \in {"checkpoint", "read", "persist", "unmark", "unlink", "summary", "remove",
                      "evict"}
        /\ state # Missing /\ state \in States
    BY <1>1, <2>1 DEF Cutting, IInv, TypeOK
  <2>3. op.cut > 0 /\ Clicked(state.messages) /\ (op.read # Missing => Clicked(op.read.messages))
    BY <1>1, <2>1 DEF CutInLine
  <2>4. Sound(flaws) /\ op.pc \in {"unmark", "unlink", "summary", "remove"} =>
          /\ Ordered(state.messages) /\ UpTo(state.messages, op.cut)
          /\ op.pc # "unmark" => state.pending = Missing
          /\ op.pc = "remove" => Dirs(turns) = 1..LastKept \cup LeftTurns
          /\ op.pc # "remove" => Dirs(turns) = 1..Count(turns) /\ LastKept <= Count(turns)
    BY <1>1, <2>1 DEF CutInLine
  <2>5. LastKept' = LastKept
    BY <2>1 DEF LastKept
  <2>6. (op'.left = op.left => LeftTurns' = LeftTurns) /\ (op.left = {} => LeftTurns = {})
    BY DEF LeftTurns
  <2>7. state'.messages = IF PersistCut THEN Kept ELSE state.messages
    <3>1. state' # Missing
      BY <2>1, CuttingStep DEF Cutting
    <3>2. CASE ~PersistCut
      BY <1>3, <2>1, <3>1, <3>2, RewindKeeps
    <3>3. CASE PersistCut
      <4>1. op.pc = "persist"
        BY <3>3 DEF PersistCut
      <4>2. op.read \in States
        BY <2>1, <4>1, WhatIsRead
      <4> QED BY <3>3, <4>2 DEF PersistCut, States
    <3> QED BY <3>2, <3>3
  <2>8. Clicked(state.messages)'
    <3>1. CASE ~PersistCut
      BY <2>1, <2>3, <2>7, <3>1 DEF Clicked
    <3>2. CASE PersistCut
      <4>1. op.pc = "persist"
        BY <3>2 DEF PersistCut
      <4>2. op.read \in States /\ op.at \in IdsOf(op.read.messages)
        BY <2>1, <4>1, WhatIsRead
      <4>3. \A j \in DOMAIN Kept : j \in DOMAIN op.read.messages /\ Kept[j] = op.read.messages[j]
        BY <4>2, KeptType
      <4>4. Clicked(op.read.messages) /\ state'.messages = Kept
        BY <2>3, <2>7, <3>2, <4>2, Absent
      <4> QED BY <2>1, <4>3, <4>4 DEF Clicked
    <3> QED BY <3>1, <3>2
  <2>9. op'.read # Missing => Clicked(op.read.messages)'
    BY <1>3, <2>1, <2>2, <2>3, RewindGoes DEF Clicked
  <2> DEFINE Brought(pc) ==
               /\ Ordered(state'.messages) /\ UpTo(state'.messages, op.cut)
               /\ pc # "unmark" => state'.pending = Missing
               /\ IF pc \in {"remove", "evict"} THEN Dirs(turns') = 1..LastKept \cup LeftTurns'
                  ELSE Dirs(turns') = 1..Count(turns') /\ LastKept <= Count(turns')
               /\ pc = "evict" => op'.left = {}
  <2>10. SUFFICES ASSUME Sound(flaws'),
                         op'.pc \in {"unmark", "unlink", "summary", "remove", "evict"}
                  PROVE  Brought(op'.pc)
    BY <2>1, <2>3, <2>5, <2>8, <2>9 DEF CutInLine
  <2> HIDE DEF LastKept, LeftTurns
  <2>11. CASE PersistCut
    <3>1. op'.pc = "unmark" /\ UNCHANGED turns
      BY <1>1, <2>11 DEF PersistCut, Op
    <3> QED BY <2>7, <2>10, <2>11, <3>1, CutAtTheTurn
  <2>12. CASE Unmark
    <3>1. /\ op.pc = "unmark" /\ op'.pc = "unlink" /\ UNCHANGED <<turns, flaws>>
          /\ state'.pending = Missing
      BY <1>1, <2>2, <2>12 DEF Unmark, Op, States
    <3> QED BY <2>4, <2>7, <2>10, <2>12, <3>1 DEF PersistCut
  <2>13. CASE Unlink
    <3>1. /\ op.pc = "unlink" /\ UNCHANGED <<turns, state, flaws>>
          /\ op.kind = "turn" => op'.pc = "remove" /\ op'.left = Doomed
          /\ op.kind = "round" => op'.pc = "summary"
      BY <1>1, <1>3, <2>13 DEF Unlink, Op
    <3>2. op.kind = "turn" => Dirs(turns) = 1..LastKept \cup LeftTurns'
      BY <2>1, <2>4, <2>10, <3>1, LeftAreLater
    <3> QED BY <2>1, <2>4, <2>10, <3>1, <3>2
  <2>14. CASE ResetSummary
    <3>1. /\ op.pc = "summary" /\ UNCHANGED <<state, flaws>>
          /\ op'.pc = "remove" /\ op'.left = Doomed
      BY <1>1, <2>14 DEF ResetSummary, Op, WithSummary
    <3>2. Dirs(turns) = 1..LastKept \cup LeftTurns'
      BY <2>1, <2>4, <2>10, <3>1, LeftAreLater
    <3>3. Dirs(turns') = Dirs(turns)
      BY <1>3, <2>1, <2>14, RewindGoes, DoomedStay
    <3> QED BY <2>4, <2>10, <3>1, <3>2, <3>3
  <2>15. CASE RemoveOne
    <3>1. op.pc = "remove" /\ op'.pc = "remove" /\ UNCHANGED <<state, flaws>>
      BY <1>1, <2>15 DEF RemoveOne, Op
    <3>2. Dirs(turns') = 1..LastKept \cup LeftTurns'
      BY <2>1, <2>4, <2>10, <2>15, <3>1, OneRemoved
    <3> QED BY <2>4, <2>10, <3>1, <3>2
  <2>16. CASE Removed
    <3>1. /\ op.pc = "remove" /\ op'.pc = "evict" /\ UNCHANGED <<state, turns, flaws>>
          /\ op.left = {} /\ op'.left = {}
      BY <1>1, <2>16 DEF Removed, Op, diskVars
    <3> QED BY <2>4, <2>6, <2>10, <3>1
  <2>17. ~TakeCheckpoint /\ ~ReadSession
    <3>1. TakeCheckpoint => op'.pc = "read"
      BY <1>1, <1>3 DEF TakeCheckpoint, Op, Astray
    <3>2. ReadSession => op'.pc = "persist"
      BY <1>1 DEF ReadSession, Op
    <3> QED BY <2>10, <3>1, <3>2
  <2> QED BY <1>3, <2>2, <2>11, <2>12, <2>13, <2>14, <2>15, <2>16, <2>17
          DEF RewindStep, ClearOne, CopyOne, ApplyUpdates
<1> QED BY <1>2, <1>3

\* The end of a rewind hands over to a turn which is the last one, or the one to be.
LEMMA LastTurnRewind ==
  ASSUME IInv, RewindStep
  PROVE  LastTurn'
<1>1. turn.pc = "idle" /\ (~Evict => UNCHANGED turn)
  BY RewindStepAlone
<1>2. CASE ~Evict \/ op.kind = "restore"
  <2>1. turn'.pc = "idle"
    BY <1>1, <1>2 DEF Evict
  <2> QED BY <2>1 DEF LastTurn
<1>3. CASE Evict /\ op.kind # "restore"
  <2> SUFFICES ASSUME Sound(flaws') PROVE LastTurn'
    BY DEF LastTurn
  <2>1. /\ op.kind \in {"turn", "round"} /\ op.pc = "evict"
        /\ UNCHANGED <<turns, checkpoints, flaws>> /\ None = 0
    BY <1>3, RewindGoes DEF None
  <2>2. turns \in TurnDirs /\ state \in States /\ state # Missing
    BY <2>1 DEF IInv, TypeOK, Cutting
  <2>3. /\ op.cut > 0 /\ Clicked(state.messages) /\ Clicked(op.read.messages)
        /\ Ordered(state.messages) /\ UpTo(state.messages, op.cut) /\ state.pending = Missing
        /\ Dirs(turns) = 1..LastKept \cup LeftTurns /\ op.left = {}
    BY <2>1, WhatIsRead, Absent DEF IInv, Level, CutInLine
  <2>4. Dirs(turns) = 1..LastKept
    BY <2>3 DEF LeftTurns
  <2>5. Count(turns) = LastKept /\ op.cut \in Nat
    BY <2>1, <2>2, <2>4, Counted, CutNumbers
  <2>6. CASE op.kind = "round"
    <3>1. turn'.pc = "seeded" /\ turn'.n = op.cut /\ UNCHANGED state
      BY <1>3, <2>6 DEF Evict, RoundAgain, IdleTurn
    <3>2. turn'.n = Count(turns') /\ UpTo(state'.messages, turn'.n)
      BY <2>1, <2>3, <2>5, <2>6, <3>1, CutNumbers
    <3>3. turn'.n # None
      BY <2>1, <2>3, <3>1
    <3> QED BY <3>1, <3>2, <3>3 DEF LastTurn
  <2>7. CASE op.kind = "turn"
    <3> DEFINE msg == op.read.messages[IndexOf(op.read.messages, op.at)]
    <3>1. /\ turn'.pc = "stamped" /\ turn'.n = None /\ turn'.id = op.at
          /\ state' = Append1(state, msg)
      BY <1>3, <2>7 DEF Evict, IdleTurn
    <3>2. NextTurn' = op.cut
      BY <2>1, <2>5, <2>7, CutNumbers DEF NextTurn, Count
    <3>3. msg \in Message /\ msg.turn \in {None, op.cut}
      BY <2>1, <2>3, <2>7, WhatIsRead DEF Clicked
    <3> HIDE DEF msg
    <3>4. state'.pending = Missing
      BY <2>2, <2>3, <3>1, <3>3, Appended
    <3>5. ASSUME NEW m \in Range(state'.messages), m.id = op.at PROVE m.turn \in {None, op.cut}
      <4>1. PICK i \in DOMAIN state'.messages : m = state'.messages[i]
        BY DEF Range
      <4>2. CASE i \in DOMAIN state.messages
        <5>1. m = state.messages[i]
          BY <2>2, <3>1, <3>3, <4>1, <4>2, Appended
        <5> QED BY <2>3, <2>7, <3>5, <4>2, <5>1 DEF Clicked
      <4>3. CASE i \notin DOMAIN state.messages
        <5>1. m = msg
          BY <2>2, <3>1, <3>3, <4>1, <4>3, Appended
        <5> QED BY <3>3, <5>1
      <4> QED BY <4>2, <4>3
    <3> QED BY <3>1, <3>2, <3>4, <3>5 DEF LastTurn
  <2> QED BY <2>1, <2>6, <2>7
<1> QED BY <1>2, <1>3

\* A rewind leaves the history in line with the directories.
LEMMA LinedRewind ==
  ASSUME IInv, RewindStep
  PROVE  Lined'
<1>1. /\ op \in Op /\ turns \in TurnDirs /\ state \in States \cup {Missing} /\ None = 0
      /\ Lined /\ Cutting /\ Restoring /\ CutInLine /\ PutBack
  BY DEF IInv, Level, TypeOK, None
<1>2. \A k \in DOMAIN checkpoints' :
        Readable(k)' /\ Sound(checkpoints'[k].flaws) =>
        InLine(checkpoints'[k].state, checkpoints'[k].turns)
  <2>1. CASE UNCHANGED checkpoints
    BY <1>1, <2>1 DEF Lined, Readable
  <2>2. CASE TakeCheckpoint
    <3>1. op.pc = "checkpoint"
      BY <2>2 DEF TakeCheckpoint, Astray
    <3>2. Sound(flaws) /\ state # Missing => InLine(state, turns)
      BY <1>1, <3>1 DEF Lined
    <3> QED BY <1>1, <2>2, <3>2, CheckpointTaken DEF Lined, Readable, Sound
  <2> QED BY <2>1, <2>2, RewindGoes
<1>3. SUFFICES ASSUME Sound(flaws'), state' # Missing,
                      op'.pc \in {"idle", "checkpoint", "read", "persist", "evict"}
               PROVE  InLine(state', turns')
  BY <1>2 DEF Lined
<1>4. CASE TakeCheckpoint \/ ReadSession
  <2>1. op.pc \in {"checkpoint", "read"} /\ UNCHANGED <<state, turns, flaws>>
    BY <1>4 DEF TakeCheckpoint, ReadSession, diskVars, Astray
  <2> QED BY <1>1, <1>3, <2>1 DEF Lined
<1>5. CASE Unlink
  <2>1. op.pc = "unlink" /\ UNCHANGED <<state, turns, checkpoints>>
    BY <1>5 DEF Unlink
  <2>2. op.kind = "restore"
    <3>1. op.kind = "turn" => op'.pc = "remove"
      BY <1>1, <1>5 DEF Unlink, Op
    <3>2. op.kind = "round" => op'.pc = "summary"
      BY <1>1, <1>5 DEF Unlink, Op
    <3> QED BY <1>3, <3>1, <3>2, RewindGoes
  <2> DEFINE c == checkpoints[op.at]
  <2>3. Readable(op.at) /\ op.at \in DOMAIN checkpoints /\ Sound(c.flaws)
        /\ state # Missing /\ state.pending = Missing
    BY <1>1, <1>3, <1>5, <2>1, <2>2 DEF Restoring, Unlink, Sound
  <2>4. InLine(c.state, c.turns)
    BY <1>1, <2>3 DEF Lined
  <2>5. Dirs(turns) = Dirs(c.turns) /\ state.messages = c.state.messages
    BY <1>1, <2>1, <2>2, <2>3 DEF PutBack
  <2>6. Count(turns) = Count(c.turns)
    BY <2>5 DEF Count
  <2> QED BY <2>1, <2>3, <2>4, <2>5, <2>6 DEF InLine
<1>6. CASE Removed \/ Evict
  <2>1. /\ op.pc \in {"remove", "evict"} /\ UNCHANGED <<turns, flaws>>
        /\ Removed => op.left = {} /\ UNCHANGED state
    BY <1>6 DEF Removed, Evict, diskVars
  <2>2. CASE op.kind = "restore"
    <3>1. UNCHANGED state /\ op.pc = "evict"
      BY <1>1, <1>6, <2>1, <2>2 DEF Evict, Restoring
    <3> QED BY <1>1, <1>3, <2>1, <3>1 DEF Lined
  <2>3. CASE op.kind \in {"turn", "round"}
    <3>1. /\ Ordered(state.messages) /\ UpTo(state.messages, op.cut) /\ state.pending = Missing
          /\ Dirs(turns) = 1..LastKept \cup LeftTurns /\ op.left = {}
          /\ state \in States /\ state # Missing
      BY <1>1, <1>3, <2>1, <2>3, <1>6 DEF CutInLine, Removed, Cutting, Evict
    <3>2. Dirs(turns) = 1..LastKept
      BY <3>1 DEF LeftTurns
    <3>3. Count(turns) = LastKept /\ op.cut \in Nat /\ op.cut <= LastKept + 1
      BY <1>1, <2>3, <3>2, Counted, CutNumbers
    <3>4. /\ Ordered(state'.messages) /\ UpTo(state'.messages, op.cut)
          /\ state'.messages \in Seq(Message) /\ state'.pending = Missing
      <4>1. CASE UNCHANGED state
        BY <3>1, <4>1, StateFields
      <4>2. CASE Evict /\ op.kind = "turn"
        <5> DEFINE msg == op.read.messages[IndexOf(op.read.messages, op.at)]
        <5>1. state' = Append1(state, msg) /\ op.pc = "evict"
          BY <4>2 DEF Evict
        <5>2. msg \in Message /\ msg.turn \in {None, op.cut}
          <6>1. op.read # Missing /\ Clicked(op.read.messages)
            BY <1>1, <4>2, <5>1, WhatIsRead, Absent DEF CutInLine
          <6> QED BY <4>2, <5>1, <6>1, WhatIsRead DEF Clicked
        <5> HIDE DEF msg
        <5>3. msg.turn <= op.cut /\ (msg.turn # None => UpTo(state.messages, msg.turn))
          BY <1>1, <3>1, <3>3, <5>2
        <5>4. Ordered(state'.messages) /\ UpTo(state'.messages, op.cut)
          BY <3>1, <3>3, <5>1, <5>2, <5>3, AddedInOrder
        <5>5. state' \in States /\ state'.pending = Missing
          BY <3>1, <5>1, <5>2, AppendedType, Appended
        <5> QED BY <5>4, <5>5, StateFields
      <4>3. Evict => UNCHANGED state \/ op.kind = "turn"
        BY DEF Evict
      <4> QED BY <1>6, <2>1, <4>1, <4>2, <4>3
    <3>5. UpTo(state'.messages, Count(turns) + 1)
      BY <2>3, <3>3, <3>4, CutNumbers, Stamps
    <3> QED BY <2>1, <3>2, <3>3, <3>4, <3>5 DEF InLine
  <2> QED BY <2>2, <2>3, RewindGoes
<1>7. ~(PersistCut \/ Unmark \/ ResetSummary \/ RemoveOne \/ ClearOne \/ CopyOne \/ ApplyUpdates)
  <2>1. PersistCut \/ Unmark \/ ResetSummary \/ ApplyUpdates =>
          op'.pc \in {"unmark", "unlink", "remove"}
    BY <1>1 DEF PersistCut, Unmark, ResetSummary, ApplyUpdates, Op, WithSummary
  <2>2. RemoveOne \/ ClearOne \/ CopyOne => op'.pc \in {"remove", "clear", "copy", "apply"}
    BY <1>1 DEF RemoveOne, ClearOne, CopyOne, Op
  <2> QED BY <1>3, <2>1, <2>2
<1> QED BY <1>4, <1>5, <1>6, <1>7 DEF RewindStep

\* A rewind keeps all of it.
LEMMA LevelRewind ==
  ASSUME IInv, RewindStep
  PROVE  Level'
BY NoTwinsRewind, LinedRewind, LastTurnRewind, CutInLineRewind, PutBackRewind DEF Level

\* A stamped message gets its turn from the step that makes the directory.
LEMMA StampedIsSeeded ==
  ASSUME IInv, TurnStep, turn.pc = "stamped", turn'.pc = "seeded"
  PROVE  Seed
<1>1. turn \in Turn
  BY DEF IInv, TypeOK
<1>2. ~(Stamp \/ UnlinkBlob \/ BeginRound \/ SaveRound \/ CommitBubble \/ Summarise \/ Tools
        \/ WriteBlob \/ WriteMarker \/ Answer \/ AnswerFromHub \/ Finish \/ Stop \/ SaveFailed
        \/ ReportFailure \/ LeaveFailed \/ StopReporting \/ Send \/ RecoverWidget \/ ExpireWidget)
  BY DEF Stamp, UnlinkBlob, BeginRound, SaveRound, CommitBubble, Summarise, Tools, WriteBlob,
     WriteMarker, Answer, AnswerFromHub, Finish, Stop, SaveFailed, ReportFailure, LeaveFailed,
     StopReporting, Send, RecoverWidget, ExpireWidget, At, Quiet, Stoppable, WithSummary
<1>3. ~(StopEarly \/ Fail \/ FailEarly)
  BY <1>1 DEF StopEarly, Fail, FailEarly, Go, IdleTurn, Turn
<1> QED BY <1>2, <1>3 DEF TurnStep

-----------------------------------------------------------------------------
(* The invariant.                                                          *)

\* The sets of steps of the next-state relation.
LEMMA Steps ==
  ASSUME Next
  PROVE  (TurnStep \/ RewindStep \/ Event) /\ Displayed
BY DEF Next, Event, Displayed

\* It holds of a session as create_session leaves it.
LEMMA Start ==
  ASSUME Init
  PROVE  IInv
<1> USE DEF Init, None
<1>1. PICK b \in {"classic", "native"} :
        state = [messages |-> <<>>, sop |-> {}, pending |-> Missing,
                 record |-> Missing, backend |-> b]
  OBVIOUS
<1>2. MaxId \in Nat /\ MaxFault \in Nat
  BY BoundsAssumption
<1>3. state \in States /\ state # Missing
  <2>1. state \in States
    BY <1>1 DEF States
  <2> QED BY <2>1, Absent
<1>4. turns \in TurnDirs
  BY DEF TurnDirs
<1>5. checkpoints \in Seq(Checkpoint) /\ vendor \in Seq(Memory)
  OBVIOUS
<1>6. turn \in Turn /\ op \in Op /\ ending \in BOOLEAN
  BY IdleTypes
<1>7. minted \in 0..MaxId /\ shown \subseteq 1..minted /\ faults \in 0..MaxFault
  BY <1>2
<1>8. flaws \subseteq Flaws /\ blob \in Widgets \cup {Missing}
      /\ live \in [sop : SUBSET Id] \cup {Missing}
  OBVIOUS
<1>9. TypeOK
  BY <1>3, <1>4, <1>5, <1>6, <1>7, <1>8, Zenon DEF TypeOK
<1>10. Exclusive /\ Numbered /\ Housed /\ Idle /\ Cutting /\ Restoring
  BY <1>3 DEF Exclusive, Numbered, Housed, Idle, Cutting, Restoring, IdleTurn, IdleOp,
     BeforeItBegins,
              InARound
<1>11. Backed
  BY DEF Backed, IdleOp
<1>12. Generations
  BY <1>1 DEF Generations, HasGen, IdleOp
<1>13. Unshown
  BY <1>1 DEF Unshown, Slot, IdleTurn, InARound
<1>14. Level
  <2>1. state.messages = <<>> /\ state.pending = Missing /\ IdleTurn.id = 0 /\ IdleTurn.pc = "idle"
    BY <1>1 DEF IdleTurn
  <2>2. IdleOp.kind = "none" /\ IdleOp.read = Missing
    BY DEF IdleOp
  <2>3. Dirs(turns) = 1..0
    BY DEF Dirs
  <2>4. Count(turns) = 0
    BY <1>4, <2>3, Counted
  <2>5. NoTwins
    BY <2>1, <2>2 DEF NoTwins, Minted, Distinct, IdsOf
  <2>6. Lined
    BY <2>1, <2>3, <2>4 DEF Lined, InLine, Ordered, UpTo
  <2> QED BY <2>1, <2>2, <2>5, <2>6 DEF Level, LastTurn, CutInLine, PutBack
<1> QED BY <1>9, <1>10, <1>11, <1>12, <1>13, <1>14 DEF IInv

\* The invariant is inductive: every operation, a crash at any point of one
\* included, leads from a state that satisfies it to one that does.
THEOREM Invariance == Spec => []IInv
<1>1. Init => IInv
  BY Start
<1>2. ASSUME IInv, Next PROVE IInv'
  <2>1. TurnStep \/ RewindStep \/ Event
    BY <1>2, Steps
  <2>2. Displayed
    BY <1>2, Steps
  <2>3. FilesOK'
    BY <1>2, <2>1, TurnStepType, RewindStepType, EventType DEF Event
  <2>4. Unshown' /\ shown' \subseteq 1..minted'
    BY <1>2, <2>1, <2>2, UnshownStep
  <2>5. TypeOK'
    BY <2>3, <2>4 DEF FilesOK, TypeOK
  <2>6. Exclusive' /\ Numbered' /\ Housed' /\ Idle' /\ Cutting'
    BY <1>2, <2>1, ExclusiveStep, NumberedStep, HousedStep, IdleStep, CuttingStep
  <2>7. Restoring' /\ Backed' /\ Generations'
    BY <1>2, <2>1, RestoringStep, BackedStep, GenerationsStep
  <2>8. Level'
    BY <1>2, <2>1, LevelTurn, LevelRewind, LevelLoop, LevelClick, LevelCrash DEF Event
  <2> QED BY <2>4, <2>5, <2>6, <2>7, <2>8 DEF IInv
<1>3. ASSUME IInv, UNCHANGED vars PROVE IInv'
  <2> USE <1>3 DEF vars, diskVars, memVars, histVars
  <2>1. TypeOK' /\ Exclusive' /\ Numbered' /\ Housed' /\ Idle'
    BY DEF IInv, TypeOK, Exclusive, Numbered, Housed, Idle
  <2>2. Cutting' /\ Restoring'
    <3>1. Doomed' = Doomed
      BY DEF Doomed
    <3>2. \A k : Readable(k)' = Readable(k)
      BY DEF Readable
    <3> QED BY <3>1, <3>2 DEF IInv, Cutting, Restoring
  <2>3. Backed' /\ Generations'
    <3>1. Newest' = Newest
      BY DEF Newest
    <3>2. \A r : HasGen(r)' = HasGen(r)
      BY DEF HasGen
    <3> QED BY <3>1 DEF IInv, Backed, Generations, HasGen, Readable
  <2>4. Unshown'
    <3>1. Slot' = Slot
      BY DEF Slot
    <3> QED BY <3>1 DEF IInv, Unshown
  <2>5. Level'
    <3>1. NoTwins' /\ Lined'
      BY DEF IInv, Level, NoTwins, Lined, Readable
    <3>2. LastTurn'
      BY DEF IInv, Level, LastTurn, NextTurn
    <3>3. LastKept' = LastKept /\ LeftTurns' = LeftTurns /\ Clicked(state.messages)' = Clicked(state.messages)
      BY DEF LastKept, LeftTurns, Clicked
    <3>4. Clicked(op.read.messages)' = Clicked(op.read.messages)
      BY DEF Clicked
    <3>5. CutInLine'
      BY <3>3, <3>4 DEF IInv, Level, CutInLine
    <3>6. PutBack'
      BY <3>3 DEF IInv, Level, PutBack
    <3> QED BY <3>1, <3>2, <3>5, <3>6 DEF Level
  <2> QED BY <2>1, <2>2, <2>3, <2>4, <2>5 DEF IInv
<1>4. IInv /\ [Next]_vars => IInv'
  BY <1>2, <1>3
<1> QED BY <1>1, <1>4, PTL DEF Spec

\* A turn gets a directory that was not there, and the number that its message
\* was stamped with: stamps and directories are in line in every session that no
\* crash left between two halves of a rewind and no cut was guessed in.
THEOREM FreshTurns == Spec => FreshTurnIsNew
<1> DEFINE Fresh == flaws \subseteq {"rerun", "behind"} /\ turn.pc = "stamped" /\ turn'.pc = "seeded" =>
                      /\ turn'.n \notin Dirs(turns)
                      /\ \A m \in Range(state.messages) : m.id = turn.id => m.turn \in {None, turn'.n}
<1>1. ASSUME IInv, [Next]_vars PROVE Fresh
  <2> SUFFICES ASSUME Sound(flaws), turn.pc = "stamped", turn'.pc = "seeded"
               PROVE  /\ turn'.n \notin Dirs(turns)
                      /\ \A m \in Range(state.messages) :
                           m.id = turn.id => m.turn \in {None, turn'.n}
    BY DEF Sound
  <2>1. Next
    BY <1>1 DEF vars, memVars
  <2>2. /\ turn \in Turn /\ turns \in TurnDirs /\ op.pc = "idle" /\ state # Missing
        /\ Lined /\ LastTurn
    BY <1>1 DEF IInv, Level, TypeOK, Exclusive
  <2>3. Seed
    <3>1. ~RewindStep /\ ~Clicks /\ ~Crash
      BY <1>1, RewindStepAlone, ClickAlone DEF Crash, IdleTurn
    <3>2. ~(RestMessage \/ SetBackend \/ EndVendorSession)
      BY <1>1, LoopSays
    <3>3. TurnStep
      BY <2>1, <3>1, <3>2, Steps DEF Event
    <3> QED BY <1>1, <2>2, <3>3, StampedIsSeeded
  <2>4. turn'.n = NextTurn
    BY <2>2, <2>3 DEF Seed, Turn
  <2>5. NextTurn = Count(turns) + 1 /\ Count(turns) \in Nat
    BY <2>2, Counted DEF NextTurn, Count
  <2>6. Dirs(turns) = 1..Count(turns)
    BY <2>2 DEF Lined, InLine
  <2>7. turn'.n \notin Dirs(turns)
    BY <2>4, <2>5, <2>6
  <2>8. \A m \in Range(state.messages) : m.id = turn.id => m.turn \in {None, turn'.n}
    BY <2>2, <2>4 DEF LastTurn
  <2> QED BY <2>7, <2>8
<1>2. IInv /\ [Next]_vars => [Fresh]_vars
  BY <1>1
<1> QED BY <1>2, Invariance, PTL DEF Spec, FreshTurnIsNew

\* The files, the turn and the rewind keep their types.
THEOREM TypeCorrect == Spec => []TypeOK
<1>1. IInv => TypeOK
  BY DEF IInv
<1> QED BY <1>1, Invariance, PTL

\* The two files keep the promise of the slot (WidgetSlot): a widget is put into
\* it once, stays until it is answered, dropped or replaced, and never comes
\* back, whatever is rewound or restored, and wherever the process dies.
THEOREM SlotImplemented == Spec => ImplementsSlot
<1>1. Init => Promise!Init
  BY DEF Init, Promise!Init, Promise!NoWidget, Slot, None
<1>2. ASSUME IInv, Next PROVE Promise!Next \/ UNCHANGED <<Slot, shown>>
  <2>1. TurnStep \/ RewindStep \/ Event
    BY <1>2, Steps
  <2>2. shown' = IF Slot' # Slot /\ Slot # None THEN shown \cup {Slot} ELSE shown
    BY <1>2, Steps DEF Displayed
  <2>3. CASE Slot' = Slot
    BY <2>2, <2>3
  <2>4. CASE Slot' # Slot /\ Slot' = None
    <3>1. Promise!Take
      BY <2>2, <2>4 DEF Promise!Take, Promise!Leaves, Promise!NoWidget, None
    <3> QED BY <3>1 DEF Promise!Next
  <2>5. CASE Slot' # Slot /\ WriteMarker /\ Slot' = turn.id
    <3>1. turn.pc = "marker"
      BY <2>5 DEF WriteMarker, At
    <3>2. turn.id \in Id
      BY <1>2, <3>1 DEF IInv, Numbered, InARound
    <3>3. turn.id \in Id /\ turn.id \notin shown
      BY <1>2, <3>1, <3>2 DEF IInv, Unshown, InARound
    <3>4. Promise!Put(turn.id)
      BY <2>2, <2>5, <3>3 DEF Promise!Put, Promise!Leaves, Promise!NoWidget, None
    <3> QED BY <3>3, <3>4 DEF Promise!Next
  <2> QED BY <1>2, <2>1, <2>3, <2>4, <2>5, SlotMoves
<1>3. UNCHANGED vars => UNCHANGED <<Slot, shown>>
  BY DEF vars, diskVars, memVars, histVars, Slot
<1>4. IInv /\ [Next]_vars => [Promise!Next]_<<Slot, shown>>
  BY <1>2, <1>3
<1> QED BY <1>1, <1>4, Invariance, PTL DEF Spec, ImplementsSlot, Promise!Spec

\* A turn, the REST routes and the switch of the backend only add to the history.
LEMMA HistoryGrows ==
  ASSUME IInv, TurnStep
  PROVE  Range(state.messages) \subseteq Range(state'.messages)
<1>1. state \in States /\ state' \in States
  BY TurnStepAlone, TurnStepType
<1>2. ASSUME NEW msg, state' = Append1(state, msg)
      PROVE  Range(state.messages) \subseteq Range(state'.messages)
  <2>1. state.messages \in Seq(Message)
    BY <1>1, StateFields
  <2>2. CASE state' = [state EXCEPT !.messages = Append(@, msg)]
    <3>1. state'.messages = Append(state.messages, msg)
      BY <1>1, <2>2 DEF States
    <3>2. /\ DOMAIN state.messages \subseteq DOMAIN state'.messages
          /\ \A i \in DOMAIN state.messages : state'.messages[i] = state.messages[i]
      BY <2>1, <3>1
    <3> QED BY <3>2 DEF Range
  <2> QED BY <1>2, <2>2 DEF Append1
<1>3. \/ UNCHANGED state
      \/ \E msg : state' = Append1(state, msg)
      \/ \E p : state' = [state EXCEPT !.pending = p]
      \/ \E x : state' = [state EXCEPT !.sop = x]
      \/ \E x, p : state' = [state EXCEPT !.sop = x, !.pending = p]
      \/ \E r : state' = [state EXCEPT !.record = r]
  BY DEF TurnStep, Send, Stamp, UnlinkBlob, Seed, BeginRound, SaveRound, CommitBubble, Summarise,
     Tools, WriteBlob, WriteMarker, Answer, AnswerFromHub, Finish, Stop, StopEarly, RecoverWidget,
     ExpireWidget, Fail, FailEarly, SaveFailed, ReportFailure, LeaveFailed, StopReporting, diskVars,
     Leave, WithSummary
<1>4. state'.messages = state.messages \/ \E msg : state' = Append1(state, msg)
  BY <1>1, <1>3 DEF States
<1> QED BY <1>2, <1>4

\* What a step cuts from the history, some checkpoint has.
LEMMA CutStep ==
  ASSUME IInv, TurnStep \/ RewindStep \/ Event, state # Missing,
         NEW m \in Range(state.messages), m.turn # None,
         state' = Missing \/ m \notin Range(state'.messages)
  PROVE  \E k \in DOMAIN checkpoints : /\ checkpoints[k].state # Missing
                                       /\ m \in Range(checkpoints[k].state.messages)
<1>1. op \in Op /\ state \in States /\ Cutting /\ Restoring /\ Idle
  BY DEF IInv, TypeOK
<1>2. checkpoints # <<>> => Len(checkpoints) \in DOMAIN checkpoints
  <2>1. checkpoints \in Seq(Checkpoint)
    BY DEF IInv, TypeOK
  <2> QED BY <2>1, LenProperties, EmptySeq
<1>3. ~TurnStep
  BY HistoryGrows, TurnStepType, Absent
<1>4. ~(RestMessage \/ SetBackend \/ EndVendorSession)
  BY EventLoopSteps, Absent
<1>5. ~Crash
  BY Absent DEF Crash, diskVars
<1>6. ~Clicks
  <2>1. Clicks => UNCHANGED state \/ \E r : state' = [state EXCEPT !.record = r]
    BY DEF Clicks, TurnCut, RoundCut, Restore, diskVars
  <2>2. ASSUME NEW r, state' = [state EXCEPT !.record = r] PROVE FALSE
    <3>1. state'.messages = state.messages /\ state' # Missing
      BY <1>1, <2>2 DEF States, Missing
    <3> QED BY <3>1
  <2> QED BY <2>1, <2>2
<1>7. CASE PersistCut
  <2>1. op.pc = "persist"
    BY <1>7 DEF PersistCut
  <2> QED BY <1>2, <2>1 DEF IInv, Backed, Newest
<1>8. CASE ClearOne
  <2>1. op.pc = "clear"
    BY <1>8 DEF ClearOne
  <2> QED BY <1>2, <2>1 DEF IInv, Backed, Newest
<1>9. ~CopyOne
  <2>1. ASSUME CopyOne PROVE FALSE
    <3>1. op.pc = "copy" /\ op.kind = "restore"
      BY <1>1, <2>1 DEF CopyOne, Cutting, Idle, Op
    <3>2. <<"state", 0>> \notin op.left
      BY <3>1 DEF IInv, Backed
    <3>3. \A c \in op.left : c[1] # "state"
      BY <1>1, <3>1, <3>2 DEF Restoring, Children
    <3>4. UNCHANGED state
      BY <2>1, <3>3 DEF CopyOne
    <3> QED BY <3>4
  <2> QED BY <2>1
<1>10. ~(Unmark \/ ApplyUpdates)
  <2>1. Unmark \/ ApplyUpdates =>
          \/ UNCHANGED state \/ state' = [state EXCEPT !.pending = Missing]
          \/ \E r : state' = [state EXCEPT !.record = r]
    BY DEF Unmark, ApplyUpdates
  <2>2. ASSUME state' = [state EXCEPT !.pending = Missing] PROVE FALSE
    <3>1. state'.messages = state.messages /\ state' # Missing
      BY <1>1, <2>2 DEF States, Missing
    <3> QED BY <3>1
  <2>3. ASSUME NEW r, state' = [state EXCEPT !.record = r] PROVE FALSE
    <3>1. state'.messages = state.messages /\ state' # Missing
      BY <1>1, <2>3 DEF States, Missing
    <3> QED BY <3>1
  <2> QED BY <2>1, <2>2, <2>3
<1>11. ~Evict
  <2>1. Evict => UNCHANGED state \/ \E i \in DOMAIN op.read.messages : op.read # Missing /\
                                       state' = Append1(state, op.read.messages[i])
    BY <1>1, IndexIsThere DEF Evict, Cutting
  <2>2. ASSUME NEW i \in DOMAIN op.read.messages, op.read # Missing,
               state' = Append1(state, op.read.messages[i])
        PROVE  FALSE
    <3> DEFINE msg == op.read.messages[i]
               u == Append1(state, msg)
    <3>1. msg \in Message
      BY <1>1, <2>2, OpFields, InMessages
    <3> HIDE DEF msg
    <3>2. u \in States /\ Range(state.messages) \subseteq Range(u.messages)
      BY <1>1, <3>1, AppendedType, Appended
    <3> HIDE DEF u
    <3>3. state' = u
      BY <2>2 DEF u, msg
    <3> QED BY <3>2, <3>3, Absent
  <2> QED BY <2>1, <2>2
<1>12. ~(TakeCheckpoint \/ ReadSession \/ Unlink \/ ResetSummary \/ RemoveOne \/ Removed)
  BY DEF TakeCheckpoint, ReadSession, Unlink, ResetSummary, RemoveOne, Removed, diskVars,
     WithSummary, Astray
<1> QED BY <1>3, <1>4, <1>5, <1>6, <1>7, <1>8, <1>9, <1>10, <1>11, <1>12 DEF Event, RewindStep

\* What a rewind removes from the history can be brought back: a truncation
\* reads the session after its checkpoint was taken, and cuts what it has read;
\* a restore clears what it has saved.
THEOREM CutsAreRecoverable == Spec => CutIsRecoverable
<1> DEFINE Recoverable ==
      \A m \in IF state = Missing THEN {} ELSE Range(state.messages) :
        m.turn # None /\ (state' = Missing \/ m \notin Range(state'.messages)) =>
        \E k \in DOMAIN checkpoints : /\ checkpoints[k].state # Missing
                                      /\ m \in Range(checkpoints[k].state.messages)
<1>1. ASSUME IInv, Next PROVE Recoverable
  <2>1. TurnStep \/ RewindStep \/ Event
    BY <1>1, Steps
  <2> QED BY <1>1, <2>1, CutStep
<1>2. IInv /\ [Next]_vars => [Recoverable]_vars
  BY <1>1
<1> HIDE DEF Recoverable
<1>3. []IInv /\ [][Next]_vars => [][Recoverable]_vars
  BY <1>2, PTL
<1> QED BY <1>3, Invariance, PTL DEF Spec, CutIsRecoverable, Recoverable

=============================================================================
