--------------------------- MODULE SessionHistory ---------------------------
(***************************************************************************)
(* The files of ONE conversation session and the operations that change    *)
(* them: SessionStore (services/session_store.py) as it is driven by a     *)
(* running turn (ConversationService._run_user_turn, _run_agentic_turn,    *)
(* _resume_from_round, _resume_from_widget), by the frames that rewind the *)
(* session (routes/manager_websocket_routes.py) and by the REST routes.    *)
(*                                                                          *)
(* A step is one durable write; the process may die between any two.       *)
(* Turns and rewinds exclude each other (ManagerSession shows how), so     *)
(* there is one turn and one rewinding frame at a time; the rewind works   *)
(* in a worker thread, so the event loop goes on writing the session       *)
(* unless the session's lock is held.                                      *)
(***************************************************************************)
EXTENDS Naturals, Sequences, FiniteSets, SequencesExt

CONSTANTS
  MaxId,          \* bound: message ids ever minted (user messages and rounds)
  MaxTurn,        \* bound: turn numbers
  MaxRound,       \* bound: rounds of a turn
  MaxCheckpoint,  \* bound: checkpoints of the session
  MaxFork,        \* bound: vendor sessions ever forked
  MaxFault,       \* bound: crashes of the process, failing turns, backend switches
  Events          \* the kinds of event the environment produces

EventKinds == {"rest", "switch", "hub", "fail", "turnCut", "roundCut", "restore"}

ASSUME BoundsAssumption ==
  /\ MaxId \in Nat /\ MaxTurn \in Nat /\ MaxRound \in Nat
  /\ MaxCheckpoint \in Nat /\ MaxFork \in Nat /\ MaxFault \in Nat
  /\ Events \subseteq EventKinds

Id    == 1..MaxId
TurnNo == 1..MaxTurn
RoundNo == 1..MaxRound
None  == 0             \* Python's None: no widget, no record, no turn number
Missing == [missing |-> TRUE]     \* a file that does not exist

VARIABLES
  \* --- on disk ------------------------------------------------------------
  state,        \* session_state.json, or Missing
  turns,        \* turn_NNN/ directories, by number
  blob,         \* pending_input.json, or Missing
  checkpoints,  \* checkpoints/<ts>_<hex>/, oldest first
  vendor,       \* what each vendor session remembers: <<turn, round id>>
  \* --- in the server process ----------------------------------------------
  live,         \* SOP progress of the cached inferencer, or Missing
  turn,         \* the turn that runs
  op,           \* the rewinding frame that is served
  ending,       \* a backend switch waits for the turn lock to end the vendor session
  \* --- history -------------------------------------------------------------
  minted,       \* ids minted so far
  shown,        \* widgets ever put on display and taken off again
  flaws,        \* "cut", "restore": a crash interrupted such a rewind;
                \* "guess": a cut was made at a message without a stamp;
                \* "rerun": a round was run twice and its first bubble kept;
                \* "behind": the vendor session was rewound, or not ended, and
                \* what should have followed it never came;
                \* "gap": a turn was numbered by a count of directories with a
                \* gap among them, which a crash left
  faults

diskVars == <<state, turns, blob, checkpoints, vendor>>
memVars  == <<live, turn, op, ending>>
histVars == <<minted, shown, flaws, faults>>
vars     == <<diskVars, memVars, histVars>>

\* A turn: where it is, its number, its current round, the id of its message
\* and then of its round, whether it runs a cut round again, and whether it
\* recovers a widget.
IdleTurn == [pc |-> "idle", n |-> None, r |-> 0, id |-> None,
             again |-> FALSE, recovers |-> FALSE]
TurnPcs == {"idle", "unlinkSent", "arrived", "stamped", "seeded", "round", "saved",
            "bubble", "tools", "emit", "marker", "await", "unlink", "exit",
            "failed", "reporting", "reported", "unlinkLast"}

\* A rewind: where it is, its kind, the message or checkpoint it goes back
\* to, the turn and round it cuts at, what it read, what is left to do.
IdleOp == [pc |-> "idle", kind |-> "none", at |-> None, cut |-> None, round |-> 0,
           read |-> Missing, left |-> {}, sop |-> {}, record |-> Missing]
OpPcs == {"idle", "checkpoint", "read", "persist", "unmark", "unlink", "summary",
          "remove", "clear", "copy", "apply", "evict"}

\* Mutant: the lock is taken for the writes only, after the session was read.
LockedLate == \/ op.kind = "restore" /\ op.pc \notin {"idle", "evict"}
              \/ op.pc \in {"unmark", "unlink", "summary", "remove"}

\* The rewind holds the session's lock (session_lock): a whole restore, and a
\* truncation once it reads the session.
Locked == \/ op.kind = "restore" /\ op.pc \notin {"idle", "evict"}
          \/ op.pc \in {"persist", "unmark", "unlink", "summary", "remove"}

-----------------------------------------------------------------------------
(* The session state and its readers.                                      *)

IdsOf(messages) == {messages[i].id : i \in DOMAIN messages}
History == IF state = Missing THEN {} ELSE IdsOf(state.messages)

\* The directories there are, of turns or of the rounds of a turn.
Dirs(t) == {k \in DOMAIN t : t[k] # Missing}

\* append_message: a message whose id is already there is not added again.
Append1(s, msg) ==
  IF msg.id \in IdsOf(s.messages) THEN s
  ELSE [s EXCEPT !.messages = Append(@, msg)]

\* next_turn_number: the number of turn directories, plus one.
NextTurn == Cardinality(Dirs(turns)) + 1

\* update_turn_root_summary: turn.json is read, merged and written.
WithSummary(k, ids) == [turns EXCEPT ![k].summary = ids]

\* _resolve_cut_turn: the stamp, or the number of earlier human messages + 1.
CutTurn(messages, i) ==
  IF messages[i].turn # None THEN messages[i].turn
  ELSE Cardinality({j \in 1..(i-1) : messages[j].role = "user"}) + 1

IndexOf(messages, id) == CHOOSE i \in DOMAIN messages : messages[i].id = id

\* The SOP progress the next turn works with: that of the cached inferencer,
\* else what the rebuilt one restores from the session state.
Sop == IF live = Missing THEN state.sop ELSE live.sop
Loaded == live' = [sop |-> Sop]

\* The top-level children of the session directory, checkpoints/ left out.
Children(s, t, b) == (IF s = Missing THEN {} ELSE {<<"state", 0>>})
                     \cup (IF b = Missing THEN {} ELSE {<<"blob", 0>>})
                     \cup {<<"turn", k>> : k \in Dirs(t)}

\* A session as create_session leaves it; its backend is a native one or not.
Init ==
  /\ \E b \in {"classic", "native"} :
       state = [messages |-> <<>>, sop |-> {}, pending |-> Missing,
                record |-> Missing, backend |-> b]
  /\ turns = [k \in TurnNo |-> Missing]
  /\ blob = Missing /\ checkpoints = <<>> /\ vendor = <<>>
  /\ live = Missing /\ turn = IdleTurn /\ op = IdleOp /\ ending = FALSE
  /\ minted = 0 /\ shown = {} /\ flaws = {} /\ faults = 0

\* The session's turn lock is taken by the turn, by a restore, or by the switch
\* of the backend, which was queued first.
TurnLocked == \/ turn.pc \notin {"idle", "unlinkSent", "arrived", "stamped",
                                 "failed", "reporting", "reported"}
              \/ op.kind = "restore" /\ op.pc # "evict"

Quiet == turn.pc = "idle" /\ op.pc = "idle" /\ state # Missing
Mint == minted < MaxId /\ minted' = minted + 1
At(pc) == turn.pc = pc
Go(pc) == turn' = [turn EXCEPT !.pc = pc]

-----------------------------------------------------------------------------
(* A turn.                                                                 *)

\* A message frame drops the pending widget (clear_pending_input) ...
Send ==
  /\ Quiet /\ minted < MaxId
  /\ state' = [state EXCEPT !.pending = Missing]
  /\ turn' = [IdleTurn EXCEPT !.pc = "unlinkSent"]
  /\ UNCHANGED <<turns, blob, checkpoints, vendor, live, op, minted, flaws, ending, faults>>

\* ... then its task appends the message, stamped with the turn to be, and
\* waits for its turn.
Stamp ==
  /\ At("arrived") /\ Mint /\ NextTurn <= MaxTurn
  /\ state' = Append1(state, [id |-> minted', role |-> "user",
                              turn |-> NextTurn, round |-> 0])
  /\ turn' = [turn EXCEPT !.pc = "stamped", !.id = minted']
  /\ flaws' = IF Dirs(turns) = 1..(NextTurn - 1) THEN flaws ELSE flaws \cup {"gap"}
  /\ UNCHANGED <<turns, blob, checkpoints, vendor, live, op, ending, faults>>

\* The second half of clear_pending_input: the sidecar goes after the marker.
UnlinkBlob ==
  /\ \/ At("unlinkSent") /\ Go("arrived")
     \/ At("unlink") /\ Go("seeded")
     \/ At("unlinkLast") /\ turn' = IdleTurn
  /\ blob' = Missing
  /\ UNCHANGED <<state, turns, checkpoints, vendor, live, op, minted, flaws, ending, faults>>

\* _run_user_turn: the number is the count of turn directories plus one; the
\* directory gets the SOP boundary, its turn.json is merged, not replaced.
Seed ==
  /\ At("stamped") /\ ~ending /\ NextTurn <= MaxTurn
  /\ LET n == NextTurn
         old == IF turns[n] # Missing THEN turns[n]
                ELSE [entry |-> {}, rounds |-> [r \in RoundNo |-> Missing], summary |-> {}]
     IN  /\ turns' = [turns EXCEPT ![n] = [old EXCEPT !.entry = Sop]]
         /\ turn' = [turn EXCEPT !.pc = "seeded", !.n = n]
  /\ Loaded
  /\ UNCHANGED <<state, blob, checkpoints, vendor, op, minted, flaws, ending, faults>>

\* _on_round_start: mint the round's id, make its directory unless an earlier
\* run left it, write its entry snapshot (resume_state.json).
BeginRound ==
  /\ At("seeded") /\ turn.r < MaxRound /\ Mint
  /\ LET r == turn.r + 1
         before == turns[turn.n].rounds[r]
         saved == IF before # Missing THEN before.saved ELSE {}
         bubbles == {m \in Range(state.messages) : m.turn = turn.n /\ m.round = r}
     IN  /\ turns' = [turns EXCEPT ![turn.n].rounds[r] = [entry |-> Sop, saved |-> saved]]
         /\ turn' = [turn EXCEPT !.pc = "round", !.r = r, !.id = minted']
         /\ flaws' = IF saved = {} /\ bubbles = {} THEN flaws ELSE flaws \cup {"rerun"}
  /\ Loaded
  /\ UNCHANGED <<state, blob, checkpoints, vendor, op, ending, faults>>

\* What a fresh vendor session is told: the assistant's bubbles so far.
Recap == {<<m.turn, m.id>> : m \in {x \in Range(state.messages) :
                                       x.role = "assistant" /\ x.turn # None}}

\* The model answers; a native vendor session remembers the round and its
\* record is saved.  save_turn_data then writes the round's files.  A round
\* without text to display goes on to its tools.
SaveRound ==
  /\ At("round")
  /\ \E pc \in {"saved", "tools"} : Go(pc)
  /\ turns' = [turns EXCEPT ![turn.n].rounds[turn.r].saved = @ \cup {turn.id}]
  /\ \/ /\ state.backend = "classic"
        /\ UNCHANGED <<state, vendor>>
     \/ /\ state.backend = "native"
        /\ LET fresh == state.record = Missing
               g == IF fresh THEN Len(vendor) + 1 ELSE state.record.gen
               memory == (IF fresh THEN Recap ELSE vendor[g]) \cup {<<turn.n, turn.id>>}
           IN  /\ g <= MaxFork
               /\ vendor' = IF fresh THEN Append(vendor, memory)
                            ELSE [vendor EXCEPT ![g] = memory]
               /\ state' = [state EXCEPT !.record = [gen |-> g, known |-> memory]]
  /\ UNCHANGED <<blob, checkpoints, live, op, minted, flaws, ending, faults>>

\* _on_round_complete appends the assistant's bubble ...
CommitBubble ==
  /\ At("saved")
  /\ state' = Append1(state, [id |-> turn.id, role |-> "assistant",
                              turn |-> turn.n, round |-> turn.r])
  /\ Go("bubble")
  /\ UNCHANGED <<turns, blob, checkpoints, vendor, live, op, minted, flaws, ending, faults>>

\* ... and adds the text to the turn's summary (turn.json).
Summarise ==
  /\ At("bubble")
  /\ turns' = WithSummary(turn.n, turns[turn.n].summary \cup {turn.id})
  /\ Go("tools")
  /\ UNCHANGED <<state, blob, checkpoints, vendor, live, op, minted, flaws, ending, faults>>

\* The round's tools may advance the SOP; then another round follows, a
\* widget goes to the human, or the turn is over.
Tools ==
  /\ At("tools")
  /\ live' \in {[sop |-> Sop], [sop |-> Sop \cup {turn.id}]}
  /\ \E pc \in {"seeded", "emit", "exit"} : Go(pc)
  /\ UNCHANGED <<state, turns, blob, checkpoints, vendor, op, minted, flaws, ending, faults>>

\* set_pending_input: the sidecar first ...
WriteBlob ==
  /\ At("emit")
  /\ blob' = [widget |-> turn.id, n |-> turn.n, r |-> turn.r]
  /\ Go("marker")
  /\ UNCHANGED <<state, turns, checkpoints, vendor, live, op, minted, flaws, ending, faults>>

\* ... then the marker.
WriteMarker ==
  /\ At("marker")
  /\ state' = [state EXCEPT !.pending = [widget |-> turn.id, n |-> turn.n, r |-> turn.r]]
  /\ Go("await")
  /\ UNCHANGED <<turns, blob, checkpoints, vendor, live, op, minted, flaws, ending, faults>>

\* The human answers: the handler clears the marker and feeds the turn.
Answer ==
  /\ At("await")
  /\ state' = [state EXCEPT !.pending = Missing]
  /\ Go("unlink")
  /\ UNCHANGED <<turns, blob, checkpoints, vendor, live, op, minted, flaws, ending, faults>>

\* A hub's confirmation feeds the waiting turn and leaves the marker.
AnswerFromHub ==
  /\ "hub" \in Events /\ At("await")
  /\ Go("seeded")
  /\ UNCHANGED <<diskVars, live, op, minted, flaws, ending, faults>>

\* The finally blocks of a turn that began: the live SOP is persisted; a
\* recovery clears the marker.
Leave(clear) ==
  /\ state' = [state EXCEPT !.sop = Sop,
                            !.pending = IF clear THEN Missing ELSE @]
  /\ turn' = IF clear THEN [turn EXCEPT !.pc = "unlinkLast"] ELSE IdleTurn

Finish ==
  /\ At("exit")
  /\ Leave(turn.recovers)
  /\ UNCHANGED <<turns, blob, checkpoints, vendor, live, op, minted, flaws, ending, faults>>

\* The turn awaits something: it can be cancelled.
Stoppable == {"seeded", "round", "bubble", "tools", "emit", "await"}

\* The turn is cancelled by a cancel frame, which drops the widget, or by a
\* disconnect, a rewind or a backend switch, which keep it; or a recovery fails.
Stop ==
  /\ turn.pc \in Stoppable
  /\ \E dropped \in BOOLEAN : Leave(dropped \/ turn.recovers)
  /\ UNCHANGED <<turns, blob, checkpoints, vendor, live, op, minted, flaws, ending, faults>>

\* ... or before it began.
StopEarly ==
  /\ turn.pc \in {"arrived", "stamped"}
  /\ turn' = IdleTurn
  /\ UNCHANGED <<diskVars, live, op, minted, flaws, ending, faults>>

\* The turn fails: its finally blocks run, and its task reports the failure.
MayFail == faults < MaxFault /\ faults' = faults + 1

Fail ==
  /\ "fail" \in Events /\ turn.pc \in Stoppable /\ ~turn.recovers /\ MayFail
  /\ state' = [state EXCEPT !.sop = Sop]
  /\ Go("failed")
  /\ UNCHANGED <<turns, blob, checkpoints, vendor, live, op, minted, flaws, ending>>

\* The backend cannot be built: the turn fails before it has a number.
FailEarly ==
  /\ "fail" \in Events /\ At("stamped") /\ MayFail
  /\ Go("reporting")
  /\ UNCHANGED <<diskVars, live, op, minted, flaws, ending>>

\* The last round that began, whose context stays until the next one begins.
InRound == turn.n # None /\ turn.r > 0 /\ turn.id # None

\* _failed_turn_bubble: what was prompted, if anything, is saved with the round
\* (or in the turn's directory).
SaveFailed ==
  /\ At("failed")
  /\ \/ InRound /\ turns' = [turns EXCEPT ![turn.n].rounds[turn.r].saved = @ \cup {turn.id}]
     \/ UNCHANGED turns
  /\ Go("reporting")
  /\ UNCHANGED <<state, blob, checkpoints, vendor, live, op, minted, flaws, ending, faults>>

\* The error bubble has the id of the round, if one began, and a new one
\* otherwise; it is appended like any message.
ReportFailure ==
  /\ At("reporting")
  /\ turn.n = None => NextTurn <= MaxTurn
  /\ IF InRound THEN UNCHANGED minted ELSE Mint
  /\ state' = Append1(state,
       IF InRound
       THEN [id |-> turn.id, role |-> "error", turn |-> turn.n, round |-> turn.r]
       ELSE [id |-> minted', role |-> "error", round |-> 0,
             turn |-> IF turn.n = None THEN NextTurn ELSE turn.n])
  /\ Go("reported")
  /\ UNCHANGED <<turns, blob, checkpoints, vendor, live, op, flaws, ending, faults>>

\* The marker goes, except after the failure of a round that was run again.
LeaveFailed ==
  /\ At("reported")
  /\ IF turn.again THEN UNCHANGED state /\ turn' = IdleTurn
     ELSE state' = [state EXCEPT !.pending = Missing] /\ Go("unlinkLast")
  /\ UNCHANGED <<turns, blob, checkpoints, vendor, live, op, minted, flaws, ending, faults>>

\* The report is cut short by a cancel frame, which drops the widget, or by the
\* end of the connection.
StopReporting ==
  /\ At("reporting")
  /\ \/ turn' = IdleTurn /\ UNCHANGED state
     \/ state' = [state EXCEPT !.pending = Missing] /\ Go("unlinkLast")
  /\ UNCHANGED <<turns, blob, checkpoints, vendor, live, op, minted, flaws, ending, faults>>

\* _resume_from_widget: the answer to a widget whose turn is gone continues
\* that turn after the widget's round, from the blob.
RecoverWidget ==
  /\ Quiet /\ ~ending /\ state.pending # Missing /\ blob # Missing
  /\ state.pending.n \in Dirs(turns)
  /\ turn' = [IdleTurn EXCEPT !.pc = "seeded", !.n = state.pending.n, !.r = blob.r,
                              !.recovers = TRUE]
  /\ Loaded
  /\ UNCHANGED <<diskVars, op, minted, flaws, ending, faults>>

\* ... or, when the sidecar is gone, drops the marker: the widget expired.
ExpireWidget ==
  /\ Quiet /\ state.pending # Missing /\ blob = Missing
  /\ state' = [state EXCEPT !.pending = Missing]
  /\ UNCHANGED <<turns, blob, checkpoints, vendor, memVars, minted, flaws, faults>>

-----------------------------------------------------------------------------
(* The REST routes, which take no turn lock: they run on the event loop, so *)
(* only between the awaits of the turn.                                    *)

EventLoopFree ==
  /\ state # Missing /\ ~Locked
  /\ turn.pc \notin {"unlinkSent", "saved", "marker", "unlink", "failed", "reported",
                     "unlinkLast"}

\* send_message appends the human's message, and later the reply, without a
\* turn number.  (A reply to a message that a rewind removed is left out.)
RestMessage ==
  /\ "rest" \in Events /\ EventLoopFree /\ Mint
  /\ \E role \in {"user", "assistant"} :
       /\ role = "assistant" => \E m \in Range(state.messages) :
                                  m.role = "user" /\ m.turn = None
       /\ state' = Append1(state, [id |-> minted', role |-> role,
                                   turn |-> None, round |-> 0])
  /\ UNCHANGED <<turns, blob, checkpoints, vendor, memVars, flaws, faults>>

\* set_session_backend writes the choice and cancels the running turn ...
SetBackend ==
  /\ "switch" \in Events /\ EventLoopFree /\ ~ending
  /\ faults < MaxFault /\ faults' = faults + 1
  /\ \E b \in {"classic", "native"} \ {state.backend} :
       state' = [state EXCEPT !.backend = b]
  /\ turn' = IF turn.pc \in Stoppable THEN [turn EXCEPT !.pc = "exit"] ELSE turn
  /\ ending' = TRUE
  /\ UNCHANGED <<turns, blob, checkpoints, vendor, live, op, minted, flaws>>

\* ... and once the turn lock is free the cached inferencer goes; leaving the
\* native backend ends its vendor session.
EndVendorSession ==
  /\ ending /\ EventLoopFree /\ ~TurnLocked
  /\ ending' = FALSE /\ live' = Missing
  /\ state' = IF state.backend = "classic" THEN [state EXCEPT !.record = Missing]
              ELSE state
  /\ UNCHANGED <<turns, blob, checkpoints, vendor, turn, op, minted, flaws, faults>>

-----------------------------------------------------------------------------
(* The rewinding frames: resume_from_turn, resume_from_round,              *)
(* restore_checkpoint.                                                     *)

MayRewind == Quiet /\ Len(checkpoints) < MaxCheckpoint

\* Mutant: the fork keeps the turn that is cut.
ForkThrough(record, cut) == {x \in record.known : x[1] <= cut}

\* A fork: a vendor session that remembers of a recorded one, as far as the
\* record has followed it, the turns before cut.
Fork(record, cut) == {x \in record.known : x[1] < cut}

\* prepare_rewind, before anything in the session has changed.
TurnCut(i) ==
  /\ "turnCut" \in Events /\ MayRewind /\ ~ending /\ state.messages[i].role = "user"
  /\ LET cut == CutTurn(state.messages, i)
     IN  /\ op' = [IdleOp EXCEPT !.pc = "checkpoint", !.kind = "turn",
                                 !.at = state.messages[i].id, !.cut = cut]
         /\ \/ /\ state.record = Missing
               /\ UNCHANGED <<state, vendor>>
            \/ /\ state.record # Missing /\ Len(vendor) < MaxFork
               /\ vendor' = Append(vendor, Fork(state.record, cut))
               /\ state' = [state EXCEPT !.record =
                              [gen |-> Len(vendor'), known |-> vendor'[Len(vendor')]]]
  /\ UNCHANGED <<turns, blob, checkpoints, live, turn, minted, flaws, ending, faults>>

\* Only the classic backend resumes rounds; with a native one a bubble's frame
\* is that of the message which started its turn.
ResumesRounds == state.backend = "classic"

\* The round's entry snapshot is read before anything else.
RoundCut(i) ==
  /\ "roundCut" \in Events /\ MayRewind /\ ResumesRounds
  /\ LET msg == state.messages[i]
     IN  /\ msg.role \in {"assistant", "error"} /\ msg.turn \in Dirs(turns)
         /\ msg.round \in Dirs(turns[msg.turn].rounds)
         /\ op' = [IdleOp EXCEPT !.pc = "checkpoint", !.kind = "round", !.at = msg.id,
                                 !.cut = msg.turn, !.round = msg.round,
                                 !.sop = turns[msg.turn].rounds[msg.round].entry]
  /\ UNCHANGED <<diskVars, live, turn, minted, flaws, ending, faults>>

\* read_checkpoint: a checkpoint without a session state cannot be restored.
Readable(k) == checkpoints[k].state # Missing

\* ConversationService.restore_checkpoint: a vendor session that ran on since
\* the checkpoint is forked first; the new record is applied at the end.
Restore(k) ==
  /\ "restore" \in Events /\ turn.pc = "idle" /\ op.pc = "idle" /\ ~ending
  /\ Len(checkpoints) < MaxCheckpoint /\ Readable(k)
  /\ LET saved == checkpoints[k].state.record
         stale == saved # Missing /\ (state = Missing \/ saved # state.record)
         memory == Fork(saved, Cardinality(Dirs(checkpoints[k].turns)) + 1)
     IN  /\ stale => Len(vendor) < MaxFork
         /\ vendor' = IF stale THEN Append(vendor, memory) ELSE vendor
         /\ op' = [IdleOp EXCEPT !.pc = "checkpoint", !.kind = "restore", !.at = k,
                                 !.record = IF stale
                                   THEN [gen |-> Len(vendor'), known |-> memory]
                                   ELSE Missing]
  /\ live' = Missing
  /\ UNCHANGED <<state, turns, blob, checkpoints, turn, minted, flaws, ending, faults>>

\* Mutant: nothing is copied.
TakeNoCheckpoint ==
  /\ op.pc = "checkpoint"
  /\ op' = IF op.kind = "restore"
           THEN [op EXCEPT !.pc = "clear", !.left = Children(state, turns, blob)]
           ELSE [op EXCEPT !.pc = "read"]
  /\ UNCHANGED <<diskVars, live, turn, minted, flaws, ending, faults>>

\* A copy taken now keeps a record that would resume the wrong vendor session:
\* a cut at a turn forks only the record it leaves behind, and a switch of the
\* backend drops it only when evict_session_inferencer closes the session.
Astray == (op.kind = "turn" \/ ending) /\ state # Missing /\ state.record # Missing

\* checkpoint_session, run to its end.
TakeCheckpoint ==
  /\ op.pc = "checkpoint"
  /\ checkpoints' = Append(checkpoints,
       [state |-> state, turns |-> turns, blob |-> blob,
        flaws |-> IF Astray THEN flaws \cup {"behind"} ELSE flaws])
  /\ op' = IF op.kind = "restore"
           THEN [op EXCEPT !.pc = "clear", !.left = Children(state, turns, blob)]
           ELSE [op EXCEPT !.pc = "read"]
  /\ UNCHANGED <<state, turns, blob, vendor, live, turn, minted, flaws, ending, faults>>

\* A truncation reads the session, and the boundary of the turn it cuts.
ReadSession ==
  /\ op.pc = "read"
  /\ op' = [op EXCEPT !.pc = "persist", !.read = state,
                      !.sop = IF op.kind = "round" THEN @
                              ELSE IF op.cut \in Dirs(turns) THEN turns[op.cut].entry
                              ELSE {}]
  /\ UNCHANGED <<diskVars, live, turn, minted, flaws, ending, faults>>

\* Mutant: the clicked round is kept as well.
KeptThrough == SubSeq(op.read.messages, 1, IndexOf(op.read.messages, op.at))

\* The cut: the clicked human message is kept, a clicked round is not.
Kept == LET i == IndexOf(op.read.messages, op.at)
        IN  SubSeq(op.read.messages, 1, IF op.kind = "turn" THEN i ELSE i - 1)

PersistCut ==
  /\ op.pc = "persist"
  /\ state' = [op.read EXCEPT !.messages = Kept, !.sop = op.sop]
  /\ op' = [op EXCEPT !.pc = "unmark"]
  /\ flaws' = IF op.read.messages[IndexOf(op.read.messages, op.at)].turn = None
             THEN flaws \cup {"guess"} ELSE flaws
  /\ UNCHANGED <<turns, blob, checkpoints, vendor, live, turn, minted, ending, faults>>

\* clear_pending_input, as the end of each of the three.
Unmark ==
  /\ op.pc = "unmark"
  /\ state' = [state EXCEPT !.pending = Missing]
  /\ op' = [op EXCEPT !.pc = "unlink"]
  /\ UNCHANGED <<turns, blob, checkpoints, vendor, live, turn, minted, flaws, ending, faults>>

\* Mutant: only what comes after the cut.
DoomedAfter ==
  {<<"turn", k>> : k \in {j \in Dirs(turns) : j > op.cut}}
  \cup (IF op.kind = "turn" \/ op.cut \notin Dirs(turns) THEN {}
        ELSE {<<"round", r>> : r \in {q \in Dirs(turns[op.cut].rounds) : q > op.round}})

\* _remove_turn_artifacts_at_or_after, _remove_round_artifacts_at_or_after.
Doomed == {<<"turn", k>> : k \in {j \in Dirs(turns) :
                              j > op.cut \/ (j = op.cut /\ op.kind = "turn")}}
          \cup (IF op.kind = "turn" \/ op.cut \notin Dirs(turns) THEN {}
                ELSE {<<"round", r>> : r \in {q \in Dirs(turns[op.cut].rounds) :
                                                q >= op.round}})
\* A restored record that was not forked is still what it was in the session.
KeepsRecord == op.record = Missing /\ state.record # Missing

Unlink ==
  /\ op.pc = "unlink"
  /\ blob' = Missing
  /\ op' = CASE op.kind = "turn"  -> [op EXCEPT !.pc = "remove", !.left = Doomed]
             [] op.kind = "round" -> [op EXCEPT !.pc = "summary"]
             [] OTHER             -> [op EXCEPT !.pc = "evict"]
  /\ flaws' = IF op.kind # "restore" THEN flaws
              ELSE checkpoints[op.at].flaws
                   \cup (IF KeepsRecord THEN flaws \cap {"behind"} ELSE {})
  /\ UNCHANGED <<state, turns, checkpoints, vendor, live, turn, minted, ending, faults>>

\* Mutant: the summary of the turn stays as it was.
KeepSummary ==
  /\ op.pc = "summary"
  /\ op' = [op EXCEPT !.pc = "remove", !.left = Doomed]
  /\ UNCHANGED <<diskVars, live, turn, minted, flaws, ending, faults>>

\* A truncation at a round keeps its turn and rebuilds that turn's summary
\* from the bubbles that are left.
ResetSummary ==
  /\ op.pc = "summary"
  /\ turns' = WithSummary(op.cut, {m.id : m \in {x \in Range(state.messages) :
                                                   x.role # "user" /\ x.turn = op.cut}})
  /\ op' = [op EXCEPT !.pc = "remove", !.left = Doomed]
  /\ UNCHANGED <<state, blob, checkpoints, vendor, live, turn, minted, flaws, ending, faults>>

\* One directory after the other, in the order of the file system.
RemoveOne ==
  /\ op.pc = "remove"
  /\ \E c \in op.left :
       /\ turns' = IF c[1] = "turn" THEN [turns EXCEPT ![c[2]] = Missing]
                   ELSE [turns EXCEPT ![op.cut].rounds[c[2]] = Missing]
       /\ op' = [op EXCEPT !.left = @ \ {c}]
  /\ UNCHANGED <<state, blob, checkpoints, vendor, live, turn, minted, flaws, ending, faults>>

Removed ==
  /\ op.pc = "remove" /\ op.left = {}
  /\ op' = [op EXCEPT !.pc = "evict"]
  /\ UNCHANGED <<diskVars, live, turn, minted, flaws, ending, faults>>

\* restore_checkpoint removes the live children ...
ClearOne ==
  /\ op.pc = "clear"
  /\ \/ \E c \in op.left :
          /\ state' = IF c[1] = "state" THEN Missing ELSE state
          /\ blob'  = IF c[1] = "blob" THEN Missing ELSE blob
          /\ turns' = IF c[1] = "turn" THEN [turns EXCEPT ![c[2]] = Missing] ELSE turns
          /\ op' = [op EXCEPT !.left = @ \ {c}]
     \/ /\ op.left = {}
        /\ LET c == checkpoints[op.at]
           IN  op' = [op EXCEPT !.pc = "copy", !.left = Children(c.state, c.turns, c.blob)]
        /\ UNCHANGED <<state, turns, blob>>
  /\ UNCHANGED <<checkpoints, vendor, live, turn, minted, flaws, ending, faults>>

\* ... and copies those of the checkpoint back ...
CopyOne ==
  /\ op.pc = "copy"
  /\ LET from == checkpoints[op.at]
     IN  \/ \E c \in op.left :
              /\ state' = IF c[1] = "state" THEN from.state ELSE state
              /\ blob'  = IF c[1] = "blob" THEN from.blob ELSE blob
              /\ turns' = IF c[1] = "turn" THEN [turns EXCEPT ![c[2]] = from.turns[c[2]]]
                          ELSE turns
              /\ op' = [op EXCEPT !.left = @ \ {c}]
         \/ /\ op.left = {}
            /\ op' = [op EXCEPT !.pc = "apply"]
            /\ UNCHANGED <<state, turns, blob>>
  /\ UNCHANGED <<checkpoints, vendor, live, turn, minted, flaws, ending, faults>>

\* Mutant: the widget of the checkpoint is left on display.
ApplyAndLeave ==
  /\ op.pc = "apply"
  /\ state' = IF op.record = Missing THEN state ELSE [state EXCEPT !.record = op.record]
  /\ op' = [op EXCEPT !.pc = "evict"]
  /\ UNCHANGED <<turns, blob, checkpoints, vendor, live, turn, minted, flaws, ending, faults>>

\* ... and applies the updates, here the record of the forked vendor session.
ApplyUpdates ==
  /\ op.pc = "apply"
  /\ state' = IF op.record = Missing THEN state ELSE [state EXCEPT !.record = op.record]
  /\ op' = [op EXCEPT !.pc = "unmark"]
  /\ UNCHANGED <<turns, blob, checkpoints, vendor, live, turn, minted, flaws, ending, faults>>

\* _resume_from_round: the turn goes on with the cut round; it has its number
\* and its directory, whose boundary snapshots are not written again.
RoundAgain ==
  turn' = [IdleTurn EXCEPT !.pc = "seeded", !.n = op.cut, !.r = op.round - 1, !.again = TRUE]

\* Mutant: the cached inferencer stays.
RunOn ==
  /\ op.pc = "evict"
  /\ \/ /\ op.kind = "turn"
        /\ turn' = [IdleTurn EXCEPT !.pc = "stamped", !.id = op.at]
     \/ /\ op.kind = "round"
        /\ RoundAgain
     \/ /\ op.kind = "restore"
        /\ UNCHANGED turn
  /\ op' = IdleOp
  /\ UNCHANGED <<diskVars, live, minted, flaws, ending, faults>>

\* The cached inferencer goes; a truncation then runs the kept message, or
\* the cut round, again (append_message finds the message already there).
Evict ==
  /\ op.pc = "evict"
  /\ live' = Missing
  /\ \/ /\ op.kind = "turn"
        /\ state' = Append1(state, op.read.messages[IndexOf(op.read.messages, op.at)])
        /\ turn' = [IdleTurn EXCEPT !.pc = "stamped", !.id = op.at]
     \/ /\ op.kind = "round"
        /\ RoundAgain
        /\ UNCHANGED state
     \/ /\ op.kind = "restore"
        /\ UNCHANGED <<state, turn>>
  /\ op' = IdleOp
  /\ UNCHANGED <<turns, blob, checkpoints, vendor, minted, flaws, ending, faults>>

-----------------------------------------------------------------------------
\* The process dies and is started again.  What a rewind was doing stays half
\* done.  (The directory of a checkpoint that was being copied is left out.)
Crash ==
  /\ faults < MaxFault /\ faults' = faults + 1
  /\ live' = Missing /\ turn' = IdleTurn /\ op' = IdleOp /\ ending' = FALSE
  /\ flaws' = flaws
       \cup (IF op.kind = "restore"
                /\ op.pc \in {"clear", "copy", "apply", "unmark", "unlink"}
            THEN {"restore"} ELSE {})
       \cup (IF op.kind # "restore"
                /\ op.pc \in {"unmark", "unlink", "summary", "remove"}
            THEN {"cut"} ELSE {})
       \cup (IF /\ state # Missing /\ state.record # Missing
                /\ \/ ending
                   \/ op.kind = "turn" /\ op.pc \in {"checkpoint", "read", "persist"}
                   \/ op.record # Missing /\ op.pc \in {"copy", "apply"}
            THEN {"behind"} ELSE {})
  /\ UNCHANGED <<diskVars, minted>>

-----------------------------------------------------------------------------
(* The widget a client that connects now is shown: that of the marker.  In *)
(* the middle of a restore, and after one that a crash cut short, nothing  *)
(* is promised.                                                            *)
Slot == IF \/ state = Missing \/ state.pending = Missing
           \/ "restore" \in flaws
           \/ op.kind = "restore" /\ op.pc \notin {"checkpoint", "unlink", "evict"}
        THEN None ELSE state.pending.widget

TurnStep == \/ Send \/ Stamp \/ UnlinkBlob \/ Seed \/ BeginRound \/ SaveRound \/ CommitBubble
            \/ Summarise \/ Tools \/ WriteBlob \/ WriteMarker \/ Answer
            \/ AnswerFromHub \/ Finish \/ Stop \/ StopEarly \/ RecoverWidget
            \/ ExpireWidget \/ Fail \/ FailEarly \/ SaveFailed \/ ReportFailure
            \/ LeaveFailed \/ StopReporting
RewindStep == \/ TakeCheckpoint \/ ReadSession \/ PersistCut \/ Unmark \/ Unlink
              \/ ResetSummary \/ RemoveOne \/ Removed \/ ClearOne \/ CopyOne
              \/ ApplyUpdates \/ Evict
Clicks == \/ state # Missing /\ \E i \in DOMAIN state.messages : TurnCut(i) \/ RoundCut(i)
          \/ \E k \in DOMAIN checkpoints : Restore(k)

Next ==
  /\ TurnStep \/ RestMessage \/ SetBackend \/ EndVendorSession
     \/ Clicks \/ RewindStep \/ Crash
  /\ shown' = IF Slot' # Slot /\ Slot # None THEN shown \cup {Slot} ELSE shown

Spec == Init /\ [][Next]_vars

\* What the runs follow: of a session that a crash left between the two halves
\* of a restore only the next restore, and no crash, failure or switch together
\* with a REST message (a CONSTRAINT of the runs; the proofs have no such bound).
Worthwhile ==
  /\ "restore" \in flaws => turn.pc = "idle"
  /\ faults > 0 /\ state # Missing => \A m \in Range(state.messages) : m.turn # None

-----------------------------------------------------------------------------
(* Types.                                                                  *)

Flaws == {"cut", "restore", "guess", "rerun", "behind", "gap"}
Message == [id : Id, role : {"user", "assistant", "error"}, turn : TurnNo \cup {None},
            round : RoundNo \cup {0}]
Memory == SUBSET (TurnNo \X Id)
Record == [gen : 1..MaxFork, known : Memory]
Widgets == [widget : Id, n : TurnNo, r : RoundNo]
States == [messages : Seq(Message), sop : SUBSET Id, pending : Widgets \cup {Missing},
           record : Record \cup {Missing}, backend : {"classic", "native"}]
RoundDir == [entry : SUBSET Id, saved : SUBSET Id]
TurnDir == [entry : SUBSET Id, rounds : [RoundNo -> RoundDir \cup {Missing}],
            summary : SUBSET Id]
TurnDirs == [TurnNo -> TurnDir \cup {Missing}]
Checkpoint == [state : States \cup {Missing}, turns : TurnDirs,
               blob : Widgets \cup {Missing}, flaws : SUBSET Flaws]
Turn == [pc : TurnPcs, n : TurnNo \cup {None}, r : RoundNo \cup {0}, id : Id \cup {None},
         again : BOOLEAN, recovers : BOOLEAN]
Child == {"state", "blob", "turn", "round"} \X Nat
Op == [pc : OpPcs, kind : {"none", "turn", "round", "restore"}, at : Nat, cut : Nat,
       round : RoundNo \cup {0}, read : States \cup {Missing}, left : SUBSET Child,
       sop : SUBSET Id, record : Record \cup {Missing}]

\* Type invariant of the files, the turn and the rewind.
TypeOK ==
  /\ state \in States \cup {Missing} /\ turns \in TurnDirs
  /\ blob \in Widgets \cup {Missing} /\ checkpoints \in Seq(Checkpoint)
  /\ vendor \in Seq(Memory) /\ live \in [sop : SUBSET Id] \cup {Missing}
  /\ turn \in Turn /\ op \in Op /\ ending \in BOOLEAN
  /\ minted \in 0..MaxId /\ shown \subseteq 1..minted
  /\ flaws \subseteq Flaws /\ faults \in 0..MaxFault

-----------------------------------------------------------------------------
(* Properties.                                                             *)

\* The rounds whose files are on disk.
Rounds(t) == UNION {UNION {t[k].rounds[r].saved : r \in Dirs(t[k].rounds)} :
                    k \in Dirs(t)}
Replacing == op.kind = "restore" /\ op.pc \notin {"checkpoint", "evict"}
Settled == state # Missing /\ flaws \subseteq {"rerun", "behind"} /\ ~Replacing

\* Every bubble in the history has its round's files, and a failed round's its
\* directory, at every moment of a truncation, and after a crash at any point of
\* it: the history is cut before the directories are removed. A turn numbered by
\* a count over a gap, which such a crash left, is out of it.
BubblesHaveRounds ==
  state # Missing /\ flaws \cap {"restore", "rerun", "gap"} = {}
    /\ ~({"cut", "guess"} \subseteq flaws) /\ ~Replacing =>
  \A m \in Range(state.messages) : m.round # 0 =>
    /\ m.turn \in Dirs(turns) /\ m.round \in Dirs(turns[m.turn].rounds)
    /\ m.role = "assistant" => m.id \in turns[m.turn].rounds[m.round].saved

\* A turn's summary names only bubbles that are still in the history: the
\* summary of a turn that was cut in the middle forgets what was cut.
SummaryOfTheKept ==
  Settled /\ op.pc \in {"idle", "checkpoint", "evict"} =>
  \A k \in Dirs(turns) : turns[k].summary \subseteq History

\* The SOP never stands on a round that was cut: neither the stored state nor
\* the live one the next turn goes on with.
SopOfTheKept ==
  Settled /\ op.pc = "idle" /\ "rerun" \notin flaws =>
  state.sop \cup Sop \subseteq Rounds(turns)

Known == {x[2] : x \in vendor[state.record.gen]}
VendorSettled ==
  /\ Settled /\ op.pc = "idle" /\ turn.pc \notin {"saved", "bubble"} /\ ~ending
  /\ state.record # Missing

\* A native vendor session is in step with the history: it remembers nothing
\* that was cut, and it knows every bubble that is kept, whether it lived
\* through it or was told when it was started after another backend's turns.
\* (A round that was run again may have left a bubble without files.)
VendorInStep ==
  VendorSettled /\ "behind" \notin flaws =>
  Known \subseteq Rounds(turns) \cup History /\ {x[2] : x \in Recap} \subseteq Known

\* conversation_service.py:767 "Restore the session to checkpoint ``name`` and
\* bring its agent session in line": the same of every restored checkpoint.
RestoredInLine ==
  VendorSettled /\ faults = 0 => {x[2] : x \in Recap} \subseteq Known

\* A turn that starts gets a directory of its own, and its number is the one
\* its message was stamped with, however the count of directories got there.
FreshTurnIsNew ==
  [][flaws \subseteq {"rerun", "behind"} /\ turn.pc = "stamped" /\ turn'.pc = "seeded" =>
       /\ turn'.n \notin Dirs(turns)
       /\ \A m \in Range(state.messages) : m.id = turn.id => m.turn \in {None, turn'.n}]_vars

\* What leaves the history by a rewind can be brought back: some checkpoint
\* has it (unstamped REST messages excepted, which may slip in between the
\* checkpoint and the cut).
CutIsRecoverable ==
  [][\A m \in IF state = Missing THEN {} ELSE Range(state.messages) :
       m.turn # None /\ (state' = Missing \/ m \notin Range(state'.messages)) =>
       \E k \in DOMAIN checkpoints : /\ checkpoints[k].state # Missing
                                     /\ m \in Range(checkpoints[k].state.messages)]_vars

\* session_store.py:861 "so a partial write never leaves a marker without
\* its blob": the sidecar next to a marker is that of the same widget.
MarkerHasItsBlob ==
  Settled /\ turn.pc # "marker" /\ state.pending # Missing =>
  blob # Missing /\ blob.widget = state.pending.widget

\* manager_websocket_routes.py:1151 "persist an error assistant message": a failure
\* that was reported is in the history.  It is not when its round has a bubble.
FailureIsInHistory ==
  At("reported") /\ InRound =>
  \E m \in Range(state.messages) : m.id = turn.id /\ m.role = "error"

\* The two files implement the slot of WidgetSlot.
Promise == INSTANCE WidgetSlot WITH Widget <- Id, slot <- Slot, gone <- shown
ImplementsSlot == Promise!Spec

-----------------------------------------------------------------------------
(* Why they hold: the inductive invariant.                                 *)

\* A turn and a rewind exclude each other, and a turn has a session.
Exclusive == turn.pc # "idle" => op.pc = "idle" /\ state # Missing

\* A turn gets its number when it begins, and its round and id with a round.
BeforeItBegins == {"unlinkSent", "arrived", "stamped"}
InARound == {"round", "saved", "bubble", "tools", "emit", "marker", "await", "unlink"}
Numbered ==
  /\ turn.pc = "idle" => turn = IdleTurn
  /\ turn.pc \in BeforeItBegins => turn.n = None
  /\ turn.n = None => turn.r = 0
  /\ turn.pc \in InARound \cup {"seeded"} => turn.n \in TurnNo
  /\ turn.pc \in InARound => turn.r \in RoundNo /\ turn.id \in Id

\* A turn that began, or is to be resumed, has its directory.
Housed ==
  /\ turn.n # None => turn.n \in Dirs(turns)
  /\ turn.id # None /\ turn.n # None /\ turn.r > 0 => turn.r \in Dirs(turns[turn.n].rounds)
  /\ op.kind = "round" => op.cut \in Dirs(turns)

\* Each kind of rewind goes through its own steps; the message it goes back to
\* is in the history it has read, the checkpoint can be restored.
Newest == checkpoints[Len(checkpoints)]
Cutting ==
  op.kind \in {"turn", "round"} =>
  /\ op.pc \in {"checkpoint", "read", "persist", "unmark", "unlink", "remove", "evict"}
              \cup (IF op.kind = "round" THEN {"summary"} ELSE {})
  /\ state # Missing
  /\ op.kind = "round" => op.cut \in TurnNo /\ op.round \in RoundNo
  /\ IF op.pc \in {"checkpoint", "read"} THEN op.at \in IdsOf(state.messages)
     ELSE op.read # Missing /\ op.at \in IdsOf(op.read.messages)
  /\ op.pc = "remove" => op.left \subseteq Doomed
Restoring ==
  op.kind = "restore" =>
  /\ op.pc \in {"checkpoint", "clear", "copy", "apply", "unmark", "unlink", "evict"}
  /\ op.at \in DOMAIN checkpoints /\ Readable(op.at)
  /\ op.pc = "copy" => LET c == checkpoints[op.at]
                       IN  op.left \subseteq Children(c.state, c.turns, c.blob)
  /\ op.pc \in {"apply", "unmark", "unlink", "evict"} => state # Missing
  /\ op.pc \in {"unlink", "evict"} => state.pending = Missing
Idle == (op.pc = "idle") = (op.kind = "none")

\* What the checkpoint taken first has of what will be removed, and what the
\* restore has removed and put back.
Backed ==
  /\ op.pc \in {"read", "persist"} =>
       /\ checkpoints # <<>> /\ Newest.state # Missing
       /\ \A m \in Range(state.messages) :
            m.turn # None => m \in Range(Newest.state.messages)
  /\ op.pc = "persist" => op.read = state
  /\ op.pc = "clear" /\ state # Missing =>
       checkpoints # <<>> /\ state = Newest.state /\ <<"state", 0>> \in op.left
  /\ op.pc = "copy" => (state = Missing) = (<<"state", 0>> \in op.left)

\* A record is that of a vendor session that exists.
HasGen(r) == r # Missing => r.gen \in DOMAIN vendor
Generations ==
  /\ state # Missing => HasGen(state.record)
  /\ \A k \in DOMAIN checkpoints : Readable(k) => HasGen(checkpoints[k].state.record)
  /\ HasGen(op.record) /\ (op.read # Missing => HasGen(op.read.record))

\* The widget on display was minted; that of a running round was never shown.
Unshown ==
  /\ Slot = None \/ Slot \in 1..minted
  /\ turn.pc \in InARound \ {"await", "unlink"} =>
       turn.id \in 1..minted /\ turn.id \notin shown /\ turn.id # Slot

\* The history and the directories of turns are in line: the directories are
\* numbered without a gap, the stamps grow along the history up to the number
\* of the turn to be, and the widget that awaits is the last turn's.
Ordered(ms) == \A i, j \in DOMAIN ms : i < j /\ ms[j].turn # None => ms[i].turn <= ms[j].turn
Distinct(ms) == \A i, j \in DOMAIN ms : ms[i].id = ms[j].id => i = j
UpTo(ms, n) == \A i \in DOMAIN ms : ms[i].turn <= n
Count(t) == Cardinality(Dirs(t))
InLine(s, t) ==
  /\ Dirs(t) = 1..Count(t)
  /\ Ordered(s.messages) /\ UpTo(s.messages, Count(t) + 1)
  /\ s.pending # Missing => s.pending.n = Count(t) /\ UpTo(s.messages, Count(t))

Sound(f) == f \subseteq {"rerun", "behind"}
LeftTurns == {k \in TurnNo : <<"turn", k>> \in op.left}

\* Ids name one message each, and were minted.
Minted(ms, n) == Distinct(ms) /\ IdsOf(ms) \subseteq 1..n
NoTwins ==
  /\ state # Missing => Minted(state.messages, minted)
  /\ op.read # Missing => Minted(op.read.messages, minted)
  /\ \A k \in DOMAIN checkpoints : Readable(k) => Minted(checkpoints[k].state.messages, minted)
  /\ turn.id <= minted

\* The two are in line in every checkpoint, and outside of the rewinds ...
Lined ==
  /\ \A k \in DOMAIN checkpoints :
       Readable(k) /\ Sound(checkpoints[k].flaws) =>
       InLine(checkpoints[k].state, checkpoints[k].turns)
  /\ Sound(flaws) /\ state # Missing
       /\ op.pc \in {"idle", "checkpoint", "read", "persist", "evict"} => InLine(state, turns)

\* ... the turn that runs is the last one, or the one to be ...
LastTurn ==
  Sound(flaws) /\ turn.pc # "idle" =>
  /\ turn.n # None => turn.n = Count(turns) /\ UpTo(state.messages, turn.n)
  /\ turn.n = None => state.pending = Missing
  /\ turn.pc = "stamped" => \A m \in Range(state.messages) :
                              m.id = turn.id => m.turn \in {None, NextTurn}

\* ... a truncation brings them in line again at the turn where it cuts, which is
\* that of the message it goes back to ...
Clicked(ms) == \A i \in DOMAIN ms : ms[i].id = op.at =>
                 IF op.kind = "turn" THEN ms[i].turn \in {None, op.cut} ELSE ms[i].turn = op.cut
LastKept == IF op.kind = "turn" THEN op.cut - 1 ELSE op.cut
CutInLine ==
  op.kind \in {"turn", "round"} =>
  /\ op.cut > 0 /\ Clicked(state.messages) /\ (op.read # Missing => Clicked(op.read.messages))
  /\ Sound(flaws) /\ op.pc \in {"unmark", "unlink", "summary", "remove", "evict"} =>
       /\ Ordered(state.messages) /\ UpTo(state.messages, op.cut)
       /\ op.pc # "unmark" => state.pending = Missing
       /\ IF op.pc \in {"remove", "evict"} THEN Dirs(turns) = 1..LastKept \cup LeftTurns
          ELSE Dirs(turns) = 1..Count(turns) /\ LastKept <= Count(turns)
       /\ op.pc = "evict" => op.left = {}

\* ... and a restore puts back what the checkpoint has.
PutBack ==
  op.kind = "restore" =>
  LET c == checkpoints[op.at]
  IN  /\ op.pc = "clear" => Dirs(turns) = LeftTurns
      /\ op.pc = "copy" => Dirs(turns) \cup LeftTurns = Dirs(c.turns)
      /\ op.pc \in {"apply", "unmark", "unlink"} => Dirs(turns) = Dirs(c.turns)
      /\ op.pc \in {"copy", "apply", "unmark", "unlink"} /\ state # Missing =>
           state.messages = c.state.messages

Level == NoTwins /\ Lined /\ LastTurn /\ CutInLine /\ PutBack

IInv == /\ TypeOK /\ Exclusive /\ Numbered /\ Housed /\ Idle /\ Cutting /\ Restoring
        /\ Backed /\ Generations /\ Unshown /\ Level

=============================================================================
