---------------------------- MODULE BedrockTurns ----------------------------
(***************************************************************************)
(* The turns of one bedrock session: BedrockBackend.send_message and the   *)
(* tool loop of _stream_turn (adapters/bedrock.py).  The loop asks the     *)
(* model for a reply, rebuilds the assistant message from the reply's      *)
(* events, runs the tools the reply asks for, appends both messages and    *)
(* asks again.  Nothing is kept between turns and nothing stops the host   *)
(* from running two at a time; cancel() and close() only touch the session *)
(* table.                                                                  *)
(*                                                                         *)
(* Each step is the code between two awaits or yields: a call or an event  *)
(* read in the executor, a tool run there.  Texts, tool inputs, the        *)
(* replayed history and the model picked are data and left out.            *)
(***************************************************************************)
EXTENDS Naturals, Sequences, SequencesExt, Selection

CONSTANTS
    Turns,       \* the messages of the session
    Cap,         \* tool_limits.max_tool_calls_per_turn
    MaxBlocks,   \* bound: content blocks in one reply
    MaxDeltas    \* bound: text deltas in one reply

\* ToolLimits.from_extra replaces a cap that is not positive.
ASSUME CapAssumption == Cap \in Nat \ {0}
ASSUME ReplyAssumption == MaxBlocks \in Nat /\ MaxDeltas \in Nat

NoTool == <<0, 0>>
\* A tool-use id, named by the reply and the block in it that made it.
Id == Nat \X Nat
Text == [kind |-> "text"]
Block == {Text} \cup [kind : {"use", "result"}, id : Id]
Message == [role : {"user", "assistant"}, blocks : Seq(Block)]
Chunk == [type : {"text_delta", "error", "end_turn"}, seq : Nat]
         \cup [type : {"tool_use", "tool_result"}, seq : Nat, id : Id]
StopReasons == {"tool_use", "other"}
Over == {"ended", "dropped", "raised"}

VARIABLES
    session,   \* "active", "inactive" after cancel(), "absent" after close()
    turn       \* per turn: the locals of _stream_turn and what was yielded
vars == <<session, turn>>

TurnState == [
    phase    : {"none", "created", "calling", "reading", "running", "capped"} \cup Over,
    messages : Seq(Message),   \* of this turn, after the replayed history
    blocks   : Seq(Block),     \* assistant_blocks
    text     : BOOLEAN,        \* current_text is not empty
    tool     : Id,             \* current_tool
    stop     : StopReasons \cup {"none"},   \* stop_reason
    results  : Seq(Block),     \* tool_result_blocks
    calls    : Nat,            \* tool_calls_made
    seq      : Nat,
    heard    : Seq(Chunk),     \* the chunks yielded
    rounds   : Nat,            \* how often converse_stream was called, counted as it is
    reply    : Seq(Block),     \* the blocks the model has finished in this reply
    open     : {"none", "text", "tool"},    \* the block it is writing
    deltas   : 0..MaxDeltas ]

TypeOK == session \in {"active", "inactive", "absent"} /\ turn \in [Turns -> TurnState]

Fresh == [phase |-> "none", messages |-> <<>>, blocks |-> <<>>, text |-> FALSE,
          tool |-> NoTool, stop |-> "none", results |-> <<>>, calls |-> 0, seq |-> 0,
          heard |-> <<>>, rounds |-> 0, reply |-> <<>>, open |-> "none", deltas |-> 0]

\* initialize() has returned.
Init == session = "active" /\ turn = [t \in Turns |-> Fresh]

-----------------------------------------------------------------------------
(* send_message and the stream's start. *)

\* The stream's locals become `next`.
Becomes(t, next) == turn' = [turn EXCEPT ![t] = next] /\ UNCHANGED session

UserMessage == [role |-> "user", blocks |-> <<Text>>]

SendMessage(t) ==
    /\ session = "active" /\ turn[t].phase = "none"
    /\ Becomes(t, [turn[t] EXCEPT !.phase = "created", !.messages = <<UserMessage>>])

Goto(t, from, to) ==
    /\ turn[t].phase = from
    /\ Becomes(t, [turn[t] EXCEPT !.phase = to])

\* The stream runs up to the await of its first converse_stream.
StartStream(t) ==
    /\ turn[t].phase = "created"
    /\ Becomes(t, [turn[t] EXCEPT !.phase = "calling", !.rounds = @ + 1])

\* _runtime() builds the client outside the try: no boto3, no such profile.
StartRaises(t) == Goto(t, "created", "raised")
\* The host drops the generator, or its task is cancelled: no finally clause.
Abandon(t) == \E phase \in {"created", "calling", "reading", "running", "capped"} :
                 Goto(t, phase, "dropped")

-----------------------------------------------------------------------------
(* One round: converse_stream and the events of its reply. *)

Yields(t, chunk) == Append(turn[t].heard, [chunk EXCEPT !.seq = turn[t].seq])
Plain(type) == [type |-> type, seq |-> 0]
ForTool(type, id) == [type |-> type, seq |-> 0, id |-> id]

\* An error chunk, and the generator returns.
Fails(t, phase) ==
    /\ turn[t].phase = phase
    /\ Becomes(t, [turn[t] EXCEPT !.phase = "ended", !.heard = Yields(t, Plain("error"))])

\* The call returned, with a stream of events.
Converse(t) ==
    /\ turn[t].phase = "calling"
    /\ Becomes(t, [turn[t] EXCEPT
         !.phase = "reading",
         !.blocks = <<>>, !.text = FALSE, !.tool = NoTool, !.stop = "none",
         !.reply = <<>>, !.open = "none", !.deltas = 0])

\* The call raises, or its response has no "stream".
ConverseFails(t) == Fails(t, "calling")

\* The model sends no further block after its stop, and has blocks left to send.
Reading(t) == turn[t].phase = "reading" /\ turn[t].stop = "none"
NewBlock(t) == turn[t].open = "none" /\ Len(turn[t].reply) < MaxBlocks

ReadText(t) ==
    /\ Reading(t)
    /\ NewBlock(t) \/ turn[t].open = "text"
    /\ turn[t].deltas < MaxDeltas
    /\ Becomes(t, [turn[t] EXCEPT
         !.text = TRUE, !.open = "text", !.deltas = @ + 1,
         !.heard = Yields(t, Plain("text_delta")), !.seq = @ + 1])

\* contentBlockStart; the toolUse deltas that follow only gather its input.
ReadToolStart(t) ==
    /\ Reading(t) /\ NewBlock(t)
    /\ Becomes(t, [turn[t] EXCEPT !.open = "tool",
                            !.tool = <<turn[t].rounds, Len(turn[t].reply) + 1>>])

Use(id) == [kind |-> "use", id |-> id]
Result(id) == [kind |-> "result", id |-> id]

SeqAfterToolUseSame(t) == turn[t].seq
SeqAfterToolUse(t) == turn[t].seq + 1

ReadToolStop(t) ==
    /\ Reading(t) /\ turn[t].open = "tool"
    /\ LET use == Use(turn[t].tool)
       IN Becomes(t, [turn[t] EXCEPT
            !.blocks = Append(@, use), !.tool = NoTool,
            !.heard = Yields(t, ForTool("tool_use", use.id)), !.seq = SeqAfterToolUse(t),
            !.reply = Append(@, use), !.open = "none"])

TextAfterStopKept(t) == turn[t].text
TextAfterStop(t) == FALSE

ReadTextStop(t) ==
    /\ Reading(t) /\ turn[t].open = "text"
    /\ Becomes(t, [turn[t] EXCEPT
         !.blocks = Append(@, Text), !.text = TextAfterStop(t),
         !.reply = Append(@, Text), !.open = "none"])

\* messageStop also flushes a text whose block was never stopped.
ReadMessageStop(t, reason) ==
    /\ Reading(t) /\ turn[t].open # "tool"
    /\ Becomes(t, [turn[t] EXCEPT
         !.stop = reason, !.text = FALSE, !.open = "none",
         !.blocks = IF turn[t].text THEN Append(@, Text) ELSE @,
         !.reply = IF turn[t].open = "text" THEN Append(@, Text) ELSE @])

\* An exception event, or an exception while reading.
ReadFails(t) == Fails(t, "reading")

-----------------------------------------------------------------------------
(* The end of a reply: another round, or the end of the turn. *)

Uses(blocks) == Only(blocks, [kind : {"use"}, id : Id])
WantsToolsLast(t) ==
    turn[t].stop = "tool_use" /\ turn[t].blocks # <<>> /\ Last(turn[t].blocks).kind = "use"
WantsTools(t) == turn[t].stop = "tool_use" /\ Len(Uses(turn[t].blocks)) > 0
CapReachedExactly(t) == turn[t].calls = Cap
CapReached(t) == turn[t].calls >= Cap

EndTurn(t, phase) ==
    /\ turn[t].phase = phase
    /\ Becomes(t, [turn[t] EXCEPT !.phase = "ended", !.heard = Yields(t, Plain("end_turn"))])

\* The event stream is exhausted (after messageStop, or cut short).
ReplyEndsTurn(t) == ~WantsTools(t) /\ EndTurn(t, "reading")

ReplyHitsCap(t) ==
    /\ turn[t].phase = "reading"
    /\ WantsTools(t) /\ CapReached(t)
    /\ Becomes(t, [turn[t] EXCEPT
         !.phase = "capped", !.heard = Yields(t, Plain("error")), !.seq = @ + 1])

EndCapped(t) == EndTurn(t, "capped")

AssistantUnrecorded(t) == turn[t].messages
AssistantRecorded(t) ==
    Append(turn[t].messages, [role |-> "assistant", blocks |-> turn[t].blocks])

ReplyWantsTools(t) ==
    /\ turn[t].phase = "reading"
    /\ WantsTools(t) /\ ~CapReached(t)
    /\ Becomes(t, [turn[t] EXCEPT
         !.phase = "running", !.messages = AssistantRecorded(t), !.results = <<>>])

NextTool(t) == Uses(turn[t].blocks)[Len(turn[t].results) + 1].id
LastTool(t) == Len(turn[t].results) + 1 = Len(Uses(turn[t].blocks))

\* execute_tool returned (it never raises); after the last tool the next step of
\* the stream sends the results to the model, in the next converse_stream.
RunTool(t) ==
    /\ turn[t].phase = "running"
    /\ LET results == Append(turn[t].results, Result(NextTool(t)))
       IN Becomes(t, [turn[t] EXCEPT
            !.results = results, !.calls = @ + 1, !.seq = @ + 1,
            !.heard = Yields(t, ForTool("tool_result", NextTool(t))),
            !.phase = IF LastTool(t) THEN "calling" ELSE "running",
            !.rounds = IF LastTool(t) THEN @ + 1 ELSE @,
            !.messages = IF LastTool(t)
                         THEN Append(@, [role |-> "user", blocks |-> results]) ELSE @])

-----------------------------------------------------------------------------
Cancel ==
    /\ session' = IF session = "absent" THEN "absent" ELSE "inactive"
    /\ UNCHANGED turn

Close == session' = "absent" /\ UNCHANGED turn

TurnStep(t) ==
    \/ StartStream(t) \/ StartRaises(t)
    \/ Converse(t) \/ ConverseFails(t)
    \/ ReadText(t) \/ ReadToolStart(t) \/ ReadToolStop(t) \/ ReadTextStop(t)
    \/ \E reason \in StopReasons : ReadMessageStop(t, reason)
    \/ ReadFails(t)
    \/ ReplyEndsTurn(t) \/ ReplyHitsCap(t) \/ EndCapped(t) \/ ReplyWantsTools(t)
    \/ RunTool(t)

Next == \/ \E t \in Turns : SendMessage(t) \/ TurnStep(t) \/ Abandon(t)
        \/ Cancel \/ Close

Spec == Init /\ [][Next]_vars

-----------------------------------------------------------------------------
(* Properties. *)

\* What the model is asked to continue is a conversation it accepts: whenever
\* converse_stream is called, every assistant message of the turn is followed
\* by the results of exactly the tools it asked for, in its order.
Conversation(messages) ==
    /\ Len(messages) % 2 = 1
    /\ \A i \in DOMAIN messages :
         messages[i].role = IF i % 2 = 1 THEN "user" ELSE "assistant"
    /\ \A i \in DOMAIN messages : i % 2 = 0 =>
         LET uses == Uses(messages[i].blocks)
         IN messages[i + 1].blocks = [n \in DOMAIN uses |-> Result(uses[n].id)]
WellFormedConversation ==
    \A t \in Turns : turn[t].phase = "calling" => Conversation(turn[t].messages)

\* The assistant message played back to the model is the reply it gave, block
\* for block, whether its texts were closed or cut by its stop.
ReplyPlayedBack ==
    \A t \in Turns : turn[t].phase = "running" =>
        turn[t].messages[Len(turn[t].messages)].blocks = turn[t].reply

\* "A runaway plan cannot pin the host indefinitely" (lines 314-315): a model
\* that asks for tools in every reply is called at most once more than the cap.
RoundsBounded == \A t \in Turns : turn[t].rounds <= Cap + 1

\* Such a model has at most the tools of one reply run past the cap.
ToolsBounded == \A t \in Turns : turn[t].calls < Cap + MaxBlocks \/ turn[t].calls = 0

\* The host's view of a turn is in order and complete: chunks are numbered
\* without a gap, and the results shown are those of the first tools shown.
Ids(chunks, type) == LET own == Only(chunks, [type : {type}, seq : Nat, id : Id])
                     IN [i \in DOMAIN own |-> own[i].id]
ChunkIds(t, type) == Ids(turn[t].heard, type)
HostViewInOrder ==
    \A t \in Turns :
        /\ \A i \in DOMAIN turn[t].heard : turn[t].heard[i].seq = i - 1
        /\ IsPrefix(ChunkIds(t, "tool_result"), ChunkIds(t, "tool_use"))

\* A turn that ends without an error has answered every tool it announced,
\* unless the model stopped for another reason than to have them run.
NoToolLeftBehind ==
    \A t \in Turns :
        (/\ turn[t].phase = "ended" /\ turn[t].stop = "tool_use"
         /\ \A i \in DOMAIN turn[t].heard : turn[t].heard[i].type # "error")
        => ChunkIds(t, "tool_result") = ChunkIds(t, "tool_use")

(* What the code's own words promise and the code does not keep. *)

\* cancel(): "any in-flight loop sees the change on its next event and gives
\* up" (lines 535-537): an event that a cancelled turn reads is its last.
CancelGivesUp ==
    [][\A t \in Turns :
          session = "inactive" /\ Reading(t) /\ turn'[t] # turn[t]
             => turn'[t].phase \in Over]_vars
=============================================================================
