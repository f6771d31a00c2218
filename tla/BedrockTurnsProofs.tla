-------------------------- MODULE BedrockTurnsProofs --------------------------
(***************************************************************************)
(* Proofs about the tool loop of BedrockTurns: however many tools the      *)
(* model asks for in each reply, the loop ends, and what is played back to *)
(* the model is what it said.                                              *)
(***************************************************************************)
EXTENDS BedrockTurns, SequenceLemmas, TLAPS

Fields == DOMAIN Fresh
Shape == DOMAIN turn = Turns /\ \A t \in Turns : DOMAIN turn[t] = Fields

\* Each reply that made the loop go on has had at least one tool run, and the
\* cap was not reached when it was read.
Counted(t) ==
    /\ turn[t].rounds \in Nat /\ turn[t].calls \in Nat
    /\ turn[t].rounds <= Cap + 1
    /\ turn[t].phase \in {"none", "created"} => turn[t].rounds = 0
    /\ turn[t].phase \in {"calling", "reading", "running"} => turn[t].rounds <= turn[t].calls + 1
    /\ turn[t].phase = "running" => turn[t].rounds <= Cap

IInv == Shape /\ \A t \in Turns : Counted(t)

LEMMA InitIInv == Init => IInv
  BY CapAssumption DEF Init, IInv, Shape, Fields, Fresh, Counted

\* A step of turn t alone, which leaves a legal record in its place.
OnlyTurn(t) ==
    /\ DOMAIN turn' = Turns /\ DOMAIN turn'[t] = Fields
    /\ \A u \in Turns \ {t} : turn'[u] = turn[u]

LEMMA OneTurn ==
  ASSUME IInv, NEW t \in Turns, OnlyTurn(t), Counted(t)'
  PROVE  IInv'
<1>1. Shape'
  BY DEF IInv, Shape, OnlyTurn
<1>2. ASSUME NEW u \in Turns PROVE Counted(u)'
  <2>1. CASE u = t  BY <2>1
  <2>2. CASE u # t  BY <2>2 DEF IInv, Counted, OnlyTurn
  <2> QED  BY <2>1, <2>2
<1> QED  BY <1>1, <1>2 DEF IInv

LEMMA TurnStepKeeps ==
  ASSUME IInv, NEW t \in Turns, TurnStep(t)
  PROVE  OnlyTurn(t) /\ Counted(t)'
<1> USE CapAssumption DEF IInv, Shape, OnlyTurn, Counted, Fields, Fresh, Over, Becomes
<1>1. CASE StartStream(t)
  BY <1>1 DEF StartStream
<1>2. CASE StartRaises(t)
  BY <1>2 DEF StartRaises, Goto
<1>3. CASE Converse(t)
  BY <1>3 DEF Converse
<1>4. CASE ConverseFails(t)
  BY <1>4 DEF ConverseFails, Fails
<1>5. CASE ReadText(t)
  BY <1>5 DEF ReadText, Reading
<1>6. CASE ReadToolStart(t)
  BY <1>6 DEF ReadToolStart, Reading
<1>7. CASE ReadToolStop(t)
  BY <1>7 DEF ReadToolStop, Reading
<1>8. CASE ReadTextStop(t)
  BY <1>8 DEF ReadTextStop, Reading
<1>9. CASE ReadFails(t)
  BY <1>9 DEF ReadFails, Fails
<1>10. CASE ReplyEndsTurn(t)
  BY <1>10 DEF ReplyEndsTurn, EndTurn
<1>11. CASE ReplyHitsCap(t)
  BY <1>11 DEF ReplyHitsCap, CapReached
<1>12. CASE EndCapped(t)
  BY <1>12 DEF EndCapped, EndTurn
<1>13. CASE ReplyWantsTools(t)
  BY <1>13 DEF ReplyWantsTools, CapReached
<1>14. CASE RunTool(t)
  BY <1>14 DEF RunTool
<1>15. ASSUME NEW reason \in StopReasons, ReadMessageStop(t, reason)
     PROVE  OnlyTurn(t) /\ Counted(t)'
  BY <1>15 DEF ReadMessageStop, Reading
<1> QED
  BY <1>1, <1>2, <1>3, <1>4, <1>5, <1>6, <1>7, <1>8, <1>9, <1>10, <1>11, <1>12, <1>13, <1>14, <1>15 DEF TurnStep

LEMMA NextKeepsIInv == IInv /\ [Next]_vars => IInv'
<1> SUFFICES ASSUME IInv, [Next]_vars PROVE IInv'
  OBVIOUS
<1>1. CASE UNCHANGED vars
  BY <1>1 DEF vars, IInv, Shape, Counted
<1>2. CASE Cancel \/ Close
  BY <1>2 DEF Cancel, Close, IInv, Shape, Counted
<1>3. ASSUME NEW t \in Turns, SendMessage(t) \/ Abandon(t) PROVE IInv'
  <2>1. OnlyTurn(t) /\ Counted(t)'
    <3> USE CapAssumption DEF IInv, Shape, OnlyTurn, Counted, Fields, Fresh, Becomes
    <3>1. CASE SendMessage(t)  BY <3>1 DEF SendMessage
    <3>2. CASE Abandon(t)      BY <3>2 DEF Abandon, Goto
    <3> QED  BY <1>3, <3>1, <3>2
  <2> QED  BY <2>1, OneTurn
<1>4. ASSUME NEW t \in Turns, TurnStep(t) PROVE IInv'
  BY <1>4, TurnStepKeeps, OneTurn
<1> QED  BY <1>1, <1>2, <1>3, <1>4 DEF Next

\* What each turn and its tool loop agree on is kept by every step.
THEOREM Invariance == Spec => []IInv
<1> QED  BY InitIInv, NextKeepsIInv, PTL DEF Spec

\* "A runaway plan cannot pin the host indefinitely": whatever the model asks
\* for, a turn calls it at most once more than the cap (bedrock.py:314-315).
THEOREM LoopIsBounded == Spec => []RoundsBounded
<1>1. IInv => RoundsBounded
  BY DEF IInv, Counted, RoundsBounded
<1> QED  BY <1>1, Invariance, PTL

-----------------------------------------------------------------------------
(* The reply that the code rebuilds from its events. *)

IsSeq(s) == s \in Seq({s[i] : i \in DOMAIN s})

LEMMA AppendIsSeq ==
  ASSUME NEW s, NEW e, IsSeq(s)
  PROVE  IsSeq(Append(s, e)) /\ Append(s, e)[Len(Append(s, e))] = e
<1> DEFINE S == {s[i] : i \in DOMAIN s}  T == S \cup {e}
<1>1. s \in Seq(T)
  <2>1. s \in Seq(S)  BY DEF IsSeq
  <2> HIDE DEF S
  <2> QED  BY <2>1
<1> HIDE DEF S, T
<1>2. e \in T  BY DEF T
<1>3. Append(s, e) \in Seq(T) /\ Append(s, e)[Len(Append(s, e))] = e
  BY <1>1, <1>2
<1>4. \A q \in Seq(T) : IsSeq(q)
  BY DEF IsSeq
<1> QED  BY <1>3, <1>4

\* While its events are read, the blocks are those of the reply, and there is
\* pending text just when a text block is open.
Mirrored(t) ==
    /\ IsSeq(turn[t].messages)
    /\ turn[t].phase \in {"reading", "running"} => turn[t].blocks = turn[t].reply
    /\ (turn[t].phase = "reading" /\ turn[t].stop = "none") =>
         IF turn[t].open = "text" THEN turn[t].text = TRUE ELSE turn[t].text = FALSE
    /\ turn[t].phase = "running" =>
         turn[t].messages[Len(turn[t].messages)].blocks = turn[t].reply

LEMMA TurnStepMirrors ==
  ASSUME Shape, NEW t \in Turns, Mirrored(t), TurnStep(t) \/ SendMessage(t) \/ Abandon(t)
  PROVE  Mirrored(t)'
<1> USE DEF Shape, Fields, Fresh, Over, Becomes, Mirrored
<1>1. CASE StartStream(t) \/ StartRaises(t) \/ Abandon(t)
  BY <1>1 DEF StartStream, StartRaises, Abandon, Goto
<1>2. CASE SendMessage(t)
  <2>1. IsSeq(<<UserMessage>>)  BY DEF IsSeq
  <2> QED  BY <1>2, <2>1 DEF SendMessage
<1>3. CASE Converse(t)
  BY <1>3 DEF Converse
<1>4. CASE ConverseFails(t) \/ ReadFails(t)
  BY <1>4 DEF ConverseFails, ReadFails, Fails
<1>5. CASE ReadText(t)
  BY <1>5 DEF ReadText, Reading
<1>6. CASE ReadToolStart(t)
  BY <1>6 DEF ReadToolStart, Reading, NewBlock
<1>7. CASE ReadToolStop(t)
  BY <1>7 DEF ReadToolStop, Reading
<1>8. CASE ReadTextStop(t)
  BY <1>8 DEF ReadTextStop, Reading, TextAfterStop
<1>9. ASSUME NEW reason \in StopReasons, ReadMessageStop(t, reason) PROVE Mirrored(t)'
  BY <1>9 DEF ReadMessageStop, Reading, StopReasons
<1>10. CASE ReplyEndsTurn(t) \/ EndCapped(t)
  BY <1>10 DEF ReplyEndsTurn, EndCapped, EndTurn
<1>11. CASE ReplyHitsCap(t)
  BY <1>11 DEF ReplyHitsCap
<1>12. CASE ReplyWantsTools(t)
  <2> DEFINE own == [role |-> "assistant", blocks |-> turn[t].blocks]
             grown == Append(turn[t].messages, own)
  <2>1. IsSeq(grown) /\ grown[Len(grown)] = own  BY AppendIsSeq
  <2>2. own.blocks = turn[t].blocks  OBVIOUS
  <2>3. /\ turn[t].phase = "reading"
        /\ turn' = [turn EXCEPT ![t] = [turn[t] EXCEPT !.phase = "running", !.messages = grown, !.results = <<>>]]
    BY <1>12 DEF ReplyWantsTools, AssistantRecorded
  <2> HIDE DEF own, grown
  <2> QED  BY <2>1, <2>2, <2>3
<1>13. CASE RunTool(t)
  <2> DEFINE results == Append(turn[t].results, Result(NextTool(t)))
             grown == Append(turn[t].messages, [role |-> "user", blocks |-> results])
  <2>1. IsSeq(grown)  BY AppendIsSeq
  <2>2. /\ turn[t].phase = "running"
        /\ turn'[t].phase = IF LastTool(t) THEN "calling" ELSE "running"
        /\ turn'[t].messages = IF LastTool(t) THEN grown ELSE turn[t].messages
        /\ turn'[t].blocks = turn[t].blocks /\ turn'[t].reply = turn[t].reply
    BY <1>13 DEF RunTool
  <2> HIDE DEF grown, results
  <2> QED  BY <2>1, <2>2
<1> QED
  BY <1>1, <1>2, <1>3, <1>4, <1>5, <1>6, <1>7, <1>8, <1>9, <1>10, <1>11, <1>12, <1>13 DEF TurnStep

LEMMA NextMirrors == IInv /\ (\A t \in Turns : Mirrored(t)) /\ [Next]_vars => (\A t \in Turns : Mirrored(t))'
<1> SUFFICES ASSUME IInv, \A t \in Turns : Mirrored(t), [Next]_vars, NEW t \in Turns PROVE Mirrored(t)'
  OBVIOUS
<1>1. CASE UNCHANGED turn
  BY <1>1 DEF Mirrored, IsSeq
<1>2. ASSUME NEW u \in Turns, SendMessage(u) \/ TurnStep(u) \/ Abandon(u) PROVE Mirrored(t)'
  <2>1. CASE u = t  BY <1>2, <2>1, TurnStepMirrors DEF IInv
  <2>2. CASE u # t
    <3>1. turn'[t] = turn[t]
      <4>1. \E next : Becomes(u, next)
        BY <1>2 DEF SendMessage, Abandon, TurnStep, StartStream, StartRaises, Goto, Converse, ConverseFails,
           Fails, ReadText, ReadToolStart, ReadToolStop, ReadTextStop, ReadMessageStop, ReadFails,
           ReplyEndsTurn, EndTurn, ReplyHitsCap, EndCapped, ReplyWantsTools, RunTool
      <4> QED  BY <2>2, <4>1 DEF Becomes, IInv, Shape
    <3> QED  BY <3>1 DEF Mirrored, IsSeq
  <2> QED  BY <2>1, <2>2
<1> QED  BY <1>1, <1>2 DEF Next, Cancel, Close, vars

\* The assistant message that is played back to the model is the reply it
\* gave, block for block (bedrock.py:390-436, 488), for any reply.
THEOREM ReplyIsPlayedBack == Spec => []ReplyPlayedBack
<1>1. Init => \A t \in Turns : Mirrored(t)
  <2>1. IsSeq(<<>>)  BY DEF IsSeq
  <2> QED  BY <2>1 DEF Init, Mirrored, Fresh
<1>2. (\A t \in Turns : Mirrored(t)) => ReplyPlayedBack
  BY DEF Mirrored, ReplyPlayedBack
<1> QED  BY <1>1, <1>2, NextMirrors, Invariance, PTL DEF Spec
-----------------------------------------------------------------------------
(* What the selections of the model are made of. *)

UseBlocks == [kind : {"use"}, id : Id]

\* The tool uses of a list of blocks are blocks, and no more than those.
LEMMA UsesType ==
  ASSUME NEW bs \in Seq(Block)
  PROVE  Uses(bs) \in Seq(UseBlocks) /\ Len(Uses(bs)) \in Nat /\ Len(Uses(bs)) <= Len(bs)
<1>1. Uses(bs) \in Seq(Block \cap UseBlocks) /\ Len(Uses(bs)) <= Len(bs)
  BY OnlyType DEF Uses, UseBlocks
<1>2. \A q \in Seq(Block \cap UseBlocks) : q \in Seq(UseBlocks) /\ Len(q) \in Nat
  OBVIOUS
<1> QED  BY <1>1, <1>2

LEMMA UsesAppend ==
  ASSUME NEW bs \in Seq(Block), NEW b \in Block
  PROVE  Uses(Append(bs, b)) = IF b \in UseBlocks THEN Append(Uses(bs), b) ELSE Uses(bs)
  BY OnlyAppend DEF Uses, UseBlocks

\* While tools run there is a next one, so what RunTool takes is a tool's id.
ToolsLeft(t) == turn[t].phase = "running" => Len(turn[t].results) < Len(Uses(turn[t].blocks))

LEMMA NextToolType ==
  ASSUME TypeOK, NEW t \in Turns, turn[t].phase = "running", ToolsLeft(t)
  PROVE  NextTool(t) \in Id
<1>1. turn[t].blocks \in Seq(Block) /\ turn[t].results \in Seq(Block)
  BY DEF TypeOK, TurnState
<1>2. Uses(turn[t].blocks) \in Seq(UseBlocks) /\ Len(Uses(turn[t].blocks)) \in Nat
  BY <1>1, UsesType
<1>3. Len(turn[t].results) + 1 \in 1..Len(Uses(turn[t].blocks))
  BY <1>1, <1>2 DEF ToolsLeft
<1>4. \A q \in Seq(UseBlocks) : \A i \in 1..Len(q) : q[i] \in UseBlocks
  OBVIOUS
<1>5. Uses(turn[t].blocks)[Len(turn[t].results) + 1] \in UseBlocks
  BY <1>2, <1>3, <1>4
<1> QED  BY <1>5 DEF NextTool, UseBlocks

\* A chunk, a block and a message made by the code are such.
LEMMA Made ==
  /\ \A type \in {"text_delta", "error", "end_turn"}, n \in Nat : [Plain(type) EXCEPT !.seq = n] \in Chunk
  /\ \A type \in {"tool_use", "tool_result"}, id \in Id, n \in Nat :
        [ForTool(type, id) EXCEPT !.seq = n] \in Chunk
  /\ Text \in Block /\ \A id \in Id : Use(id) \in Block /\ Result(id) \in Block
  /\ \A role \in {"user", "assistant"}, bs \in Seq(Block) : [role |-> role, blocks |-> bs] \in Message
  BY DEF Plain, ForTool, Chunk, Text, Use, Result, Block, Message

LEMMA AppendType == ASSUME NEW S, NEW s \in Seq(S), NEW e \in S PROVE Append(s, e) \in Seq(S)
  OBVIOUS

LEMMA TurnStepTypes ==
  ASSUME TypeOK, NEW t \in Turns, ToolsLeft(t), TurnStep(t) \/ SendMessage(t) \/ Abandon(t)
  PROVE  turn'[t] \in TurnState
<1> DEFINE r == turn[t]
<1>0. r \in TurnState /\ DOMAIN turn = Turns
  BY DEF TypeOK
<1>s. r.seq \in Nat /\ r.heard \in Seq(Chunk)
  BY <1>0 DEF TurnState
<1>b. r.blocks \in Seq(Block) /\ r.reply \in Seq(Block) /\ r.results \in Seq(Block) /\ r.messages \in Seq(Message)
  BY <1>0 DEF TurnState
<1>e. /\ <<>> \in Seq(Block) /\ NoTool \in Id /\ 0 \in 0..MaxDeltas
  BY ReplyAssumption DEF NoTool, Id
<1>p. \A type \in {"text_delta", "error", "end_turn"} : Yields(t, Plain(type)) \in Seq(Chunk)
  BY <1>s, Made, AppendType DEF Yields
<1>n. r.rounds + 1 \in Nat /\ r.seq + 1 \in Nat /\ r.calls + 1 \in Nat
  <2>1. r.rounds \in Nat /\ r.calls \in Nat  BY <1>0 DEF TurnState
  <2> QED  BY <1>s, <2>1
<1>q. /\ Yields(t, Plain("error")) \in Seq(Chunk) /\ Yields(t, Plain("end_turn")) \in Seq(Chunk)
      /\ Yields(t, Plain("text_delta")) \in Seq(Chunk)
  BY <1>p
<1>f. \A h \in Seq(Chunk) : [r EXCEPT !.phase = "ended", !.heard = h] \in TurnState
  BY <1>0 DEF TurnState, Over
<1>y. \A type \in {"tool_use", "tool_result"}, id \in Id : Yields(t, ForTool(type, id)) \in Seq(Chunk)
  BY <1>s, Made, AppendType DEF Yields
<1> USE DEF Becomes
<1>start. CASE StartStream(t)
  BY <1>0, <1>n, <1>start DEF StartStream, TurnState
<1>1. ASSUME NEW from, NEW to \in {"dropped", "raised"}, Goto(t, from, to)
      PROVE  turn'[t] \in TurnState
  <2>1. [r EXCEPT !.phase = to] \in TurnState  BY <1>0 DEF TurnState, Over
  <2> QED  BY <1>0, <1>1, <2>1 DEF Goto
<1>2. CASE SendMessage(t)
  <2>1. <<UserMessage>> \in Seq(Message)
    <3>1. <<Text>> \in Seq(Block)  BY Made
    <3>2. UserMessage \in Message  BY <3>1, Made DEF UserMessage
    <3> QED  BY <3>2
  <2> QED  BY <1>0, <1>2, <2>1 DEF SendMessage, TurnState
<1>3. CASE Converse(t)
  <2> DEFINE n == [r EXCEPT !.phase = "reading",
         !.blocks = <<>>, !.text = FALSE, !.tool = NoTool, !.stop = "none",
         !.reply = <<>>, !.open = "none", !.deltas = 0]
  <2>1. n \in TurnState  BY <1>0, <1>e, <1>n DEF TurnState
  <2>2. turn'[t] = n  BY <1>0, <1>3 DEF Converse
  <2> QED  BY <2>1, <2>2
<1>4. CASE ConverseFails(t) \/ ReadFails(t)
  <2>1. turn'[t] = [r EXCEPT !.phase = "ended", !.heard = Yields(t, Plain("error"))]
    BY <1>0, <1>4 DEF ConverseFails, ReadFails, Fails
  <2> QED  BY <1>q, <1>f, <2>1
<1>5. CASE ReadText(t)
  <2>1. r.deltas + 1 \in 0..MaxDeltas
    BY <1>0, <1>5, ReplyAssumption DEF ReadText, TurnState
  <2> QED  BY <1>0, <1>q, <1>n, <1>5, <2>1 DEF ReadText, TurnState
<1>6. CASE ReadToolStart(t)
  <2>1. <<r.rounds, Len(r.reply) + 1>> \in Id  BY <1>0, <1>b DEF TurnState, Id
  <2> QED  BY <1>0, <1>6, <2>1 DEF ReadToolStart, TurnState
<1>7. CASE ReadToolStop(t)
  <2>1. r.tool \in Id  BY <1>0 DEF TurnState
  <2>2. Append(r.blocks, Use(r.tool)) \in Seq(Block) /\ Append(r.reply, Use(r.tool)) \in Seq(Block)
    BY <1>b, <2>1, Made, AppendType
  <2>3. Yields(t, ForTool("tool_use", r.tool)) \in Seq(Chunk)  BY <1>y, <2>1
  <2>4. Use(r.tool).id = r.tool  BY DEF Use
  <2> QED  BY <1>0, <1>7, <1>e, <1>n, <2>2, <2>3, <2>4 DEF ReadToolStop, SeqAfterToolUse, TurnState
<1>8. CASE ReadTextStop(t)
  <2>1. Append(r.blocks, Text) \in Seq(Block) /\ Append(r.reply, Text) \in Seq(Block)
    BY <1>b, Made, AppendType
  <2> QED  BY <1>0, <1>8, <2>1 DEF ReadTextStop, TextAfterStop, TurnState
<1>9. ASSUME NEW reason \in StopReasons, ReadMessageStop(t, reason) PROVE turn'[t] \in TurnState
  <2>1. Append(r.blocks, Text) \in Seq(Block) /\ Append(r.reply, Text) \in Seq(Block)
    BY <1>b, Made, AppendType
  <2> QED  BY <1>0, <1>9, <2>1 DEF ReadMessageStop, TurnState
<1>10. CASE ReplyEndsTurn(t) \/ EndCapped(t)
  <2>1. turn'[t] = [r EXCEPT !.phase = "ended", !.heard = Yields(t, Plain("end_turn"))]
    BY <1>0, <1>10 DEF ReplyEndsTurn, EndCapped, EndTurn
  <2> QED  BY <1>q, <1>f, <2>1
<1>11. CASE ReplyHitsCap(t)
  BY <1>0, <1>q, <1>n, <1>11 DEF ReplyHitsCap, TurnState
<1>12. CASE ReplyWantsTools(t)
  <2>1. AssistantRecorded(t) \in Seq(Message)
    BY <1>b, Made, AppendType DEF AssistantRecorded
  <2> QED  BY <1>0, <1>e, <1>12, <2>1 DEF ReplyWantsTools, TurnState
<1>13. CASE RunTool(t)
  <2> DEFINE results == Append(r.results, Result(NextTool(t)))
  <2>1. NextTool(t) \in Id  BY <1>13, NextToolType DEF RunTool
  <2>2. results \in Seq(Block)  BY <1>b, <2>1, Made, AppendType
  <2>3. Append(r.messages, [role |-> "user", blocks |-> results]) \in Seq(Message)
    BY <1>b, <2>2, Made, AppendType
  <2>4. Yields(t, ForTool("tool_result", NextTool(t))) \in Seq(Chunk)  BY <1>y, <2>1
  <2> QED  BY <1>0, <1>13, <1>n, <2>2, <2>3, <2>4 DEF RunTool, TurnState
<1> QED
  BY <1>start, <1>1, <1>2, <1>3, <1>4, <1>5, <1>6, <1>7, <1>8, <1>9, <1>10, <1>11, <1>12, <1>13
  DEF TurnStep, StartRaises, Abandon

LEMMA InitTypes == Init => TypeOK /\ \A t \in Turns : ToolsLeft(t)
<1> SUFFICES ASSUME Init PROVE TypeOK /\ \A t \in Turns : ToolsLeft(t)
  OBVIOUS
<1>1. Fresh \in TurnState
  BY ReplyAssumption DEF Fresh, TurnState, NoTool, Id
<1> QED  BY <1>1 DEF Init, TypeOK, ToolsLeft, Fresh

-----------------------------------------------------------------------------
(* What the host has been shown, and what the model is told. *)

UseIds(bs) == [n \in DOMAIN Uses(bs) |-> Uses(bs)[n].id]
Answers(bs) == [n \in DOMAIN Uses(bs) |-> Result(Uses(bs)[n].id)]

\* Users and assistants alternate, and every assistant message that has been
\* answered has been answered with the results of its tools.
Talk(ms) ==
    \A i \in DOMAIN ms :
        /\ ms[i].role = IF i % 2 = 1 THEN "user" ELSE "assistant"
        /\ i % 2 = 0 /\ i + 1 \in DOMAIN ms => ms[i + 1].blocks = Answers(ms[i].blocks)

\* While tools run the results gathered are those of the first tools of the
\* assistant message that waits for them.
Told(t) ==
    LET r == turn[t]
    IN  /\ Talk(r.messages)
        /\ r.phase \in {"created", "calling", "reading", "capped"} => Len(r.messages) % 2 = 1
        /\ r.phase = "running" =>
             /\ r.messages # <<>> /\ Len(r.messages) % 2 = 0
             /\ r.messages[Len(r.messages)].blocks = r.blocks
             /\ \A n \in 1..Len(r.results) : r.results[n] = Answers(r.blocks)[n]

\* A reply has room for the block being written; while tools run, those of
\* this reply are all that the cap did not see.
Bounded(t) ==
    LET r == turn[t]
    IN  /\ r.calls = 0 \/ r.calls < Cap + MaxBlocks
        /\ r.phase \in {"reading", "running"} => Len(r.reply) <= MaxBlocks
        /\ r.phase = "reading" /\ r.stop = "none" /\ r.open # "none" => Len(r.reply) < MaxBlocks
        /\ r.phase = "running" => Len(r.results) <= r.calls /\ r.calls < Cap + Len(r.results)

\* `shown` are the ids of the uses and `done` those of the results that the host
\* was shown, `ids` those of the current reply, of which k have their result.
Ahead(shown, done, ids, k) ==
    /\ k <= Len(done) /\ k <= Len(ids) /\ Len(shown) = (Len(done) - k) + Len(ids)
    /\ \A i \in 1..Len(done) : shown[i] = done[i]
    /\ \A i \in (k + 1)..Len(ids) : shown[(Len(done) - k) + i] = ids[i]

Clean(chunks) == \A i \in DOMAIN chunks : chunks[i].type # "error"
Viewed(t) ==
    LET r == turn[t]
        shown == ChunkIds(t, "tool_use")
        done == ChunkIds(t, "tool_result")
    IN  /\ \A i \in DOMAIN r.heard : r.heard[i].seq = i - 1
        /\ r.phase # "ended" => r.seq = Len(r.heard)
        /\ r.phase \in {"none", "created", "calling"} => shown = done
        /\ r.phase \in {"reading", "capped"} => Ahead(shown, done, UseIds(r.blocks), 0)
        /\ r.phase = "running" => Ahead(shown, done, UseIds(r.blocks), Len(r.results))
        /\ IsPrefix(done, shown)
        /\ r.phase = "capped" => ~Clean(r.heard)
        /\ r.phase = "ended" /\ r.stop = "tool_use" /\ Clean(r.heard) => shown = done

Good(t) == ToolsLeft(t) /\ Told(t) /\ Bounded(t) /\ Viewed(t)

\* The ids of a list of things that have one are as many ids.
LEMMA IdsOf ==
  ASSUME NEW S, \A e \in S : e.id \in Id, NEW q \in Seq(S)
  PROVE  [n \in DOMAIN q |-> q[n].id] \in Seq(Id) /\ Len([n \in DOMAIN q |-> q[n].id]) = Len(q)
<1> DEFINE ids == [n \in 1..Len(q) |-> q[n].id]
<1>1. DOMAIN q = 1..Len(q) /\ Len(q) \in Nat  OBVIOUS
<1>2. \A n \in 1..Len(q) : q[n] \in S  OBVIOUS
<1>3. \A n \in 1..Len(q) : q[n].id \in Id  BY <1>2
<1>4. ids \in [1..Len(q) -> Id]  BY <1>3
<1> HIDE DEF ids
<1>5. ids \in Seq(Id) /\ Len(ids) = Len(q)
  <2>1. \A k \in Nat : \A f \in [1..k -> Id] : f \in Seq(Id) /\ Len(f) = k  OBVIOUS
  <2> QED  BY <1>1, <1>4, <2>1
<1> QED  BY <1>1, <1>5 DEF ids

LEMMA UseIdsType ==
  ASSUME NEW bs \in Seq(Block)
  PROVE  UseIds(bs) \in Seq(Id) /\ Len(UseIds(bs)) = Len(Uses(bs))
<1>1. Uses(bs) \in Seq(UseBlocks) /\ Len(Uses(bs)) \in Nat  BY UsesType
<1>2. \A e \in UseBlocks : e.id \in Id  BY DEF UseBlocks
<1> QED  BY <1>1, <1>2, IdsOf DEF UseIds

LEMMA UseIdsAppend ==
  ASSUME NEW bs \in Seq(Block), NEW b \in Block
  PROVE  UseIds(Append(bs, b)) = IF b \in UseBlocks THEN Append(UseIds(bs), b.id) ELSE UseIds(bs)
<1>1. Uses(bs) \in Seq(UseBlocks)  BY UsesType
<1>2. \A q \in Seq(UseBlocks), u \in UseBlocks :
        [n \in DOMAIN Append(q, u) |-> Append(q, u)[n].id] = Append([n \in DOMAIN q |-> q[n].id], u.id)
  OBVIOUS
<1>3. CASE b \in UseBlocks  BY <1>1, <1>2, <1>3, UsesAppend DEF UseIds
<1>4. CASE b \notin UseBlocks  BY <1>4, UsesAppend DEF UseIds
<1> QED  BY <1>3, <1>4

ToolChunks(type) == [type : {type}, seq : Nat, id : Id]

LEMMA IdsType ==
  ASSUME NEW cs \in Seq(Chunk), NEW type
  PROVE  Ids(cs, type) \in Seq(Id)
<1>1. Only(cs, ToolChunks(type)) \in Seq(Chunk \cap ToolChunks(type))  BY OnlyType
<1>2. \A e \in Chunk \cap ToolChunks(type) : e.id \in Id  BY DEF ToolChunks
<1>3. \A q \in Seq(Chunk \cap ToolChunks(type)) : [n \in DOMAIN q |-> q[n].id] \in Seq(Id)
  BY <1>2, IdsOf
<1> QED  BY <1>1, <1>3 DEF Ids, ToolChunks

LEMMA IdsAppend ==
  ASSUME NEW cs \in Seq(Chunk), NEW c \in Chunk, NEW type
  PROVE  Ids(Append(cs, c), type) =
           IF c \in ToolChunks(type) THEN Append(Ids(cs, type), c.id) ELSE Ids(cs, type)
<1>1. Only(cs, ToolChunks(type)) \in Seq(Chunk \cap ToolChunks(type))  BY OnlyType
<1>2. \A q \in Seq(Chunk \cap ToolChunks(type)), u \in Chunk :
        [n \in DOMAIN Append(q, u) |-> Append(q, u)[n].id] = Append([n \in DOMAIN q |-> q[n].id], u.id)
  OBVIOUS
<1>3. Only(Append(cs, c), ToolChunks(type)) =
        IF c \in ToolChunks(type) THEN Append(Only(cs, ToolChunks(type)), c) ELSE Only(cs, ToolChunks(type))
  BY OnlyAppend
<1>4. CASE c \in ToolChunks(type)  BY <1>1, <1>2, <1>3, <1>4 DEF Ids, ToolChunks
<1>5. CASE c \notin ToolChunks(type)  BY <1>3, <1>5 DEF Ids, ToolChunks
<1> QED  BY <1>4, <1>5

LEMMA AheadUse ==
  ASSUME NEW shown \in Seq(Id), NEW done \in Seq(Id), NEW ids \in Seq(Id), NEW id \in Id,
         Ahead(shown, done, ids, 0)
  PROVE  Ahead(Append(shown, id), done, Append(ids, id), 0)
<1> DEFINE s == Append(shown, id)  u == Append(ids, id)
<1>1. /\ s \in Seq(Id) /\ Len(s) = Len(shown) + 1 /\ s[Len(shown) + 1] = id
      /\ \A i \in 1..Len(shown) : s[i] = shown[i]
  OBVIOUS
<1>2. /\ u \in Seq(Id) /\ Len(u) = Len(ids) + 1 /\ u[Len(ids) + 1] = id
      /\ \A i \in 1..Len(ids) : u[i] = ids[i]
  OBVIOUS
<1>3. Len(done) \in Nat /\ Len(ids) \in Nat /\ Len(shown) \in Nat /\ Len(shown) = Len(done) + Len(ids)
  BY DEF Ahead
<1> HIDE DEF s, u
<1>4. \A i \in 1..Len(done) : s[i] = done[i]
  <2>1. \A i \in 1..Len(done) : i \in 1..Len(shown)  BY <1>3
  <2> QED  BY <1>1, <2>1 DEF Ahead
<1>5. ASSUME NEW i \in 1..Len(u) PROVE s[(Len(done) - 0) + i] = u[i]
  <2>1. CASE i = Len(ids) + 1  BY <1>1, <1>2, <1>3, <2>1
  <2>2. CASE i \in 1..Len(ids)
    <3>1. Len(done) + i \in 1..Len(shown) /\ (Len(done) - 0) + i = Len(done) + i  BY <1>3, <2>2
    <3>2. shown[(Len(done) - 0) + i] = ids[i]
      <4>1. i \in (0 + 1)..Len(ids)  BY <2>2
      <4> QED  BY <4>1 DEF Ahead
    <3> QED  BY <1>1, <1>2, <2>2, <3>1, <3>2
  <2> QED  BY <1>2, <1>3, <2>1, <2>2
<1>6. 0 <= Len(done) /\ 0 <= Len(u) /\ Len(s) = (Len(done) - 0) + Len(u)  BY <1>1, <1>2, <1>3
<1>7. \A i \in (0 + 1)..Len(u) : s[(Len(done) - 0) + i] = u[i]
  <2>1. \A i \in (0 + 1)..Len(u) : i \in 1..Len(u)  OBVIOUS
  <2> QED  BY <1>5, <2>1
<1>8. Ahead(s, done, u, 0)  BY <1>4, <1>6, <1>7 DEF Ahead
<1> QED  BY <1>8 DEF s, u

LEMMA AheadResult ==
  ASSUME NEW shown \in Seq(Id), NEW done \in Seq(Id), NEW ids \in Seq(Id), NEW k \in Nat,
         Ahead(shown, done, ids, k), k < Len(ids)
  PROVE  Ahead(shown, Append(done, ids[k + 1]), ids, k + 1)
<1> DEFINE new == Append(done, ids[k + 1])
<1>1. ids[k + 1] \in Id  OBVIOUS
<1>2. new \in Seq(Id) /\ Len(new) = Len(done) + 1 /\ new[Len(done) + 1] = ids[k + 1]
      /\ \A i \in 1..Len(done) : new[i] = done[i]
  BY <1>1
<1>3. Len(done) \in Nat /\ Len(ids) \in Nat /\ Len(shown) \in Nat  OBVIOUS
<1>4. shown[Len(done) + 1] = ids[k + 1]
  <2>1. k + 1 \in (k + 1)..Len(ids) /\ (Len(done) - k) + (k + 1) = Len(done) + 1  BY <1>3
  <2> QED  BY <2>1 DEF Ahead
<1> HIDE DEF new
<1>5. \A i \in 1..Len(new) : shown[i] = new[i]
  <2> SUFFICES ASSUME NEW i \in 1..Len(new) PROVE shown[i] = new[i]
    OBVIOUS
  <2>1. CASE i = Len(done) + 1  BY <1>2, <1>4, <2>1
  <2>2. CASE i \in 1..Len(done)  BY <1>2, <2>2 DEF Ahead
  <2> QED  BY <1>2, <1>3, <2>1, <2>2
<1>6. \A i \in (k + 2)..Len(ids) : shown[(Len(new) - (k + 1)) + i] = ids[i]
  <2>1. Len(new) - (k + 1) = Len(done) - k  BY <1>2, <1>3
  <2>2. \A i \in (k + 2)..Len(ids) : i \in (k + 1)..Len(ids)  BY <1>3
  <2> QED  BY <2>1, <2>2 DEF Ahead
<1>7. k + 1 <= Len(new) /\ k + 1 <= Len(ids) /\ Len(shown) = (Len(new) - (k + 1)) + Len(ids)
  BY <1>2, <1>3 DEF Ahead
<1>8. (k + 1) + 1 = k + 2  OBVIOUS
<1>9. Ahead(shown, new, ids, k + 1)  BY <1>5, <1>6, <1>7, <1>8 DEF Ahead
<1> QED  BY <1>9 DEF new

\* No result is missing when all of the reply's tools have run.
LEMMA AheadDone ==
  ASSUME NEW shown \in Seq(Id), NEW done \in Seq(Id), NEW ids \in Seq(Id),
         Ahead(shown, done, ids, Len(ids))
  PROVE  shown = done
<1>1. Len(shown) = Len(done)  BY DEF Ahead
<1>2. \A i \in 1..Len(done) : shown[i] = done[i]  BY DEF Ahead
<1> QED  BY <1>1, <1>2

LEMMA AheadStart ==
  ASSUME NEW shown \in Seq(Id)
  PROVE  Ahead(shown, shown, <<>>, 0)
  BY DEF Ahead

LEMMA AheadPrefix ==
  ASSUME NEW shown \in Seq(Id), NEW done \in Seq(Id), NEW ids \in Seq(Id), NEW k \in Nat,
         Ahead(shown, done, ids, k)
  PROVE  IsPrefix(done, shown)
<1>1. Len(done) \in Nat /\ Len(shown) \in Nat /\ Len(done) <= Len(shown)  BY DEF Ahead
<1>2. SubSeq(done, 1, Len(done)) = SubSeq(shown, 1, Len(done))
  <2>1. /\ SubSeq(done, 1, Len(done)) \in Seq(Id) /\ Len(SubSeq(done, 1, Len(done))) = Len(done)
        /\ \A i \in 1..Len(done) : SubSeq(done, 1, Len(done))[i] = done[i]
    OBVIOUS
  <2>2. /\ SubSeq(shown, 1, Len(done)) \in Seq(Id) /\ Len(SubSeq(shown, 1, Len(done))) = Len(done)
        /\ \A i \in 1..Len(done) : SubSeq(shown, 1, Len(done))[i] = shown[i]
    BY <1>1
  <2>3. \A i \in 1..Len(done) : shown[i] = done[i]  BY DEF Ahead
  <2> DEFINE a == SubSeq(done, 1, Len(done))  b == SubSeq(shown, 1, Len(done))
  <2> HIDE DEF a, b
  <2>4. a \in Seq(Id) /\ b \in Seq(Id) /\ Len(a) = Len(b) /\ \A i \in 1..Len(a) : a[i] = b[i]
    BY <2>1, <2>2, <2>3 DEF a, b
  <2>5. a = b  BY <2>4
  <2> QED  BY <2>5 DEF a, b
<1> QED  BY <1>1, <1>2 DEF IsPrefix

\* The next message of a conversation, in its turn and with its answers.
LEMMA TalkAppend ==
  ASSUME NEW ms \in Seq(Message), NEW m \in Message, Talk(ms),
         m.role = IF (Len(ms) + 1) % 2 = 1 THEN "user" ELSE "assistant",
         Len(ms) > 0 /\ Len(ms) % 2 = 0 => m.blocks = Answers(ms[Len(ms)].blocks)
  PROVE  Talk(Append(ms, m))
<1> DEFINE new == Append(ms, m)
<1>1. /\ Len(ms) \in Nat /\ DOMAIN new = 1..(Len(ms) + 1) /\ new[Len(ms) + 1] = m
      /\ \A i \in 1..Len(ms) : new[i] = ms[i] /\ i \in DOMAIN ms
  OBVIOUS
<1> HIDE DEF new
<1> SUFFICES ASSUME NEW i \in DOMAIN new
             PROVE  /\ new[i].role = IF i % 2 = 1 THEN "user" ELSE "assistant"
                    /\ i % 2 = 0 /\ i + 1 \in DOMAIN new => new[i + 1].blocks = Answers(new[i].blocks)
  BY DEF Talk, new
<1>2. CASE i = Len(ms) + 1  BY <1>1, <1>2
<1>3. CASE i \in 1..Len(ms)
  <2>1. new[i].role = IF i % 2 = 1 THEN "user" ELSE "assistant"  BY <1>1, <1>3 DEF Talk
  <2>2. CASE i = Len(ms)  BY <1>1, <1>3, <2>1, <2>2
  <2>3. CASE i # Len(ms)
    <3>1. i + 1 \in 1..Len(ms)  BY <1>1, <1>3, <2>3
    <3> QED  BY <1>1, <1>3, <2>1, <3>1 DEF Talk
  <2> QED  BY <2>2, <2>3
<1> QED  BY <1>1, <1>2, <1>3

-----------------------------------------------------------------------------
(* What a step of a turn does to the conversation and to the cap. *)

\* The answers to the tools of a list of blocks, one by one.
LEMMA AnswersType ==
  ASSUME NEW bs \in Seq(Block)
  PROVE  /\ DOMAIN Answers(bs) = 1..Len(Uses(bs))
         /\ \A n \in 1..Len(Uses(bs)) : Answers(bs)[n] = Result(Uses(bs)[n].id)
<1>1. Uses(bs) \in Seq(UseBlocks)  BY UsesType
<1>2. DOMAIN Uses(bs) = 1..Len(Uses(bs))  BY <1>1
<1> QED  BY <1>2 DEF Answers

\* All the results gathered are all the answers.
LEMMA AllAnswered ==
  ASSUME NEW bs \in Seq(Block), NEW rs \in Seq(Block), Len(rs) = Len(Uses(bs)),
         \A n \in 1..Len(rs) : rs[n] = Answers(bs)[n]
  PROVE  rs = Answers(bs)
<1>1. rs = [n \in 1..Len(rs) |-> rs[n]]  OBVIOUS
<1>2. Answers(bs) = [n \in 1..Len(Uses(bs)) |-> Answers(bs)[n]]
  <2>1. Answers(bs) = [n \in DOMAIN Answers(bs) |-> Answers(bs)[n]]  BY DEF Answers
  <2> QED  BY <2>1, AnswersType
<1> QED  BY <1>1, <1>2

LEMMA Parity == \A k \in Nat : /\ k % 2 = 1 => (k + 1) % 2 = 0 /\ (k + 1) % 2 # 1 /\ k % 2 # 0
                               /\ k % 2 = 0 => (k + 1) % 2 = 1
  OBVIOUS

Asking == {"created", "calling", "reading", "capped"}

LEMMA TurnStepTold ==
  ASSUME TypeOK, NEW t \in Turns, ToolsLeft(t), Told(t), TurnStep(t) \/ SendMessage(t) \/ Abandon(t)
  PROVE  ToolsLeft(t)' /\ Told(t)'
<1> DEFINE r == turn[t]  n == turn'[t]
<1>0. r \in TurnState /\ DOMAIN turn = Turns
  BY DEF TypeOK
<1>b. r.blocks \in Seq(Block) /\ r.results \in Seq(Block) /\ r.messages \in Seq(Message)
  BY <1>0 DEF TurnState
<1>q. ASSUME n.messages = r.messages, n.phase # "running", n.phase \in Asking => r.phase \in Asking
      PROVE  ToolsLeft(t)' /\ Told(t)'
  BY <1>q DEF ToolsLeft, Told, Asking
<1>start. CASE StartStream(t)
  <2>1. n.messages = r.messages /\ n.phase = "calling" /\ r.phase = "created"
    BY <1>0, <1>start DEF StartStream, Becomes, TurnState
  <2> QED  BY <2>1, <1>q DEF Asking
<1>1. ASSUME NEW from, NEW to \in {"dropped", "raised"}, Goto(t, from, to)
      PROVE  ToolsLeft(t)' /\ Told(t)'
  <2>1. n = [r EXCEPT !.phase = to] /\ r.phase = from  BY <1>0, <1>1 DEF Goto, Becomes
  <2>2. n.messages = r.messages /\ n.phase = to  BY <1>0, <2>1 DEF TurnState
  <2> QED  BY <1>1, <2>1, <2>2, <1>q DEF Asking
<1>2. CASE SendMessage(t)
  <2>1. n.messages = <<UserMessage>> /\ n.phase = "created"
    BY <1>0, <1>2 DEF SendMessage, Becomes, TurnState
  <2>2. Talk(<<UserMessage>>)  BY DEF Talk, UserMessage
  <2> QED  BY <2>1, <2>2 DEF ToolsLeft, Told
<1>3. CASE Converse(t)
  <2>1. n.messages = r.messages /\ n.phase = "reading" /\ r.phase = "calling"
    BY <1>0, <1>3 DEF Converse, Becomes, TurnState
  <2> QED  BY <2>1, <1>q DEF Asking
<1>4. CASE ConverseFails(t) \/ ReadFails(t) \/ ReplyEndsTurn(t) \/ EndCapped(t)
  <2>1. n.messages = r.messages /\ n.phase = "ended"
    BY <1>0, <1>4 DEF ConverseFails, ReadFails, Fails, ReplyEndsTurn, EndCapped, EndTurn, Becomes, TurnState
  <2> QED  BY <2>1, <1>q DEF Asking
<1>5. CASE \/ ReadText(t) \/ ReadToolStart(t) \/ ReadToolStop(t) \/ ReadTextStop(t)
           \/ \E reason \in StopReasons : ReadMessageStop(t, reason)
  <2>1. n.messages = r.messages /\ n.phase = "reading" /\ r.phase = "reading"
    <3>1. CASE ReadText(t)       BY <1>0, <3>1 DEF ReadText, Reading, Becomes, TurnState
    <3>2. CASE ReadToolStart(t)  BY <1>0, <3>2 DEF ReadToolStart, Reading, Becomes, TurnState
    <3>3. CASE ReadToolStop(t)   BY <1>0, <3>3 DEF ReadToolStop, Reading, Becomes, TurnState
    <3>4. CASE ReadTextStop(t)   BY <1>0, <3>4 DEF ReadTextStop, Reading, Becomes, TurnState
    <3>5. ASSUME NEW reason \in StopReasons, ReadMessageStop(t, reason)
          PROVE  n.messages = r.messages /\ n.phase = "reading" /\ r.phase = "reading"
      BY <1>0, <3>5 DEF ReadMessageStop, Reading, Becomes, TurnState
    <3> QED  BY <1>5, <3>1, <3>2, <3>3, <3>4, <3>5
  <2> QED  BY <2>1, <1>q DEF Asking
<1>6. CASE ReplyHitsCap(t)
  <2>1. n.messages = r.messages /\ n.phase = "capped" /\ r.phase = "reading"
    BY <1>0, <1>6 DEF ReplyHitsCap, Becomes, TurnState
  <2> QED  BY <2>1, <1>q DEF Asking
<1>7. CASE ReplyWantsTools(t)
  <2> DEFINE own == [role |-> "assistant", blocks |-> r.blocks]
  <2>1. /\ n.messages = Append(r.messages, own) /\ n.phase = "running" /\ r.phase = "reading"
        /\ n.blocks = r.blocks /\ n.results = <<>> /\ Len(Uses(r.blocks)) > 0
    BY <1>0, <1>7 DEF ReplyWantsTools, WantsTools, AssistantRecorded, Becomes, TurnState
  <2>2. own \in Message /\ own.role = "assistant" /\ own.blocks = r.blocks  BY <1>b, Made
  <2> HIDE DEF own
  <2>3. Talk(r.messages) /\ Len(r.messages) % 2 = 1  BY <2>1 DEF Told
  <2>4. /\ Len(r.messages) \in Nat /\ (Len(r.messages) + 1) % 2 = 0
        /\ (Len(r.messages) + 1) % 2 # 1 /\ Len(r.messages) % 2 # 0
    <3>1. Len(r.messages) \in Nat  BY <1>b
    <3> QED  BY <2>3, <3>1, Parity
  <2>5. Talk(Append(r.messages, own))
    <3>1. own.role = IF (Len(r.messages) + 1) % 2 = 1 THEN "user" ELSE "assistant"  BY <2>2, <2>4
    <3>2. ~(Len(r.messages) % 2 = 0)  BY <2>4
    <3> QED  BY <1>b, <2>2, <2>3, <3>1, <3>2, TalkAppend
  <2>6. /\ Len(Append(r.messages, own)) = Len(r.messages) + 1
        /\ Append(r.messages, own)[Len(r.messages) + 1] = own /\ Append(r.messages, own) # <<>>
    BY <1>b, <2>2
  <2>7. Told(t)'
    <3>1. Len(n.messages) % 2 = 0 /\ n.messages # <<>>  BY <2>1, <2>4, <2>6
    <3>2. n.messages[Len(n.messages)].blocks = n.blocks  BY <2>1, <2>2, <2>6
    <3>3. Talk(n.messages)  BY <2>1, <2>5
    <3>4. \A m \in 1..Len(n.results) : n.results[m] = Answers(n.blocks)[m]
      <4>1. Len(n.results) = 0  BY <2>1
      <4> QED  BY <4>1
    <3> QED  BY <2>1, <3>1, <3>2, <3>3, <3>4 DEF Told
  <2>8. ToolsLeft(t)'  BY <2>1 DEF ToolsLeft
  <2> QED  BY <2>7, <2>8
<1>8. CASE RunTool(t)
  <2> DEFINE k == Len(r.results)  result == Result(NextTool(t))
             results == Append(r.results, result)  told == [role |-> "user", blocks |-> results]
  <2>1. r.phase = "running" /\ n.blocks = r.blocks /\ n.results = results
    BY <1>0, <1>8 DEF RunTool, Becomes, TurnState
  <2>2. /\ n.phase = IF LastTool(t) THEN "calling" ELSE "running"
        /\ n.messages = IF LastTool(t) THEN Append(r.messages, told) ELSE r.messages
    BY <1>0, <1>8 DEF RunTool, Becomes, TurnState
  <2>3. result \in Block  BY <1>8, NextToolType, Made DEF RunTool
  <2>4. k \in Nat /\ Len(Uses(r.blocks)) \in Nat /\ k < Len(Uses(r.blocks))
    BY <1>b, <2>1, UsesType DEF ToolsLeft
  <2>5. result = Answers(r.blocks)[k + 1]
    <3>1. k + 1 \in 1..Len(Uses(r.blocks))  BY <2>4
    <3> QED  BY <1>b, <3>1, AnswersType DEF NextTool
  <2>6. /\ Talk(r.messages) /\ r.messages # <<>> /\ Len(r.messages) % 2 = 0
        /\ r.messages[Len(r.messages)].blocks = r.blocks
        /\ \A m \in 1..k : r.results[m] = Answers(r.blocks)[m]
    BY <2>1 DEF Told
  <2> HIDE DEF result
  <2>7. results \in Seq(Block) /\ Len(results) = k + 1
    BY <1>b, <2>3
  <2>8. \A m \in 1..Len(results) : results[m] = Answers(r.blocks)[m]
    <3>1. \A m \in 1..k : results[m] = r.results[m]  BY <1>b, <2>3
    <3>2. results[k + 1] = result  BY <1>b, <2>3
    <3>3. \A m \in 1..(k + 1) : m \in 1..k \/ m = k + 1  BY <2>4
    <3> HIDE DEF results, k
    <3> QED  BY <2>5, <2>6, <2>7, <3>1, <3>2, <3>3
  <2>9. told \in Message /\ told.role = "user" /\ told.blocks = results  BY <2>7, Made
  <2> HIDE DEF results, told
  <2>10. CASE LastTool(t)
    <3>1. Len(results) = Len(Uses(r.blocks))  BY <2>7, <2>10 DEF LastTool
    <3>2. results = Answers(r.blocks)  BY <1>b, <2>7, <2>8, <3>1, AllAnswered
    <3>3. Len(r.messages) \in Nat /\ (Len(r.messages) + 1) % 2 = 1
      <4>1. Len(r.messages) \in Nat  BY <1>b
      <4> QED  BY <2>6, <4>1, Parity
    <3>4. Talk(Append(r.messages, told))  BY <1>b, <2>6, <2>9, <3>2, <3>3, TalkAppend
    <3>5. Len(Append(r.messages, told)) = Len(r.messages) + 1  BY <1>b, <2>9
    <3> QED  BY <2>2, <2>10, <3>3, <3>4, <3>5 DEF ToolsLeft, Told
  <2>11. CASE ~LastTool(t)
    <3>1. Len(results) < Len(Uses(r.blocks))  BY <2>4, <2>7, <2>11 DEF LastTool
    <3> QED  BY <2>1, <2>2, <2>6, <2>8, <2>11, <3>1 DEF ToolsLeft, Told
  <2> QED  BY <2>10, <2>11
<1> QED
  BY <1>start, <1>1, <1>2, <1>3, <1>4, <1>5, <1>6, <1>7, <1>8 DEF TurnStep, StartRaises, Abandon

LEMMA TurnStepBounded ==
  ASSUME TypeOK, NEW t \in Turns, ToolsLeft(t), Mirrored(t), Bounded(t),
         TurnStep(t) \/ SendMessage(t) \/ Abandon(t)
  PROVE  Bounded(t)'
<1> DEFINE r == turn[t]  n == turn'[t]
<1>0. r \in TurnState /\ DOMAIN turn = Turns
  BY DEF TypeOK
<1>b. /\ r.blocks \in Seq(Block) /\ r.results \in Seq(Block) /\ r.reply \in Seq(Block)
      /\ r.calls \in Nat /\ Len(r.reply) \in Nat /\ Cap \in Nat \ {0} /\ MaxBlocks \in Nat
  BY <1>0, CapAssumption, ReplyAssumption DEF TurnState
<1>q. ASSUME n.calls = r.calls, n.phase \notin {"reading", "running"} PROVE Bounded(t)'
  BY <1>q DEF Bounded
<1>g. ASSUME n.calls = r.calls, n.phase = "reading", Len(n.reply) <= MaxBlocks,
             n.stop = "none" /\ n.open # "none" => Len(n.reply) < MaxBlocks
      PROVE  Bounded(t)'
  BY <1>g DEF Bounded
<1>a. \A b \in Block : Len(Append(r.reply, b)) = Len(r.reply) + 1  BY <1>b
<1>m. \A id : Text \in Block /\ (id \in Id => Use(id) \in Block)  BY Made
<1> USE DEF Becomes
<1>start. CASE StartStream(t)
  <2>1. n.calls = r.calls /\ n.phase = "calling"  BY <1>0, <1>start DEF StartStream, TurnState
  <2> QED  BY <2>1, <1>q
<1>1. ASSUME NEW from, NEW to \in {"dropped", "raised"}, Goto(t, from, to) PROVE Bounded(t)'
  <2>1. n.calls = r.calls /\ n.phase = to  BY <1>0, <1>1 DEF Goto, TurnState
  <2> QED  BY <2>1, <1>q
<1>2. CASE \/ SendMessage(t) \/ ConverseFails(t) \/ ReadFails(t) \/ ReplyEndsTurn(t) \/ EndCapped(t)
           \/ ReplyHitsCap(t)
  <2>1. n.calls = r.calls /\ n.phase \in {"created", "ended", "capped"}
    BY <1>0, <1>2 DEF SendMessage, ConverseFails, ReadFails, Fails, ReplyEndsTurn, EndCapped, EndTurn,
       ReplyHitsCap, TurnState
  <2> QED  BY <2>1, <1>q
<1>3. CASE Converse(t)
  <2>1. n.calls = r.calls /\ n.phase = "reading" /\ n.reply = <<>> /\ n.open = "none"
    BY <1>0, <1>3 DEF Converse, TurnState
  <2> QED  BY <1>b, <2>1, <1>g
<1>4. CASE ReadText(t) \/ ReadToolStart(t)
  <2>1. /\ n.calls = r.calls /\ n.phase = "reading" /\ n.reply = r.reply
        /\ r.phase = "reading" /\ r.stop = "none" /\ (NewBlock(t) \/ r.open = "text")
    BY <1>0, <1>4 DEF ReadText, ReadToolStart, Reading, TurnState
  <2>2. Len(r.reply) < MaxBlocks  BY <2>1 DEF NewBlock, Bounded
  <2> QED  BY <1>b, <2>1, <2>2, <1>g
<1>5. CASE ReadToolStop(t) \/ ReadTextStop(t)
  <2>1. /\ n.calls = r.calls /\ n.phase = "reading" /\ n.open = "none"
        /\ r.phase = "reading" /\ r.stop = "none" /\ r.open # "none"
    BY <1>0, <1>5 DEF ReadToolStop, ReadTextStop, Reading, TurnState
  <2>2. n.reply = Append(r.reply, Use(r.tool)) \/ n.reply = Append(r.reply, Text)
    BY <1>0, <1>5 DEF ReadToolStop, ReadTextStop, TurnState
  <2>3. r.tool \in Id  BY <1>0 DEF TurnState
  <2>4. Len(n.reply) = Len(r.reply) + 1  BY <2>2, <2>3, <1>a, <1>m
  <2>5. Len(r.reply) < MaxBlocks  BY <2>1 DEF Bounded
  <2> QED  BY <1>b, <2>1, <2>4, <2>5, <1>g
<1>6. ASSUME NEW reason \in StopReasons, ReadMessageStop(t, reason) PROVE Bounded(t)'
  <2>1. /\ n.calls = r.calls /\ n.phase = "reading" /\ n.open = "none"
        /\ r.phase = "reading" /\ r.stop = "none"
        /\ n.reply = IF r.open = "text" THEN Append(r.reply, Text) ELSE r.reply
    BY <1>0, <1>6 DEF ReadMessageStop, Reading, TurnState
  <2>2. Len(n.reply) <= MaxBlocks
    <3>1. CASE r.open = "text"
      <4>1. Len(r.reply) < MaxBlocks  BY <2>1, <3>1 DEF Bounded
      <4>2. Len(n.reply) = Len(r.reply) + 1  BY <2>1, <3>1, <1>a, <1>m
      <4> QED  BY <1>b, <4>1, <4>2
    <3>2. CASE r.open # "text"  BY <2>1, <3>2 DEF Bounded
    <3> QED  BY <3>1, <3>2
  <2> QED  BY <2>1, <2>2, <1>g
<1>7. CASE ReplyWantsTools(t)
  <2>1. /\ n.calls = r.calls /\ n.phase = "running" /\ n.results = <<>> /\ n.reply = r.reply
        /\ r.phase = "reading" /\ ~CapReached(t)
    BY <1>0, <1>7 DEF ReplyWantsTools, TurnState
  <2>2. r.calls < Cap /\ Len(r.reply) <= MaxBlocks  BY <1>b, <2>1 DEF CapReached, Bounded
  <2>3. n.calls = 0 \/ n.calls < Cap + MaxBlocks  BY <1>b, <2>1, <2>2
  <2>4. Len(n.results) = 0 /\ 0 <= n.calls /\ n.calls < Cap + 0  BY <1>b, <2>1, <2>2
  <2> QED  BY <2>1, <2>2, <2>3, <2>4 DEF Bounded
<1>8. CASE RunTool(t)
  <2>1. /\ n.calls = r.calls + 1 /\ n.phase # "reading" /\ n.reply = r.reply /\ r.phase = "running"
        /\ n.results = Append(r.results, Result(NextTool(t)))
    BY <1>0, <1>8 DEF RunTool, TurnState
  <2>2. Len(n.results) = Len(r.results) + 1
    <3>1. Result(NextTool(t)) \in Block  BY <2>1, NextToolType, Made
    <3> QED  BY <1>b, <2>1, <3>1
  <2>3. Len(r.results) \in Nat /\ Len(Uses(r.blocks)) \in Nat /\ Len(Uses(r.blocks)) <= Len(r.reply)
    BY <1>b, <2>1, UsesType DEF Mirrored
  <2>4. /\ Len(r.results) < Len(Uses(r.blocks)) /\ Len(r.reply) <= MaxBlocks
        /\ Len(r.results) <= r.calls /\ r.calls < Cap + Len(r.results)
    BY <2>1 DEF ToolsLeft, Bounded
  <2>5. n.calls < Cap + MaxBlocks  BY <1>b, <2>1, <2>3, <2>4
  <2>6. Len(n.results) <= n.calls /\ n.calls < Cap + Len(n.results)  BY <1>b, <2>1, <2>2, <2>3, <2>4
  <2> QED  BY <2>1, <2>4, <2>5, <2>6 DEF Bounded
<1> QED
  BY <1>start, <1>1, <1>2, <1>3, <1>4, <1>5, <1>6, <1>7, <1>8 DEF TurnStep, StartRaises, Abandon

-----------------------------------------------------------------------------
(* What a step of a turn shows the host. *)

Numbered(h) == \A i \in DOMAIN h : h[i].seq = i - 1

\* A chunk made when seq counts the chunks yielded keeps them numbered.
LEMMA NumberedAppend ==
  ASSUME NEW h \in Seq(Chunk), NEW c \in Chunk, Numbered(h), c.seq = Len(h)
  PROVE  Numbered(Append(h, c)) /\ Len(Append(h, c)) = Len(h) + 1
<1> DEFINE new == Append(h, c)
<1>1. /\ Len(h) \in Nat /\ DOMAIN new = 1..(Len(h) + 1) /\ Len(new) = Len(h) + 1 /\ new[Len(h) + 1] = c
      /\ \A i \in 1..Len(h) : new[i] = h[i] /\ i \in DOMAIN h
  OBVIOUS
<1> HIDE DEF new
<1>2. ASSUME NEW i \in DOMAIN new PROVE new[i].seq = i - 1
  <2>1. CASE i = Len(h) + 1  BY <1>1, <2>1
  <2>2. CASE i \in 1..Len(h)  BY <1>1, <2>2 DEF Numbered
  <2> QED  BY <1>1, <2>1, <2>2
<1> QED  BY <1>1, <1>2 DEF Numbered, new

LEMMA CleanAppend ==
  ASSUME NEW h \in Seq(Chunk), NEW c \in Chunk
  PROVE  Clean(Append(h, c)) <=> Clean(h) /\ c.type # "error"
<1> DEFINE new == Append(h, c)
<1>1. /\ Len(h) \in Nat /\ DOMAIN new = 1..(Len(h) + 1) /\ new[Len(h) + 1] = c /\ DOMAIN h = 1..Len(h)
      /\ \A i \in 1..Len(h) : new[i] = h[i]
  OBVIOUS
<1> HIDE DEF new
<1>2. \A i \in 1..(Len(h) + 1) : i \in 1..Len(h) \/ i = Len(h) + 1  BY <1>1
<1>3. \A i \in 1..Len(h) : i \in 1..(Len(h) + 1)  BY <1>1
<1>4. Len(h) + 1 \in 1..(Len(h) + 1)  BY <1>1
<1>5. Clean(new) <=> Clean(h) /\ c.type # "error"  BY <1>1, <1>2, <1>3, <1>4 DEF Clean
<1> QED  BY <1>5 DEF new

\* Which chunks are shown as the ids of tools.
LEMMA IdsOfPlain ==
  ASSUME NEW h \in Seq(Chunk), NEW type \in {"text_delta", "error", "end_turn"}, NEW n \in Nat, NEW kind
  PROVE  Ids(Append(h, [Plain(type) EXCEPT !.seq = n]), kind) = Ids(h, kind)
<1> DEFINE c == [Plain(type) EXCEPT !.seq = n]
<1>1. c \in Chunk  BY Made
<1>2. c \notin ToolChunks(kind)
  <2>1. DOMAIN c = {"type", "seq"}  BY DEF Plain
  <2>2. \A d \in ToolChunks(kind) : "id" \in DOMAIN d  BY DEF ToolChunks
  <2> HIDE DEF c
  <2>3. "id" \notin DOMAIN c  BY <2>1
  <2> QED  BY <2>2, <2>3
<1> HIDE DEF c
<1>3. Ids(Append(h, c), kind) = Ids(h, kind)  BY <1>1, <1>2, IdsAppend
<1> QED  BY <1>3 DEF c

LEMMA IdsOfTool ==
  ASSUME NEW h \in Seq(Chunk), NEW type \in {"tool_use", "tool_result"}, NEW id \in Id, NEW n \in Nat, NEW kind
  PROVE  Ids(Append(h, [ForTool(type, id) EXCEPT !.seq = n]), kind) =
           IF kind = type THEN Append(Ids(h, kind), id) ELSE Ids(h, kind)
<1> DEFINE c == [ForTool(type, id) EXCEPT !.seq = n]
<1>1. c \in Chunk  BY Made
<1>2. c.type = type /\ c.id = id /\ c = [type |-> type, seq |-> n, id |-> id]  BY DEF ForTool
<1>3. c \in ToolChunks(kind) <=> kind = type
  <2>1. kind = type => c \in ToolChunks(kind)  BY <1>2 DEF ToolChunks
  <2>2. \A d \in ToolChunks(kind) : d.type = kind  BY DEF ToolChunks
  <2> QED  BY <1>2, <2>1, <2>2
<1> HIDE DEF c
<1>4. Ids(Append(h, c), kind) = IF kind = type THEN Append(Ids(h, kind), id) ELSE Ids(h, kind)
  BY <1>1, <1>2, <1>3, IdsAppend
<1> QED  BY <1>4 DEF c

LEMMA PrefixOfItself == \A ids \in Seq(Id) : IsPrefix(ids, ids)
<1> TAKE ids \in Seq(Id)
<1>1. Ahead(ids, ids, <<>>, 0) /\ <<>> \in Seq(Id) /\ 0 \in Nat  BY AheadStart
<1> QED  BY <1>1, AheadPrefix

LEMMA NoUses == UseIds(<<>>) = <<>>
<1>1. Uses(<<>>) = <<>>  BY OnlyEmpty DEF Uses
<1> QED  BY <1>1 DEF UseIds

LEMMA TurnStepViewed ==
  ASSUME TypeOK, NEW t \in Turns, ToolsLeft(t), Viewed(t), TurnStep(t) \/ SendMessage(t) \/ Abandon(t)
  PROVE  Viewed(t)'
<1> DEFINE r == turn[t]  n == turn'[t]
           shown == Ids(r.heard, "tool_use")  done == Ids(r.heard, "tool_result")
<1>0. r \in TurnState /\ DOMAIN turn = Turns
  BY DEF TypeOK
<1>b. /\ r.blocks \in Seq(Block) /\ r.results \in Seq(Block) /\ r.heard \in Seq(Chunk) /\ r.seq \in Nat
      /\ r.tool \in Id
  BY <1>0 DEF TurnState
<1>i. shown \in Seq(Id) /\ done \in Seq(Id) /\ UseIds(r.blocks) \in Seq(Id) /\ 0 \in Nat
  BY <1>b, IdsType, UseIdsType
<1>v. /\ Numbered(r.heard) /\ (r.phase # "ended" => r.seq = Len(r.heard)) /\ IsPrefix(done, shown)
      /\ (r.phase \in {"none", "created", "calling"} => shown = done)
      /\ (r.phase \in {"reading", "capped"} => Ahead(shown, done, UseIds(r.blocks), 0))
      /\ (r.phase = "running" => Ahead(shown, done, UseIds(r.blocks), Len(r.results)))
  BY DEF Viewed, ChunkIds, Numbered
<1>w. (r.phase = "capped" => ~Clean(r.heard))
  BY DEF Viewed
\* What each kind of chunk changes of the view.
<1>p. ASSUME NEW type \in {"text_delta", "error", "end_turn"}, n.heard = Yields(t, Plain(type)), r.phase # "ended"
      PROVE  /\ Ids(n.heard, "tool_use") = shown /\ Ids(n.heard, "tool_result") = done
             /\ Numbered(n.heard) /\ Len(n.heard) = r.seq + 1
             /\ Clean(n.heard) <=> Clean(r.heard) /\ type # "error"
  <2> DEFINE c == [Plain(type) EXCEPT !.seq = r.seq]
  <2>1. c \in Chunk  BY <1>b, Made
  <2>2. c.seq = Len(r.heard) /\ c.type = type  BY <1>p, <1>v DEF Plain
  <2>3. n.heard = Append(r.heard, c)  BY <1>p DEF Yields
  <2>4. Ids(Append(r.heard, c), "tool_use") = shown /\ Ids(Append(r.heard, c), "tool_result") = done
    BY <1>b, IdsOfPlain
  <2> HIDE DEF c
  <2>5. Numbered(Append(r.heard, c)) /\ Len(Append(r.heard, c)) = Len(r.heard) + 1
    BY <1>b, <1>v, <2>1, <2>2, NumberedAppend
  <2>6. Clean(Append(r.heard, c)) <=> Clean(r.heard) /\ type # "error"
    BY <1>b, <2>1, <2>2, CleanAppend
  <2> QED  BY <1>p, <1>v, <2>3, <2>4, <2>5, <2>6
<1>c. ASSUME NEW type \in {"tool_use", "tool_result"}, NEW id \in Id,
             n.heard = Yields(t, ForTool(type, id)), r.phase # "ended"
      PROVE  /\ Ids(n.heard, "tool_use") = IF type = "tool_use" THEN Append(shown, id) ELSE shown
             /\ Ids(n.heard, "tool_result") = IF type = "tool_result" THEN Append(done, id) ELSE done
             /\ Numbered(n.heard) /\ Len(n.heard) = r.seq + 1
  <2> DEFINE c == [ForTool(type, id) EXCEPT !.seq = r.seq]
  <2>1. c \in Chunk  BY <1>b, Made
  <2>2. c.seq = Len(r.heard)  BY <1>c, <1>v DEF ForTool
  <2>3. n.heard = Append(r.heard, c)  BY <1>c DEF Yields
  <2>4. /\ Ids(Append(r.heard, c), "tool_use") = IF "tool_use" = type THEN Append(shown, id) ELSE shown
        /\ Ids(Append(r.heard, c), "tool_result") = IF "tool_result" = type THEN Append(done, id) ELSE done
    <3>1. \A kind : Ids(Append(r.heard, c), kind) =
                      IF kind = type THEN Append(Ids(r.heard, kind), id) ELSE Ids(r.heard, kind)
      BY <1>b, <1>c, IdsOfTool
    <3> HIDE DEF c
    <3> QED  BY <3>1
  <2> HIDE DEF c
  <2>5. Numbered(Append(r.heard, c)) /\ Len(Append(r.heard, c)) = Len(r.heard) + 1
    BY <1>b, <1>v, <2>1, <2>2, NumberedAppend
  <2> QED  BY <1>c, <1>v, <2>3, <2>4, <2>5
<1>start. CASE StartStream(t)
  <2>1. n.heard = r.heard /\ n.seq = r.seq /\ n.phase = "calling" /\ r.phase = "created"
    BY <1>0, <1>start DEF StartStream, Becomes, TurnState
  <2> QED  BY <1>v, <2>1 DEF Viewed, ChunkIds, Numbered
<1>1. ASSUME NEW from, NEW to \in {"dropped", "raised"}, Goto(t, from, to), from # "ended"
      PROVE  Viewed(t)'
  <2>1. n.heard = r.heard /\ n.seq = r.seq /\ n.phase = to /\ r.phase = from
    BY <1>0, <1>1 DEF Goto, Becomes, TurnState
  <2> QED  BY <1>1, <1>v, <2>1 DEF Viewed, ChunkIds, Numbered
<1>2. CASE SendMessage(t)
  <2>1. n.heard = r.heard /\ n.seq = r.seq /\ n.phase = "created" /\ r.phase = "none"
    BY <1>0, <1>2 DEF SendMessage, Becomes, TurnState
  <2> QED  BY <1>v, <2>1 DEF Viewed, ChunkIds, Numbered
<1>3. CASE Converse(t)
  <2>1. n.heard = r.heard /\ n.seq = r.seq /\ n.phase = "reading" /\ n.blocks = <<>> /\ r.phase = "calling"
    BY <1>0, <1>3 DEF Converse, Becomes, TurnState
  <2>2. Ahead(shown, done, UseIds(n.blocks), 0)
    <3>1. shown = done  BY <1>v, <2>1
    <3>2. UseIds(n.blocks) = <<>>  BY <2>1, NoUses
    <3>3. Ahead(shown, shown, <<>>, 0)  BY <1>i, AheadStart
    <3> QED  BY <3>1, <3>2, <3>3
  <2> QED  BY <1>v, <2>1, <2>2 DEF Viewed, ChunkIds, Numbered
<1>4. CASE ConverseFails(t) \/ ReadFails(t)
  <2>1. n.heard = Yields(t, Plain("error")) /\ n.phase = "ended" /\ r.phase # "ended"
    BY <1>0, <1>4 DEF ConverseFails, ReadFails, Fails, Becomes, TurnState
  <2> QED  BY <1>p, <1>v, <2>1 DEF Viewed, ChunkIds, Numbered
<1>5. CASE ReadText(t)
  <2>1. /\ n.heard = Yields(t, Plain("text_delta")) /\ n.seq = r.seq + 1 /\ n.blocks = r.blocks
        /\ n.phase = "reading" /\ r.phase = "reading"
    BY <1>0, <1>5 DEF ReadText, Reading, Becomes, TurnState
  <2> QED  BY <1>p, <1>v, <2>1 DEF Viewed, ChunkIds, Numbered
<1>6. CASE ReadToolStart(t)
  <2>1. n.heard = r.heard /\ n.seq = r.seq /\ n.blocks = r.blocks /\ n.phase = "reading" /\ r.phase = "reading"
    BY <1>0, <1>6 DEF ReadToolStart, Reading, Becomes, TurnState
  <2> QED  BY <1>v, <2>1 DEF Viewed, ChunkIds, Numbered
<1>7. CASE ReadToolStop(t)
  <2>1. /\ n.heard = Yields(t, ForTool("tool_use", r.tool)) /\ n.seq = r.seq + 1
        /\ n.blocks = Append(r.blocks, Use(r.tool)) /\ n.phase = "reading" /\ r.phase = "reading"
    BY <1>0, <1>7 DEF ReadToolStop, Reading, SeqAfterToolUse, Use, Becomes, TurnState
  <2>2. /\ Ids(n.heard, "tool_use") = Append(shown, r.tool) /\ Ids(n.heard, "tool_result") = done
        /\ Numbered(n.heard) /\ Len(n.heard) = r.seq + 1
    BY <1>b, <1>c, <2>1
  <2>3. UseIds(n.blocks) = Append(UseIds(r.blocks), r.tool)
    <3>1. Use(r.tool) \in Block  BY <1>b, Made
    <3>2. Use(r.tool) \in UseBlocks /\ Use(r.tool).id = r.tool  BY <1>b DEF Use, UseBlocks
    <3> QED  BY <1>b, <2>1, <3>1, <3>2, UseIdsAppend
  <2>4. Ahead(Append(shown, r.tool), done, Append(UseIds(r.blocks), r.tool), 0)
    BY <1>b, <1>i, <1>v, <2>1, AheadUse
  <2>5. IsPrefix(done, Append(shown, r.tool))
    <3>1. Append(shown, r.tool) \in Seq(Id) /\ Append(UseIds(r.blocks), r.tool) \in Seq(Id)
      BY <1>b, <1>i, AppendType
    <3> QED  BY <1>i, <2>4, <3>1, AheadPrefix
  <2> QED  BY <2>1, <2>2, <2>3, <2>4, <2>5 DEF Viewed, ChunkIds, Numbered
<1>8. CASE ReadTextStop(t) \/ \E reason \in StopReasons : ReadMessageStop(t, reason)
  <2>1. /\ n.heard = r.heard /\ n.seq = r.seq /\ n.phase = "reading" /\ r.phase = "reading"
        /\ n.blocks = r.blocks \/ n.blocks = Append(r.blocks, Text)
    <3>1. CASE ReadTextStop(t)  BY <1>0, <3>1 DEF ReadTextStop, Reading, Becomes, TurnState
    <3>2. ASSUME NEW reason \in StopReasons, ReadMessageStop(t, reason)
          PROVE  /\ n.heard = r.heard /\ n.seq = r.seq /\ n.phase = "reading" /\ r.phase = "reading"
                 /\ n.blocks = r.blocks \/ n.blocks = Append(r.blocks, Text)
      BY <1>0, <3>2 DEF ReadMessageStop, Reading, Becomes, TurnState
    <3> QED  BY <1>8, <3>1, <3>2
  <2>2. UseIds(n.blocks) = UseIds(r.blocks)
    <3>1. Text \notin UseBlocks
      <4>1. Text.kind = "text" /\ \A u \in UseBlocks : u.kind = "use"  BY DEF Text, UseBlocks
      <4> QED  BY <4>1
    <3>2. Text \in Block  BY Made
    <3> QED  BY <1>b, <2>1, <3>1, <3>2, UseIdsAppend
  <2> QED  BY <1>v, <2>1, <2>2 DEF Viewed, ChunkIds, Numbered
<1>9. CASE ReplyEndsTurn(t)
  <2>1. /\ n.heard = Yields(t, Plain("end_turn")) /\ n.phase = "ended" /\ n.stop = r.stop
        /\ r.phase = "reading" /\ ~WantsTools(t)
    BY <1>0, <1>9 DEF ReplyEndsTurn, EndTurn, Becomes, TurnState
  <2>2. r.stop = "tool_use" => shown = done
    <3> SUFFICES ASSUME r.stop = "tool_use" PROVE shown = done  OBVIOUS
    <3>1. Len(Uses(r.blocks)) \in Nat /\ ~(Len(Uses(r.blocks)) > 0)  BY <1>b, <2>1, UsesType DEF WantsTools
    <3>2. Len(UseIds(r.blocks)) = 0  BY <1>b, <3>1, UseIdsType
    <3>3. Ahead(shown, done, UseIds(r.blocks), 0)  BY <1>v, <2>1
    <3>4. Ahead(shown, done, UseIds(r.blocks), Len(UseIds(r.blocks)))  BY <3>2, <3>3
    <3> QED  BY <1>i, <3>4, AheadDone
  <2> QED  BY <1>p, <1>v, <2>1, <2>2 DEF Viewed, ChunkIds, Numbered
<1>10. CASE EndCapped(t)
  <2>1. n.heard = Yields(t, Plain("end_turn")) /\ n.phase = "ended" /\ r.phase = "capped"
    BY <1>0, <1>10 DEF EndCapped, EndTurn, Becomes, TurnState
  <2> QED  BY <1>p, <1>v, <1>w, <2>1 DEF Viewed, ChunkIds, Numbered
<1>11. CASE ReplyHitsCap(t)
  <2>1. /\ n.heard = Yields(t, Plain("error")) /\ n.seq = r.seq + 1 /\ n.blocks = r.blocks
        /\ n.phase = "capped" /\ r.phase = "reading"
    BY <1>0, <1>11 DEF ReplyHitsCap, Becomes, TurnState
  <2> QED  BY <1>p, <1>v, <2>1 DEF Viewed, ChunkIds, Numbered
<1>12. CASE ReplyWantsTools(t)
  <2>1. /\ n.heard = r.heard /\ n.seq = r.seq /\ n.blocks = r.blocks /\ n.results = <<>>
        /\ n.phase = "running" /\ r.phase = "reading"
    BY <1>0, <1>12 DEF ReplyWantsTools, Becomes, TurnState
  <2>2. Len(n.results) = 0  BY <2>1
  <2> QED  BY <1>v, <2>1, <2>2 DEF Viewed, ChunkIds, Numbered
<1>13. CASE RunTool(t)
  <2> DEFINE k == Len(r.results)  ids == UseIds(r.blocks)
  <2>1. /\ n.heard = Yields(t, ForTool("tool_result", NextTool(t))) /\ n.seq = r.seq + 1
        /\ n.blocks = r.blocks /\ n.results = Append(r.results, Result(NextTool(t)))
        /\ n.phase = (IF LastTool(t) THEN "calling" ELSE "running") /\ r.phase = "running"
    BY <1>0, <1>13 DEF RunTool, Becomes, TurnState
  <2>2. NextTool(t) \in Id  BY <2>1, NextToolType
  <2>3. /\ Ids(n.heard, "tool_use") = shown /\ Ids(n.heard, "tool_result") = Append(done, NextTool(t))
        /\ Numbered(n.heard) /\ Len(n.heard) = r.seq + 1
    BY <1>c, <2>1, <2>2
  <2>4. k \in Nat /\ Len(ids) = Len(Uses(r.blocks)) /\ k < Len(ids)
    BY <1>b, <2>1, UseIdsType DEF ToolsLeft
  <2>5. NextTool(t) = ids[k + 1]
    <3>1. Uses(r.blocks) \in Seq(UseBlocks) /\ Len(Uses(r.blocks)) \in Nat  BY <1>b, UsesType
    <3>2. k + 1 \in 1..Len(Uses(r.blocks)) /\ DOMAIN Uses(r.blocks) = 1..Len(Uses(r.blocks))
      BY <2>4, <3>1
    <3> QED  BY <3>2 DEF NextTool, UseIds
  <2>6. Ahead(shown, Append(done, NextTool(t)), ids, k + 1)
    BY <1>i, <1>v, <2>1, <2>4, <2>5, AheadResult
  <2>7. Append(done, NextTool(t)) \in Seq(Id)  BY <1>i, <2>2, AppendType
  <2>8. IsPrefix(Append(done, NextTool(t)), shown)
    <3>1. k + 1 \in Nat  BY <2>4
    <3> QED  BY <1>i, <2>6, <2>7, <3>1, AheadPrefix
  <2>9. Len(n.results) = k + 1
    <3>1. Result(NextTool(t)) \in Block  BY <2>2, Made
    <3> QED  BY <1>b, <2>1, <3>1
  <2>10. LastTool(t) => shown = Append(done, NextTool(t))
    <3> SUFFICES ASSUME LastTool(t) PROVE shown = Append(done, NextTool(t))  OBVIOUS
    <3>1. k + 1 = Len(ids)  BY <2>4 DEF LastTool
    <3>2. Ahead(shown, Append(done, NextTool(t)), ids, Len(ids))  BY <2>6, <3>1
    <3> QED  BY <1>i, <2>7, <3>2, AheadDone
  <2> HIDE DEF k, ids
  <2> QED  BY <2>1, <2>3, <2>6, <2>8, <2>9, <2>10 DEF Viewed, ChunkIds, Numbered, ids
<1> QED
  BY <1>start, <1>1, <1>2, <1>3, <1>4, <1>5, <1>6, <1>7, <1>8, <1>9, <1>10, <1>11, <1>12, <1>13
  DEF TurnStep, StartRaises, Abandon

-----------------------------------------------------------------------------
(* The invariant of the tool loop. *)

\* A turn that is not this one is left as it was.
LEMMA OtherTurns ==
  ASSUME Shape, NEW u \in Turns, SendMessage(u) \/ TurnStep(u) \/ Abandon(u)
  PROVE  DOMAIN turn' = Turns /\ (\A t \in Turns \ {u} : turn'[t] = turn[t]) /\ UNCHANGED session
<1>1. \E next : Becomes(u, next)
  BY DEF SendMessage, Abandon, TurnStep, StartStream, StartRaises, Goto, Converse, ConverseFails,
     Fails, ReadText, ReadToolStart, ReadToolStop, ReadTextStop, ReadMessageStop, ReadFails,
     ReplyEndsTurn, EndTurn, ReplyHitsCap, EndCapped, ReplyWantsTools, RunTool
<1> QED  BY <1>1 DEF Becomes, Shape

LEMMA NextKeepsGood ==
  IInv /\ (\A t \in Turns : Mirrored(t)) /\ TypeOK /\ (\A t \in Turns : Good(t)) /\ [Next]_vars
    => (TypeOK /\ \A t \in Turns : Good(t))'
<1> SUFFICES ASSUME IInv, \A t \in Turns : Mirrored(t), TypeOK, \A t \in Turns : Good(t), [Next]_vars
             PROVE  TypeOK' /\ \A t \in Turns : Good(t)'
  OBVIOUS
<1> USE DEF Good
<1>s. DOMAIN turn = Turns /\ session \in {"active", "inactive", "absent"}  BY DEF TypeOK
<1>f. ASSUME NEW t \in Turns, turn'[t] = turn[t] PROVE Good(t)'
  BY <1>f DEF ToolsLeft, Told, Bounded, Viewed, ChunkIds
<1>1. CASE UNCHANGED turn
  <2>1. session' \in {"active", "inactive", "absent"}
    <3>1. CASE UNCHANGED vars  BY <1>s, <3>1 DEF vars
    <3>2. CASE Cancel          BY <1>s, <3>2 DEF Cancel
    <3>3. CASE Close           BY <3>3 DEF Close
    <3>4. ASSUME NEW u \in Turns, SendMessage(u) \/ TurnStep(u) \/ Abandon(u)
          PROVE  session' \in {"active", "inactive", "absent"}
      BY <1>s, <3>4, OtherTurns DEF IInv
    <3> QED  BY <3>1, <3>2, <3>3, <3>4 DEF Next
  <2>2. TypeOK'  BY <1>1, <2>1 DEF TypeOK
  <2> QED  BY <1>1, <1>f, <2>2
<1>2. ASSUME NEW u \in Turns, SendMessage(u) \/ TurnStep(u) \/ Abandon(u)
      PROVE  TypeOK' /\ \A t \in Turns : Good(t)'
  <2>1. DOMAIN turn' = Turns /\ (\A t \in Turns \ {u} : turn'[t] = turn[t]) /\ UNCHANGED session
    BY <1>2, OtherTurns DEF IInv
  <2>2. turn'[u] \in TurnState  BY <1>2, TurnStepTypes
  <2>3. Good(u)'  BY <1>2, TurnStepTold, TurnStepBounded, TurnStepViewed
  <2>4. TypeOK'
    <3>1. \A t \in Turns : turn'[t] \in TurnState  BY <2>1, <2>2 DEF TypeOK
    <3>2. \E next : turn' = [turn EXCEPT ![u] = next]
      BY <1>2 DEF Becomes, SendMessage, Abandon, TurnStep, StartStream, StartRaises, Goto, Converse, ConverseFails,
         Fails, ReadText, ReadToolStart, ReadToolStop, ReadTextStop, ReadMessageStop, ReadFails,
         ReplyEndsTurn, EndTurn, ReplyHitsCap, EndCapped, ReplyWantsTools, RunTool
    <3>3. turn' = [t \in Turns |-> turn'[t]]  BY <1>s, <3>2
    <3> QED  BY <1>s, <2>1, <3>1, <3>3 DEF TypeOK
  <2>5. ASSUME NEW t \in Turns \ {u} PROVE Good(t)'  BY <1>f, <2>1
  <2> QED  BY <2>3, <2>4, <2>5
<1> QED  BY <1>1, <1>2 DEF Next, Cancel, Close, vars

LEMMA InitGood == Init => \A t \in Turns : Good(t)
<1> SUFFICES ASSUME Init, NEW t \in Turns PROVE Good(t)
  OBVIOUS
<1>1. turn[t] = Fresh  BY DEF Init
<1>2. ToolsLeft(t)  BY InitTypes
<1>3. Told(t)  BY <1>1 DEF Told, Talk, Fresh
<1>4. Bounded(t)  BY <1>1 DEF Bounded, Fresh
<1>5. Viewed(t)
  <2>1. \A type : Ids(<<>>, type) = <<>>  BY OnlyEmpty DEF Ids
  <2>2. turn[t].heard = <<>> /\ turn[t].phase = "none" /\ turn[t].seq = 0  BY <1>1 DEF Fresh
  <2>3. IsPrefix(<<>>, <<>>)
    <3>1. <<>> \in Seq(Id)  OBVIOUS
    <3> QED  BY <3>1, PrefixOfItself
  <2> QED  BY <2>1, <2>2, <2>3 DEF Viewed, ChunkIds
<1> QED  BY <1>2, <1>3, <1>4, <1>5 DEF Good

LEMMA GoodAlways == Spec => [](TypeOK /\ \A t \in Turns : Good(t))
<1>1. Init => TypeOK /\ \A t \in Turns : Good(t)  BY InitTypes, InitGood
<1>2. Init => \A t \in Turns : Mirrored(t)
  <2>1. IsSeq(<<>>)  BY DEF IsSeq
  <2> QED  BY <2>1 DEF Init, Mirrored, Fresh
<1> QED  BY <1>1, <1>2, NextKeepsGood, NextMirrors, Invariance, PTL DEF Spec

\* Every local of a stream stays in its type, whatever the reply: the tool that
\* runs next always is one of the reply's (bedrock.py:490-506).
THEOREM TypeCorrect == Spec => []TypeOK
<1> QED  BY GoodAlways, PTL

\* Whenever converse_stream is called, users and assistants alternate and every
\* assistant message is followed by the results of exactly the tools it asked
\* for, in its order (bedrock.py:488-518), however many rounds the turn has had.
THEOREM ConversationIsWellFormed == Spec => []WellFormedConversation
<1>1. ASSUME TypeOK, \A t \in Turns : Good(t) PROVE WellFormedConversation
  <2> SUFFICES ASSUME NEW t \in Turns, turn[t].phase = "calling" PROVE Conversation(turn[t].messages)
    BY DEF WellFormedConversation
  <2> DEFINE ms == turn[t].messages
  <2>1. ms \in Seq(Message)  BY <1>1 DEF TypeOK, TurnState
  <2>2. Talk(ms) /\ Len(ms) % 2 = 1  BY <1>1 DEF Good, Told
  <2>3. ASSUME NEW i \in DOMAIN ms, i % 2 = 0 PROVE ms[i + 1].blocks = Answers(ms[i].blocks)
    <3>1. DOMAIN ms = 1..Len(ms) /\ Len(ms) \in Nat  BY <2>1
    <3>2. i \in Nat /\ i <= Len(ms)  BY <3>1
    <3>3. i # Len(ms)  BY <2>2, <2>3, <3>1, Parity
    <3>4. i + 1 \in DOMAIN ms  BY <3>1, <3>2, <3>3
    <3> QED  BY <2>2, <2>3, <3>4 DEF Talk
  <2>4. \A i \in DOMAIN ms : ms[i].role = IF i % 2 = 1 THEN "user" ELSE "assistant"  BY <2>2 DEF Talk
  <2> HIDE DEF ms
  <2>5. Conversation(ms)  BY <2>2, <2>3, <2>4 DEF Conversation, Answers
  <2> QED  BY <2>5 DEF ms
<1> QED  BY <1>1, GoodAlways, PTL

\* A turn has at most the tools of one reply run past max_tool_calls_per_turn,
\* whatever the cap and the size of the replies (bedrock.py:460-480).
THEOREM ToolsAreBounded == Spec => []ToolsBounded
<1>1. (\A t \in Turns : Good(t)) => ToolsBounded  BY DEF Good, Bounded, ToolsBounded
<1> QED  BY <1>1, GoodAlways, PTL

\* The chunks of a turn are numbered without a gap, and the tools whose results
\* the host has been shown are the first of those it was shown the use of, in
\* their order (bedrock.py:376-525).
THEOREM HostSeesToolsInOrder == Spec => []HostViewInOrder
<1>1. (\A t \in Turns : Good(t)) => HostViewInOrder  BY DEF Good, Viewed, HostViewInOrder
<1> QED  BY <1>1, GoodAlways, PTL

\* A turn that ended without an error chunk, and whose last reply asked for
\* tools, has shown a result for every tool use shown (bedrock.py:460-518).
THEOREM ToolsAreAnswered == Spec => []NoToolLeftBehind
<1>1. (\A t \in Turns : Good(t)) => NoToolLeftBehind
  BY DEF Good, Viewed, Clean, NoToolLeftBehind
<1> QED  BY <1>1, GoodAlways, PTL
===============================================================================
