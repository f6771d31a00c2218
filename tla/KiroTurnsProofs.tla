--------------------------- MODULE KiroTurnsProofs ---------------------------
(***************************************************************************)
(* Proofs about KiroTurns, for every value of its constants.               *)
(***************************************************************************)
EXTENDS KiroTurns, SequenceLemmas, TLAPS

\* What Tail and Append do to the type of a sequence.
LEMMA TailType == ASSUME NEW S, NEW s \in Seq(S), s # <<>>
                  PROVE  Tail(s) \in Seq(S) /\ Head(s) \in S /\ Len(Tail(s)) = Len(s) - 1
  OBVIOUS
LEMMA AppendType == ASSUME NEW S, NEW s \in Seq(S), NEW x \in S
                    PROVE  Append(s, x) \in Seq(S)
  OBVIOUS

USE DEF LiveStates

LEMMA InitType == Init => TypeOK
  <1> SUFFICES ASSUME Init PROVE TypeOK OBVIOUS
  <1>1. /\ delivered \in [Turns -> Seq(QueuedUpdate)]
        /\ emitted \in [Turns -> Seq(BOOLEAN)]
        /\ queue \in Seq(Item) /\ stdin \in Seq(Request) /\ stdout \in Seq(Line)
    BY DEF Init
  <1>2. /\ nextRequestId \in FirstId .. (FirstId + MaxTurns)
        /\ cancels \in 0..MaxCancels /\ noise \in 0..MaxNoise
        /\ \A t \in Turns : Len(emitted[t]) <= MaxUpdates
    BY BoundsAssumption DEF Init, FirstId
  <1>3. verdict \in [Turns -> Verdicts] BY DEF Init, Verdicts
  <1> QED BY <1>1, <1>2, <1>3 DEF Init, TypeOK

LEMMA SendType == ASSUME TypeOK, NEW t \in Turns, SendMessage(t) PROVE TypeOK'
  <1>1. nextRequestId' \in FirstId .. (FirstId + MaxTurns)
    BY BoundsAssumption DEF TypeOK, SendMessage, Turns, FirstId
  <1>2. stdin' \in Seq(Request)
    BY DEF TypeOK, SendMessage, Written, Request
  <1>3. /\ queue' \in Seq(Item)
        /\ stream' \in [Turns -> LiveStates \cup {"none", "closed", "failed", "dropped"}]
        /\ late' \in [Turns -> BOOLEAN]
        /\ turnInFlight' \in BOOLEAN /\ turnRequestId' \in Turns \cup {None}
        /\ pending' \subseteq Turns
    BY DEF TypeOK, SendMessage, QueueAtSend
  <1> QED BY <1>1, <1>2, <1>3 DEF TypeOK, SendMessage, agentVars

LEMMA AdvanceType ==
    ASSUME TypeOK, NEW t \in Turns, NEW from,
           NEW to \in LiveStates \cup {"none", "closed", "failed", "dropped"},
           Advance(t, from, to)
    PROVE  TypeOK'
  BY DEF TypeOK, Advance, agentVars

LEMMA CancelType == ASSUME TypeOK, Cancel PROVE TypeOK'
  <1>1. stdin' \in Seq(Request)
    BY DEF TypeOK, Cancel, Written, Request
  <1>2. cancels' \in 0..MaxCancels
    BY BoundsAssumption DEF TypeOK, Cancel
  <1> QED BY <1>1, <1>2 DEF TypeOK, Cancel, agentVars, sessionVars

LEMMA CloseType == ASSUME TypeOK, CloseBegins \/ CloseStep PROVE TypeOK'
  <1>1. CASE CloseBegins BY <1>1 DEF TypeOK, CloseBegins, agentVars
  <1>2. CASE CloseTransport BY <1>2 DEF TypeOK, CloseTransport, agentVars
  <1>3. CASE CloseReturns BY <1>3 DEF TypeOK, CloseReturns
  <1> QED BY <1>1, <1>2, <1>3 DEF CloseStep

LEMMA TakeType ==
    ASSUME TypeOK, NEW t \in Turns, StreamStep(t) PROVE TypeOK'
  <1>1. PICK to \in {"ended", "streaming"} : Take(t, to)
    BY DEF StreamStep, TakeSentinel, TakeResponse, TakeUpdate
  <1>2. queue # <<>> /\ queue \in Seq(Item) BY <1>1 DEF Take, TypeOK
  <1>3. queue' \in Seq(Item) /\ Head(queue) \in Item BY <1>1, <1>2, TailType DEF Take
  <1>4. stream' \in [Turns -> LiveStates \cup {"none", "closed", "failed", "dropped"}]
    BY <1>1 DEF Take, TypeOK
  <1>5. verdict' \in [Turns -> Verdicts] /\ delivered' \in [Turns -> Seq(QueuedUpdate)]
    <2>1. CASE TakeSentinel(t) BY <2>1 DEF TakeSentinel, TypeOK, Verdicts
    <2>2. CASE TakeResponse(t)
      <3>1. Head(queue) \in Response
        BY <1>3, <2>2 DEF TakeResponse, IsOwnResponse, Item, QueuedUpdate, Response, Failure, Eof
      <3>2. Head(queue).stop \in Verdicts BY <3>1 DEF Response, Verdicts
      <3> QED BY <2>2, <3>2 DEF TakeResponse, TypeOK
    <2>3. CASE TakeUpdate(t)
      <3>1. CASE HasChunk(Head(queue))
        <4>1. Head(queue) \in QueuedUpdate
          BY <1>3, <3>1 DEF HasChunk, Item, QueuedUpdate, Response, Failure, Eof
        <4>2. Append(delivered[t], Head(queue)) \in Seq(QueuedUpdate)
          BY <4>1, AppendType DEF TypeOK
        <4> QED BY <2>3, <3>1, <4>2 DEF TakeUpdate, TypeOK
      <3> QED BY <2>3, <3>1 DEF TakeUpdate, TypeOK
    <2> QED BY <2>1, <2>2, <2>3 DEF StreamStep
  <1> QED BY <1>1, <1>3, <1>4, <1>5 DEF Take, TypeOK, agentVars

LEMMA ReleaseType == ASSUME TypeOK, NEW t \in Turns, Release(t) PROVE TypeOK'
  BY DEF TypeOK, Release, agentVars

LEMMA ReaderType == ASSUME TypeOK, ReaderStep PROVE TypeOK'
  <1>1. queue \in Seq(Item) /\ stdout \in Seq(Line) BY DEF TypeOK
  <1>2. stdout' \in Seq(Line)
    <2>1. CASE ReadLine BY <1>1, <2>1, TailType DEF ReadLine
    <2>2. CASE UNCHANGED stdout BY <1>1, <2>2
    <2> QED BY <2>1, <2>2 DEF ReaderStep, ReadResponse, ReadUpdate, SkipNoise, ReaderFails,
                              ReaderAtEof, ReaderCancelled
  <1>3. ASSUME ReadLine PROVE Head(stdout) \in Line
    BY <1>1, <1>3, TailType DEF ReadLine
  <1>4. /\ queue' \in Seq(Item) /\ pending' \subseteq Turns
        /\ reader' \in {"running", "cancelled", "ended"}
    <2>1. CASE ReadResponse
      <3>1. Head(stdout) \in Response
        BY <2>1, <1>3, NoiseAssumption DEF ReadResponse, Line, Update, Response
      <3>2. Head(stdout) \in Item BY <3>1 DEF Item
      <3>3. Append(queue, Head(stdout)) \in Seq(Item) BY <1>1, <3>2, AppendType
      <3> QED BY <2>1, <1>1, <3>3 DEF ReadResponse, TypeOK
    <2>2. CASE ReadUpdate
      <3>1. CASE turnInFlight
        <4>1. Head(stdout) \in Update
          BY <2>2, <1>3, NoiseAssumption DEF ReadUpdate, Line, Update, Response
        <4>2. turnRequestId \in Turns \cup {None} BY DEF TypeOK
        <4>3. Forwarded(Head(stdout)) \in QueuedUpdate
          BY <4>1, <4>2 DEF Forwarded, Update, QueuedUpdate
        <4>4. Append(queue, Forwarded(Head(stdout))) \in Seq(Item)
          BY <1>1, <4>3, AppendType DEF Item
        <4> QED BY <2>2, <3>1, <4>4 DEF ReadUpdate, TypeOK
      <3> QED BY <2>2, <1>1, <3>1 DEF ReadUpdate, TypeOK
    <2>3. CASE SkipNoise BY <2>3 DEF SkipNoise, TypeOK
    <2>4. ASSUME NEW before \in Seq(Item), ReaderEnds(before)
          PROVE  /\ queue' \in Seq(Item) /\ pending' \subseteq Turns
                 /\ reader' \in {"running", "cancelled", "ended"}
      <3>1. queue \o before \in Seq(Item) BY <1>1
      <3>2. Eof \in Item BY DEF Item
      <3>3. Append(queue \o before, Eof) \in Seq(Item) BY <3>1, <3>2, AppendType
      <3> QED BY <2>4, <3>3 DEF ReaderEnds
    <2>5. CASE ReaderFails
      <3>1. <<Failure>> \in Seq(Item) /\ << >> \in Seq(Item) BY DEF Item
      <3> QED BY <2>4, <2>5, <3>1 DEF ReaderFails
    <2>6. CASE ReaderAtEof \/ ReaderCancelled
      <3>1. << >> \in Seq(Item) OBVIOUS
      <3> QED BY <2>4, <2>6, <3>1 DEF ReaderAtEof, ReaderCancelled
    <2> QED BY <2>1, <2>2, <2>3, <2>5, <2>6 DEF ReaderStep
  <1>5. UNCHANGED readerFrame
    BY DEF ReaderStep, ReadResponse, ReadUpdate, SkipNoise, ReaderFails, ReadLine,
           ReaderAtEof, ReaderCancelled
  <1> QED BY <1>2, <1>4, <1>5 DEF TypeOK, readerFrame

LEMMA AgentType == ASSUME TypeOK, AgentStep PROVE TypeOK'
  <1>1. CASE AgentAccepts
    <2>1. Head(stdin) \in Request /\ stdin' \in Seq(Request)
      BY <1>1, TailType DEF AgentAccepts, TypeOK
    <2>2. running' \in Turns BY <1>1, <2>1 DEF AgentAccepts, Request
    <2> QED BY <1>1, <2>1, <2>2 DEF AgentAccepts, TypeOK, sessionVars
  <1>2. CASE AgentSeesCancel
    <2>1. stdin' \in Seq(Request) BY <1>2, TailType DEF AgentSeesCancel, TypeOK
    <2>2. flagged' \in BOOLEAN BY <1>2 DEF AgentSeesCancel, TypeOK
    <2> QED BY <1>2, <2>1, <2>2 DEF AgentSeesCancel, TypeOK, sessionVars
  <1>3. ASSUME NEW shown \in BOOLEAN, AgentUpdates(shown) PROVE TypeOK'
    <2>1. running \in Turns BY <1>3 DEF AgentUpdates, TypeOK
    <2>2. Len(emitted[running]) + 1 \in 1..MaxUpdates /\ emitted[running] \in Seq(BOOLEAN)
      BY <1>3, <2>1, BoundsAssumption DEF AgentUpdates, TypeOK
    <2>3. [kind |-> "update", turn |-> running, n |-> Len(emitted[running]) + 1,
           shown |-> shown] \in Line
      BY <2>1, <2>2 DEF Line, Update
    <2>4. stdout' \in Seq(Line) BY <1>3, <2>3, AppendType DEF AgentUpdates, TypeOK
    <2>5. /\ Append(emitted[running], shown) \in Seq(BOOLEAN)
          /\ Len(Append(emitted[running], shown)) <= MaxUpdates
      BY <2>2, BoundsAssumption
    <2>6. emitted' \in [Turns -> Seq(BOOLEAN)] /\ \A t \in Turns : Len(emitted'[t]) <= MaxUpdates
      BY <1>3, <2>1, <2>5 DEF AgentUpdates, TypeOK
    <2> QED BY <1>3, <2>4, <2>6 DEF AgentUpdates, TypeOK, sessionVars
  <1>4. ASSUME NEW stop \in Stops, AgentAnswers(stop) PROVE TypeOK'
    <2>1. running \in Turns BY <1>4 DEF AgentAnswers, TypeOK
    <2>2. [kind |-> "response", turn |-> running, stop |-> stop] \in Line
      BY <2>1 DEF Line, Response
    <2>3. stdout' \in Seq(Line) BY <1>4, <2>2, AppendType DEF AgentAnswers, TypeOK
    <2>4. answer' \in [Turns -> Stops \cup {"none"}] BY <1>4 DEF AgentAnswers, TypeOK
    <2> QED BY <1>4, <2>3, <2>4 DEF AgentAnswers, TypeOK, sessionVars
  <1>5. ASSUME NEW kind \in NoiseKinds, AgentNoise(kind) PROVE TypeOK'
    <2>1. [kind |-> kind] \in Line BY DEF Line
    <2>2. stdout' \in Seq(Line) BY <1>5, <2>1, AppendType DEF AgentNoise, TypeOK
    <2>3. noise' \in 0..MaxNoise BY <1>5, BoundsAssumption DEF AgentNoise, TypeOK
    <2> QED BY <1>5, <2>2, <2>3 DEF AgentNoise, TypeOK, sessionVars
  <1>6. CASE AgentExits BY <1>6 DEF AgentExits, TypeOK, sessionVars
  <1> QED BY <1>1, <1>2, <1>3, <1>4, <1>5, <1>6 DEF AgentStep

LEMMA NextType == ASSUME TypeOK, [Next]_vars PROVE TypeOK'
  <1>1. ASSUME NEW t \in Turns, HostStep(t) PROVE TypeOK'
    <2>1. CASE SendMessage(t) BY <2>1, SendType
    <2>2. CASE SendCompletes(t) BY <2>2, AdvanceType DEF SendCompletes
    <2>3. CASE SendFails(t) BY <2>3, AdvanceType DEF SendFails
    <2>4. CASE StartStream(t) BY <2>4, AdvanceType DEF StartStream
    <2>5. CASE DropUnstarted(t) BY <2>5, AdvanceType DEF DropUnstarted
    <2>6. CASE FinishStream(t) \/ AbandonStream(t)
      BY <2>6, ReleaseType DEF FinishStream, AbandonStream
    <2> QED BY <1>1, <2>1, <2>2, <2>3, <2>4, <2>5, <2>6 DEF HostStep
  <1>2. CASE UNCHANGED vars
    BY <1>2 DEF vars, sessionVars, agentVars, TypeOK
  <1> QED BY <1>1, <1>2, TakeType, CancelType, CloseType, ReaderType, AgentType DEF Next

(***************************************************************************)
(* Every variable keeps its type: in particular the queue and the pipes    *)
(* only ever hold the items the stream and the reader know how to handle.  *)
(***************************************************************************)
THEOREM TypeCorrect == Spec => []TypeOK
  BY InitType, NextType, PTL DEF Spec

-----------------------------------------------------------------------------
(***************************************************************************)
(* The inductive invariant.  None of the safety properties is inductive:   *)
(* each needs to know that the mark names the live stream, and the last    *)
(* three what the reader left in the queue and in pending.                 *)
(***************************************************************************)
Marks ==
    /\ turnInFlight => active
    /\ MarkNamesLiveStream
    /\ OneLiveStream

\* The mark outlives its stream only when send_message failed or the stream
\* was dropped before it started.
MarkExplained ==
    turnInFlight => /\ turnRequestId \in Turns
                    /\ stream[turnRequestId] \in LiveStates \cup {"failed", "dropped"}

\* Every queued update was put there for the live turn.
QueueIsFresh ==
    \A t \in Live : \A i \in DOMAIN queue : queue[i].kind = "update" => queue[i].during = t

\* The sentinel of a stopped reader is the last item until the stream takes it.
SentinelLast ==
    reader = "ended" =>
        \A t \in Turns : stream[t] \in {"sending", "created", "streaming"} /\ ~late[t] =>
            Len(queue) > 0 /\ queue[Len(queue)] = Eof

CloseOrder ==
    /\ active <=> closing = "open"
    /\ closing \in {"transport", "closed"} => reader = "ended"
    /\ closing = "closed" => child = "dead"
    /\ reader = "ended" => \A t \in pending : late[t]

IInv == TypeOK /\ Marks /\ MarkExplained /\ QueueIsFresh /\ NoLeftovers
        /\ SentinelLast /\ CloseOrder

\* The conjuncts of IInv about the session, which the next lemmas preserve.
SessionInv == Marks /\ MarkExplained /\ QueueIsFresh /\ NoLeftovers
              /\ SentinelLast /\ CloseOrder

LEMMA InitInv == Init => IInv
  <1> SUFFICES ASSUME Init PROVE IInv OBVIOUS
  <1>1. TypeOK BY InitType
  <1>2. Live = {} BY DEF Init, Live
  <1>3. Marks /\ MarkExplained /\ QueueIsFresh /\ SentinelLast /\ CloseOrder
    BY <1>2 DEF Init, Marks, MarkNamesLiveStream, OneLiveStream, MarkExplained,
                QueueIsFresh, SentinelLast, CloseOrder
  <1>4. NoLeftovers BY DEF Init, NoLeftovers
  <1> QED BY <1>1, <1>3, <1>4 DEF IInv

LEMMA SendInv == ASSUME IInv, NEW t \in Turns, SendMessage(t) PROVE SessionInv'
  <1> USE DEF IInv
  <1>1. active /\ active' /\ turnInFlight' /\ turnRequestId' = t
    BY DEF SendMessage, ReadyForTurn
  <1>2. Live = {}
    BY DEF SendMessage, ReadyForTurn, Marks, MarkNamesLiveStream
  <1>3. stream'[t] = "sending" /\ \A u \in Turns \ {t} : stream'[u] = stream[u]
    BY DEF SendMessage, TypeOK
  <1>4. Live' = {t} BY <1>2, <1>3 DEF Live
  <1>5. Marks' BY <1>1, <1>4 DEF Marks, MarkNamesLiveStream, OneLiveStream
  <1>6. MarkExplained' BY <1>1, <1>3 DEF MarkExplained
  <1>7. QueueIsFresh' BY DEF SendMessage, QueueAtSend, QueueIsFresh
  <1>8. NoLeftovers' BY DEF SendMessage, NoLeftovers
  <1>9. late' \in [Turns -> BOOLEAN] /\ late'[t] = (reader # "running")
        /\ \A u \in Turns \ {t} : late'[u] = late[u]
    BY DEF SendMessage, TypeOK
  <1>10. SentinelLast'
    <2> SUFFICES ASSUME reader' = "ended", NEW u \in Turns,
                        stream'[u] \in {"sending", "created", "streaming"}
                 PROVE  late'[u]
      BY DEF SentinelLast
    <2>1. u = t BY <1>4 DEF Live
    <2> QED BY <2>1, <1>9 DEF SendMessage
  <1>11. CloseOrder'
    <2>1. reader' = "ended" => \A u \in pending' : late'[u]
      BY <1>9 DEF SendMessage, CloseOrder, TypeOK
    <2> QED BY <2>1 DEF SendMessage, CloseOrder, agentVars
  <1> QED BY <1>5, <1>6, <1>7, <1>8, <1>10, <1>11 DEF SessionInv

LEMMA AdvanceInv ==
    ASSUME IInv, NEW t \in Turns, NEW from, NEW to, Advance(t, from, to),
           \/ from = "sending" /\ to \in {"created", "failed"}
           \/ from = "created" /\ to \in {"streaming", "dropped"}
    PROVE  SessionInv'
  <1> USE DEF IInv, Advance
  <1>1. stream'[t] = to /\ \A u \in Turns \ {t} : stream'[u] = stream[u]
    BY DEF TypeOK
  <1>2. Live' \subseteq Live BY <1>1 DEF Live
  <1>3. Marks' BY <1>2 DEF Marks, MarkNamesLiveStream, OneLiveStream
  <1>4. MarkExplained' BY <1>1 DEF MarkExplained
  <1>5. QueueIsFresh' BY <1>2 DEF QueueIsFresh
  <1>6. NoLeftovers' BY DEF NoLeftovers
  <1>7. SentinelLast' BY <1>1 DEF SentinelLast
  <1>8. CloseOrder' BY DEF CloseOrder, agentVars
  <1> QED BY <1>3, <1>4, <1>5, <1>6, <1>7, <1>8 DEF SessionInv

LEMMA ReleaseInv ==
    ASSUME IInv, NEW t \in Turns, stream[t] \in {"streaming", "ended"}, Release(t)
    PROVE  SessionInv'
  <1> USE DEF IInv, Release
  <1>1. stream'[t] = "closed" /\ \A u \in Turns \ {t} : stream'[u] = stream[u]
    BY DEF TypeOK
  <1>2. Live' \subseteq Live /\ t \in Live /\ t \notin Live' BY <1>1 DEF Live
  <1>3. Live' = {} BY <1>2 DEF Marks, OneLiveStream
  <1>4. Marks' /\ MarkExplained' /\ QueueIsFresh'
    BY <1>3 DEF Marks, MarkNamesLiveStream, OneLiveStream, MarkExplained, QueueIsFresh
  <1>5. NoLeftovers' BY DEF NoLeftovers
  <1>6. SentinelLast' BY <1>1 DEF SentinelLast
  <1>7. CloseOrder' BY DEF CloseOrder, agentVars
  <1> QED BY <1>4, <1>5, <1>6, <1>7 DEF SessionInv

\* An appended item is the last one, and the others stay in place.
LEMMA AppendItems ==
    ASSUME NEW S, NEW s \in Seq(S), NEW x \in S
    PROVE  /\ Len(Append(s, x)) > 0 /\ Append(s, x)[Len(Append(s, x))] = x
           /\ \A i \in DOMAIN Append(s, x) :
                 \/ i \in DOMAIN s /\ Append(s, x)[i] = s[i]
                 \/ Append(s, x)[i] = x
  OBVIOUS

\* Taking an item leaves the others in place, the last one included.
LEMMA TailItems ==
    ASSUME NEW S, NEW s \in Seq(S), s # <<>>
    PROVE  /\ \A i \in DOMAIN Tail(s) : i + 1 \in DOMAIN s /\ Tail(s)[i] = s[i + 1]
           /\ s[Len(s)] # Head(s) => Len(Tail(s)) > 0 /\ Tail(s)[Len(Tail(s))] = s[Len(s)]
  <1>1. \A i \in DOMAIN Tail(s) : i + 1 \in DOMAIN s /\ Tail(s)[i] = s[i + 1] OBVIOUS
  <1>2. s[Len(s)] # Head(s) => (Len(Tail(s)) > 0 /\ Tail(s)[Len(Tail(s))] = s[Len(s)])
    <2>1. CASE Len(s) = 1 BY <2>1
    <2>2. CASE Len(s) > 1
      <3>a. Tail(s) \in Seq(S) /\ Len(Tail(s)) = Len(s) - 1 BY TailType
      <3>b. Len(s) \in Nat OBVIOUS
      <3>c. DOMAIN Tail(s) = 1 .. Len(Tail(s)) BY <3>a
      <3>1. Len(Tail(s)) \in DOMAIN Tail(s) BY <2>2, <3>a, <3>b, <3>c
      <3>d. Len(Tail(s)) > 0 BY <2>2, <3>a, <3>b
      <3>2. Tail(s)[Len(Tail(s))] = s[Len(Tail(s)) + 1] BY <1>1, <3>1
      <3>e. Len(Tail(s)) + 1 = Len(s) BY <3>a, <3>b
      <3> QED BY <3>2, <3>d, <3>e
    <2> QED BY <2>1, <2>2
  <1> QED BY <1>1, <1>2

LEMMA TakeInv == ASSUME IInv, NEW t \in Turns, StreamStep(t) PROVE SessionInv'
  <1> USE DEF IInv
  <1>1. PICK to \in {"ended", "streaming"} : Take(t, to)
    BY DEF StreamStep, TakeSentinel, TakeResponse, TakeUpdate
  <1>2. stream'[t] = to /\ \A u \in Turns \ {t} : stream'[u] = stream[u]
    BY <1>1 DEF Take, TypeOK
  <1>3. stream[t] = "streaming" /\ t \in Live /\ Live' = Live
    BY <1>1, <1>2 DEF Take, Live
  <1>4. queue \in Seq(Item) /\ queue # <<>> /\ queue' = Tail(queue)
    BY <1>1 DEF Take, TypeOK
  <1>5. Marks' BY <1>1, <1>3 DEF Take, Marks, MarkNamesLiveStream, OneLiveStream
  <1>6. MarkExplained' BY <1>1, <1>2, <1>3 DEF Take, MarkExplained
  <1>7. QueueIsFresh'
    <2>1. \A i \in DOMAIN queue' : i + 1 \in DOMAIN queue /\ queue'[i] = queue[i + 1]
      BY <1>4, TailItems
    <2> QED BY <2>1, <1>3 DEF QueueIsFresh
  <1>8. NoLeftovers'
    <2>1. CASE UNCHANGED delivered BY <2>1 DEF NoLeftovers
    <2>2. CASE /\ TakeUpdate(t) /\ Head(queue).kind = "update"
               /\ delivered' = [delivered EXCEPT ![t] = Append(@, Head(queue))]
      <3>1. Head(queue).during = t BY <1>3, <1>4, <2>2 DEF QueueIsFresh
      <3>2. /\ delivered'[t] = Append(delivered[t], Head(queue))
            /\ \A u \in Turns \ {t} : delivered'[u] = delivered[u]
            /\ delivered[t] \in Seq(QueuedUpdate)
        BY <2>2 DEF TypeOK
      <3>3. \A i \in DOMAIN delivered'[t] : delivered'[t][i].during = t
        BY <3>1, <3>2 DEF NoLeftovers
      <3> QED BY <3>2, <3>3 DEF NoLeftovers
    <2> QED BY <2>1, <2>2 DEF StreamStep, TakeSentinel, TakeResponse, TakeUpdate, HasChunk
  <1>9. SentinelLast'
    <2> SUFFICES ASSUME reader = "ended", NEW u \in Turns, ~late[u],
                        stream'[u] \in {"sending", "created", "streaming"}
                 PROVE  Len(queue') > 0 /\ queue'[Len(queue')] = Eof
      BY <1>1 DEF Take, SentinelLast
    <2>1. u \in Live BY <1>3 DEF Live
    <2>2. u = t BY <2>1, <1>3 DEF Marks, OneLiveStream
    <2>3. to = "streaming" BY <1>2, <2>2
    <2>4. TakeUpdate(t)
      BY <1>2, <2>3 DEF StreamStep, TakeSentinel, TakeResponse, Take, TypeOK
    <2>5. Head(queue).kind # "eof" BY <2>4 DEF TakeUpdate
    <2>6. queue[Len(queue)] = Eof BY <1>3, <2>2 DEF SentinelLast
    <2>7. queue[Len(queue)] # Head(queue) BY <2>5, <2>6 DEF Eof
    <2> QED BY <1>4, <2>6, <2>7, TailItems
  <1>10. CloseOrder' BY <1>1 DEF Take, CloseOrder, agentVars
  <1> QED BY <1>5, <1>6, <1>7, <1>8, <1>9, <1>10 DEF SessionInv

LEMMA CloseInv == ASSUME IInv, CloseBegins \/ CloseStep PROVE SessionInv'
  <1> USE DEF IInv
  <1>1. UNCHANGED <<stream, queue, delivered, late, pending>>
    BY DEF CloseBegins, CloseStep, CloseTransport, CloseReturns
  <1>2. Live' = Live BY <1>1 DEF Live
  <1>3. QueueIsFresh' /\ NoLeftovers' BY <1>1, <1>2 DEF QueueIsFresh, NoLeftovers
  <1>4. CASE CloseBegins
    <2>1. Marks' /\ MarkExplained'
      BY <1>2, <1>4 DEF CloseBegins, Marks, MarkNamesLiveStream, OneLiveStream, MarkExplained
    <2>2. SentinelLast' BY <1>4 DEF CloseBegins, SentinelLast
    <2>3. CloseOrder' BY <1>4 DEF CloseBegins, CloseOrder, agentVars
    <2> QED BY <1>3, <2>1, <2>2, <2>3 DEF SessionInv
  <1>5. CASE CloseStep
    <2>1. UNCHANGED <<active, turnInFlight, turnRequestId, reader>>
      BY <1>5 DEF CloseStep, CloseTransport, CloseReturns
    <2>2. Marks' /\ MarkExplained' /\ SentinelLast'
      BY <1>1, <1>2, <2>1 DEF Marks, MarkNamesLiveStream, OneLiveStream, MarkExplained,
                              SentinelLast
    <2>3. CloseOrder'
      BY <1>5 DEF CloseStep, CloseTransport, CloseReturns, ReaderAwaited, CloseOrder, agentVars
    <2> QED BY <1>3, <2>2, <2>3 DEF SessionInv
  <1> QED BY <1>4, <1>5

LEMMA ReaderInv == ASSUME IInv, ReaderStep PROVE SessionInv'
  <1> USE DEF IInv
  <1>1. /\ UNCHANGED <<active, turnInFlight, turnRequestId, stream, delivered, closing,
                       child, late>>
        /\ pending' \subseteq pending
    BY DEF ReaderStep, ReadResponse, ReadUpdate, SkipNoise, ReaderFails, ReadLine,
           ReaderAtEof, ReaderCancelled, ReaderEnds, readerFrame
  <1>2. Live' = Live BY <1>1 DEF Live
  <1>3. Marks' /\ MarkExplained' /\ NoLeftovers'
    BY <1>1, <1>2 DEF Marks, MarkNamesLiveStream, OneLiveStream, MarkExplained, NoLeftovers
  <1>4. queue \in Seq(Item) BY DEF TypeOK
  <1>5. CASE ReadResponse \/ ReadUpdate \/ SkipNoise
    <2>1. reader = "running" /\ reader' = "running" /\ stdout # <<>>
      BY <1>5 DEF ReadResponse, ReadUpdate, SkipNoise, ReadLine
    <2>2. QueueIsFresh'
      <3>1. CASE UNCHANGED queue BY <1>1, <1>2, <3>1 DEF QueueIsFresh
      <3>2. CASE queue' = Append(queue, Head(stdout)) /\ Head(stdout).kind = "response"
        <4>1. \A i \in DOMAIN queue' : queue'[i].kind = "update" =>
                 i \in DOMAIN queue /\ queue'[i] = queue[i]
          BY <1>4, <3>2
        <4> QED BY <1>2, <4>1 DEF QueueIsFresh
      <3>3. CASE queue' = Append(queue, Forwarded(Head(stdout))) /\ turnInFlight
        <4>1. \A i \in DOMAIN queue' : \/ i \in DOMAIN queue /\ queue'[i] = queue[i]
                                      \/ queue'[i] = Forwarded(Head(stdout))
          BY <1>4, <3>3
        <4>2. \A t \in Live : t = turnRequestId
          BY <3>3 DEF Marks, MarkNamesLiveStream
        <4> QED BY <1>2, <4>1, <4>2 DEF QueueIsFresh, Forwarded
      <3> QED BY <1>5, <3>1, <3>2, <3>3 DEF ReadResponse, ReadUpdate, SkipNoise
    <2>3. SentinelLast' /\ CloseOrder' BY <1>1, <2>1 DEF SentinelLast, CloseOrder
    <2> QED BY <1>3, <2>2, <2>3 DEF SessionInv
  <1>6. ASSUME NEW before \in {<< >>, <<Failure>>}, ReaderEnds(before) PROVE SessionInv'
    <2>1. queue \o before \in Seq(Item) /\ Eof \in Item
      <3>1. Failure \in Item /\ Eof \in Item BY DEF Item
      <3>2. before \in Seq(Item)
        <4>1. CASE before = << >> BY <4>1
        <4>2. CASE before = <<Failure>> BY <4>2, <3>1
        <4> QED BY <4>1, <4>2
      <3> QED BY <3>1, <3>2, <1>4
    <2>2. Len(queue') > 0 /\ queue'[Len(queue')] = Eof
      BY <1>6, <2>1, AppendItems DEF ReaderEnds
    <2>3. \A i \in DOMAIN queue' : \/ i \in DOMAIN queue /\ queue'[i] = queue[i]
                                  \/ queue'[i] = Failure \/ queue'[i] = Eof
      <3>1. \A i \in DOMAIN (queue \o before) :
                \/ i \in DOMAIN queue /\ (queue \o before)[i] = queue[i]
                \/ (queue \o before)[i] = Failure
        <4>1. CASE before = << >> BY <1>4, <4>1
        <4>2. CASE before = <<Failure>> BY <1>4, <4>2
        <4> QED BY <4>1, <4>2
      <3>2. PICK w \in Seq(Item) : w = queue \o before BY <2>1
      <3>3. \A i \in DOMAIN Append(w, Eof) : \/ i \in DOMAIN w /\ Append(w, Eof)[i] = w[i]
                                             \/ Append(w, Eof)[i] = Eof
        BY <2>1, <3>2, AppendItems
      <3>4. queue' = Append(w, Eof) BY <1>6, <3>2 DEF ReaderEnds
      <3> QED BY <3>1, <3>2, <3>3, <3>4
    <2>4. QueueIsFresh'
      <3> SUFFICES ASSUME NEW t \in Live, NEW i \in DOMAIN queue', queue'[i].kind = "update"
                   PROVE  queue'[i].during = t
        BY <1>2 DEF QueueIsFresh
      <3>1. queue'[i] # Failure /\ queue'[i] # Eof BY DEF Failure, Eof
      <3> QED BY <2>3, <3>1 DEF QueueIsFresh
    <2>5. SentinelLast' BY <2>2 DEF SentinelLast
    <2>6. CloseOrder' BY <1>1, <1>6 DEF CloseOrder, ReaderEnds
    <2> QED BY <1>3, <2>4, <2>5, <2>6 DEF SessionInv
  <1> QED BY <1>5, <1>6 DEF ReaderStep, ReaderFails, ReaderAtEof, ReaderCancelled

LEMMA QuietInv == ASSUME IInv, Cancel \/ AgentStep \/ UNCHANGED vars PROVE SessionInv'
  <1> USE DEF IInv
  <1>1. UNCHANGED <<sessionVars, late>> /\ (child = "dead" => child' = "dead")
    BY DEF Cancel, AgentStep, AgentAccepts, AgentSeesCancel, AgentExits, AgentUpdates,
           AgentAnswers, AgentNoise, vars, agentVars
  <1>2. Live' = Live BY <1>1 DEF sessionVars, Live
  <1> QED BY <1>1, <1>2 DEF sessionVars, SessionInv, Marks, MarkNamesLiveStream, OneLiveStream,
             MarkExplained, QueueIsFresh, NoLeftovers, SentinelLast, CloseOrder

LEMMA NextInv == ASSUME IInv, [Next]_vars PROVE IInv'
  <1>1. TypeOK' BY NextType DEF IInv
  <1>2. ASSUME NEW t \in Turns, HostStep(t) PROVE SessionInv'
    <2>1. CASE SendMessage(t) BY <2>1, SendInv
    <2>2. CASE SendCompletes(t) BY <2>2, AdvanceInv DEF SendCompletes
    <2>3. CASE SendFails(t) BY <2>3, AdvanceInv DEF SendFails
    <2>4. CASE StartStream(t) BY <2>4, AdvanceInv DEF StartStream
    <2>5. CASE DropUnstarted(t) BY <2>5, AdvanceInv DEF DropUnstarted
    <2>6. CASE FinishStream(t) \/ AbandonStream(t)
      BY <2>6, ReleaseInv DEF FinishStream, AbandonStream
    <2> QED BY <1>2, <2>1, <2>2, <2>3, <2>4, <2>5, <2>6 DEF HostStep
  <1>3. SessionInv'
    BY <1>2, TakeInv, CloseInv, ReaderInv, QuietInv DEF Next
  <1> QED BY <1>1, <1>3 DEF IInv, SessionInv

\* What the session, the reader and the turns agree on is kept by every step.
THEOREM Invariance == Spec => []IInv
  BY InitInv, NextInv, PTL DEF Spec

(***************************************************************************)
(* send_message, _stream and _tear_down together never leave two unfinished*)
(* streams on the session's one queue.                                     *)
(***************************************************************************)
THEOREM OneStream == Spec => []OneLiveStream
  <1>1. IInv => OneLiveStream BY DEF IInv, Marks
  <1> QED BY <1>1, Invariance, PTL

(***************************************************************************)
(* While the session is open, turn_in_flight and turn_request_id agree     *)
(* with the one unfinished stream: no finally clause clears another's mark.*)
(***************************************************************************)
THEOREM MarkIsRight == Spec => []MarkNamesLiveStream
  <1>1. IInv => MarkNamesLiveStream BY DEF IInv, Marks
  <1> QED BY <1>1, Invariance, PTL

(***************************************************************************)
(* The drain in send_message keeps every stream free of what was queued    *)
(* before its turn, however many turns were abandoned before.              *)
(***************************************************************************)
THEOREM FreshStream == Spec => []NoLeftovers
  <1>1. IInv => NoLeftovers BY DEF IInv
  <1> QED BY <1>1, Invariance, PTL

(***************************************************************************)
(* The reader's finally clause leaves something to wake every stream that  *)
(* began while the reader was still running.                               *)
(***************************************************************************)
THEOREM ReaderWakesStream == Spec => []NoStrandedStream
  <1>1. IInv => NoStrandedStream
    <2> SUFFICES ASSUME IInv, NEW t \in Turns, stream[t] \in {"created", "streaming"},
                        reader = "ended", queue = <<>>, ~late[t]
                 PROVE  FALSE
      BY DEF NoStrandedStream, IInv, TypeOK
    <2>1. Len(queue) > 0 BY DEF IInv, SentinelLast
    <2> QED BY <2>1
  <1> QED BY <1>1, Invariance, PTL

(***************************************************************************)
(* An open session that refuses messages has a live stream, or lost one in *)
(* a failed send_message or before its first step.                         *)
(***************************************************************************)
THEOREM WedgeIsExplained == Spec => []WedgedOnlyByLostSend
  <1>1. IInv => WedgedOnlyByLostSend
    BY DEF IInv, MarkExplained, WedgedOnlyByLostSend, Live
  <1> QED BY <1>1, Invariance, PTL

(***************************************************************************)
(* After close() the reader and the child are gone, and every request that *)
(* was sent to a running reader has been answered or failed.               *)
(***************************************************************************)
THEOREM CloseIsComplete == Spec => []ClosedMeansDown
  <1>1. IInv => ClosedMeansDown BY DEF IInv, CloseOrder, ClosedMeansDown
  <1> QED BY <1>1, Invariance, PTL

-----------------------------------------------------------------------------
(***************************************************************************)
(* What reaches a turn's stream.  Updates travel from the agent's pipe to  *)
(* the queue to the stream; the invariant is that nothing is lost or       *)
(* overtaken on the way, and that a response stays behind its updates.     *)
(***************************************************************************)
IsResponse(x) == x.kind = "response"
IsUpdate(x) == x.kind = "update"

\* No update of a turn comes after its response, in one sequence or in the
\* first of two of which the second comes later.
Ordered(s) ==
    \A i, j \in DOMAIN s : i < j /\ IsResponse(s[i]) /\ IsUpdate(s[j]) => s[i].turn # s[j].turn
Apart(q, s) ==
    \A i \in DOMAIN q, j \in DOMAIN s : IsResponse(q[i]) /\ IsUpdate(s[j]) => q[i].turn # s[j].turn
Answered(s, a) == \A i \in DOMAIN s : IsResponse(s[i]) => a[s[i].turn] = s[i].stop

AnswersLast ==
    /\ Ordered(queue) /\ Ordered(stdout) /\ Apart(queue, stdout)
    /\ Answered(queue, answer) /\ Answered(stdout, answer)

\* The agent works on a prompt at most once, and not after it has answered it.
PromptsOnce ==
    /\ \A i \in DOMAIN stdin : stdin[i].kind = "prompt" =>
          stdin[i].turn < nextRequestId /\ stdin[i].turn # running /\ answer[stdin[i].turn] = "none"
    /\ \A i, j \in DOMAIN stdin :
          stdin[i].kind = "prompt" /\ stdin[j].kind = "prompt" /\ stdin[i].turn = stdin[j].turn => i = j
    /\ running # None => running < nextRequestId /\ answer[running] = "none"

\* Nothing is known of a turn before its message is sent.
Unasked ==
    \A t \in Turns : t >= nextRequestId =>
        /\ stream[t] = "none" /\ answer[t] = "none" /\ verdict[t] = "none"
        /\ emitted[t] = <<>> /\ delivered[t] = <<>>
        /\ \A i \in DOMAIN stdout : IsUpdate(stdout[i]) => stdout[i].turn # t

OwnItem(t) == [kind : {"update"}, turn : {t}, n : 1..MaxUpdates, shown : {TRUE},
               during : Turns \cup {None}]
OwnLine(t) == [kind : {"update"}, turn : {t}, n : 1..MaxUpdates, shown : {TRUE}]
Flow(t) == (OwnDelivered(t) \o Numbers(Only(queue, OwnItem(t)))) \o Numbers(Only(stdout, OwnLine(t)))

\* A stream that waits has its updates delivered, queued and in the pipe, in
\* that order; one that its response ended has them all delivered.
Waiting(t) == stream[t] \in {"sending", "created", "streaming"}
NothingLost ==
    \A t \in Turns : Waiting(t) => verdict[t] = "none" /\ Flow(t) = ShownUpdates(t)

ReaderListens == reader = "running" => active

WireInv == AnswersLast /\ PromptsOnce /\ Unasked /\ NothingLost /\ CompleteTurn /\ ReaderListens


LEMMA OrderedAppend ==
  ASSUME NEW S, NEW s \in Seq(S), NEW x \in S, Ordered(s),
         IsUpdate(x) => \A i \in DOMAIN s : IsResponse(s[i]) => s[i].turn # x.turn
  PROVE  Ordered(Append(s, x))
  <1> DEFINE q == Append(s, x)
  <1>1. /\ DOMAIN s = 1..Len(s) /\ DOMAIN q = 1..(Len(s) + 1) /\ Len(s) \in Nat
        /\ q[Len(s) + 1] = x /\ \A i \in 1..Len(s) : q[i] = s[i]
    OBVIOUS
  <1> HIDE DEF q
  <1>2. ASSUME NEW i \in DOMAIN q, NEW j \in DOMAIN q, i < j, IsResponse(q[i]), IsUpdate(q[j])
        PROVE  q[i].turn # q[j].turn
    <2>1. i \in 1..Len(s) BY <1>1, <1>2
    <2>2. CASE j = Len(s) + 1 BY <1>1, <1>2, <2>1, <2>2
    <2>3. CASE j \in 1..Len(s) BY <1>1, <1>2, <2>1, <2>3 DEF Ordered
    <2> QED BY <1>1, <2>2, <2>3
  <1>3. Ordered(q) BY <1>2 DEF Ordered
  <1> QED BY <1>3 DEF q

LEMMA OrderedTail ==
  ASSUME NEW S, NEW s \in Seq(S), s # <<>>, Ordered(s)
  PROVE  /\ Ordered(Tail(s))
         /\ \A j \in DOMAIN Tail(s) : IsResponse(Head(s)) /\ IsUpdate(Tail(s)[j]) => Head(s).turn # Tail(s)[j].turn
  <1>1. \A i \in DOMAIN Tail(s) : i + 1 \in DOMAIN s /\ Tail(s)[i] = s[i + 1] BY TailItems
  <1>2. Head(s) = s[1] /\ 1 \in DOMAIN s /\ \A i \in DOMAIN Tail(s) : i \in Nat /\ 1 < i + 1 OBVIOUS
  <1> DEFINE q == Tail(s)  h == Head(s)
  <1> HIDE DEF q, h
  <1>3. \A i, j \in DOMAIN q : i < j => i + 1 < j + 1 BY <1>2 DEF q
  <1>4. Ordered(q)
    <2> SUFFICES ASSUME NEW i \in DOMAIN q, NEW j \in DOMAIN q, i < j, IsResponse(q[i]), IsUpdate(q[j])
                 PROVE  q[i].turn # q[j].turn
      BY DEF Ordered
    <2>1. i + 1 \in DOMAIN s /\ j + 1 \in DOMAIN s /\ i + 1 < j + 1 /\ q[i] = s[i + 1] /\ q[j] = s[j + 1]
      BY <1>1, <1>3 DEF q
    <2> QED BY <2>1 DEF Ordered
  <1>5. \A j \in DOMAIN q : IsResponse(h) /\ IsUpdate(q[j]) => h.turn # q[j].turn
    <2> SUFFICES ASSUME NEW j \in DOMAIN q, IsResponse(h), IsUpdate(q[j]) PROVE h.turn # q[j].turn
      OBVIOUS
    <2>1. j + 1 \in DOMAIN s /\ 1 < j + 1 /\ h = s[1] /\ q[j] = s[j + 1] /\ 1 \in DOMAIN s
      BY <1>1, <1>2 DEF q, h
    <2> QED BY <2>1 DEF Ordered
  <1> QED BY <1>4, <1>5 DEF q, h

LEMMA ApartAppend ==
  ASSUME NEW S, NEW T, NEW q \in Seq(S), NEW s \in Seq(T), NEW x \in S, NEW y \in T, Apart(q, s)
  PROVE  /\ (IsUpdate(y) => \A i \in DOMAIN q : IsResponse(q[i]) => q[i].turn # y.turn) => Apart(q, Append(s, y))
         /\ (IsResponse(x) => \A j \in DOMAIN s : IsUpdate(s[j]) => x.turn # s[j].turn) => Apart(Append(q, x), s)
  <1>1. /\ \A i \in DOMAIN Append(q, x) : (i \in DOMAIN q /\ Append(q, x)[i] = q[i]) \/ Append(q, x)[i] = x
        /\ \A i \in DOMAIN Append(s, y) : (i \in DOMAIN s /\ Append(s, y)[i] = s[i]) \/ Append(s, y)[i] = y
    BY AppendItems
  <1> DEFINE a == Append(q, x)  b == Append(s, y)
  <1> HIDE DEF a, b
  <1>2. (IsUpdate(y) => \A i \in DOMAIN q : IsResponse(q[i]) => q[i].turn # y.turn) => Apart(q, b)
    BY <1>1 DEF Apart, b
  <1>3. (IsResponse(x) => \A j \in DOMAIN s : IsUpdate(s[j]) => x.turn # s[j].turn) => Apart(a, s)
    BY <1>1 DEF Apart, a
  <1> QED BY <1>2, <1>3 DEF a, b

LEMMA ApartTail ==
  ASSUME NEW S, NEW T, NEW q \in Seq(S), NEW s \in Seq(T), Apart(q, s)
  PROVE  /\ q # <<>> => Apart(Tail(q), s)
         /\ q # <<>> => \A j \in DOMAIN s : IsResponse(Head(q)) /\ IsUpdate(s[j]) => Head(q).turn # s[j].turn
         /\ s # <<>> => Apart(q, Tail(s))
         /\ s # <<>> => \A i \in DOMAIN q : IsResponse(q[i]) /\ IsUpdate(Head(s)) => q[i].turn # Head(s).turn
  <1>1. q # <<>> => /\ Apart(Tail(q), s)
                    /\ \A j \in DOMAIN s : IsResponse(Head(q)) /\ IsUpdate(s[j]) => Head(q).turn # s[j].turn
    <2> SUFFICES ASSUME q # <<>> PROVE /\ Apart(Tail(q), s)
                    /\ \A j \in DOMAIN s : IsResponse(Head(q)) /\ IsUpdate(s[j]) => Head(q).turn # s[j].turn
      OBVIOUS
    <2>1. \A i \in DOMAIN Tail(q) : i + 1 \in DOMAIN q /\ Tail(q)[i] = q[i + 1] BY TailItems
    <2>2. Head(q) = q[1] /\ 1 \in DOMAIN q OBVIOUS
    <2> DEFINE r == Tail(q)  h == Head(q)
    <2> HIDE DEF r, h
    <2>3. Apart(r, s) /\ \A j \in DOMAIN s : IsResponse(h) /\ IsUpdate(s[j]) => h.turn # s[j].turn
      BY <2>1, <2>2 DEF Apart, r, h
    <2> QED BY <2>3 DEF r, h
  <1>2. s # <<>> => /\ Apart(q, Tail(s))
                    /\ \A i \in DOMAIN q : IsResponse(q[i]) /\ IsUpdate(Head(s)) => q[i].turn # Head(s).turn
    <2> SUFFICES ASSUME s # <<>> PROVE /\ Apart(q, Tail(s))
                    /\ \A i \in DOMAIN q : IsResponse(q[i]) /\ IsUpdate(Head(s)) => q[i].turn # Head(s).turn
      OBVIOUS
    <2>1. \A i \in DOMAIN Tail(s) : i + 1 \in DOMAIN s /\ Tail(s)[i] = s[i + 1] BY TailItems
    <2>2. Head(s) = s[1] /\ 1 \in DOMAIN s OBVIOUS
    <2> DEFINE r == Tail(s)  h == Head(s)
    <2> HIDE DEF r, h
    <2>3. Apart(q, r) /\ \A i \in DOMAIN q : IsResponse(q[i]) /\ IsUpdate(h) => q[i].turn # h.turn
      BY <2>1, <2>2 DEF Apart, r, h
    <2> QED BY <2>3 DEF r, h
  <1> QED BY <1>1, <1>2

LEMMA AnsweredAppend ==
  ASSUME NEW S, NEW s \in Seq(S), NEW x \in S, NEW a, Answered(s, a),
         IsResponse(x) => a[x.turn] = x.stop
  PROVE  Answered(Append(s, x), a)
  <1>1. \A i \in DOMAIN Append(s, x) : (i \in DOMAIN s /\ Append(s, x)[i] = s[i]) \/ Append(s, x)[i] = x
    BY AppendItems
  <1> DEFINE q == Append(s, x)
  <1> HIDE DEF q
  <1>2. Answered(q, a) BY <1>1 DEF Answered, q
  <1> QED BY <1>2 DEF q

LEMMA AnsweredTail ==
  ASSUME NEW S, NEW s \in Seq(S), s # <<>>, NEW a, Answered(s, a)
  PROVE  Answered(Tail(s), a) /\ (IsResponse(Head(s)) => a[Head(s).turn] = Head(s).stop)
  <1>1. \A i \in DOMAIN Tail(s) : i + 1 \in DOMAIN s /\ Tail(s)[i] = s[i + 1] BY TailItems
  <1>2. Head(s) = s[1] /\ 1 \in DOMAIN s OBVIOUS
  <1> DEFINE q == Tail(s)  h == Head(s)
  <1> HIDE DEF q, h
  <1>3. Answered(q, a) /\ (IsResponse(h) => a[h.turn] = h.stop) BY <1>1, <1>2 DEF Answered, q, h
  <1> QED BY <1>3 DEF q, h

\* The numbers of the selected elements of a sequence.
Chosen(s, S) == Numbers(Only(s, S))

LEMMA NumbersType ==
  ASSUME NEW S, \A e \in S : e.n \in Nat, NEW q \in Seq(S)
  PROVE  Numbers(q) \in Seq(Nat) /\ Len(Numbers(q)) = Len(q)
  <1> DEFINE ns == [i \in 1..Len(q) |-> q[i].n]
  <1>1. DOMAIN q = 1..Len(q) /\ Len(q) \in Nat OBVIOUS
  <1>2. \A i \in 1..Len(q) : q[i] \in S OBVIOUS
  <1>3. ns \in [1..Len(q) -> Nat] BY <1>2
  <1> HIDE DEF ns
  <1>4. ns \in Seq(Nat) /\ Len(ns) = Len(q)
    <2>1. \A k \in Nat : \A f \in [1..k -> Nat] : f \in Seq(Nat) /\ Len(f) = k OBVIOUS
    <2> QED BY <1>1, <1>3, <2>1
  <1> QED BY <1>1, <1>4 DEF ns, Numbers

LEMMA ChosenType ==
  ASSUME NEW A, NEW s \in Seq(A), NEW S, \A e \in S : e.n \in Nat
  PROVE  Chosen(s, S) \in Seq(Nat)
  <1>1. Only(s, S) \in Seq(A \cap S) BY OnlyType
  <1>2. \A e \in A \cap S : e.n \in Nat OBVIOUS
  <1> QED BY <1>1, <1>2, NumbersType DEF Chosen

LEMMA ChosenAppend ==
  ASSUME NEW A, NEW s \in Seq(A), NEW x \in A, NEW S
  PROVE  Chosen(Append(s, x), S) = IF x \in S THEN Append(Chosen(s, S), x.n) ELSE Chosen(s, S)
  <1>1. Only(s, S) \in Seq(A) BY OnlyIsSeq
  <1>2. \A q \in Seq(A) : [i \in DOMAIN Append(q, x) |-> Append(q, x)[i].n] = Append([i \in DOMAIN q |-> q[i].n], x.n)
    OBVIOUS
  <1>3. \A q \in Seq(A) : Numbers(Append(q, x)) = Append(Numbers(q), x.n) BY <1>2 DEF Numbers
  <1>4. Only(Append(s, x), S) = IF x \in S THEN Append(Only(s, S), x) ELSE Only(s, S) BY OnlyAppend
  <1>5. Numbers(Append(Only(s, S), x)) = Append(Numbers(Only(s, S)), x.n) BY <1>1, <1>3
  <1> QED BY <1>4, <1>5 DEF Chosen

LEMMA ChosenTail ==
  ASSUME NEW A, NEW s \in Seq(A), s # <<>>, NEW S
  PROVE  Chosen(s, S) = IF Head(s) \in S THEN <<Head(s).n>> \o Chosen(Tail(s), S) ELSE Chosen(Tail(s), S)
  <1> DEFINE h == Head(s)
  <1>1. Only(Tail(s), S) \in Seq(A) /\ h \in A
    <2>1. Tail(s) \in Seq(A) /\ h \in A BY HeadAndTail
    <2> QED BY <2>1, OnlyIsSeq
  <1> HIDE DEF h
  <1>2. \A q \in Seq(A) : [i \in DOMAIN (<<h>> \o q) |-> (<<h>> \o q)[i].n] = <<h.n>> \o [i \in DOMAIN q |-> q[i].n]
    <2> SUFFICES ASSUME NEW q \in Seq(A)
                 PROVE  [i \in DOMAIN (<<h>> \o q) |-> (<<h>> \o q)[i].n] = <<h.n>> \o [i \in DOMAIN q |-> q[i].n]
      OBVIOUS
    <2> DEFINE c == <<h>> \o q  m == [i \in DOMAIN q |-> q[i].n]  l == <<h.n>> \o m  V == {a.n : a \in A}
    <2>1. <<h>> \in Seq(A) /\ c \in Seq(A) /\ Len(c) = Len(q) + 1 /\ c[1] = h BY <1>1
    <2>2. \A i \in 1..Len(q) : c[i + 1] = q[i] BY <1>1
    <2>3. m \in Seq(V) /\ Len(m) = Len(q) /\ h.n \in V BY <1>1
    <2> HIDE DEF m, V
    <2>4. l \in Seq(V) /\ Len(l) = Len(q) + 1 /\ l[1] = h.n BY <2>3
    <2>5. \A i \in 1..Len(q) : l[i + 1] = m[i] BY <2>3
    <2>6. Len(q) \in Nat /\ DOMAIN q = 1..Len(q) OBVIOUS
    <2> HIDE DEF c, l
    <2>7. \A i \in 1..(Len(q) + 1) : i = 1 \/ (i - 1 \in 1..Len(q) /\ (i - 1) + 1 = i) BY <2>6
    <2>8. ASSUME NEW i \in 1..(Len(q) + 1) PROVE l[i] = c[i].n
      <3>1. CASE i = 1 BY <2>1, <2>4, <3>1
      <3>2. CASE i - 1 \in 1..Len(q) /\ (i - 1) + 1 = i
        <4>1. l[i] = m[i - 1] /\ c[i] = q[i - 1]
          <5>1. l[(i - 1) + 1] = m[i - 1] /\ c[(i - 1) + 1] = q[i - 1] BY <2>2, <2>5, <3>2
          <5> QED BY <3>2, <5>1
        <4>2. m[i - 1] = q[i - 1].n BY <2>6, <3>2 DEF m
        <4> QED BY <4>1, <4>2
      <3> QED BY <2>7, <3>1, <3>2
    <2>9. l = [i \in 1..(Len(q) + 1) |-> l[i]] BY <2>4
    <2>10. DOMAIN c = 1..(Len(q) + 1) BY <2>1
    <2> QED BY <2>8, <2>9, <2>10 DEF c, l, m
  <1>3. Numbers(<<h>> \o Only(Tail(s), S)) = <<h.n>> \o Numbers(Only(Tail(s), S)) BY <1>1, <1>2 DEF Numbers
  <1>4. Only(s, S) = IF h \in S THEN <<h>> \o Only(Tail(s), S) ELSE Only(Tail(s), S) BY OnlyTail DEF h
  <1>5. Chosen(s, S) = IF h \in S THEN <<h.n>> \o Chosen(Tail(s), S) ELSE Chosen(Tail(s), S)
    BY <1>3, <1>4 DEF Chosen
  <1> QED BY <1>5 DEF h

\* Nothing is selected where there is nothing to select.
LEMMA ChosenNone ==
  ASSUME NEW A, NEW s \in Seq(A), NEW S, \A i \in DOMAIN s : s[i] \notin S
  PROVE  Chosen(s, S) = <<>>
  <1> DEFINE B == {a \in A : a \notin S}
  <1>1. s \in Seq(B)
    <2>1. \A i \in 1..Len(s) : s[i] \in B OBVIOUS
    <2>2. Len(s) \in Nat /\ s = [i \in 1..Len(s) |-> s[i]] OBVIOUS
    <2> HIDE DEF B
    <2>3. \A k \in Nat : \A f \in [1..k -> B] : f \in Seq(B) OBVIOUS
    <2>4. s \in [1..Len(s) -> B] BY <2>1, <2>2
    <2> QED BY <2>2, <2>3, <2>4
  <1>2. Only(s, S) \in Seq(B \cap S) BY <1>1, OnlyType
  <1>3. B \cap S = {} OBVIOUS
  <1>4. \A q \in Seq({}) : q = <<>> OBVIOUS
  <1>5. Only(s, S) = <<>> BY <1>2, <1>3, <1>4
  <1> QED BY <1>5 DEF Chosen, Numbers

\* An element moves from the front of what follows to the end of what precedes.
LEMMA Handover ==
  ASSUME NEW S, NEW a \in Seq(S), NEW b \in Seq(S), NEW x \in S
  PROVE  a \o (<<x>> \o b) = Append(a, x) \o b
  <1> DEFINE l == a \o (<<x>> \o b)  r == Append(a, x) \o b
  <1>1. <<x>> \o b \in Seq(S) /\ Append(a, x) \in Seq(S) /\ Len(a) \in Nat /\ Len(b) \in Nat OBVIOUS
  <1>2. l \in Seq(S) /\ r \in Seq(S) /\ Len(l) = Len(a) + 1 + Len(b) /\ Len(r) = Len(a) + 1 + Len(b)
    OBVIOUS
  <1>3. \A i \in 1..(Len(a) + 1 + Len(b)) : l[i] = r[i] OBVIOUS
  <1> HIDE DEF l, r
  <1>4. l = r BY <1>2, <1>3
  <1> QED BY <1>4 DEF l, r


LEMMA LineKinds ==
  /\ \A x \in Line : (IsResponse(x) => x \in Response) /\ (IsUpdate(x) => x \in Update)
  /\ \A x \in Item : (IsResponse(x) => x \in Response) /\ (IsUpdate(x) => x \in QueuedUpdate)
  /\ \A x \in Response : IsResponse(x) /\ ~IsUpdate(x) /\ x.turn \in Turns /\ x.stop \in Stops
  /\ \A x \in Update : IsUpdate(x) /\ ~IsResponse(x) /\ x.turn \in Turns
  BY NoiseAssumption DEF Line, Item, Response, Update, QueuedUpdate, Failure, Eof, IsResponse, IsUpdate

LEMMA OwnNumbers ==
  /\ \A t : \A e \in OwnItem(t) : e.n \in Nat
  /\ \A t : \A e \in OwnLine(t) : e.n \in Nat
  /\ \A t : \A e \in OwnUpdate(t) : e.n \in Nat
  /\ \A e \in [n : 1..MaxUpdates, shown : {TRUE}] : e.n \in Nat
  <1>1. \A k \in 1..MaxUpdates : k \in Nat OBVIOUS
  <1>2. \A t : \A e \in OwnItem(t) : e.n \in Nat BY <1>1 DEF OwnItem
  <1>3. \A t : \A e \in OwnLine(t) : e.n \in Nat BY <1>1 DEF OwnLine
  <1>4. \A t : \A e \in OwnUpdate(t) : e.n \in Nat BY <1>1 DEF OwnUpdate
  <1>5. \A e \in [n : 1..MaxUpdates, shown : {TRUE}] : e.n \in Nat BY <1>1
  <1> QED BY <1>2, <1>3, <1>4, <1>5

LEMMA PromptTurns ==
  ASSUME TypeOK
  PROVE  \A i \in DOMAIN stdin : stdin[i].kind = "prompt" => stdin[i].turn \in Turns /\ stdin[i].turn \in Nat
  <1>1. \A r \in Request : r.kind = "prompt" => r.turn \in Turns BY DEF Request
  <1>2. \A t \in Turns : t \in Nat BY BoundsAssumption DEF Turns, FirstId
  <1>3. \A i \in DOMAIN stdin : stdin[i] \in Request BY DEF TypeOK
  <1> QED BY <1>1, <1>2, <1>3

\* What a turn's stream has had, has coming, and should get.
Had(t) == Chosen(delivered[t], OwnUpdate(t))
Queued(t) == Chosen(queue, OwnItem(t))
Piped(t) == Chosen(stdout, OwnLine(t))

LEMMA FlowParts ==
  ASSUME TypeOK, NEW t \in Turns
  PROVE  /\ Had(t) \in Seq(Nat) /\ Queued(t) \in Seq(Nat) /\ Piped(t) \in Seq(Nat)
         /\ Flow(t) = (Had(t) \o Queued(t)) \o Piped(t) /\ OwnDelivered(t) = Had(t)
  <1>1. /\ delivered[t] \in Seq(QueuedUpdate) /\ queue \in Seq(Item) /\ stdout \in Seq(Line)
    BY DEF TypeOK
  <1>2. Had(t) \in Seq(Nat) BY <1>1, OwnNumbers, ChosenType DEF Had
  <1>3. Queued(t) \in Seq(Nat) BY <1>1, OwnNumbers, ChosenType DEF Queued
  <1>4. Piped(t) \in Seq(Nat) BY <1>1, OwnNumbers, ChosenType DEF Piped
  <1> QED BY <1>2, <1>3, <1>4 DEF Had, Queued, Piped, Flow, OwnDelivered, Chosen

USE DEF WireInv

LEMMA InitWire == Init => WireInv
  <1> SUFFICES ASSUME Init PROVE WireInv OBVIOUS
  <1>1. AnswersLast BY DEF Init, AnswersLast, Ordered, Apart, Answered
  <1>2. PromptsOnce BY DEF Init, PromptsOnce, None
  <1>3. Unasked BY DEF Init, Unasked
  <1>4. NothingLost BY DEF Init, NothingLost, Waiting
  <1>5. CompleteTurn BY DEF Init, CompleteTurn, Stops
  <1>6. ReaderListens BY DEF Init, ReaderListens
  <1> QED BY <1>1, <1>2, <1>3, <1>4, <1>5, <1>6

\* Steps that move no update and no prompt.
LEMMA QuietWire ==
  ASSUME WireInv,
         UNCHANGED <<nextRequestId, queue, delivered, verdict, stdin, stdout, running, emitted, answer>>,
         \A t \in Turns : (Waiting(t)' => Waiting(t)) /\ (stream[t] = "none" => stream'[t] = "none"),
         reader' = "running" => active'
  PROVE  WireInv'
  <1>1. AnswersLast' BY DEF AnswersLast, Ordered, Apart, Answered
  <1>2. PromptsOnce' BY DEF PromptsOnce
  <1>3. Unasked' BY DEF Unasked
  <1>4. NothingLost' BY DEF NothingLost, Flow, ShownUpdates, OwnDelivered, Told
  <1>5. CompleteTurn' BY DEF CompleteTurn, ShownUpdates, OwnDelivered, Told
  <1>6. ReaderListens' BY DEF ReaderListens
  <1> QED BY <1>1, <1>2, <1>3, <1>4, <1>5, <1>6

LEMMA AdvanceWire ==
  ASSUME IInv, WireInv, NEW t \in Turns,
         SendCompletes(t) \/ SendFails(t) \/ StartStream(t) \/ DropUnstarted(t)
         \/ FinishStream(t) \/ AbandonStream(t)
  PROVE  WireInv'
  <1>1. /\ UNCHANGED <<nextRequestId, queue, delivered, verdict, stdin, stdout, running, emitted, answer,
                       active, reader>>
        /\ \E to \in {"created", "failed", "streaming", "dropped", "closed"} :
             /\ stream' = [stream EXCEPT ![t] = to]
             /\ stream[t] # "none"
             /\ to \in {"created", "streaming"} => Waiting(t)
    BY DEF SendCompletes, SendFails, StartStream, DropUnstarted, FinishStream, AbandonStream, Advance,
           Release, agentVars, Waiting
  <1>2. \A u \in Turns : (Waiting(u)' => Waiting(u)) /\ (stream[u] = "none" => stream'[u] = "none")
    BY <1>1 DEF Waiting, IInv, TypeOK
  <1>3. reader' = "running" => active' BY <1>1 DEF ReaderListens
  <1> QED BY <1>1, <1>2, <1>3, QuietWire

LEMMA CloseWire == ASSUME WireInv, CloseBegins \/ CloseStep \/ AgentExits \/ UNCHANGED vars PROVE WireInv'
  <1>1. UNCHANGED <<nextRequestId, queue, delivered, verdict, stdin, stdout, running, emitted, answer, stream>>
    BY DEF CloseBegins, CloseStep, CloseTransport, CloseReturns, AgentExits, agentVars, sessionVars, vars
  <1>2. reader' = "running" => active'
    BY DEF CloseBegins, CloseStep, CloseTransport, CloseReturns, AgentExits, agentVars, sessionVars, vars,
           ReaderListens
  <1>3. \A u \in Turns : (Waiting(u)' => Waiting(u)) /\ (stream[u] = "none" => stream'[u] = "none")
    BY <1>1 DEF Waiting
  <1> QED BY <1>1, <1>2, <1>3, QuietWire

LEMMA SendWire == ASSUME IInv, WireInv, NEW t \in Turns, SendMessage(t) PROVE WireInv'
  <1> USE DEF IInv
  <1>1. /\ t = nextRequestId /\ nextRequestId' = nextRequestId + 1 /\ queue' = <<>>
        /\ stdin' = Written([kind |-> "prompt", turn |-> t])
        /\ stream' = [stream EXCEPT ![t] = "sending"]
        /\ UNCHANGED <<stdout, running, emitted, answer, delivered, verdict, reader, active>>
    BY DEF SendMessage, agentVars, QueueAtSend
  <1>2. t \in Nat /\ nextRequestId \in Nat /\ nextRequestId > 0 /\ running \in Nat
    BY BoundsAssumption DEF TypeOK, FirstId, Turns, None
  <1>3. Live = {} BY DEF SendMessage, ReadyForTurn, Marks, MarkNamesLiveStream
  <1>4. /\ stream'[t] = "sending" /\ \A u \in Turns \ {t} : stream'[u] = stream[u]
    BY <1>1 DEF TypeOK
  <1>5. /\ answer[t] = "none" /\ verdict[t] = "none" /\ emitted[t] = <<>> /\ delivered[t] = <<>>
        /\ \A i \in DOMAIN stdout : IsUpdate(stdout[i]) => stdout[i].turn # t
    BY <1>1, <1>2 DEF Unasked
  <1>6. AnswersLast' BY <1>1 DEF AnswersLast, Ordered, Apart, Answered
  <1>7. PromptsOnce'
    <2>1. CASE stdin' = stdin
      <3>1. \A i \in DOMAIN stdin : stdin[i].kind = "prompt" => stdin[i].turn < nextRequestId + 1
        BY <1>2, PromptTurns DEF PromptsOnce
      <3>2. running # None => running < nextRequestId + 1 BY <1>2 DEF PromptsOnce
      <3> QED BY <1>1, <2>1, <3>1, <3>2 DEF PromptsOnce
    <2>2. CASE stdin' = Append(stdin, [kind |-> "prompt", turn |-> t])
      <3> DEFINE p == [kind |-> "prompt", turn |-> t]
      <3>1. p.kind = "prompt" /\ p.turn = t OBVIOUS
      <3>2. /\ DOMAIN stdin' = 1..(Len(stdin) + 1) /\ Len(stdin) \in Nat /\ stdin'[Len(stdin) + 1] = p
            /\ DOMAIN stdin = 1..Len(stdin) /\ \A i \in 1..Len(stdin) : stdin'[i] = stdin[i]
        <4>1. stdin \in Seq(Request) BY DEF TypeOK
        <4>2. p \in Request BY DEF Request
        <4> QED BY <2>2, <4>1, <4>2
      <3>3. \A i \in DOMAIN stdin : stdin[i].kind = "prompt" =>
               stdin[i].turn < nextRequestId + 1 /\ stdin[i].turn # t
        BY <1>1, <1>2, PromptTurns DEF PromptsOnce
      <3>4. t # running /\ t < nextRequestId + 1
        BY <1>1, <1>2 DEF PromptsOnce, None
      <3>5. running # None => running < nextRequestId + 1 BY <1>2 DEF PromptsOnce
      <3> HIDE DEF p
      <3>6. ASSUME NEW i \in DOMAIN stdin', stdin'[i].kind = "prompt"
            PROVE  /\ stdin'[i].turn < nextRequestId' /\ stdin'[i].turn # running'
                   /\ answer'[stdin'[i].turn] = "none"
        <4>1. CASE i = Len(stdin) + 1 BY <1>1, <1>5, <3>1, <3>2, <3>4, <4>1
        <4>2. CASE i \in DOMAIN stdin
          <5>1. stdin'[i] = stdin[i] BY <3>2, <4>2
          <5> QED BY <1>1, <3>3, <3>6, <4>2, <5>1 DEF PromptsOnce
        <4> QED BY <3>2, <4>1, <4>2
      <3>7. ASSUME NEW i \in DOMAIN stdin', NEW j \in DOMAIN stdin', stdin'[i].kind = "prompt",
                   stdin'[j].kind = "prompt", stdin'[i].turn = stdin'[j].turn
            PROVE  i = j
        <4>1. \A k \in DOMAIN stdin' : k = Len(stdin) + 1 \/ (k \in DOMAIN stdin /\ stdin'[k] = stdin[k])
          BY <3>2
        <4>2. CASE i = Len(stdin) + 1 /\ j \in DOMAIN stdin BY <3>1, <3>2, <3>3, <3>7, <4>1, <4>2
        <4>3. CASE j = Len(stdin) + 1 /\ i \in DOMAIN stdin BY <3>1, <3>2, <3>3, <3>7, <4>1, <4>3
        <4>4. CASE i \in DOMAIN stdin /\ j \in DOMAIN stdin
          <5>1. stdin'[i] = stdin[i] /\ stdin'[j] = stdin[j] BY <3>2, <4>4
          <5> QED BY <3>7, <4>4, <5>1 DEF PromptsOnce
        <4> QED BY <4>1, <4>2, <4>3, <4>4
      <3>8. running' # None => running' < nextRequestId' /\ answer'[running'] = "none"
        BY <1>1, <3>5 DEF PromptsOnce
      <3> QED BY <3>6, <3>7, <3>8 DEF PromptsOnce
    <2> QED BY <1>1, <2>1, <2>2 DEF Written
  <1>8. Unasked'
    <2> SUFFICES ASSUME NEW u \in Turns, u >= nextRequestId + 1
                 PROVE  /\ stream'[u] = "none" /\ answer[u] = "none" /\ verdict[u] = "none"
                        /\ emitted[u] = <<>> /\ delivered[u] = <<>>
                        /\ \A i \in DOMAIN stdout : IsUpdate(stdout[i]) => stdout[i].turn # u
      BY <1>1 DEF Unasked
    <2>1. u \in Nat BY BoundsAssumption DEF Turns, FirstId
    <2>2. u # t /\ u >= nextRequestId BY <1>1, <1>2, <2>1
    <2>3. stream'[u] = stream[u] BY <1>4, <2>2
    <2> QED BY <2>2, <2>3 DEF Unasked
  <1>9. NothingLost'
    <2> SUFFICES ASSUME NEW u \in Turns, Waiting(u)' PROVE verdict'[u] = "none" /\ (Flow(u) = ShownUpdates(u))'
      BY DEF NothingLost
    <2>1. u = t
      <3>1. Waiting(u) => u \in Live BY DEF Waiting, Live
      <3>2. u # t => (Waiting(u)' => Waiting(u)) BY <1>4 DEF Waiting
      <3> QED BY <1>3, <3>1, <3>2
    <2>2. Chosen(delivered'[t], OwnUpdate(t)) = <<>>
      <3>1. Only(<<>>, OwnUpdate(t)) = <<>> BY OnlyEmpty
      <3> QED BY <1>1, <1>5, <3>1 DEF Chosen, Numbers
    <2>3. Chosen(queue', OwnItem(t)) = <<>>
      <3>1. Only(<<>>, OwnItem(t)) = <<>> BY OnlyEmpty
      <3> QED BY <1>1, <3>1 DEF Chosen, Numbers
    <2>4. Chosen(stdout', OwnLine(t)) = <<>>
      <3>1. \A i \in DOMAIN stdout : stdout[i] \notin OwnLine(t) BY <1>5 DEF OwnLine, IsUpdate
      <3>2. stdout \in Seq(Line) BY DEF TypeOK
      <3> QED BY <1>1, <3>1, <3>2, ChosenNone
    <2>5. Flow(t)' = <<>> BY <2>2, <2>3, <2>4 DEF Flow, OwnDelivered, Chosen
    <2>6. ShownUpdates(t)' = <<>>
      <3>1. Told(t)' = <<>> BY <1>1, <1>5 DEF Told
      <3>2. Only(<<>>, [n : 1..MaxUpdates, shown : {TRUE}]) = <<>> BY OnlyEmpty
      <3>3. Numbers(<<>>) = <<>> BY DEF Numbers
      <3> QED BY <3>1, <3>2, <3>3 DEF ShownUpdates
    <2> QED BY <1>1, <1>5, <2>1, <2>5, <2>6
  <1>10. CompleteTurn' BY <1>1 DEF CompleteTurn, OwnDelivered, ShownUpdates, Told
  <1>11. ReaderListens' BY <1>1 DEF ReaderListens
  <1> QED BY <1>6, <1>7, <1>8, <1>9, <1>10, <1>11


LEMMA TakeWire == ASSUME IInv, WireInv, NEW t \in Turns, StreamStep(t) PROVE WireInv'
  <1> USE DEF IInv
  <1> DEFINE h == Head(queue)
  <1>1. PICK to \in {"ended", "streaming"} : Take(t, to)
    BY DEF StreamStep, TakeSentinel, TakeResponse, TakeUpdate
  <1>2. /\ UNCHANGED <<nextRequestId, stdin, stdout, running, emitted, answer, reader, active>>
        /\ queue' = Tail(queue) /\ queue # <<>> /\ stream[t] = "streaming"
    BY <1>1 DEF Take, agentVars
  <1>3. stream'[t] = to /\ \A u \in Turns \ {t} : stream'[u] = stream[u]
    BY <1>1 DEF Take, TypeOK
  <1>4. queue \in Seq(Item) /\ stdout \in Seq(Line) /\ h \in Item /\ delivered[t] \in Seq(QueuedUpdate)
    BY <1>2, TailType DEF TypeOK
  <1>5. t < nextRequestId
    <2>1. t \in Nat /\ nextRequestId \in Nat BY BoundsAssumption DEF Turns, FirstId, TypeOK
    <2> QED BY <1>2, <2>1 DEF Unasked
  <1>6. verdict[t] = "none" /\ Flow(t) = ShownUpdates(t) BY <1>2 DEF NothingLost, Waiting
  <1>7. AnswersLast'
    <2>1. Ordered(Tail(queue)) BY <1>2, <1>4, OrderedTail DEF AnswersLast
    <2>2. Apart(Tail(queue), stdout) BY <1>2, <1>4, ApartTail DEF AnswersLast
    <2>3. Answered(Tail(queue), answer) BY <1>2, <1>4, AnsweredTail DEF AnswersLast
    <2> QED BY <1>2, <2>1, <2>2, <2>3 DEF AnswersLast
  <1>8. PromptsOnce' BY <1>2 DEF PromptsOnce
  <1>9. \A u \in Turns \ {t} : verdict'[u] = verdict[u] /\ delivered'[u] = delivered[u]
    BY DEF StreamStep, TakeSentinel, TakeResponse, TakeUpdate, TypeOK
  <1>10. Unasked'
    <2>1. t \in Nat /\ nextRequestId \in Nat BY BoundsAssumption DEF Turns, FirstId, TypeOK
    <2>2. ASSUME NEW u \in Turns, u >= nextRequestId PROVE u # t BY <1>5, <2>1, <2>2
    <2> QED BY <1>2, <1>3, <1>9, <2>2 DEF Unasked
  <1>11. ShownUpdates(t)' = ShownUpdates(t) /\ Piped(t)' = Piped(t)
    BY <1>2 DEF ShownUpdates, Told, Piped
  <1>12. /\ Had(t) \in Seq(Nat) /\ Queued(t) \in Seq(Nat) /\ Piped(t) \in Seq(Nat)
         /\ Flow(t) = (Had(t) \o Queued(t)) \o Piped(t)
    BY FlowParts
  <1>q. Queued(t)' = Chosen(Tail(queue), OwnItem(t)) /\ Queued(t)' \in Seq(Nat)
    <2>1. Tail(queue) \in Seq(Item) BY <1>2, <1>4, TailType
    <2>2. Chosen(Tail(queue), OwnItem(t)) \in Seq(Nat) BY <2>1, OwnNumbers, ChosenType
    <2> QED BY <1>2, <2>2 DEF Queued
  <1>13. Queued(t) = IF h \in OwnItem(t) THEN <<h.n>> \o Queued(t)' ELSE Queued(t)'
    <2>1. Chosen(queue, OwnItem(t)) =
            IF h \in OwnItem(t) THEN <<h.n>> \o Chosen(Tail(queue), OwnItem(t)) ELSE Chosen(Tail(queue), OwnItem(t))
      BY <1>2, <1>4, ChosenTail
    <2> QED BY <1>q, <2>1 DEF Queued
  <1> HIDE DEF h
  <1>14. CASE TakeUpdate(t)
    <2>1. /\ verdict' = verdict
          /\ delivered'[t] = IF HasChunk(h) THEN Append(delivered[t], h) ELSE delivered[t]
      BY <1>14 DEF TakeUpdate, TypeOK, h
    <2>2. Had(t)' \o Queued(t)' = Had(t) \o Queued(t)
      <3>1. CASE HasChunk(h)
        <4>1. h \in QueuedUpdate /\ h.shown = TRUE
          BY <1>4, <3>1, LineKinds DEF HasChunk, IsUpdate, QueuedUpdate
        <4>2. (h \in OwnUpdate(t) <=> h.turn = t) /\ (h \in OwnItem(t) <=> h.turn = t) /\ h.n \in Nat
          <5>1. h.turn = t => h \in OwnUpdate(t) /\ h \in OwnItem(t) BY <4>1 DEF QueuedUpdate, OwnUpdate, OwnItem
          <5>2. h \in OwnUpdate(t) => h.turn = t BY DEF OwnUpdate
          <5>3. h \in OwnItem(t) => h.turn = t BY DEF OwnItem
          <5>4. h.n \in Nat BY <4>1, BoundsAssumption DEF QueuedUpdate
          <5> QED BY <5>1, <5>2, <5>3, <5>4
        <4>3. Had(t)' = IF h \in OwnUpdate(t) THEN Append(Had(t), h.n) ELSE Had(t)
          <5>1. Chosen(Append(delivered[t], h), OwnUpdate(t)) =
                  IF h \in OwnUpdate(t) THEN Append(Chosen(delivered[t], OwnUpdate(t)), h.n)
                  ELSE Chosen(delivered[t], OwnUpdate(t))
            BY <1>4, <4>1, ChosenAppend
          <5> QED BY <2>1, <3>1, <5>1 DEF Had
        <4>4. CASE h.turn = t
          <5>1. Had(t) \o (<<h.n>> \o Queued(t)') = Append(Had(t), h.n) \o Queued(t)'
            BY <1>12, <1>q, <4>2, Handover
          <5> QED BY <1>13, <4>2, <4>3, <4>4, <5>1
        <4>5. CASE h.turn # t BY <1>13, <4>2, <4>3, <4>5
        <4> QED BY <4>4, <4>5
      <3>2. CASE ~HasChunk(h)
        <4>1. h \notin OwnItem(t) BY <3>2 DEF HasChunk, OwnItem
        <4>2. Had(t)' = Had(t) BY <2>1, <3>2 DEF Had
        <4> QED BY <1>13, <4>1, <4>2
      <3> QED BY <3>1, <3>2
    <2>3. Flow(t)' = Flow(t)
      <3>1. Flow(t)' = (Had(t)' \o Queued(t)') \o Piped(t)' BY DEF Flow, Had, Queued, Piped, OwnDelivered, Chosen
      <3> QED BY <1>11, <1>12, <2>2, <3>1
    <2>4. NothingLost'
      <3> SUFFICES ASSUME NEW u \in Turns, Waiting(u)' PROVE verdict'[u] = "none" /\ (Flow(u) = ShownUpdates(u))'
        BY DEF NothingLost
      <3>1. u = t
        <4>1. u # t => u \in Live BY <1>3 DEF Waiting, Live
        <4>2. t \in Live BY <1>2 DEF Live
        <4> QED BY <4>1, <4>2 DEF Marks, OneLiveStream
      <3> QED BY <1>6, <1>11, <2>1, <2>3, <3>1
    <2>5. CompleteTurn'
      <3> SUFFICES ASSUME NEW u \in Turns, verdict'[u] \in Stops
                   PROVE  verdict'[u] = answer'[u] /\ (OwnDelivered(u) = ShownUpdates(u))'
        BY DEF CompleteTurn
      <3>1. u # t BY <1>6, <2>1 DEF Stops
      <3>2. ShownUpdates(u)' = ShownUpdates(u) /\ OwnDelivered(u)' = OwnDelivered(u)
        BY <1>2, <1>9, <3>1 DEF ShownUpdates, Told, OwnDelivered
      <3> QED BY <1>2, <2>1, <3>2 DEF CompleteTurn
    <2> QED BY <1>2, <1>7, <1>8, <1>10, <2>4, <2>5 DEF ReaderListens
  <1>15. CASE TakeResponse(t) \/ TakeSentinel(t)
    <2>1. to = "ended" /\ delivered' = delivered
      BY <1>3, <1>15 DEF TakeResponse, TakeSentinel, Take, TypeOK
    <2>2. NothingLost'
      <3> SUFFICES ASSUME NEW u \in Turns, Waiting(u)' PROVE FALSE
        BY DEF NothingLost
      <3>1. u # t BY <1>3, <2>1 DEF Waiting
      <3>2. u \in Live BY <1>3, <3>1 DEF Waiting, Live
      <3>3. t \in Live BY <1>2 DEF Live
      <3> QED BY <3>1, <3>2, <3>3 DEF Marks, OneLiveStream
    <2>3. \A u \in Turns : ShownUpdates(u)' = ShownUpdates(u) /\ OwnDelivered(u)' = OwnDelivered(u)
      BY <1>2, <2>1 DEF ShownUpdates, Told, OwnDelivered
    <2>4. verdict'[t] \in Stops => verdict'[t] = answer[t] /\ OwnDelivered(t) = ShownUpdates(t)
      <3>1. CASE TakeSentinel(t) BY <3>1 DEF TakeSentinel, TypeOK, Stops
      <3>2. CASE TakeResponse(t)
        <4>1. verdict'[t] = h.stop /\ IsResponse(h) /\ h.turn = t
          BY <3>2 DEF TakeResponse, IsOwnResponse, IsResponse, TypeOK, h
        <4>2. answer[t] = h.stop
          <5>1. answer[Head(queue).turn] = Head(queue).stop
            BY <1>2, <1>4, <4>1, AnsweredTail DEF AnswersLast, h
          <5> QED BY <4>1, <5>1 DEF h
        <4>3. Queued(t)' = <<>>
          <5>1. \A j \in DOMAIN Tail(queue) : IsUpdate(Tail(queue)[j]) => Head(queue).turn # Tail(queue)[j].turn
            BY <1>2, <1>4, <4>1, OrderedTail DEF AnswersLast, h
          <5>2. \A j \in DOMAIN Tail(queue) : Tail(queue)[j] \notin OwnItem(t)
            BY <4>1, <5>1 DEF OwnItem, IsUpdate, h
          <5>3. Tail(queue) \in Seq(Item) BY <1>2, <1>4, TailType
          <5> QED BY <1>q, <5>2, <5>3, ChosenNone
        <4>4. Piped(t) = <<>>
          <5>1. \A j \in DOMAIN stdout : IsUpdate(stdout[j]) => Head(queue).turn # stdout[j].turn
            BY <1>2, <1>4, <4>1, ApartTail DEF AnswersLast, h
          <5>2. \A j \in DOMAIN stdout : stdout[j] \notin OwnLine(t)
            BY <4>1, <5>1 DEF OwnLine, IsUpdate, h
          <5> QED BY <1>4, <5>2, ChosenNone DEF Piped
        <4>5. h \notin OwnItem(t) BY <4>1 DEF OwnItem, IsResponse
        <4>6. Flow(t) = (Had(t) \o <<>>) \o <<>> BY <1>12, <1>13, <4>3, <4>4, <4>5
        <4>7. Flow(t) = Had(t) BY <1>12, <4>6, ConcatEmpty
        <4>8. OwnDelivered(t) = Had(t) BY FlowParts
        <4> QED BY <1>6, <4>1, <4>2, <4>7, <4>8
      <3> QED BY <1>15, <3>1, <3>2
    <2>5. CompleteTurn'
      <3> SUFFICES ASSUME NEW u \in Turns, verdict'[u] \in Stops
                   PROVE  verdict'[u] = answer'[u] /\ (OwnDelivered(u) = ShownUpdates(u))'
        BY DEF CompleteTurn
      <3>1. CASE u = t BY <1>2, <2>3, <2>4, <3>1
      <3>2. CASE u # t BY <1>2, <1>9, <2>3, <3>2 DEF CompleteTurn
      <3> QED BY <3>1, <3>2
    <2> QED BY <1>2, <1>7, <1>8, <1>10, <2>2, <2>5 DEF ReaderListens
  <1> QED BY <1>14, <1>15 DEF StreamStep

-----------------------------------------------------------------------------
\* Items that are neither a response nor an update change nothing of this.
LEMMA InertItem ==
  ASSUME NEW q \in Seq(Item), NEW s \in Seq(Line), NEW x \in Item, ~IsResponse(x), ~IsUpdate(x),
         Ordered(q), Apart(q, s), Answered(q, answer)
  PROVE  /\ Append(q, x) \in Seq(Item) /\ Ordered(Append(q, x)) /\ Apart(Append(q, x), s)
         /\ Answered(Append(q, x), answer)
         /\ \A t : Chosen(Append(q, x), OwnItem(t)) = Chosen(q, OwnItem(t))
  <1>1. Append(q, x) \in Seq(Item) BY AppendType
  <1>2. Ordered(Append(q, x)) BY OrderedAppend
  <1>3. Apart(Append(q, x), s)
    <2>1. \A i \in DOMAIN Append(q, x) : (i \in DOMAIN q /\ Append(q, x)[i] = q[i]) \/ Append(q, x)[i] = x
      BY AppendItems
    <2> DEFINE r == Append(q, x)
    <2> HIDE DEF r
    <2>2. Apart(r, s) BY <2>1 DEF Apart, r
    <2> QED BY <2>2 DEF r
  <1>4. Answered(Append(q, x), answer) BY AnsweredAppend
  <1>5. \A t : x \notin OwnItem(t) BY DEF OwnItem, IsUpdate
  <1>6. \A t : Chosen(Append(q, x), OwnItem(t)) = Chosen(q, OwnItem(t))
    <2> TAKE t
    <2>1. Chosen(Append(q, x), OwnItem(t)) =
            IF x \in OwnItem(t) THEN Append(Chosen(q, OwnItem(t)), x.n) ELSE Chosen(q, OwnItem(t))
      BY ChosenAppend
    <2> QED BY <1>5, <2>1
  <1> QED BY <1>1, <1>2, <1>3, <1>4, <1>6

\* What the reader's steps have in common: the other variables, and what is
\* left to show.
LEMMA ReaderFrame ==
  ASSUME WireInv, ReaderStep, AnswersLast', \A i \in DOMAIN stdout' : IsUpdate(stdout'[i]) =>
           \E j \in DOMAIN stdout : stdout[j] = stdout'[i],
         \A t \in Turns : Waiting(t) => Flow(t)' = Flow(t)
  PROVE  WireInv'
  <1>1. /\ UNCHANGED <<nextRequestId, stdin, running, emitted, answer, delivered, verdict, stream, active>>
        /\ reader' = "running" => reader = "running"
    BY DEF ReaderStep, ReadResponse, ReadUpdate, SkipNoise, ReaderFails, ReadLine, ReaderAtEof, ReaderCancelled,
           ReaderEnds, readerFrame
  <1>2. PromptsOnce' BY <1>1 DEF PromptsOnce
  <1>3. Unasked'
    <2> SUFFICES ASSUME NEW t \in Turns, t >= nextRequestId, NEW i \in DOMAIN stdout', IsUpdate(stdout'[i])
                 PROVE  stdout'[i].turn # t
      BY <1>1 DEF Unasked
    <2> QED BY DEF Unasked
  <1>4. \A t \in Turns : ShownUpdates(t)' = ShownUpdates(t) /\ OwnDelivered(t)' = OwnDelivered(t)
    BY <1>1 DEF ShownUpdates, Told, OwnDelivered
  <1>5. NothingLost' BY <1>1, <1>4 DEF NothingLost, Waiting
  <1>6. CompleteTurn' BY <1>1, <1>4 DEF CompleteTurn
  <1>7. ReaderListens' BY <1>1 DEF ReaderListens
  <1> QED BY <1>2, <1>3, <1>5, <1>6, <1>7

\* A line read leaves the others in the pipe.
LEMMA LineRead ==
  ASSUME TypeOK, AnswersLast, ReadLine
  PROVE  /\ stdout \in Seq(Line) /\ stdout # <<>> /\ stdout' = Tail(stdout) /\ stdout' \in Seq(Line)
         /\ Head(stdout) \in Line /\ queue \in Seq(Item) /\ answer' = answer /\ delivered' = delivered
         /\ reader = "running"
         /\ \A i \in DOMAIN stdout' : \E j \in DOMAIN stdout : stdout[j] = stdout'[i]
         /\ Ordered(stdout') /\ Answered(stdout', answer) /\ Apart(queue, stdout')
         /\ \A t : Piped(t) = IF Head(stdout) \in OwnLine(t) THEN <<Head(stdout).n>> \o Piped(t)' ELSE Piped(t)'
  <1>1. /\ stdout \in Seq(Line) /\ stdout # <<>> /\ stdout' = Tail(stdout) /\ queue \in Seq(Item)
        /\ answer' = answer /\ delivered' = delivered /\ reader = "running"
    BY DEF ReadLine, readerFrame, TypeOK
  <1>2. Tail(stdout) \in Seq(Line) /\ Head(stdout) \in Line BY <1>1, TailType
  <1>3. \A i \in DOMAIN Tail(stdout) : \E j \in DOMAIN stdout : stdout[j] = Tail(stdout)[i]
    <2>1. \A i \in DOMAIN Tail(stdout) : i + 1 \in DOMAIN stdout /\ Tail(stdout)[i] = stdout[i + 1]
      BY <1>1, TailItems
    <2> QED BY <2>1
  <1>4. Ordered(Tail(stdout)) BY <1>1, OrderedTail DEF AnswersLast
  <1>5. Answered(Tail(stdout), answer) BY <1>1, AnsweredTail DEF AnswersLast
  <1>6. Apart(queue, Tail(stdout)) BY <1>1, ApartTail DEF AnswersLast
  <1>7. \A t : Chosen(stdout, OwnLine(t)) =
          IF Head(stdout) \in OwnLine(t) THEN <<Head(stdout).n>> \o Chosen(Tail(stdout), OwnLine(t))
          ELSE Chosen(Tail(stdout), OwnLine(t))
    BY <1>1, ChosenTail
  <1>8. \A t : Piped(t)' = Chosen(Tail(stdout), OwnLine(t)) BY <1>1 DEF Piped
  <1>9. \A t : Piped(t) = IF Head(stdout) \in OwnLine(t) THEN <<Head(stdout).n>> \o Piped(t)' ELSE Piped(t)'
    BY <1>7, <1>8 DEF Piped
  <1> QED BY <1>1, <1>2, <1>3, <1>4, <1>5, <1>6, <1>9

LEMMA FlowPrime == \A t : Flow(t)' = (Had(t)' \o Queued(t)') \o Piped(t)'
  BY DEF Flow, Had, Queued, Piped, OwnDelivered, Chosen

LEMMA ResponseWire == ASSUME IInv, WireInv, ReadResponse PROVE WireInv'
  <1> USE DEF IInv
  <1> DEFINE h == Head(stdout)
  <1>1. ReadLine /\ IsResponse(h) /\ (queue' = queue \/ queue' = Append(queue, h))
    BY DEF ReadResponse, IsResponse
  <1>2. /\ stdout \in Seq(Line) /\ stdout # <<>> /\ stdout' = Tail(stdout) /\ stdout' \in Seq(Line)
        /\ h \in Line /\ queue \in Seq(Item) /\ answer' = answer /\ delivered' = delivered
        /\ \A i \in DOMAIN stdout' : \E j \in DOMAIN stdout : stdout[j] = stdout'[i]
        /\ Ordered(stdout') /\ Answered(stdout', answer) /\ Apart(queue, stdout')
        /\ \A t : Piped(t) = IF h \in OwnLine(t) THEN <<h.n>> \o Piped(t)' ELSE Piped(t)'
    BY <1>1, LineRead
  <1>3. h \in Item /\ ~IsUpdate(h) BY <1>1, <1>2, LineKinds DEF Item
  <1>4. \A j \in DOMAIN stdout' : IsUpdate(stdout'[j]) => h.turn # stdout'[j].turn
    <2>1. \A j \in DOMAIN Tail(stdout) : IsUpdate(Tail(stdout)[j]) => Head(stdout).turn # Tail(stdout)[j].turn
      BY <1>1, <1>2, OrderedTail DEF AnswersLast
    <2> QED BY <1>2, <2>1
  <1>5. answer[h.turn] = h.stop BY <1>1, <1>2, AnsweredTail DEF AnswersLast
  <1>6. \A t : h \notin OwnLine(t) /\ h \notin OwnItem(t) BY <1>3 DEF OwnLine, OwnItem, IsUpdate
  <1> HIDE DEF h
  <1>7. AnswersLast'
    <2>1. CASE queue' = queue BY <1>2, <2>1 DEF AnswersLast
    <2>2. CASE queue' = Append(queue, h)
      <3>1. Ordered(Append(queue, h)) BY <1>2, <1>3, OrderedAppend DEF AnswersLast
      <3>2. Apart(Append(queue, h), stdout')
        <4>1. \A i \in DOMAIN Append(queue, h) :
                 (i \in DOMAIN queue /\ Append(queue, h)[i] = queue[i]) \/ Append(queue, h)[i] = h
          BY <1>2, <1>3, AppendItems
        <4> DEFINE r == Append(queue, h)
        <4> HIDE DEF r
        <4>2. Apart(r, stdout') BY <1>2, <1>4, <4>1 DEF Apart, r
        <4> QED BY <4>2 DEF r
      <3>3. Answered(Append(queue, h), answer) BY <1>2, <1>3, <1>5, AnsweredAppend DEF AnswersLast
      <3> QED BY <1>2, <2>2, <3>1, <3>2, <3>3 DEF AnswersLast
    <2> QED BY <1>1, <2>1, <2>2
  <1>8. \A t : Queued(t)' = Queued(t) /\ Piped(t)' = Piped(t) /\ Had(t)' = Had(t)
    <2> TAKE t
    <2>1. Queued(t)' = Queued(t)
      <3>1. CASE queue' = queue BY <3>1 DEF Queued
      <3>2. CASE queue' = Append(queue, h)
        <4>1. Chosen(Append(queue, h), OwnItem(t)) =
                IF h \in OwnItem(t) THEN Append(Chosen(queue, OwnItem(t)), h.n) ELSE Chosen(queue, OwnItem(t))
          BY <1>2, <1>3, ChosenAppend
        <4> QED BY <1>6, <3>2, <4>1 DEF Queued
      <3> QED BY <1>1, <3>1, <3>2
    <2>2. Piped(t)' = Piped(t) BY <1>2, <1>6
    <2>3. Had(t)' = Had(t) BY <1>2 DEF Had
    <2> QED BY <2>1, <2>2, <2>3
  <1>9. \A t \in Turns : Flow(t)' = Flow(t) BY <1>8, FlowPrime, FlowParts
  <1> QED BY <1>2, <1>7, <1>9, ReaderFrame DEF ReaderStep

LEMMA UpdateWire == ASSUME IInv, WireInv, ReadUpdate PROVE WireInv'
  <1> USE DEF IInv
  <1> DEFINE h == Head(stdout)  f == Forwarded(h)
  <1>1. /\ ReadLine /\ IsUpdate(h) /\ queue' = IF turnInFlight THEN Append(queue, f) ELSE queue
    BY DEF ReadUpdate, IsUpdate
  <1>2. /\ stdout \in Seq(Line) /\ stdout # <<>> /\ stdout' = Tail(stdout) /\ stdout' \in Seq(Line)
        /\ h \in Line /\ queue \in Seq(Item) /\ answer' = answer /\ delivered' = delivered /\ reader = "running"
        /\ \A i \in DOMAIN stdout' : \E j \in DOMAIN stdout : stdout[j] = stdout'[i]
        /\ Ordered(stdout') /\ Answered(stdout', answer) /\ Apart(queue, stdout')
        /\ \A t : Piped(t) = IF h \in OwnLine(t) THEN <<h.n>> \o Piped(t)' ELSE Piped(t)'
    BY <1>1, LineRead
  <1>3. h \in Update BY <1>1, <1>2, LineKinds
  <1>4. f \in QueuedUpdate /\ f.turn = h.turn /\ f.n = h.n /\ f.shown = h.shown /\ f.kind = "update"
    <2>1. turnRequestId \in Turns \cup {None} BY DEF TypeOK
    <2> QED BY <1>3, <2>1 DEF Forwarded, Update, QueuedUpdate
  <1>5. \A i \in DOMAIN queue : IsResponse(queue[i]) => queue[i].turn # h.turn
    BY <1>1, <1>2, ApartTail DEF AnswersLast
  <1> HIDE DEF h, f
  <1>6. f \in Item /\ ~IsResponse(f) /\ IsUpdate(f) BY <1>4 DEF Item, IsResponse, IsUpdate
  <1>7. AnswersLast'
    <2>1. CASE queue' = queue BY <1>2, <2>1 DEF AnswersLast
    <2>2. CASE queue' = Append(queue, f)
      <3>1. Ordered(Append(queue, f)) BY <1>2, <1>4, <1>5, <1>6, OrderedAppend DEF AnswersLast
      <3>2. Apart(Append(queue, f), stdout')
        <4>1. \A i \in DOMAIN Append(queue, f) :
                 (i \in DOMAIN queue /\ Append(queue, f)[i] = queue[i]) \/ Append(queue, f)[i] = f
          BY <1>2, <1>6, AppendItems
        <4> DEFINE r == Append(queue, f)
        <4> HIDE DEF r
        <4>2. Apart(r, stdout') BY <1>2, <1>6, <4>1 DEF Apart, r
        <4> QED BY <4>2 DEF r
      <3>3. Answered(Append(queue, f), answer) BY <1>2, <1>6, AnsweredAppend DEF AnswersLast
      <3> QED BY <1>2, <2>2, <3>1, <3>2, <3>3 DEF AnswersLast
    <2> QED BY <1>1, <2>1, <2>2
  <1>8. ASSUME NEW t \in Turns, Waiting(t) PROVE Flow(t)' = Flow(t)
    <2>1. turnInFlight
      <3>1. t \in Live BY <1>8 DEF Waiting, Live
      <3>2. active BY <1>2 DEF ReaderListens
      <3> QED BY <3>1, <3>2 DEF Marks, MarkNamesLiveStream
    <2>2. queue' = Append(queue, f) BY <1>1, <2>1
    <2>3. Queued(t)' = IF f \in OwnItem(t) THEN Append(Queued(t), f.n) ELSE Queued(t)
      <3>1. Chosen(Append(queue, f), OwnItem(t)) =
              IF f \in OwnItem(t) THEN Append(Chosen(queue, OwnItem(t)), f.n) ELSE Chosen(queue, OwnItem(t))
        BY <1>2, <1>6, ChosenAppend
      <3> QED BY <2>2, <3>1 DEF Queued
    <2>4. f \in OwnItem(t) <=> h \in OwnLine(t)
      <3>1. h \in OwnLine(t) <=> h.turn = t /\ h.shown = TRUE
        <4>1. h \in OwnLine(t) => h.turn = t /\ h.shown = TRUE BY DEF OwnLine
        <4>2. h.turn = t /\ h.shown = TRUE => h \in OwnLine(t) BY <1>3 DEF OwnLine, Update
        <4> QED BY <4>1, <4>2
      <3>2. f \in OwnItem(t) <=> f.turn = t /\ f.shown = TRUE
        <4>1. f \in OwnItem(t) => f.turn = t /\ f.shown = TRUE BY DEF OwnItem
        <4>2. f.turn = t /\ f.shown = TRUE => f \in OwnItem(t) BY <1>4 DEF OwnItem, QueuedUpdate
        <4> QED BY <4>1, <4>2
      <3> QED BY <1>4, <3>1, <3>2
    <2>5. Had(t) \in Seq(Nat) /\ Queued(t) \in Seq(Nat) /\ Had(t)' = Had(t)
          /\ Flow(t) = (Had(t) \o Queued(t)) \o Piped(t)
      BY <1>2, FlowParts DEF Had
    <2>6. Piped(t)' \in Seq(Nat)
      <3>1. Chosen(stdout', OwnLine(t)) \in Seq(Nat) BY <1>2, OwnNumbers, ChosenType
      <3> QED BY <3>1 DEF Piped
    <2>7. CASE h \in OwnLine(t)
      <3>1. h.n \in Nat BY <2>7, OwnNumbers
      <3>2. /\ Had(t) \o Append(Queued(t), h.n) = Append(Had(t) \o Queued(t), h.n)
            /\ Had(t) \o Queued(t) \in Seq(Nat)
        BY <2>5, <3>1, AppendConcat
      <3>3. (Had(t) \o Queued(t)) \o (<<h.n>> \o Piped(t)') = Append(Had(t) \o Queued(t), h.n) \o Piped(t)'
        <4> DEFINE a == Had(t) \o Queued(t)
        <4>1. a \in Seq(Nat) BY <3>2
        <4> HIDE DEF a
        <4>2. a \o (<<h.n>> \o Piped(t)') = Append(a, h.n) \o Piped(t)' BY <2>6, <3>1, <4>1, Handover
        <4> QED BY <4>2 DEF a
      <3>4. Queued(t)' = Append(Queued(t), h.n) BY <1>4, <2>3, <2>4, <2>7
      <3>5. Piped(t) = <<h.n>> \o Piped(t)' BY <1>2, <2>7
      <3> QED BY <2>5, <3>2, <3>3, <3>4, <3>5, FlowPrime
    <2>8. CASE h \notin OwnLine(t)
      <3>1. Queued(t)' = Queued(t) /\ Piped(t)' = Piped(t) BY <1>2, <2>3, <2>4, <2>8
      <3> QED BY <2>5, <3>1, FlowPrime
    <2> QED BY <2>7, <2>8
  <1> QED BY <1>2, <1>7, <1>8, ReaderFrame DEF ReaderStep

LEMMA EndsWire == ASSUME IInv, WireInv, SkipNoise \/ ReaderFails \/ ReaderAtEof \/ ReaderCancelled PROVE WireInv'
  <1> USE DEF IInv
  <1>1. /\ stdout \in Seq(Line) /\ queue \in Seq(Item) /\ answer' = answer /\ delivered' = delivered
        /\ stdout' \in Seq(Line)
        /\ \A i \in DOMAIN stdout' : \E j \in DOMAIN stdout : stdout[j] = stdout'[i]
        /\ Ordered(stdout') /\ Answered(stdout', answer) /\ Apart(queue, stdout')
        /\ \A t : Piped(t)' = Piped(t) /\ Had(t)' = Had(t)
    <2>1. CASE SkipNoise \/ ReaderFails
      <3>1. ReadLine /\ ~IsUpdate(Head(stdout)) BY <2>1 DEF SkipNoise, ReaderFails, IsUpdate
      <3>2. \A t : Head(stdout) \notin OwnLine(t) BY <3>1 DEF OwnLine, IsUpdate
      <3>3. \A t : Piped(t)' = Piped(t) BY <3>1, <3>2, LineRead
      <3>4. delivered' = delivered BY <3>1, LineRead
      <3>5. \A t : Had(t)' = Had(t) BY <3>4 DEF Had
      <3> QED BY <3>1, <3>3, <3>5, LineRead
    <2>2. CASE ReaderAtEof \/ ReaderCancelled
      <3>1. stdout' = stdout /\ answer' = answer /\ delivered' = delivered
        BY <2>2 DEF ReaderAtEof, ReaderCancelled, readerFrame
      <3> QED BY <3>1 DEF AnswersLast, TypeOK, Piped, Had
    <2> QED BY <2>1, <2>2
  <1>2. Failure \in Item /\ Eof \in Item /\ ~IsResponse(Failure) /\ ~IsUpdate(Failure) /\ ~IsResponse(Eof) /\ ~IsUpdate(Eof)
    BY DEF Item, Failure, Eof, IsResponse, IsUpdate
  <1>3. Ordered(queue) /\ Answered(queue, answer) BY DEF AnswersLast
  <1>4. \/ queue' = queue
        \/ queue' = Append(queue, Eof)
        \/ queue' = Append(Append(queue, Failure), Eof)
    <2>1. \A q \in Seq(Item) : q \o <<>> = q /\ q \o <<Failure>> = Append(q, Failure) BY <1>2
    <2> QED BY <1>1, <2>1 DEF SkipNoise, ReaderFails, ReaderAtEof, ReaderCancelled, ReaderEnds
  <1>5. /\ Ordered(queue') /\ Apart(queue', stdout') /\ Answered(queue', answer)
        /\ \A t : Queued(t)' = Queued(t)
    <2>1. CASE queue' = queue BY <1>1, <1>3, <2>1 DEF Queued
    <2>2. CASE queue' = Append(queue, Eof)
      <3>1. \A t : Chosen(Append(queue, Eof), OwnItem(t)) = Chosen(queue, OwnItem(t)) BY <1>1, <1>2, <1>3, InertItem
      <3>2. Ordered(Append(queue, Eof)) /\ Apart(Append(queue, Eof), stdout') /\ Answered(Append(queue, Eof), answer)
        BY <1>1, <1>2, <1>3, InertItem
      <3> QED BY <2>2, <3>1, <3>2 DEF Queued
    <2>3. CASE queue' = Append(Append(queue, Failure), Eof)
      <3> DEFINE r == Append(queue, Failure)
      <3>1. /\ r \in Seq(Item) /\ Ordered(r) /\ Apart(r, stdout') /\ Answered(r, answer)
            /\ \A t : Chosen(r, OwnItem(t)) = Chosen(queue, OwnItem(t))
        BY <1>1, <1>2, <1>3, InertItem
      <3> HIDE DEF r
      <3>2. /\ Ordered(Append(r, Eof)) /\ Apart(Append(r, Eof), stdout') /\ Answered(Append(r, Eof), answer)
            /\ \A t : Chosen(Append(r, Eof), OwnItem(t)) = Chosen(r, OwnItem(t))
        BY <1>1, <1>2, <3>1, InertItem
      <3>3. queue' = Append(r, Eof) BY <2>3 DEF r
      <3> QED BY <3>1, <3>2, <3>3 DEF Queued
    <2> QED BY <1>4, <2>1, <2>2, <2>3
  <1>6. AnswersLast' BY <1>1, <1>5 DEF AnswersLast
  <1>7. \A t \in Turns : Flow(t)' = Flow(t) BY <1>1, <1>5, FlowPrime, FlowParts
  <1> QED BY <1>1, <1>6, <1>7, ReaderFrame DEF ReaderStep


-----------------------------------------------------------------------------
\* Steps of the agent that leave the pipe to the adapter alone.
LEMMA StdinWire ==
  ASSUME IInv, WireInv, AgentAccepts \/ AgentSeesCancel \/ Cancel
  PROVE  WireInv'
  <1> USE DEF IInv
  <1>1. UNCHANGED <<nextRequestId, queue, delivered, verdict, stdout, emitted, answer, stream, reader, active>>
    BY DEF AgentAccepts, AgentSeesCancel, Cancel, sessionVars, agentVars
  <1>2. stdin \in Seq(Request) BY DEF TypeOK
  <1>3. PromptsOnce'
    <2>1. ASSUME stdin # <<>>, stdin' = Tail(stdin), running' \in {running, Head(stdin).turn},
                 running' # running => Head(stdin).kind = "prompt" /\ running = None
          PROVE  PromptsOnce'
      <3>1. \A i \in DOMAIN stdin' : i + 1 \in DOMAIN stdin /\ stdin'[i] = stdin[i + 1] /\ i \in Nat /\ i # 0
        <4>1. \A i \in DOMAIN Tail(stdin) : i + 1 \in DOMAIN stdin /\ Tail(stdin)[i] = stdin[i + 1]
          BY <1>2, <2>1, TailItems
        <4>2. \A i \in DOMAIN Tail(stdin) : i \in Nat /\ i # 0 BY <1>2, <2>1
        <4> QED BY <2>1, <4>1, <4>2
      <3>2. 1 \in DOMAIN stdin /\ Head(stdin) = stdin[1] BY <1>2, <2>1
      <3>3. ASSUME NEW i \in DOMAIN stdin', stdin'[i].kind = "prompt"
            PROVE  /\ stdin'[i].turn < nextRequestId /\ stdin'[i].turn # running'
                   /\ answer[stdin'[i].turn] = "none"
        <4>1. i + 1 \in DOMAIN stdin /\ stdin[i + 1] = stdin'[i] /\ i + 1 # 1 BY <3>1, <3>3
        <4>2. /\ stdin[i + 1].turn < nextRequestId /\ stdin[i + 1].turn # running
              /\ answer[stdin[i + 1].turn] = "none"
          BY <3>3, <4>1 DEF PromptsOnce
        <4>3. stdin[i + 1].turn # running'
          <5>1. CASE running' = running BY <4>2, <5>1
          <5>2. CASE running' # running BY <2>1, <3>2, <3>3, <4>1, <5>2 DEF PromptsOnce
          <5> QED BY <5>1, <5>2
        <4> QED BY <4>1, <4>2, <4>3
      <3>4. ASSUME NEW i \in DOMAIN stdin', NEW j \in DOMAIN stdin', stdin'[i].kind = "prompt",
                   stdin'[j].kind = "prompt", stdin'[i].turn = stdin'[j].turn
            PROVE  i = j
        <4>1. i + 1 = j + 1 BY <3>1, <3>4 DEF PromptsOnce
        <4> QED BY <3>1, <4>1
      <3>5. running' # None => running' < nextRequestId /\ answer[running'] = "none"
        <4>1. CASE running' = running BY <4>1 DEF PromptsOnce
        <4>2. CASE running' # running BY <2>1, <3>2, <4>2 DEF PromptsOnce
        <4> QED BY <4>1, <4>2
      <3> QED BY <1>1, <3>3, <3>4, <3>5 DEF PromptsOnce
    <2>2. CASE AgentAccepts BY <2>1, <2>2 DEF AgentAccepts
    <2>3. CASE AgentSeesCancel BY <2>1, <2>3 DEF AgentSeesCancel
    <2>4. CASE Cancel
      <3>1. running' = running /\ (stdin' = stdin \/ stdin' = Append(stdin, [kind |-> "cancel"]))
        BY <2>4 DEF Cancel, agentVars, Written
      <3>2. CASE stdin' = stdin BY <1>1, <3>1, <3>2 DEF PromptsOnce
      <3>3. CASE stdin' = Append(stdin, [kind |-> "cancel"])
        <4>1. [kind |-> "cancel"] \in Request BY DEF Request
        <4>2. \A i \in DOMAIN stdin' : (i \in DOMAIN stdin /\ stdin'[i] = stdin[i]) \/ stdin'[i] = [kind |-> "cancel"]
          BY <1>2, <3>3, <4>1, AppendItems
        <4>3. \A i \in DOMAIN stdin' : stdin'[i].kind = "prompt" => i \in DOMAIN stdin /\ stdin'[i] = stdin[i]
          BY <4>2
        <4> QED BY <1>1, <3>1, <4>3 DEF PromptsOnce
      <3> QED BY <3>1, <3>2, <3>3
    <2> QED BY <2>2, <2>3, <2>4
  <1>4. AnswersLast' BY <1>1 DEF AnswersLast, Ordered, Apart, Answered
  <1>5. Unasked' BY <1>1 DEF Unasked
  <1>6. NothingLost' BY <1>1 DEF NothingLost, Flow, ShownUpdates, OwnDelivered, Told, Waiting
  <1>7. CompleteTurn' BY <1>1 DEF CompleteTurn, ShownUpdates, OwnDelivered, Told
  <1>8. ReaderListens' BY <1>1 DEF ReaderListens
  <1> QED BY <1>3, <1>4, <1>5, <1>6, <1>7, <1>8

\* One more update of the running turn, shown or not.
LEMMA ToldAppend ==
  ASSUME TypeOK, NEW t \in Turns, NEW shown \in BOOLEAN, Len(emitted[t]) < MaxUpdates,
         emitted'[t] = Append(emitted[t], shown)
  PROVE  /\ ShownUpdates(t) \in Seq(Nat)
         /\ ShownUpdates(t)' = IF shown THEN Append(ShownUpdates(t), Len(emitted[t]) + 1) ELSE ShownUpdates(t)
  <1> DEFINE e == emitted[t]  x == [n |-> Len(e) + 1, shown |-> shown]
             A == [n : Nat, shown : BOOLEAN]  S == [n : 1..MaxUpdates, shown : {TRUE}]
  <1>1. e \in Seq(BOOLEAN) /\ Len(e) \in Nat /\ DOMAIN e = 1..Len(e) BY DEF TypeOK
  <1>2. Told(t) = [i \in 1..Len(e) |-> [n |-> i, shown |-> e[i]]] BY <1>1 DEF Told
  <1>3. Told(t) \in Seq(A) /\ Len(Told(t)) = Len(e)
    <2>1. \A i \in 1..Len(e) : [n |-> i, shown |-> e[i]] \in A BY <1>1
    <2>2. Told(t) \in [1..Len(e) -> A] BY <1>2, <2>1
    <2> HIDE DEF A
    <2> QED BY <1>1, <2>2, Listed
  <1>4. Told(t)' = Append(Told(t), x)
    <2>1. Append(e, shown) \in Seq(BOOLEAN) /\ DOMAIN Append(e, shown) = 1..(Len(e) + 1)
          /\ Append(e, shown)[Len(e) + 1] = shown /\ \A i \in 1..Len(e) : Append(e, shown)[i] = e[i]
      BY <1>1
    <2>2. Told(t)' = [i \in 1..(Len(e) + 1) |-> [n |-> i, shown |-> Append(e, shown)[i]]]
      BY <2>1 DEF Told
    <2>3. x \in A BY <1>1
    <2>4. /\ Append(Told(t), x) \in Seq(A) /\ Len(Append(Told(t), x)) = Len(e) + 1
          /\ Append(Told(t), x)[Len(e) + 1] = x /\ \A i \in 1..Len(e) : Append(Told(t), x)[i] = Told(t)[i]
      BY <1>3, <2>3
    <2> DEFINE a == Append(Told(t), x)  b == [i \in 1..(Len(e) + 1) |-> [n |-> i, shown |-> Append(e, shown)[i]]]
    <2>5. a = [i \in 1..(Len(e) + 1) |-> a[i]] BY <2>4
    <2>p. \A i \in 1..(Len(e) + 1) : i = Len(e) + 1 \/ i \in 1..Len(e) BY <1>1
    <2>6. ASSUME NEW i \in 1..(Len(e) + 1) PROVE a[i] = b[i]
      <3>1. CASE i = Len(e) + 1 BY <1>1, <2>1, <2>4, <3>1
      <3>2. CASE i \in 1..Len(e)
        <4>1. a[i] = Told(t)[i] BY <2>4, <3>2
        <4>2. Told(t)[i] = [n |-> i, shown |-> e[i]] BY <1>2, <3>2
        <4> QED BY <2>1, <3>2, <4>1, <4>2
      <3> QED BY <2>p, <3>1, <3>2
    <2>7. b = [i \in 1..(Len(e) + 1) |-> b[i]] OBVIOUS
    <2> HIDE DEF a, b
    <2>8. a = b BY <2>5, <2>6, <2>7
    <2> QED BY <2>2, <2>8 DEF a, b
  <1>5. x \in A /\ (x \in S <=> shown) /\ x.n = Len(e) + 1
    <2>1. Len(e) + 1 \in 1..MaxUpdates /\ Len(e) + 1 \in Nat BY <1>1, BoundsAssumption
    <2>2. x.n = Len(e) + 1 /\ x.shown = shown /\ x \in A BY <2>1
    <2>3. x \in S => shown BY <2>2
    <2>4. shown => shown = TRUE OBVIOUS
    <2>5. shown = TRUE => x \in S BY <2>1
    <2> QED BY <2>2, <2>3, <2>4, <2>5
  <1>6. \A y \in S : y.n \in Nat BY OwnNumbers
  <1> HIDE DEF x, A, S
  <1>7. Chosen(Append(Told(t), x), S) = IF x \in S THEN Append(Chosen(Told(t), S), x.n) ELSE Chosen(Told(t), S)
    BY <1>3, <1>5, ChosenAppend
  <1>8. Chosen(Told(t), S) \in Seq(Nat) BY <1>3, <1>6, ChosenType
  <1>9. ShownUpdates(t) = Chosen(Told(t), S) BY DEF ShownUpdates, Chosen, S
  <1>10. ShownUpdates(t)' = Chosen(Append(Told(t), x), S)
    <2>1. ShownUpdates(t)' = Chosen(Told(t)', S) BY DEF ShownUpdates, Chosen, S
    <2> QED BY <1>4, <2>1
  <1> QED BY <1>5, <1>7, <1>8, <1>9, <1>10

\* The agent's turn has no response yet, on its way or recorded.
LEMMA RunningUnanswered ==
  ASSUME TypeOK, AnswersLast, PromptsOnce, CompleteTurn, running # None
  PROVE  /\ running \in Turns /\ answer[running] = "none" /\ verdict[running] \notin Stops
         /\ \A i \in DOMAIN queue : IsResponse(queue[i]) => queue[i].turn # running
         /\ \A i \in DOMAIN stdout : IsResponse(stdout[i]) => stdout[i].turn # running
  <1>1. running \in Turns /\ answer[running] = "none" BY DEF TypeOK, PromptsOnce
  <1>2. "none" \notin Stops BY DEF Stops
  <1>3. \A i \in DOMAIN queue : IsResponse(queue[i]) => queue[i].stop \in Stops
    <2>1. \A i \in DOMAIN queue : queue[i] \in Item BY DEF TypeOK
    <2> QED BY <2>1, LineKinds
  <1>4. \A i \in DOMAIN stdout : IsResponse(stdout[i]) => stdout[i].stop \in Stops
    <2>1. \A i \in DOMAIN stdout : stdout[i] \in Line BY DEF TypeOK
    <2> QED BY <2>1, LineKinds
  <1>5. verdict[running] \notin Stops BY <1>1, <1>2 DEF CompleteTurn
  <1> QED BY <1>1, <1>2, <1>3, <1>4, <1>5 DEF AnswersLast, Answered

LEMMA AgentUpdatesWire ==
  ASSUME IInv, WireInv, NEW shown \in BOOLEAN, AgentUpdates(shown)
  PROVE  WireInv'
  <1> USE DEF IInv
  <1>0. PICK r \in Turns : r = running BY DEF AgentUpdates, TypeOK
  <1> DEFINE k == Len(emitted[r]) + 1
             x == [kind |-> "update", turn |-> r, n |-> k, shown |-> shown]
  <1>1. /\ UNCHANGED <<nextRequestId, queue, delivered, verdict, stdin, running, answer, stream, reader, active>>
        /\ stdout' = Append(stdout, x) /\ r # None /\ Len(emitted[r]) < MaxUpdates
        /\ emitted' = [emitted EXCEPT ![r] = Append(@, shown)]
    BY <1>0 DEF AgentUpdates, sessionVars
  <1>2. /\ r \in Turns /\ answer[r] = "none" /\ verdict[r] \notin Stops
        /\ \A i \in DOMAIN queue : IsResponse(queue[i]) => queue[i].turn # r
        /\ \A i \in DOMAIN stdout : IsResponse(stdout[i]) => stdout[i].turn # r
    BY <1>0, <1>1, RunningUnanswered
  <1>3. k \in 1..MaxUpdates /\ emitted'[r] = Append(emitted[r], shown)
        /\ \A u \in Turns \ {r} : emitted'[u] = emitted[u]
    BY <1>1, <1>2, BoundsAssumption DEF TypeOK
  <1>4. x \in Update /\ x.turn = r /\ x.n = k /\ x.shown = shown BY <1>2, <1>3 DEF Update
  <1>5. x \in Line /\ IsUpdate(x) /\ ~IsResponse(x) BY <1>4, LineKinds DEF Line
  <1>6. stdout \in Seq(Line) /\ queue \in Seq(Item) BY DEF TypeOK
  <1> HIDE DEF x
  <1>7. AnswersLast'
    <2>1. Ordered(Append(stdout, x)) BY <1>2, <1>4, <1>5, <1>6, OrderedAppend DEF AnswersLast
    <2>2. Answered(Append(stdout, x), answer) BY <1>5, <1>6, AnsweredAppend DEF AnswersLast
    <2>3. Apart(queue, Append(stdout, x))
      <3>1. \A i \in DOMAIN Append(stdout, x) :
               (i \in DOMAIN stdout /\ Append(stdout, x)[i] = stdout[i]) \/ Append(stdout, x)[i] = x
        BY <1>5, <1>6, AppendItems
      <3> DEFINE s == Append(stdout, x)
      <3> HIDE DEF s
      <3>2. Apart(queue, s) BY <1>2, <1>4, <3>1 DEF AnswersLast, Apart, s
      <3> QED BY <3>2 DEF s
    <2> QED BY <1>1, <2>1, <2>2, <2>3 DEF AnswersLast
  <1>8. PromptsOnce' BY <1>1 DEF PromptsOnce
  <1>9. r < nextRequestId /\ r \in Nat /\ nextRequestId \in Nat
    BY <1>0, <1>1, BoundsAssumption DEF PromptsOnce, TypeOK, FirstId, Turns, None
  <1>10. Unasked'
    <2> SUFFICES ASSUME NEW t \in Turns, t >= nextRequestId
                 PROVE  /\ stream[t] = "none" /\ answer[t] = "none" /\ verdict[t] = "none"
                        /\ emitted'[t] = <<>> /\ delivered[t] = <<>>
                        /\ \A i \in DOMAIN stdout' : IsUpdate(stdout'[i]) => stdout'[i].turn # t
      BY <1>1 DEF Unasked
    <2>1. t # r
      <3>1. t \in Nat BY BoundsAssumption DEF FirstId, Turns
      <3> QED BY <1>9, <3>1
    <2>2. \A i \in DOMAIN Append(stdout, x) :
             (i \in DOMAIN stdout /\ Append(stdout, x)[i] = stdout[i]) \/ Append(stdout, x)[i] = x
      BY <1>5, <1>6, AppendItems
    <2>3. \A i \in DOMAIN stdout' : IsUpdate(stdout'[i]) => stdout'[i].turn # t
      BY <1>1, <1>4, <2>1, <2>2 DEF Unasked
    <2>4. emitted'[t] = emitted[t] BY <1>3, <2>1
    <2> QED BY <2>3, <2>4 DEF Unasked
  <1>11. \A u \in Turns \ {r} : ShownUpdates(u)' = ShownUpdates(u)
    BY <1>3 DEF ShownUpdates, Told
  <1>12. /\ ShownUpdates(r) \in Seq(Nat)
         /\ ShownUpdates(r)' = IF shown THEN Append(ShownUpdates(r), k) ELSE ShownUpdates(r)
    BY <1>1, <1>2, <1>3, ToldAppend
  <1>13. \A t : Piped(t)' = IF x \in OwnLine(t) THEN Append(Piped(t), k) ELSE Piped(t)
    <2>1. \A t : Chosen(Append(stdout, x), OwnLine(t)) =
                   IF x \in OwnLine(t) THEN Append(Chosen(stdout, OwnLine(t)), x.n) ELSE Chosen(stdout, OwnLine(t))
      BY <1>5, <1>6, ChosenAppend
    <2> QED BY <1>1, <1>4, <2>1 DEF Piped
  <1>14. \A t : x \in OwnLine(t) <=> t = r /\ shown
    <2> TAKE t
    <2>1. x \in OwnLine(t) => x.turn = t /\ x.shown = TRUE BY DEF OwnLine
    <2>2. x.turn = t /\ x.shown = TRUE => x \in OwnLine(t) BY <1>4 DEF OwnLine, Update
    <2> QED BY <1>4, <2>1, <2>2
  <1>15. \A t : Had(t)' = Had(t) /\ Queued(t)' = Queued(t) BY <1>1 DEF Had, Queued
  <1>16. NothingLost'
    <2> SUFFICES ASSUME NEW t \in Turns, Waiting(t) PROVE verdict[t] = "none" /\ Flow(t)' = ShownUpdates(t)'
      BY <1>1 DEF NothingLost, Waiting
    <2>1. verdict[t] = "none" /\ Flow(t) = ShownUpdates(t) BY DEF NothingLost
    <2>2. /\ Had(t) \in Seq(Nat) /\ Queued(t) \in Seq(Nat) /\ Piped(t) \in Seq(Nat)
          /\ Flow(t) = (Had(t) \o Queued(t)) \o Piped(t)
      BY FlowParts
    <2>3. Flow(t)' = (Had(t) \o Queued(t)) \o Piped(t)' BY <1>15, FlowPrime
    <2>4. CASE t = r /\ shown
      <3> DEFINE a == Had(t) \o Queued(t)
      <3>1. a \in Seq(Nat) BY <2>2
      <3>2. k \in Nat BY <1>3
      <3> HIDE DEF a, k
      <3>3. a \o Append(Piped(t), k) = Append(a \o Piped(t), k) BY <2>2, <3>1, <3>2, AppendConcat
      <3>4. Piped(t)' = Append(Piped(t), k) BY <1>13, <1>14, <2>4
      <3>5. ShownUpdates(t)' = Append(ShownUpdates(t), k) BY <1>12, <2>4
      <3> QED BY <2>1, <2>2, <2>3, <3>3, <3>4, <3>5 DEF a
    <2>5. CASE ~(t = r /\ shown)
      <3>1. Piped(t)' = Piped(t) BY <1>13, <1>14, <2>5
      <3>2. ShownUpdates(t)' = ShownUpdates(t) BY <1>11, <1>12, <2>5
      <3> QED BY <2>1, <2>2, <2>3, <3>1, <3>2
    <2> QED BY <2>4, <2>5
  <1>17. CompleteTurn'
    <2> SUFFICES ASSUME NEW t \in Turns, verdict[t] \in Stops
                 PROVE  verdict[t] = answer[t] /\ OwnDelivered(t)' = ShownUpdates(t)'
      BY <1>1 DEF CompleteTurn
    <2>1. t # r BY <1>2
    <2>2. OwnDelivered(t)' = OwnDelivered(t) BY <1>1 DEF OwnDelivered
    <2> QED BY <1>11, <2>1, <2>2 DEF CompleteTurn
  <1>18. ReaderListens' BY <1>1 DEF ReaderListens
  <1> QED BY <1>7, <1>8, <1>10, <1>16, <1>17, <1>18

LEMMA AgentLineWire ==
  ASSUME IInv, WireInv, (\E stop \in Stops : AgentAnswers(stop)) \/ \E kind \in NoiseKinds : AgentNoise(kind)
  PROVE  WireInv'
  <1> USE DEF IInv
  <1>1. PICK x \in Line :
          /\ ~IsUpdate(x) /\ stdout' = Append(stdout, x)
          /\ UNCHANGED <<nextRequestId, queue, delivered, verdict, stdin, emitted, stream, reader, active>>
          /\ \/ ~IsResponse(x) /\ answer' = answer /\ running' = running
             \/ /\ IsResponse(x) /\ running # None /\ x.turn = running /\ x.stop \in Stops
                /\ answer' = [answer EXCEPT ![running] = x.stop] /\ running' = None
    <2>1. ASSUME NEW stop \in Stops, AgentAnswers(stop)
          PROVE  LET x == [kind |-> "response", turn |-> running, stop |-> stop]
                 IN  /\ x \in Line /\ ~IsUpdate(x) /\ stdout' = Append(stdout, x)
                     /\ UNCHANGED <<nextRequestId, queue, delivered, verdict, stdin, emitted, stream, reader, active>>
                     /\ IsResponse(x) /\ running # None /\ x.turn = running /\ x.stop \in Stops
                     /\ answer' = [answer EXCEPT ![running] = x.stop] /\ running' = None
      BY <2>1 DEF AgentAnswers, Line, Response, IsUpdate, IsResponse, sessionVars, TypeOK
    <2>2. ASSUME NEW kind \in NoiseKinds, AgentNoise(kind)
          PROVE  LET x == [kind |-> kind]
                 IN  /\ x \in Line /\ ~IsUpdate(x) /\ stdout' = Append(stdout, x)
                     /\ UNCHANGED <<nextRequestId, queue, delivered, verdict, stdin, emitted, stream, reader, active>>
                     /\ ~IsResponse(x) /\ answer' = answer /\ running' = running
      BY <2>2, NoiseAssumption DEF AgentNoise, Line, IsUpdate, IsResponse, sessionVars
    <2> QED BY <2>1, <2>2
  <1>2. stdout \in Seq(Line) /\ queue \in Seq(Item) /\ DOMAIN answer = Turns BY DEF TypeOK
  <1>3. running # None =>
          /\ running \in Turns /\ answer[running] = "none" /\ verdict[running] \notin Stops
          /\ \A i \in DOMAIN queue : IsResponse(queue[i]) => queue[i].turn # running
          /\ \A i \in DOMAIN stdout : IsResponse(stdout[i]) => stdout[i].turn # running
    BY RunningUnanswered
  <1>4. \A i \in DOMAIN stdout' : (i \in DOMAIN stdout /\ stdout'[i] = stdout[i]) \/ stdout'[i] = x
    BY <1>1, <1>2, AppendItems
  <1>5. \A u : u # running => answer'[u] = answer[u]
    <2>1. CASE answer' = answer BY <2>1
    <2>2. CASE running # None /\ answer' = [answer EXCEPT ![running] = x.stop] BY <1>3, <2>2
    <2> QED BY <1>1, <2>1, <2>2
  <1>6. answer' = answer \/ (running # None /\ running' = None /\ IsResponse(x) /\ x.turn = running
                             /\ answer'[running] = x.stop)
    BY <1>1, <1>2, <1>3
  <1>7. AnswersLast'
    <2>1. Ordered(Append(stdout, x)) BY <1>1, <1>2, OrderedAppend DEF AnswersLast
    <2>2. Apart(queue, stdout') BY <1>1, <1>4 DEF AnswersLast, Apart
    <2>3. Answered(queue, answer')
      <3>1. CASE answer' = answer BY <3>1 DEF AnswersLast
      <3>2. CASE running # None BY <1>3, <1>5, <3>2 DEF AnswersLast, Answered
      <3> QED BY <1>6, <3>1, <3>2
    <2>4. Answered(stdout', answer')
      <3>1. CASE ~IsResponse(x) /\ answer' = answer BY <1>4, <3>1 DEF AnswersLast, Answered
      <3>2. CASE IsResponse(x) /\ running # None /\ x.turn = running /\ answer'[running] = x.stop
        BY <1>3, <1>4, <1>5, <3>2 DEF AnswersLast, Answered
      <3>3. (~IsResponse(x) /\ answer' = answer)
            \/ (IsResponse(x) /\ running # None /\ x.turn = running /\ answer'[running] = x.stop)
        <4>1. CASE ~IsResponse(x) BY <1>1, <4>1
        <4>2. CASE IsResponse(x) /\ running # None /\ answer' = [answer EXCEPT ![running] = x.stop]
          BY <1>1, <1>2, <1>3, <4>2
        <4> QED BY <1>1, <4>1, <4>2
      <3> QED BY <3>1, <3>2, <3>3
    <2> QED BY <1>1, <2>1, <2>2, <2>3, <2>4 DEF AnswersLast
  <1>8. PromptsOnce'
    <2>1. CASE answer' = answer /\ running' = running BY <1>1, <2>1 DEF PromptsOnce
    <2>2. CASE running' = None
      <3>1. ASSUME NEW i \in DOMAIN stdin, stdin[i].kind = "prompt"
            PROVE  /\ stdin[i].turn < nextRequestId /\ stdin[i].turn # None /\ answer'[stdin[i].turn] = "none"
        <4>1. stdin[i].turn # running /\ stdin[i].turn < nextRequestId /\ answer[stdin[i].turn] = "none"
          BY <3>1 DEF PromptsOnce
        <4>2. stdin[i].turn \in Turns BY <3>1, PromptTurns
        <4>3. None \notin Turns BY BoundsAssumption DEF None, Turns, FirstId
        <4> QED BY <1>5, <4>1, <4>2, <4>3
      <3> QED BY <1>1, <2>2, <3>1 DEF PromptsOnce
    <2> QED BY <1>1, <2>1, <2>2
  <1>9. Unasked'
    <2> SUFFICES ASSUME NEW t \in Turns, t >= nextRequestId
                 PROVE  /\ stream[t] = "none" /\ answer'[t] = "none" /\ verdict[t] = "none"
                        /\ emitted[t] = <<>> /\ delivered[t] = <<>>
                        /\ \A i \in DOMAIN stdout' : IsUpdate(stdout'[i]) => stdout'[i].turn # t
      BY <1>1 DEF Unasked
    <2>1. t # running
      <3>1. t \in Nat /\ nextRequestId \in Nat BY BoundsAssumption DEF FirstId, Turns, TypeOK
      <3>2. CASE running # None
        <4>1. running \in Nat /\ running < nextRequestId
          BY <3>2, BoundsAssumption DEF PromptsOnce, TypeOK, FirstId, Turns
        <4> QED BY <3>1, <4>1
      <3>3. CASE running = None
        <4>1. None \notin Turns BY BoundsAssumption DEF None, Turns, FirstId
        <4> QED BY <3>3, <4>1
      <3> QED BY <3>2, <3>3
    <2>2. answer'[t] = answer[t] BY <1>5, <2>1
    <2> QED BY <1>1, <1>4, <2>2 DEF Unasked
  <1>10. \A t : Piped(t)' = Piped(t)
    <2> TAKE t
    <2>1. Chosen(Append(stdout, x), OwnLine(t)) =
            IF x \in OwnLine(t) THEN Append(Chosen(stdout, OwnLine(t)), x.n) ELSE Chosen(stdout, OwnLine(t))
      BY <1>2, ChosenAppend
    <2>2. x \notin OwnLine(t) BY <1>1 DEF OwnLine, IsUpdate
    <2> QED BY <1>1, <2>1, <2>2 DEF Piped
  <1>11. \A t \in Turns : Flow(t)' = Flow(t)
    <2>1. \A t : Had(t)' = Had(t) /\ Queued(t)' = Queued(t) BY <1>1 DEF Had, Queued
    <2> QED BY <1>10, <2>1, FlowPrime, FlowParts
  <1>12. \A t : ShownUpdates(t)' = ShownUpdates(t) /\ OwnDelivered(t)' = OwnDelivered(t)
    BY <1>1 DEF ShownUpdates, Told, OwnDelivered
  <1>13. NothingLost' BY <1>1, <1>11, <1>12 DEF NothingLost, Waiting
  <1>14. CompleteTurn'
    <2> SUFFICES ASSUME NEW t \in Turns, verdict[t] \in Stops PROVE verdict[t] = answer'[t]
      BY <1>1, <1>12 DEF CompleteTurn
    <2>1. CASE answer' = answer BY <2>1 DEF CompleteTurn
    <2>2. CASE running # None BY <1>3, <1>5, <2>2 DEF CompleteTurn
    <2> QED BY <1>6, <2>1, <2>2
  <1>15. ReaderListens' BY <1>1 DEF ReaderListens
  <1> QED BY <1>7, <1>8, <1>9, <1>13, <1>14, <1>15

LEMMA NextWire == ASSUME IInv, WireInv, [Next]_vars PROVE WireInv'
  <1>1. ASSUME NEW t \in Turns, HostStep(t) PROVE WireInv'
    BY <1>1, SendWire, AdvanceWire DEF HostStep
  <1>2. CASE ReaderStep BY <1>2, ResponseWire, UpdateWire, EndsWire DEF ReaderStep
  <1>3. CASE AgentStep BY <1>3, StdinWire, AgentUpdatesWire, AgentLineWire, CloseWire DEF AgentStep
  <1> QED BY <1>1, <1>2, <1>3, TakeWire, CloseWire, StdinWire DEF Next

\* The lines of a turn are on exactly one of the places of the wire, in the order
\* the agent wrote them: kept by every step.
THEOREM WireInvariance == Spec => []WireInv
  BY InitWire, NextWire, Invariance, PTL DEF Spec

(***************************************************************************)
(* A stream that ends with its prompt's own response has yielded each of   *)
(* the turn's updates exactly once and in order, whatever the reader drops,*)
(* the drain in send_message clears and the agent still writes for turns   *)
(* given up before: _reader_loop, _stream and send_message together.       *)
(***************************************************************************)
THEOREM TurnIsComplete == Spec => []CompleteTurn
  <1>1. WireInv => CompleteTurn OBVIOUS
  <1> QED BY <1>1, WireInvariance, PTL

-----------------------------------------------------------------------------
(***************************************************************************)
(* What a stream yields before it ends, for any host.  An update that may  *)
(* still reach a stream is of a turn that was sent and whose end was not   *)
(* told: the reader and the streams keep its response behind it.           *)
(***************************************************************************)
\* The live stream is that of the last message sent.
LiveIsLatest == \A t \in Live, u \in Turns : u > t => u >= nextRequestId

\* A marker in the queue means the reader has ended and no update follows.
MarkersLast ==
    \A i \in DOMAIN queue : queue[i].kind \in {"eof", "failure"} =>
        /\ reader = "ended"
        /\ \A j \in DOMAIN queue : i < j => ~IsUpdate(queue[j])

\* The turns whose updates can still reach a stream.
UpdatesUntold ==
    /\ \A i \in DOMAIN queue : IsUpdate(queue[i]) =>
          queue[i].turn < nextRequestId /\ verdict[queue[i].turn] = "none"
    /\ reader = "running" =>
          \A i \in DOMAIN stdout : IsUpdate(stdout[i]) => verdict[stdout[i].turn] = "none"

BrokenByReader ==
    \A t \in Turns : verdict[t] \in {"stream_closed", "reader_failure"} => reader = "ended"

\* The other chunks of a stream, which StreamedInOrder speaks of.
OthersGivenUp ==
    \A t \in Turns : \A i \in DOMAIN delivered[t] : LET u == delivered[t][i].turn IN
        u = t \/ (u < t /\ verdict[u] = "none")

\* A turn's chunks so far are the first of those it should get.
Yielded(t) == \E n \in 0..Len(ShownUpdates(t)) : OwnDelivered(t) = SubSeq(ShownUpdates(t), 1, n)
LeftInOrder == \A t \in Turns : ~Waiting(t) => Yielded(t)

LateInv == LiveIsLatest /\ MarkersLast /\ UpdatesUntold /\ BrokenByReader /\ OthersGivenUp
OrderInv == LateInv /\ LeftInOrder

USE DEF LateInv, OrderInv

LEMMA FirstPart ==
  ASSUME NEW S, NEW a \in Seq(S), NEW b \in Seq(S), NEW c \in Seq(S)
  PROVE  Len(a) \in 0..Len((a \o b) \o c) /\ a = SubSeq((a \o b) \o c, 1, Len(a))
  <1> DEFINE w == (a \o b) \o c
  <1>1. /\ w \in Seq(S) /\ Len(w) = Len(a) + Len(b) + Len(c)
        /\ Len(a) \in Nat /\ Len(b) \in Nat /\ Len(c) \in Nat
        /\ \A i \in 1..Len(a) : w[i] = a[i]
    OBVIOUS
  <1> HIDE DEF w
  <1>2. Len(a) \in 0..Len(w) BY <1>1
  <1>3. /\ SubSeq(w, 1, Len(a)) \in Seq(S) /\ Len(SubSeq(w, 1, Len(a))) = Len(a)
        /\ \A i \in 1..Len(a) : SubSeq(w, 1, Len(a))[i] = w[i]
    BY <1>1, <1>2
  <1>4. a = SubSeq(w, 1, Len(a)) BY <1>1, <1>3
  <1> QED BY <1>2, <1>4 DEF w

LEMMA FirstPartAppend ==
  ASSUME NEW S, NEW s \in Seq(S), NEW x \in S, NEW n \in 0..Len(s)
  PROVE  n \in 0..Len(Append(s, x)) /\ SubSeq(Append(s, x), 1, n) = SubSeq(s, 1, n)
  OBVIOUS

\* A stream that waits has had the first part of what is on its way.
LEMMA WaitingYields ==
  ASSUME TypeOK, WireInv, NEW t \in Turns, Waiting(t) PROVE Yielded(t)
  <1>1. Flow(t) = ShownUpdates(t) BY DEF NothingLost
  <1>2. /\ Had(t) \in Seq(Nat) /\ Queued(t) \in Seq(Nat) /\ Piped(t) \in Seq(Nat)
        /\ Flow(t) = (Had(t) \o Queued(t)) \o Piped(t) /\ OwnDelivered(t) = Had(t)
    BY FlowParts
  <1>3. Len(Had(t)) \in 0..Len(Flow(t)) /\ Had(t) = SubSeq(Flow(t), 1, Len(Had(t)))
    BY <1>2, FirstPart
  <1> QED BY <1>1, <1>2, <1>3 DEF Yielded

\* Once left, a stream has had what it had, and the agent can only tell more.
LEMMA NextLeft ==
  ASSUME IInv, WireInv, OrderInv, [Next]_vars PROVE LeftInOrder'
  <1> SUFFICES ASSUME NEW t \in Turns, ~Waiting(t)' PROVE Yielded(t)'
    BY DEF LeftInOrder
  <1>0. TypeOK BY DEF IInv
  <1>1. Yielded(t) BY <1>0, WaitingYields DEF LeftInOrder
  <1>2. delivered'[t] = delivered[t]
    <2>1. ASSUME NEW u \in Turns, TakeUpdate(u) PROVE delivered'[t] = delivered[t]
      <3>1. stream'[u] = "streaming" BY <2>1, <1>0 DEF TakeUpdate, Take, TypeOK
      <3>2. u # t BY <3>1 DEF Waiting
      <3> QED BY <2>1, <1>0, <3>2 DEF TakeUpdate, TypeOK
    <2>2. CASE UNCHANGED delivered BY <2>2
    <2>3. UNCHANGED delivered \/ \E u \in Turns : TakeUpdate(u)
      <3>1. ASSUME NEW u \in Turns, HostStep(u) \/ StreamStep(u)
            PROVE  UNCHANGED delivered \/ TakeUpdate(u)
        BY <3>1 DEF HostStep, SendMessage, SendCompletes, SendFails, StartStream, DropUnstarted,
           Advance, FinishStream, AbandonStream, Release, StreamStep, TakeSentinel, TakeResponse
      <3>2. CASE Cancel \/ CloseBegins \/ CloseStep \/ UNCHANGED vars
        BY <3>2 DEF Cancel, CloseBegins, CloseStep, CloseTransport, CloseReturns, vars, sessionVars
      <3>3. CASE ReaderStep
        BY <3>3 DEF ReaderStep, ReadResponse, ReadUpdate, SkipNoise, ReaderFails, ReadLine,
           ReaderAtEof, ReaderCancelled, readerFrame
      <3>4. CASE AgentStep
        BY <3>4 DEF AgentStep, AgentAccepts, AgentSeesCancel, AgentExits, AgentUpdates,
           AgentAnswers, AgentNoise, sessionVars
      <3> QED BY <3>1, <3>2, <3>3, <3>4 DEF Next
    <2> QED BY <2>1, <2>2, <2>3
  <1>3. OwnDelivered(t)' = OwnDelivered(t) BY <1>2 DEF OwnDelivered
  <1>4. \/ emitted'[t] = emitted[t]
        \/ \E shown \in BOOLEAN : Len(emitted[t]) < MaxUpdates /\ emitted'[t] = Append(emitted[t], shown)
    <2>1. ASSUME NEW shown \in BOOLEAN, AgentUpdates(shown)
          PROVE  emitted'[t] = emitted[t] \/ (Len(emitted[t]) < MaxUpdates /\ emitted'[t] = Append(emitted[t], shown))
      BY <2>1, <1>0 DEF AgentUpdates, TypeOK
    <2>2. UNCHANGED emitted \/ \E shown \in BOOLEAN : AgentUpdates(shown)
      <3>1. ASSUME NEW u \in Turns, HostStep(u) \/ StreamStep(u) PROVE UNCHANGED emitted
        BY <3>1 DEF HostStep, SendMessage, SendCompletes, SendFails, StartStream, DropUnstarted,
           Advance, FinishStream, AbandonStream, Release, StreamStep, TakeSentinel, TakeResponse,
           TakeUpdate, Take, agentVars
      <3>2. CASE Cancel \/ CloseBegins \/ CloseStep \/ UNCHANGED vars
        BY <3>2 DEF Cancel, CloseBegins, CloseStep, CloseTransport, CloseReturns, vars, agentVars
      <3>3. CASE ReaderStep
        BY <3>3 DEF ReaderStep, ReadResponse, ReadUpdate, SkipNoise, ReaderFails, ReadLine,
           ReaderAtEof, ReaderCancelled, readerFrame
      <3>4. CASE AgentStep
        BY <3>4 DEF AgentStep, AgentAccepts, AgentSeesCancel, AgentExits, AgentAnswers, AgentNoise
      <3> QED BY <3>1, <3>2, <3>3, <3>4 DEF Next
    <2> QED BY <2>1, <2>2
  <1>5. PICK n \in 0..Len(ShownUpdates(t)) : OwnDelivered(t) = SubSeq(ShownUpdates(t), 1, n)
    BY <1>1 DEF Yielded
  <1>6. CASE ShownUpdates(t)' = ShownUpdates(t) BY <1>3, <1>5, <1>6 DEF Yielded
  <1>7. CASE /\ ShownUpdates(t) \in Seq(Nat)
             /\ \E x \in Nat : ShownUpdates(t)' = Append(ShownUpdates(t), x)
    <2>1. PICK x \in Nat : ShownUpdates(t)' = Append(ShownUpdates(t), x) BY <1>7
    <2>2. n \in 0..Len(ShownUpdates(t)') /\ SubSeq(ShownUpdates(t)', 1, n) = SubSeq(ShownUpdates(t), 1, n)
      BY <1>7, <2>1, FirstPartAppend
    <2> QED BY <1>3, <1>5, <2>2 DEF Yielded
  <1>8. CASE emitted'[t] = emitted[t]
    <2>1. ShownUpdates(t)' = ShownUpdates(t) BY <1>8 DEF ShownUpdates, Told
    <2> QED BY <1>6, <2>1
  <1>9. ASSUME NEW shown \in BOOLEAN, Len(emitted[t]) < MaxUpdates, emitted'[t] = Append(emitted[t], shown)
        PROVE  Yielded(t)'
    <2>1. /\ ShownUpdates(t) \in Seq(Nat)
          /\ ShownUpdates(t)' = IF shown THEN Append(ShownUpdates(t), Len(emitted[t]) + 1) ELSE ShownUpdates(t)
      BY <1>0, <1>9, ToldAppend
    <2>2. Len(emitted[t]) + 1 \in Nat BY <1>0 DEF TypeOK
    <2> QED BY <1>6, <1>7, <2>1, <2>2
  <1> QED BY <1>4, <1>8, <1>9

LEMMA InitOrder == Init => OrderInv
  <1> SUFFICES ASSUME Init PROVE OrderInv OBVIOUS
  <1>1. Live = {} /\ DOMAIN queue = {} /\ DOMAIN stdout = {} BY DEF Init, Live
  <1>2. LiveIsLatest /\ MarkersLast /\ UpdatesUntold
    BY <1>1 DEF LiveIsLatest, MarkersLast, UpdatesUntold
  <1>3. BrokenByReader /\ OthersGivenUp BY DEF Init, BrokenByReader, OthersGivenUp
  <1>4. LeftInOrder
    <2> SUFFICES ASSUME NEW t \in Turns PROVE Yielded(t) BY DEF LeftInOrder
    <2>1. delivered[t] = <<>> /\ Told(t) = <<>> BY DEF Init, Told
    <2>2. OwnDelivered(t) = <<>> /\ ShownUpdates(t) = <<>>
      BY <2>1, OnlyEmpty DEF OwnDelivered, ShownUpdates, Numbers
    <2> QED BY <2>2 DEF Yielded
  <1> QED BY <1>2, <1>3, <1>4

LEMMA SendLate ==
  ASSUME IInv, WireInv, LateInv, NEW t \in Turns, SendMessage(t) PROVE LateInv'
  <1>1. /\ active /\ ~turnInFlight /\ t = nextRequestId /\ nextRequestId' = nextRequestId + 1
        /\ queue' = <<>> /\ stream' = [stream EXCEPT ![t] = "sending"]
        /\ UNCHANGED <<reader, delivered, verdict, stdout>>
    BY DEF SendMessage, ReadyForTurn, QueueAtSend, agentVars
  <1>2. Live = {} BY <1>1 DEF IInv, Marks, MarkNamesLiveStream
  <1>3. \A u \in Turns \ {t} : stream'[u] = stream[u] BY <1>1 DEF IInv, TypeOK
  <1>4. Live' \subseteq {t} BY <1>2, <1>3 DEF Live
  <1>5. \A u \in Turns : u > t => u >= nextRequestId'
    BY <1>1, BoundsAssumption DEF Turns, FirstId
  <1>6. LiveIsLatest' BY <1>4, <1>5 DEF LiveIsLatest
  <1> QED BY <1>1, <1>6 DEF MarkersLast, UpdatesUntold, BrokenByReader, OthersGivenUp

\* Steps that only move a stream on, or leave streams, queue and pipe alone.
LEMMA QuietLate ==
  ASSUME IInv, LateInv,
         \/ \E t \in Turns : HostStep(t) /\ ~SendMessage(t)
         \/ Cancel \/ CloseBegins \/ CloseStep
         \/ AgentAccepts \/ AgentSeesCancel \/ AgentExits \/ UNCHANGED vars
  PROVE  LateInv'
  <1>1. /\ UNCHANGED <<nextRequestId, queue, stdout, verdict, delivered>>
        /\ reader' = reader \/ (reader = "running" /\ reader' = "cancelled")
    BY DEF HostStep, SendCompletes, SendFails, StartStream, DropUnstarted, Advance, FinishStream,
           AbandonStream, Release, Cancel, CloseBegins, CloseStep, CloseTransport, CloseReturns,
           AgentAccepts, AgentSeesCancel, AgentExits, vars, sessionVars, agentVars
  <1>2. Live' \subseteq Live
    <2>1. ASSUME NEW t \in Turns, HostStep(t), ~SendMessage(t) PROVE Live' \subseteq Live
      <3>1. PICK to : /\ stream[t] \in LiveStates
                      /\ stream' = [stream EXCEPT ![t] = to]
        BY <2>1 DEF HostStep, SendCompletes, SendFails, StartStream, DropUnstarted, Advance,
                    FinishStream, AbandonStream, Release
      <3>2. \A u \in Turns \ {t} : stream'[u] = stream[u] BY <3>1 DEF IInv, TypeOK
      <3> QED BY <3>1, <3>2 DEF Live
    <2>2. UNCHANGED stream \/ \E t \in Turns : HostStep(t) /\ ~SendMessage(t)
      BY DEF Cancel, CloseBegins, CloseStep, CloseTransport, CloseReturns, AgentAccepts,
             AgentSeesCancel, AgentExits, vars, sessionVars
    <2> QED BY <2>1, <2>2 DEF Live
  <1>3. LiveIsLatest' BY <1>1, <1>2 DEF LiveIsLatest
  <1>4. MarkersLast' /\ BrokenByReader' BY <1>1 DEF MarkersLast, BrokenByReader
  <1>5. UpdatesUntold' BY <1>1 DEF UpdatesUntold
  <1>6. OthersGivenUp' BY <1>1 DEF OthersGivenUp
  <1> QED BY <1>3, <1>4, <1>5, <1>6

LEMMA TakeLate ==
  ASSUME IInv, WireInv, LateInv, NEW t \in Turns, StreamStep(t) PROVE LateInv'
  <1>1. PICK to \in {"ended", "streaming"} : Take(t, to)
    BY DEF StreamStep, TakeSentinel, TakeResponse, TakeUpdate
  <1>2. /\ stream[t] = "streaming" /\ queue # <<>> /\ queue' = Tail(queue)
        /\ stream' = [stream EXCEPT ![t] = to]
        /\ UNCHANGED <<nextRequestId, reader, stdout>>
    BY <1>1 DEF Take, agentVars
  <1>3. \A u \in Turns \ {t} : stream'[u] = stream[u] BY <1>2 DEF IInv, TypeOK
  <1>4. t \in Live /\ Live' \subseteq Live BY <1>2, <1>3 DEF Live
  <1>5. queue \in Seq(Item) /\ \A i \in DOMAIN queue' : i + 1 \in DOMAIN queue /\ queue'[i] = queue[i + 1]
    BY <1>2, TailItems DEF IInv, TypeOK
  <1>6. 1 \in DOMAIN queue /\ Head(queue) = queue[1] /\ Head(queue) \in Item BY <1>2, <1>5
  <1>7. \A i \in DOMAIN queue' : 1 < i + 1 /\ i \in Nat BY <1>5, TailType, <1>2
  <1>8. LiveIsLatest' BY <1>2, <1>4 DEF LiveIsLatest
  <1>9. MarkersLast'
    <2>1. \A i, j \in DOMAIN queue' : i < j => i + 1 < j + 1 BY <1>7
    <2> QED BY <1>2, <1>5, <2>1 DEF MarkersLast
  <1>10. delivered \in [Turns -> Seq(QueuedUpdate)] /\ verdict \in [Turns -> Verdicts] /\ verdict[t] = "none"
    BY <1>2 DEF IInv, TypeOK, NothingLost, Waiting
  <1>11. \A u \in Turns \ {t} : verdict'[u] = verdict[u]
    BY <1>10 DEF StreamStep, TakeSentinel, TakeResponse, TakeUpdate
  \* The turn's verdict is told when none of its updates is left.
  <1>12. verdict'[t] = "none"
         \/ /\ \A i \in DOMAIN queue' : IsUpdate(queue'[i]) => queue'[i].turn # t
            /\ reader = "running" => \A i \in DOMAIN stdout : IsUpdate(stdout[i]) => stdout[i].turn # t
    <2>1. CASE TakeSentinel(t)
      <3>1. reader = "ended" /\ \A i \in DOMAIN queue : 1 < i => ~IsUpdate(queue[i])
        BY <1>6, <2>1 DEF TakeSentinel, MarkersLast
      <3> QED BY <1>5, <1>7, <3>1
    <2>2. CASE TakeResponse(t)
      <3>1. IsResponse(queue[1]) /\ queue[1].turn = t
        BY <1>6, <2>2 DEF TakeResponse, IsOwnResponse, IsResponse
      <3>2. \A i \in DOMAIN queue : 1 < i /\ IsUpdate(queue[i]) => queue[i].turn # t
        BY <1>6, <3>1 DEF AnswersLast, Ordered
      <3>3. \A i \in DOMAIN stdout : IsUpdate(stdout[i]) => stdout[i].turn # t
        BY <1>6, <3>1 DEF AnswersLast, Apart
      <3> QED BY <1>5, <1>7, <3>2, <3>3
    <2>3. CASE TakeUpdate(t) BY <1>10, <2>3 DEF TakeUpdate
    <2> QED BY <2>1, <2>2, <2>3 DEF StreamStep
  <1>13. /\ \A i \in DOMAIN queue : IsUpdate(queue[i]) => queue[i].turn \in Turns
         /\ \A i \in DOMAIN stdout : IsUpdate(stdout[i]) => stdout[i].turn \in Turns
    <2>1. \A i \in DOMAIN queue : queue[i] \in Item BY <1>5
    <2>2. \A i \in DOMAIN stdout : stdout[i] \in Line BY DEF IInv, TypeOK
    <2>3. \A x \in QueuedUpdate : x.turn \in Turns BY DEF QueuedUpdate
    <2> QED BY <2>1, <2>2, <2>3, LineKinds
  <1>14. UpdatesUntold'
    <2>1. ASSUME NEW i \in DOMAIN queue', IsUpdate(queue'[i])
          PROVE  queue'[i].turn < nextRequestId' /\ verdict'[queue'[i].turn] = "none"
      BY <1>2, <1>5, <1>11, <1>12, <1>13, <2>1 DEF UpdatesUntold
    <2>2. ASSUME reader' = "running", NEW i \in DOMAIN stdout', IsUpdate(stdout'[i])
          PROVE  verdict'[stdout'[i].turn] = "none"
      BY <1>2, <1>11, <1>12, <1>13, <2>2 DEF UpdatesUntold
    <2> QED BY <2>1, <2>2 DEF UpdatesUntold
  <1>15. BrokenByReader'
    <2>1. CASE TakeSentinel(t)
      <3>1. reader = "ended" BY <1>6, <2>1 DEF TakeSentinel, MarkersLast
      <3> QED BY <1>2, <3>1 DEF BrokenByReader
    <2>2. CASE TakeResponse(t)
      <3>1. Head(queue) \in Response
        BY <1>6, <2>2, LineKinds DEF TakeResponse, IsOwnResponse, IsResponse
      <3>2. verdict'[t] \in Stops BY <1>10, <2>2, <3>1 DEF TakeResponse, Response
      <3> QED BY <1>2, <1>11, <3>2 DEF BrokenByReader, Stops
    <2>3. CASE TakeUpdate(t) BY <1>2, <2>3 DEF TakeUpdate, BrokenByReader
    <2> QED BY <2>1, <2>2, <2>3 DEF StreamStep
  \* The chunk of another turn is of an earlier one, for t is the latest; and
  \* no other stream has had chunks of t, which is told its end.
  <1>16. OthersGivenUp'
    <2> SUFFICES ASSUME NEW u \in Turns, NEW i \in DOMAIN delivered'[u], delivered'[u][i].turn # u
                 PROVE  delivered'[u][i].turn < u /\ verdict'[delivered'[u][i].turn] = "none"
      BY DEF OthersGivenUp
    <2> DEFINE x == delivered'[u][i]
    <2>1. CASE i \in DOMAIN delivered[u] /\ x = delivered[u][i]
      <3>1. x.turn < u /\ verdict[x.turn] = "none" BY <2>1 DEF OthersGivenUp
      <3>2. x.turn \in Turns
        <4>1. x \in QueuedUpdate BY <1>10, <2>1
        <4> QED BY <4>1 DEF QueuedUpdate
      <3>3. x.turn # t
        <4>1. SUFFICES ASSUME x.turn = t PROVE FALSE OBVIOUS
        <4>2. u > t BY <3>1, <4>1, BoundsAssumption DEF Turns, FirstId
        <4>3. u >= nextRequestId BY <1>4, <4>2 DEF LiveIsLatest
        <4>4. delivered[u] = <<>> BY <4>3 DEF Unasked
        <4> QED BY <2>1, <4>4
      <3> QED BY <1>11, <3>1, <3>2, <3>3
    <2>2. CASE u = t /\ x = Head(queue) /\ TakeUpdate(t) /\ HasChunk(Head(queue))
      <3>1. IsUpdate(queue[1]) /\ queue[1].turn \in Turns
        BY <1>6, <1>13, <2>2 DEF HasChunk, IsUpdate
      <3>2. queue[1].turn < nextRequestId /\ verdict[queue[1].turn] = "none"
        BY <1>6, <3>1 DEF UpdatesUntold
      <3>3. ~(queue[1].turn > t)
        <4>1. SUFFICES ASSUME queue[1].turn > t PROVE FALSE OBVIOUS
        <4>2. queue[1].turn >= nextRequestId BY <1>4, <3>1, <4>1 DEF LiveIsLatest
        <4>3. queue[1].turn \in Int BY <3>1, BoundsAssumption DEF Turns, FirstId
        <4>4. nextRequestId \in Int BY BoundsAssumption DEF FirstId, IInv, TypeOK
        <4> QED BY <3>2, <4>2, <4>3, <4>4
      <3>4. queue[1].turn < t BY <1>6, <2>2, <3>1, <3>3, BoundsAssumption DEF Turns, FirstId
      <3> QED BY <1>6, <2>2, <3>2, <3>4 DEF TakeUpdate
    <2>3. (i \in DOMAIN delivered[u] /\ x = delivered[u][i])
          \/ (u = t /\ x = Head(queue) /\ TakeUpdate(t) /\ HasChunk(Head(queue)))
      <3>1. CASE delivered' = delivered BY <3>1
      <3>2. CASE /\ TakeUpdate(t) /\ HasChunk(Head(queue))
                 /\ delivered' = [delivered EXCEPT ![t] = Append(@, Head(queue))]
        <4>1. Head(queue) \in QueuedUpdate BY <1>6, <3>2, LineKinds DEF HasChunk, IsUpdate
        <4>2. /\ delivered'[t] = Append(delivered[t], Head(queue)) /\ delivered[t] \in Seq(QueuedUpdate)
              /\ \A v \in Turns \ {t} : delivered'[v] = delivered[v]
          BY <1>10, <3>2
        <4>3. \A j \in DOMAIN delivered'[t] :
                (j \in DOMAIN delivered[t] /\ delivered'[t][j] = delivered[t][j]) \/ delivered'[t][j] = Head(queue)
          BY <4>1, <4>2, AppendItems
        <4> QED BY <3>2, <4>2, <4>3
      <3> QED BY <3>1, <3>2 DEF StreamStep, TakeSentinel, TakeResponse, TakeUpdate
    <2> QED BY <2>1, <2>2, <2>3
  <1> QED BY <1>8, <1>9, <1>14, <1>15, <1>16

LEMMA ReaderLate ==
  ASSUME IInv, WireInv, LateInv, ReaderStep PROVE LateInv'
  <1>1. /\ UNCHANGED <<stream, nextRequestId, verdict, delivered>>
        /\ reader' \in {reader, "ended"}
    BY DEF ReaderStep, ReadResponse, ReadUpdate, SkipNoise, ReaderFails, ReadLine,
           ReaderAtEof, ReaderCancelled, ReaderEnds, readerFrame
  <1>2. LiveIsLatest' BY <1>1 DEF LiveIsLatest, Live
  <1>3. BrokenByReader' /\ OthersGivenUp' BY <1>1 DEF BrokenByReader, OthersGivenUp
  <1>4. queue \in Seq(Item) /\ stdout \in Seq(Line) BY DEF IInv, TypeOK
  <1>5. \A i \in DOMAIN stdout' : \E j \in DOMAIN stdout : stdout'[i] = stdout[j]
    <2>1. stdout' = stdout \/ (stdout # <<>> /\ stdout' = Tail(stdout))
      BY DEF ReaderStep, ReadResponse, ReadUpdate, SkipNoise, ReaderFails, ReadLine,
             ReaderAtEof, ReaderCancelled
    <2>2. CASE stdout # <<>> /\ stdout' = Tail(stdout)
      <3>1. \A i \in DOMAIN stdout' : i + 1 \in DOMAIN stdout /\ stdout'[i] = stdout[i + 1]
        BY <1>4, <2>2, TailItems
      <3> QED BY <3>1
    <2> QED BY <2>1, <2>2
  <1>6. reader' = "running" => \A i \in DOMAIN stdout' : IsUpdate(stdout'[i]) => verdict'[stdout'[i].turn] = "none"
    BY <1>1, <1>5 DEF UpdatesUntold
  <1>7. CASE queue' = queue BY <1>1, <1>2, <1>3, <1>6, <1>7 DEF MarkersLast, UpdatesUntold
  <1>8. ASSUME reader = "running", NEW x \in Item, x.kind \notin {"eof", "failure"}, queue' = Append(queue, x),
               IsUpdate(x) => x.turn < nextRequestId /\ verdict[x.turn] = "none"
        PROVE  LateInv'
    <2>1. \A i \in DOMAIN queue' : (i \in DOMAIN queue /\ queue'[i] = queue[i]) \/ queue'[i] = x
      BY <1>4, <1>8, AppendItems
    <2>2. \A i \in DOMAIN queue : queue[i].kind \notin {"eof", "failure"} BY <1>8 DEF MarkersLast
    <2>3. MarkersLast' BY <1>8, <2>1, <2>2 DEF MarkersLast
    <2>4. UpdatesUntold' BY <1>1, <1>6, <1>8, <2>1 DEF UpdatesUntold
    <2> QED BY <1>2, <1>3, <2>3, <2>4
  <1>9. CASE ReadResponse /\ queue' = Append(queue, Head(stdout))
    <2>1. reader = "running" /\ Head(stdout) \in Line /\ IsResponse(Head(stdout))
      BY <1>4, <1>9, TailType DEF ReadResponse, ReadLine, IsResponse
    <2>2. Head(stdout) \in Item BY <2>1, LineKinds DEF Item
    <2> QED BY <1>8, <1>9, <2>1, <2>2 DEF IsResponse, IsUpdate
  <1>10. CASE ReadUpdate /\ queue' = Append(queue, Forwarded(Head(stdout)))
    <2>1. /\ reader = "running" /\ Head(stdout) \in Line /\ IsUpdate(Head(stdout))
          /\ 1 \in DOMAIN stdout /\ Head(stdout) = stdout[1]
      BY <1>4, <1>10, TailType DEF ReadUpdate, ReadLine, IsUpdate
    <2>2. Head(stdout) \in Update BY <2>1, LineKinds
    <2>3. PICK u \in Turns : u = Head(stdout).turn BY <2>2, LineKinds
    <2>4. u < nextRequestId
      <3>1. ~(u >= nextRequestId) BY <2>1, <2>3 DEF Unasked
      <3>2. u \in Int BY BoundsAssumption DEF Turns, FirstId
      <3>3. nextRequestId \in Int BY BoundsAssumption DEF FirstId, IInv, TypeOK
      <3> QED BY <3>1, <3>2, <3>3
    <2>5. verdict[u] = "none" BY <2>1, <2>3 DEF UpdatesUntold
    <2>6. Forwarded(Head(stdout)) \in QueuedUpdate
      BY <2>2 DEF Forwarded, Update, QueuedUpdate, IInv, TypeOK
    <2>7. Forwarded(Head(stdout)) \in Item /\ Forwarded(Head(stdout)).kind = "update"
          /\ Forwarded(Head(stdout)).turn = u
      BY <2>3, <2>6 DEF Item, Forwarded
    <2> QED BY <1>8, <1>10, <2>1, <2>4, <2>5, <2>7
  <1>11. ASSUME NEW before \in {<< >>, <<Failure>>}, ReaderEnds(before) PROVE LateInv'
    <2>1. reader' = "ended" /\ queue' = Append(queue \o before, Eof) BY <1>11 DEF ReaderEnds
    <2>2. Failure.kind = "failure" /\ Eof.kind = "eof" /\ ~IsUpdate(Failure) /\ ~IsUpdate(Eof)
      BY DEF Failure, Eof, IsUpdate
    <2>3. \A i \in DOMAIN queue' :
             \/ i \in DOMAIN queue /\ queue'[i] = queue[i]
             \/ i \notin DOMAIN queue /\ i > Len(queue) /\ queue'[i] \in {Failure, Eof}
      <3>1. CASE before = << >> BY <1>4, <2>1, <3>1
      <3>2. CASE before = <<Failure>> BY <1>4, <2>1, <3>2
      <3> QED BY <3>1, <3>2
    <2>4. \A i \in DOMAIN queue' : IsUpdate(queue'[i]) => i \in DOMAIN queue /\ queue'[i] = queue[i]
      BY <2>2, <2>3
    <2>5. MarkersLast'
      <3> SUFFICES ASSUME NEW i \in DOMAIN queue', queue'[i].kind \in {"eof", "failure"},
                          NEW j \in DOMAIN queue', i < j, IsUpdate(queue'[j])
                   PROVE  FALSE
        BY <2>1 DEF MarkersLast
      <3>1. j \in DOMAIN queue /\ queue'[j] = queue[j] BY <2>4
      <3>2. i \in DOMAIN queue
        <4>1. DOMAIN queue = 1..Len(queue) /\ Len(queue) \in Nat BY <1>4
        <4>2. i \in Int
          <5>1. queue' \in Seq(Item) BY NextType DEF IInv, Next, TypeOK
          <5> QED BY <5>1
        <4>3. ~(i > Len(queue)) BY <3>1, <4>1, <4>2
        <4> QED BY <2>3, <4>3
      <3>3. queue'[i] = queue[i] BY <2>3, <3>2
      <3> QED BY <3>1, <3>2, <3>3 DEF MarkersLast
    <2>6. UpdatesUntold' BY <1>1, <2>1, <2>4 DEF UpdatesUntold
    <2> QED BY <1>2, <1>3, <2>5, <2>6
  <1>12. CASE ReaderFails \/ ReaderAtEof \/ ReaderCancelled
    <2>1. PICK before \in {<< >>, <<Failure>>} : ReaderEnds(before)
      BY <1>12 DEF ReaderFails, ReaderAtEof, ReaderCancelled
    <2> QED BY <1>11, <2>1
  <1> QED BY <1>7, <1>9, <1>10, <1>12 DEF ReaderStep, ReadResponse, ReadUpdate, SkipNoise

\* The agent writes updates of a turn that it has not answered, and other lines.
LEMMA AgentLate ==
  ASSUME IInv, WireInv, LateInv,
         \/ \E shown \in BOOLEAN : AgentUpdates(shown)
         \/ \E stop \in Stops : AgentAnswers(stop)
         \/ \E kind \in NoiseKinds : AgentNoise(kind)
  PROVE  LateInv'
  <1>1. UNCHANGED <<stream, nextRequestId, queue, reader, verdict, delivered>>
    BY DEF AgentUpdates, AgentAnswers, AgentNoise, sessionVars
  <1>2. LiveIsLatest' /\ MarkersLast' /\ BrokenByReader' /\ OthersGivenUp'
    BY <1>1 DEF LiveIsLatest, Live, MarkersLast, BrokenByReader, OthersGivenUp
  <1>3. PICK x \in Line : stdout' = Append(stdout, x) /\ (IsUpdate(x) => running # None /\ x.turn = running)
    <2>1. ASSUME NEW shown \in BOOLEAN, AgentUpdates(shown)
          PROVE  \E x \in Line : stdout' = Append(stdout, x) /\ (IsUpdate(x) => running # None /\ x.turn = running)
      <3> DEFINE x == [kind |-> "update", turn |-> running, n |-> Len(emitted[running]) + 1, shown |-> shown]
      <3>1. running \in Turns /\ running # None BY <2>1 DEF AgentUpdates, IInv, TypeOK
      <3>2. Len(emitted[running]) + 1 \in 1..MaxUpdates
        BY <2>1, <3>1, BoundsAssumption DEF AgentUpdates, IInv, TypeOK
      <3>3. x \in Line /\ x.turn = running BY <3>1, <3>2 DEF Line, Update
      <3>4. stdout' = Append(stdout, x) BY <2>1 DEF AgentUpdates
      <3> HIDE DEF x
      <3> QED BY <3>1, <3>3, <3>4
    <2>2. ASSUME NEW stop \in Stops, AgentAnswers(stop)
          PROVE  \E x \in Line : stdout' = Append(stdout, x) /\ (IsUpdate(x) => running # None /\ x.turn = running)
      <3> DEFINE x == [kind |-> "response", turn |-> running, stop |-> stop]
      <3>1. x \in Line BY <2>2 DEF AgentAnswers, Line, Response, IInv, TypeOK
      <3>2. ~IsUpdate(x) BY DEF IsUpdate
      <3> QED BY <2>2, <3>1, <3>2 DEF AgentAnswers
    <2>3. ASSUME NEW kind \in NoiseKinds, AgentNoise(kind)
          PROVE  \E x \in Line : stdout' = Append(stdout, x) /\ (IsUpdate(x) => running # None /\ x.turn = running)
      <3> DEFINE x == [kind |-> kind]
      <3>1. x \in Line BY DEF Line
      <3>2. ~IsUpdate(x) BY NoiseAssumption DEF IsUpdate
      <3> QED BY <2>3, <3>1, <3>2 DEF AgentNoise
    <2> QED BY <2>1, <2>2, <2>3
  <1>4. \A i \in DOMAIN stdout' : (i \in DOMAIN stdout /\ stdout'[i] = stdout[i]) \/ stdout'[i] = x
    <2>1. stdout \in Seq(Line) BY DEF IInv, TypeOK
    <2> QED BY <1>3, <2>1, AppendItems
  <1>5. reader = "running" /\ running # None => verdict[running] = "none"
    <2>1. SUFFICES ASSUME reader = "running", running # None PROVE verdict[running] = "none" OBVIOUS
    <2>2. running \in Turns /\ verdict[running] \notin Stops BY <2>1, RunningUnanswered DEF IInv
    <2>3. verdict[running] \in Verdicts BY <2>2 DEF IInv, TypeOK
    <2> QED BY <2>1, <2>2, <2>3 DEF BrokenByReader, Verdicts
  <1>6. UpdatesUntold' BY <1>1, <1>3, <1>4, <1>5 DEF UpdatesUntold
  <1> QED BY <1>2, <1>6

LEMMA NextOrder == ASSUME IInv, WireInv, OrderInv, [Next]_vars PROVE OrderInv'
  <1>1. ASSUME NEW t \in Turns, HostStep(t) PROVE LateInv'
    BY <1>1, SendLate, QuietLate
  <1>2. ASSUME AgentStep PROVE LateInv'
    <2>1. CASE AgentAccepts \/ AgentSeesCancel \/ AgentExits BY <2>1, QuietLate
    <2>2. CASE \/ \E shown \in BOOLEAN : AgentUpdates(shown)
               \/ \E stop \in Stops : AgentAnswers(stop)
               \/ \E kind \in NoiseKinds : AgentNoise(kind)
      BY <2>2, AgentLate
    <2> QED BY <1>2, <2>1, <2>2 DEF AgentStep
  <1>3. LateInv' BY <1>1, <1>2, TakeLate, QuietLate, ReaderLate DEF Next
  <1> QED BY <1>3, NextLeft

\* What can still reach a stream is of turns whose end was not told, and
\* streams are left with a first part of their chunks: kept by every step.
THEOREM OrderInvariance == Spec => []OrderInv
  BY InitOrder, NextOrder, Invariance, WireInvariance, PTL DEF Spec

(***************************************************************************)
(* Also a turn that is cut off, by its host, by close() or by the reader's *)
(* end, has yielded the first of its own updates without a gap; and what a *)
(* stream yields of another turn, which the wire does not tell apart, is   *)
(* of an earlier turn that the host gave up.  For any host.                *)
(***************************************************************************)
THEOREM StreamIsInOrder == Spec => []StreamedInOrder
  <1>1. IInv /\ WireInv /\ OrderInv => StreamedInOrder
    <2> SUFFICES ASSUME IInv, WireInv, OrderInv, NEW t \in Turns
                 PROVE  /\ Yielded(t)
                        /\ \A i \in DOMAIN delivered[t] : LET u == delivered[t][i].turn IN
                              u = t \/ (u < t /\ verdict[u] = "none")
      BY DEF IInv, StreamedInOrder, Yielded
    <2>1. Yielded(t) BY WaitingYields DEF IInv, LeftInOrder
    <2> QED BY <2>1 DEF OthersGivenUp
  <1> QED BY <1>1, Invariance, WireInvariance, OrderInvariance, PTL

-----------------------------------------------------------------------------
(***************************************************************************)
(* The contract, for a host that gives no stream up.  Then a stream is     *)
(* only left when it ended, by its response or because the reader had      *)
(* stopped, or when its send_message failed, after which the session takes *)
(* no message: so nothing of an earlier turn is left for a later one.      *)
(***************************************************************************)
Unanswered(t) == verdict[t] \notin Stops

\* A stream the reader still serves is left with its response or not at all.
StreamsInOrder ==
    \A t \in Turns :
        /\ t < nextRequestId => stream[t] # "none"
        /\ stream[t] # "dropped"
        /\ stream[t] = "ended" => verdict[t] # "none"
        /\ stream[t] \in {"ended", "closed"} /\ Unanswered(t) => reader # "running"
        /\ stream[t] = "failed" => Live = {} /\ (active => turnInFlight)
        /\ stream[t] \in {"none", "sending", "created"} => delivered[t] = <<>>

OnlyOwnUpdates ==
    /\ \A t \in Live : \A i \in DOMAIN queue : IsUpdate(queue[i]) => queue[i].turn = t
    /\ \A t \in Turns : \A i \in DOMAIN delivered[t] : delivered[t][i] \in OwnItem(t)

KeptInv == StreamsInOrder /\ OnlyOwnUpdates


USE DEF KeptInv

LEMMA InitKept == Init => KeptInv
  <1> SUFFICES ASSUME Init PROVE KeptInv OBVIOUS
  <1>1. Live = {} BY DEF Init, Live
  <1>2. StreamsInOrder
    <2>1. \A t \in Turns : ~(t < nextRequestId) BY BoundsAssumption DEF Init, Turns, FirstId
    <2> QED BY <2>1 DEF Init, StreamsInOrder
  <1>3. OnlyOwnUpdates BY <1>1 DEF Init, OnlyOwnUpdates
  <1> QED BY <1>2, <1>3

LEMMA SendKept ==
  ASSUME IInv, WireInv, KeptInv, NEW t \in Turns, SendMessage(t)
  PROVE  KeptInv'
  <1>1. /\ active /\ ~turnInFlight /\ t = nextRequestId /\ nextRequestId' = nextRequestId + 1
        /\ queue' = <<>> /\ stream' = [stream EXCEPT ![t] = "sending"]
        /\ UNCHANGED <<active, reader, delivered, verdict, stdout>>
    BY DEF SendMessage, ReadyForTurn, QueueAtSend, agentVars
  <1>2. stream'[t] = "sending" /\ \A u \in Turns \ {t} : stream'[u] = stream[u]
    BY <1>1 DEF IInv, TypeOK
  <1>3. OnlyOwnUpdates' BY <1>1 DEF OnlyOwnUpdates
  <1>4. delivered[t] = <<>>
    <2>1. t >= nextRequestId BY <1>1, BoundsAssumption DEF Turns, FirstId
    <2> QED BY <2>1 DEF Unasked
  <1>5. \A u \in Turns \ {t} : u < nextRequestId' => u < nextRequestId
    BY <1>1, BoundsAssumption DEF Turns, FirstId
  <1>6. \A u \in Turns : stream[u] # "failed" BY <1>1 DEF StreamsInOrder
  <1>7. StreamsInOrder' BY <1>1, <1>2, <1>4, <1>5, <1>6 DEF StreamsInOrder, Unanswered
  <1> QED BY <1>3, <1>7

LEMMA AdvanceKept ==
  ASSUME MayAbandon = FALSE, IInv, WireInv, KeptInv, NEW t \in Turns,
         SendCompletes(t) \/ SendFails(t) \/ StartStream(t)
  PROVE  KeptInv'
  <1>1. PICK to \in {"created", "failed", "streaming"} :
           /\ stream[t] \in {"sending", "created"} /\ stream' = [stream EXCEPT ![t] = to]
           /\ UNCHANGED <<active, turnInFlight, nextRequestId, queue, reader, delivered, verdict, stdout>>
           /\ to = "created" => stream[t] = "sending"
    BY DEF SendCompletes, SendFails, StartStream, Advance, agentVars
  <1>2. stream'[t] = to /\ \A u \in Turns \ {t} : stream'[u] = stream[u]
    BY <1>1 DEF IInv, TypeOK
  <1>3. t \in Live /\ Live' \subseteq Live BY <1>1, <1>2 DEF Live
  <1>4. OnlyOwnUpdates' BY <1>1, <1>3 DEF OnlyOwnUpdates
  <1>5. StreamsInOrder'
    <2>1. \A u \in Turns : stream[u] # "failed" BY <1>3 DEF StreamsInOrder
    <2>2. to = "failed" => Live' = {} /\ (active => turnInFlight)
      BY <1>2, <1>3 DEF Live, IInv, Marks, OneLiveStream, MarkNamesLiveStream
    <2>3. \A u \in Turns \ {t} : stream'[u] # "failed" BY <1>2, <2>1
    <2>4. \A u \in Turns : stream'[u] = "failed" => Live' = {} /\ (active => turnInFlight)
      BY <1>2, <2>2, <2>3
    <2> QED BY <1>1, <1>2, <2>4 DEF StreamsInOrder, Unanswered
  <1> QED BY <1>4, <1>5

LEMMA FinishKept ==
  ASSUME IInv, WireInv, KeptInv, NEW t \in Turns, FinishStream(t)
  PROVE  KeptInv'
  <1>1. /\ stream[t] = "ended" /\ stream' = [stream EXCEPT ![t] = "closed"]
        /\ UNCHANGED <<nextRequestId, queue, reader, delivered, verdict, stdout>>
    BY DEF FinishStream, Release, agentVars
  <1>2. stream'[t] = "closed" /\ \A u \in Turns \ {t} : stream'[u] = stream[u]
    BY <1>1 DEF IInv, TypeOK
  <1>3. t \in Live /\ Live' \subseteq Live BY <1>1, <1>2 DEF Live
  <1>4. OnlyOwnUpdates' BY <1>1, <1>3 DEF OnlyOwnUpdates
  <1>5. StreamsInOrder'
    <2>1. \A u \in Turns : stream[u] # "failed" BY <1>3 DEF StreamsInOrder
    <2> QED BY <1>1, <1>2, <2>1 DEF StreamsInOrder, Unanswered
  <1> QED BY <1>4, <1>5

LEMMA TakeKept ==
  ASSUME IInv, WireInv, OrderInv, KeptInv, NEW t \in Turns, StreamStep(t)
  PROVE  KeptInv'
  <1>1. PICK to \in {"ended", "streaming"} : Take(t, to)
    BY DEF StreamStep, TakeSentinel, TakeResponse, TakeUpdate
  <1>2. /\ stream[t] = "streaming" /\ queue # <<>> /\ queue' = Tail(queue)
        /\ stream' = [stream EXCEPT ![t] = to]
        /\ UNCHANGED <<active, turnInFlight, nextRequestId, reader, stdout>>
    BY <1>1 DEF Take, agentVars
  <1>3. stream'[t] = to /\ \A u \in Turns \ {t} : stream'[u] = stream[u]
    BY <1>2 DEF IInv, TypeOK
  <1>4. t \in Live /\ Live' = Live BY <1>2, <1>3 DEF Live
  <1>5. queue \in Seq(Item) /\ \A i \in DOMAIN queue' : i + 1 \in DOMAIN queue /\ queue'[i] = queue[i + 1]
    BY <1>2, TailItems DEF IInv, TypeOK
  <1>6. 1 \in DOMAIN queue /\ Head(queue) = queue[1] /\ Head(queue) \in Item BY <1>2, <1>5
  <1>7. OnlyOwnUpdates'
    <2>1. \A u \in Live' : \A i \in DOMAIN queue' : IsUpdate(queue'[i]) => queue'[i].turn = u
      BY <1>4, <1>5 DEF OnlyOwnUpdates
    <2>2. ASSUME NEW u \in Turns, NEW i \in DOMAIN delivered'[u] PROVE delivered'[u][i] \in OwnItem(u)
      <3>1. CASE delivered' = delivered BY <2>2, <3>1 DEF OnlyOwnUpdates
      <3>2. CASE HasChunk(Head(queue)) /\ delivered' = [delivered EXCEPT ![t] = Append(@, Head(queue))]
        <4>1. Head(queue) \in QueuedUpdate /\ Head(queue).shown = TRUE /\ Head(queue).turn = t
          BY <1>4, <1>6, <3>2 DEF HasChunk, OnlyOwnUpdates, IsUpdate, Item, QueuedUpdate, Response, Failure, Eof
        <4>2. Head(queue) \in OwnItem(t) BY <4>1 DEF QueuedUpdate, OwnItem
        <4>3. /\ delivered[t] \in Seq(QueuedUpdate)
              /\ delivered'[t] = Append(delivered[t], Head(queue))
              /\ \A v \in Turns \ {t} : delivered'[v] = delivered[v]
          BY <3>2 DEF IInv, TypeOK
        <4>4. \A j \in DOMAIN delivered'[t] :
                (j \in DOMAIN delivered[t] /\ delivered'[t][j] = delivered[t][j]) \/ delivered'[t][j] = Head(queue)
          BY <4>1, <4>3, AppendItems
        <4> QED BY <2>2, <4>2, <4>3, <4>4 DEF OnlyOwnUpdates
      <3> QED BY <3>1, <3>2 DEF StreamStep, TakeSentinel, TakeResponse, TakeUpdate
    <2> QED BY <2>1, <2>2 DEF OnlyOwnUpdates
  <1>8. StreamsInOrder'
    <2>1. \A u \in Turns : stream[u] # "failed" BY <1>4 DEF StreamsInOrder
    <2>2. \A u \in Turns \ {t} : verdict'[u] = verdict[u] /\ delivered'[u] = delivered[u]
      BY DEF StreamStep, TakeSentinel, TakeResponse, TakeUpdate, IInv, TypeOK
    <2>3. to = "ended" => verdict'[t] # "none" /\ (verdict'[t] \notin Stops => reader # "running")
      <3>1. CASE TakeSentinel(t)
        BY <1>6, <3>1 DEF TakeSentinel, MarkersLast, IInv, TypeOK
      <3>2. CASE TakeResponse(t)
        <4>1. verdict'[t] = Head(queue).stop BY <3>2 DEF TakeResponse, IInv, TypeOK
        <4>2. Head(queue).stop \in Stops
          BY <1>6, <3>2 DEF TakeResponse, IsOwnResponse, Item, QueuedUpdate, Response, Failure, Eof
        <4> QED BY <4>1, <4>2 DEF Stops
      <3>3. CASE TakeUpdate(t) BY <1>2, <1>3, <3>3 DEF TakeUpdate, Take, IInv, TypeOK
      <3> QED BY <3>1, <3>2, <3>3 DEF StreamStep
    <2>4. /\ t < nextRequestId => stream'[t] # "none"
          /\ stream'[t] # "dropped" /\ stream'[t] # "failed"
          /\ stream'[t] \notin {"none", "sending", "created", "closed"}
      BY <1>3
    <2>5. \A u \in Turns : stream'[u] # "failed" BY <1>3, <2>1, <2>4
    <2> QED BY <1>2, <1>3, <2>2, <2>3, <2>4, <2>5 DEF StreamsInOrder, Unanswered
  <1> QED BY <1>7, <1>8

\* Steps that leave the streams and the queue to the adapter alone.
LEMMA QuietKept ==
  ASSUME KeptInv, Cancel \/ CloseBegins \/ CloseStep \/ AgentStep \/ UNCHANGED vars
  PROVE  KeptInv'
  <1>1. /\ UNCHANGED <<stream, nextRequestId, queue, verdict, delivered>>
        /\ reader' = "running" => reader = "running"
        /\ active' = FALSE \/ UNCHANGED <<active, turnInFlight>>
    BY DEF Cancel, CloseBegins, CloseStep, CloseTransport, CloseReturns, AgentStep, AgentAccepts,
           AgentSeesCancel, AgentExits, AgentUpdates, AgentAnswers, AgentNoise, vars,
           sessionVars, agentVars
  <1>2. Live' = Live BY <1>1 DEF Live
  <1>3. StreamsInOrder' BY <1>1, <1>2 DEF StreamsInOrder, Unanswered
  <1>4. OnlyOwnUpdates' BY <1>1, <1>2 DEF OnlyOwnUpdates
  <1> QED BY <1>3, <1>4

\* What the reader puts on the queue for the live turn is an update of that
\* turn: every other turn it may have read of was answered before.
LEMMA ReadsOwnUpdates ==
  ASSUME IInv, WireInv, OrderInv, KeptInv, ReadUpdate, NEW t \in Live
  PROVE  Head(stdout).turn = t
  <1>1. /\ reader = "running" /\ stdout \in Seq(Line) /\ stdout # <<>> /\ IsUpdate(Head(stdout))
        /\ 1 \in DOMAIN stdout /\ Head(stdout) = stdout[1] /\ Head(stdout) \in Line
    BY DEF ReadUpdate, ReadLine, IInv, TypeOK, IsUpdate
  <1>2. PICK u \in Turns : u = Head(stdout).turn
    BY <1>1, NoiseAssumption DEF IsUpdate, Line, Update, Response
  <1>3. Unanswered(u) BY <1>1, <1>2 DEF UpdatesUntold, Unanswered, Stops
  <1>4. u < nextRequestId
    <2>1. ~(u >= nextRequestId) BY <1>1, <1>2 DEF Unasked
    <2>2. u \in Int /\ nextRequestId \in Int BY BoundsAssumption DEF Turns, FirstId, IInv, TypeOK
    <2> QED BY <2>1, <2>2
  <1>5. stream[u] \notin {"none", "dropped", "failed", "ended", "closed"}
    BY <1>1, <1>3, <1>4 DEF StreamsInOrder
  <1>6. u \in Live BY <1>5 DEF Live, IInv, TypeOK
  <1> QED BY <1>2, <1>6 DEF IInv, Marks, OneLiveStream

LEMMA ReaderKept == ASSUME IInv, WireInv, OrderInv, KeptInv, ReaderStep PROVE KeptInv'
  <1>1. /\ UNCHANGED <<active, turnInFlight, stream, nextRequestId, verdict, delivered>>
        /\ reader' \in {reader, "ended"}
    BY DEF ReaderStep, ReadResponse, ReadUpdate, SkipNoise, ReaderFails, ReadLine,
           ReaderAtEof, ReaderCancelled, ReaderEnds, readerFrame
  <1>2. Live' = Live BY <1>1 DEF Live
  <1>3. StreamsInOrder' BY <1>1, <1>2 DEF StreamsInOrder, Unanswered
  <1>4. queue \in Seq(Item) BY DEF IInv, TypeOK
  <1>5. \A t \in Live : \A i \in DOMAIN queue' : IsUpdate(queue'[i]) =>
           queue'[i].turn = t \/ (i \in DOMAIN queue /\ queue'[i] = queue[i])
    <2>1. CASE queue' = queue BY <2>1
    <2>2. CASE ReadResponse /\ queue' = Append(queue, Head(stdout))
      <3>1. Head(stdout).kind = "response" BY <2>2 DEF ReadResponse
      <3>2. Head(stdout) \in Item
        <4>1. stdout \in Seq(Line) /\ stdout # <<>>
          BY <2>2 DEF ReadResponse, ReadLine, IInv, TypeOK
        <4>2. Head(stdout) \in Line BY <4>1, HeadAndTail
        <4>3. Head(stdout) \in Response BY <3>1, <4>2, LineKinds DEF IsResponse
        <4> QED BY <4>3 DEF Item
      <3>3. \A i \in DOMAIN queue' : (i \in DOMAIN queue /\ queue'[i] = queue[i]) \/ queue'[i] = Head(stdout)
        BY <1>4, <2>2, <3>2, AppendItems
      <3> QED BY <3>1, <3>3 DEF IsUpdate
    <2>3. CASE ReadUpdate /\ queue' = Append(queue, Forwarded(Head(stdout)))
      <3>1. Forwarded(Head(stdout)).kind = "update"
            /\ \A t \in Live : Forwarded(Head(stdout)).turn = t
        BY <2>3, ReadsOwnUpdates DEF Forwarded
      <3>2. Append(queue, Forwarded(Head(stdout))) \in Seq(Item)
        BY <2>3, NextType DEF IInv, Next, ReaderStep, TypeOK
      <3>3. \A i \in DOMAIN queue' : (i \in DOMAIN queue /\ queue'[i] = queue[i])
                                      \/ queue'[i] = Forwarded(Head(stdout))
        BY <1>4, <2>3
      <3> QED BY <3>1, <3>3
    <2>4. ASSUME NEW before \in {<< >>, <<Failure>>}, ReaderEnds(before)
          PROVE  \A i \in DOMAIN queue' : IsUpdate(queue'[i]) => i \in DOMAIN queue /\ queue'[i] = queue[i]
      <3>1. queue' = Append(queue \o before, Eof) BY <2>4 DEF ReaderEnds
      <3>2. Failure \in Item /\ Eof \in Item /\ ~IsUpdate(Failure) /\ ~IsUpdate(Eof)
        BY DEF Item, Failure, Eof, IsUpdate
      <3>3. \A i \in DOMAIN (queue \o before) :
               \/ i \in DOMAIN queue /\ (queue \o before)[i] = queue[i]
               \/ (queue \o before)[i] = Failure
        <4>1. CASE before = << >> BY <1>4, <4>1
        <4>2. CASE before = <<Failure>> BY <1>4, <4>2
        <4> QED BY <4>1, <4>2
      <3>4. PICK w \in Seq(Item) : w = queue \o before
        <4>1. before \in Seq(Item)
          <5>1. CASE before = << >> BY <5>1
          <5>2. CASE before = <<Failure>> BY <3>2, <5>2
          <5> QED BY <5>1, <5>2
        <4>2. queue \o before \in Seq(Item) BY <1>4, <4>1
        <4> QED BY <4>2
      <3>5. \A i \in DOMAIN queue' : (i \in DOMAIN w /\ queue'[i] = w[i]) \/ queue'[i] = Eof
        BY <3>1, <3>2, <3>4, AppendItems
      <3> QED BY <3>1, <3>2, <3>3, <3>4, <3>5
    <2>5. CASE ReaderFails \/ ReaderAtEof \/ ReaderCancelled
      <3>1. PICK before \in {<< >>, <<Failure>>} : ReaderEnds(before)
        BY <2>5 DEF ReaderFails, ReaderAtEof, ReaderCancelled
      <3> QED BY <2>4, <3>1
    <2> QED BY <2>1, <2>2, <2>3, <2>5 DEF ReaderStep, ReadResponse, ReadUpdate, SkipNoise
  <1>6. OnlyOwnUpdates' BY <1>1, <1>2, <1>5 DEF OnlyOwnUpdates
  <1> QED BY <1>3, <1>6

LEMMA NextKept ==
  ASSUME MayAbandon = FALSE, IInv, WireInv, OrderInv, KeptInv, [Next]_vars
  PROVE  KeptInv'
  <1>1. ASSUME NEW t \in Turns, HostStep(t) PROVE KeptInv'
    BY <1>1, SendKept, AdvanceKept, FinishKept DEF HostStep, DropUnstarted, AbandonStream
  <1> QED BY <1>1, TakeKept, QuietKept, ReaderKept DEF Next

\* While no host gives a stream up, a stream has heard its own updates only, and
\* is left with its response or because the reader has ended: kept by every step.
THEOREM KeptInvariance == ASSUME MayAbandon = FALSE PROVE Spec => []KeptInv
  BY InitKept, NextKept, Invariance, WireInvariance, OrderInvariance, PTL DEF Spec

-----------------------------------------------------------------------------
(* Every step of the adapter is a step of the contract, or none.            *)

HeardOf(updates) == [i \in DOMAIN updates |-> <<updates[i].turn, updates[i].n>>]

\* The contract's variables: Contract!vars in terms of the session's state.
Asked == {t \in Turns : stream[t] # "none"}
Said == [t \in Turns |-> Chunks(t, ShownUpdates(t))]
Heard == [t \in Turns |-> HeardOf(delivered[t])]

\* What a stream yielded are the numbers of its turn's own updates.
LEMMA HeardIsOwn ==
  ASSUME TypeOK, OnlyOwnUpdates, NEW t \in Turns
  PROVE  /\ OwnDelivered(t) \in Seq(Nat) /\ Len(OwnDelivered(t)) = Len(delivered[t])
         /\ HeardOf(delivered[t]) = Chunks(t, OwnDelivered(t))
  <1>1. delivered[t] \in Seq(OwnItem(t))
    <2>1. delivered[t] \in Seq(QueuedUpdate) BY DEF TypeOK
    <2>2. \A i \in 1..Len(delivered[t]) : delivered[t][i] \in OwnItem(t) BY <2>1 DEF OnlyOwnUpdates
    <2>3. delivered[t] = [i \in 1..Len(delivered[t]) |-> delivered[t][i]] /\ Len(delivered[t]) \in Nat
      BY <2>1
    <2>4. delivered[t] \in [1..Len(delivered[t]) -> OwnItem(t)] BY <2>2, <2>3
    <2> QED BY <2>3, <2>4, Listed
  <1>2. OwnItem(t) \subseteq OwnUpdate(t) BY DEF OwnItem, OwnUpdate
  <1>3. Only(delivered[t], OwnUpdate(t)) = delivered[t] BY <1>1, <1>2, OnlyAll
  <1>4. OwnDelivered(t) = Numbers(delivered[t]) BY <1>3 DEF OwnDelivered
  <1>5. Numbers(delivered[t]) \in Seq(Nat) /\ Len(Numbers(delivered[t])) = Len(delivered[t])
    BY <1>1, OwnNumbers, NumbersType
  <1>6. \A i \in DOMAIN delivered[t] : delivered[t][i].turn = t BY DEF OnlyOwnUpdates, OwnItem
  <1>7. HeardOf(delivered[t]) = Chunks(t, Numbers(delivered[t]))
    BY <1>6 DEF HeardOf, Chunks, Numbers
  <1> QED BY <1>4, <1>5, <1>7

LEMMA MapAppend ==
  ASSUME NEW A, NEW B, NEW f \in [A -> B], NEW s \in Seq(A), NEW x \in A
  PROVE  /\ [i \in DOMAIN Append(s, x) |-> f[Append(s, x)[i]]] = Append([i \in DOMAIN s |-> f[s[i]]], f[x])
         /\ Len([i \in DOMAIN s |-> f[s[i]]]) = Len(s)
  OBVIOUS

LEMMA HeardAppend ==
  ASSUME NEW A, NEW d \in Seq(A), NEW x \in A
  PROVE  /\ HeardOf(Append(d, x)) = Append(HeardOf(d), <<x.turn, x.n>>)
         /\ Len(HeardOf(d)) = Len(d)
  <1> DEFINE f == [y \in A |-> <<y.turn, y.n>>]  B == {<<y.turn, y.n>> : y \in A}
  <1>1. f \in [A -> B] /\ f[x] = <<x.turn, x.n>> OBVIOUS
  <1>2. ASSUME NEW q \in Seq(A) PROVE HeardOf(q) = [i \in DOMAIN q |-> f[q[i]]]
    <2>1. \A i \in DOMAIN q : f[q[i]] = <<q[i].turn, q[i].n>> OBVIOUS
    <2> HIDE DEF f
    <2> QED BY <2>1 DEF HeardOf
  <1>3. Append(d, x) \in Seq(A) OBVIOUS
  <1> HIDE DEF f, B
  <1>4. /\ [i \in DOMAIN Append(d, x) |-> f[Append(d, x)[i]]] = Append([i \in DOMAIN d |-> f[d[i]]], f[x])
        /\ Len([i \in DOMAIN d |-> f[d[i]]]) = Len(d)
    BY <1>1, MapAppend
  <1>5. HeardOf(d) = [i \in DOMAIN d |-> f[d[i]]] BY <1>2
  <1>6. HeardOf(Append(d, x)) = [i \in DOMAIN Append(d, x) |-> f[Append(d, x)[i]]] BY <1>2, <1>3
  <1> QED BY <1>1, <1>4, <1>5, <1>6

LEMMA ChunksAppend ==
  ASSUME NEW t, NEW q \in Seq(Nat), NEW n \in Nat
  PROVE  /\ Chunks(t, Append(q, n)) = Append(Chunks(t, q), <<t, n>>)
         /\ Len(Chunks(t, q)) = Len(q) /\ \A i \in 1..Len(q) : Chunks(t, q)[i] = <<t, q[i]>>
  <1> DEFINE f == [y \in Nat |-> <<t, y>>]  B == {<<t, y>> : y \in Nat}
  <1>1. f \in [Nat -> B] /\ f[n] = <<t, n>> OBVIOUS
  <1>2. ASSUME NEW r \in Seq(Nat) PROVE Chunks(t, r) = [i \in DOMAIN r |-> f[r[i]]]
    <2>1. \A i \in DOMAIN r : f[r[i]] = <<t, r[i]>> OBVIOUS
    <2> HIDE DEF f
    <2> QED BY <2>1 DEF Chunks
  <1>3. Append(q, n) \in Seq(Nat) /\ DOMAIN q = 1..Len(q) OBVIOUS
  <1> HIDE DEF f, B
  <1>4. /\ [i \in DOMAIN Append(q, n) |-> f[Append(q, n)[i]]] = Append([i \in DOMAIN q |-> f[q[i]]], f[n])
        /\ Len([i \in DOMAIN q |-> f[q[i]]]) = Len(q)
    BY <1>1, MapAppend
  <1>5. Chunks(t, q) = [i \in DOMAIN q |-> f[q[i]]] BY <1>2
  <1>6. Chunks(t, Append(q, n)) = [i \in DOMAIN Append(q, n) |-> f[Append(q, n)[i]]] BY <1>2, <1>3
  <1>7. \A i \in 1..Len(q) : Chunks(t, q)[i] = <<t, q[i]>> BY <1>3 DEF Chunks
  <1> QED BY <1>1, <1>4, <1>5, <1>6, <1>7

LEMMA ConcatFirst ==
  ASSUME NEW S, NEW a \in Seq(S), NEW b \in Seq(S), NEW i \in 1..Len(a)
  PROVE  a \o b \in Seq(S) /\ Len(a \o b) = Len(a) + Len(b) /\ (a \o b)[i] = a[i]
  OBVIOUS

\* What follows the first elements of a sequence comes next.
LEMMA ComesNext ==
  ASSUME NEW S, NEW a \in Seq(S), NEW b \in Seq(S), NEW c \in Seq(S), NEW x \in S
  PROVE  /\ Len(a) < Len((Append(a, x) \o b) \o c)
         /\ ((Append(a, x) \o b) \o c)[Len(a) + 1] = x
  <1>1. /\ Append(a, x) \in Seq(S) /\ Len(Append(a, x)) = Len(a) + 1 /\ Append(a, x)[Len(a) + 1] = x
        /\ Len(a) \in Nat /\ Len(b) \in Nat /\ Len(c) \in Nat
    OBVIOUS
  <1> DEFINE p == Append(a, x)
  <1> HIDE DEF p
  <1>2. p \in Seq(S) /\ Len(p) = Len(a) + 1 /\ p[Len(a) + 1] = x BY <1>1 DEF p
  <1>3. Len(a) + 1 \in 1..Len(p) BY <1>1, <1>2
  <1>4. p \o b \in Seq(S) /\ Len(p \o b) = Len(p) + Len(b) /\ (p \o b)[Len(a) + 1] = x
    BY <1>2, <1>3, ConcatFirst
  <1> DEFINE r == p \o b
  <1> HIDE DEF r
  <1>5. r \in Seq(S) /\ r[Len(a) + 1] = x /\ Len(a) + 1 \in 1..Len(r) BY <1>1, <1>2, <1>3, <1>4 DEF r
  <1>6. Len(r \o c) = Len(r) + Len(c) /\ (r \o c)[Len(a) + 1] = x BY <1>5, ConcatFirst
  <1>7. Len(a) < Len(r \o c) BY <1>1, <1>5, <1>6
  <1> QED BY <1>6, <1>7 DEF p, r

\* Steps the contract does not see.
LEMMA Unseen ==
  ASSUME UNCHANGED <<active, stream, emitted, answer, delivered, verdict>>,
         (reader = "running") <=> (reader' = "running")
  PROVE  UNCHANGED Contract!vars
  BY DEF Contract!vars, Live, ShownUpdates, Told

LEMMA AskMap ==
  ASSUME IInv, WireInv, NEW t \in Turns, SendMessage(t)
  PROVE  Contract!Ask(t)
  <1>1. /\ active /\ ~turnInFlight /\ t = nextRequestId /\ stream' = [stream EXCEPT ![t] = "sending"]
        /\ UNCHANGED <<active, reader, emitted, answer, delivered, verdict>>
    BY DEF SendMessage, ReadyForTurn, agentVars
  <1>2. stream'[t] = "sending" /\ \A u \in Turns \ {t} : stream'[u] = stream[u]
    BY <1>1 DEF IInv, TypeOK
  <1>3. stream[t] = "none"
    <2>1. t >= nextRequestId BY <1>1, BoundsAssumption DEF Turns, FirstId
    <2> QED BY <2>1 DEF Unasked
  <1>4. Live = {} BY <1>1 DEF IInv, Marks, MarkNamesLiveStream
  <1>5. Live' = {t} BY <1>2, <1>4 DEF Live
  <1>6. Asked' = Asked \cup {t} BY <1>2 DEF Asked
  <1>7. Said' = Said BY <1>1 DEF Said, ShownUpdates, Told
  <1> QED BY <1>1, <1>3, <1>4, <1>5, <1>6, <1>7 DEF Contract!Ask, Asked, Said

LEMMA AdvanceMap ==
  ASSUME IInv, NEW t \in Turns, SendCompletes(t) \/ StartStream(t)
  PROVE  UNCHANGED Contract!vars
  <1>1. PICK to \in {"created", "streaming"} :
           /\ stream[t] \in {"sending", "created"} /\ stream' = [stream EXCEPT ![t] = to]
           /\ UNCHANGED <<active, reader, emitted, answer, delivered, verdict>>
    BY DEF SendCompletes, StartStream, Advance, agentVars
  <1>2. stream'[t] = to /\ \A u \in Turns \ {t} : stream'[u] = stream[u]
    BY <1>1 DEF IInv, TypeOK
  <1>3. Live' = Live BY <1>1, <1>2 DEF Live
  <1>4. Asked' = Asked BY <1>1, <1>2 DEF Asked
  <1>5. Said' = Said BY <1>1 DEF Said, ShownUpdates, Told
  <1> QED BY <1>1, <1>3, <1>4, <1>5 DEF Contract!vars, Asked, Said

LEMMA LeaveMap ==
  ASSUME IInv, KeptInv, NEW t \in Turns, SendFails(t) \/ FinishStream(t)
  PROVE  Contract!Leave(t)
  <1>1. PICK to \in {"failed", "closed"} :
           /\ stream[t] \in {"sending", "ended"} /\ stream' = [stream EXCEPT ![t] = to]
           /\ UNCHANGED <<active, reader, emitted, answer, delivered, verdict>>
    BY DEF SendFails, FinishStream, Release, Advance, agentVars
  <1>2. stream'[t] = to /\ \A u \in Turns \ {t} : stream'[u] = stream[u]
    BY <1>1 DEF IInv, TypeOK
  <1>3. t \in Live /\ Live' = {} BY <1>1, <1>2 DEF Live, IInv, Marks, OneLiveStream
  <1>4. Asked' = Asked BY <1>1, <1>2 DEF Asked
  <1>5. Said' = Said BY <1>1 DEF Said, ShownUpdates, Told
  <1>6. verdict[t] # "none" \/ delivered[t] = <<>> BY <1>1 DEF StreamsInOrder
  <1>7. delivered[t] = <<>> => [i \in DOMAIN delivered[t] |-> <<delivered[t][i].turn, delivered[t][i].n>>] = <<>>
    OBVIOUS
  <1> QED BY <1>1, <1>3, <1>4, <1>5, <1>6, <1>7 DEF Contract!Leave, Asked, Said

\* What the steps of a stream leave as it is.
LEMMA TakeFrame ==
  ASSUME IInv, WireInv, NEW t \in Turns, StreamStep(t)
  PROVE  /\ UNCHANGED <<active, reader, emitted, answer>> /\ Asked' = Asked /\ Said' = Said
         /\ t \in Live /\ Live' = Live /\ verdict[t] = "none"
         /\ queue \in Seq(Item) /\ 1 \in DOMAIN queue /\ Head(queue) = queue[1] /\ Head(queue) \in Item
  <1>1. PICK to \in {"ended", "streaming"} : Take(t, to)
    BY DEF StreamStep, TakeSentinel, TakeResponse, TakeUpdate
  <1>2. /\ stream[t] = "streaming" /\ queue # <<>> /\ stream' = [stream EXCEPT ![t] = to]
        /\ UNCHANGED <<active, reader, emitted, answer>>
    BY <1>1 DEF Take, agentVars
  <1>3. stream'[t] = to /\ \A u \in Turns \ {t} : stream'[u] = stream[u]
    BY <1>2 DEF IInv, TypeOK
  <1>4. t \in Live /\ Live' = Live BY <1>2, <1>3 DEF Live
  <1>5. Asked' = Asked BY <1>2, <1>3 DEF Asked
  <1>6. Said' = Said BY <1>2 DEF Said, ShownUpdates, Told
  <1>7. verdict[t] = "none" BY <1>2 DEF NothingLost, Waiting
  <1>8. queue \in Seq(Item) BY DEF IInv, TypeOK
  <1>9. 1 \in DOMAIN queue /\ Head(queue) = queue[1] /\ Head(queue) \in Item BY <1>2, <1>8
  <1> QED BY <1>2, <1>4, <1>5, <1>6, <1>7, <1>8, <1>9

LEMMA BreakMap ==
  ASSUME IInv, WireInv, OrderInv, KeptInv, NEW t \in Turns, TakeSentinel(t)
  PROVE  Contract!Break(t)
  <1>1. /\ UNCHANGED <<active, reader, emitted, answer>> /\ Asked' = Asked /\ Said' = Said
        /\ t \in Live /\ Live' = Live /\ verdict[t] = "none"
        /\ 1 \in DOMAIN queue /\ Head(queue) = queue[1]
    BY TakeFrame DEF StreamStep
  <1>2. reader # "running" BY <1>1 DEF TakeSentinel, MarkersLast
  <1>3. \E error \in {"stream_closed", "reader_failure"} : verdict' = [verdict EXCEPT ![t] = error]
    BY DEF TakeSentinel
  <1>4. delivered' = delivered BY DEF TakeSentinel
  <1> QED BY <1>1, <1>2, <1>3, <1>4 DEF Contract!Break, Asked, Said

LEMMA ConcludeMap ==
  ASSUME IInv, WireInv, WireInv', KeptInv, NEW t \in Turns, TakeResponse(t)
  PROVE  Contract!Conclude(t)
  <1>1. /\ UNCHANGED <<active, reader, emitted, answer>> /\ Asked' = Asked /\ Said' = Said
        /\ t \in Live /\ Live' = Live /\ verdict[t] = "none"
        /\ 1 \in DOMAIN queue /\ Head(queue) = queue[1] /\ Head(queue) \in Item
    BY TakeFrame DEF StreamStep
  <1>2. /\ verdict' = [verdict EXCEPT ![t] = Head(queue).stop] /\ delivered' = delivered
        /\ IsResponse(Head(queue)) /\ Head(queue).turn = t
    BY DEF TakeResponse, IsOwnResponse, IsResponse
  <1>3. answer[t] = Head(queue).stop BY <1>1, <1>2 DEF AnswersLast, Answered
  <1>4. Head(queue).stop \in Stops BY <1>1, <1>2, LineKinds
  <1>5. verdict'[t] \in Stops BY <1>2, <1>4 DEF IInv, TypeOK
  <1>6. OwnDelivered(t)' = ShownUpdates(t)' BY <1>5 DEF CompleteTurn
  <1>7. OwnDelivered(t) = ShownUpdates(t)
    BY <1>1, <1>2, <1>6 DEF OwnDelivered, ShownUpdates, Told
  <1>8. HeardOf(delivered[t]) = Chunks(t, ShownUpdates(t)) BY <1>7, HeardIsOwn DEF IInv
  <1>9. answer[t] # "none" BY <1>3, <1>4 DEF Stops
  <1>10. verdict' = [verdict EXCEPT ![t] = answer[t]] BY <1>2, <1>3
  <1> QED BY <1>1, <1>2, <1>8, <1>9, <1>10 DEF Contract!Conclude, Asked, Said, HeardOf

LEMMA HearMap ==
  ASSUME IInv, WireInv, WireInv', KeptInv, TypeOK', NEW t \in Turns, TakeUpdate(t)
  PROVE  Contract!Hear(t) \/ UNCHANGED Contract!vars
  <1>1. /\ UNCHANGED <<active, reader, emitted, answer>> /\ Asked' = Asked /\ Said' = Said
        /\ t \in Live /\ Live' = Live /\ verdict[t] = "none"
        /\ 1 \in DOMAIN queue /\ Head(queue) = queue[1] /\ Head(queue) \in Item
    BY TakeFrame DEF StreamStep
  <1>2. verdict' = verdict BY DEF TakeUpdate
  <1>3. CASE ~HasChunk(Head(queue))
    <2>1. delivered' = delivered BY <1>3 DEF TakeUpdate
    <2> QED BY <1>1, <1>2, <2>1 DEF Contract!vars, Asked, Said
  <1>4. CASE HasChunk(Head(queue))
    <2>1. PICK x \in OwnItem(t) : x = Head(queue)
      <3>1. Head(queue) \in QueuedUpdate /\ Head(queue).shown = TRUE /\ Head(queue).turn = t
        BY <1>1, <1>4 DEF HasChunk, OnlyOwnUpdates, IsUpdate, Item, QueuedUpdate, Response, Failure, Eof
      <3> QED BY <3>1 DEF QueuedUpdate, OwnItem
    <2>2. /\ x.turn = t /\ x.n \in Nat /\ x \in OwnUpdate(t) /\ x \in QueuedUpdate
      BY <2>1, OwnNumbers DEF OwnItem, OwnUpdate, QueuedUpdate
    <2>3. delivered[t] \in Seq(QueuedUpdate) /\ delivered' = [delivered EXCEPT ![t] = Append(delivered[t], x)]
      BY <1>4, <2>1 DEF TakeUpdate, IInv, TypeOK
    <2>4. HeardOf(Append(delivered[t], x)) = Append(HeardOf(delivered[t]), <<t, x.n>>)
          /\ Len(HeardOf(delivered[t])) = Len(delivered[t])
      BY <2>2, <2>3, HeardAppend
    <2>5. delivered'[t] = Append(delivered[t], x) BY <2>3 DEF IInv, TypeOK
    <2>6. Had(t)' = Append(Had(t), x.n)
      <3>1. Chosen(Append(delivered[t], x), OwnUpdate(t)) =
              IF x \in OwnUpdate(t) THEN Append(Chosen(delivered[t], OwnUpdate(t)), x.n)
                                    ELSE Chosen(delivered[t], OwnUpdate(t))
        BY <2>2, <2>3, ChosenAppend
      <3>2. Had(t)' = Chosen(delivered'[t], OwnUpdate(t)) BY DEF Had
      <3> QED BY <2>2, <2>5, <3>1, <3>2 DEF Had
    <2>7. OwnDelivered(t) = Had(t) /\ Had(t) \in Seq(Nat) /\ Len(Had(t)) = Len(delivered[t])
      <3>1. OwnDelivered(t) = Had(t) /\ Had(t) \in Seq(Nat) BY FlowParts DEF IInv
      <3>2. Len(OwnDelivered(t)) = Len(delivered[t]) BY HeardIsOwn DEF IInv
      <3> QED BY <3>1, <3>2
    <2>8. PICK q \in Seq(Nat) : q = Queued(t)'
      <3>1. queue' \in Seq(Item) BY DEF TypeOK
      <3>2. Chosen(queue', OwnItem(t)) \in Seq(Nat) BY <3>1, OwnNumbers, ChosenType
      <3> QED BY <3>2 DEF Queued
    <2>9. PICK p \in Seq(Nat) : p = Piped(t)'
      <3>1. stdout' \in Seq(Line) BY DEF TypeOK
      <3>2. Chosen(stdout', OwnLine(t)) \in Seq(Nat) BY <3>1, OwnNumbers, ChosenType
      <3> QED BY <3>2 DEF Piped
    <2>10. (Append(Had(t), x.n) \o q) \o p = ShownUpdates(t)
      <3>1. stream'[t] = "streaming" BY DEF TakeUpdate, Take, IInv, TypeOK
      <3>2. Flow(t)' = ShownUpdates(t)' BY <3>1 DEF NothingLost, Waiting
      <3>3. ShownUpdates(t)' = ShownUpdates(t) BY <1>1 DEF ShownUpdates, Told
      <3>4. Flow(t)' = (Had(t)' \o Queued(t)') \o Piped(t)' BY FlowPrime
      <3> QED BY <2>6, <2>8, <2>9, <3>2, <3>3, <3>4
    <2>11. /\ Len(Had(t)) < Len(ShownUpdates(t)) /\ ShownUpdates(t)[Len(Had(t)) + 1] = x.n
           /\ ShownUpdates(t) \in Seq(Nat) /\ Len(Had(t)) + 1 \in 1..Len(ShownUpdates(t))
      <3>1. /\ Len(Had(t)) < Len((Append(Had(t), x.n) \o q) \o p)
            /\ ((Append(Had(t), x.n) \o q) \o p)[Len(Had(t)) + 1] = x.n
        BY <2>2, <2>7, ComesNext
      <3>2. \A a \in Seq(Nat) : (Append(a, x.n) \o q) \o p \in Seq(Nat) BY <2>2
      <3>3. ShownUpdates(t) \in Seq(Nat) BY <2>7, <2>10, <3>2
      <3> QED BY <2>7, <2>10, <3>1, <3>3
    <2>12. /\ Len(Chunks(t, ShownUpdates(t))) = Len(ShownUpdates(t))
           /\ Chunks(t, ShownUpdates(t))[Len(Had(t)) + 1] = <<t, x.n>>
      <3>1. /\ Len(Chunks(t, ShownUpdates(t))) = Len(ShownUpdates(t))
            /\ \A i \in 1..Len(ShownUpdates(t)) : Chunks(t, ShownUpdates(t))[i] = <<t, ShownUpdates(t)[i]>>
        BY <2>11, ChunksAppend
      <3> QED BY <2>11, <3>1
    <2>13. /\ Said[t] = Chunks(t, ShownUpdates(t)) /\ Heard[t] = HeardOf(delivered[t]) BY DEF Said, Heard
    <2>14. Len(Heard[t]) < Len(Said[t]) /\ Said[t][Len(Heard[t]) + 1] = <<t, x.n>>
      BY <2>4, <2>7, <2>11, <2>12, <2>13
    <2>15. Heard' = [Heard EXCEPT ![t] = Append(@, <<t, x.n>>)]
      BY <2>3, <2>4 DEF Heard, IInv, TypeOK
    <2>16. Heard' = [Heard EXCEPT ![t] = Append(@, Said[t][Len(@) + 1])] BY <2>14, <2>15
    <2> QED BY <1>1, <1>2, <2>14, <2>16 DEF Contract!Hear, Asked, Said, Heard, HeardOf
  <1> QED BY <1>3, <1>4

LEMMA CloseMap ==
  ASSUME IInv, CloseBegins
  PROVE  Contract!LoseLink \/ Contract!Close
  <1>1. /\ active' = FALSE /\ UNCHANGED <<stream, emitted, answer, delivered, verdict>>
        /\ reader' = IF reader = "running" THEN "cancelled" ELSE reader
    BY DEF CloseBegins, agentVars
  <1>2. Live' = Live /\ Asked' = Asked /\ Said' = Said BY <1>1 DEF Live, Asked, Said, ShownUpdates, Told
  <1>3. CASE reader = "running"
    <2>1. (reader' = "running") = FALSE BY <1>1, <1>3
    <2> QED BY <1>1, <1>2, <2>1 DEF Contract!LoseLink, Asked, Said
  <1>4. CASE reader # "running"
    <2>1. (reader' = "running") = (reader = "running") BY <1>1, <1>4
    <2> QED BY <1>1, <1>2, <2>1 DEF Contract!Close, Asked, Said
  <1> QED BY <1>3, <1>4

LEMMA ReaderMap ==
  ASSUME IInv, ReaderStep
  PROVE  Contract!LoseLink \/ UNCHANGED Contract!vars
  <1>1. /\ UNCHANGED <<active, stream, emitted, answer, delivered, verdict>>
        /\ reader' \in {reader, "ended"}
    BY DEF ReaderStep, ReadResponse, ReadUpdate, SkipNoise, ReaderFails, ReadLine,
           ReaderAtEof, ReaderCancelled, ReaderEnds, readerFrame
  <1>2. CASE (reader = "running") <=> (reader' = "running") BY <1>1, <1>2, Unseen
  <1>3. CASE reader' # "running"
    <2>1. (reader' = "running") = FALSE BY <1>3
    <2>2. Live' = Live /\ Asked' = Asked /\ Said' = Said BY <1>1 DEF Live, Asked, Said, ShownUpdates, Told
    <2> QED BY <1>1, <2>1, <2>2 DEF Contract!LoseLink, Asked, Said
  <1> QED BY <1>1, <1>2, <1>3

\* The turn the agent works on was asked for, and not answered yet.
LEMMA RunningAsked ==
  ASSUME IInv, WireInv, KeptInv, running # None
  PROVE  running \in Turns /\ running \in Asked /\ answer[running] = "none"
  <1>1. running \in Turns /\ running < nextRequestId /\ answer[running] = "none"
    BY DEF IInv, TypeOK, PromptsOnce
  <1> QED BY <1>1 DEF Asked, StreamsInOrder

LEMMA SayMap ==
  ASSUME IInv, WireInv, KeptInv, NEW shown \in BOOLEAN, AgentUpdates(shown)
  PROVE  \/ \E t \in Turns, chunk \in Turns \X (1..MaxUpdates) : Contract!Say(t, chunk)
         \/ UNCHANGED Contract!vars
  <1>1. /\ running # None /\ Len(emitted[running]) < MaxUpdates
        /\ emitted' = [emitted EXCEPT ![running] = Append(@, shown)]
        /\ UNCHANGED <<active, stream, reader, answer, delivered, verdict>>
    BY DEF AgentUpdates, sessionVars
  <1>2. PICK r \in Turns : r = running /\ r \in Asked /\ answer[r] = "none" BY <1>1, RunningAsked
  <1>3. /\ emitted'[r] = Append(emitted[r], shown) /\ \A u \in Turns \ {r} : emitted'[u] = emitted[u]
        /\ emitted[r] \in Seq(BOOLEAN) /\ Len(emitted[r]) < MaxUpdates
    BY <1>1, <1>2 DEF IInv, TypeOK
  <1>4. PICK n \in 1..MaxUpdates : n = Len(emitted[r]) + 1 BY <1>3, BoundsAssumption
  <1>5. /\ ShownUpdates(r) \in Seq(Nat)
        /\ ShownUpdates(r)' = IF shown THEN Append(ShownUpdates(r), n) ELSE ShownUpdates(r)
    BY <1>3, <1>4, ToldAppend DEF IInv
  <1>6. \A u \in Turns \ {r} : ShownUpdates(u)' = ShownUpdates(u) BY <1>3 DEF ShownUpdates, Told
  <1>7. Live' = Live /\ Asked' = Asked BY <1>1 DEF Live, Asked
  <1>8. CASE shown = FALSE
    <2>1. Said' = Said BY <1>5, <1>6, <1>8 DEF Said
    <2> QED BY <1>1, <1>7, <2>1 DEF Contract!vars, Asked, Said
  <1>9. CASE shown = TRUE
    <2>1. n \in Nat BY BoundsAssumption
    <2>2. Chunks(r, Append(ShownUpdates(r), n)) = Append(Chunks(r, ShownUpdates(r)), <<r, n>>)
      BY <1>5, <2>1, ChunksAppend
    <2>3. Said' = [Said EXCEPT ![r] = Append(@, <<r, n>>)]
      <3>1. \A u \in Turns : Said'[u] = IF u = r THEN Append(Said[r], <<r, n>>) ELSE Said[u]
        BY <1>5, <1>6, <1>9, <2>2 DEF Said
      <3> QED BY <3>1 DEF Said
    <2>4. Contract!Say(r, <<r, n>>)
      BY <1>1, <1>2, <1>7, <2>3 DEF Contract!Say, Asked, Said
    <2>5. <<r, n>> \in Turns \X (1..MaxUpdates) OBVIOUS
    <2> QED BY <2>4, <2>5
  <1> QED BY <1>8, <1>9

LEMMA EndMap ==
  ASSUME IInv, WireInv, KeptInv, NEW stop \in Stops, AgentAnswers(stop)
  PROVE  \E t \in Turns : Contract!End(t, stop)
  <1>1. /\ running # None /\ answer' = [answer EXCEPT ![running] = stop]
        /\ UNCHANGED <<active, stream, reader, emitted, delivered, verdict>>
    BY DEF AgentAnswers, sessionVars
  <1>2. PICK r \in Turns : r = running /\ r \in Asked /\ answer[r] = "none" BY <1>1, RunningAsked
  <1>3. Live' = Live /\ Asked' = Asked /\ Said' = Said BY <1>1 DEF Live, Asked, Said, ShownUpdates, Told
  <1>4. Contract!End(r, stop) BY <1>1, <1>2, <1>3 DEF Contract!End, Asked, Said
  <1> QED BY <1>4

LEMMA QuietMap ==
  ASSUME \/ Cancel \/ CloseStep \/ AgentAccepts \/ AgentSeesCancel \/ AgentExits
         \/ (\E kind \in NoiseKinds : AgentNoise(kind)) \/ UNCHANGED vars
  PROVE  UNCHANGED Contract!vars
  <1>1. UNCHANGED <<active, stream, reader, emitted, answer, delivered, verdict>>
    BY DEF Cancel, CloseStep, CloseTransport, CloseReturns, AgentAccepts, AgentSeesCancel,
           AgentExits, AgentNoise, vars, sessionVars, agentVars
  <1> QED BY <1>1, Unseen

LEMMA InitMap == Init => Contract!Init
  <1> SUFFICES ASSUME Init PROVE Contract!Init OBVIOUS
  <1>1. Live = {} BY DEF Init, Live
  <1>2. \A t \in Turns : ShownUpdates(t) = <<>>
    <2>1. \A t \in Turns : Told(t) = <<>> BY DEF Init, Told
    <2> QED BY <2>1, OnlyEmpty DEF ShownUpdates, Numbers
  <1>3. \A t \in Turns : Chunks(t, ShownUpdates(t)) = <<>> BY <1>2 DEF Chunks
  <1> QED BY <1>1, <1>3 DEF Init, Contract!Init

LEMMA NextMap ==
  ASSUME MayAbandon = FALSE, IInv, WireInv, WireInv', OrderInv, KeptInv, TypeOK', [Next]_vars
  PROVE  [Contract!Next]_Contract!vars
  <1>1. ASSUME NEW t \in Turns, HostStep(t) PROVE [Contract!Next]_Contract!vars
    <2>1. ~DropUnstarted(t) /\ ~AbandonStream(t) BY DEF DropUnstarted, AbandonStream
    <2>2. Contract!Ask(t) \/ Contract!Leave(t) \/ UNCHANGED Contract!vars
      BY <1>1, <2>1, AskMap, AdvanceMap, LeaveMap DEF HostStep
    <2> QED BY <2>2 DEF Contract!Next
  <1>2. ASSUME NEW t \in Turns, StreamStep(t) PROVE [Contract!Next]_Contract!vars
    <2>1. Contract!Break(t) \/ Contract!Conclude(t) \/ Contract!Hear(t) \/ UNCHANGED Contract!vars
      BY <1>2, BreakMap, ConcludeMap, HearMap DEF StreamStep
    <2> QED BY <2>1 DEF Contract!Next
  <1>3. CASE CloseBegins \/ ReaderStep BY <1>3, CloseMap, ReaderMap DEF Contract!Next
  <1>4. CASE AgentStep
    <2>1. ASSUME NEW shown \in BOOLEAN, AgentUpdates(shown) PROVE [Contract!Next]_Contract!vars
      BY <2>1, SayMap DEF Contract!Next
    <2>2. ASSUME NEW stop \in Stops, AgentAnswers(stop) PROVE [Contract!Next]_Contract!vars
      BY <2>2, EndMap DEF Contract!Next
    <2> QED BY <1>4, <2>1, <2>2, QuietMap DEF AgentStep
  <1> QED BY <1>1, <1>2, <1>3, <1>4, QuietMap DEF Next

(***************************************************************************)
(* For a host that iterates every stream to its end, kiro_code implements  *)
(* the AgentBackend contract (core/backend.py): each step of the adapter   *)
(* and of the agent, a crash, an unreadable line and a close() in the      *)
(* middle of a turn included, is a step the contract allows, or none.      *)
(***************************************************************************)
THEOREM ContractIsKept == ASSUME MayAbandon = FALSE PROVE Spec => KeepsContract
  <1>1. Spec => [](IInv /\ WireInv /\ OrderInv /\ KeptInv)
    BY Invariance, WireInvariance, OrderInvariance, KeptInvariance, PTL
  <1>2. IInv' => TypeOK' BY DEF IInv
  <1>3. IInv /\ IInv' /\ WireInv /\ WireInv' /\ OrderInv /\ KeptInv /\ [Next]_vars
          => [Contract!Next]_Contract!vars
    BY <1>2, NextMap
  <1> QED BY <1>1, <1>3, InitMap, PTL DEF Spec, KeepsContract, Contract!Spec
==============================================================================
