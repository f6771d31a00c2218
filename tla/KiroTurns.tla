------------------------------ MODULE KiroTurns ------------------------------
(***************************************************************************)
(* The turns of one initialised kiro_code session: KiroCodeBackend in      *)
(* adapters/kiro_code.py, between a host that calls send_message, iterates *)
(* the returned stream, cancels and closes, and a `kiro-cli acp` child     *)
(* that reads prompts on stdin and writes updates and responses on stdout. *)
(*                                                                         *)
(* asyncio is cooperative, so a step of this module is the code between    *)
(* two awaits that can suspend.  (Putting on the unbounded stream queue    *)
(* never suspends.)  A turn is named by the JSON-RPC id of its prompt.     *)
(***************************************************************************)
EXTENDS Integers, Sequences, Selection

CONSTANTS
    MaxTurns,    \* bound: prompts the host sends
    MaxUpdates,  \* bound: session/update lines the agent writes for a prompt
    MaxCancels,  \* bound: cancel() calls that reach the wire
    MaxNoise,    \* bound: lines that are neither an update nor a response
    NoiseKinds,  \* which of those lines the agent can write
    MayAbandon,  \* may the host give a stream up, or a pending send_message?
    MayCrash     \* may the child exit on its own?

ASSUME BoundsAssumption ==
    /\ MaxTurns \in Nat /\ MaxUpdates \in Nat
    /\ MaxCancels \in Nat /\ MaxNoise \in Nat
ASSUME HostAssumption == MayAbandon \in BOOLEAN /\ MayCrash \in BOOLEAN
\* "noise": blank, malformed JSON, not an object, or an unknown method.
\* "poison": not UTF-8, or longer than the reader's 64 KiB line limit.
ASSUME NoiseAssumption == NoiseKinds \subseteq {"noise", "poison"}

FirstId == 3              \* initialize and session/new took ids 1 and 2
Turns == FirstId .. (FirstId + MaxTurns - 1)
None == 0                 \* no request id

Stops == {"end_turn", "cancelled", "prompt_error"}
Verdicts == Stops \cup {"none", "stream_closed", "reader_failure"}

Update == [kind : {"update"}, turn : Turns, n : 1..MaxUpdates, shown : BOOLEAN]
Response == [kind : {"response"}, turn : Turns, stop : Stops]
Line == Update \cup Response \cup [kind : NoiseKinds]
Request == [kind : {"prompt"}, turn : Turns] \cup [kind : {"cancel"}]
\* A queued update also records the turn in flight when the reader put it.
QueuedUpdate == [kind : {"update"}, turn : Turns, n : 1..MaxUpdates,
                 shown : BOOLEAN, during : Turns \cup {None}]
Failure == [kind |-> "failure"]    \* {"_loom_reader_error": ...}
Eof == [kind |-> "eof"]            \* the None sentinel
Item == QueuedUpdate \cup Response \cup {Failure, Eof}

VARIABLES
    active,         \* the session is registered and state.active
    turnInFlight,   \* state.turn_in_flight
    turnRequestId,  \* state.turn_request_id
    nextRequestId,  \* state.next_request_id
    pending,        \* keys of state.pending_responses
    queue,          \* state.stream_queue
    reader,         \* state.reader_task
    stream,         \* per turn: how far send_message and its stream got
    delivered,      \* per turn: the updates its stream turned into chunks
    verdict,        \* per turn: the chunk that ended its stream
    closing         \* how far close() got

sessionVars == <<active, turnInFlight, turnRequestId, nextRequestId, pending,
                 queue, reader, stream, delivered, verdict, closing>>

VARIABLES
    stdin, stdout,  \* the child's pipes
    child,          \* "alive" or "dead"
    running,        \* the prompt the agent works on, or None
    flagged,        \* the agent saw a session/cancel it has not acted on
    emitted,        \* per turn: for each update written, whether it shows
    answer,         \* per turn: how the agent answered its prompt
    cancels, noise  \* bounded counters

agentVars == <<stdout, child, running, flagged, emitted, answer, noise>>

VARIABLE late       \* per turn: had the reader stopped before it began?

vars == <<sessionVars, agentVars, stdin, cancels, late>>

\* A turn whose send_message is under way or whose stream is not finished.
LiveStates == {"sending", "created", "streaming", "ended"}
Live == {t \in Turns : stream[t] \in LiveStates}

TypeOK ==
    /\ active \in BOOLEAN /\ turnInFlight \in BOOLEAN
    /\ turnRequestId \in Turns \cup {None}
    /\ nextRequestId \in FirstId .. (FirstId + MaxTurns)
    /\ pending \subseteq Turns
    /\ queue \in Seq(Item)
    /\ reader \in {"running", "cancelled", "ended"}
    /\ stream \in [Turns -> LiveStates \cup {"none", "closed", "failed", "dropped"}]
    /\ delivered \in [Turns -> Seq(QueuedUpdate)]
    /\ verdict \in [Turns -> Verdicts]
    /\ closing \in {"open", "reader", "transport", "closed"}
    /\ stdin \in Seq(Request) /\ stdout \in Seq(Line)
    /\ child \in {"alive", "dead"}
    /\ running \in Turns \cup {None} /\ flagged \in BOOLEAN
    /\ emitted \in [Turns -> Seq(BOOLEAN)]
    /\ \A t \in Turns : Len(emitted[t]) <= MaxUpdates
    /\ answer \in [Turns -> Stops \cup {"none"}]
    /\ cancels \in 0..MaxCancels /\ noise \in 0..MaxNoise
    /\ late \in [Turns -> BOOLEAN]

\* initialize() has returned: the reader runs, the handshake is answered.
Init ==
    /\ active = TRUE /\ turnInFlight = FALSE /\ turnRequestId = None
    /\ nextRequestId = FirstId /\ pending = {} /\ queue = <<>>
    /\ reader = "running" /\ closing = "open"
    /\ stream = [t \in Turns |-> "none"]
    /\ delivered = [t \in Turns |-> <<>>]
    /\ verdict = [t \in Turns |-> "none"]
    /\ stdin = <<>> /\ stdout = <<>> /\ child = "alive"
    /\ running = None /\ flagged = FALSE
    /\ emitted = [t \in Turns |-> <<>>]
    /\ answer = [t \in Turns |-> "none"]
    /\ cancels = 0 /\ noise = 0
    /\ late = [t \in Turns |-> FALSE]

-----------------------------------------------------------------------------
(* The host's calls. *)

\* StdioTransport.send: bytes for a dead child go nowhere.
Written(request) == IF child = "alive" THEN Append(stdin, request) ELSE stdin

ReadyForTurnUnguarded == active
ReadyForTurn == active /\ ~turnInFlight

\* "Drain any stale notifications buffered before this turn."
QueueUndrained == queue
QueueAtSend == <<>>

\* send_message up to the drain() inside _send_raw.
SendMessage(t) ==
    /\ ReadyForTurn
    /\ t = nextRequestId
    /\ nextRequestId' = nextRequestId + 1
    /\ turnInFlight' = TRUE
    /\ turnRequestId' = t
    /\ pending' = pending \cup {t}
    /\ queue' = QueueAtSend
    /\ stdin' = Written([kind |-> "prompt", turn |-> t])
    /\ stream' = [stream EXCEPT ![t] = "sending"]
    /\ late' = [late EXCEPT ![t] = reader # "running"]
    /\ UNCHANGED <<active, reader, delivered, verdict, closing, agentVars, cancels>>

Advance(t, from, to) ==
    /\ stream[t] = from
    /\ stream' = [stream EXCEPT ![t] = to]
    /\ UNCHANGED <<active, turnInFlight, turnRequestId, nextRequestId, pending, queue,
                   reader, delivered, verdict, closing, agentVars, stdin, cancels, late>>

SendCompletes(t) == child = "alive" /\ Advance(t, "sending", "created")

\* drain() raises ConnectionResetError on a dead child's pipe, or the host's
\* task is cancelled while it waits; the turn's marks stay as they are.
SendFails(t) == (child = "dead" \/ MayAbandon) /\ Advance(t, "sending", "failed")

StartStreamDraining(t) ==
    /\ stream[t] = "created"
    /\ stream' = [stream EXCEPT ![t] = "streaming"]
    /\ queue' = <<>>
    /\ UNCHANGED <<active, turnInFlight, turnRequestId, nextRequestId, pending,
                   reader, delivered, verdict, closing, agentVars, stdin, cancels, late>>

\* The host's first __anext__ enters the generator.
StartStream(t) == Advance(t, "created", "streaming")

\* A generator that never started runs no finally clause when it is dropped.
DropUnstarted(t) == MayAbandon /\ Advance(t, "created", "dropped")

Cancel ==
    /\ active /\ turnInFlight
    /\ cancels < MaxCancels
    /\ cancels' = cancels + 1
    /\ stdin' = Written([kind |-> "cancel"])
    /\ UNCHANGED <<sessionVars, agentVars, late>>

\* close() pops the session; _tear_down cancels the reader and awaits it.
CloseBegins ==
    /\ active
    /\ active' = FALSE
    /\ turnInFlight' = FALSE
    /\ reader' = IF reader = "running" THEN "cancelled" ELSE reader
    /\ closing' = "reader"
    /\ UNCHANGED <<turnRequestId, nextRequestId, pending, queue, stream, delivered,
                   verdict, agentVars, stdin, cancels, late>>

ReaderNotAwaited == TRUE
ReaderAwaited == reader = "ended"

CloseTransport ==
    /\ closing = "reader" /\ ReaderAwaited
    /\ closing' = "transport"
    /\ UNCHANGED <<active, turnInFlight, turnRequestId, nextRequestId, pending, queue,
                   reader, stream, delivered, verdict, agentVars, stdin, cancels, late>>

\* StdioTransport.close returns once the child is reaped (see StdioTransport).
CloseReturns ==
    /\ closing = "transport"
    /\ closing' = "closed"
    /\ child' = "dead"
    /\ UNCHANGED <<active, turnInFlight, turnRequestId, nextRequestId, pending, queue,
                   reader, stream, delivered, verdict, stdout, running, flagged,
                   emitted, answer, noise, stdin, cancels, late>>

-----------------------------------------------------------------------------
(* _stream: the asynchronous generator of turn t. *)

TakeReleasing(t, to) ==
    /\ stream[t] = "streaming" /\ queue # <<>>
    /\ queue' = Tail(queue)
    /\ stream' = [stream EXCEPT ![t] = to]
    /\ turnInFlight' = (turnInFlight /\ to # "ended")
    /\ UNCHANGED <<active, turnRequestId, nextRequestId, pending,
                   reader, closing, agentVars, stdin, cancels, late>>

\* The next item for t's stream, which moves the generator to state `to`.
Take(t, to) ==
    /\ stream[t] = "streaming" /\ queue # <<>>
    /\ queue' = Tail(queue)
    /\ stream' = [stream EXCEPT ![t] = to]
    /\ UNCHANGED <<active, turnInFlight, turnRequestId, nextRequestId, pending,
                   reader, closing, agentVars, stdin, cancels, late>>

IsOwnResponse(t, item) == item.kind = "response" /\ item.turn = t

TakeSentinel(t) ==
    /\ Take(t, "ended")
    /\ Head(queue).kind \in {"eof", "failure"}
    /\ verdict' = [verdict EXCEPT ![t] =
                     IF Head(queue).kind = "eof" THEN "stream_closed" ELSE "reader_failure"]
    /\ UNCHANGED delivered

TakeResponse(t) ==
    /\ Take(t, "ended")
    /\ IsOwnResponse(t, Head(queue))
    /\ verdict' = [verdict EXCEPT ![t] = Head(queue).stop]
    /\ UNCHANGED delivered

\* _translate gives no chunk for an update of a kind or shape it does not
\* know, nor for another request's response.
HasChunkAlways(item) == item.kind = "update"
HasChunk(item) == item.kind = "update" /\ item.shown

TakeUpdate(t) ==
    /\ Take(t, "streaming")
    /\ Head(queue).kind \notin {"eof", "failure"} /\ ~IsOwnResponse(t, Head(queue))
    /\ delivered' = IF HasChunk(Head(queue))
                    THEN [delivered EXCEPT ![t] = Append(@, Head(queue))]
                    ELSE delivered
    /\ UNCHANGED verdict

ReleaseKeepingMark(t) ==
    /\ stream' = [stream EXCEPT ![t] = "closed"]
    /\ UNCHANGED <<active, turnInFlight, turnRequestId, nextRequestId, pending, queue, reader,
                   delivered, verdict, closing, agentVars, stdin, cancels, late>>

\* The finally clause, and the end of the generator.
Release(t) ==
    /\ stream' = [stream EXCEPT ![t] = "closed"]
    /\ turnInFlight' = FALSE
    /\ turnRequestId' = None
    /\ UNCHANGED <<active, nextRequestId, pending, queue, reader, delivered, verdict,
                   closing, agentVars, stdin, cancels, late>>

\* The terminal chunk is a yield too: the finally clause only runs when the
\* host resumes the generator, closes it or drops it.
FinishStream(t) == stream[t] = "ended" /\ Release(t)
AbandonStream(t) == MayAbandon /\ stream[t] = "streaming" /\ Release(t)

-----------------------------------------------------------------------------
(* _reader_loop. *)

readerFrame == <<active, turnInFlight, turnRequestId, nextRequestId, stream, delivered,
                    verdict, closing, child, running, flagged, emitted, answer, noise,
                    stdin, cancels, late>>

\* The reader has read the next line.
ReadLine ==
    /\ reader = "running" /\ stdout # <<>>
    /\ stdout' = Tail(stdout)
    /\ UNCHANGED readerFrame

EndsTurnOffByOne(rid) == rid \in pending /\ rid = nextRequestId
EndsTurn(rid) == rid \in pending /\ rid = turnRequestId

ReadResponse ==
    /\ ReadLine
    /\ Head(stdout).kind = "response"
    /\ queue' = IF EndsTurn(Head(stdout).turn) THEN Append(queue, Head(stdout)) ELSE queue
    /\ pending' = pending \ {Head(stdout).turn}
    /\ UNCHANGED reader

Forwarded(line) == [kind |-> "update", turn |-> line.turn, n |-> line.n,
                    shown |-> line.shown, during |-> turnRequestId]

ReadUpdate ==
    /\ ReadLine
    /\ Head(stdout).kind = "update"
    /\ queue' = IF turnInFlight THEN Append(queue, Forwarded(Head(stdout))) ELSE queue
    /\ UNCHANGED <<reader, pending>>

\* receive() drops the line, or the loop ignores its method.
SkipNoise ==
    /\ ReadLine
    /\ Head(stdout).kind = "noise"
    /\ UNCHANGED <<reader, pending, queue>>

ReaderEndsSilently(itemsBefore) ==
    /\ reader' = "ended"
    /\ pending' = {}
    /\ queue' = queue \o itemsBefore

\* The finally clause: every pending future fails, the stream gets None.
ReaderEnds(itemsBefore) ==
    /\ reader' = "ended"
    /\ pending' = {}
    /\ queue' = Append(queue \o itemsBefore, Eof)

\* receive() raises on the line (UnicodeDecodeError, or readline's ValueError).
ReaderFails ==
    /\ ReadLine
    /\ Head(stdout).kind = "poison"
    /\ ReaderEnds(IF turnInFlight THEN <<Failure>> ELSE <<>>)

ReaderAtEof ==
    /\ reader = "running" /\ stdout = <<>> /\ child = "dead"
    /\ ReaderEnds(<<>>)
    /\ UNCHANGED <<readerFrame, stdout>>

ReaderCancelled ==
    /\ reader = "cancelled"
    /\ ReaderEnds(<<>>)
    /\ UNCHANGED <<readerFrame, stdout>>

ReaderStep == ReadResponse \/ ReadUpdate \/ SkipNoise \/ ReaderFails \/ ReaderAtEof
              \/ ReaderCancelled

-----------------------------------------------------------------------------
(* The kiro-cli child, modelled from how the adapter uses it and from the  *)
(* stub its tests run.                                                     *)

AgentAccepts ==
    /\ child = "alive" /\ running = None
    /\ stdin # <<>> /\ Head(stdin).kind = "prompt"
    /\ running' = Head(stdin).turn
    /\ stdin' = Tail(stdin)
    /\ UNCHANGED <<sessionVars, stdout, child, flagged, emitted, answer, noise, cancels, late>>

\* Between two prompts a cancel is ignored, or it hits the next one (the stub).
AgentSeesCancel ==
    /\ child = "alive"
    /\ stdin # <<>> /\ Head(stdin).kind = "cancel"
    /\ flagged' \in (IF running = None THEN {flagged, TRUE} ELSE {TRUE})
    /\ stdin' = Tail(stdin)
    /\ UNCHANGED <<sessionVars, stdout, child, running, emitted, answer, noise, cancels, late>>

AgentUpdates(shown) ==
    /\ child = "alive" /\ running # None
    /\ Len(emitted[running]) < MaxUpdates
    /\ emitted' = [emitted EXCEPT ![running] = Append(@, shown)]
    /\ stdout' = Append(stdout, [kind |-> "update", turn |-> running,
                                 n |-> Len(emitted[running]) + 1, shown |-> shown])
    /\ UNCHANGED <<sessionVars, child, running, flagged, answer, noise, stdin, cancels, late>>

AgentAnswers(stop) ==
    /\ child = "alive" /\ running # None
    /\ flagged <=> stop = "cancelled"
    /\ answer' = [answer EXCEPT ![running] = stop]
    /\ stdout' = Append(stdout, [kind |-> "response", turn |-> running, stop |-> stop])
    /\ running' = None
    /\ flagged' = FALSE
    /\ UNCHANGED <<sessionVars, child, emitted, noise, stdin, cancels, late>>

AgentNoise(kind) ==
    /\ child = "alive" /\ noise < MaxNoise
    /\ noise' = noise + 1
    /\ stdout' = Append(stdout, [kind |-> kind])
    /\ UNCHANGED <<sessionVars, child, running, flagged, emitted, answer, stdin, cancels, late>>

AgentExits ==
    /\ MayCrash /\ child = "alive"
    /\ child' = "dead"
    /\ UNCHANGED <<sessionVars, stdout, running, flagged, emitted, answer, noise,
                   stdin, cancels, late>>

-----------------------------------------------------------------------------
StreamStep(t) == TakeSentinel(t) \/ TakeResponse(t) \/ TakeUpdate(t)
CloseStep == CloseTransport \/ CloseReturns
HostStep(t) == \/ SendMessage(t) \/ SendCompletes(t) \/ SendFails(t)
               \/ StartStream(t) \/ DropUnstarted(t)
               \/ FinishStream(t) \/ AbandonStream(t)
AgentStep == \/ AgentAccepts \/ AgentSeesCancel \/ AgentExits
             \/ \E shown \in BOOLEAN : AgentUpdates(shown)
             \/ \E stop \in Stops : AgentAnswers(stop)
             \/ \E kind \in NoiseKinds : AgentNoise(kind)

Next == \/ \E t \in Turns : HostStep(t) \/ StreamStep(t)
        \/ Cancel \/ CloseBegins \/ CloseStep
        \/ ReaderStep
        \/ AgentStep

Spec == Init /\ [][Next]_vars

(***************************************************************************)
(* Fairness: the event loop runs every ready task, and the host iterates   *)
(* the streams it has not given up and awaits its own calls.  Nothing is   *)
(* assumed of the agent.                                                   *)
(***************************************************************************)
Fairness ==
    /\ WF_vars(ReaderStep)
    /\ WF_vars(CloseStep)
    /\ \A t \in Turns : /\ WF_vars(SendCompletes(t) \/ SendFails(t))
                        /\ WF_vars(StartStream(t))
                        /\ WF_vars(StreamStep(t))
                        /\ WF_vars(FinishStream(t))

FairSpec == Spec /\ Fairness

-----------------------------------------------------------------------------
(* Properties. *)

\* At any time at most one send_message is pending or stream unfinished, also
\* while the session is torn down: two streams would steal items from the one
\* queue.  (The turn_in_flight guard, and who resets the mark when.)
OneLiveStream == \A t, u \in Live : t = u

\* While the session is open, turn_in_flight and turn_request_id name the one
\* live stream: no finally clause of an earlier turn clears a later turn's mark.
MarkNamesLiveStream == active => \A t \in Live : turnInFlight /\ turnRequestId = t

\* The chunks of turn t's own updates, and the updates that deserve a chunk.
OwnUpdate(t) == [kind : {"update"}, turn : {t}, n : 1..MaxUpdates, shown : BOOLEAN,
                 during : Turns \cup {None}]
Numbers(updates) == [i \in DOMAIN updates |-> updates[i].n]
OwnDelivered(t) == Numbers(Only(delivered[t], OwnUpdate(t)))
Told(t) == [i \in DOMAIN emitted[t] |-> [n |-> i, shown |-> emitted[t][i]]]
ShownUpdates(t) == Numbers(Only(Told(t), [n : 1..MaxUpdates, shown : {TRUE}]))

\* A stream that ends with end_turn, or with its prompt's error, was ended by
\* its own prompt's response and has yielded each of the turn's updates exactly
\* once and in order, whatever late answers of abandoned turns were on the wire.
CompleteTurn ==
    \A t \in Turns : verdict[t] \in Stops =>
        verdict[t] = answer[t] /\ OwnDelivered(t) = ShownUpdates(t)

\* A stream never yields what the reader had queued before the turn began.
NoLeftovers == \A t \in Turns : \A i \in DOMAIN delivered[t] : delivered[t][i].during = t

\* A turn cut off at any moment has yielded the first of its own updates,
\* without a gap and in order; any other chunk of its stream is of an earlier
\* turn that the host gave up, so that its end was never told, and was still on
\* the wire when the turn began.
StreamedInOrder ==
    /\ NoLeftovers
    /\ \A t \in Turns :
          /\ \E n \in 0..Len(ShownUpdates(t)) : OwnDelivered(t) = SubSeq(ShownUpdates(t), 1, n)
          /\ \A i \in DOMAIN delivered[t] : LET u == delivered[t][i].turn IN
                u = t \/ (u < t /\ verdict[u] = "none")

\* Once the reader has stopped, a stream that waits on the queue still finds
\* something there, unless its turn began after the reader had stopped.
NoStrandedStream ==
    \A t \in Turns : (stream[t] \in {"created", "streaming"} /\ reader = "ended"
                       /\ queue = <<>>) => late[t]

\* An open session refuses the next message only for a live stream, or for a
\* send_message that failed or whose stream was dropped before it started.
WedgedOnlyByLostSend ==
    active /\ turnInFlight =>
        Live # {} \/ \E t \in Turns : stream[t] \in {"failed", "dropped"}

\* When close() returns nothing of the session is left running, and the only
\* request never answered or failed is one sent after the reader had stopped.
ClosedMeansDown ==
    closing = "closed" =>
        reader = "ended" /\ child = "dead" /\ \A t \in pending : late[t]

\* Whatever ends a turn, its stream ends: the agent's answer, the child's exit,
\* a line the reader cannot read, or close().
Decided(t) == answer[t] # "none" \/ child = "dead" \/ reader # "running"
StreamEnds == \A t \in Turns : (stream[t] = "streaming" /\ Decided(t) /\ ~late[t])
                                 ~> stream[t] # "streaming"

\* close() returns, and no stream is left hanging.
CloseEndsStreams ==
    ~active ~> closing = "closed" /\ \A t \in Live : late[t]

\* The chunks of a host that never gives a stream up: the updates that reached
\* its streams, and those the agent meant for them.
Chunks(t, numbers) == [i \in DOMAIN numbers |-> <<t, numbers[i]>>]
Contract == INSTANCE TurnContract WITH
    Turn <- Turns, Chunk <- Turns \X (1..MaxUpdates), Answer <- Stops,
    Error <- {"stream_closed", "reader_failure"}, None <- "none",
    open <- active, linkUp <- (reader = "running"),
    asked <- {t \in Turns : stream[t] # "none"}, current <- Live,
    said <- [t \in Turns |-> Chunks(t, ShownUpdates(t))],
    heard <- [t \in Turns |-> [i \in DOMAIN delivered[t] |->
                                  <<delivered[t][i].turn, delivered[t][i].n>>]]

\* For a host that iterates every stream to its end the adapter implements the
\* AgentBackend contract, also when the child exits, writes lines the adapter
\* cannot read, or the session is closed in the middle of a turn.
KeepsContract == Contract!Spec

(* What the code's own words promise and the code does not keep. *)

\* "The returned iterator should yield until an end_turn chunk (or an error
\* chunk) is emitted" (backend.py:56-58): no stream waits on a stopped reader.
EveryStreamEnds == \A t \in Turns : (stream[t] = "streaming" /\ reader = "ended")
                                      ~> stream[t] # "streaming"
=============================================================================
