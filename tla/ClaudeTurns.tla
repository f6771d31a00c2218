----------------------------- MODULE ClaudeTurns -----------------------------
(***************************************************************************)
(* The turns of one claude_code session (adapters/claude_code.py).  Every  *)
(* turn has a `claude --print` child and a StdioTransport of its own; the  *)
(* session remembers one of them in state.transport, which doubles as the  *)
(* mark of a turn in flight.  Transports are named by their turn.          *)
(***************************************************************************)
EXTENDS Naturals, Sequences, FiniteSets

CONSTANTS
    MaxTurns,    \* bound: messages the host sends
    MaxChunks,   \* bound: lines between a child's init line and its result
    MaxCancels,  \* bound: cancel() calls on a running turn
    Concurrent,  \* may the host call while its send_message is still pending?
    MayAbandon   \* may the host give up a stream, a send_message or a finally?

ASSUME ClaudeAssumption ==
    /\ MaxTurns \in Nat /\ MaxChunks \in Nat /\ MaxCancels \in Nat
    /\ Concurrent \in BOOLEAN /\ MayAbandon \in BOOLEAN

Turns == 1..MaxTurns
None == 0
\* What _translate tells apart.
Lines == {"init", "chunk", "result", "error_result"}

VARIABLES
    registered,  \* the session is in _sessions and active
    transport,   \* state.transport
    cliSession,  \* state.cli_session_id: the turn whose init line gave it
    next,        \* the next message
    phase,       \* per turn: how far send_message, its stream and finally got
    resume,      \* per turn: the --resume id in its argv
    closeOf,     \* per turn: the transport its tear-down closes
    verdict,     \* per turn: its terminal chunk
    closer,      \* close(): "open", "closing", "closed"
    closerOf,    \* the transport close() closes
    cancelling   \* the transports cancel() is taking down
sessionVars == <<registered, transport, cliSession, next, closer, closerOf>>
turnVars == <<phase, resume, closeOf, verdict>>

VARIABLES
    proc,        \* per turn: its child and transport
    stdout,      \* per turn: lines not read yet
    wrote,       \* per turn: lines written
    cancels
childVars == <<proc, stdout, wrote>>
vars == <<sessionVars, turnVars, childVars, cancelling, cancels>>

\* A send_message under way, or a stream that is not finished.
InFlight == {t \in Turns : phase[t] \in {"spawning", "sending", "created", "streaming", "ended"}}
Sending == {t \in Turns : phase[t] \in {"spawning", "sending"}}

TypeOK ==
    /\ registered \in BOOLEAN
    /\ {transport, cliSession, closerOf} \subseteq Turns \cup {None}
    /\ next \in 1..(MaxTurns + 1)
    /\ phase \in [Turns -> {"none", "spawning", "sending", "created", "streaming", "ended",
                            "closing", "done", "failed", "dropped", "aborted"}]
    /\ resume \in [Turns -> Turns \cup {None}] /\ closeOf \in [Turns -> Turns \cup {None}]
    /\ verdict \in [Turns -> {"none", "end_turn", "error"}]
    /\ closer \in {"open", "closing", "closed"} /\ cancelling \subseteq Turns
    /\ proc \in [Turns -> {"none", "alive", "dead", "closed"}]
    /\ stdout \in [Turns -> Seq(Lines)] /\ wrote \in [Turns -> 0..(MaxChunks + 2)]
    /\ cancels \in 0..MaxCancels

Init ==
    /\ registered = TRUE /\ transport = None /\ cliSession = None /\ next = 1
    /\ phase = [t \in Turns |-> "none"] /\ resume = [t \in Turns |-> None]
    /\ closeOf = [t \in Turns |-> None] /\ verdict = [t \in Turns |-> "none"]
    /\ closer = "open" /\ closerOf = None /\ cancelling = {}
    /\ proc = [t \in Turns |-> "none"] /\ stdout = [t \in Turns |-> <<>>]
    /\ wrote = [t \in Turns |-> 0] /\ cancels = 0

-----------------------------------------------------------------------------
(* send_message. *)

Goto(t, p) == phase' = [phase EXCEPT ![t] = p]

\* A host that is not Concurrent lets its send_message return first.
MayCall == Concurrent \/ Sending = {}

\* The transport is the only sign of a turn in flight.
ReadyForTurn == registered /\ transport = None

\* Up to the await of transport.start().
SendBegins(t) ==
    /\ MayCall /\ t = next
    /\ ReadyForTurn
    /\ next' = next + 1
    /\ Goto(t, "spawning")
    /\ resume' = [resume EXCEPT ![t] = cliSession]
    /\ UNCHANGED <<registered, transport, cliSession, closer, closerOf, closeOf, verdict,
                   childVars, cancelling, cancels>>

\* start() returned; the user message is written.
Spawned(t) ==
    /\ phase[t] = "spawning"
    /\ Goto(t, "sending")
    /\ proc' = [proc EXCEPT ![t] = "alive"]
    /\ transport' = t
    /\ UNCHANGED <<registered, cliSession, next, closer, closerOf, resume, closeOf, verdict,
                   stdout, wrote, cancelling, cancels>>

Advance(t, from, to) ==
    /\ phase[t] = from
    /\ Goto(t, to)
    /\ UNCHANGED <<sessionVars, resume, closeOf, verdict, childVars, cancelling, cancels>>

SpawnFails(t) == Advance(t, "spawning", "failed")
Sent(t) == proc[t] = "alive" /\ Advance(t, "sending", "created")
\* A cancelled send_message tears nothing down.
SendCancelled(t) == /\ MayAbandon
                    /\ Advance(t, "spawning", "failed") \/ Advance(t, "sending", "failed")
\* Dropping a generator that never started tears nothing down either.
DropUnstarted(t) == MayAbandon /\ Advance(t, "created", "dropped")

\* _tear_down_transport up to its await: it closes the session's transport,
\* whichever turn that belongs to by now.
TearDown(t) ==
    /\ Goto(t, "closing")
    /\ closeOf' = [closeOf EXCEPT ![t] = transport]
    /\ transport' = None
    /\ UNCHANGED <<registered, cliSession, next, closer, closerOf, resume, childVars,
                   cancelling, cancels>>

SendFails(t) == phase[t] = "sending" /\ proc[t] # "alive" /\ TearDown(t) /\ UNCHANGED verdict

-----------------------------------------------------------------------------
(* _stream. *)

StartStream(t) ==
    IF proc[t] = "closed"   \* receive() raises TransportError
    THEN phase[t] = "created" /\ TearDown(t) /\ UNCHANGED verdict
    ELSE Advance(t, "created", "streaming")

CapturedFromChunk(t, line) == IF line = "chunk" /\ registered THEN t ELSE cliSession
\* _translate captures the CLI's session id while the session is registered.
Captured(t, line) == IF line = "init" /\ registered THEN t ELSE cliSession

VerdictOf(line) == IF line = "result" THEN "end_turn" ELSE "error"

ReadLine(t) ==
    /\ phase[t] = "streaming" /\ stdout[t] # <<>>
    /\ stdout' = [stdout EXCEPT ![t] = Tail(@)]
    /\ LET line == Head(stdout[t])
       IN /\ cliSession' = Captured(t, line)
          /\ IF line \in {"result", "error_result"}
             THEN Goto(t, "ended") /\ verdict' = [verdict EXCEPT ![t] = VerdictOf(line)]
             ELSE UNCHANGED <<phase, verdict>>
    /\ UNCHANGED <<registered, transport, next, closer, closerOf, resume, closeOf,
                   proc, wrote, cancelling, cancels>>

\* "Stream ended without a result line".
ReadEof(t) ==
    /\ phase[t] = "streaming" /\ stdout[t] = <<>> /\ proc[t] # "alive"
    /\ Goto(t, "ended")
    /\ verdict' = [verdict EXCEPT ![t] = "error"]
    /\ UNCHANGED <<sessionVars, resume, closeOf, childVars, cancelling, cancels>>

FinishStream(t) == phase[t] = "ended" /\ TearDown(t) /\ UNCHANGED verdict
AbandonStream(t) == MayAbandon /\ phase[t] = "streaming" /\ TearDown(t) /\ UNCHANGED verdict

\* transport.close() returned (see StdioTransport: the child is reaped).
Closed(target) == [t \in Turns |-> IF t = target THEN "closed" ELSE proc[t]]

TearDownDone(t) ==
    /\ phase[t] = "closing"
    /\ Goto(t, "done")
    /\ proc' = Closed(closeOf[t])
    /\ UNCHANGED <<sessionVars, resume, closeOf, verdict, stdout, wrote, cancelling, cancels>>

\* The host's task is cancelled while the finally clause awaits close().
TearDownAborted(t) == MayAbandon /\ Advance(t, "closing", "aborted")

-----------------------------------------------------------------------------
(* cancel() and close(). *)

AfterCancelForgetting == None
AfterCancel == transport

Cancel ==
    /\ registered /\ transport # None
    /\ cancels < MaxCancels
    /\ cancels' = cancels + 1
    /\ cancelling' = cancelling \cup {transport}
    /\ transport' = AfterCancel
    /\ UNCHANGED <<registered, cliSession, next, closer, closerOf, turnVars, childVars>>

InterruptedOnly(t) == proc[t]
\* StdioTransport.cancel() ends with the child's death.
Interrupted(t) == IF proc[t] = "alive" THEN "dead" ELSE proc[t]

CancelDone(t) ==
    /\ t \in cancelling
    /\ cancelling' = cancelling \ {t}
    /\ proc' = [proc EXCEPT ![t] = Interrupted(t)]
    /\ UNCHANGED <<sessionVars, turnVars, stdout, wrote, cancels>>

CloseBegins ==
    /\ MayCall /\ registered
    /\ registered' = FALSE
    /\ closer' = IF transport = None THEN "closed" ELSE "closing"
    /\ closerOf' = transport
    /\ UNCHANGED <<transport, cliSession, next, turnVars, childVars, cancelling, cancels>>

CloseEndsEarly == UNCHANGED proc
CloseReaps == proc' = Closed(closerOf)

CloseEnds ==
    /\ closer = "closing"
    /\ closer' = "closed"
    /\ CloseReaps
    /\ transport' = None
    /\ UNCHANGED <<registered, cliSession, next, closerOf, turnVars, stdout, wrote,
                   cancelling, cancels>>

-----------------------------------------------------------------------------
(* The claude child: an init line, some more, a result. *)

Writes(t, line) ==
    /\ proc[t] = "alive"
    /\ wrote[t] = 0 <=> line = "init"
    /\ line = "chunk" => wrote[t] <= MaxChunks
    /\ wrote' = [wrote EXCEPT ![t] = IF line \in {"init", "chunk"} THEN @ + 1 ELSE MaxChunks + 2]
    /\ wrote[t] < MaxChunks + 2
    /\ stdout' = [stdout EXCEPT ![t] = Append(@, line)]
    /\ UNCHANGED <<sessionVars, turnVars, proc, cancelling, cancels>>

Exits(t) ==
    /\ proc[t] = "alive"
    /\ proc' = [proc EXCEPT ![t] = "dead"]
    /\ UNCHANGED <<sessionVars, turnVars, stdout, wrote, cancelling, cancels>>

StreamStep(t) == StartStream(t) \/ ReadLine(t) \/ ReadEof(t) \/ FinishStream(t) \/ TearDownDone(t)
Next ==
    \/ \E t \in Turns :
         \/ SendBegins(t) \/ Spawned(t) \/ SpawnFails(t) \/ Sent(t) \/ SendFails(t)
         \/ SendCancelled(t) \/ DropUnstarted(t)
         \/ StreamStep(t) \/ AbandonStream(t) \/ TearDownAborted(t)
         \/ CancelDone(t) \/ Exits(t)
         \/ \E line \in Lines : Writes(t, line)
    \/ Cancel \/ CloseBegins \/ CloseEnds

\* The event loop runs ready tasks, the host iterates its streams, and the
\* ladder of StdioTransport ends (its property CallsEnd).
Fairness ==
    /\ WF_vars(CloseEnds)
    /\ \A t \in Turns : /\ WF_vars(StreamStep(t)) /\ WF_vars(CancelDone(t))
                        /\ WF_vars(Sent(t) \/ SendFails(t))

Spec == Init /\ [][Next]_vars
FairSpec == Spec /\ Fairness

-----------------------------------------------------------------------------
(* Properties. *)

\* For a host that awaits its calls: no turn's finally clause closes another
\* turn's transport.
TearsDownItsOwn == \A t \in Turns : closeOf[t] \in {t, None}

\* For such a host, every live child is the session's, or someone is closing
\* it; only a tear-down whose task was cancelled can lose one.  After close()
\* nothing else is left.
ProcessesAccountedFor ==
    \A t \in Turns : proc[t] = "alive" =>
        \/ transport = t /\ closer # "closed"
        \/ \E u \in Turns : closeOf[u] = t /\ phase[u] \in {"closing", "aborted"}

\* A turn resumes the CLI session of the latest turn that ended normally
\* before it began, so the conversation never forks.
ResumesLatest ==
    \A t, u \in Turns :
        u < t /\ phase[t] # "none" /\ verdict[u] = "end_turn" => resume[t] >= u

\* cancel() ends the stream it was called for, also when the turn is given up,
\* torn down or closed meanwhile.
CancelEndsTurn == \A t \in Turns : t \in cancelling /\ phase[t] = "streaming"
                                   ~> phase[t] # "streaming"

\* For a host that awaits its calls: close() returns, and the stream it cut off
\* ends, whether it was iterated yet or not.
CloseEndsTurns == ~registered ~> closer = "closed" /\ InFlight = {}

\* "already has a turn in flight; await the previous send_message stream"
\* (lines 264-268): two turns are never in flight together, also when one is
\* cancelled, torn down or given up.  Of two concurrent senders it is not true.
OneTurnInFlight == Cardinality(InFlight) <= 1
===============================================================================
