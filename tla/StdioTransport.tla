---------------------------- MODULE StdioTransport ----------------------------
(***************************************************************************)
(* transport/stdio.py: one spawned child, the tasks that cancel() or       *)
(* close() it, and the task that iterates receive().                       *)
(*                                                                         *)
(* A cancelling or closing task climbs a ladder: SIGINT, a grace period,   *)
(* SIGTERM, a grace period, SIGKILL.  Several tasks may be on the ladder   *)
(* at once (a host's cancel(), the session's close(), a stream's finally   *)
(* clause), each with its own grace timer, and any of them can be          *)
(* cancelled by its caller while it waits.                                 *)
(***************************************************************************)
EXTENDS Naturals, Sequences, FiniteSets

CONSTANTS
    Tasks,      \* the tasks that call cancel() and close(), one call each
    MaxLines,   \* bound: lines the child writes to stdout
    LineKinds   \* the lines it can write

ASSUME TransportAssumption ==
    /\ IsFiniteSet(Tasks) /\ MaxLines \in Nat
    /\ LineKinds \subseteq {"object", "blank", "malformed", "nonobject",
                            "undecodable", "oversize"}

Signals == {"SIGINT", "SIGTERM", "SIGKILL"}

VARIABLES
    handle,     \* self._proc: "set" or "none"
    child,      \* "alive"; "zombie": dead, returncode still None; "reaped"
    ignores,    \* the signals this child does not die of
    received,   \* the signals sent to it
    stdinOpen,  \* is the child's stdin open?
    stderrTask, \* self._stderr_task: "running", "cancelled", "ended"
    call,       \* per task: the method it called
    step,       \* per task: where it waits
    stdout,     \* lines written and not yet read
    written,    \* how many lines the child wrote
    receiver    \* the task in receive(): "reading", "ended", "crashed"

procVars == <<handle, child, ignores, received, stdinOpen, stderrTask>>
taskVars == <<call, step>>
lineVars == <<stdout, written, receiver>>
vars == <<procVars, taskVars, lineVars>>

Climbing == {"interrupted", "terminated", "killed"}   \* waits after a signal

TypeOK ==
    /\ handle \in {"set", "none"}
    /\ child \in {"alive", "zombie", "reaped"}
    /\ ignores \subseteq {"SIGINT", "SIGTERM"} /\ received \subseteq Signals
    /\ stdinOpen \in BOOLEAN
    /\ stderrTask \in {"running", "cancelled", "ended"}
    /\ call \in [Tasks -> {"none", "cancel", "close"}]
    /\ step \in [Tasks -> Climbing \cup {"idle", "stderr", "returned", "aborted"}]
    /\ stdout \in Seq(LineKinds) /\ written \in 0..MaxLines
    /\ receiver \in {"reading", "ended", "crashed"}

\* start() has returned.
Init ==
    /\ handle = "set" /\ child = "alive"
    /\ ignores \in SUBSET {"SIGINT", "SIGTERM"} /\ received = {}
    /\ stdinOpen = TRUE /\ stderrTask = "running"
    /\ call = [t \in Tasks |-> "none"] /\ step = [t \in Tasks |-> "idle"]
    /\ stdout = <<>> /\ written = 0 /\ receiver = "reading"

-----------------------------------------------------------------------------
(* cancel() and close(). *)

Goto(t, s) == step' = [step EXCEPT ![t] = s]

\* asyncio's part: its transport drops the process when it is reaped, and
\* signalling it raises ProcessLookupError from then on.
ProcessLookupFails == child = "reaped"

Send(signal) ==
    /\ received' = received \cup {signal}
    /\ UNCHANGED <<handle, child, ignores, stdinOpen, stderrTask>>

\* close() past the ladder: cancel the stderr task, then await it.
ToStderr(t) ==
    /\ Goto(t, "stderr")
    /\ stderrTask' = IF stderrTask = "running" THEN "cancelled" ELSE stderrTask

\* cancel() is over: its caller goes on, or close() goes on to the stderr task.
LeaveLadder(t) ==
    /\ IF call[t] = "close" THEN ToStderr(t) ELSE Goto(t, "returned") /\ UNCHANGED stderrTask
    /\ UNCHANGED <<handle, child, ignores, received, stdinOpen>>

Interrupt(t) == Goto(t, "interrupted") /\ received' = received \cup {"SIGINT"}

CallCancel(t) ==
    /\ step[t] = "idle"
    /\ call' = [call EXCEPT ![t] = "cancel"]
    /\ IF handle = "none" \/ child = "reaped"
       THEN Goto(t, "returned") /\ UNCHANGED received
       ELSE Interrupt(t)
    /\ UNCHANGED <<handle, child, ignores, stdinOpen, stderrTask, lineVars>>

CallClose(t) ==
    /\ step[t] = "idle"
    /\ call' = [call EXCEPT ![t] = "close"]
    /\ \/ /\ handle = "none"
          /\ Goto(t, "returned")
          /\ UNCHANGED <<received, stdinOpen, stderrTask>>
       \/ /\ handle = "set" /\ child = "reaped"
          /\ ToStderr(t) /\ stdinOpen' = FALSE
          /\ UNCHANGED received
       \/ /\ handle = "set" /\ child # "reaped"
          /\ Interrupt(t) /\ stdinOpen' = FALSE
          /\ UNCHANGED stderrTask
    /\ UNCHANGED <<handle, child, ignores, lineVars>>

\* proc.wait() returns in time.
SeesExit(t) ==
    /\ step[t] \in Climbing /\ child = "reaped"
    /\ LeaveLadder(t)
    /\ UNCHANGED <<call, lineVars>>

\* wait_for raises TimeoutError; the child may have been reaped by then.
GraceExpires(t, from, signal, to) ==
    /\ step[t] = from
    /\ IF ProcessLookupFails THEN LeaveLadder(t) ELSE Goto(t, to) /\ Send(signal)
    /\ UNCHANGED <<call, lineVars>>

ToSigkillNever(t) == FALSE
ToSigtermKilling(t) == GraceExpires(t, "interrupted", "SIGKILL", "killed")
ToSigterm(t) == GraceExpires(t, "interrupted", "SIGTERM", "terminated")
ToSigkillUnawaited(t) == GraceExpires(t, "terminated", "SIGKILL", "returned")
ToSigkill(t) == GraceExpires(t, "terminated", "SIGKILL", "killed")

\* The caller of cancel() or close() is cancelled while it waits for the child.
\* (In close()'s last wait the CancelledError is swallowed.)
CallerCancelled(t) ==
    /\ step[t] \in Climbing
    /\ Goto(t, "aborted")
    /\ UNCHANGED <<procVars, call, lineVars>>

CloseDoneEarly(t) == step[t] = "stderr"
CloseDone(t) == step[t] = "stderr" /\ stderrTask = "ended"

CloseReturns(t) ==
    /\ CloseDone(t)
    /\ handle' = "none"
    /\ Goto(t, "returned")
    /\ UNCHANGED <<child, ignores, received, stdinOpen, stderrTask, call, lineVars>>

\* _drain_stderr: the task ends when cancelled, or at the child's EOF.
StderrTaskEnds ==
    /\ stderrTask = "cancelled" \/ (stderrTask = "running" /\ child # "alive")
    /\ stderrTask' = "ended"
    /\ UNCHANGED <<handle, child, ignores, received, stdinOpen, taskVars, lineVars>>

-----------------------------------------------------------------------------
(* receive(). *)

Crashing == {"undecodable", "oversize"}
EndsLoop(line) == line \in Crashing

ReadLine ==
    /\ receiver = "reading" /\ stdout # <<>>
    /\ stdout' = Tail(stdout)
    /\ receiver' = IF EndsLoop(Head(stdout)) THEN "crashed" ELSE "reading"
    /\ UNCHANGED <<procVars, taskVars, written>>

AtEofWhileOpen == stdout = <<>> /\ child # "alive" /\ handle = "set"
AtEof == stdout = <<>> /\ child # "alive"

ReadEof ==
    /\ receiver = "reading" /\ AtEof
    /\ receiver' = "ended"
    /\ UNCHANGED <<procVars, taskVars, stdout, written>>

-----------------------------------------------------------------------------
(* The child and the event loop that reaps it. *)

ChildWrites(line) ==
    /\ child = "alive" /\ written < MaxLines
    /\ written' = written + 1
    /\ stdout' = Append(stdout, line)
    /\ UNCHANGED <<procVars, taskVars, receiver>>

Dies == /\ child = "alive"
        /\ child' = "zombie"
        /\ UNCHANGED <<handle, ignores, received, stdinOpen, stderrTask, taskVars, lineVars>>

ChildKilled == received \ ignores # {} /\ Dies
ChildExits == Dies      \* on its own, or because its stdin was closed

Reap ==
    /\ child = "zombie"
    /\ child' = "reaped"
    /\ UNCHANGED <<handle, ignores, received, stdinOpen, stderrTask, taskVars, lineVars>>

TaskStep(t) == SeesExit(t) \/ ToSigterm(t) \/ ToSigkill(t) \/ CloseReturns(t)

Next ==
    \/ \E t \in Tasks : CallCancel(t) \/ CallClose(t) \/ TaskStep(t) \/ CallerCancelled(t)
    \/ StderrTaskEnds \/ ReadLine \/ ReadEof \/ Reap
    \/ ChildKilled \/ ChildExits
    \/ \E line \in LineKinds : ChildWrites(line)

\* The event loop runs ready tasks and timers, and a fatal signal is fatal.
Fairness ==
    /\ \A t \in Tasks : WF_vars(TaskStep(t))
    /\ WF_vars(StderrTaskEnds) /\ WF_vars(ReadLine) /\ WF_vars(ReadEof)
    /\ WF_vars(Reap) /\ WF_vars(ChildKilled)

Spec == Init /\ [][Next]_vars
FairSpec == Spec /\ Fairness

-----------------------------------------------------------------------------
(* Properties. *)

\* A task that returned from close() left no child behind and no stderr task,
\* however many others were cancelling, closing or interrupted meanwhile.
CloseMeansGone ==
    \A t \in Tasks : call[t] = "close" /\ step[t] = "returned" =>
        child = "reaped" /\ stderrTask = "ended" /\ ~stdinOpen /\ handle = "none"

\* A task that returned from cancel() leaves no child running, wherever on the
\* ladder it noticed the end: an exit in time, one that raced its timer, a
\* signal of another task, a handle dropped by close() (lines 123-143).
CancelMeansGone ==
    \A t \in Tasks : call[t] = "cancel" /\ step[t] = "returned" => child = "reaped"

\* SIGKILL is only sent when some task let both grace periods pass, and then
\* the child had been asked with SIGINT and with SIGTERM first.
PoliteBeforeKill ==
    /\ "SIGTERM" \in received => "SIGINT" \in received
    /\ "SIGKILL" \in received => "SIGTERM" \in received

\* Every cancel() and close() ends, even when the child ignores both polite
\* signals, unless its own caller gives it up.
CallsEnd == \A t \in Tasks : step[t] # "idle" ~> step[t] \in {"returned", "aborted"}

\* After close() the task in receive() is not left waiting.
ReceiveEnds == handle = "none" ~> receiver # "reading"
===============================================================================
