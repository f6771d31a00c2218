------------------------- MODULE StdioTransportProofs -------------------------
(***************************************************************************)
(* Proofs about StdioTransport, for every set of tasks.                    *)
(***************************************************************************)
EXTENDS StdioTransport, TLAPS

\* A signalled child: what each step of the ladder knows of the rungs below.
Rungs ==
    \A t \in Tasks :
        /\ step[t] \in Climbing => "SIGINT" \in received
        /\ step[t] \in {"terminated", "killed"} => "SIGTERM" \in received

\* A task past the ladder has seen the child reaped; the handle is only
\* dropped past the stderr task.
Gone ==
    /\ handle = "none" => child = "reaped" /\ stderrTask = "ended" /\ ~stdinOpen
    /\ \A t \in Tasks :
        /\ step[t] \in Climbing \cup {"stderr", "returned", "aborted"} => call[t] # "none"
        /\ call[t] = "close" /\ step[t] # "idle" => ~stdinOpen
        /\ step[t] = "stderr" => child = "reaped" /\ call[t] = "close"
        /\ call[t] = "close" /\ step[t] = "returned" => handle = "none"
        /\ step[t] = "returned" => child = "reaped"

IInv == TypeOK /\ Rungs /\ PoliteBeforeKill /\ Gone

USE DEF Climbing

LEMMA InitInv == Init => IInv
  <1> SUFFICES ASSUME Init PROVE IInv OBVIOUS
  <1>1. stdout \in Seq(LineKinds) /\ written \in 0..MaxLines
    BY TransportAssumption DEF Init
  <1>2. TypeOK BY <1>1 DEF Init, TypeOK, Signals
  <1> QED BY <1>2 DEF Init, IInv, Rungs, PoliteBeforeKill, Gone

\* The two ways a task leaves cancel(): back to its caller or on in close().
LEMMA LeaveInv ==
    ASSUME IInv, NEW t \in Tasks, step[t] \in Climbing, child = "reaped",
           LeaveLadder(t), UNCHANGED <<call, lineVars>>
    PROVE  IInv'
  <1>1. \A u \in Tasks \ {t} : step'[u] = step[u]
    BY DEF IInv, TypeOK, LeaveLadder, ToStderr, Goto
  <1>2. step'[t] = IF call[t] = "close" THEN "stderr" ELSE "returned"
    BY DEF IInv, TypeOK, LeaveLadder, ToStderr, Goto
  <1>3. stderrTask' \in {"running", "cancelled", "ended"} /\ (stderrTask = "ended" => stderrTask' = "ended")
    BY DEF IInv, TypeOK, LeaveLadder, ToStderr
  <1>4. UNCHANGED <<handle, child, ignores, received, stdinOpen, call, stdout, written, receiver>>
    BY DEF LeaveLadder, lineVars
  <1>5. step' \in [Tasks -> Climbing \cup {"idle", "stderr", "returned", "aborted"}]
    BY <1>2 DEF IInv, TypeOK, LeaveLadder, ToStderr, Goto
  <1>6. TypeOK' BY <1>3, <1>4, <1>5 DEF IInv, TypeOK
  <1>7. Rungs' /\ PoliteBeforeKill' BY <1>1, <1>2, <1>4 DEF IInv, Rungs, PoliteBeforeKill
  <1>8. Gone'  BY <1>1, <1>2, <1>3, <1>4 DEF IInv, Gone
  <1> QED BY <1>6, <1>7, <1>8 DEF IInv

LEMMA CallInv ==
    ASSUME IInv, NEW t \in Tasks, CallCancel(t) \/ CallClose(t) PROVE IInv'
  <1> USE DEF IInv, TypeOK, Rungs, PoliteBeforeKill, Gone, Goto, Signals
  <1>1. CASE CallCancel(t) BY <1>1 DEF CallCancel, Interrupt, lineVars
  <1>2. CASE CallClose(t)
    <2>1. /\ step[t] = "idle" /\ call' = [call EXCEPT ![t] = "close"]
          /\ UNCHANGED <<handle, child, ignores, stdout, written, receiver>>
      BY <1>2 DEF CallClose, lineVars
    <2>2. CASE handle = "none" /\ Goto(t, "returned") /\ UNCHANGED <<received, stdinOpen, stderrTask>>
      BY <2>1, <2>2
    <2>3. CASE child = "reaped" /\ ToStderr(t) /\ stdinOpen' = FALSE /\ UNCHANGED received
      BY <2>1, <2>3 DEF ToStderr
    <2>4. CASE /\ handle = "set" /\ child # "reaped"
               /\ Interrupt(t) /\ stdinOpen' = FALSE /\ UNCHANGED stderrTask
      BY <2>1, <2>4 DEF Interrupt
    <2> QED BY <1>2, <2>2, <2>3, <2>4 DEF CallClose
  <1> QED BY <1>1, <1>2

LEMMA TaskInv ==
    ASSUME IInv, NEW t \in Tasks, TaskStep(t) \/ CallerCancelled(t) PROVE IInv'
  <1>1. CASE SeesExit(t) BY <1>1, LeaveInv DEF SeesExit
  <1>2. CASE ToSigterm(t) \/ ToSigkill(t)
    <2>1. CASE child = "reaped"
      BY <1>2, <2>1, LeaveInv DEF ToSigterm, ToSigkill, GraceExpires, ProcessLookupFails
    <2>2. CASE child # "reaped"
      BY <1>2, <2>2 DEF ToSigterm, ToSigkill, GraceExpires, ProcessLookupFails, Goto, Send,
         IInv, TypeOK, Rungs, PoliteBeforeKill, Gone, Signals, lineVars
    <2> QED BY <2>1, <2>2
  <1>3. CASE CloseReturns(t)
    BY <1>3 DEF CloseReturns, CloseDone, Goto, IInv, TypeOK, Rungs, PoliteBeforeKill, Gone,
       lineVars
  <1>4. CASE CallerCancelled(t)
    BY <1>4 DEF CallerCancelled, Goto, IInv, TypeOK, Rungs, PoliteBeforeKill, Gone,
       procVars, lineVars
  <1> QED BY <1>1, <1>2, <1>3, <1>4 DEF TaskStep

LEMMA OthersInv ==
    ASSUME IInv,
           \/ StderrTaskEnds \/ ReadLine \/ ReadEof \/ Reap \/ ChildKilled \/ ChildExits
           \/ \E line \in LineKinds : ChildWrites(line)
           \/ UNCHANGED vars
    PROVE  IInv'
  <1>1. UNCHANGED <<handle, ignores, received, stdinOpen, call, step>>
    BY DEF StderrTaskEnds, ReadLine, ReadEof, Reap, ChildKilled, ChildExits, Dies, ChildWrites,
       vars, procVars, taskVars
  <1>2. child' \in {"alive", "zombie", "reaped"} /\ (child = "reaped" => child' = "reaped")
    BY DEF StderrTaskEnds, ReadLine, ReadEof, Reap, ChildKilled, ChildExits, Dies, ChildWrites,
       vars, procVars, IInv, TypeOK
  <1>3. stderrTask' \in {"running", "cancelled", "ended"} /\ (stderrTask = "ended" => stderrTask' = "ended")
    BY DEF StderrTaskEnds, ReadLine, ReadEof, Reap, ChildKilled, ChildExits, Dies, ChildWrites,
       vars, procVars, IInv, TypeOK
  <1>4. /\ stdout' \in Seq(LineKinds) /\ written' \in 0..MaxLines
        /\ receiver' \in {"reading", "ended", "crashed"}
    <2>1. CASE UNCHANGED lineVars BY <2>1 DEF lineVars, IInv, TypeOK
    <2>2. CASE ReadLine
      <3>1. Tail(stdout) \in Seq(LineKinds) BY <2>2 DEF ReadLine, IInv, TypeOK
      <3> QED BY <2>2, <3>1 DEF ReadLine, IInv, TypeOK
    <2>4. CASE ReadEof BY <2>4 DEF ReadEof, IInv, TypeOK
    <2>3. ASSUME NEW line \in LineKinds, ChildWrites(line) PROVE <1>4
      BY <2>3, TransportAssumption DEF ChildWrites, IInv, TypeOK
    <2> QED
      BY <2>1, <2>2, <2>3, <2>4 DEF StderrTaskEnds, Reap, ChildKilled, ChildExits, Dies, vars
  <1>5. TypeOK' BY <1>1, <1>2, <1>3, <1>4 DEF IInv, TypeOK
  <1>6. Rungs' /\ PoliteBeforeKill' BY <1>1 DEF IInv, Rungs, PoliteBeforeKill
  <1>7. Gone' BY <1>1, <1>2, <1>3 DEF IInv, Gone
  <1> QED BY <1>5, <1>6, <1>7 DEF IInv

LEMMA NextInv == ASSUME IInv, [Next]_vars PROVE IInv'
  BY CallInv, TaskInv, OthersInv DEF Next

THEOREM Invariance == Spec => []IInv
  BY InitInv, NextInv, PTL DEF Spec

(***************************************************************************)
(* Every variable keeps its type.                                          *)
(***************************************************************************)
THEOREM TypeCorrect == Spec => []TypeOK
<1>1. IInv => TypeOK  BY DEF IInv
<1> QED  BY <1>1, Invariance, PTL

(***************************************************************************)
(* A close() that returned left no child and no stderr task, whoever else  *)
(* was cancelling or closing the same transport.                           *)
(***************************************************************************)
THEOREM CloseReaps == Spec => []CloseMeansGone
  <1>1. IInv => CloseMeansGone BY DEF IInv, Gone, CloseMeansGone
  <1> QED BY <1>1, Invariance, PTL

(***************************************************************************)
(* No child is terminated before it was interrupted, or killed before it   *)
(* was terminated.                                                         *)
(***************************************************************************)
THEOREM LadderInOrder == Spec => []PoliteBeforeKill
  <1>1. IInv => PoliteBeforeKill BY DEF IInv
  <1> QED BY <1>1, Invariance, PTL

(***************************************************************************)
(* A cancel() that returned left no child running, whichever rung its task *)
(* was on when the child ended and whoever ended it.                       *)
(***************************************************************************)
THEOREM CancelReaps == Spec => []CancelMeansGone
  <1>1. IInv => CancelMeansGone BY DEF IInv, Gone, CancelMeansGone
  <1> QED BY <1>1, Invariance, PTL
===============================================================================
