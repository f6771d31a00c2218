--------------------------- MODULE ClaudeTurnsProofs ---------------------------
(***************************************************************************)
(* Proofs about ClaudeTurns, for any numbers of turns, lines and cancels.  *)
(* Type correctness is for any host; the rest is for hosts that await      *)
(* their calls, which ClaudeTwoSenders shows to be necessary.              *)
(***************************************************************************)
EXTENDS ClaudeTurns, FiniteSetTheorems, TLAPS

\* Messages are numbered as they are sent.
Begun == \A t \in Turns : phase[t] = "none" <=> t >= next

\* state.transport is the running turn's own, or close() has taken it.
Owned == \A t \in Turns :
    /\ phase[t] \in {"sending", "created", "streaming", "ended"} =>
         transport = t \/ (transport = None /\ ~registered)
    /\ phase[t] = "spawning" => transport = None /\ registered

\* A turn only begins when those before it are over.
Superseded == \A t, u \in Turns : u < t /\ phase[t] # "none" => u \notin InFlight

\* What is left for close() to close.
Closing ==
    /\ registered <=> closer = "open"
    /\ closer = "closing" => transport \in {closerOf, None}
    /\ closer = "closed" => transport = None

\* The init line is the first that a stream reads, so that the session's id is
\* that of the turn once anything else of it was read.
InitFirst == \A t \in Turns :
    (/\ registered /\ cliSession < t
     /\ phase[t] \in {"none", "spawning", "sending", "created", "streaming"}) =>
       IF wrote[t] = 0 THEN stdout[t] = <<>> ELSE stdout[t] # <<>> /\ Head(stdout[t]) = "init"
Latest ==
    /\ cliSession < next
    /\ \A t \in Turns : registered /\ verdict[t] = "end_turn" => cliSession >= t

TInv == TypeOK /\ Begun /\ cliSession < next
HInv == /\ Owned /\ Superseded /\ Closing /\ InitFirst /\ Latest
        /\ TearsDownItsOwn /\ ProcessesAccountedFor /\ ResumesLatest

Phases == {"none", "spawning", "sending", "created", "streaming", "ended",
           "closing", "done", "failed", "dropped", "aborted"}

-----------------------------------------------------------------------------
(* Type correctness. *)

LEMMA InitTInv == Init => TInv
<1> SUFFICES ASSUME Init PROVE TInv
  OBVIOUS
<1>1. MaxTurns \in Nat /\ MaxChunks \in Nat /\ MaxCancels \in Nat
  BY ClaudeAssumption
<1> QED  BY <1>1 DEF Init, TInv, TypeOK, Begun, Turns, None, Lines

LEMMA PhaseMoves ==
  ASSUME TInv, NEW t \in Turns, NEW p \in Phases, Goto(t, p)
  PROVE  phase' \in [Turns -> Phases] /\ phase'[t] = p /\ \A u \in Turns \ {t} : phase'[u] = phase[u]
BY DEF TInv, TypeOK, Goto, Phases

\* A turn that was sent and moves on, with nothing else that counts changed.
LEMMA AdvanceTInv ==
  ASSUME TInv, NEW t \in Turns, NEW p \in Phases, NEW q \in Phases, p # "none", q # "none", Advance(t, p, q)
  PROVE  TInv'
<1>1. phase[t] = p /\ Goto(t, q)
      /\ UNCHANGED <<sessionVars, resume, closeOf, verdict, childVars, cancelling, cancels>>
  BY DEF Advance
<1>2. phase' \in [Turns -> Phases] /\ phase'[t] = q /\ \A u \in Turns \ {t} : phase'[u] = phase[u]
  BY <1>1, PhaseMoves
<1>3. TypeOK'  BY <1>1, <1>2 DEF TInv, TypeOK, sessionVars, childVars, Phases
<1>4. Begun'  BY <1>1, <1>2 DEF TInv, Begun, sessionVars
<1> QED  BY <1>1, <1>3, <1>4 DEF TInv, sessionVars

LEMMA TearDownTInv ==
  ASSUME TInv, NEW t \in Turns, phase[t] # "none", TearDown(t), UNCHANGED verdict
  PROVE  TInv'
<1>1. /\ Goto(t, "closing") /\ closeOf' = [closeOf EXCEPT ![t] = transport] /\ transport' = None
      /\ UNCHANGED <<registered, cliSession, next, closer, closerOf, resume, childVars, cancelling, cancels>>
  BY DEF TearDown
<1>2. phase' \in [Turns -> Phases] /\ phase'[t] = "closing" /\ \A u \in Turns \ {t} : phase'[u] = phase[u]
  BY <1>1, PhaseMoves DEF Phases
<1>3. TypeOK'  BY <1>1, <1>2 DEF TInv, TypeOK, childVars, Phases
<1>4. Begun'  BY <1>1, <1>2 DEF TInv, Begun
<1> QED  BY <1>1, <1>3, <1>4 DEF TInv

LEMMA SendTInv ==
  ASSUME TInv, NEW t \in Turns, SendBegins(t) \/ Spawned(t) PROVE TInv'
<1>0. Turns \subseteq Nat /\ MaxTurns \in Nat  BY ClaudeAssumption DEF Turns
<1>1. CASE SendBegins(t)
  <2>1. /\ t = next /\ next' = next + 1 /\ Goto(t, "spawning") /\ resume' = [resume EXCEPT ![t] = cliSession]
        /\ UNCHANGED <<registered, transport, cliSession, closer, closerOf, closeOf, verdict,
                       childVars, cancelling, cancels>>
    BY <1>1 DEF SendBegins
  <2>2. phase' \in [Turns -> Phases] /\ phase'[t] = "spawning" /\ \A u \in Turns \ {t} : phase'[u] = phase[u]
    BY <2>1, PhaseMoves DEF Phases
  <2>3. next' \in 1..(MaxTurns + 1) /\ cliSession < next' /\ \A u \in Turns \ {t} : u >= next <=> u >= next'
    BY <1>0, <2>1 DEF TInv, TypeOK, Turns, None
  <2>4. TypeOK'  BY <2>1, <2>2, <2>3 DEF TInv, TypeOK, childVars, Phases
  <2>5. Begun'  BY <1>0, <2>1, <2>2, <2>3 DEF TInv, TypeOK, Begun
  <2> QED  BY <2>1, <2>3, <2>4, <2>5 DEF TInv
<1>2. CASE Spawned(t)
  <2>1. /\ phase[t] = "spawning" /\ Goto(t, "sending") /\ proc' = [proc EXCEPT ![t] = "alive"] /\ transport' = t
        /\ UNCHANGED <<registered, cliSession, next, closer, closerOf, resume, closeOf, verdict,
                       stdout, wrote, cancelling, cancels>>
    BY <1>2 DEF Spawned
  <2>2. phase' \in [Turns -> Phases] /\ phase'[t] = "sending" /\ \A u \in Turns \ {t} : phase'[u] = phase[u]
    BY <2>1, PhaseMoves DEF Phases
  <2>3. TypeOK'  BY <2>1, <2>2 DEF TInv, TypeOK, Phases
  <2>4. Begun'  BY <2>1, <2>2 DEF TInv, Begun
  <2> QED  BY <2>1, <2>3, <2>4 DEF TInv
<1> QED  BY <1>1, <1>2

LEMMA ReadTInv ==
  ASSUME TInv, NEW t \in Turns, ReadLine(t) \/ ReadEof(t) PROVE TInv'
<1>1. CASE ReadLine(t)
  <2> DEFINE line == Head(stdout[t])
  <2>1. /\ phase[t] = "streaming" /\ stdout[t] # <<>> /\ stdout' = [stdout EXCEPT ![t] = Tail(stdout[t])]
        /\ cliSession' = Captured(t, line)
        /\ \/ Goto(t, "ended") /\ verdict' = [verdict EXCEPT ![t] = VerdictOf(line)]
           \/ UNCHANGED <<phase, verdict>>
        /\ UNCHANGED <<registered, transport, next, closer, closerOf, resume, closeOf,
                       proc, wrote, cancelling, cancels>>
    BY <1>1 DEF ReadLine
  <2> HIDE DEF line
  <2>2. phase' \in [Turns -> Phases] /\ phase'[t] # "none" /\ \A u \in Turns \ {t} : phase'[u] = phase[u]
    <3>1. CASE Goto(t, "ended")  BY <3>1, PhaseMoves DEF Phases
    <3>2. CASE UNCHANGED phase  BY <2>1, <3>2 DEF TInv, TypeOK, Phases
    <3> QED  BY <2>1, <3>1, <3>2
  <2>3. verdict' \in [Turns -> {"none", "end_turn", "error"}]
    BY <2>1 DEF VerdictOf, TInv, TypeOK
  <2>4. stdout' \in [Turns -> Seq(Lines)]
    <3>1. Tail(stdout[t]) \in Seq(Lines)  BY <2>1 DEF TInv, TypeOK
    <3> QED  BY <2>1, <3>1 DEF TInv, TypeOK
  <2>5. cliSession' \in Turns \cup {None} /\ cliSession' < next'
    BY <2>1, ClaudeAssumption DEF Captured, TInv, TypeOK, Begun, Turns
  <2>6. TypeOK'  BY <2>1, <2>2, <2>3, <2>4, <2>5 DEF TInv, TypeOK, Phases
  <2>7. Begun'  BY <2>1, <2>2 DEF TInv, Begun
  <2> QED  BY <2>5, <2>6, <2>7 DEF TInv
<1>2. CASE ReadEof(t)
  <2>1. /\ phase[t] = "streaming" /\ Goto(t, "ended") /\ verdict' = [verdict EXCEPT ![t] = "error"]
        /\ UNCHANGED <<sessionVars, resume, closeOf, childVars, cancelling, cancels>>
    BY <1>2 DEF ReadEof
  <2>2. phase' \in [Turns -> Phases] /\ phase'[t] = "ended" /\ \A u \in Turns \ {t} : phase'[u] = phase[u]
    BY <2>1, PhaseMoves DEF Phases
  <2>3. TypeOK'  BY <2>1, <2>2 DEF TInv, TypeOK, sessionVars, childVars, Phases
  <2>4. Begun'  BY <2>1, <2>2 DEF TInv, Begun, sessionVars
  <2> QED  BY <2>1, <2>3, <2>4 DEF TInv, sessionVars
<1> QED  BY <1>1, <1>2

\* The steps that leave send_message and the streams where they are.
LEMMA BesideTInv ==
  ASSUME TInv,
         \/ Cancel \/ CloseBegins \/ CloseEnds
         \/ \E t \in Turns : CancelDone(t) \/ Exits(t) \/ \E line \in Lines : Writes(t, line)
  PROVE  TInv'
<1>1. UNCHANGED <<phase, next, cliSession, resume, closeOf, verdict>>
  BY DEF Cancel, CloseBegins, CloseEnds, CancelDone, Exits, Writes, turnVars, sessionVars
<1>2. Begun'  BY <1>1 DEF TInv, Begun
<1>3. CASE Cancel
  BY <1>1, <1>2, <1>3, ClaudeAssumption DEF Cancel, AfterCancel, TInv, TypeOK, childVars
<1>4. CASE CloseBegins
  BY <1>1, <1>2, <1>4 DEF CloseBegins, TInv, TypeOK, childVars
<1>5. CASE CloseEnds
  BY <1>1, <1>2, <1>5 DEF CloseEnds, CloseReaps, Closed, TInv, TypeOK
<1>6. ASSUME NEW t \in Turns, CancelDone(t) \/ Exits(t) PROVE TInv'
  <2>1. proc' \in [Turns -> {"none", "alive", "dead", "closed"}]
    BY <1>6 DEF CancelDone, Interrupted, Exits, TInv, TypeOK
  <2>2. cancelling' \subseteq Turns /\ UNCHANGED <<sessionVars, stdout, wrote, cancels>>
    BY <1>6 DEF CancelDone, Exits, TInv, TypeOK
  <2> QED  BY <1>1, <1>2, <2>1, <2>2 DEF TInv, TypeOK, sessionVars
<1>7. ASSUME NEW t \in Turns, NEW line \in Lines, Writes(t, line) PROVE TInv'
  <2>1. /\ stdout' = [stdout EXCEPT ![t] = Append(stdout[t], line)]
        /\ wrote[t] < MaxChunks + 2
        /\ wrote' = [wrote EXCEPT ![t] = IF line \in {"init", "chunk"} THEN wrote[t] + 1 ELSE MaxChunks + 2]
        /\ UNCHANGED <<sessionVars, proc, cancelling, cancels>>
    BY <1>7 DEF Writes
  <2>2. stdout' \in [Turns -> Seq(Lines)]  BY <2>1 DEF TInv, TypeOK
  <2>3. wrote' \in [Turns -> 0..(MaxChunks + 2)]  BY <2>1, ClaudeAssumption DEF TInv, TypeOK
  <2> QED  BY <1>1, <1>2, <2>1, <2>2, <2>3 DEF TInv, TypeOK, sessionVars
<1> QED  BY <1>3, <1>4, <1>5, <1>6, <1>7

\* The other steps of a turn.
Others(t) == \/ SpawnFails(t) \/ Sent(t) \/ SendFails(t) \/ SendCancelled(t) \/ DropUnstarted(t)
             \/ StartStream(t) \/ FinishStream(t) \/ AbandonStream(t)
             \/ TearDownDone(t) \/ TearDownAborted(t)

LEMMA OthersTInv ==
  ASSUME TInv, NEW t \in Turns, Others(t) PROVE TInv'
<1>1. CASE \E p, q \in Phases \ {"none"} : Advance(t, p, q)
  BY <1>1, AdvanceTInv
<1>2. CASE phase[t] \in {"sending", "created", "streaming", "ended"} /\ TearDown(t) /\ UNCHANGED verdict
  BY <1>2, TearDownTInv
<1>3. CASE TearDownDone(t)
  <2>1. /\ phase[t] = "closing" /\ Goto(t, "done") /\ proc' = Closed(closeOf[t])
        /\ UNCHANGED <<sessionVars, resume, closeOf, verdict, stdout, wrote, cancelling, cancels>>
    BY <1>3 DEF TearDownDone
  <2>2. phase' \in [Turns -> Phases] /\ phase'[t] = "done" /\ \A u \in Turns \ {t} : phase'[u] = phase[u]
    BY <2>1, PhaseMoves DEF Phases
  <2>3. proc' \in [Turns -> {"none", "alive", "dead", "closed"}]
    BY <2>1 DEF Closed, TInv, TypeOK
  <2>4. TypeOK'  BY <2>1, <2>2, <2>3 DEF TInv, TypeOK, sessionVars, Phases
  <2>5. Begun'  BY <2>1, <2>2 DEF TInv, Begun, sessionVars
  <2> QED  BY <2>1, <2>4, <2>5 DEF TInv, sessionVars
<1> QED
  BY <1>1, <1>2, <1>3 DEF Others, SpawnFails, Sent, SendFails, SendCancelled, DropUnstarted, StartStream,
     FinishStream, AbandonStream, TearDownAborted, Phases

LEMMA NextTInv == TInv /\ [Next]_vars => TInv'
<1> SUFFICES ASSUME TInv, [Next]_vars PROVE TInv'
  OBVIOUS
<1>1. CASE UNCHANGED vars
  BY <1>1 DEF vars, sessionVars, turnVars, childVars, TInv, TypeOK, Begun
<1>2. CASE Next
  BY <1>2, SendTInv, ReadTInv, OthersTInv, BesideTInv DEF Next, StreamStep, Others
<1> QED  BY <1>1, <1>2

\* Types, and the few facts about phases that the typing of a step needs.
THEOREM TypeInvariance == Spec => []TInv
<1> QED  BY InitTInv, NextTInv, PTL DEF Spec

(***************************************************************************)
(* Every variable keeps its type, for any host.                            *)
(***************************************************************************)
THEOREM TypeCorrect == Spec => []TypeOK
<1>1. TInv => TypeOK  BY DEF TInv
<1> QED  BY <1>1, TypeInvariance, PTL

-----------------------------------------------------------------------------
(* A host that awaits its calls. *)

LEMMA InitHInv == Init => HInv
<1> SUFFICES ASSUME Init PROVE HInv
  OBVIOUS
<1>1. Turns \subseteq Nat \ {0}  BY ClaudeAssumption DEF Turns
<1> QED
  BY <1>1 DEF Init, HInv, Owned, Superseded, InFlight, Closing, InitFirst, Latest, None,
     TearsDownItsOwn, ProcessesAccountedFor, ResumesLatest

\* There is one turn in flight, the latest.
LEMMA OneInFlight ==
  ASSUME TInv, Superseded, NEW t \in InFlight
  PROVE  /\ t \in Turns /\ t < next /\ cliSession <= t
         /\ \A u \in Turns : (u \in InFlight => u = t) /\ (u > t => phase[u] = "none")
<1>1. Turns \subseteq Nat /\ t \in Turns /\ phase[t] # "none"
  BY ClaudeAssumption DEF Turns, InFlight
<1>2. t < next
  BY <1>1 DEF TInv, TypeOK, Begun
<1>3. \A u \in Turns : u > t => phase[u] = "none"
  BY <1>1 DEF Superseded
<1>4. ASSUME NEW u \in Turns, u \in InFlight PROVE u = t
  <2>1. phase[u] # "none"  BY <1>4 DEF InFlight
  <2>2. ~(u < t) /\ ~(t < u)  BY <1>1, <1>4, <2>1 DEF Superseded
  <2> QED  BY <1>1, <2>2
<1>5. cliSession <= t
  <2>1. CASE cliSession = 0  BY <1>1, <2>1
  <2>2. CASE cliSession \in Turns
    <3>1. cliSession < next  BY DEF TInv
    <3>2. phase[cliSession] # "none"  BY <1>1, <2>2, <3>1 DEF TInv, TypeOK, Begun
    <3> QED  BY <1>1, <1>3, <2>2, <3>2
  <2> QED  BY <2>1, <2>2 DEF TInv, TypeOK, None
<1> QED  BY <1>1, <1>2, <1>3, <1>4, <1>5

\* Turn t alone moves, and only forwards.
Moves(t, q) ==
    /\ phase[t] # "none" /\ q # "none"
    /\ q \in {"spawning", "sending", "created", "streaming", "ended"} => t \in InFlight
    /\ phase'[t] = q /\ \A u \in Turns \ {t} : phase'[u] = phase[u]

LEMMA MovesKeepSuperseded ==
  ASSUME TInv, Superseded, NEW t \in Turns, NEW q, Moves(t, q) PROVE Superseded'
BY DEF Moves, Superseded, InFlight

LEMMA SendBeginsHInv ==
  ASSUME Concurrent = FALSE, TInv, HInv, NEW t \in Turns, SendBegins(t) PROVE HInv'
<1>0. Turns \subseteq Nat \ {0} /\ None = 0  BY ClaudeAssumption DEF Turns, None
<1>1. /\ Sending = {} /\ t = next /\ registered /\ transport = None
      /\ next' = next + 1 /\ Goto(t, "spawning") /\ resume' = [resume EXCEPT ![t] = cliSession]
      /\ UNCHANGED <<registered, transport, cliSession, closer, closerOf, closeOf, verdict,
                     proc, stdout, wrote, cancelling, cancels>>
  BY DEF SendBegins, ReadyForTurn, MayCall, childVars
<1>2. phase'[t] = "spawning" /\ \A u \in Turns \ {t} : phase'[u] = phase[u]
  BY <1>1, PhaseMoves DEF Phases
<1>3. phase[t] = "none"
  BY <1>1 DEF TInv, TypeOK, Begun
<1>4. \A u \in Turns : phase[u] \notin {"spawning", "sending", "created", "streaming", "ended"}
  BY <1>0, <1>1 DEF HInv, Owned, Sending
<1>5. \A u \in Turns : u < t => u \notin InFlight'
  BY <1>0, <1>2, <1>4 DEF InFlight
<1>6. \A u \in Turns : u > t => phase'[u] = "none"
  BY <1>0, <1>1, <1>2 DEF TInv, TypeOK, Begun
<1>7. Superseded'
  <2> SUFFICES ASSUME NEW v \in Turns, NEW u \in Turns, u < v, phase'[v] # "none"
               PROVE  u \notin InFlight'
    BY DEF Superseded
  <2>1. CASE v = t  BY <1>5, <2>1
  <2>2. CASE v # t
    <3>1. v < t  BY <1>0, <1>6, <2>2
    <3> QED  BY <1>0, <1>5, <3>1
  <2> QED  BY <2>1, <2>2
<1>8. Owned' /\ Closing'
  BY <1>1, <1>2, <1>4 DEF HInv, Owned, Closing
<1>9. InitFirst' /\ Latest'
  <2>1. next \in Nat /\ cliSession \in Nat
    <3>1. MaxTurns \in Nat  BY ClaudeAssumption
    <3>2. next \in 1..(MaxTurns + 1) /\ cliSession \in Turns \cup {None}  BY DEF TInv, TypeOK
    <3> QED  BY <1>0, <3>1, <3>2
  <2>2. Latest'  BY <1>1, <2>1 DEF HInv, Latest
  <2>3. InitFirst'  BY <1>1, <1>2, <1>3 DEF HInv, InitFirst
  <2> QED  BY <2>2, <2>3
<1>10. TearsDownItsOwn' /\ ProcessesAccountedFor'
  <2>1. \A u \in Turns : phase[u] \in {"closing", "aborted"} => phase'[u] = phase[u]
    BY <1>2, <1>3
  <2> QED  BY <1>1, <2>1 DEF HInv, TearsDownItsOwn, ProcessesAccountedFor
<1>11. ResumesLatest'
  <2> SUFFICES ASSUME NEW v \in Turns, NEW u \in Turns, u < v, phase'[v] # "none", verdict[u] = "end_turn"
               PROVE  resume'[v] >= u
    BY <1>1 DEF ResumesLatest
  <2>1. CASE v = t
    <3>1. resume'[v] = cliSession  BY <1>1, <2>1 DEF TInv, TypeOK
    <3> QED  BY <1>1, <3>1 DEF HInv, Latest
  <2>2. CASE v # t
    <3>1. resume'[v] = resume[v] /\ phase'[v] = phase[v]  BY <1>1, <1>2, <2>2 DEF TInv, TypeOK
    <3> QED  BY <3>1 DEF HInv, ResumesLatest
  <2> QED  BY <2>1, <2>2
<1> QED  BY <1>7, <1>8, <1>9, <1>10, <1>11 DEF HInv

LEMMA SpawnedHInv ==
  ASSUME TInv, HInv, NEW t \in Turns, Spawned(t) PROVE HInv'
<1>0. Turns \subseteq Nat \ {0} /\ None = 0  BY ClaudeAssumption DEF Turns, None
<1>1. /\ phase[t] = "spawning" /\ Goto(t, "sending") /\ proc' = [proc EXCEPT ![t] = "alive"] /\ transport' = t
      /\ UNCHANGED <<registered, cliSession, next, closer, closerOf, resume, closeOf, verdict,
                     stdout, wrote, cancelling, cancels>>
  BY DEF Spawned
<1>2. phase'[t] = "sending" /\ \A u \in Turns \ {t} : phase'[u] = phase[u]
  BY <1>1, PhaseMoves DEF Phases
<1>3. t \in InFlight  BY <1>1 DEF InFlight
<1>4. \A u \in Turns : u \in InFlight => u = t  BY <1>3, OneInFlight DEF HInv
<1>5. registered /\ transport = None /\ closer = "open"  BY <1>1 DEF HInv, Owned, Closing
<1>6. Superseded'
  <2>1. Moves(t, "sending")  BY <1>1, <1>2, <1>3 DEF Moves
  <2> QED  BY <2>1, MovesKeepSuperseded DEF HInv
<1>7. Owned' /\ Closing'
  BY <1>1, <1>2, <1>4, <1>5 DEF HInv, Owned, Closing, InFlight
<1>8. InitFirst' /\ Latest'
  BY <1>1, <1>2 DEF HInv, InitFirst, Latest
<1>9. TearsDownItsOwn' /\ ResumesLatest'
  BY <1>1, <1>2 DEF HInv, TearsDownItsOwn, ResumesLatest
<1>10. ProcessesAccountedFor'
  <2> SUFFICES ASSUME NEW v \in Turns, proc'[v] = "alive"
               PROVE  \/ transport' = v /\ closer' # "closed"
                      \/ \E u \in Turns : closeOf'[u] = v /\ phase'[u] \in {"closing", "aborted"}
    BY DEF ProcessesAccountedFor
  <2>1. CASE v = t  BY <1>1, <1>5, <2>1
  <2>2. CASE v # t
    <3>1. proc[v] = "alive" /\ transport # v  BY <1>0, <1>1, <1>5, <2>2 DEF TInv, TypeOK
    <3>2. PICK u \in Turns : closeOf[u] = v /\ phase[u] \in {"closing", "aborted"}
      BY <3>1 DEF HInv, ProcessesAccountedFor
    <3> QED  BY <1>1, <1>2, <3>2
  <2> QED  BY <2>1, <2>2
<1> QED  BY <1>6, <1>7, <1>8, <1>9, <1>10 DEF HInv

\* Turn t moves on, and nothing else that counts does.
LEMMA AdvanceHInv ==
  ASSUME TInv, HInv, NEW t \in Turns,
         NEW p \in {"spawning", "sending", "created"}, NEW q \in {"created", "streaming", "failed", "dropped"},
         Advance(t, p, q),
         p = "spawning" => q = "failed"
  PROVE  HInv'
<1>1. /\ phase[t] = p /\ Goto(t, q)
      /\ UNCHANGED <<registered, transport, cliSession, next, closer, closerOf, resume, closeOf, verdict,
                     proc, stdout, wrote>>
  BY DEF Advance, sessionVars, childVars
<1>2. phase'[t] = q /\ \A u \in Turns \ {t} : phase'[u] = phase[u]
  BY <1>1, PhaseMoves DEF Phases
<1>3. Superseded'
  <2>1. Moves(t, q)  BY <1>1, <1>2 DEF Moves, InFlight
  <2> QED  BY <2>1, MovesKeepSuperseded DEF HInv
<1>4. Owned' /\ Closing' /\ Latest'
  BY <1>1, <1>2 DEF HInv, Owned, Closing, Latest
<1>5. InitFirst'
  BY <1>1, <1>2 DEF HInv, InitFirst
<1>6. TearsDownItsOwn' /\ ResumesLatest'
  BY <1>1, <1>2 DEF HInv, TearsDownItsOwn, ResumesLatest
<1>7. ProcessesAccountedFor'
  BY <1>1, <1>2 DEF HInv, ProcessesAccountedFor
<1> QED  BY <1>3, <1>4, <1>5, <1>6, <1>7 DEF HInv

LEMMA TearDownAbortedHInv ==
  ASSUME TInv, HInv, NEW t \in Turns, TearDownAborted(t) PROVE HInv'
<1>1. /\ phase[t] = "closing" /\ Goto(t, "aborted")
      /\ UNCHANGED <<registered, transport, cliSession, next, closer, closerOf, resume, closeOf, verdict,
                     proc, stdout, wrote>>
  BY DEF TearDownAborted, Advance, sessionVars, childVars
<1>2. phase'[t] = "aborted" /\ \A u \in Turns \ {t} : phase'[u] = phase[u]
  BY <1>1, PhaseMoves DEF Phases
<1>3. Superseded'
  <2>1. Moves(t, "aborted")  BY <1>1, <1>2 DEF Moves
  <2> QED  BY <2>1, MovesKeepSuperseded DEF HInv
<1>4. Owned' /\ Closing' /\ Latest' /\ InitFirst'
  BY <1>1, <1>2 DEF HInv, Owned, Closing, Latest, InitFirst
<1>5. TearsDownItsOwn' /\ ResumesLatest' /\ ProcessesAccountedFor'
  BY <1>1, <1>2 DEF HInv, TearsDownItsOwn, ResumesLatest, ProcessesAccountedFor
<1> QED  BY <1>3, <1>4, <1>5 DEF HInv

\* A turn in flight tears down its own transport, or nothing.
LEMMA TearDownHInv ==
  ASSUME TInv, HInv, NEW t \in Turns, phase[t] \in {"sending", "created", "streaming", "ended"},
         TearDown(t), UNCHANGED verdict
  PROVE  HInv'
<1>0. Turns \subseteq Nat \ {0} /\ None = 0  BY ClaudeAssumption DEF Turns, None
<1>1. /\ Goto(t, "closing") /\ closeOf' = [closeOf EXCEPT ![t] = transport] /\ transport' = None
      /\ UNCHANGED <<registered, cliSession, next, closer, closerOf, resume, proc, stdout, wrote>>
  BY DEF TearDown, childVars
<1>2. phase'[t] = "closing" /\ \A u \in Turns \ {t} : phase'[u] = phase[u]
  BY <1>1, PhaseMoves DEF Phases
<1>3. transport \in {t, None}
  BY DEF HInv, Owned
<1>4. \A u \in Turns : u \in InFlight => u = t
  <2>1. t \in InFlight  BY DEF InFlight
  <2> QED  BY <2>1, OneInFlight DEF HInv
<1>5. closeOf' \in [Turns -> Turns \cup {None}] /\ closeOf'[t] = transport
      /\ \A u \in Turns \ {t} : closeOf'[u] = closeOf[u]
  BY <1>1 DEF TInv, TypeOK
<1>6. Superseded'
  <2>1. Moves(t, "closing")  BY <1>2 DEF Moves
  <2> QED  BY <2>1, MovesKeepSuperseded DEF HInv
<1>7. Owned'
  BY <1>2, <1>4 DEF Owned, InFlight
<1>8. Closing' /\ Latest' /\ InitFirst'
  BY <1>1, <1>2 DEF HInv, Closing, Latest, InitFirst
<1>9. TearsDownItsOwn' /\ ResumesLatest'
  BY <1>1, <1>2, <1>3, <1>5 DEF HInv, TearsDownItsOwn, ResumesLatest
<1>10. ProcessesAccountedFor'
  <2> SUFFICES ASSUME NEW v \in Turns, proc'[v] = "alive"
               PROVE  \E u \in Turns : closeOf'[u] = v /\ phase'[u] \in {"closing", "aborted"}
    BY DEF ProcessesAccountedFor
  <2>1. CASE transport = v  BY <1>2, <1>5, <2>1
  <2>2. CASE transport # v
    <3>1. PICK u \in Turns : closeOf[u] = v /\ phase[u] \in {"closing", "aborted"}
      BY <1>1, <2>2 DEF HInv, ProcessesAccountedFor
    <3> QED  BY <1>2, <1>5, <3>1
  <2> QED  BY <2>1, <2>2
<1> QED  BY <1>6, <1>7, <1>8, <1>9, <1>10 DEF HInv

LEMMA TearDownDoneHInv ==
  ASSUME TInv, HInv, NEW t \in Turns, TearDownDone(t) PROVE HInv'
<1>1. /\ phase[t] = "closing" /\ Goto(t, "done") /\ proc' = Closed(closeOf[t])
      /\ UNCHANGED <<registered, transport, cliSession, next, closer, closerOf, resume, closeOf, verdict,
                     stdout, wrote>>
  BY DEF TearDownDone, sessionVars
<1>2. phase'[t] = "done" /\ \A u \in Turns \ {t} : phase'[u] = phase[u]
  BY <1>1, PhaseMoves DEF Phases
<1>3. Superseded'
  <2>1. Moves(t, "done")  BY <1>1, <1>2 DEF Moves
  <2> QED  BY <2>1, MovesKeepSuperseded DEF HInv
<1>4. Owned' /\ Closing' /\ Latest' /\ InitFirst'
  BY <1>1, <1>2 DEF HInv, Owned, Closing, Latest, InitFirst
<1>5. TearsDownItsOwn' /\ ResumesLatest'
  BY <1>1, <1>2 DEF HInv, TearsDownItsOwn, ResumesLatest
<1>6. ProcessesAccountedFor'
  <2> SUFFICES ASSUME NEW v \in Turns, proc'[v] = "alive"
               PROVE  \/ transport' = v /\ closer' # "closed"
                      \/ \E u \in Turns : closeOf'[u] = v /\ phase'[u] \in {"closing", "aborted"}
    BY DEF ProcessesAccountedFor
  <2>1. v # closeOf[t] /\ proc[v] = "alive"  BY <1>1 DEF Closed
  <2> QED  BY <1>1, <1>2, <2>1 DEF HInv, ProcessesAccountedFor
<1> QED  BY <1>3, <1>4, <1>5, <1>6 DEF HInv

LEMMA OthersHInv ==
  ASSUME TInv, HInv, NEW t \in Turns, Others(t) PROVE HInv'
<1>1. CASE SpawnFails(t) \/ Sent(t) \/ SendCancelled(t) \/ DropUnstarted(t) \/ Advance(t, "created", "streaming")
  <2>1. CASE Advance(t, "spawning", "failed")  BY <2>1, AdvanceHInv
  <2>2. CASE Advance(t, "sending", "created")  BY <2>2, AdvanceHInv
  <2>3. CASE Advance(t, "sending", "failed")  BY <2>3, AdvanceHInv
  <2>4. CASE Advance(t, "created", "dropped")  BY <2>4, AdvanceHInv
  <2>5. CASE Advance(t, "created", "streaming")  BY <2>5, AdvanceHInv
  <2> QED
    BY <1>1, <2>1, <2>2, <2>3, <2>4, <2>5 DEF SpawnFails, Sent, SendCancelled, DropUnstarted
<1>2. CASE phase[t] \in {"sending", "created", "streaming", "ended"} /\ TearDown(t) /\ UNCHANGED verdict
  BY <1>2, TearDownHInv
<1> QED
  BY <1>1, <1>2, TearDownDoneHInv, TearDownAbortedHInv
  DEF Others, SendFails, StartStream, FinishStream, AbandonStream

\* What a stream reads: the init line first, so that a turn that ended
\* normally is the session's by then.
LEMMA ReadLineHInv ==
  ASSUME TInv, HInv, NEW t \in Turns, ReadLine(t) PROVE HInv'
<1>0. Turns \subseteq Nat \ {0} /\ None = 0  BY ClaudeAssumption DEF Turns, None
<1> DEFINE line == Head(stdout[t])
<1>1. /\ phase[t] = "streaming" /\ stdout[t] # <<>> /\ stdout' = [stdout EXCEPT ![t] = Tail(stdout[t])]
      /\ cliSession' = Captured(t, line)
      /\ IF line \in {"result", "error_result"}
         THEN Goto(t, "ended") /\ verdict' = [verdict EXCEPT ![t] = VerdictOf(line)]
         ELSE UNCHANGED <<phase, verdict>>
      /\ UNCHANGED <<registered, transport, next, closer, closerOf, resume, closeOf, proc, wrote>>
  BY DEF ReadLine
<1> HIDE DEF line
<1>2. /\ phase'[t] \in {"streaming", "ended"} /\ \A u \in Turns \ {t} : phase'[u] = phase[u]
  <2>1. CASE Goto(t, "ended")  BY <2>1, PhaseMoves DEF Phases
  <2>2. CASE UNCHANGED phase  BY <1>1, <2>2
  <2> QED  BY <1>1, <2>1, <2>2
<1>3. /\ t \in InFlight /\ t < next /\ cliSession <= t
      /\ \A u \in Turns : (u \in InFlight => u = t) /\ (u > t => phase[u] = "none")
  <2>1. t \in InFlight  BY <1>1 DEF InFlight
  <2> QED  BY <2>1, OneInFlight DEF HInv
<1>4. cliSession \in Nat /\ cliSession' \in {cliSession, t} /\ cliSession' <= t
  <2>1. cliSession \in Turns \cup {None}  BY DEF TInv, TypeOK
  <2>2. cliSession' \in {cliSession, t}  BY <1>1 DEF Captured
  <2> QED  BY <1>0, <1>3, <2>1, <2>2
<1>5. registered => cliSession' >= t
  <2> SUFFICES ASSUME registered PROVE cliSession' >= t
    OBVIOUS
  <2>1. CASE cliSession < t
    <3>1. line = "init"  BY <1>1, <2>1 DEF HInv, InitFirst, line
    <3> QED  BY <1>0, <1>1, <3>1 DEF Captured
  <2>2. CASE ~(cliSession < t)
    BY <1>0, <1>4, <2>2
  <2> QED  BY <2>1, <2>2
<1>6. /\ verdict'[t] \in {"none", "end_turn", "error"}
      /\ \A u \in Turns \ {t} : verdict'[u] = verdict[u] /\ stdout'[u] = stdout[u]
  BY <1>1 DEF TInv, TypeOK, VerdictOf
<1>7. Superseded'
  <2>1. Moves(t, phase'[t])  BY <1>1, <1>2, <1>3 DEF Moves
  <2> QED  BY <2>1, MovesKeepSuperseded DEF HInv
<1>8. Owned' /\ Closing'
  BY <1>1, <1>2 DEF HInv, Owned, Closing
<1>9. Latest'
  <2>1. cliSession' < next'  BY <1>0, <1>1, <1>3, <1>4, ClaudeAssumption DEF TInv, TypeOK
  <2>2. ASSUME NEW u \in Turns, registered', verdict'[u] = "end_turn" PROVE cliSession' >= u
    <3>1. CASE u = t  BY <1>1, <1>5, <2>2, <3>1
    <3>2. CASE u # t
      <4>1. cliSession >= u  BY <1>1, <1>6, <2>2, <3>2 DEF HInv, Latest
      <4> QED  BY <1>0, <1>3, <1>4, <4>1
    <3> QED  BY <3>1, <3>2
  <2> QED  BY <2>1, <2>2 DEF Latest
<1>10. InitFirst'
  <2> SUFFICES ASSUME NEW u \in Turns, registered', cliSession' < u,
                      phase'[u] \in {"none", "spawning", "sending", "created", "streaming"}
               PROVE  IF wrote'[u] = 0 THEN stdout'[u] = <<>> ELSE stdout'[u] # <<>> /\ Head(stdout'[u]) = "init"
    BY DEF InitFirst
  <2>1. t < u  BY <1>0, <1>1, <1>4, <1>5
  <2>2. u # t /\ cliSession < u /\ stdout'[u] = stdout[u] /\ phase[u] = phase'[u]
    BY <1>0, <1>2, <1>3, <1>4, <1>6, <2>1
  <2> QED  BY <1>1, <2>2 DEF HInv, InitFirst
<1>11. TearsDownItsOwn'
  BY <1>1 DEF HInv, TearsDownItsOwn
<1>12. ResumesLatest'
  <2> SUFFICES ASSUME NEW v \in Turns, NEW u \in Turns, u < v, phase'[v] # "none", verdict'[u] = "end_turn"
               PROVE  resume[v] >= u
    BY <1>1 DEF ResumesLatest
  <2>1. phase[v] # "none"  BY <1>1, <1>2
  <2>2. u # t
    BY <1>0, <1>3, <2>1
  <2> QED  BY <1>6, <2>1, <2>2 DEF HInv, ResumesLatest
<1>13. ProcessesAccountedFor'
  <2>1. \A u \in Turns : phase[u] \in {"closing", "aborted"} => phase'[u] = phase[u]
    BY <1>1, <1>2
  <2> QED  BY <1>1, <2>1 DEF HInv, ProcessesAccountedFor
<1> QED  BY <1>7, <1>8, <1>9, <1>10, <1>11, <1>12, <1>13 DEF HInv

LEMMA ReadEofHInv ==
  ASSUME TInv, HInv, NEW t \in Turns, ReadEof(t) PROVE HInv'
<1>1. /\ phase[t] = "streaming" /\ Goto(t, "ended") /\ verdict' = [verdict EXCEPT ![t] = "error"]
      /\ UNCHANGED <<registered, transport, cliSession, next, closer, closerOf, resume, closeOf,
                     proc, stdout, wrote>>
  BY DEF ReadEof, sessionVars, childVars
<1>2. phase'[t] = "ended" /\ \A u \in Turns \ {t} : phase'[u] = phase[u]
  BY <1>1, PhaseMoves DEF Phases
<1>3. \A u \in Turns : verdict'[u] = "end_turn" => verdict[u] = "end_turn"
  BY <1>1 DEF TInv, TypeOK
<1>4. Superseded'
  <2>1. Moves(t, "ended")  BY <1>1, <1>2 DEF Moves, InFlight
  <2> QED  BY <2>1, MovesKeepSuperseded DEF HInv
<1>5. Owned' /\ Closing' /\ InitFirst'
  BY <1>1, <1>2 DEF HInv, Owned, Closing, InitFirst
<1>6. Latest' /\ TearsDownItsOwn'
  BY <1>1, <1>3 DEF HInv, Latest, TearsDownItsOwn
<1>7. ResumesLatest'
  BY <1>1, <1>2, <1>3 DEF HInv, ResumesLatest
<1>8. ProcessesAccountedFor'
  BY <1>1, <1>2 DEF HInv, ProcessesAccountedFor
<1> QED  BY <1>4, <1>5, <1>6, <1>7, <1>8 DEF HInv

\* A child that writes, or dies of itself or of a cancel().
LEMMA ChildHInv ==
  ASSUME TInv, HInv, NEW t \in Turns, CancelDone(t) \/ Exits(t) \/ \E line \in Lines : Writes(t, line)
  PROVE  HInv'
<1>1. UNCHANGED <<registered, transport, cliSession, next, closer, closerOf, phase, resume, closeOf, verdict>>
  BY DEF CancelDone, Exits, Writes, sessionVars, turnVars
<1>2. Owned' /\ Superseded' /\ Closing' /\ Latest' /\ TearsDownItsOwn' /\ ResumesLatest'
  BY <1>1 DEF HInv, Owned, Superseded, InFlight, Closing, Latest, TearsDownItsOwn, ResumesLatest
<1>3. ProcessesAccountedFor'
  <2>1. \A v \in Turns : proc'[v] = "alive" => proc[v] = "alive"
    BY DEF CancelDone, Interrupted, Exits, Writes, TInv, TypeOK
  <2> QED  BY <1>1, <2>1 DEF HInv, ProcessesAccountedFor
<1>4. InitFirst'
  <2>1. CASE UNCHANGED <<stdout, wrote>>
    BY <1>1, <2>1 DEF HInv, InitFirst
  <2>2. ASSUME NEW line \in Lines, Writes(t, line) PROVE InitFirst'
    <3>1. /\ wrote[t] = 0 <=> line = "init"
          /\ stdout' = [stdout EXCEPT ![t] = Append(stdout[t], line)]
          /\ wrote' = [wrote EXCEPT ![t] = IF line \in {"init", "chunk"} THEN wrote[t] + 1 ELSE MaxChunks + 2]
      BY <2>2 DEF Writes
    <3>2. /\ wrote'[t] # 0 /\ stdout'[t] = Append(stdout[t], line)
          /\ \A u \in Turns \ {t} : wrote'[u] = wrote[u] /\ stdout'[u] = stdout[u]
      BY <3>1, ClaudeAssumption DEF TInv, TypeOK
    <3>3. stdout[t] \in Seq(Lines)  BY DEF TInv, TypeOK
    <3>4. stdout'[t] # <<>>  BY <3>2, <3>3
    <3>5. CASE wrote[t] = 0
      <4>1. stdout[t] = <<>> => Head(stdout'[t]) = "init"  BY <3>1, <3>2, <3>5
      <4> QED  BY <1>1, <3>2, <3>4, <3>5, <4>1 DEF HInv, InitFirst
    <3>6. CASE wrote[t] # 0
      <4>1. stdout[t] # <<>> => Head(stdout'[t]) = Head(stdout[t])  BY <3>2, <3>3
      <4> QED  BY <1>1, <3>2, <3>4, <3>6, <4>1 DEF HInv, InitFirst
    <3> QED  BY <3>5, <3>6
  <2> QED  BY <2>1, <2>2 DEF CancelDone, Exits
<1> QED  BY <1>2, <1>3, <1>4 DEF HInv

LEMMA CancelHInv ==
  ASSUME TInv, HInv, Cancel PROVE HInv'
<1>1. UNCHANGED <<registered, transport, cliSession, next, closer, closerOf, turnVars, childVars>>
  BY DEF Cancel, AfterCancel
<1> QED
  BY <1>1 DEF turnVars, childVars, HInv, Owned, Superseded, InFlight, Closing, InitFirst, Latest,
     TearsDownItsOwn, ProcessesAccountedFor, ResumesLatest

LEMMA CloseHInv ==
  ASSUME Concurrent = FALSE, TInv, HInv, CloseBegins \/ CloseEnds PROVE HInv'
<1>1. CASE CloseBegins
  <2>1. /\ Sending = {} /\ registered /\ ~registered' /\ closerOf' = transport
        /\ closer' = IF transport = None THEN "closed" ELSE "closing"
        /\ UNCHANGED <<transport, cliSession, next, phase, resume, closeOf, verdict, proc, stdout, wrote>>
    BY <1>1 DEF CloseBegins, MayCall, turnVars, childVars
  <2>2. Owned'
    BY <2>1 DEF HInv, Owned, Sending
  <2>3. Closing' /\ InitFirst' /\ Superseded' /\ Latest'
    BY <2>1 DEF HInv, Closing, InitFirst, Superseded, InFlight, Latest
  <2>4. TearsDownItsOwn' /\ ResumesLatest'
    BY <2>1 DEF HInv, TearsDownItsOwn, ResumesLatest
  <2>5. ProcessesAccountedFor'
    BY <2>1, ClaudeAssumption DEF HInv, ProcessesAccountedFor, Turns, None
  <2> QED  BY <2>2, <2>3, <2>4, <2>5 DEF HInv
<1>2. CASE CloseEnds
  <2>1. /\ closer = "closing" /\ closer' = "closed" /\ proc' = Closed(closerOf) /\ transport' = None
        /\ UNCHANGED <<registered, cliSession, next, closerOf, phase, resume, closeOf, verdict, stdout, wrote>>
    BY <1>2 DEF CloseEnds, CloseReaps, turnVars
  <2>2. ~registered /\ transport \in {closerOf, None}
    BY <2>1 DEF HInv, Closing
  <2>3. Owned' /\ Closing' /\ InitFirst' /\ Superseded' /\ Latest'
    BY <2>1, <2>2 DEF HInv, Owned, Closing, InitFirst, Superseded, InFlight, Latest
  <2>4. TearsDownItsOwn' /\ ResumesLatest'
    BY <2>1 DEF HInv, TearsDownItsOwn, ResumesLatest
  <2>5. ProcessesAccountedFor'
    <3>1. \A v \in Turns : proc'[v] = "alive" => proc[v] = "alive" /\ transport # v
      BY <2>1, <2>2, ClaudeAssumption DEF Closed, Turns, None
    <3> QED  BY <2>1, <3>1 DEF HInv, ProcessesAccountedFor
  <2> QED  BY <2>3, <2>4, <2>5 DEF HInv
<1> QED  BY <1>1, <1>2

LEMMA NextHInv == Concurrent = FALSE /\ TInv /\ HInv /\ [Next]_vars => HInv'
<1> SUFFICES ASSUME Concurrent = FALSE, TInv, HInv, [Next]_vars PROVE HInv'
  OBVIOUS
<1>1. CASE UNCHANGED vars
  BY <1>1 DEF vars, sessionVars, turnVars, childVars, HInv, Owned, Superseded, InFlight, Closing,
     InitFirst, Latest, TearsDownItsOwn, ProcessesAccountedFor, ResumesLatest
<1>2. ASSUME NEW t \in Turns, SendBegins(t) PROVE HInv'
  BY <1>2, SendBeginsHInv
<1>3. ASSUME NEW t \in Turns, Spawned(t) PROVE HInv'
  BY <1>3, SpawnedHInv
<1>4. ASSUME NEW t \in Turns, Others(t) PROVE HInv'
  BY <1>4, OthersHInv
<1>5. ASSUME NEW t \in Turns, ReadLine(t) \/ ReadEof(t) PROVE HInv'
  BY <1>5, ReadLineHInv, ReadEofHInv
<1>6. ASSUME NEW t \in Turns, CancelDone(t) \/ Exits(t) \/ \E line \in Lines : Writes(t, line) PROVE HInv'
  BY <1>6, ChildHInv
<1>7. CASE Cancel \/ CloseBegins \/ CloseEnds
  BY <1>7, CancelHInv, CloseHInv
<1> QED  BY <1>1, <1>2, <1>3, <1>4, <1>5, <1>6, <1>7 DEF Next, StreamStep, Others

\* The hypothesis on the host is a constant one, so it holds at every step.
THEOREM HostInvariance ==
  ASSUME Concurrent = FALSE PROVE Spec => [](TInv /\ HInv)
<1>1. Init => TInv /\ HInv  BY InitTInv, InitHInv
<1>2. TInv /\ HInv /\ [Next]_vars => (TInv /\ HInv)'  BY NextTInv, NextHInv
<1> QED  BY <1>1, <1>2, PTL DEF Spec

(***************************************************************************)
(* With a host that awaits its calls, two turns are never in flight        *)
(* together, whatever is cancelled, given up or cut off by close(): the    *)
(* check of state.transport is enough for such a host.                     *)
(***************************************************************************)
THEOREM TurnsAreSequential ==
  ASSUME Concurrent = FALSE PROVE Spec => []OneTurnInFlight
<1>1. TInv /\ HInv => OneTurnInFlight
  <2> SUFFICES ASSUME TInv, HInv PROVE Cardinality(InFlight) <= 1
    BY DEF OneTurnInFlight
  <2>1. \A t, u \in InFlight : t = u
    BY OneInFlight DEF HInv, InFlight
  <2>2. CASE InFlight = {}
    BY <2>2, FS_EmptySet
  <2>3. CASE InFlight # {}
    <3>1. PICK t \in InFlight : TRUE  BY <2>3
    <3>2. InFlight = {t}  BY <2>1, <3>1
    <3> QED  BY <3>2, FS_Singleton
  <2> QED  BY <2>2, <2>3
<1> QED  BY <1>1, HostInvariance, PTL

(***************************************************************************)
(* With a host that awaits its calls, no turn's finally clause closes      *)
(* another turn's transport.                                               *)
(***************************************************************************)
THEOREM OwnTearDown ==
  ASSUME Concurrent = FALSE PROVE Spec => []TearsDownItsOwn
<1>1. TInv /\ HInv => TearsDownItsOwn  BY DEF HInv
<1> QED  BY <1>1, HostInvariance, PTL

(***************************************************************************)
(* With such a host, a live child is the session's or being closed, unless *)
(* the task that closed it was cancelled.                                  *)
(***************************************************************************)
THEOREM NoProcessLost ==
  ASSUME Concurrent = FALSE PROVE Spec => []ProcessesAccountedFor
<1>1. TInv /\ HInv => ProcessesAccountedFor  BY DEF HInv
<1> QED  BY <1>1, HostInvariance, PTL

(***************************************************************************)
(* With such a host, a turn resumes the CLI session of the latest turn     *)
(* that ended normally before it.                                          *)
(***************************************************************************)
THEOREM ConversationContinues ==
  ASSUME Concurrent = FALSE PROVE Spec => []ResumesLatest
<1>1. TInv /\ HInv => ResumesLatest  BY DEF HInv
<1> QED  BY <1>1, HostInvariance, PTL
===============================================================================
