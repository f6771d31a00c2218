------------------------ MODULE SessionLifecycleProofs ------------------------
(***************************************************************************)
(* Proofs about SessionLifecycle for any number of calls and any host:     *)
(* which child belongs to which call, and why a live child can be lost.    *)
(***************************************************************************)
EXTENDS SessionLifecycle, TLAPS

LEMMA InitType == Init => TypeOK
  BY DEF Init, TypeOK

LEMMA NextType == TypeOK /\ [Next]_vars => TypeOK'
<1> SUFFICES ASSUME TypeOK, [Next]_vars PROVE TypeOK'
  OBVIOUS
<1> USE DEF TypeOK, Goto, Pending, Handshakes, Over
<1>0. CASE UNCHANGED vars  BY <1>0 DEF vars
<1>1. ASSUME NEW c \in Calls PROVE
      /\ CallInitialize(c) => TypeOK'
      /\ CallSend(c) => TypeOK'
      /\ CallClose(c) => TypeOK'
      /\ SpawnFails(c) => TypeOK'
      /\ Spawned(c) => TypeOK'
      /\ Answered(c) => TypeOK'
      /\ Registered(c) => TypeOK'
      /\ Fails(c) => TypeOK'
      /\ TornDown(c) => TypeOK'
      /\ CloseReturns(c) => TypeOK'
      /\ Cancelled(c) => TypeOK'
      /\ ChildExits(c) => TypeOK'
  <2>1. ASSUME CallInitialize(c) PROVE TypeOK'
    BY <2>1 DEF CallInitialize, Begins
  <2>2. ASSUME CallSend(c) PROVE TypeOK'
    BY <2>2 DEF CallSend, Begins
  <2>3. ASSUME CallClose(c) PROVE TypeOK'
    BY <2>3 DEF CallClose, Begins
  <2>4. ASSUME SpawnFails(c) PROVE TypeOK'
    BY <2>4 DEF SpawnFails
  <2>5. ASSUME Spawned(c) PROVE TypeOK'
    BY <2>5 DEF Spawned
  <2>6. ASSUME Answered(c) PROVE TypeOK'
    BY <2>6 DEF Answered
  <2>7. ASSUME Registered(c) PROVE TypeOK'
    BY <2>7 DEF Registered
  <2>8. ASSUME Fails(c) PROVE TypeOK'
    BY <2>8 DEF Fails
  <2>9. ASSUME TornDown(c) PROVE TypeOK'
    BY <2>9 DEF TornDown
  <2>10. ASSUME CloseReturns(c) PROVE TypeOK'
    BY <2>10 DEF CloseReturns, Reaped
  <2>11. ASSUME Cancelled(c) PROVE TypeOK'
    BY <2>11 DEF Cancelled
  <2>12. ASSUME ChildExits(c) PROVE TypeOK'
    BY <2>12 DEF ChildExits
  <2> QED  BY <2>1, <2>2, <2>3, <2>4, <2>5, <2>6, <2>7, <2>8, <2>9, <2>10, <2>11, <2>12
<1> QED  BY <1>0, <1>1 DEF Next, CallStep

\* "Every variable has its type", for any set of calls.
THEOREM TypeCorrect == Spec => []TypeOK
  BY InitType, NextType, PTL DEF Spec

-----------------------------------------------------------------------------
\* A call has a child from its spawn on, and only a call that returned is
\* registered, and only what was registered is closed.
ChildOfCall ==
    \A c \in Calls :
        /\ step[c] \in {"idle", "spawning"} => child[c] = "none"
        /\ step[c] \in Handshakes \cup {"teardown"} => child[c] # "none"
        /\ registered = c => step[c] = "returned" /\ child[c] # "none"
        /\ (\E d \in Calls : target[d] = c) => child[c] # "none"

IInv == TypeOK /\ ChildOfCall /\ InitializedMeansKnown /\ LeakExplained

LEMMA InitIInv == Init => IInv
  BY InitType, CallsAssumption
  DEF Init, IInv, ChildOfCall, InitializedMeansKnown, LeakExplained, Explained, Live, Handshakes

LEMMA NextIInv == IInv /\ [Next]_vars => IInv'
<1> SUFFICES ASSUME IInv, [Next]_vars PROVE ChildOfCall' /\ InitializedMeansKnown' /\ LeakExplained'
  BY NextType DEF IInv
<1> USE CallsAssumption DEF IInv, TypeOK, Goto, Pending, Handshakes, Over
<1>0. CASE UNCHANGED vars
  BY <1>0 DEF vars, ChildOfCall, InitializedMeansKnown, LeakExplained, Explained, Live
<1>1. ASSUME NEW c \in Calls, CallInitialize(c)
     PROVE  ChildOfCall' /\ InitializedMeansKnown' /\ LeakExplained'
  <2>1. ChildOfCall'
    BY <1>1 DEF CallInitialize, Begins, ChildOfCall
  <2>2. InitializedMeansKnown'
    BY <1>1 DEF CallInitialize, Begins, InitializedMeansKnown
  <2>3. LeakExplained'
    BY <1>1 DEF CallInitialize, Begins, LeakExplained, Explained, Live, ChildOfCall
  <2> QED  BY <2>1, <2>2, <2>3
<1>2. ASSUME NEW c \in Calls, CallSend(c)
     PROVE  ChildOfCall' /\ InitializedMeansKnown' /\ LeakExplained'
  <2>1. ChildOfCall'
    BY <1>2 DEF CallSend, Begins, ChildOfCall
  <2>2. InitializedMeansKnown'
    BY <1>2 DEF CallSend, Begins, InitializedMeansKnown
  <2>3. LeakExplained'
    BY <1>2 DEF CallSend, Begins, LeakExplained, Explained, Live, ChildOfCall
  <2> QED  BY <2>1, <2>2, <2>3
<1>3. ASSUME NEW c \in Calls, CallClose(c)
     PROVE  ChildOfCall' /\ InitializedMeansKnown' /\ LeakExplained'
  <2>1. ChildOfCall'
    BY <1>3 DEF CallClose, Begins, ChildOfCall
  <2>2. InitializedMeansKnown'
    BY <1>3 DEF CallClose, Begins, InitializedMeansKnown
  <2>3. LeakExplained'
    BY <1>3 DEF CallClose, Begins, LeakExplained, Explained, Live, ChildOfCall
  <2> QED  BY <2>1, <2>2, <2>3
<1>4. ASSUME NEW c \in Calls, SpawnFails(c)
     PROVE  ChildOfCall' /\ InitializedMeansKnown' /\ LeakExplained'
  <2>1. ChildOfCall'
    BY <1>4 DEF SpawnFails, ChildOfCall
  <2>2. InitializedMeansKnown'
    BY <1>4 DEF SpawnFails, InitializedMeansKnown
  <2>3. LeakExplained'
    BY <1>4 DEF SpawnFails, LeakExplained, Explained, Live, ChildOfCall
  <2> QED  BY <2>1, <2>2, <2>3
<1>5. ASSUME NEW c \in Calls, Spawned(c)
     PROVE  ChildOfCall' /\ InitializedMeansKnown' /\ LeakExplained'
  <2>1. ChildOfCall'
    BY <1>5 DEF Spawned, ChildOfCall
  <2>2. InitializedMeansKnown'
    BY <1>5 DEF Spawned, InitializedMeansKnown
  <2>3. LeakExplained'
    BY <1>5 DEF Spawned, LeakExplained, Explained, Live, ChildOfCall
  <2> QED  BY <2>1, <2>2, <2>3
<1>6. ASSUME NEW c \in Calls, Answered(c)
     PROVE  ChildOfCall' /\ InitializedMeansKnown' /\ LeakExplained'
  <2>1. ChildOfCall'
    BY <1>6 DEF Answered, ChildOfCall
  <2>2. InitializedMeansKnown'
    BY <1>6 DEF Answered, InitializedMeansKnown
  <2>3. LeakExplained'
    BY <1>6 DEF Answered, LeakExplained, Explained, Live, ChildOfCall
  <2> QED  BY <2>1, <2>2, <2>3
<1>7. ASSUME NEW c \in Calls, Registered(c)
     PROVE  ChildOfCall' /\ InitializedMeansKnown' /\ LeakExplained'
  <2>1. ChildOfCall'
    BY <1>7 DEF Registered, ChildOfCall
  <2>2. InitializedMeansKnown'
    BY <1>7 DEF Registered, InitializedMeansKnown
  <2>3. LeakExplained'
    BY <1>7 DEF Registered, LeakExplained, Explained, Live, ChildOfCall
  <2> QED  BY <2>1, <2>2, <2>3
<1>8. ASSUME NEW c \in Calls, Fails(c)
     PROVE  ChildOfCall' /\ InitializedMeansKnown' /\ LeakExplained'
  <2>1. ChildOfCall'
    BY <1>8 DEF Fails, ChildOfCall
  <2>2. InitializedMeansKnown'
    BY <1>8 DEF Fails, InitializedMeansKnown
  <2>3. LeakExplained'
    BY <1>8 DEF Fails, LeakExplained, Explained, Live, ChildOfCall
  <2> QED  BY <2>1, <2>2, <2>3
<1>9. ASSUME NEW c \in Calls, TornDown(c)
     PROVE  ChildOfCall' /\ InitializedMeansKnown' /\ LeakExplained'
  <2>1. ChildOfCall'
    BY <1>9 DEF TornDown, ChildOfCall
  <2>2. InitializedMeansKnown'
    BY <1>9 DEF TornDown, InitializedMeansKnown
  <2>3. LeakExplained'
    BY <1>9 DEF TornDown, LeakExplained, Explained, Live, ChildOfCall
  <2> QED  BY <2>1, <2>2, <2>3
<1>10. ASSUME NEW c \in Calls, CloseReturns(c)
     PROVE  ChildOfCall' /\ InitializedMeansKnown' /\ LeakExplained'
  <2>1. ChildOfCall'
    BY <1>10 DEF CloseReturns, Reaped, ChildOfCall
  <2>2. InitializedMeansKnown'
    BY <1>10 DEF CloseReturns, Reaped, InitializedMeansKnown
  <2>3. ASSUME NEW a \in Calls, child'[a] = "alive", registered' # a
        PROVE  Explained(a)'
    <3>1. child[a] = "alive" /\ target[c] # a /\ registered # a
      BY <1>10, <2>3 DEF CloseReturns, Reaped
    <3>2. \A d \in Calls : d # c => step'[d] = step[d]
      BY <1>10 DEF CloseReturns
    <3>3. step[c] = "closing" /\ step'[c] = "returned" /\ target' = target
      BY <1>10 DEF CloseReturns
    <3>4. \A d \in Calls : child[d] # "none" => child'[d] # "none"
      BY <1>10 DEF CloseReturns, Reaped
    <3> QED  BY <3>1, <3>2, <3>3, <3>4 DEF LeakExplained, Explained, Live
  <2>4. LeakExplained'
    BY <2>3 DEF LeakExplained, Live
  <2> QED  BY <2>1, <2>2, <2>4
<1>11. ASSUME NEW c \in Calls, Cancelled(c)
     PROVE  ChildOfCall' /\ InitializedMeansKnown' /\ LeakExplained'
  <2>1. ChildOfCall'
    BY <1>11 DEF Cancelled, ChildOfCall
  <2>2. InitializedMeansKnown'
    BY <1>11 DEF Cancelled, InitializedMeansKnown
  <2>3. LeakExplained'
    BY <1>11 DEF Cancelled, LeakExplained, Explained, Live, ChildOfCall
  <2> QED  BY <2>1, <2>2, <2>3
<1>12. ASSUME NEW c \in Calls, ChildExits(c)
     PROVE  ChildOfCall' /\ InitializedMeansKnown' /\ LeakExplained'
  <2>1. ChildOfCall'
    BY <1>12 DEF ChildExits, ChildOfCall
  <2>2. InitializedMeansKnown'
    BY <1>12 DEF ChildExits, InitializedMeansKnown
  <2>3. LeakExplained'
    BY <1>12 DEF ChildExits, LeakExplained, Explained, Live, ChildOfCall
  <2> QED  BY <2>1, <2>2, <2>3
<1> QED  BY <1>0, <1>1, <1>2, <1>3, <1>4, <1>5, <1>6, <1>7, <1>8, <1>9, <1>10, <1>11, <1>12 DEF Next, CallStep

THEOREM Invariance == Spec => []IInv
  BY InitIInv, NextIInv, PTL DEF Spec

\* The backend knows every session that was initialised and not closed, however
\* many calls initialise it at once or are cancelled (session.py:61-90).
THEOREM KnownSession == Spec => []InitializedMeansKnown
<1>1. IInv => InitializedMeansKnown
  BY DEF IInv
<1> QED  BY <1>1, Invariance, PTL

\* A live child that nobody knows or works on was lost by a cancelled call or
\* by a second initialize(), and in no other way (kiro_code.py:163-217).
THEOREM LeaksAreExplained == Spec => []LeakExplained
<1>1. IInv => LeakExplained
  BY DEF IInv
<1> QED  BY <1>1, Invariance, PTL

-----------------------------------------------------------------------------
(* A message begun after close(). *)

\* What a call that had not begun when the session was closed can have become:
\* it spawned nothing, whatever initialisation still goes on beside it.
TurnedAway(c) ==
    /\ closed /\ c \notin delivered
    /\ step[c] \in {"idle", "raised", "returned", "closing", "cancelled"}

IdleUnsent == \A c \in Calls : step[c] = "idle" => c \notin delivered

LEMMA InitIdleUnsent == Init => IdleUnsent
  BY DEF Init, IdleUnsent

LEMMA NextIdleUnsent == TypeOK /\ IdleUnsent /\ [Next]_vars => IdleUnsent'
<1> SUFFICES ASSUME TypeOK, IdleUnsent, [Next]_vars PROVE IdleUnsent'
  OBVIOUS
<1> USE DEF TypeOK, IdleUnsent, Goto, Handshakes, Pending
<1>0. CASE UNCHANGED vars  BY <1>0 DEF vars
<1>1. ASSUME NEW c \in Calls, CallInitialize(c) \/ CallSend(c) \/ CallClose(c)
      PROVE  IdleUnsent'
  <2>1. CASE CallInitialize(c)  BY <2>1 DEF CallInitialize
  <2>2. CASE CallSend(c)  BY <2>2 DEF CallSend
  <2>3. CASE CallClose(c)  BY <2>3 DEF CallClose
  <2> QED  BY <1>1, <2>1, <2>2, <2>3
<1>2. ASSUME NEW c \in Calls, CallStep(c) PROVE IdleUnsent'
  BY <1>2 DEF CallStep, SpawnFails, Spawned, Answered, Registered, Fails, TornDown,
              CloseReturns, Reaped
<1>3. ASSUME NEW c \in Calls, Cancelled(c) \/ ChildExits(c) PROVE IdleUnsent'
  BY <1>3 DEF Cancelled, ChildExits
<1> QED  BY <1>0, <1>1, <1>2, <1>3 DEF Next

LEMMA StaysTurnedAway ==
  ASSUME NEW c \in Calls
  PROVE  TypeOK /\ TurnedAway(c) /\ [Next]_vars => TurnedAway(c)'
<1> SUFFICES ASSUME TypeOK, TurnedAway(c), [Next]_vars PROVE TurnedAway(c)'
  OBVIOUS
<1> USE DEF TypeOK, TurnedAway, Goto, Handshakes, Pending
<1>0. CASE UNCHANGED vars  BY <1>0 DEF vars
<1>1. ASSUME NEW d \in Calls, CallInitialize(d) \/ CallSend(d) \/ CallClose(d)
      PROVE  TurnedAway(c)'
  BY <1>1 DEF CallInitialize, CallSend, Accepts, CallClose, Begins
<1>2. ASSUME NEW d \in Calls, CallStep(d) PROVE TurnedAway(c)'
  BY <1>2 DEF CallStep, SpawnFails, Spawned, Answered, Registered, Fails, TornDown,
              CloseReturns, Reaped
<1>3. ASSUME NEW d \in Calls, Cancelled(d) \/ ChildExits(d) PROVE TurnedAway(c)'
  BY <1>3 DEF Cancelled, ChildExits
<1> QED  BY <1>0, <1>1, <1>2, <1>3 DEF Next

\* No message begun after close() reaches the agent, for any host, also when an
\* initialisation registers a child in the closed session (session.py:74-77).
THEOREM ClosedSendsNothing == Spec => NothingSentAfterClose
<1> SUFFICES ASSUME NEW c \in Calls
             PROVE  Spec => [](closed /\ step[c] = "idle" => [](c \notin delivered))
  BY DEF NothingSentAfterClose
<1>1. IdleUnsent /\ closed /\ step[c] = "idle" => TurnedAway(c)
  BY DEF IdleUnsent, TurnedAway
<1>2. TurnedAway(c) => c \notin delivered
  BY DEF TurnedAway
<1> QED
  BY <1>1, <1>2, StaysTurnedAway, InitIdleUnsent, NextIdleUnsent, TypeCorrect, PTL DEF Spec
-----------------------------------------------------------------------------
(* A host that awaits every call, cancels none and initialises once. *)

\* The one call under way owns the one live child; with none under way the
\* backend knows it, and once closed there is none.
Orderly ==
    /\ \A c \in Calls : op[c] = "close" => closed
    /\ \A c \in Calls : step[c] = "closing" => op[c] = "close" /\ registered = None
    /\ registered # None => initialized /\ ~closed
    /\ \A c, d \in Calls : step[c] \in Pending /\ step[d] \in Pending => c = d
    /\ \A c, d \in Calls : step[c] = "closing" /\ op[d] = "close" => c = d
    /\ \A c \in Calls : step[c] \in {"spawning", "teardown"} \cup Handshakes =>
          ~closed /\ ~initialized
    /\ \A c \in Calls : child[c] = "alive" =>
          \/ step[c] \in {"teardown"} \cup Handshakes
          \/ registered = c
          \/ \E d \in Calls : step[d] = "closing" /\ target[d] = c
SInv == sequential => Orderly

LEMMA InitSInv == Init => SInv
  BY DEF Init, SInv, Orderly, Pending, Handshakes

LEMMA NextSInv == TypeOK /\ ChildOfCall /\ SInv /\ [Next]_vars => SInv'
<1> SUFFICES ASSUME TypeOK, ChildOfCall, SInv, [Next]_vars, sequential' PROVE Orderly'
  BY DEF SInv
<1> USE CallsAssumption DEF TypeOK, Goto, Pending, Handshakes
<1>0. CASE UNCHANGED vars
  BY <1>0 DEF vars, SInv, Orderly
<1>b. ASSUME NEW c \in Calls, NEW method, Begins(c, method)
      PROVE  /\ Orderly
             /\ \A d \in Calls : step[d] \notin Pending
             /\ method = "initialize" => ~initialized
             /\ step[c] = "idle" /\ op' = [op EXCEPT ![c] = method]
  BY <1>b DEF Begins, SInv
<1>1. ASSUME NEW c \in Calls, CallInitialize(c) PROVE Orderly'
  <2>1. Begins(c, "initialize")  BY <1>1 DEF CallInitialize
  <2>2. \A d \in Calls : child[d] = "alive" => registered = d
    BY <1>b, <2>1 DEF Orderly
  <2> QED  BY <1>1, <1>b, <2>1, <2>2 DEF CallInitialize, Orderly, ChildOfCall
<1>2. ASSUME NEW c \in Calls, CallSend(c) PROVE Orderly'
  <2>1. Begins(c, "send")  BY <1>2 DEF CallSend
  <2>2. \A d \in Calls : child[d] = "alive" => registered = d
    BY <1>b, <2>1 DEF Orderly
  <2> QED  BY <1>2, <1>b, <2>1, <2>2 DEF CallSend, Accepts, Orderly, ChildOfCall
<1>3. ASSUME NEW c \in Calls, CallClose(c) PROVE Orderly'
  <2>1. Begins(c, "close")  BY <1>3 DEF CallClose
  <2>2. \A d \in Calls : child[d] = "alive" => registered = d
    BY <1>b, <2>1 DEF Orderly
  <2>3. CASE closed \/ registered = None
    BY <1>3, <2>3, <1>b, <2>1, <2>2 DEF CallClose, Orderly, ChildOfCall
  <2>4. CASE ~closed /\ registered # None
    <3>1. \A d \in Calls : op[d] # "close"
      BY <1>b, <2>1, <2>4 DEF Orderly
    <3> QED  BY <1>3, <2>4, <1>b, <2>1, <2>2, <3>1 DEF CallClose, Orderly, ChildOfCall
  <2> QED  BY <2>3, <2>4
<1>4. ASSUME NEW c \in Calls, SpawnFails(c) PROVE Orderly'
  BY <1>4 DEF SpawnFails, SInv, Orderly
<1>5. ASSUME NEW c \in Calls, Spawned(c) PROVE Orderly'
  BY <1>5 DEF Spawned, SInv, Orderly
<1>6. ASSUME NEW c \in Calls, Answered(c) PROVE Orderly'
  BY <1>6 DEF Answered, SInv, Orderly
<1>7. ASSUME NEW c \in Calls, Registered(c) PROVE Orderly'
  BY <1>7 DEF Registered, SInv, Orderly
<1>8. ASSUME NEW c \in Calls, Fails(c) PROVE Orderly'
  BY <1>8 DEF Fails, SInv, Orderly
<1>9. ASSUME NEW c \in Calls, TornDown(c) PROVE Orderly'
  BY <1>9 DEF TornDown, SInv, Orderly
<1>10. ASSUME NEW c \in Calls, CloseReturns(c) PROVE Orderly'
  BY <1>10 DEF CloseReturns, Reaped, SInv, Orderly
<1>11. ASSUME NEW c \in Calls, Cancelled(c) PROVE Orderly'
  BY <1>11 DEF Cancelled
<1>12. ASSUME NEW c \in Calls, ChildExits(c) PROVE Orderly'
  BY <1>12 DEF ChildExits, SInv, Orderly
<1> QED  BY <1>0, <1>1, <1>2, <1>3, <1>4, <1>5, <1>6, <1>7, <1>8, <1>9, <1>10, <1>11, <1>12 DEF Next, CallStep

LEMMA SequentialInvariance == Spec => []SInv
<1>1. IInv => TypeOK /\ ChildOfCall
  BY DEF IInv
<1> QED  BY <1>1, Invariance, InitSInv, NextSInv, PTL DEF Spec

\* "Owns a single agent subprocess" (session.py:22): a host that awaits each
\* call and initialises once never has two live children, however many
\* initialisations failed before.
THEOREM OneSubprocess == Spec => []OwnsOneSubprocess
<1>1. ChildOfCall /\ TypeOK /\ SInv => OwnsOneSubprocess
  <2> SUFFICES ASSUME ChildOfCall, TypeOK, Orderly, NEW c \in Calls, NEW d \in Calls,
                      child[c] = "alive", child[d] = "alive"
               PROVE  c = d
    BY DEF SInv, OwnsOneSubprocess, Live
  <2> QED  BY CallsAssumption DEF Orderly, Pending, Handshakes, TypeOK, ChildOfCall
<1>2. IInv => TypeOK /\ ChildOfCall
  BY DEF IInv
<1> QED  BY <1>1, <1>2, Invariance, SequentialInvariance, PTL

\* No child outlives a close() that returned to such a host
\* (session.py:117-121, kiro_code.py:298-309).
THEOREM NothingOutlivesClose == Spec => []ClosedMeansGone
<1>1. ChildOfCall /\ TypeOK /\ SInv => ClosedMeansGone
  BY CallsAssumption DEF SInv, Orderly, ClosedMeansGone, Live, Pending, Handshakes, TypeOK, ChildOfCall
<1>2. IInv => TypeOK /\ ChildOfCall
  BY DEF IInv
<1> QED  BY <1>1, <1>2, Invariance, SequentialInvariance, PTL
===============================================================================
