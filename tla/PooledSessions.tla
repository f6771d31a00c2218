---------------------------- MODULE PooledSessions ----------------------------
(***************************************************************************)
(* Host tasks that share a ProcessPool (runtime/process_pool.py) and one   *)
(* MockBackend (adapters/mock.py).  A task takes a lease, opens an         *)
(* AgentSession in it, sends messages and reads their streams as the       *)
(* command line does (cli.py), closes the session and gives the lease      *)
(* back; it may be cancelled anywhere, and anyone may cancel its turn.     *)
(* asyncio's semaphore is external: permits, and waiters in their order.   *)
(***************************************************************************)
EXTENDS Naturals, FiniteSets, SequencesExt

CONSTANTS
    Tasks,        \* each names its session by its own id, in every round
    MaxCapacity,  \* bound: ProcessPool(max_concurrent)
    MaxRounds,    \* bound: leases a task asks for
    MaxTurns,     \* bound: messages of a session
    MaxLength     \* bound: characters of a message

ASSUME TasksAssumption == IsFiniteSet(Tasks)
ASSUME CapacityAssumption == MaxCapacity \in Nat \ {0}
ASSUME BoundAssumption == MaxRounds \in Nat /\ MaxTurns \in Nat /\ MaxLength \in Nat

VARIABLES
    capacity,     \* ProcessPool._max
    permits,      \* Semaphore._value
    queue,        \* the waiters without a permit, in order
    woken,        \* waiters that were handed a permit and have not run yet
    leased        \* ProcessPool._active
VARIABLES
    configs,      \* MockBackend._configs
    marks,        \* MockBackend._cancelled
    step,         \* per task: where it is
    left          \* per task: the characters its stream has not yielded
VARIABLES         \* history, and bounds
    rounds,       \* per task: leases asked for
    turns,        \* per task: messages of this session
    cancels,      \* per task: cancel() calls on this session
    cutShort      \* per task: turns of this session that ended as cancelled

pool == <<capacity, permits, queue, woken, leased>>
mock == <<configs, marks>>
counts == <<rounds, turns, cancels, cutShort>>
vars == <<pool, mock, step, left, counts>>

Init ==
    /\ capacity \in 1..MaxCapacity /\ permits = capacity
    /\ queue = <<>> /\ woken = {} /\ leased = 0
    /\ configs = {} /\ marks = {}
    /\ step = [t \in Tasks |-> "idle"] /\ left = [t \in Tasks |-> 0]
    /\ rounds = [t \in Tasks |-> 0] /\ turns = [t \in Tasks |-> 0]
    /\ cancels = [t \in Tasks |-> 0] /\ cutShort = [t \in Tasks |-> 0]

Goto(t, s) == step' = [step EXCEPT ![t] = s]
Inside(t) == step[t] \in {"leased", "streaming"}

-----------------------------------------------------------------------------
(* The pool. *)

\* _wake_up_next: a free permit goes to the first waiter that has none.
WakeNext(free, waiting, handed) ==
    IF free > 0 /\ waiting # <<>>
    THEN /\ permits' = free - 1
         /\ queue' = Tail(waiting) /\ woken' = handed \cup {Head(waiting)}
    ELSE permits' = free /\ queue' = waiting /\ woken' = handed

\* Who comes later waits, also beside a free permit, until all others have run.
AskLease(t) ==
    /\ step[t] = "idle" /\ rounds[t] < MaxRounds
    /\ rounds' = [rounds EXCEPT ![t] = @ + 1]
    /\ IF permits = 0 \/ queue # <<>> \/ woken # {}
       THEN Goto(t, "waiting") /\ queue' = Append(queue, t) /\ UNCHANGED <<permits, leased>>
       ELSE Goto(t, "leased") /\ permits' = permits - 1 /\ leased' = leased + 1 /\ UNCHANGED queue
    /\ UNCHANGED <<capacity, woken, mock, left, turns, cancels, cutShort>>

GetLease(t) ==
    /\ t \in woken
    /\ Goto(t, "leased") /\ leased' = leased + 1
    /\ WakeNext(permits, queue, woken \ {t})
    /\ UNCHANGED <<capacity, mock, left, counts>>

GiveUp(t) ==
    /\ step[t] = "waiting"
    /\ Goto(t, "idle")
    /\ UNCHANGED <<capacity, mock, left, counts>>
StopWaitingInsideTry(t) ==
    /\ GiveUp(t) /\ UNCHANGED leased
    /\ \E i \in DOMAIN queue : queue[i] = t /\ WakeNext(permits + 1, RemoveAt(queue, i), woken)
\* The waiting task is cancelled; a permit it was handed goes to the next.
StopWaiting(t) ==
    /\ GiveUp(t)
    /\ UNCHANGED leased
    /\ \/ t \in woken /\ WakeNext(permits + 1, queue, woken \ {t})
       \/ \E i \in DOMAIN queue :
             queue[i] = t /\ queue' = RemoveAt(queue, i) /\ UNCHANGED <<permits, woken>>

-----------------------------------------------------------------------------
(* The session inside the lease. *)

\* AgentSession.send_message: the first one initialises the session.
Send(t) ==
    /\ step[t] = "leased" /\ turns[t] < MaxTurns
    /\ Goto(t, "streaming")
    /\ turns' = [turns EXCEPT ![t] = @ + 1]
    /\ configs' = configs \cup {t}
    /\ \E length \in 0..MaxLength : left' = [left EXCEPT ![t] = length]
    /\ UNCHANGED <<pool, marks, rounds, cancels, cutShort>>

\* The next chunk: the cancelled error, a character or the end of the turn.
Chunk(t) ==
    /\ step[t] = "streaming"
    /\ \/ /\ left[t] > 0 /\ t \in marks
          /\ marks' = marks \ {t} /\ Goto(t, "leased")
          /\ cutShort' = [cutShort EXCEPT ![t] = @ + 1]
          /\ UNCHANGED left
       \/ /\ left[t] > 0 /\ t \notin marks
          /\ left' = [left EXCEPT ![t] = @ - 1]
          /\ UNCHANGED <<marks, step, cutShort>>
       \/ /\ left[t] = 0 /\ Goto(t, "leased")
          /\ UNCHANGED <<marks, left, cutShort>>
    /\ UNCHANGED <<pool, configs, rounds, turns, cancels>>

\* AgentSession.cancel, by another task: before, in or after a turn.
Cancel(t) ==
    /\ Inside(t) /\ t \notin marks
    /\ marks' = marks \cup {t}
    /\ cancels' = [cancels EXCEPT ![t] = @ + 1]
    /\ UNCHANGED <<pool, configs, step, left, rounds, turns, cutShort>>

CloseMockHalf(t) == configs' = configs \ {t} /\ UNCHANGED marks
CloseMock(t) == configs' = configs \ {t} /\ marks' = marks \ {t}

ReleaseCountOnly == leased' = leased - 1 /\ UNCHANGED <<queue, permits, woken>>
Release == leased' = leased - 1 /\ WakeNext(permits + 1, queue, woken)

\* The end of the two `async with` blocks: an ended turn, an exception or a
\* cancelled task, in any step; the session is closed before the lease ends.
Ends(t) ==
    /\ Goto(t, "idle") /\ CloseMock(t) /\ Release
    /\ turns' = [turns EXCEPT ![t] = 0] /\ cancels' = [cancels EXCEPT ![t] = 0]
    /\ cutShort' = [cutShort EXCEPT ![t] = 0]
    /\ UNCHANGED <<capacity, left, rounds>>
Leave(t) == step[t] = "leased" /\ Ends(t)
AbortWithoutFinally(t) ==
    /\ step[t] = "streaming" /\ Goto(t, "idle") /\ CloseMock(t)
    /\ UNCHANGED <<pool, left, counts>>
Abort(t) == step[t] = "streaming" /\ Ends(t)

HostStep(t) == Send(t) \/ Chunk(t) \/ Leave(t)
Next == \E t \in Tasks :
          \/ AskLease(t) \/ GetLease(t) \/ StopWaiting(t)
          \/ HostStep(t) \/ Cancel(t) \/ Abort(t)

Spec == Init /\ [][Next]_vars

\* The event loop runs a task that was woken, and a host reads its streams and
\* leaves its lease; that it does is its own doing, not the pool's.
FairSpec == Spec /\ \A t \in Tasks : WF_vars(GetLease(t)) /\ WF_vars(HostStep(t))

-----------------------------------------------------------------------------
(* Properties. *)

TypeOK ==
    /\ capacity \in 1..MaxCapacity /\ permits \in Nat /\ leased \in Nat
    /\ queue \in Seq(Tasks) /\ woken \subseteq Tasks
    /\ configs \subseteq Tasks /\ marks \subseteq Tasks
    /\ step \in [Tasks -> {"idle", "waiting", "leased", "streaming"}]
    /\ left \in [Tasks -> 0..MaxLength]
    /\ rounds \in [Tasks -> 0..MaxRounds] /\ turns \in [Tasks -> 0..MaxTurns]
    /\ cancels \in [Tasks -> Nat] /\ cutShort \in [Tasks -> Nat]

\* "Limits the number of simultaneously open agent sessions"
\* (process_pool.py:11): the backend never knows more sessions than the pool's
\* capacity, whoever was cancelled while waiting, holding or streaming.
SessionsWithinPool == Cardinality(configs) <= capacity

\* `active` counts the leases, and every permit is free, leased or on its way
\* to a waiter: none is lost or made by a lease that failed or never began.
PermitsAccounted ==
    /\ leased = Cardinality({t \in Tasks : Inside(t)})
    /\ permits + leased + Cardinality(woken) = capacity

\* Nobody waits while a permit is free, and who waits gets the lease, whoever
\* else comes, leaves or gives up.
WaiterServed == \A t \in Tasks : step[t] = "waiting" ~> step[t] # "waiting"

\* Each cancel() ends at most one turn of the session it was called on, and none
\* of a later session of the same id.
CancelEndsOneTurn == \A t \in Tasks : cutShort[t] <= cancels[t]
===============================================================================
