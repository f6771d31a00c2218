--------------------------- MODULE SessionLifecycle ---------------------------
(***************************************************************************)
(* The life of one AgentSession (core/session.py) over the kiro_code       *)
(* adapter: lazy or explicit initialize() with its spawn and two           *)
(* handshakes, the registration of the session in the backend, and         *)
(* close().  Each call is a task of its own; the children are named by the *)
(* call whose initialize() spawned them.  Turns are KiroTurns' subject:    *)
(* here a message is delivered when the backend knows the session.         *)
(***************************************************************************)
EXTENDS Naturals

CONSTANTS
    Calls,  \* the calls the host makes, one task each
    None    \* no child

ASSUME CallsAssumption == None \notin Calls

VARIABLES
    closed,       \* AgentSession._closed
    initialized,  \* AgentSession._initialized
    registered,   \* the child of backend._sessions[session_id]
    op, step,     \* per call: the method, and where it is
    target,       \* per close(): the child of the session it popped
    child,        \* per call: the child its initialize() spawned
    delivered,    \* the send_message calls that reached the agent
    sequential    \* history: the host awaited every call, cancelled none, and
                  \* never initialised an initialised session
vars == <<closed, initialized, registered, op, step, target, child, delivered, sequential>>

Handshakes == {"initialize", "session_new"}
Pending == {"spawning", "teardown", "closing"} \cup Handshakes
Over == {"returned", "raised", "cancelled"}

TypeOK ==
    /\ closed \in BOOLEAN /\ initialized \in BOOLEAN
    /\ registered \in Calls \cup {None}
    /\ op \in [Calls -> {"none", "initialize", "send", "close"}]
    /\ step \in [Calls -> {"idle"} \cup Pending \cup Over]
    /\ target \in [Calls -> Calls \cup {None}]
    /\ child \in [Calls -> {"none", "alive", "dead"}]
    /\ delivered \subseteq Calls
    /\ sequential \in BOOLEAN

\* create_session() has returned.
Init ==
    /\ closed = FALSE /\ initialized = FALSE /\ registered = None
    /\ op = [c \in Calls |-> "none"] /\ step = [c \in Calls |-> "idle"]
    /\ target = [c \in Calls |-> None] /\ child = [c \in Calls |-> "none"]
    /\ delivered = {} /\ sequential = TRUE

-----------------------------------------------------------------------------
Goto(c, s) == step' = [step EXCEPT ![c] = s]

\* The host may begin a call while others are pending, and initialise again.
Begins(c, method) ==
    /\ step[c] = "idle"
    /\ op' = [op EXCEPT ![c] = method]
    /\ sequential' = (/\ sequential
                      /\ \A d \in Calls : step[d] \notin Pending
                      /\ method = "initialize" => ~initialized)

CallInitialize(c) ==
    /\ Begins(c, "initialize")
    /\ Goto(c, IF closed THEN "raised" ELSE "spawning")
    /\ UNCHANGED <<closed, initialized, registered, target, child, delivered>>

\* AgentSession's own guard.
AcceptsAlways == TRUE
Accepts == ~closed

\* The backend raises SessionClosedError for a session it does not know.
CallSend(c) ==
    /\ Begins(c, "send")
    /\ \/ ~Accepts /\ Goto(c, "raised") /\ UNCHANGED delivered
       \/ Accepts /\ ~initialized /\ Goto(c, "spawning") /\ UNCHANGED delivered
       \/ /\ Accepts /\ initialized
          /\ Goto(c, IF registered = None THEN "raised" ELSE "returned")
          /\ delivered' = IF registered = None THEN delivered ELSE delivered \cup {c}
    /\ UNCHANGED <<closed, initialized, registered, target, child>>

-----------------------------------------------------------------------------
(* KiroCodeBackend.initialize. *)

\* A configuration it refuses, no kiro-cli, or a spawn that fails.
SpawnFails(c) ==
    /\ step[c] = "spawning"
    /\ Goto(c, "raised")
    /\ UNCHANGED <<closed, initialized, registered, op, target, child, delivered, sequential>>

Spawned(c) ==
    /\ step[c] = "spawning"
    /\ Goto(c, "initialize")
    /\ child' = [child EXCEPT ![c] = "alive"]
    /\ UNCHANGED <<closed, initialized, registered, op, target, delivered, sequential>>

Answered(c) ==
    /\ step[c] = "initialize"
    /\ Goto(c, "session_new")
    /\ UNCHANGED <<closed, initialized, registered, op, target, child, delivered, sequential>>

\* The second handshake is answered: the session is registered, and the send
\* that waited for it goes out, without another suspension.
Registered(c) ==
    /\ step[c] = "session_new"
    /\ registered' = c
    /\ initialized' = TRUE
    /\ Goto(c, "returned")
    /\ delivered' = IF op[c] = "send" THEN delivered \cup {c} ELSE delivered
    /\ UNCHANGED <<closed, op, target, child, sequential>>

FailsAtOnce(c) ==
    /\ step[c] \in Handshakes
    /\ Goto(c, "raised")
    /\ UNCHANGED <<closed, initialized, registered, op, target, child, delivered, sequential>>
\* The request cannot be written, its answer is an error or lacks a session id,
\* the child's stdout ends, or 30 seconds pass: _tear_down.
Fails(c) ==
    /\ step[c] \in Handshakes
    /\ Goto(c, "teardown")
    /\ UNCHANGED <<closed, initialized, registered, op, target, child, delivered, sequential>>

TornDownPopping(c) ==
    /\ step[c] = "teardown"
    /\ Goto(c, "raised")
    /\ registered' = None
    /\ child' = [child EXCEPT ![c] = "dead"]
    /\ UNCHANGED <<closed, initialized, op, target, delivered, sequential>>
TornDown(c) ==
    /\ step[c] = "teardown"
    /\ Goto(c, "raised")
    /\ child' = [child EXCEPT ![c] = "dead"]
    /\ UNCHANGED <<closed, initialized, registered, op, target, delivered, sequential>>

-----------------------------------------------------------------------------
(* close(), and what can happen to a pending call or to a child. *)

CallClose(c) ==
    /\ Begins(c, "close")
    /\ closed' = TRUE
    /\ IF closed \/ registered = None
       THEN Goto(c, "returned") /\ UNCHANGED <<registered, target>>
       ELSE /\ Goto(c, "closing")
            /\ target' = [target EXCEPT ![c] = registered]
            /\ registered' = None
    /\ UNCHANGED <<initialized, child, delivered>>

ReapedLeft(c) == child
Reaped(c) == [child EXCEPT ![target[c]] = "dead"]

CloseReturns(c) ==
    /\ step[c] = "closing"
    /\ Goto(c, "returned")
    /\ child' = Reaped(c)
    /\ UNCHANGED <<closed, initialized, registered, op, target, delivered, sequential>>

\* `except Exception` does not catch CancelledError: nothing is torn down.  A
\* cancelled spawn kills what it started.
Cancelled(c) ==
    /\ step[c] \in Pending
    /\ sequential' = FALSE
    /\ Goto(c, "cancelled")
    /\ UNCHANGED <<closed, initialized, registered, op, target, child, delivered>>

ChildExits(c) ==
    /\ child[c] = "alive"
    /\ child' = [child EXCEPT ![c] = "dead"]
    /\ UNCHANGED <<closed, initialized, registered, op, step, target, delivered, sequential>>

CallStep(c) == \/ SpawnFails(c) \/ Spawned(c)
               \/ Answered(c) \/ Registered(c) \/ Fails(c) \/ TornDown(c)
               \/ CloseReturns(c)

Next == \E c \in Calls :
          \/ CallInitialize(c) \/ CallSend(c) \/ CallClose(c)
          \/ CallStep(c) \/ Cancelled(c) \/ ChildExits(c)

Spec == Init /\ [][Next]_vars

-----------------------------------------------------------------------------
(* Properties. *)

Live == {c \in Calls : child[c] = "alive"}

\* AgentSession "owns a single agent subprocess for the lifetime of a session"
\* (session.py:22): it never has two, also when it retries after failed
\* initialisations.  It keeps this for a host that awaits each call and
\* initialises once, not for two first messages sent together.
OwnsOneSubprocess == sequential => \A c, d \in Live : c = d

\* For such a host no child outlives a close() that returned.
ClosedMeansGone ==
    sequential /\ (\E c \in Calls : op[c] = "close" /\ step[c] = "returned") => Live = {}

\* A call under way initialises, tears down or closes c's child; or the call
\* that should have torn it down was cancelled; or a second initialize() took
\* its place.
Explained(c) ==
    \/ step[c] \in Handshakes \cup {"teardown", "cancelled"}
    \/ \E d \in Calls : target[d] = c /\ step[d] \in {"closing", "cancelled"}
    \/ \E d \in Calls \ {c} : child[d] # "none" /\ step[d] = "returned"

\* For any host: a live child the backend does not know is in someone's hands,
\* or was lost in one of two ways, by a cancelled call or a second initialize().
LeakExplained == \A c \in Live : registered # c => Explained(c)

\* For any host: an initialised session that was not closed is one the backend
\* knows, so its send_message is not refused.
InitializedMeansKnown == initialized /\ ~closed => registered # None

\* For any host: a message begun after close() never reaches the agent, also
\* when an initialisation that close() missed registers its child afterwards.
NothingSentAfterClose ==
    \A c \in Calls : [](closed /\ step[c] = "idle" => [](c \notin delivered))
===============================================================================
