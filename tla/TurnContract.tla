----------------------------- MODULE TurnContract -----------------------------
(***************************************************************************)
(* What core/backend.py promises of an AgentBackend's turns, whatever the  *)
(* agent behind it is: send_message accepts a message when no turn is      *)
(* going on, its stream yields what the agent says for that message and    *)
(* nothing else, in order and without gaps, and it stops at an end_turn or *)
(* error chunk.  The adapter can only cut a turn short when it has lost    *)
(* the agent or was closed.                                                *)
(***************************************************************************)
EXTENDS Naturals, Sequences

CONSTANTS Turn,     \* the messages of the session
          Chunk,    \* what the agent can say
          Answer,   \* how the agent can end a turn
          Error,    \* how the adapter can end a turn that it lost
          None      \* no verdict yet

VARIABLES
    open,      \* the session takes messages
    linkUp,    \* the adapter listens to the agent
    asked,     \* the messages accepted so far
    current,   \* the turn going on: a set of at most one
    said,      \* per turn: what the agent said
    answer,    \* per turn: how the agent ended it
    heard,     \* per turn: the chunks the host received
    verdict    \* per turn: the terminal chunk the host received

vars == <<open, linkUp, asked, current, said, answer, heard, verdict>>

Init ==
    /\ open = TRUE /\ linkUp = TRUE
    /\ asked = {} /\ current = {}
    /\ said = [t \in Turn |-> <<>>] /\ heard = [t \in Turn |-> <<>>]
    /\ answer = [t \in Turn |-> None] /\ verdict = [t \in Turn |-> None]

Ask(t) ==
    /\ open /\ current = {} /\ t \notin asked
    /\ asked' = asked \cup {t} /\ current' = {t}
    /\ UNCHANGED <<open, linkUp, said, answer, heard, verdict>>

Say(t, chunk) ==
    /\ t \in asked /\ answer[t] = None
    /\ said' = [said EXCEPT ![t] = Append(@, chunk)]
    /\ UNCHANGED <<open, linkUp, asked, current, answer, heard, verdict>>

End(t, result) ==
    /\ t \in asked /\ answer[t] = None
    /\ answer' = [answer EXCEPT ![t] = result]
    /\ UNCHANGED <<open, linkUp, asked, current, said, heard, verdict>>

Hear(t) ==
    /\ t \in current /\ verdict[t] = None
    /\ Len(heard[t]) < Len(said[t])
    /\ heard' = [heard EXCEPT ![t] = Append(@, said[t][Len(@) + 1])]
    /\ UNCHANGED <<open, linkUp, asked, current, said, answer, verdict>>

Conclude(t) ==
    /\ t \in current /\ verdict[t] = None
    /\ answer[t] # None /\ heard[t] = said[t]
    /\ verdict' = [verdict EXCEPT ![t] = answer[t]]
    /\ UNCHANGED <<open, linkUp, asked, current, said, answer, heard>>

Break(t) ==
    /\ t \in current /\ verdict[t] = None
    /\ ~linkUp
    /\ \E error \in Error : verdict' = [verdict EXCEPT ![t] = error]
    /\ UNCHANGED <<open, linkUp, asked, current, said, answer, heard>>

\* The turn is over, or send_message raised and there never was a stream.
Leave(t) ==
    /\ t \in current
    /\ verdict[t] # None \/ heard[t] = <<>>
    /\ current' = {}
    /\ UNCHANGED <<open, linkUp, asked, said, answer, heard, verdict>>

LoseLink ==
    /\ linkUp' = FALSE
    /\ open' \in {open, FALSE}
    /\ UNCHANGED <<asked, current, said, answer, heard, verdict>>

Close ==
    /\ open' = FALSE
    /\ UNCHANGED <<linkUp, asked, current, said, answer, heard, verdict>>

Next ==
    \/ \E t \in Turn :
         \/ Ask(t) \/ Hear(t) \/ Conclude(t) \/ Break(t) \/ Leave(t)
         \/ \E chunk \in Chunk : Say(t, chunk)
         \/ \E result \in Answer : End(t, result)
    \/ LoseLink \/ Close

Spec == Init /\ [][Next]_vars
===============================================================================
