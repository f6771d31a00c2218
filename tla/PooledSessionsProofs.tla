------------------------- MODULE PooledSessionsProofs -------------------------
(***************************************************************************)
(* Proofs about PooledSessions, for every finite set of tasks, capacity    *)
(* and bounds: the pool's permits, and the mock's marks.                   *)
(***************************************************************************)
EXTENDS PooledSessions, SequenceLemmas, FiniteSetTheorems, TLAPS

\* The tasks inside the `async with` of a lease.
Holders == {t \in Tasks : Inside(t)}

\* Every waiter is in the queue, once, or was handed a permit.
Waiting(q, w, st) ==
    /\ q \in Seq(Tasks) /\ w \subseteq Tasks
    /\ \A t \in w : st[t] = "waiting"
    /\ \A i \in DOMAIN q : st[q[i]] = "waiting" /\ q[i] \notin w
    /\ \A i, j \in DOMAIN q : q[i] = q[j] => i = j

\* What a pending cancel will cost: one turn of its session.
Marked(t) == IF t \in marks THEN 1 ELSE 0
Cancels == \A t \in Tasks :
    /\ t \in configs \cup marks => Inside(t)
    /\ cutShort[t] + Marked(t) <= cancels[t]

\* PermitsAccounted, with a name for the set it counts.
Accounted == leased = Cardinality(Holders) /\ permits + leased + Cardinality(woken) = capacity

IInv == TypeOK /\ Waiting(queue, woken, step) /\ Accounted /\ Cancels

-----------------------------------------------------------------------------
(* Counting. *)

LEMMA CountIn ==
  ASSUME NEW S \in SUBSET Tasks, NEW t \in Tasks, t \notin S
  PROVE  Cardinality(S \cup {t}) = Cardinality(S) + 1 /\ Cardinality(S) \in Nat
<1>1. IsFiniteSet(S)  BY TasksAssumption, FS_Subset
<1> QED  BY <1>1, FS_AddElement, FS_CardinalityType

LEMMA CountOut ==
  ASSUME NEW S \in SUBSET Tasks, NEW t \in S
  PROVE  Cardinality(S \ {t}) = Cardinality(S) - 1 /\ Cardinality(S) \in Nat
         /\ Cardinality(S \ {t}) \in Nat
<1>1. IsFiniteSet(S)  BY TasksAssumption, FS_Subset
<1>2. IsFiniteSet(S \ {t})  BY TasksAssumption, FS_Subset
<1> QED  BY <1>1, <1>2, FS_RemoveElement, FS_CardinalityType

LEMMA Count ==
  ASSUME NEW S \in SUBSET Tasks PROVE IsFiniteSet(S) /\ Cardinality(S) \in Nat
BY TasksAssumption, FS_Subset, FS_CardinalityType

\* Handing a permit on neither loses one nor makes one.
LEMMA WakeNextKeeps ==
  ASSUME NEW free \in Nat, NEW q, NEW w, NEW st, Waiting(q, w, st), WakeNext(free, q, w)
  PROVE  /\ Waiting(queue', woken', st)
         /\ permits' \in Nat
         /\ permits' + Cardinality(woken') = free + Cardinality(w)
<1>0. Cardinality(w) \in Nat  BY Count DEF Waiting
<1>1. CASE free > 0 /\ q # <<>>
  <2>1. permits' = free - 1 /\ queue' = Tail(q) /\ woken' = w \cup {q[1]}
    BY <1>1 DEF WakeNext, Waiting
  <2>2. 1 \in DOMAIN q /\ q[1] \in Tasks /\ q[1] \notin w /\ Len(q) \in Nat
    BY <1>1 DEF Waiting
  <2>3. /\ Tail(q) \in Seq(Tasks) /\ DOMAIN Tail(q) = 1..(Len(q) - 1)
        /\ \A i \in 1..(Len(q) - 1) : Tail(q)[i] = q[i + 1] /\ i + 1 \in DOMAIN q /\ i + 1 # 1
    BY <1>1, <2>2 DEF Waiting
  <2>4. Waiting(Tail(q), w \cup {q[1]}, st)
    <3>1. \A i \in DOMAIN Tail(q) : Tail(q)[i] # q[1]  BY <2>2, <2>3 DEF Waiting
    <3>2. \A i, j \in DOMAIN Tail(q) : Tail(q)[i] = Tail(q)[j] => i = j
      <4> SUFFICES ASSUME NEW i \in DOMAIN Tail(q), NEW j \in DOMAIN Tail(q), Tail(q)[i] = Tail(q)[j]
                   PROVE  i = j
        OBVIOUS
      <4>1. q[i + 1] = q[j + 1] /\ i + 1 \in DOMAIN q /\ j + 1 \in DOMAIN q  BY <2>3
      <4>2. i + 1 = j + 1  BY <4>1 DEF Waiting
      <4> QED  BY <4>2, <2>2, <2>3
    <3>3. \A i \in DOMAIN Tail(q) : st[Tail(q)[i]] = "waiting" /\ Tail(q)[i] \notin w
      BY <2>3 DEF Waiting
    <3>4. \A t \in w \cup {q[1]} : st[t] = "waiting"  BY <2>2 DEF Waiting
    <3> QED  BY <2>2, <2>3, <3>1, <3>2, <3>3, <3>4 DEF Waiting
  <2>5. Cardinality(w \cup {q[1]}) = Cardinality(w) + 1  BY <2>2, CountIn DEF Waiting
  <2> QED  BY <1>0, <1>1, <2>1, <2>4, <2>5
<1>2. CASE ~(free > 0 /\ q # <<>>)
  BY <1>0, <1>2 DEF WakeNext
<1> QED  BY <1>1, <1>2

\* The tasks inside a lease after one task moved.
LEMMA HoldersMove ==
  ASSUME IInv, NEW t \in Tasks, NEW s \in {"idle", "waiting", "leased", "streaming"}, Goto(t, s)
  PROVE  /\ step' \in [Tasks -> {"idle", "waiting", "leased", "streaming"}]
         /\ Holders' = IF s \in {"leased", "streaming"} THEN Holders \cup {t} ELSE Holders \ {t}
         /\ \A u \in Tasks \ {t} : step'[u] = step[u]
         /\ step'[t] = s
BY DEF Goto, IInv, TypeOK, Holders, Inside

-----------------------------------------------------------------------------
(* The initial states and the steps. *)

LEMMA InitIInv == Init => IInv
<1> SUFFICES ASSUME Init PROVE IInv
  OBVIOUS
<1>1. Holders = {} /\ Cardinality({}) = 0
  BY FS_EmptySet DEF Init, Holders, Inside
<1>2. TypeOK
  BY CapacityAssumption, BoundAssumption DEF Init, TypeOK
<1>3. Waiting(queue, woken, step)
  BY DEF Init, Waiting
<1>4. Accounted
  <2>1. leased = 0 /\ woken = {} /\ permits = capacity /\ capacity \in Nat
    BY CapacityAssumption DEF Init
  <2> QED  BY <1>1, <2>1 DEF Accounted
<1>5. Cancels
  BY DEF Init, Cancels, Marked
<1> QED  BY <1>2, <1>3, <1>4, <1>5 DEF IInv

\* What a step of the pool leaves of the mock's part.
LEMMA MockUntouched ==
  ASSUME IInv, NEW t \in Tasks, ~Inside(t),
         NEW s \in {"idle", "waiting", "leased", "streaming"}, Goto(t, s),
         UNCHANGED <<mock, cancels, cutShort>>
  PROVE  Cancels'
BY DEF IInv, TypeOK, Cancels, Marked, Inside, Goto, mock

\* A waiter that leaves, or a new one that comes, is in nobody else's way.
LEMMA WaitingMoves ==
  ASSUME IInv, NEW t \in Tasks, NEW s \in {"idle", "waiting", "leased", "streaming"}, Goto(t, s),
         NEW q, NEW w, q \in Seq(Tasks), w \subseteq Tasks,
         \A u \in w : u # t /\ u \in woken,
         \A i \in DOMAIN q : q[i] # t /\ q[i] \notin w /\ step[q[i]] = "waiting",
         \A i, j \in DOMAIN q : q[i] = q[j] => i = j
  PROVE  Waiting(q, w, step')
<1>1. \A u \in Tasks \ {t} : step'[u] = step[u]  BY HoldersMove
<1>2. \A i \in DOMAIN q : q[i] \in Tasks  OBVIOUS
<1> QED  BY <1>1, <1>2 DEF Waiting, IInv

LEMMA AskLeaseInv ==
  ASSUME IInv, NEW t \in Tasks, AskLease(t) PROVE IInv'
<1>1. step[t] = "idle" /\ t \notin woken /\ t \notin Holders /\ ~Inside(t)
      /\ \A i \in DOMAIN queue : queue[i] # t
  BY DEF AskLease, Inside, Holders, IInv, Waiting
<1>2. UNCHANGED <<capacity, woken, mock, left, turns, cancels, cutShort>>
  BY DEF AskLease
<1>3. rounds' \in [Tasks -> 0..MaxRounds]
  <2>1. rounds \in [Tasks -> 0..MaxRounds] /\ rounds[t] < MaxRounds
        /\ rounds' = [rounds EXCEPT ![t] = rounds[t] + 1]
    BY DEF AskLease, IInv, TypeOK
  <2> QED  BY <2>1, BoundAssumption
<1>4. queue \in Seq(Tasks) /\ capacity \in Nat /\ permits \in Nat /\ leased \in Nat
      /\ Cardinality(woken) \in Nat
  BY CapacityAssumption, Count DEF IInv, TypeOK
<1>5. CASE Goto(t, "waiting") /\ queue' = Append(queue, t) /\ UNCHANGED <<permits, leased>>
  <2>1. /\ Holders' = Holders /\ step'[t] = "waiting" /\ (\A u \in Tasks \ {t} : step'[u] = step[u])
        /\ step' \in [Tasks -> {"idle", "waiting", "leased", "streaming"}]
    <3>1. Holders' = Holders \ {t}  BY <1>5, HoldersMove
    <3> QED  BY <1>1, <1>5, <3>1, HoldersMove
  <2>2. /\ queue' \in Seq(Tasks) /\ DOMAIN queue' = 1..(Len(queue) + 1) /\ Len(queue) \in Nat
        /\ DOMAIN queue = 1..Len(queue)
        /\ \A i \in DOMAIN queue : queue'[i] = queue[i]
        /\ queue'[Len(queue) + 1] = t
    BY <1>4, <1>5
  <2>3. Waiting(queue', woken', step')
    <3>1. \A i \in DOMAIN queue' : step'[queue'[i]] = "waiting" /\ queue'[i] \notin woken
      <4> SUFFICES ASSUME NEW i \in DOMAIN queue'
                   PROVE  step'[queue'[i]] = "waiting" /\ queue'[i] \notin woken
        OBVIOUS
      <4>1. CASE i = Len(queue) + 1  BY <4>1, <1>1, <2>1, <2>2
      <4>2. CASE i # Len(queue) + 1
        <5>1. i \in DOMAIN queue  BY <4>2, <2>2
        <5>2. queue'[i] = queue[i] /\ queue[i] \in Tasks /\ queue[i] # t  BY <5>1, <1>1, <1>4, <2>2
        <5> QED  BY <5>1, <5>2, <2>1 DEF IInv, Waiting
      <4> QED  BY <4>1, <4>2
    <3>2. \A i, j \in DOMAIN queue' : queue'[i] = queue'[j] => i = j
      <4> SUFFICES ASSUME NEW i \in DOMAIN queue', NEW j \in DOMAIN queue', queue'[i] = queue'[j]
                   PROVE  i = j
        OBVIOUS
      <4>1. \A k \in DOMAIN queue' : k \in DOMAIN queue \/ k = Len(queue) + 1  BY <2>2
      <4>2. CASE i \in DOMAIN queue /\ j \in DOMAIN queue  BY <4>2, <2>2 DEF IInv, Waiting
      <4>3. CASE i = Len(queue) + 1 \/ j = Len(queue) + 1  BY <4>1, <4>3, <1>1, <2>2
      <4> QED  BY <4>1, <4>2, <4>3
    <3>3. \A u \in woken : step'[u] = "waiting"  BY <1>1, <2>1 DEF IInv, Waiting
    <3> QED  BY <1>2, <2>2, <3>1, <3>2, <3>3 DEF IInv, Waiting
  <2>4. Accounted'  BY <1>2, <1>5, <2>1 DEF IInv, Accounted
  <2>5. TypeOK'  BY <1>2, <1>3, <1>5, <2>1, <2>2 DEF IInv, TypeOK, mock
  <2>6. Cancels'  BY <1>1, <1>2, <1>5, MockUntouched
  <2> QED  BY <2>3, <2>4, <2>5, <2>6 DEF IInv
<1>6. CASE /\ permits # 0 /\ queue = <<>> /\ woken = {}
           /\ Goto(t, "leased") /\ permits' = permits - 1 /\ leased' = leased + 1
           /\ UNCHANGED queue
  <2>1. Holders' = Holders \cup {t}
        /\ step' \in [Tasks -> {"idle", "waiting", "leased", "streaming"}]
    BY <1>6, HoldersMove
  <2>2. Waiting(queue', woken', step')  BY <1>2, <1>6 DEF Waiting
  <2>3. Accounted'
    <3>1. Cardinality(Holders') = Cardinality(Holders) + 1 /\ Cardinality(Holders) \in Nat
      BY <1>1, <2>1, CountIn DEF Holders
    <3> QED  BY <1>2, <1>4, <1>6, <3>1 DEF IInv, Accounted
  <2>4. TypeOK'  BY <1>2, <1>3, <1>4, <1>6, <2>1 DEF IInv, TypeOK, mock
  <2>5. Cancels'  BY <1>1, <1>2, <1>6, MockUntouched
  <2> QED  BY <2>2, <2>3, <2>4, <2>5 DEF IInv
<1> QED  BY <1>5, <1>6 DEF AskLease

LEMMA GetLeaseInv ==
  ASSUME IInv, NEW t \in Tasks, GetLease(t) PROVE IInv'
<1>1. /\ t \in woken /\ Goto(t, "leased") /\ leased' = leased + 1
      /\ WakeNext(permits, queue, woken \ {t})
      /\ UNCHANGED <<capacity, mock, left, counts>>
  BY DEF GetLease
<1>2. step[t] = "waiting" /\ ~Inside(t) /\ t \notin Holders
  BY <1>1 DEF IInv, Waiting, Inside, Holders
<1>3. Waiting(queue, woken \ {t}, step')
  <2>1. \A i \in DOMAIN queue : queue[i] # t /\ queue[i] \notin woken \ {t} /\ step[queue[i]] = "waiting"
    BY <1>1 DEF IInv, Waiting
  <2>2. queue \in Seq(Tasks) /\ woken \ {t} \subseteq Tasks
        /\ \A i, j \in DOMAIN queue : queue[i] = queue[j] => i = j
    BY DEF IInv, Waiting
  <2> QED  BY <1>1, <2>1, <2>2, WaitingMoves
<1>4. permits \in Nat /\ leased \in Nat /\ capacity \in Nat /\ woken \subseteq Tasks
  BY CapacityAssumption DEF IInv, TypeOK
<1>5. /\ Waiting(queue', woken', step') /\ permits' \in Nat
      /\ permits' + Cardinality(woken') = permits + Cardinality(woken \ {t})
  BY <1>1, <1>3, <1>4, WakeNextKeeps
<1>6. Cardinality(woken \ {t}) = Cardinality(woken) - 1 /\ Cardinality(woken) \in Nat
  BY <1>1, <1>4, CountOut
<1>7. Holders' = Holders \cup {t}
      /\ step' \in [Tasks -> {"idle", "waiting", "leased", "streaming"}]
  BY <1>1, HoldersMove
<1>8. Cardinality(Holders') = Cardinality(Holders) + 1 /\ Cardinality(Holders) \in Nat
  BY <1>2, <1>7, CountIn DEF Holders
<1>9. Cardinality(woken') \in Nat
  BY <1>5, Count DEF Waiting
<1>10. Accounted'
  BY <1>1, <1>4, <1>5, <1>6, <1>8, <1>9 DEF IInv, Accounted
<1>11. TypeOK'
  BY <1>1, <1>4, <1>5, <1>7 DEF IInv, TypeOK, Waiting, mock, counts
<1>12. Cancels'
  BY <1>1, <1>2, MockUntouched DEF counts
<1> QED  BY <1>5, <1>10, <1>11, <1>12 DEF IInv

LEMMA StopWaitingInv ==
  ASSUME IInv, NEW t \in Tasks, StopWaiting(t) PROVE IInv'
<1>1. /\ step[t] = "waiting" /\ Goto(t, "idle") /\ ~Inside(t) /\ t \notin Holders
      /\ UNCHANGED <<leased, capacity, mock, left, counts>>
  BY DEF StopWaiting, GiveUp, Inside, Holders
<1>2. permits \in Nat /\ leased \in Nat /\ capacity \in Nat /\ woken \subseteq Tasks
      /\ queue \in Seq(Tasks) /\ Cardinality(woken) \in Nat
  BY CapacityAssumption, Count DEF IInv, TypeOK
<1>3. Holders' = Holders /\ step' \in [Tasks -> {"idle", "waiting", "leased", "streaming"}]
  <2>1. Holders' = Holders \ {t}  BY <1>1, HoldersMove
  <2> QED  BY <1>1, <2>1, HoldersMove
<1>4. Cancels'
  BY <1>1, MockUntouched DEF counts
<1>5. /\ Waiting(queue', woken', step') /\ permits' \in Nat
      /\ permits' + Cardinality(woken') = permits + Cardinality(woken)
  <2>1. CASE t \in woken /\ WakeNext(permits + 1, queue, woken \ {t})
    <3>1. \A i \in DOMAIN queue : queue[i] # t /\ queue[i] \notin woken \ {t} /\ step[queue[i]] = "waiting"
      BY <2>1 DEF IInv, Waiting
    <3>2. \A i, j \in DOMAIN queue : queue[i] = queue[j] => i = j
      BY DEF IInv, Waiting
    <3>3. Waiting(queue, woken \ {t}, step')
      BY <1>1, <1>2, <3>1, <3>2, WaitingMoves
    <3>4. /\ Waiting(queue', woken', step') /\ permits' \in Nat
          /\ permits' + Cardinality(woken') = permits + 1 + Cardinality(woken \ {t})
      <4>1. permits + 1 \in Nat  BY <1>2
      <4> QED  BY <2>1, <3>3, <4>1, WakeNextKeeps
    <3>5. Cardinality(woken \ {t}) = Cardinality(woken) - 1
      BY <1>2, <2>1, CountOut
    <3> QED  BY <1>2, <3>4, <3>5
  <2>2. CASE \E i \in DOMAIN queue :
               queue[i] = t /\ queue' = RemoveAt(queue, i) /\ UNCHANGED <<permits, woken>>
    <3>1. PICK i \in DOMAIN queue :
               queue[i] = t /\ queue' = RemoveAt(queue, i) /\ UNCHANGED <<permits, woken>>
      BY <2>2
    <3>2. /\ queue' \in Seq(Tasks) /\ DOMAIN queue' = 1..(Len(queue) - 1)
          /\ \A k \in DOMAIN queue' : queue'[k] = queue[IF k < i THEN k ELSE k + 1]
      BY <1>2, <3>1, Removed
    <3>3. /\ Len(queue) \in Nat /\ i \in 1..Len(queue) /\ DOMAIN queue = 1..Len(queue)
          /\ \A k \in DOMAIN queue' : (IF k < i THEN k ELSE k + 1) \in DOMAIN queue \ {i}
      BY <1>2, <3>1, <3>2
    <3>4. \A k \in DOMAIN queue' : queue'[k] # t /\ queue'[k] \notin woken /\ step[queue'[k]] = "waiting"
      BY <3>1, <3>2, <3>3 DEF IInv, Waiting
    <3>5. \A k, l \in DOMAIN queue' : queue'[k] = queue'[l] => k = l
      <4> SUFFICES ASSUME NEW k \in DOMAIN queue', NEW l \in DOMAIN queue', queue'[k] = queue'[l]
                   PROVE  k = l
        OBVIOUS
      <4>1. (IF k < i THEN k ELSE k + 1) = (IF l < i THEN l ELSE l + 1)
        BY <3>2, <3>3 DEF IInv, Waiting
      <4> QED  BY <3>2, <3>3, <4>1
    <3>6. \A u \in woken : u # t /\ u \in woken
      BY <3>1 DEF IInv, Waiting
    <3>7. Waiting(queue', woken, step')
      BY <1>1, <1>2, <3>2, <3>4, <3>5, <3>6, WaitingMoves
    <3> QED  BY <1>2, <3>1, <3>7
  <2> QED  BY <2>1, <2>2 DEF StopWaiting
<1>6. Cardinality(woken') \in Nat
  BY <1>5, Count DEF Waiting
<1>7. Accounted'
  <2>1. Cardinality(Holders') = Cardinality(Holders)  BY <1>3
  <2>2. leased' = leased /\ capacity' = capacity  BY <1>1
  <2>3. leased' = Cardinality(Holders')  BY <2>1, <2>2 DEF IInv, Accounted
  <2>4. permits' + leased' + Cardinality(woken') = capacity'
    <3>1. permits + leased + Cardinality(woken) = capacity  BY DEF IInv, Accounted
    <3>2. permits' + Cardinality(woken') = permits + Cardinality(woken) /\ permits' \in Nat
      BY <1>5
    <3> QED  BY <1>2, <1>6, <2>2, <3>1, <3>2
  <2> QED  BY <2>3, <2>4 DEF Accounted
<1>8. TypeOK'
  BY <1>1, <1>2, <1>3, <1>5 DEF IInv, TypeOK, Waiting, mock, counts
<1> QED  BY <1>4, <1>5, <1>7, <1>8 DEF IInv

\* Sending, streaming and cancelling happen inside the lease.
LEMMA InsideInv ==
  ASSUME IInv, NEW t \in Tasks, Send(t) \/ Chunk(t) \/ Cancel(t) PROVE IInv'
<1>1. /\ Inside(t) /\ UNCHANGED <<pool, rounds>>
      /\ step' \in [Tasks -> {"idle", "waiting", "leased", "streaming"}]
      /\ step'[t] \in {"leased", "streaming"} /\ step[t] \in {"leased", "streaming"}
      /\ \A u \in Tasks \ {t} : step'[u] = step[u]
  BY DEF Send, Chunk, Cancel, Goto, Inside, IInv, TypeOK
<1>2. \A u \in Tasks : Inside(u) <=> Inside(u)'
  BY <1>1 DEF Inside
<1>3. Holders' = Holders
  BY <1>2 DEF Holders
<1>4. Accounted'
  <2>1. Cardinality(Holders') = Cardinality(Holders)  BY <1>3
  <2> QED  BY <1>1, <2>1 DEF IInv, Accounted, pool
<1>5. Waiting(queue', woken', step')
  BY <1>1 DEF IInv, Waiting, pool
<1>6. CASE Send(t)
  <2>1. PICK length \in 0..MaxLength : left' = [left EXCEPT ![t] = length]
    BY <1>6 DEF Send
  <2>2. turns' \in [Tasks -> 0..MaxTurns]
    <3>1. turns[t] \in 0..MaxTurns /\ turns[t] < MaxTurns /\ turns' = [turns EXCEPT ![t] = turns[t] + 1]
      BY <1>6 DEF Send, IInv, TypeOK
    <3> QED  BY <3>1, BoundAssumption DEF IInv, TypeOK
  <2>3. configs' = configs \cup {t} /\ UNCHANGED <<marks, cancels, cutShort>>
    BY <1>6 DEF Send
  <2>4. TypeOK'  BY <1>1, <2>1, <2>2, <2>3 DEF IInv, TypeOK, pool
  <2>5. Cancels'  BY <1>1, <1>2, <2>3 DEF IInv, Cancels, Marked
  <2> QED  BY <1>4, <1>5, <2>4, <2>5 DEF IInv
<1>7. CASE Chunk(t)
  <2>1. UNCHANGED <<configs, turns, cancels>>  BY <1>7 DEF Chunk
  <2>2. CASE /\ t \in marks /\ marks' = marks \ {t}
             /\ cutShort' = [cutShort EXCEPT ![t] = cutShort[t] + 1] /\ UNCHANGED left
    <3>1. TypeOK'  BY <1>1, <2>1, <2>2 DEF IInv, TypeOK, pool
    <3>2. cutShort'[t] = cutShort[t] + 1 /\ (\A u \in Tasks \ {t} : cutShort'[u] = cutShort[u])
          /\ cutShort[t] \in Nat /\ cancels[t] \in Nat
      BY <2>2 DEF IInv, TypeOK
    <3>3. Marked(t) = 1 /\ Marked(t)' = 0 /\ \A u \in Tasks \ {t} : Marked(u)' = Marked(u)
      BY <2>2 DEF Marked
    <3>4. cutShort'[t] + Marked(t)' <= cancels'[t]
      BY <2>1, <3>2, <3>3 DEF IInv, Cancels
    <3>5. Cancels'
      BY <1>2, <2>1, <2>2, <3>2, <3>3, <3>4 DEF IInv, Cancels
    <3> QED  BY <1>4, <1>5, <3>1, <3>5 DEF IInv
  <2>3. CASE /\ UNCHANGED <<marks, cutShort>>
             /\ UNCHANGED left \/ (left[t] > 0 /\ left' = [left EXCEPT ![t] = left[t] - 1])
    <3>1. left' \in [Tasks -> 0..MaxLength]
      <4>1. left \in [Tasks -> 0..MaxLength]  BY DEF IInv, TypeOK
      <4>2. CASE left[t] > 0 /\ left' = [left EXCEPT ![t] = left[t] - 1]
        <5>1. left[t] - 1 \in 0..MaxLength  BY <4>1, <4>2, BoundAssumption
        <5> QED  BY <4>1, <4>2, <5>1
      <4> QED  BY <2>3, <4>1, <4>2
    <3>2. TypeOK'  BY <1>1, <2>1, <2>3, <3>1 DEF IInv, TypeOK, pool
    <3>3. Cancels'  BY <1>2, <2>1, <2>3 DEF IInv, Cancels, Marked
    <3> QED  BY <1>4, <1>5, <3>2, <3>3 DEF IInv
  <2> QED  BY <1>7, <2>2, <2>3 DEF Chunk
<1>8. CASE Cancel(t)
  <2>1. TypeOK' /\ Cancels'
    BY <1>1, <1>2, <1>8 DEF Cancel, IInv, TypeOK, Cancels, Marked, pool
  <2> QED  BY <1>4, <1>5, <2>1 DEF IInv
<1> QED  BY <1>6, <1>7, <1>8

LEMMA EndsInv ==
  ASSUME IInv, NEW t \in Tasks, Leave(t) \/ Abort(t) PROVE IInv'
<1>1. /\ Inside(t) /\ t \in Holders /\ Goto(t, "idle") /\ CloseMock(t) /\ leased' = leased - 1
      /\ WakeNext(permits + 1, queue, woken)
      /\ turns' = [turns EXCEPT ![t] = 0] /\ cancels' = [cancels EXCEPT ![t] = 0]
      /\ cutShort' = [cutShort EXCEPT ![t] = 0] /\ UNCHANGED <<capacity, left, rounds>>
  BY DEF Leave, Abort, Ends, Release, Inside, Holders
<1>2. permits \in Nat /\ leased \in Nat /\ capacity \in Nat /\ woken \subseteq Tasks
      /\ queue \in Seq(Tasks) /\ Cardinality(woken) \in Nat
  BY CapacityAssumption, Count DEF IInv, TypeOK
<1>3. /\ Holders' = Holders \ {t} /\ step' \in [Tasks -> {"idle", "waiting", "leased", "streaming"}]
      /\ \A u \in Tasks \ {t} : step'[u] = step[u]
  BY <1>1, HoldersMove
<1>4. Cardinality(Holders') = Cardinality(Holders) - 1 /\ Cardinality(Holders) \in Nat
      /\ Cardinality(Holders') \in Nat
  BY <1>1, <1>3, CountOut DEF Holders
<1>5. Waiting(queue, woken, step')
  <2>1. \A u \in woken : u # t /\ u \in woken
    BY <1>1 DEF IInv, Waiting, Inside
  <2>2. \A i \in DOMAIN queue : queue[i] # t /\ queue[i] \notin woken /\ step[queue[i]] = "waiting"
    BY <1>1 DEF IInv, Waiting, Inside
  <2>3. \A i, j \in DOMAIN queue : queue[i] = queue[j] => i = j
    BY DEF IInv, Waiting
  <2> QED  BY <1>1, <1>2, <2>1, <2>2, <2>3, WaitingMoves
<1>6. /\ Waiting(queue', woken', step') /\ permits' \in Nat
      /\ permits' + Cardinality(woken') = permits + 1 + Cardinality(woken)
  <2>1. permits + 1 \in Nat  BY <1>2
  <2> QED  BY <1>1, <1>5, <2>1, WakeNextKeeps
<1>7. Cardinality(woken') \in Nat
  BY <1>6, Count DEF Waiting
<1>8. Accounted' /\ leased' \in Nat
  <2>1. leased = Cardinality(Holders) /\ permits + leased + Cardinality(woken) = capacity
    BY DEF IInv, Accounted
  <2>2. leased' = Cardinality(Holders')  BY <1>1, <1>4, <2>1
  <2>3. permits' + leased' + Cardinality(woken') = capacity'
    <3>1. permits' + Cardinality(woken') = permits + 1 + Cardinality(woken) /\ permits' \in Nat
      BY <1>6
    <3>2. leased' = leased - 1 /\ capacity' = capacity  BY <1>1
    <3>3. permits + leased + Cardinality(woken) = capacity  BY <2>1
    <3>4. permits \in Nat /\ leased \in Nat /\ Cardinality(woken) \in Nat /\ capacity \in Nat
          /\ Cardinality(woken') \in Nat
      BY <1>2, <1>7
    <3> QED  BY <3>1, <3>2, <3>3, <3>4
  <2> QED  BY <1>4, <2>2, <2>3 DEF Accounted
<1>9. TypeOK'
  <2>1. turns' \in [Tasks -> 0..MaxTurns] /\ cancels' \in [Tasks -> Nat] /\ cutShort' \in [Tasks -> Nat]
    BY <1>1, BoundAssumption DEF IInv, TypeOK
  <2>2. UNCHANGED <<capacity, left, rounds>> /\ configs' \subseteq configs /\ marks' \subseteq marks
    BY <1>1 DEF CloseMock
  <2>3. queue' \in Seq(Tasks) /\ woken' \subseteq Tasks  BY <1>6 DEF Waiting
  <2> QED  BY <1>3, <1>6, <1>8, <2>1, <2>2, <2>3 DEF IInv, TypeOK
<1>10. Cancels'
  BY <1>1, <1>3 DEF IInv, TypeOK, Cancels, Marked, CloseMock, Inside
<1> QED  BY <1>6, <1>8, <1>9, <1>10 DEF IInv

LEMMA NextIInv == IInv /\ [Next]_vars => IInv'
<1> SUFFICES ASSUME IInv, [Next]_vars PROVE IInv'
  OBVIOUS
<1>1. CASE UNCHANGED vars
  <2>1. Holders' = Holders  BY <1>1 DEF Holders, Inside, vars
  <2>2. Accounted'
    <3>1. Cardinality(Holders') = Cardinality(Holders)  BY <2>1
    <3> QED  BY <1>1, <3>1 DEF IInv, Accounted, vars, pool
  <2>3. TypeOK' /\ Waiting(queue', woken', step') /\ Cancels'
    BY <1>1 DEF IInv, TypeOK, Waiting, Cancels, Marked, Inside, vars, pool, mock, counts
  <2> QED  BY <2>2, <2>3 DEF IInv
<1>2. CASE Next
  BY <1>2, AskLeaseInv, GetLeaseInv, StopWaitingInv, InsideInv, EndsInv DEF Next, HostStep
<1> QED  BY <1>1, <1>2

\* Leases, slots and the waiters' queue agree after every step.
THEOREM Invariance == Spec => []IInv
<1> QED  BY InitIInv, NextIInv, PTL DEF Spec

-----------------------------------------------------------------------------
(***************************************************************************)
(* Every variable keeps its type: the semaphore's value and the count of   *)
(* leases never fall below zero (process_pool.py:34-41).                   *)
(***************************************************************************)
THEOREM TypeCorrect == Spec => []TypeOK
<1>1. IInv => TypeOK  BY DEF IInv
<1> QED  BY <1>1, Invariance, PTL

(***************************************************************************)
(* The semaphore and `active` agree at all times, however many tasks fail  *)
(* inside their lease or give up while they wait for it.                   *)
(***************************************************************************)
THEOREM PermitsAgree == Spec => []PermitsAccounted
<1>1. IInv => PermitsAccounted  BY DEF IInv, Accounted, PermitsAccounted, Holders
<1> QED  BY <1>1, Invariance, PTL

(***************************************************************************)
(* The backend never knows more open sessions than the pool's capacity.    *)
(***************************************************************************)
THEOREM PoolCapsSessions == Spec => []SessionsWithinPool
<1>1. IInv => SessionsWithinPool
  <2> SUFFICES ASSUME IInv PROVE Cardinality(configs) <= capacity
    BY DEF SessionsWithinPool
  <2>1. configs \subseteq Holders /\ Holders \in SUBSET Tasks
    BY DEF IInv, TypeOK, Cancels, Holders
  <2>2. Cardinality(configs) <= Cardinality(Holders) /\ Cardinality(configs) \in Nat
        /\ Cardinality(Holders) \in Nat
    BY <2>1, Count, FS_Subset
  <2>3. permits \in Nat /\ Cardinality(woken) \in Nat /\ capacity \in Nat
    BY CapacityAssumption, Count DEF IInv, TypeOK
  <2>4. Cardinality(Holders) <= capacity
    BY <2>2, <2>3 DEF IInv, Accounted
  <2> QED  BY <2>2, <2>3, <2>4
<1> QED  BY <1>1, Invariance, PTL

(***************************************************************************)
(* A cancel() ends at most one turn, and never a later session's: close()  *)
(* forgets the mark, and an id is only used again after it.                *)
(***************************************************************************)
THEOREM OneTurnPerCancel == Spec => []CancelEndsOneTurn
<1>1. IInv => CancelEndsOneTurn
  <2> SUFFICES ASSUME IInv, NEW t \in Tasks PROVE cutShort[t] <= cancels[t]
    BY DEF CancelEndsOneTurn
  <2>1. cutShort[t] \in Nat /\ cancels[t] \in Nat /\ Marked(t) \in {0, 1}
    BY DEF IInv, TypeOK, Marked
  <2>2. cutShort[t] + Marked(t) <= cancels[t]  BY DEF IInv, Cancels
  <2> QED  BY <2>1, <2>2
<1> QED  BY <1>1, Invariance, PTL
===============================================================================
