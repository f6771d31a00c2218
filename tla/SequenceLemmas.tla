---------------------------- MODULE SequenceLemmas ----------------------------
(***************************************************************************)
(* Facts about the sequence operators that the proofs share.               *)
(***************************************************************************)
EXTENDS Selection, SequencesExt, TLAPS, WellFoundedInduction

\* A function on 1..k is a sequence of length k.
LEMMA Listed == ASSUME NEW S, NEW k \in Nat, NEW f \in [1..k -> S]
                PROVE  f \in Seq(S) /\ Len(f) = k
  OBVIOUS

\* A sequence without one of its places.
LEMMA Removed ==
  ASSUME NEW S, NEW q \in Seq(S), NEW i \in DOMAIN q
  PROVE  /\ RemoveAt(q, i) \in Seq(S)
         /\ DOMAIN RemoveAt(q, i) = 1..(Len(q) - 1)
         /\ \A k \in 1..(Len(q) - 1) : RemoveAt(q, i)[k] = q[IF k < i THEN k ELSE k + 1]
<1>1. Len(q) \in Nat /\ DOMAIN q = 1..Len(q) /\ i \in 1..Len(q)
  OBVIOUS
<1>2. /\ SubSeq(q, 1, i - 1) \in Seq(S) /\ Len(SubSeq(q, 1, i - 1)) = i - 1
      /\ \A k \in 1..(i - 1) : SubSeq(q, 1, i - 1)[k] = q[k]
  BY <1>1
<1>3. /\ SubSeq(q, i + 1, Len(q)) \in Seq(S) /\ Len(SubSeq(q, i + 1, Len(q))) = Len(q) - i
      /\ \A k \in 1..(Len(q) - i) : SubSeq(q, i + 1, Len(q))[k] = q[k + i]
  BY <1>1
<1> DEFINE a == SubSeq(q, 1, i - 1)
           b == SubSeq(q, i + 1, Len(q))
<1> HIDE DEF a, b
<1>4. a \in Seq(S) /\ b \in Seq(S) /\ Len(a) = i - 1 /\ Len(b) = Len(q) - i
      /\ (\A k \in 1..(i - 1) : a[k] = q[k]) /\ (\A k \in 1..(Len(q) - i) : b[k] = q[k + i])
  BY <1>2, <1>3 DEF a, b
<1>5. RemoveAt(q, i) = a \o b
  BY DEF RemoveAt, a, b
<1>6. /\ a \o b \in Seq(S) /\ Len(a \o b) = Len(a) + Len(b)
      /\ \A k \in 1..(Len(a) + Len(b)) : (a \o b)[k] = IF k <= Len(a) THEN a[k] ELSE b[k - Len(a)]
  BY <1>4
<1>7. Len(a \o b) = Len(q) - 1 /\ DOMAIN (a \o b) = 1..(Len(q) - 1)
  <2>1. Len(a) + Len(b) = Len(q) - 1  BY <1>1, <1>4
  <2>2. Len(a \o b) = Len(q) - 1  BY <1>6, <2>1
  <2>3. DOMAIN (a \o b) = 1..Len(a \o b)  BY <1>6
  <2> QED  BY <2>2, <2>3
<1>8. ASSUME NEW k \in 1..(Len(q) - 1)
      PROVE  (a \o b)[k] = q[IF k < i THEN k ELSE k + 1]
  <2>0. (a \o b)[k] = IF k <= i - 1 THEN a[k] ELSE b[k - (i - 1)]
    <3>1. k \in 1..(Len(a) + Len(b))  BY <1>1, <1>4
    <3>2. (a \o b)[k] = IF k <= Len(a) THEN a[k] ELSE b[k - Len(a)]  BY <1>6, <3>1
    <3> QED  BY <1>4, <3>2
  <2>1. CASE k < i  BY <1>1, <1>4, <2>0, <2>1
  <2>2. CASE ~(k < i)
    <3>1. k - (i - 1) \in 1..(Len(q) - i) /\ (k - (i - 1)) + i = k + 1  BY <1>1, <2>2
    <3>2. b[k - (i - 1)] = q[(k - (i - 1)) + i]  BY <1>4, <3>1
    <3> QED  BY <1>1, <2>0, <2>2, <3>1, <3>2
  <2> QED  BY <2>1, <2>2
<1> QED  BY <1>5, <1>6, <1>7, <1>8

\* Removing the place of e from a sequence without repetitions takes e, and
\* nothing else, out of it.
LEMMA RemovedElement ==
  ASSUME NEW S, NEW q \in Seq(S), IsInjective(q), NEW i \in DOMAIN q
  PROVE  IsInjective(RemoveAt(q, i)) /\ ToSet(RemoveAt(q, i)) = ToSet(q) \ {q[i]}
<1> DEFINE r == RemoveAt(q, i)
           old(k) == IF k < i THEN k ELSE k + 1
<1>1. Len(q) \in Nat /\ DOMAIN q = 1..Len(q) /\ i \in 1..Len(q)
  OBVIOUS
<1>2. r \in Seq(S) /\ DOMAIN r = 1..(Len(q) - 1) /\ \A k \in DOMAIN r : r[k] = q[old(k)]
  BY Removed
<1>3. \A k \in DOMAIN r : old(k) \in DOMAIN q \ {i}
  BY <1>1, <1>2
<1>4. \A k, l \in DOMAIN r : old(k) = old(l) => k = l
  BY <1>1, <1>2
<1>5. \A j \in DOMAIN q \ {i} : \E k \in DOMAIN r : old(k) = j
  <2> SUFFICES ASSUME NEW j \in DOMAIN q \ {i} PROVE \E k \in DOMAIN r : old(k) = j
    OBVIOUS
  <2>1. CASE j < i  BY <1>1, <1>2, <2>1
  <2>2. CASE ~(j < i)
    <3>1. j - 1 \in DOMAIN r /\ old(j - 1) = j  BY <1>1, <1>2, <2>2
    <3> QED  BY <3>1
  <2> QED  BY <2>1, <2>2
<1> HIDE DEF r, old
<1>6. IsInjective(r)
  BY <1>2, <1>3, <1>4 DEF IsInjective
<1>7. ToSet(r) = ToSet(q) \ {q[i]}
  BY <1>2, <1>3, <1>5 DEF IsInjective, ToSet
<1> QED  BY <1>6, <1>7 DEF r

\* A new element at the end of a sequence without repetitions.
LEMMA AppendedElement ==
  ASSUME NEW S, NEW q \in Seq(S), IsInjective(q), NEW e \in S, e \notin ToSet(q)
  PROVE  IsInjective(Append(q, e)) /\ ToSet(Append(q, e)) = ToSet(q) \cup {e}
<1> DEFINE r == Append(q, e)
<1>1. /\ Len(q) \in Nat /\ DOMAIN q = 1..Len(q) /\ DOMAIN r = 1..(Len(q) + 1)
      /\ (\A k \in DOMAIN q : r[k] = q[k]) /\ r[Len(q) + 1] = e
  OBVIOUS
<1>2. \A k \in DOMAIN r : k \in DOMAIN q \/ k = Len(q) + 1
  BY <1>1
<1>3. DOMAIN q \subseteq DOMAIN r /\ Len(q) + 1 \in DOMAIN r
  BY <1>1
<1>4. \A k \in DOMAIN q : q[k] # e
  BY DEF ToSet
<1> HIDE DEF r
<1>5. IsInjective(r)
  BY <1>1, <1>2, <1>4 DEF IsInjective
<1>6. ToSet(r) = ToSet(q) \cup {e}
  BY <1>1, <1>2, <1>3 DEF ToSet
<1> QED  BY <1>5, <1>6 DEF r

\* A set of numbers has a least one: the library states it for a relation.
LEMMA Least ==
  ASSUME NEW T, T \subseteq Nat, T # {}
  PROVE  \E x \in T : \A y \in T : x <= y
<1>1. IsWellFoundedOn(OpToRel(<, Nat), Nat)
  BY NatLessThanWellFounded
<1>2. PICK x \in T : \A y \in T : <<y, x>> \notin OpToRel(<, Nat)
  BY <1>1, WFMin
<1>3. \A y \in T : ~ (y < x)
  BY <1>2 DEF OpToRel
<1> QED BY <1>3

\* Induction over the numbers, for a set instead of a predicate: an operator
\* parameter could not be instantiated.
LEMMA Induction ==
  ASSUME NEW T, 0 \in T, \A n \in Nat : n \in T => n + 1 \in T
  PROVE  \A n \in Nat : n \in T
<1> SUFFICES ASSUME Nat \ T # {} PROVE FALSE
  OBVIOUS
<1>1. PICK x \in Nat \ T : \A y \in Nat \ T : x <= y
  BY Least
<1>2. x # 0 /\ x - 1 \in Nat
  BY <1>1
<1>3. x - 1 \in T
  BY <1>1, <1>2
<1>4. (x - 1) + 1 \in T
  BY <1>2, <1>3
<1> QED BY <1>1, <1>4

\* One step of the selection, and the function that takes them all.
KeepStep(s, S, n, f) == IF n = 0 THEN <<>>
            ELSE IF s[n] \in S THEN Append(f[n - 1], s[n]) ELSE f[n - 1]
Kept(s, S, m, f) == f = [n \in 0..m |-> IF n = 0 THEN <<>>
            ELSE IF s[n] \in S THEN Append(f[n - 1], s[n]) ELSE f[n - 1]]

LEMMA KeptZero ==
  ASSUME NEW s, NEW S, NEW m \in Nat, NEW f, Kept(s, S, m, f)
  PROVE  f[0] = <<>>
<1>1. 0 \in 0..m  OBVIOUS
<1>2. f[0] = KeepStep(s, S, 0, f)  BY <1>1 DEF Kept, KeepStep
<1>3. KeepStep(s, S, 0, f) = <<>>  BY DEF KeepStep
<1> QED  BY <1>2, <1>3

LEMMA KeptStep ==
  ASSUME NEW s, NEW S, NEW m \in Nat, NEW f, Kept(s, S, m, f), NEW k \in Nat, k + 1 <= m
  PROVE  f[k + 1] = IF s[k + 1] \in S THEN Append(f[k], s[k + 1]) ELSE f[k]
<1>1. k + 1 \in 0..m /\ (k + 1) - 1 = k /\ k + 1 # 0  OBVIOUS
<1>2. f[k + 1] = KeepStep(s, S, k + 1, f)  BY <1>1 DEF Kept, KeepStep
<1> QED  BY <1>1, <1>2 DEF KeepStep

LEMMA KeptExists ==
  ASSUME NEW s, NEW S, NEW m \in Nat
  PROVE  \E f : Kept(s, S, m, f)
<1> DEFINE T == {k \in Nat : \E f : Kept(s, S, k, f)}
<1>1. 0 \in T
  <2>1. Kept(s, S, 0, [n \in 0..0 |-> <<>>])  BY DEF Kept
  <2> QED  BY <2>1
<1>2. ASSUME NEW k \in Nat, k \in T PROVE k + 1 \in T
  <2>1. PICK f : Kept(s, S, k, f)  BY <1>2
  <2> DEFINE e == IF s[k + 1] \in S THEN Append(f[k], s[k + 1]) ELSE f[k]
             g == [n \in 0..(k + 1) |-> IF n = k + 1 THEN e ELSE f[n]]
  <2>2. \A n \in 0..k : f[n] = KeepStep(s, S, n, f)  BY <2>1 DEF Kept, KeepStep
  <2>3. \A n \in 0..(k + 1) : g[n] = KeepStep(s, S, n, g)
    <3> SUFFICES ASSUME NEW n \in 0..(k + 1) PROVE g[n] = KeepStep(s, S, n, g)
      OBVIOUS
    <3>1. CASE n = k + 1  BY <3>1 DEF KeepStep
    <3>2. CASE n # k + 1
      <4>1. n \in 0..k /\ g[n] = f[n]  BY <3>2
      <4>2. n # 0 => g[n - 1] = f[n - 1]  BY <3>2
      <4> HIDE DEF g
      <4> QED  BY <2>2, <4>1, <4>2 DEF KeepStep
    <3> QED  BY <3>1, <3>2
  <2>4. Kept(s, S, k + 1, g)
    <3>1. g = [n \in 0..(k + 1) |-> g[n]]  OBVIOUS
    <3> HIDE DEF g
    <3> QED  BY <2>3, <3>1 DEF Kept, KeepStep
  <2> QED  BY <2>4
<1> HIDE DEF T
<1>3. m \in T  BY <1>1, <1>2, Induction
<1> QED  BY <1>3 DEF T

\* The selection looks at no more than the elements so far.
LEMMA KeptAgree ==
  ASSUME NEW s, NEW r, NEW S, NEW m \in Nat, NEW l \in Nat, NEW f, NEW g,
         Kept(s, S, m, f), Kept(r, S, l, g), 
         \A n \in 1..m : n <= l => s[n] = r[n]
  PROVE  \A n \in 0..m : n <= l => f[n] = g[n]
<1> DEFINE T == {n \in Nat : n <= m /\ n <= l => f[n] = g[n]}
<1>1. 0 \in T
  <2>1. f[0] = <<>> /\ g[0] = <<>>  BY KeptZero
  <2> QED  BY <2>1
<1>2. ASSUME NEW k \in Nat, k \in T PROVE k + 1 \in T
  <2>1. SUFFICES ASSUME k + 1 <= m, k + 1 <= l PROVE f[k + 1] = g[k + 1]
    OBVIOUS
  <2>2. f[k] = g[k] /\ s[k + 1] = r[k + 1]  BY <1>2, <2>1
  <2>3. /\ f[k + 1] = IF s[k + 1] \in S THEN Append(f[k], s[k + 1]) ELSE f[k]
        /\ g[k + 1] = IF r[k + 1] \in S THEN Append(g[k], r[k + 1]) ELSE g[k]
    <3> HIDE DEF T
    <3>1. f[k + 1] = IF s[k + 1] \in S THEN Append(f[k], s[k + 1]) ELSE f[k]  BY <2>1, KeptStep
    <3>2. g[k + 1] = IF r[k + 1] \in S THEN Append(g[k], r[k + 1]) ELSE g[k]  BY <2>1, KeptStep
    <3> QED  BY <3>1, <3>2
  <2> QED  BY <2>2, <2>3
<1> HIDE DEF T
<1>3. \A n \in Nat : n \in T  BY <1>1, <1>2, Induction
<1> QED  BY <1>3 DEF T

\* Only is the last value of that function.
LEMMA OnlyIs ==
  ASSUME NEW A, NEW s \in Seq(A), NEW S
  PROVE  \E f : Kept(s, S, Len(s), f) /\ Only(s, S) = f[Len(s)]
<1> DEFINE f == CHOOSE f : Kept(s, S, Len(s), f)
<1>1. Len(s) \in Nat OBVIOUS
<1>2. Kept(s, S, Len(s), f)  BY <1>1, KeptExists
<1>3. Only(s, S) = f[Len(s)]  BY DEF Only, Kept
<1> QED BY <1>2, <1>3

\* Selecting from a longer sequence.
LEMMA OnlyAppend ==
  ASSUME NEW A, NEW s \in Seq(A), NEW x \in A, NEW S
  PROVE  Only(Append(s, x), S) = IF x \in S THEN Append(Only(s, S), x) ELSE Only(s, S)
<1> DEFINE r == Append(s, x)
<1>1. /\ Len(s) \in Nat /\ r \in Seq(A) /\ Len(r) = Len(s) + 1 /\ r[Len(s) + 1] = x
      /\ \A n \in 1..Len(s) : s[n] = r[n]
  OBVIOUS
<1>2. PICK f : Kept(s, S, Len(s), f) /\ Only(s, S) = f[Len(s)]  BY OnlyIs
<1> HIDE DEF r
<1>3. PICK g : Kept(r, S, Len(r), g) /\ Only(r, S) = g[Len(r)]  BY <1>1, OnlyIs
<1>4. f[Len(s)] = g[Len(s)]  BY <1>1, <1>2, <1>3, KeptAgree
<1>5. g[Len(r)] = IF x \in S THEN Append(g[Len(s)], x) ELSE g[Len(s)]
  BY <1>1, <1>3, KeptStep
<1> QED  BY <1>2, <1>3, <1>4, <1>5 DEF r

\* What Only selects of an empty, of a longer and of a joined sequence.
LEMMA OnlyEmpty == ASSUME NEW S PROVE Only(<<>>, S) = <<>>
<1>1. <<>> \in Seq({}) /\ Len(<<>>) = 0  OBVIOUS
<1>2. PICK f : Kept(<<>>, S, 0, f) /\ Only(<<>>, S) = f[0]  BY <1>1, OnlyIs
<1>3. f[0] = <<>>  BY <1>2, KeptZero
<1> QED  BY <1>2, <1>3

\* Induction over sequences that grow at their end, for a set.
LEMMA SequenceInduction ==
  ASSUME NEW A, NEW T, <<>> \in T,
         \A s \in Seq(A), x \in A : s \in T => Append(s, x) \in T
  PROVE  \A s \in Seq(A) : s \in T
<1> DEFINE N == {n \in Nat : \A s \in Seq(A) : Len(s) = n => s \in T}
<1>1. 0 \in N
  <2>1. \A s \in Seq(A) : Len(s) = 0 => s = <<>>  OBVIOUS
  <2> QED  BY <2>1
<1>2. ASSUME NEW n \in Nat, n \in N PROVE n + 1 \in N
  <2> SUFFICES ASSUME NEW s \in Seq(A), Len(s) = n + 1 PROVE s \in T
    OBVIOUS
  <2> DEFINE front == SubSeq(s, 1, n)
  <2>1. front \in Seq(A) /\ Len(front) = n /\ s[n + 1] \in A  OBVIOUS
  <2>2. s = Append(front, s[n + 1])
    <3>1. Append(front, s[n + 1]) \in Seq(A) /\ Len(Append(front, s[n + 1])) = n + 1
      BY <2>1
    <3>2. \A i \in 1..(n + 1) : s[i] = Append(front, s[n + 1])[i]
      OBVIOUS
    <3> HIDE DEF front
    <3> QED  BY <3>1, <3>2
  <2> QED  BY <1>2, <2>1, <2>2
<1> HIDE DEF N
<1>3. \A n \in Nat : n \in N  BY <1>1, <1>2, Induction
<1> QED  BY <1>3 DEF N

\* Appending and joining.
LEMMA AppendConcat ==
  ASSUME NEW A, NEW s \in Seq(A), NEW r \in Seq(A), NEW x \in A
  PROVE  s \o Append(r, x) = Append(s \o r, x) /\ s \o r \in Seq(A)
  OBVIOUS

LEMMA ConcatEmpty == ASSUME NEW A, NEW s \in Seq(A) PROVE s \o <<>> = s /\ <<>> \o s = s
  OBVIOUS

\* The elements of a longer sequence.
LEMMA AppendSet ==
  ASSUME NEW A, NEW s \in Seq(A), NEW x \in A
  PROVE  ToSet(Append(s, x)) = ToSet(s) \cup {x}
<1>1. /\ DOMAIN s = 1..Len(s) /\ DOMAIN Append(s, x) = 1..(Len(s) + 1) /\ Len(s) \in Nat
      /\ Append(s, x)[Len(s) + 1] = x /\ \A i \in 1..Len(s) : Append(s, x)[i] = s[i]
  OBVIOUS
<1> DEFINE r == Append(s, x)
<1> HIDE DEF r
<1>2. \A i \in 1..(Len(s) + 1) : i = Len(s) + 1 \/ i \in 1..Len(s)  BY <1>1
<1>3. \A e \in ToSet(r) : e \in ToSet(s) \/ e = x  BY <1>1, <1>2 DEF ToSet, r
<1>4. x \in ToSet(r)  BY <1>1 DEF ToSet, r
<1>5. \A e \in ToSet(s) : e \in ToSet(r)  BY <1>1 DEF ToSet, r
<1> QED  BY <1>3, <1>4, <1>5 DEF r

\* The elements of joined sequences.
LEMMA ConcatSet ==
  ASSUME NEW A, NEW s \in Seq(A), NEW q \in Seq(A)
  PROVE  s \o q \in Seq(A) /\ ToSet(s \o q) = ToSet(s) \cup ToSet(q)
<1> DEFINE T == {r \in Seq(A) : ToSet(s \o r) = ToSet(s) \cup ToSet(r)}
<1>1. <<>> \in T
  <2>1. s \o <<>> = s /\ <<>> \in Seq(A)  OBVIOUS
  <2>2. ToSet(<<>>) = {}  BY DEF ToSet
  <2> QED  BY <2>1, <2>2
<1>2. ASSUME NEW r \in Seq(A), NEW x \in A, r \in T PROVE Append(r, x) \in T
  <2>1. s \o Append(r, x) = Append(s \o r, x) /\ s \o r \in Seq(A)  BY AppendConcat
  <2>2. \A l \in Seq(A) : ToSet(Append(l, x)) = ToSet(l) \cup {x}  BY AppendSet
  <2>3. Append(r, x) \in Seq(A)  OBVIOUS
  <2> QED  BY <1>2, <2>1, <2>2, <2>3
<1> HIDE DEF T
<1>3. q \in T  BY <1>1, <1>2, SequenceInduction
<1>4. s \o q \in Seq(A)  OBVIOUS
<1> QED  BY <1>3, <1>4 DEF T

\* A sequence is its head and its tail.
LEMMA HeadAndTail ==
  ASSUME NEW A, NEW s \in Seq(A), s # <<>>
  PROVE  /\ Head(s) \in A /\ Tail(s) \in Seq(A) /\ <<Head(s)>> \in Seq(A)
         /\ s = <<Head(s)>> \o Tail(s)
  OBVIOUS

\* Only selects elements of both sets, and no more than there are.
LEMMA OnlyType ==
  ASSUME NEW A, NEW S
  PROVE  \A s \in Seq(A) : Only(s, S) \in Seq(A \cap S) /\ Len(Only(s, S)) <= Len(s)
<1> DEFINE P(r) == Only(r, S) \in Seq(A \cap S) /\ Len(Only(r, S)) <= Len(r)
           T == {r \in Seq(A) : P(r)}
<1>1. P(<<>>)
  <2>1. Only(<<>>, S) = <<>>  BY OnlyEmpty
  <2>2. <<>> \in Seq(A \cap S) /\ Len(<<>>) <= Len(<<>>)  OBVIOUS
  <2> QED  BY <2>1, <2>2
<1>2. ASSUME NEW r \in Seq(A), NEW x \in A, P(r) PROVE P(Append(r, x))
  <2>1. Only(Append(r, x), S) = IF x \in S THEN Append(Only(r, S), x) ELSE Only(r, S)
    BY OnlyAppend
  <2>2. Len(Append(r, x)) = Len(r) + 1 /\ Len(r) \in Nat
    OBVIOUS
  <2>3. \A o \in Seq(A \cap S) : Len(o) \in Nat /\ (x \in S => Append(o, x) \in Seq(A \cap S) /\ Len(Append(o, x)) = Len(o) + 1)
    OBVIOUS
  <2> QED  BY <1>2, <2>1, <2>2, <2>3
<1> HIDE DEF P
<1>3. <<>> \in T /\ \A r \in Seq(A), x \in A : r \in T => Append(r, x) \in T
  BY <1>1, <1>2
<1> HIDE DEF T
<1>4. \A s \in Seq(A) : s \in T  BY <1>3, SequenceInduction
<1> QED  BY <1>4 DEF T, P

LEMMA OnlyIsSeq ==
  ASSUME NEW A, NEW s \in Seq(A), NEW S
  PROVE  Only(s, S) \in Seq(A)
<1>1. Only(s, S) \in Seq(A \cap S)  BY OnlyType
<1>2. A \cap S \subseteq A  OBVIOUS
<1> QED  BY <1>1, <1>2

\* Only distributes over joining, so it can be taken head by head.
LEMMA OnlyConcat ==
  ASSUME NEW A, NEW s \in Seq(A), NEW q \in Seq(A), NEW S
  PROVE  Only(s \o q, S) = Only(s, S) \o Only(q, S)
<1> DEFINE P(r) == Only(s \o r, S) = Only(s, S) \o Only(r, S)
           T == {r \in Seq(A) : P(r)}
<1>1. P(<<>>)
  <2>1. Only(<<>>, S) = <<>> /\ s \o <<>> = s  BY OnlyEmpty
  <2>2. Only(s, S) \o <<>> = Only(s, S)  BY OnlyIsSeq, ConcatEmpty
  <2> QED  BY <2>1, <2>2
<1>2. ASSUME NEW r \in Seq(A), NEW x \in A, P(r) PROVE P(Append(r, x))
  <2>1. Only(Append(r, x), S) = IF x \in S THEN Append(Only(r, S), x) ELSE Only(r, S)
    BY OnlyAppend
  <2>2. s \o Append(r, x) = Append(s \o r, x) /\ s \o r \in Seq(A)
    BY AppendConcat
  <2>3. Only(Append(s \o r, x), S) = IF x \in S THEN Append(Only(s \o r, S), x) ELSE Only(s \o r, S)
    BY <2>2, OnlyAppend
  <2>4. Append(Only(s, S) \o Only(r, S), x) = Only(s, S) \o Append(Only(r, S), x)
    <3>1. Only(s, S) \in Seq(A) /\ Only(r, S) \in Seq(A)  BY OnlyIsSeq
    <3> HIDE DEF P, T
    <3>2. \A u, v \in Seq(A) : u \o Append(v, x) = Append(u \o v, x)  BY AppendConcat
    <3> QED  BY <3>1, <3>2, Zenon
  <2>5. Only(s \o r, S) = Only(s, S) \o Only(r, S)  BY <1>2
  <2> HIDE DEF P
  <2>6. Only(s \o Append(r, x), S) = Only(s, S) \o Only(Append(r, x), S)
    BY <2>1, <2>2, <2>3, <2>4, <2>5
  <2> QED  BY <2>6 DEF P
<1> HIDE DEF P
<1>3. <<>> \in T /\ \A r \in Seq(A), x \in A : r \in T => Append(r, x) \in T
  BY <1>1, <1>2
<1> HIDE DEF T
<1>4. q \in T  BY <1>3, SequenceInduction
<1> QED  BY <1>4 DEF T, P

LEMMA OnlyTail ==
  ASSUME NEW A, NEW s \in Seq(A), s # <<>>, NEW S
  PROVE  Only(s, S) = IF Head(s) \in S THEN <<Head(s)>> \o Only(Tail(s), S) ELSE Only(Tail(s), S)
<1> DEFINE h == Head(s)  q == Tail(s)
<1>1. h \in A /\ q \in Seq(A) /\ <<h>> \in Seq(A) /\ s = <<h>> \o q
  BY HeadAndTail
<1> HIDE DEF h, q
<1>2. Only(<<h>>, S) = IF h \in S THEN <<h>> ELSE <<>>
  <2>1. Only(<<>>, S) = <<>> /\ <<>> \in Seq(A) /\ Append(<<>>, h) = <<h>>  BY OnlyEmpty
  <2>2. Only(Append(<<>>, h), S) = IF h \in S THEN Append(<<>>, h) ELSE <<>>
    BY <1>1, <2>1, OnlyAppend
  <2> QED  BY <2>1, <2>2
<1>3. Only(s, S) = Only(<<h>>, S) \o Only(q, S)
  <2>1. \A w \in Seq(A) : Only(w \o q, S) = Only(w, S) \o Only(q, S)  BY <1>1, OnlyConcat
  <2> QED  BY <1>1, <2>1, Zenon
<1>4. <<>> \o Only(q, S) = Only(q, S)
  BY <1>1, OnlyIsSeq, ConcatEmpty
<1> QED  BY <1>2, <1>3, <1>4 DEF h, q

\* A selection that everything passes.
LEMMA OnlyAll == ASSUME NEW A, NEW S, A \subseteq S PROVE \A s \in Seq(A) : Only(s, S) = s
  <1> DEFINE T == {r \in Seq(A) : Only(r, S) = r}
  <1>1. <<>> \in T BY OnlyEmpty
  <1>2. ASSUME NEW s \in Seq(A), NEW x \in A, s \in T PROVE Append(s, x) \in T
    <2>1. Only(Append(s, x), S) = IF x \in S THEN Append(Only(s, S), x) ELSE Only(s, S) BY OnlyAppend
    <2>2. Append(s, x) \in Seq(A) OBVIOUS
    <2> QED BY <1>2, <2>1, <2>2
  <1> HIDE DEF T
  <1>3. \A s \in Seq(A) : s \in T BY <1>1, <1>2, SequenceInduction
  <1> QED BY <1>3 DEF T

\* What is selected is what is there of S.
LEMMA OnlySet == ASSUME NEW A, NEW S PROVE \A s \in Seq(A) : ToSet(Only(s, S)) = ToSet(s) \cap S
<1> DEFINE T == {r \in Seq(A) : ToSet(Only(r, S)) = ToSet(r) \cap S}
<1>1. <<>> \in T
  <2>1. ToSet(<<>>) = {}  BY DEF ToSet
  <2>2. <<>> \in Seq(A)  OBVIOUS
  <2> QED  BY <2>1, <2>2, OnlyEmpty
<1>2. ASSUME NEW s \in Seq(A), NEW x \in A, s \in T PROVE Append(s, x) \in T
  <2>1. Only(Append(s, x), S) = IF x \in S THEN Append(Only(s, S), x) ELSE Only(s, S)
    BY OnlyAppend
  <2>2. Append(s, x) \in Seq(A) /\ Only(s, S) \in Seq(A)  BY OnlyIsSeq
  <2>3. ToSet(Append(s, x)) = ToSet(s) \cup {x} /\ ToSet(Append(Only(s, S), x)) = ToSet(Only(s, S)) \cup {x}
    BY <2>2, AppendSet
  <2> QED  BY <1>2, <2>1, <2>2, <2>3
<1> HIDE DEF T
<1>3. \A s \in Seq(A) : s \in T  BY <1>1, <1>2, SequenceInduction
<1> QED  BY <1>3 DEF T

\* The first element selected is the first of S; with none of S there is none.
FirstOf(s, S) ==
    /\ Only(s, S) = <<>> => \A i \in DOMAIN s : s[i] \notin S
    /\ Only(s, S) # <<>> => \E i \in DOMAIN s : /\ s[i] \in S /\ Only(s, S)[1] = s[i]
                                               /\ \A j \in DOMAIN s : j < i => s[j] \notin S
LEMMA OnlyFirst == ASSUME NEW A, NEW S PROVE \A s \in Seq(A) : FirstOf(s, S)
<1> DEFINE T == {r \in Seq(A) : FirstOf(r, S)}
<1>1. <<>> \in T  BY OnlyEmpty DEF FirstOf
<1>2. ASSUME NEW s \in Seq(A), NEW x \in A, s \in T PROVE Append(s, x) \in T
  <2> DEFINE r == Append(s, x)
  <2>1. Only(r, S) = IF x \in S THEN Append(Only(s, S), x) ELSE Only(s, S)
    BY OnlyAppend
  <2>2. /\ r \in Seq(A) /\ DOMAIN s = 1..Len(s) /\ DOMAIN r = 1..(Len(s) + 1) /\ Len(s) \in Nat
        /\ r[Len(s) + 1] = x /\ \A i \in 1..Len(s) : r[i] = s[i]
    OBVIOUS
  <2> DEFINE o == Only(s, S)
  <2>3. o \in Seq(A)  BY OnlyIsSeq
  <2> HIDE DEF r, o
  <2>4. FirstOf(s, S)  BY <1>2
  <2>5. \A i \in 1..(Len(s) + 1) : i = Len(s) + 1 \/ i \in 1..Len(s)  BY <2>2
  <2>6. CASE x \notin S
    <3>1. Only(r, S) = o  BY <2>1, <2>6 DEF o
    <3>2. o = <<>> => \A i \in DOMAIN r : r[i] \notin S
      BY <2>2, <2>4, <2>5, <2>6 DEF FirstOf, o
    <3>3. ASSUME o # <<>>
          PROVE \E i \in DOMAIN r : r[i] \in S /\ o[1] = r[i] /\ \A j \in DOMAIN r : j < i => r[j] \notin S
      <4>1. PICK i \in DOMAIN s : s[i] \in S /\ o[1] = s[i] /\ \A j \in DOMAIN s : j < i => s[j] \notin S
        BY <2>4, <3>3 DEF FirstOf, o
      <4>2. i \in DOMAIN r /\ r[i] \in S /\ o[1] = r[i]  BY <2>2, <4>1
      <4>3. \A j \in DOMAIN r : j < i => j \in DOMAIN s /\ r[j] = s[j]  BY <2>2
      <4> QED  BY <4>1, <4>2, <4>3
    <3> QED  BY <2>2, <3>1, <3>2, <3>3 DEF FirstOf, r
  <2>7. CASE x \in S
    <3>1. Only(r, S) = Append(o, x) /\ Append(o, x) # <<>>  BY <2>1, <2>3, <2>7 DEF o
    <3>2. \E i \in DOMAIN r : r[i] \in S /\ Append(o, x)[1] = r[i] /\ \A j \in DOMAIN r : j < i => r[j] \notin S
      <4>1. CASE o = <<>>
        <5>1. Append(o, x)[1] = x  BY <4>1
        <5>2. \A j \in DOMAIN r : j < Len(s) + 1 => j \in DOMAIN s /\ r[j] = s[j]  BY <2>2
        <5>3. \A j \in DOMAIN s : s[j] \notin S  BY <2>4, <4>1 DEF FirstOf, o
        <5>4. Len(s) + 1 \in DOMAIN r  BY <2>2
        <5> QED  BY <2>2, <2>7, <5>1, <5>2, <5>3, <5>4
      <4>2. CASE o # <<>>
        <5>1. Append(o, x)[1] = o[1]  BY <2>3, <4>2
        <5>2. PICK i \in DOMAIN s : s[i] \in S /\ o[1] = s[i] /\ \A j \in DOMAIN s : j < i => s[j] \notin S
          BY <2>4, <4>2 DEF FirstOf, o
        <5>3. i \in DOMAIN r /\ r[i] \in S /\ Append(o, x)[1] = r[i]  BY <2>2, <5>1, <5>2
        <5>4. \A j \in DOMAIN r : j < i => j \in DOMAIN s /\ r[j] = s[j]  BY <2>2
        <5> QED  BY <5>2, <5>3, <5>4
      <4> QED  BY <4>1, <4>2
    <3> QED  BY <2>2, <3>1, <3>2 DEF FirstOf, r
  <2> QED  BY <2>6, <2>7
<1> HIDE DEF T
<1>3. \A s \in Seq(A) : s \in T  BY <1>1, <1>2, SequenceInduction
<1> QED  BY <1>3 DEF T
===============================================================================
