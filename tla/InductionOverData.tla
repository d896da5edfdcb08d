------------------------- MODULE InductionOverData -------------------------
(***************************************************************************)
(* Induction and recursion up to a bound, stated with sets and functions   *)
(* in place of operators, for proofs about what a loop computes.           *)
(***************************************************************************)
EXTENDS Integers, Sequences, WellFoundedInduction, SequenceTheorems, TLAPS

\* A set of numbers has a least one, if any.
LEMMA LeastNumber ==
    ASSUME NEW T, T \subseteq Nat, T # {}
    PROVE  \E x \in T : \A y \in T : x <= y
  <1> DEFINE R == OpToRel(<, Nat)
  <1>1. IsWellFoundedOn(R, Nat)
    BY NatLessThanWellFounded
  <1>2. \A x, y \in Nat : x < y => <<x, y>> \in R
    BY DEF OpToRel
  <1> HIDE DEF R
  <1>3. PICK x \in T : \A y \in T : ~ (<<y, x>> \in R)
    BY <1>1, WFMin
  <1>4. \A y \in T : ~(y < x)
    BY <1>2, <1>3, Zenon
  <1>5. \A y \in T : x <= y
    BY <1>4
  <1> QED
    BY <1>5

\* What holds of 0, and of each number up to N if it holds of the one before, holds
\* of them all; P is the set of the numbers of which it holds.
LEMMA UpTo ==
    ASSUME NEW N \in Nat, NEW P, 0 \in P,
           \A n \in 1..N : n - 1 \in P => n \in P
    PROVE  \A n \in 0..N : n \in P
  <1> DEFINE T == {n \in 0..N : n \notin P}
  <1> SUFFICES ASSUME T # {} PROVE FALSE
    OBVIOUS
  <1>1. T \subseteq Nat
    OBVIOUS
  <1>2. PICK x \in T : \A y \in T : x <= y
    <2> HIDE DEF T
    <2> QED
      BY <1>1, LeastNumber
  <1>3. x \in 1..N
    BY <1>2
  <1>4. x - 1 \in 0..N /\ x - 1 \notin T
    BY <1>2, <1>3
  <1> QED
    BY <1>2, <1>3, <1>4

\* What a loop has after each of its N rounds: it starts with c, and D is what a
\* round makes of what it has and of its number.
IsLoop(f, N, c, D) == f[0] = c /\ \A n \in 1..N : f[n] = D[<<f[n - 1], n>>]

\* Every loop has a course.
LEMMA Loop ==
    ASSUME NEW N \in Nat, NEW S, NEW c \in S, NEW D \in [S \X (1..N) -> S]
    PROVE  \E f \in [0..N -> S] : IsLoop(f, N, c, D)
  <1> DEFINE Rounds(k) == \E f \in [0..k -> S] :
                             f[0] = c /\ \A n \in 1..k : f[n] = D[<<f[n - 1], n>>]
             P == {k \in 0..N : Rounds(k)}
  <1>1. Rounds(0)
    <2> DEFINE f == [n \in 0..0 |-> c]
    <2>1. f \in [0..0 -> S] /\ f[0] = c /\ \A n \in 1..0 : f[n] = D[<<f[n - 1], n>>]
      OBVIOUS
    <2> QED
      BY <2>1
  <1>2. ASSUME NEW k \in 1..N, Rounds(k - 1)
        PROVE  Rounds(k)
    <2>1. PICK f \in [0..(k - 1) -> S] :
            f[0] = c /\ \A n \in 1..(k - 1) : f[n] = D[<<f[n - 1], n>>]
      BY <1>2
    <2> DEFINE x == D[<<f[k - 1], k>>]
               g == [n \in 0..k |-> IF n = k THEN x ELSE f[n]]
    <2>2. x \in S
      <3>1. f[k - 1] \in S
        BY <2>1
      <3> QED
        BY <3>1
    <2>3. g \in [0..k -> S] /\ g[0] = c
      BY <2>1, <2>2
    <2>4. g[k] = x /\ g[k - 1] = f[k - 1]
      OBVIOUS
    <2>5. \A n \in 1..(k - 1) : g[n] = f[n] /\ g[n - 1] = f[n - 1]
      OBVIOUS
    <2> HIDE DEF g
    <2>6. \A n \in 1..k : g[n] = D[<<g[n - 1], n>>]
      <3> TAKE n \in 1..k
      <3>1. CASE n = k
        BY <2>4, <3>1
      <3>2. CASE n # k
        <4>1. n \in 1..(k - 1)
          BY <3>2
        <4> QED
          BY <2>1, <2>5, <4>1
      <3> QED
        BY <3>1, <3>2
    <2> QED
      BY <2>3, <2>6
  <1> HIDE DEF Rounds
  <1>3. 0 \in P /\ \A n \in 1..N : n - 1 \in P => n \in P
    BY <1>1, <1>2
  <1> HIDE DEF P
  <1>4. \A n \in 0..N : n \in P
    BY <1>3, UpTo
  <1>5. Rounds(N)
    BY <1>4 DEF P
  <1> QED
    BY <1>5 DEF Rounds, IsLoop

\* What holds of the empty sequence, and of a sequence and one element more, holds of
\* every sequence; P is the set of those of which it holds.
LEMMA SequencesIn ==
    ASSUME NEW S, NEW P, <<>> \in P,
           \A q \in Seq(S), e \in S : q \in P => Append(q, e) \in P
    PROVE  \A q \in Seq(S) : q \in P
  <1> DEFINE Q == {n \in Nat : \A q \in Seq(S) : Len(q) = n => q \in P}
  <1>1. 0 \in Q
    BY EmptySeq
  <1>2. ASSUME NEW n \in Nat \ {0}, n - 1 \in Q
        PROVE  n \in Q
    <2> SUFFICES ASSUME NEW q \in Seq(S), Len(q) = n
                 PROVE  q \in P
      OBVIOUS
    <2>1. q # <<>>
      BY EmptySeq
    <2>2. PICK s \in Seq(S), e \in S : q = Append(s, e)
      BY <2>1, SequenceEmptyOrAppend
    <2>3. Len(s) = n - 1
      BY <2>2, LenProperties, AppendProperties
    <2> QED
      BY <1>2, <2>2, <2>3
  <1> HIDE DEF Q
  <1>3. ASSUME NEW n \in Nat
        PROVE  n \in Q
    <2>1. \A k \in 1..n : k - 1 \in Q => k \in Q
      BY <1>2
    <2>2. n \in 0..n
      OBVIOUS
    <2> QED
      BY <1>1, <2>1, <2>2, UpTo
  <1> SUFFICES ASSUME NEW q \in Seq(S)
               PROVE  q \in P
    OBVIOUS
  <1>4. Len(q) \in Q
    BY <1>3, LenProperties
  <1> QED
    BY <1>4 DEF Q
=============================================================================
