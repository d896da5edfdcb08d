----------------------- MODULE HeartRateFilterProofs -----------------------
(***************************************************************************)
(* What HeartRateFilter promises, proved for every set of rates, all sizes *)
(* and thresholds.                                                         *)
(***************************************************************************)
EXTENDS HeartRateFilter, InductionOverData, FiniteSetTheorems

-----------------------------------------------------------------------------
(* Helpers                                                                 *)

\* A buffer keeps its size and shifts by one.
LEMMA FifoInserted ==
    ASSUME NEW N \in Nat \ {0}, NEW fifo \in [1..N -> Nat], NEW value \in Nat
    PROVE  /\ Fifo_insert(fifo, value) \in [1..N -> Nat]
           /\ Fifo_insert(fifo, value)[1] = value
           /\ \A k \in 2..N : Fifo_insert(fifo, value)[k] = fifo[k - 1]
  <1>1. fifo \in Seq(Nat) /\ Len(fifo) = N
    OBVIOUS
  <1> DEFINE tail == SubSeq(fifo, 1, N - 1)
  <1>2. tail \in Seq(Nat) /\ Len(tail) = N - 1 /\ \A k \in 1..(N - 1) : tail[k] = fifo[k]
    BY <1>1
  <1> HIDE DEF tail
  <1> DEFINE g == <<value>> \o tail
  <1>3. g \in Seq(Nat) /\ Len(g) = N
    BY <1>2
  <1>4. g[1] = value /\ \A k \in 2..N : g[k] = tail[k - 1]
    BY <1>2
  <1>5. g \in [1..N -> Nat]
    <2> HIDE DEF g
    <2> QED
      BY <1>3
  <1>6. Fifo_insert(fifo, value) = g
    BY <1>1 DEF Fifo_insert, g, tail
  <1> HIDE DEF g
  <1>7. \A k \in 2..N : k - 1 \in 1..(N - 1)
    OBVIOUS
  <1> QED
    BY <1>2, <1>4, <1>5, <1>6, <1>7

\* A buffer that has taken a value.
Shifted(N, old, new, v) ==
    /\ new \in [1..N -> Nat] /\ new[1] = v
    /\ \A k \in 2..N : new[k] = old[k - 1]

LEMMA InsertedFirst ==
    ASSUME NEW N, N \in Nat \ {0}, NEW fifo, fifo \in [1..N -> Nat], NEW v, v \in Nat,
           NEW g, g = Fifo_insert(fifo, v)
    PROVE  Shifted(N, fifo, g, v)
<1>1. /\ Fifo_insert(fifo, v) \in [1..N -> Nat]
      /\ Fifo_insert(fifo, v)[1] = v
      /\ \A k \in 2..N : Fifo_insert(fifo, v)[k] = fifo[k - 1]
  BY FifoInserted
<1> QED
  BY <1>1 DEF Shifted

\* What fits does not wrap.
LEMMA SmallRemainder ==
    ASSUME NEW m \in Nat \ {0}, NEW x \in Nat, x < m
    PROVE  x % m = x
  <1> DEFINE q == x \div m
             r == x % m
  <1>1. q \in Int /\ r \in 0..(m - 1) /\ x = m * q + r
    OBVIOUS
  <1> HIDE DEF q, r
  <1>2. q < 1
    <2> SUFFICES ASSUME q >= 1 PROVE FALSE
      BY <1>1
    <2>1. m * q >= m
      BY <1>1
    <2> QED
      BY <1>1, <2>1
  <1>3. q > -1
    <2> SUFFICES ASSUME q <= -1 PROVE FALSE
      BY <1>1
    <2>1. m * q <= -m
      BY <1>1
    <2> QED
      BY <1>1, <2>1
  <1>4. m * q = 0
    BY <1>1, <1>2, <1>3
  <1> QED
    BY <1>1, <1>4 DEF r

\* One more in a set.
LEMMA OneMore ==
    ASSUME NEW S, NEW x, x \notin S, IsFiniteSet(S)
    PROVE  IsFiniteSet(S \cup {x}) /\ Cardinality(S \cup {x}) = Cardinality(S) + 1
  BY FS_AddElement

\* The sum, value by value.
LEMMA SumSteps ==
    ASSUME NEW N \in Nat, NEW values \in [1..N -> Nat]
    PROVE  \E sum \in [0..N -> Nat] :
              /\ sum[0] = 0 /\ Sum16(values) = sum[N]
              /\ \A n \in 1..N : sum[n] = (sum[n - 1] + values[n]) % UINT16
  <1>1. Len(values) = N
    OBVIOUS
  <1>2. UINT16 \in Nat \ {0}
    BY WidthAssumption, ThresholdAssumption, SizeAssumption
  <1> DEFINE D == [x \in Nat \X (1..N) |-> (x[1] + values[x[2]]) % UINT16]
  <1>3. \A x \in Nat, n \in 1..N : x + values[n] \in Nat
    OBVIOUS
  <1>4. \A a \in Nat : a % UINT16 \in Nat
    BY <1>2
  <1>5. D \in [Nat \X (1..N) -> Nat]
    BY <1>3, <1>4
  <1>6. \A x \in Nat, n \in 1..N : D[<<x, n>>] = (x + values[n]) % UINT16
    OBVIOUS
  <1> HIDE DEF D
  <1>7. PICK f \in [0..N -> Nat] : f[0] = 0 /\ \A n \in 1..N : f[n] = D[<<f[n - 1], n>>]
    <2>1. 0 \in Nat
      OBVIOUS
    <2>2. PICK f \in [0..N -> Nat] : IsLoop(f, N, 0, D)
      BY <1>5, <2>1, Loop
    <2> QED
      BY <2>2 DEF IsLoop
  <1> DEFINE Def(g) == g = [n \in 0..N |-> IF n = 0 THEN 0 ELSE (g[n - 1] + values[n]) % UINT16]
             sum == CHOOSE g : Def(g)
  <1>8. Def(f)
    <2>1. \A n \in 1..N : n - 1 \in 0..N
      OBVIOUS
    <2>2. \A n \in 1..N : f[n - 1] \in Nat
      BY <2>1
    <2>3. \A n \in 1..N : f[n] = (f[n - 1] + values[n]) % UINT16
      BY <1>6, <1>7, <2>2, Zenon
    <2>4. \A n \in 0..N : f[n] = IF n = 0 THEN 0 ELSE (f[n - 1] + values[n]) % UINT16
      BY <1>7, <2>3
    <2> QED
      BY <1>7, <2>4
  <1>9. Def(sum)
    <2> HIDE DEF Def
    <2> QED
      BY <1>8, Zenon
  <1>10. Sum16(values) = sum[N]
    BY <1>1, Zenon DEF Sum16
  <1> HIDE DEF sum
  <1>11. sum[0] = 0 /\ \A n \in 1..N : sum[n] = (sum[n - 1] + values[n]) % UINT16
    BY <1>9
  <1> DEFINE P == {n \in 0..N : sum[n] \in Nat}
  <1>12. 0 \in P
    BY <1>11
  <1>13. ASSUME NEW n \in 1..N, n - 1 \in P
         PROVE  n \in P
    <2>1. sum[n - 1] + values[n] \in Nat
      BY <1>13
    <2>2. sum[n] \in Nat
      BY <1>4, <1>11, <2>1
    <2> QED
      BY <2>2
  <1>14. \A n \in 0..N : sum[n] \in Nat
    <2> HIDE DEF P
    <2>1. \A n \in 1..N : n - 1 \in P => n \in P
      BY <1>13
    <2>2. \A n \in 0..N : n \in P
      BY <1>12, <2>1, UpTo
    <2> QED
      BY <2>2 DEF P
  <1>15. sum \in [0..N -> Nat]
    BY <1>9, <1>14
  <1> QED
    BY <1>10, <1>11, <1>15

\* However the sum wraps, it is at most that of the highest value.
LEMMA SumAtMost ==
    ASSUME NEW N \in Nat, NEW values \in [1..N -> Nat], NEW b \in Nat,
           \A k \in 1..N : values[k] <= b
    PROVE  Sum16(values) \in Nat /\ Sum16(values) <= b * N
  <1>1. PICK sum \in [0..N -> Nat] :
          /\ sum[0] = 0 /\ Sum16(values) = sum[N]
          /\ \A n \in 1..N : sum[n] = (sum[n - 1] + values[n]) % UINT16
    BY SumSteps
  <1>2. UINT16 \in Nat \ {0}
    BY WidthAssumption, ThresholdAssumption, SizeAssumption
  <1>3. \A a \in Nat : a % UINT16 <= a
    BY <1>2
  <1> DEFINE P == {n \in 0..N : sum[n] <= b * n}
  <1>4. 0 \in P
    BY <1>1
  <1>5. ASSUME NEW n \in 1..N, n - 1 \in P
        PROVE  n \in P
    <2>1. sum[n - 1] \in Nat /\ sum[n - 1] <= b * (n - 1) /\ values[n] \in Nat /\ values[n] <= b
      BY <1>5
    <2>2. sum[n] \in Nat /\ sum[n] <= sum[n - 1] + values[n]
      BY <1>1, <1>3, <2>1
    <2>3. b * (n - 1) + b = b * n
      OBVIOUS
    <2> QED
      BY <2>1, <2>2, <2>3
  <1>6. N \in P
    <2> HIDE DEF P
    <2>1. \A n \in 1..N : n - 1 \in P => n \in P
      BY <1>5
    <2>2. \A n \in 0..N : n \in P
      BY <1>4, <2>1, UpTo
    <2> QED
      BY <2>2
  <1> QED
    BY <1>1, <1>6

\* The average of values between a and b, the zeros left out, is between them: the
\* sum does not wrap and grows by a at least and b at most with each value counted.
LEMMA SumBetween ==
    ASSUME NEW N \in Nat, NEW values \in [1..N -> Nat], NEW a \in Nat, NEW b \in Nat,
           \A k \in 1..N : values[k] = 0 \/ values[k] \in a..b, a > 0,
           b * N < UINT16
    PROVE  LET counted == Cardinality({k \in DOMAIN values : values[k] # 0})
           IN counted \in Nat /\ a * counted <= Sum16(values) /\ Sum16(values) <= b * counted
  <1>1. PICK sum \in [0..N -> Nat] :
          /\ sum[0] = 0 /\ Sum16(values) = sum[N]
          /\ \A n \in 1..N : sum[n] = (sum[n - 1] + values[n]) % UINT16
    BY SumSteps
  <1>2. UINT16 \in Nat \ {0}
    BY WidthAssumption, ThresholdAssumption, SizeAssumption
  <1>3. \A x \in Nat : x < UINT16 => x % UINT16 = x
    BY <1>2, SmallRemainder
  <1> DEFINE S(n) == {k \in 1..n : values[k] # 0}
             P == {n \in 0..N : /\ IsFiniteSet(S(n)) /\ Cardinality(S(n)) \in Nat
                                /\ Cardinality(S(n)) <= n
                                /\ a * Cardinality(S(n)) <= sum[n]
                                /\ sum[n] <= b * Cardinality(S(n))}
  <1>4. 0 \in P
    <2>1. S(0) = {}
      OBVIOUS
    <2>2. IsFiniteSet(S(0)) /\ Cardinality(S(0)) = 0
      BY <2>1, FS_EmptySet
    <2> QED
      BY <1>1, <2>2
  <1>5. ASSUME NEW n \in 1..N, n - 1 \in P
        PROVE  n \in P
    <2> DEFINE T == S(n - 1)
               U == S(n)
               c == Cardinality(T)
               d == Cardinality(U)
    <2>1. /\ IsFiniteSet(T) /\ c \in Nat /\ c <= n - 1
          /\ a * c <= sum[n - 1] /\ sum[n - 1] <= b * c
      BY <1>5
    <2>0. c <= N /\ b * c <= b * N
      <3> HIDE DEF c
      <3> QED
        BY <2>1
    <2>5. 1..n = (1..(n - 1)) \cup {n} /\ n \notin 1..(n - 1)
      OBVIOUS
    <2>2. sum[n - 1] \in Nat /\ values[n] \in Nat /\ (values[n] = 0 \/ values[n] \in a..b)
      OBVIOUS
    <2>3. CASE values[n] = 0
      <3>1. U = T
        BY <2>3, <2>5
      <3> HIDE DEF T, U
      <3>2. IsFiniteSet(U) /\ d = c
        BY <2>1, <3>1
      <3> HIDE DEF c, d
      <3>3. sum[n - 1] < UINT16
        <4> DEFINE most == b * c
                   room == b * N
        <4>1. most \in Nat /\ room \in Nat
          BY <2>1
        <4>2. sum[n - 1] <= most /\ most <= room /\ room < UINT16
          BY <2>0, <2>1
        <4> HIDE DEF most, room
        <4> QED
          BY <1>2, <2>2, <4>1, <4>2
      <3>4. sum[n] = sum[n - 1]
        BY <1>1, <1>3, <2>2, <2>3, <3>3
      <3>5. d \in Nat /\ d <= n /\ a * d <= sum[n] /\ sum[n] <= b * d
        BY <2>1, <3>2, <3>4
      <3> QED
        BY <3>2, <3>5 DEF U, d
    <2>4. CASE values[n] # 0
      <3>1. U = T \cup {n} /\ n \notin T
        BY <2>4, <2>5
      <3> HIDE DEF T, U
      <3>2. IsFiniteSet(U) /\ d = c + 1
        BY <2>1, <3>1, OneMore, Zenon
      <3> HIDE DEF c, d
      <3>3. a * (c + 1) = a * c + a /\ b * (c + 1) = b * c + b
        BY <2>1
      <3>4. sum[n - 1] + values[n] <= b * (c + 1) /\ a * (c + 1) <= sum[n - 1] + values[n]
        BY <2>1, <2>2, <2>4, <3>3
      <3>5. b * (c + 1) <= b * N
        <4>1. c + 1 <= N
          BY <2>1
        <4> QED
          BY <2>1, <4>1
      <3>6. b * (c + 1) \in Nat /\ b * N \in Nat
        BY <2>1
      <3>7. sum[n - 1] + values[n] < UINT16
        BY <1>2, <2>2, <3>4, <3>5, <3>6
      <3>8. sum[n] = sum[n - 1] + values[n]
        BY <1>1, <1>3, <2>2, <3>7
      <3>9. d \in Nat /\ d <= n /\ a * d <= sum[n] /\ sum[n] <= b * d
        BY <2>1, <3>2, <3>4, <3>8
      <3> QED
        BY <3>2, <3>9 DEF U, d
    <2> QED
      BY <2>3, <2>4
  <1>6. N \in P
    <2> HIDE DEF P
    <2>1. \A n \in 1..N : n - 1 \in P => n \in P
      BY <1>5
    <2>2. \A n \in 0..N : n \in P
      BY <1>4, <2>1, UpTo
    <2> QED
      BY <2>2
  <1>7. {k \in DOMAIN values : values[k] # 0} = S(N)
    OBVIOUS
  <1> HIDE DEF S
  <1> QED
    BY <1>1, <1>6, <1>7

\* A quotient stays between the bounds that its parts have.
LEMMA Quotient ==
    ASSUME NEW s \in Nat, NEW c \in Nat \ {0}, NEW a \in Nat, NEW b \in Nat,
           a * c <= s, s <= b * c
    PROVE  s \div c \in a..b
  <1> DEFINE q == s \div c
  <1>1. q \in Nat /\ q * c <= s /\ s < (q + 1) * c
    OBVIOUS
  <1> HIDE DEF q
  <1>2. a < q + 1
    <2> SUFFICES ASSUME q + 1 <= a PROVE FALSE
      BY <1>1
    <2>1. (q + 1) * c <= a * c
      BY <1>1
    <2> QED
      BY <1>1, <2>1
  <1>3. q <= b
    <2> SUFFICES ASSUME b + 1 <= q PROVE FALSE
      BY <1>1
    <2>1. (b + 1) * c <= q * c
      BY <1>1
    <2>2. (b + 1) * c = b * c + c
      OBVIOUS
    <2> QED
      BY <1>1, <2>1, <2>2
  <1> QED
    BY <1>1, <1>2, <1>3 DEF q

-----------------------------------------------------------------------------
(* The inductive invariant                                                 *)

\* The memory of the filter.
MemoryInv ==
    /\ smooth_status \in {"BEFORE", "MIDDLE", "AFTER"}
    /\ p_smooth_value \in Nat /\ zero_num \in Nat
    /\ hb_origin_buff \in [1..HB_SMOOTH_ORIGIN_SIZE -> Nat]
    /\ hb_smooth_buff \in [1..HB_SMOOTH_BUFF_SIZE -> Nat]

\* zero_num counts the zeros in front while there are any, and only then.
ZeroInv ==
    /\ (smooth_status = "MIDDLE" /\ hb_origin_buff[1] = 0) =>
          /\ zero_num \in 1..(HB_YZERO_THRESHOLD - 1)
          /\ \A k \in 1..zero_num : hb_origin_buff[k] = 0
          /\ hb_origin_buff[zero_num + 1] # 0
    /\ smooth_status = "AFTER" => \A k \in 1..HB_YZERO_THRESHOLD : hb_origin_buff[k] = 0

\* With rates of a heart, what is given out and what it is the average of are
\* between the lowest and the highest.
RangeInv ==
    /\ lo \in 0..(UINT8 - 1) /\ hi \in Rate \cup {0}
    /\ lo >= HB_MIN_VALUE =>
          /\ smooth_status # "AFTER"
          /\ p_smooth_value = 0 \/ p_smooth_value \in lo..hi
          /\ smooth_status = "MIDDLE" =>
                /\ p_smooth_value # 0
                /\ \A k \in 1..HB_SMOOTH_BUFF_SIZE :
                      hb_smooth_buff[k] = 0 \/ hb_smooth_buff[k] \in lo..hi

FilterInv == MemoryInv /\ ZeroInv /\ RangeInv

\* What the assumptions say of the constants.
LEMMA Thresholds ==
    /\ UINT8 \in Nat \ {0} /\ UINT16 \in Nat \ {0}
    /\ HB_MIN_VALUE \in Nat \ {0} /\ HB_SMOOTH_THRESHOLD \in Nat /\ HB_SMOOTH_FILTER \in Nat
    /\ HB_SMOOTH_THRESHOLD < HB_SMOOTH_FILTER /\ HB_SMOOTH_FILTER <= HB_MIN_VALUE
    /\ HB_SMOOTH_COUNT \in 1..HB_SMOOTH_ORIGIN_SIZE
    /\ HB_YZERO_THRESHOLD \in 1..HB_SMOOTH_ORIGIN_SIZE /\ HB_YZERO_THRESHOLD < UINT8
    /\ HB_SMOOTH_ORIGIN_SIZE \in Nat \ {0} /\ HB_SMOOTH_BUFF_SIZE \in Nat \ {0}
    /\ \A r \in Rate \cup {0} :
          /\ r \in Nat /\ r < UINT8
          /\ r # 0 => r + HB_SMOOTH_FILTER < UINT8
          /\ r * HB_SMOOTH_BUFF_SIZE < UINT16
  <1>1. /\ UINT8 \in Nat \ {0} /\ UINT16 \in Nat \ {0}
        /\ HB_MIN_VALUE \in Nat \ {0} /\ HB_SMOOTH_THRESHOLD \in Nat /\ HB_SMOOTH_FILTER \in Nat
        /\ HB_SMOOTH_THRESHOLD < HB_SMOOTH_FILTER /\ HB_SMOOTH_FILTER <= HB_MIN_VALUE
        /\ HB_SMOOTH_COUNT \in 1..HB_SMOOTH_ORIGIN_SIZE
        /\ HB_YZERO_THRESHOLD \in 1..HB_SMOOTH_ORIGIN_SIZE /\ HB_YZERO_THRESHOLD < UINT8
        /\ HB_SMOOTH_ORIGIN_SIZE \in Nat \ {0} /\ HB_SMOOTH_BUFF_SIZE \in Nat \ {0}
    BY WidthAssumption, ThresholdAssumption, SizeAssumption
  <1>2. ASSUME NEW r \in Rate
        PROVE  /\ r \in Nat /\ r < UINT8 /\ r + HB_SMOOTH_FILTER < UINT8
               /\ r * HB_SMOOTH_BUFF_SIZE < UINT16
    BY <1>1, WidthAssumption, RateAssumption, SumAssumption
  <1>3. 0 * HB_SMOOTH_BUFF_SIZE = 0
    BY <1>1
  <1> QED
    BY <1>1, <1>2, <1>3

\* After a zero, rates that are steady are not those of a heart.
LEMMA ZerosNotPlausible ==
    ASSUME NEW buff \in [1..HB_SMOOTH_ORIGIN_SIZE -> Nat],
           \A k \in 1..HB_SMOOTH_COUNT : buff[k] <= HB_SMOOTH_THRESHOLD
    PROVE  ~(Sum16(SubSeq(buff, 1, HB_SMOOTH_COUNT)) \div HB_SMOOTH_COUNT >= HB_MIN_VALUE)
  <1> DEFINE latest == SubSeq(buff, 1, HB_SMOOTH_COUNT)
             s == Sum16(latest)
  <1>1. buff \in Seq(Nat) /\ Len(buff) = HB_SMOOTH_ORIGIN_SIZE
    BY Thresholds
  <1>2. latest \in Seq(Nat) /\ Len(latest) = HB_SMOOTH_COUNT
        /\ \A k \in 1..HB_SMOOTH_COUNT : latest[k] = buff[k]
    BY <1>1, Thresholds
  <1> HIDE DEF latest
  <1>3. latest \in [1..HB_SMOOTH_COUNT -> Nat] /\ HB_SMOOTH_COUNT \in Nat \ {0}
    BY <1>2, Thresholds
  <1>4. s \in Nat /\ s <= HB_SMOOTH_THRESHOLD * HB_SMOOTH_COUNT
    BY <1>2, <1>3, Thresholds, SumAtMost
  <1> HIDE DEF s
  <1>5. 0 * HB_SMOOTH_COUNT <= s
    BY <1>3, <1>4
  <1>6. s \div HB_SMOOTH_COUNT \in 0..HB_SMOOTH_THRESHOLD
    <2>1. HB_SMOOTH_THRESHOLD \in Nat /\ 0 \in Nat
      BY Thresholds
    <2> QED
      BY <1>3, <1>4, <1>5, <2>1, Quotient
  <1> QED
    BY <1>6, Thresholds DEF s, latest

\* No threshold wraps around a rate of a heart: what is corrected stays between the
\* lowest and the highest value.
LEMMA LimitedBetween ==
    ASSUME NEW a \in Nat, NEW b \in Rate \cup {0}, a >= HB_MIN_VALUE,
           NEW p \in a..b, NEW v \in a..b
    PROVE  Limited(p, v) \in a..b
  <1>1. p \in Nat /\ v \in Nat /\ b \in Nat /\ b # 0 /\ b + HB_SMOOTH_FILTER < UINT8
    BY Thresholds
  <1> DEFINE T == HB_SMOOTH_THRESHOLD
             F == HB_SMOOTH_FILTER
  <1>2. /\ p + T \in Nat /\ p + T < UINT8 /\ p + F \in Nat /\ p + F < UINT8
        /\ p - T \in Nat /\ p - T < UINT8 /\ p - F \in Nat /\ p - F < UINT8
    BY <1>1, Thresholds
  <1>3. Above(p, T) = p + T /\ Above(p, F) = p + F /\ Below(p, T) = p - T /\ Below(p, F) = p - F
    BY <1>2, Thresholds, SmallRemainder DEF Above, Below
  <1> HIDE DEF T, F
  <1>4. Limited(p, v) = IF v > p + F THEN p + T
                        ELSE IF v < p - F THEN p - T
                        ELSE IF v > p + T \/ v < p - T THEN p ELSE v
    BY <1>3, Zenon DEF Limited, T, F
  <1>5. T \in Nat /\ F \in Nat /\ T < F
    BY Thresholds DEF T, F
  <1>6. /\ v > p + F => p + T \in a..b
        /\ v < p - F => p - T \in a..b
    BY <1>1, <1>5
  <1> QED
    BY <1>4, <1>6

\* What the filter keeps are numbers.
LEMMA LimitedNat ==
    ASSUME NEW p \in Nat, NEW v \in Nat
    PROVE  Limited(p, v) \in Nat
  <1>1. \A x \in Int : x % UINT8 \in Nat
    BY Thresholds
  <1>2. \A d \in Nat : p + d \in Int /\ p - d \in Int
    OBVIOUS
  <1>3. \A d \in Nat : Above(p, d) \in Nat /\ Below(p, d) \in Nat
    BY <1>1, <1>2 DEF Above, Below
  <1>4. Above(p, HB_SMOOTH_THRESHOLD) \in Nat /\ Below(p, HB_SMOOTH_THRESHOLD) \in Nat
    BY <1>3, Thresholds
  <1> QED
    BY <1>4 DEF Limited

\* The average of what the filter keeps.
LEMMA AverageNat ==
    ASSUME NEW N \in Nat \ {0}, NEW data \in [1..N -> Nat]
    PROVE  Get_average(data) \in Nat
  <1> DEFINE counted == Cardinality({k \in DOMAIN data : data[k] # 0})
             s == Sum16(data)
  <1> SUFFICES ASSUME s # 0 PROVE (s \div counted) % UINT8 \in Nat
    BY DEF Get_average
  <1>1. s \in Nat
    <2>1. PICK sum \in [0..N -> Nat] : Sum16(data) = sum[N]
      BY SumSteps
    <2> QED
      BY <2>1
  <1>2. counted \in Nat \ {0}
    <2>1. IsFiniteSet({k \in DOMAIN data : data[k] # 0})
      <3>1. IsFiniteSet(1..N)
        BY FS_Interval
      <3> QED
        BY <3>1, FS_Subset
    <2>2. counted \in Nat
      BY <2>1, FS_CardinalityType
    <2>3. CASE counted = 0
      <3>1. {k \in DOMAIN data : data[k] # 0} = {}
        BY <2>1, <2>3, FS_EmptySet
      <3>2. \A k \in 1..N : data[k] <= 0
        BY <3>1
      <3>3. s <= 0 * N
        BY <3>2, SumAtMost
      <3> QED
        BY <1>1, <3>3
    <2> QED
      BY <2>2, <2>3
  <1> HIDE DEF counted, s
  <1>3. s \div counted \in Int
    BY <1>1, <1>2
  <1> QED
    BY <1>3, Thresholds

\* The average of corrected rates, the empty slots left out.
LEMMA AverageBetween ==
    ASSUME NEW N \in Nat \ {0}, NEW data \in [1..N -> Nat],
           NEW a \in Nat \ {0}, NEW b \in Nat, b < UINT8, b * N < UINT16,
           data[1] # 0, \A k \in 1..N : data[k] = 0 \/ data[k] \in a..b
    PROVE  Get_average(data) \in a..b
  <1> DEFINE S == {k \in DOMAIN data : data[k] # 0}
             counted == Cardinality(S)
             s == Sum16(data)
  <1>1. counted \in Nat /\ a * counted <= s /\ s <= b * counted
    <2>1. a > 0 /\ a \in Nat /\ N \in Nat
      OBVIOUS
    <2> QED
      BY <2>1, SumBetween
  <1>2. counted # 0
    <2>1. IsFiniteSet(1..N)
      BY FS_Interval
    <2>2. IsFiniteSet(S) /\ 1 \in S
      BY <2>1, FS_Subset
    <2> HIDE DEF S
    <2> QED
      BY <2>2, FS_EmptySet
  <1>3. s \in Nat
    <2>1. PICK sum \in [0..N -> Nat] : Sum16(data) = sum[N]
      BY SumSteps
    <2> QED
      BY <2>1
  <1>4. Get_average(data) = IF s = 0 THEN 0 ELSE (s \div counted) % UINT8
    BY DEF Get_average
  <1> HIDE DEF s, counted
  <1>5. s # 0
    BY <1>1, <1>2, <1>3
  <1>6. s \div counted \in a..b
    BY <1>1, <1>2, <1>3, Quotient
  <1>7. (s \div counted) % UINT8 = s \div counted
    BY <1>6, Thresholds, SmallRemainder
  <1> QED
    BY <1>4, <1>5, <1>6, <1>7

-----------------------------------------------------------------------------
(* The steps                                                               *)

\* A new value in front of the others.
LEMMA Inserted ==
    ASSUME MemoryInv, RangeInv, NEW v \in Rate, Insert(v)
    PROVE  /\ hb_origin_buff' \in [1..HB_SMOOTH_ORIGIN_SIZE -> Nat]
           /\ hb_origin_buff'[1] = v
           /\ \A k \in 2..HB_SMOOTH_ORIGIN_SIZE : hb_origin_buff'[k] = hb_origin_buff[k - 1]
           /\ lo' \in 0..(UINT8 - 1) /\ hi' \in Rate \cup {0}
           /\ lo' <= lo /\ hi <= hi' /\ v \in lo'..hi'
  <1>1. v \in Nat /\ v < UINT8 /\ hi \in Nat /\ hi < UINT8 /\ lo \in Nat
    BY Thresholds DEF RangeInv
  <1>2. hb_origin_buff' = Fifo_insert(hb_origin_buff, v)
    BY DEF Insert
  <1>3. /\ hb_origin_buff' \in [1..HB_SMOOTH_ORIGIN_SIZE -> Nat]
        /\ hb_origin_buff'[1] = v
        /\ \A k \in 2..HB_SMOOTH_ORIGIN_SIZE : hb_origin_buff'[k] = hb_origin_buff[k - 1]
    <2>1. HB_SMOOTH_ORIGIN_SIZE \in Nat \ {0} /\ hb_origin_buff \in [1..HB_SMOOTH_ORIGIN_SIZE -> Nat]
      BY Thresholds DEF MemoryInv
    <2>2. v \in Nat
      BY <1>1
    <2>3. Shifted(HB_SMOOTH_ORIGIN_SIZE, hb_origin_buff, hb_origin_buff', v)
      BY <1>2, <2>1, <2>2, InsertedFirst, Zenon
    <2> QED
      BY <2>3 DEF Shifted
  <1>4. /\ lo' \in 0..(UINT8 - 1) /\ hi' \in Rate \cup {0}
        /\ lo' <= lo /\ hi <= hi' /\ v \in lo'..hi'
    BY <1>1, Thresholds DEF Insert, RangeInv
  <1> QED
    BY <1>3, <1>4

\* A memory that was cleared.
LEMMA ClearedInv ==
    ASSUME Cleared, lo' = UINT8 - 1, hi' = 0
    PROVE  FilterInv'
  <1>1. MemoryInv'
    BY Thresholds DEF MemoryInv, Cleared, Zeros
  <1>2. ZeroInv'
    BY DEF ZeroInv, Cleared
  <1>3. RangeInv'
    BY Thresholds DEF RangeInv, Cleared
  <1> QED
    BY <1>1, <1>2, <1>3 DEF FilterInv

\* At first nothing is given out, or the value itself.
LEMMA BeforeStep ==
    ASSUME FilterInv, NEW v \in Rate, SmoothBefore(v)
    PROVE  FilterInv'
  <1>1. /\ hb_origin_buff' \in [1..HB_SMOOTH_ORIGIN_SIZE -> Nat]
        /\ hb_origin_buff'[1] = v
        /\ lo' \in 0..(UINT8 - 1) /\ hi' \in Rate \cup {0}
        /\ lo' <= lo /\ hi <= hi' /\ v \in lo'..hi'
    BY Inserted DEF FilterInv, SmoothBefore
  <1>2. v \in Nat /\ smooth_status = "BEFORE" /\ (p_smooth_value' = v \/ p_smooth_value' = 0)
    BY Thresholds DEF SmoothBefore
  <1>3. \/ /\ Plausible /\ Steady(v) /\ p_smooth_value' = v
           /\ smooth_status' = "MIDDLE" /\ hb_smooth_buff' = Zeros(HB_SMOOTH_BUFF_SIZE)
        \/ smooth_status' = smooth_status /\ hb_smooth_buff' = hb_smooth_buff
    BY Zenon DEF SmoothBefore
  <1>4. v = 0 => ~(Plausible /\ Steady(v))
    <2> SUFFICES ASSUME v = 0, Steady(v) PROVE ~Plausible
      OBVIOUS
    <2> DEFINE buff == hb_origin_buff'
    <2>1. buff \in Seq(Nat) /\ Len(buff) = HB_SMOOTH_ORIGIN_SIZE
      BY <1>1, Thresholds
    <2>2. \A k \in 1..HB_SMOOTH_COUNT : Latest[k] = buff[k] /\ buff[k] \in Nat
      BY <1>1, <2>1, Thresholds DEF Latest
    <2>3. \A k \in 1..HB_SMOOTH_COUNT : Distance(buff[k], 0) <= HB_SMOOTH_THRESHOLD
      BY <2>2 DEF Steady
    <2>4. \A k \in 1..HB_SMOOTH_COUNT : buff[k] <= HB_SMOOTH_THRESHOLD
      BY <2>2, <2>3 DEF Distance
    <2> HIDE DEF buff
    <2>5. buff \in [1..HB_SMOOTH_ORIGIN_SIZE -> Nat]
      BY <1>1 DEF buff
    <2>6. ~(Sum16(SubSeq(buff, 1, HB_SMOOTH_COUNT)) \div HB_SMOOTH_COUNT >= HB_MIN_VALUE)
      BY <2>4, <2>5, ZerosNotPlausible
    <2> QED
      BY <2>6, Zenon DEF buff, Plausible, Latest
  <1>5. MemoryInv'
    <2>1. hb_smooth_buff' \in [1..HB_SMOOTH_BUFF_SIZE -> Nat]
      BY <1>3, Thresholds DEF FilterInv, MemoryInv, Zeros
    <2>2. zero_num' = zero_num
      BY DEF SmoothBefore
    <2> QED
      BY <1>1, <1>2, <1>3, <2>1, <2>2 DEF FilterInv, MemoryInv
  <1>6. ZeroInv'
    BY <1>1, <1>2, <1>3, <1>4 DEF ZeroInv
  <1>7. RangeInv'
    <2> SUFFICES ASSUME lo' >= HB_MIN_VALUE
                 PROVE  /\ smooth_status' # "AFTER"
                        /\ p_smooth_value' = 0 \/ p_smooth_value' \in lo'..hi'
                        /\ smooth_status' = "MIDDLE" =>
                              /\ p_smooth_value' # 0
                              /\ \A k \in 1..HB_SMOOTH_BUFF_SIZE :
                                    hb_smooth_buff'[k] = 0 \/ hb_smooth_buff'[k] \in lo'..hi'
      BY <1>1 DEF RangeInv
    <2>1. p_smooth_value' = 0 \/ p_smooth_value' \in lo'..hi'
      BY <1>1, <1>2
    <2>2. v # 0
      BY <1>1, Thresholds
    <2>3. ASSUME smooth_status' = "MIDDLE"
          PROVE  /\ p_smooth_value' # 0
                 /\ \A k \in 1..HB_SMOOTH_BUFF_SIZE : hb_smooth_buff'[k] = 0
      BY <1>2, <1>3, <2>2, <2>3 DEF Zeros
    <2> QED
      BY <1>2, <1>3, <2>1, <2>3
  <1> QED
    BY <1>5, <1>6, <1>7 DEF FilterInv

\* Locked on, the zeros are counted and the rates corrected.
LEMMA MiddleStep ==
    ASSUME FilterInv, NEW v \in Rate, SmoothMiddle(v)
    PROVE  FilterInv'
  <1>1. /\ hb_origin_buff' \in [1..HB_SMOOTH_ORIGIN_SIZE -> Nat]
        /\ hb_origin_buff'[1] = v
        /\ \A k \in 2..HB_SMOOTH_ORIGIN_SIZE : hb_origin_buff'[k] = hb_origin_buff[k - 1]
        /\ lo' \in 0..(UINT8 - 1) /\ hi' \in Rate \cup {0}
        /\ lo' <= lo /\ hi <= hi' /\ v \in lo'..hi'
    BY Inserted DEF FilterInv, SmoothMiddle
  <1>2. v \in Nat /\ p_smooth_value \in Nat /\ zero_num \in Nat /\ smooth_status = "MIDDLE"
    BY Thresholds DEF FilterInv, MemoryInv, SmoothMiddle
  <1>3. smooth_status' = IF v = 0 /\ zero_num' >= HB_YZERO_THRESHOLD THEN "AFTER" ELSE "MIDDLE"
    BY DEF SmoothMiddle
  <1>4. zero_num' = IF v # 0 THEN zero_num
                    ELSE IF hb_origin_buff[1] # 0 THEN 1 ELSE (zero_num + 1) % UINT8
    BY DEF SmoothMiddle, ZeroNum
  <1> DEFINE x == Limited(p_smooth_value, v)
  <1>5. x \in Nat
    BY <1>2, LimitedNat
  <1>6. hb_smooth_buff' = Fifo_insert(hb_smooth_buff, x) /\ p_smooth_value' = Get_average(hb_smooth_buff')
    BY DEF SmoothMiddle
  <1> HIDE DEF x
  <1>7. /\ hb_smooth_buff' \in [1..HB_SMOOTH_BUFF_SIZE -> Nat]
        /\ hb_smooth_buff'[1] = x
        /\ \A k \in 2..HB_SMOOTH_BUFF_SIZE : hb_smooth_buff'[k] = hb_smooth_buff[k - 1]
    <2>1. HB_SMOOTH_BUFF_SIZE \in Nat \ {0} /\ hb_smooth_buff \in [1..HB_SMOOTH_BUFF_SIZE -> Nat]
      BY Thresholds DEF FilterInv, MemoryInv
    <2>2. Shifted(HB_SMOOTH_BUFF_SIZE, hb_smooth_buff, hb_smooth_buff', x)
      BY <1>5, <1>6, <2>1, InsertedFirst, Zenon
    <2> QED
      BY <2>2 DEF Shifted
  <1>8. MemoryInv'
    <2>1. p_smooth_value' \in Nat
      BY <1>6, <1>7, Thresholds, AverageNat
    <2>2. zero_num' \in Nat
      BY <1>2, <1>4, Thresholds
    <2> QED
      BY <1>1, <1>3, <1>7, <2>1, <2>2 DEF MemoryInv
  <1>9. ZeroInv'
    <2>1. CASE v # 0
      BY <1>1, <1>3, <2>1 DEF ZeroInv
    <2>2. CASE v = 0 /\ hb_origin_buff[1] # 0
      <3>1. zero_num' = 1
        BY <1>4, <2>2
      <3>2. 2 <= HB_SMOOTH_ORIGIN_SIZE => hb_origin_buff'[2] # 0
        BY <1>1, <2>2, Thresholds
      <3> QED
        BY <1>1, <1>3, <2>2, <3>1, <3>2, Thresholds DEF ZeroInv
    <2>3. CASE v = 0 /\ hb_origin_buff[1] = 0
      <3>1. /\ zero_num \in 1..(HB_YZERO_THRESHOLD - 1)
            /\ \A k \in 1..zero_num : hb_origin_buff[k] = 0
            /\ hb_origin_buff[zero_num + 1] # 0
        BY <1>2, <2>3 DEF FilterInv, ZeroInv
      <3>2. zero_num' = zero_num + 1
        <4>1. zero_num + 1 \in Nat /\ zero_num + 1 < UINT8
          BY <3>1, Thresholds
        <4> QED
          BY <1>4, <2>3, <4>1, Thresholds, SmallRemainder
      <3>3. \A k \in 1..zero_num' : hb_origin_buff'[k] = 0
        <4> TAKE k \in 1..zero_num'
        <4>1. CASE k = 1
          BY <1>1, <2>3, <4>1
        <4>2. CASE k # 1
          <5>1. k - 1 \in 1..zero_num /\ k \in 2..HB_SMOOTH_ORIGIN_SIZE
            BY <3>1, <3>2, <4>2, Thresholds
          <5> QED
            BY <1>1, <3>1, <5>1
        <4> QED
          BY <4>1, <4>2
      <3>4. CASE zero_num' >= HB_YZERO_THRESHOLD
        <4>1. smooth_status' = "AFTER" /\ zero_num' = HB_YZERO_THRESHOLD
          BY <1>3, <2>3, <3>1, <3>2, <3>4, Thresholds
        <4> QED
          BY <3>3, <4>1 DEF ZeroInv
      <3>5. CASE ~(zero_num' >= HB_YZERO_THRESHOLD)
        <4>1. smooth_status' = "MIDDLE" /\ zero_num' \in 1..(HB_YZERO_THRESHOLD - 1)
          BY <1>3, <3>1, <3>2, <3>5, Thresholds
        <4>2. hb_origin_buff'[zero_num' + 1] # 0
          <5> DEFINE m == zero_num' + 1
          <5>1. m \in 2..HB_SMOOTH_ORIGIN_SIZE /\ m - 1 = zero_num + 1
            BY <3>1, <3>2, <4>1, Thresholds
          <5> HIDE DEF m
          <5>2. hb_origin_buff'[m] = hb_origin_buff[m - 1]
            BY <1>1, <5>1
          <5>3. hb_origin_buff'[m] # 0
            BY <3>1, <5>1, <5>2
          <5> QED
            BY <5>3 DEF m
        <4> QED
          BY <3>3, <4>1, <4>2 DEF ZeroInv
      <3> QED
        BY <3>4, <3>5
    <2> QED
      BY <2>1, <2>2, <2>3
  <1>10. RangeInv'
    <2> SUFFICES ASSUME lo' >= HB_MIN_VALUE
                 PROVE  /\ smooth_status' # "AFTER"
                        /\ p_smooth_value' \in lo'..hi' /\ p_smooth_value' # 0
                        /\ \A k \in 1..HB_SMOOTH_BUFF_SIZE :
                              hb_smooth_buff'[k] = 0 \/ hb_smooth_buff'[k] \in lo'..hi'
      BY <1>1 DEF RangeInv
    <2>1. lo \in Nat /\ hi \in Nat /\ lo' \in Nat /\ hi' \in Nat /\ lo >= HB_MIN_VALUE
      BY <1>1, Thresholds DEF FilterInv, RangeInv
    <2>2. /\ p_smooth_value \in lo..hi
          /\ \A k \in 1..HB_SMOOTH_BUFF_SIZE : hb_smooth_buff[k] = 0 \/ hb_smooth_buff[k] \in lo..hi
      BY <1>2, <2>1 DEF FilterInv, RangeInv
    <2>3. p_smooth_value \in lo'..hi'
      BY <1>1, <2>1, <2>2
    <2>4. x \in lo'..hi'
      BY <1>1, <2>1, <2>3, LimitedBetween DEF x
    <2>5. x # 0 /\ v # 0
      BY <1>1, <2>1, <2>4, Thresholds
    <2>6. \A k \in 1..HB_SMOOTH_BUFF_SIZE : hb_smooth_buff'[k] = 0 \/ hb_smooth_buff'[k] \in lo'..hi'
      <3> TAKE k \in 1..HB_SMOOTH_BUFF_SIZE
      <3>1. CASE k = 1
        BY <1>7, <2>4, <3>1
      <3>2. CASE k # 1
        <4>1. k \in 2..HB_SMOOTH_BUFF_SIZE /\ k - 1 \in 1..HB_SMOOTH_BUFF_SIZE
          BY <3>2, Thresholds
        <4>2. hb_smooth_buff'[k] = 0 \/ hb_smooth_buff'[k] \in lo..hi
          BY <1>7, <2>2, <4>1
        <4> QED
          BY <1>1, <2>1, <4>2
      <3> QED
        BY <3>1, <3>2
    <2>7. p_smooth_value' \in lo'..hi'
      <3>1. hi' < UINT8 /\ hi' * HB_SMOOTH_BUFF_SIZE < UINT16
        BY <1>1, Thresholds
      <3>2. lo' \in Nat \ {0} /\ HB_SMOOTH_BUFF_SIZE \in Nat \ {0}
        BY <2>1, Thresholds
      <3>3. hb_smooth_buff'[1] # 0
        BY <1>7, <2>5
      <3> DEFINE data == hb_smooth_buff'
                 a == lo'
                 b == hi'
      <3>4. /\ data \in [1..HB_SMOOTH_BUFF_SIZE -> Nat] /\ a \in Nat \ {0} /\ b \in Nat
            /\ b < UINT8 /\ b * HB_SMOOTH_BUFF_SIZE < UINT16 /\ data[1] # 0
            /\ \A k \in 1..HB_SMOOTH_BUFF_SIZE : data[k] = 0 \/ data[k] \in a..b
        BY <1>7, <2>1, <2>6, <3>1, <3>2, <3>3
      <3> HIDE DEF data, a, b
      <3>5. Get_average(data) \in a..b
        BY <3>2, <3>4, AverageBetween
      <3> QED
        BY <1>6, <3>5, Zenon DEF data, a, b
    <2>8. p_smooth_value' # 0
      BY <2>1, <2>7, Thresholds
    <2> QED
      BY <1>3, <2>5, <2>6, <2>7, <2>8
  <1> QED
    BY <1>8, <1>9, <1>10 DEF FilterInv

\* The filter starts with a memory that was cleared.
LEMMA InitFilter == Init => FilterInv
  <1> SUFFICES ASSUME Init PROVE FilterInv
    OBVIOUS
  <1>1. MemoryInv
    BY Thresholds DEF MemoryInv, Init, Zeros
  <1>2. ZeroInv
    BY DEF ZeroInv, Init
  <1>3. RangeInv
    BY Thresholds DEF RangeInv, Init
  <1> QED
    BY <1>1, <1>2, <1>3 DEF FilterInv

\* Every step keeps the invariant.
LEMMA NextFilter == FilterInv /\ [Next]_vars => FilterInv'
  <1> SUFFICES ASSUME FilterInv, [Next]_vars PROVE FilterInv'
    OBVIOUS
  <1>1. CASE Start
    BY <1>1, ClearedInv DEF Start
  <1>2. CASE Stop
    BY <1>2 DEF Stop, smooth_var, FilterInv, MemoryInv, ZeroInv, RangeInv
  <1>3. ASSUME NEW v \in Rate, SmoothBefore(v) PROVE FilterInv'
    BY <1>3, BeforeStep
  <1>4. ASSUME NEW v \in Rate, SmoothMiddle(v) PROVE FilterInv'
    BY <1>4, MiddleStep
  <1>5. ASSUME NEW v \in Rate, SmoothAfter(v) PROVE FilterInv'
    BY <1>5, ClearedInv DEF SmoothAfter
  <1>6. CASE UNCHANGED vars
    BY <1>6 DEF vars, smooth_var, FilterInv, MemoryInv, ZeroInv, RangeInv
  <1> QED
    BY <1>1, <1>2, <1>3, <1>4, <1>5, <1>6 DEF Next, Sample

\* The counted zeros are the run in front.
LEMMA RunOfZeros == FilterInv => ZerosCounted
  <1> SUFFICES ASSUME FilterInv PROVE ZerosCounted
    OBVIOUS
  <1> DEFINE Size == HB_SMOOTH_ORIGIN_SIZE
             IsRun(n) == /\ \A k \in 1..n : hb_origin_buff[k] = 0
                         /\ n < Size => hb_origin_buff[n + 1] # 0
             run == CHOOSE n \in 0..Size : IsRun(n)
  <1>1. \E n \in 0..Size : IsRun(n)
    <2> DEFINE T == {n \in 0..Size : n < Size => hb_origin_buff[n + 1] # 0}
    <2>1. T \subseteq Nat /\ Size \in T
      BY Thresholds
    <2>2. PICK n \in T : \A m \in T : n <= m
      <3> HIDE DEF T
      <3> QED
        BY <2>1, LeastNumber
    <2>3. \A k \in 1..n : hb_origin_buff[k] = 0
      <3> SUFFICES ASSUME NEW k \in 1..n, hb_origin_buff[k] # 0 PROVE FALSE
        OBVIOUS
      <3>1. k - 1 \in T
        BY Thresholds
      <3> QED
        BY <2>2, <3>1
    <2> QED
      BY <2>2, <2>3
  <1>2. run \in 0..Size /\ IsRun(run)
    <2> HIDE DEF IsRun
    <2> QED
      BY <1>1, Zenon
  <1>3. ZerosCounted <=> /\ smooth_status = "MIDDLE" => run < HB_YZERO_THRESHOLD
                         /\ smooth_status = "AFTER"  => run >= HB_YZERO_THRESHOLD
    BY Zenon DEF ZerosCounted
  <1> HIDE DEF run
  <1>4. smooth_status = "MIDDLE" => run < HB_YZERO_THRESHOLD
    <2> SUFFICES ASSUME smooth_status = "MIDDLE", run >= HB_YZERO_THRESHOLD PROVE FALSE
      BY <1>2, Thresholds
    <2>1. hb_origin_buff[1] = 0
      BY <1>2, Thresholds
    <2>2. zero_num \in 1..(HB_YZERO_THRESHOLD - 1) /\ hb_origin_buff[zero_num + 1] # 0
      BY <2>1 DEF FilterInv, ZeroInv
    <2>3. zero_num + 1 \in 1..run
      BY <1>2, <2>2, Thresholds
    <2> QED
      BY <1>2, <2>2, <2>3
  <1>5. smooth_status = "AFTER" => run >= HB_YZERO_THRESHOLD
    <2> SUFFICES ASSUME smooth_status = "AFTER", run < HB_YZERO_THRESHOLD PROVE FALSE
      BY <1>2, Thresholds
    <2>1. run + 1 \in 1..HB_YZERO_THRESHOLD /\ run < Size
      BY <1>2, Thresholds
    <2>2. hb_origin_buff[run + 1] = 0
      BY <2>1 DEF FilterInv, ZeroInv
    <2> QED
      BY <1>2, <2>1, <2>2
  <1> QED
    BY <1>3, <1>4, <1>5

\* While the sensor gives rates of a heart, what is given out is between the lowest
\* and the highest of them: Koovox_heartrate_smooth corrects and averages without
\* wrapping.
THEOREM RatesBetween == Spec => []Between
  <1>1. FilterInv => Between
    BY DEF FilterInv, RangeInv, Between
  <1> QED
    BY <1>1, InitFilter, NextFilter, PTL DEF Spec

\* The stage in which the filter is locked on ends with a run of HB_YZERO_THRESHOLD
\* zeros in hb_origin_buff, and with no other.
THEOREM RunsEndStage == Spec => []ZerosCounted
  BY InitFilter, NextFilter, RunOfZeros, PTL DEF Spec
=============================================================================
