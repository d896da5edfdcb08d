-------------------------- MODULE UartFramingProofs --------------------------
(***************************************************************************)
(* What UartFraming promises, for every buffer, every set of frames and    *)
(* every number of bytes.  The loop over a piece does what a receiver does *)
(* that takes its bytes one by one; what that receiver will have when it   *)
(* has taken the bytes still on the line does not change as they arrive.   *)
(***************************************************************************)
EXTENDS UartFraming, InductionOverData, SequenceTheorems

-----------------------------------------------------------------------------
(* The invariant                                                           *)

Receiver == [uart_msg : Seq(Byte), handled : Seq(Seq(Byte))]

\* A receiver between two pieces: no tail is left in the buffer.
Calm(r) ==
    /\ r \in Receiver /\ Len(r.uart_msg) <= SIZE_UART_MSG
    /\ KoovoxMessageStr(r.uart_msg) = 0

Now == [uart_msg |-> uart_msg, handled |-> handled]

\* What it will be when the line is empty.
Then == TakeBytes(Now, wire)

\* How far trouble is behind: a frame may lose its tail to a full buffer, the next
\* ends the remains of it, and the one after that is a frame of its own.
Recovering ==
    /\ clean >= 1 => Then.uart_msg \in {<<>>, <<CLOSE>>}
    /\ clean >= 2 => Then.uart_msg = <<>>
    /\ clean = Recovery /\ sent # <<>> /\ Whole(Last(sent))
         => Then.handled # <<>> /\ Last(Then.handled) = Last(sent)

Undisturbed == noise = 0 /\ ~overrun /\ ~ \E k \in DOMAIN sent : HidesTail(sent[k])

FramingInv ==
    /\ TypeOK /\ Calm(Now)
    /\ PiecesDoNotMatter
    /\ Recovering
    /\ Undisturbed => /\ Then = [uart_msg |-> <<>>, handled |-> due]
                      /\ (\A k \in DOMAIN sent : Whole(sent[k])) => due = sent

-----------------------------------------------------------------------------
(* The search for the tail                                                 *)

\* Two courses that start alike and go on alike are one.
LEMMA SameCourse ==
    ASSUME NEW N \in Nat, NEW f, NEW g, f[0] = g[0],
           \A n \in 1..N : f[n - 1] = g[n - 1] => f[n] = g[n]
    PROVE  f[N] = g[N]
  <1> DEFINE P == {n \in 0..N : f[n] = g[n]}
  <1>1. 0 \in P
    OBVIOUS
  <1>2. \A n \in 1..N : n - 1 \in P => n \in P
    OBVIOUS
  <1>3. N \in 0..N
    OBVIOUS
  <1> HIDE DEF P
  <1>4. N \in P
    BY <1>1, <1>2, <1>3, UpTo
  <1> QED
    BY <1>4 DEF P

LEMMA TheTail == /\ Len(FRAME_TAIL) = 2 /\ FRAME_TAIL[1] = OPEN /\ FRAME_TAIL[2] = CLOSE
              /\ FRAME_TAIL \in Seq(Byte)
  BY ByteAssumption DEF FRAME_TAIL, Byte

ScanState == [i : Nat, j : 0..2]

Unread == [i |-> 0, j |-> 0]

LEMMA CompareIs ==
    ASSUME NEW r \in ScanState, NEW b
    PROVE  /\ Compare(r, b) \in ScanState
           /\ r.j = 2 => Compare(r, b) = r
           /\ r.j # 2 => /\ Compare(r, b).i = r.i + 1
                         /\ Compare(r, b).j = IF r.j = 0 THEN (IF b = OPEN THEN 1 ELSE 0)
                                              ELSE (IF b = CLOSE THEN 2 ELSE 0)
  <1>1. r.j \in {0, 1, 2} /\ r.i \in Nat
    BY DEF ScanState
  <1>2. CASE r.j = 2
    BY <1>2, TheTail DEF Compare
  <1>3. CASE r.j # 2
    <2> DEFINE k == IF b = FRAME_TAIL[r.j + 1] THEN r.j + 1 ELSE 0
    <2>1. Compare(r, b) = [i |-> r.i + 1, j |-> k]
      BY <1>1, <1>3, TheTail DEF Compare
    <2>2. k = IF r.j = 0 THEN (IF b = OPEN THEN 1 ELSE 0) ELSE (IF b = CLOSE THEN 2 ELSE 0)
      BY <1>1, <1>3, TheTail
    <2>3. r.i + 1 \in Nat /\ k \in 0..2
      BY <1>1, <2>2
    <2> HIDE DEF k
    <2> QED
      BY <1>3, <2>1, <2>2, <2>3 DEF ScanState
  <1> QED
    BY <1>2, <1>3

\* The search, byte by byte.
LEMMA ScanCourse ==
    ASSUME NEW msg, NEW N \in Nat
    PROVE  \E f \in [0..N -> ScanState] :
              /\ f[0] = Unread /\ Scan(msg, N) = f[N]
              /\ \A n \in 1..N : f[n] = Compare(f[n - 1], msg[n])
  <1>1. Unread \in ScanState
    BY DEF Unread, ScanState
  <1> DEFINE D == [x \in ScanState \X (1..N) |-> Compare(x[1], msg[x[2]])]
  <1>2. D \in [ScanState \X (1..N) -> ScanState]
    BY CompareIs
  <1>3. \A x \in ScanState, n \in 1..N : D[<<x, n>>] = Compare(x, msg[n])
    OBVIOUS
  <1> HIDE DEF D
  <1>4. PICK f \in [0..N -> ScanState] : IsLoop(f, N, Unread, D)
    BY <1>1, <1>2, Loop
  <1>5. f[0] = Unread /\ \A n \in 1..N : f[n] = Compare(f[n - 1], msg[n])
    <2>1. \A n \in 1..N : f[n - 1] \in ScanState
      OBVIOUS
    <2> QED
      BY <1>3, <1>4, <2>1 DEF IsLoop
  <1> DEFINE Def(g) == g = [n \in 0..N |-> IF n = 0 THEN [i |-> 0, j |-> 0]
                                           ELSE Compare(g[n - 1], msg[n])]
             scan == CHOOSE g : Def(g)
  <1>6. Def(f)
    BY <1>5 DEF Unread
  <1>7. Def(scan)
    <2> HIDE DEF Def
    <2> QED
      BY <1>6, Zenon
  <1>8. Scan(msg, N) = scan[N]
    BY Zenon DEF Scan
  <1> HIDE DEF scan
  <1>9. scan[0] = Unread /\ \A n \in 1..N : scan[n] = Compare(scan[n - 1], msg[n])
    BY <1>7 DEF Unread
  <1>10. scan[N] = f[N]
    <2>1. scan[0] = f[0] /\ \A n \in 1..N : scan[n - 1] = f[n - 1] => scan[n] = f[n]
      BY <1>5, <1>9
    <2> QED
      BY <2>1, SameCourse
  <1> QED
    BY <1>5, <1>8, <1>10

\* It depends on the bytes read only.
LEMMA ScanSame ==
    ASSUME NEW msg, NEW other, NEW N \in Nat, \A n \in 1..N : msg[n] = other[n]
    PROVE  Scan(msg, N) = Scan(other, N)
  <1>1. PICK f \in [0..N -> ScanState] :
              /\ f[0] = Unread /\ Scan(msg, N) = f[N]
              /\ \A n \in 1..N : f[n] = Compare(f[n - 1], msg[n])
    BY ScanCourse
  <1>2. PICK g \in [0..N -> ScanState] :
              /\ g[0] = Unread /\ Scan(other, N) = g[N]
              /\ \A n \in 1..N : g[n] = Compare(g[n - 1], other[n])
    BY ScanCourse
  <1>3. f[N] = g[N]
    <2>1. f[0] = g[0] /\ \A n \in 1..N : f[n - 1] = g[n - 1] => f[n] = g[n]
      BY <1>1, <1>2
    <2> QED
      BY <2>1, SameCourse
  <1> QED
    BY <1>1, <1>2, <1>3

LEMMA ScanSteps ==
    ASSUME NEW msg
    PROVE  /\ Scan(msg, 0) = Unread
           /\ \A n \in Nat : Scan(msg, n) \in ScanState
           /\ \A n \in Nat \ {0} : Scan(msg, n) = Compare(Scan(msg, n - 1), msg[n])
  <1>1. Scan(msg, 0) = Unread
    <2>1. 0 \in Nat
      OBVIOUS
    <2>2. PICK f \in [0..0 -> ScanState] : f[0] = Unread /\ Scan(msg, 0) = f[0]
      BY <2>1, ScanCourse
    <2> QED
      BY <2>2
  <1>2. ASSUME NEW n \in Nat
        PROVE  Scan(msg, n) \in ScanState
    <2>1. PICK f \in [0..n -> ScanState] : Scan(msg, n) = f[n]
      BY ScanCourse
    <2> QED
      BY <2>1
  <1>3. ASSUME NEW n \in Nat \ {0}
        PROVE  Scan(msg, n) = Compare(Scan(msg, n - 1), msg[n])
    <2>1. n - 1 \in Nat /\ n \in Nat
      OBVIOUS
    <2>2. PICK f \in [0..n -> ScanState] :
              /\ f[0] = Unread /\ Scan(msg, n) = f[n]
              /\ \A k \in 1..n : f[k] = Compare(f[k - 1], msg[k])
      BY <2>1, ScanCourse
    <2>3. PICK g \in [0..(n - 1) -> ScanState] :
              /\ g[0] = Unread /\ Scan(msg, n - 1) = g[n - 1]
              /\ \A k \in 1..(n - 1) : g[k] = Compare(g[k - 1], msg[k])
      BY <2>1, ScanCourse
    <2>4. f[0] = g[0] /\ \A k \in 1..(n - 1) : f[k - 1] = g[k - 1] => f[k] = g[k]
      BY <2>2, <2>3
    <2>5. f[n - 1] = g[n - 1]
      BY <2>1, <2>4, SameCourse
    <2>6. n \in 1..n
      OBVIOUS
    <2> QED
      BY <2>2, <2>3, <2>5, <2>6
  <1> QED
    BY <1>1, <1>2, <1>3

\* The search stops where the tail ends first, and before that counts the bytes.
LEMMA ScanStops ==
    ASSUME NEW msg, NEW N \in Nat
    PROVE  /\ Scan(msg, N).j # 2 => /\ Scan(msg, N).i = N
                                    /\ \A k \in 0..N : Scan(msg, k).j # 2
           /\ Scan(msg, N).j = 2 => /\ Scan(msg, N).i \in 1..N
                                    /\ \A k \in Scan(msg, N).i..N : Scan(msg, k) = Scan(msg, N)
                                    /\ \A k \in 0..(Scan(msg, N).i - 1) : Scan(msg, k).j # 2
  <1> DEFINE s(n) == Scan(msg, n)
             Open(n) == s(n).i = n /\ \A k \in 0..n : s(k).j # 2
             Shut(n) == /\ s(n).i \in 1..n
                        /\ \A k \in s(n).i..n : s(k) = s(n)
                        /\ \A k \in 0..(s(n).i - 1) : s(k).j # 2
             P == {n \in 0..N : (s(n).j # 2 => Open(n)) /\ (s(n).j = 2 => Shut(n))}
  <1>1. s(0) = Unread /\ \A n \in Nat : s(n) \in ScanState
    BY ScanSteps
  <1>2. \A n \in Nat \ {0} : s(n) = Compare(s(n - 1), msg[n])
    BY ScanSteps
  <1>3. 0 \in P
    <2>1. s(0).i = 0 /\ s(0).j = 0
      BY <1>1 DEF Unread
    <2>2. Open(0)
      <3> SUFFICES ASSUME NEW k \in 0..0 PROVE s(k).j # 2
        BY <2>1
      <3>1. k = 0
        OBVIOUS
      <3> QED
        BY <2>1, <3>1
    <2> QED
      BY <2>1, <2>2
  <1>4. ASSUME NEW n \in 1..N, n - 1 \in P
        PROVE  n \in P
    <2>1. n \in Nat \ {0} /\ n - 1 \in Nat
      OBVIOUS
    <2>2. s(n - 1) \in ScanState /\ s(n) = Compare(s(n - 1), msg[n])
      BY <1>1, <1>2, <2>1
    <2>3. (s(n - 1).j # 2 => Open(n - 1)) /\ (s(n - 1).j = 2 => Shut(n - 1))
      BY <1>4
    <2> HIDE DEF s
    <2>4. CASE s(n - 1).j = 2
      <3>1. s(n) = s(n - 1)
        BY <2>2, <2>4, CompareIs
      <3>2. \A k \in s(n).i..n : k = n \/ k \in s(n - 1).i..(n - 1)
        BY <2>3, <2>4, <3>1
      <3>3. Shut(n)
        BY <2>3, <2>4, <3>1, <3>2
      <3> QED
        BY <2>4, <3>1, <3>3
    <2>5. CASE s(n - 1).j # 2
      <3>1. s(n).i = n
        BY <2>1, <2>2, <2>3, <2>5, CompareIs
      <3>2. \A k \in 0..(n - 1) : s(k).j # 2
        BY <2>3, <2>5
      <3>3. CASE s(n).j = 2
        <4>1. \A k \in n..n : k = n
          OBVIOUS
        <4>2. Shut(n)
          BY <3>1, <3>2, <4>1
        <4> QED
          BY <3>3, <4>2
      <3>4. CASE s(n).j # 2
        <4>1. \A k \in 0..n : k = n \/ k \in 0..(n - 1)
          OBVIOUS
        <4>2. Open(n)
          BY <3>1, <3>2, <3>4, <4>1
        <4> QED
          BY <3>4, <4>2
      <3> QED
        BY <3>3, <3>4
    <2> QED
      BY <2>4, <2>5
  <1>5. N \in P
    <2> HIDE DEF P
    <2>1. \A n \in 1..N : n - 1 \in P => n \in P
      BY <1>4
    <2>2. N \in 0..N
      OBVIOUS
    <2> QED
      BY <1>3, <2>1, <2>2, UpTo
  <1> QED
    BY <1>5

\* The bytes before the end of the tail hold none; what comes behind changes nothing.
LEMMA StrOfPrefix ==
    ASSUME NEW msg \in Seq(Byte), NEW p \in 0..Len(msg)
    PROVE  /\ KoovoxMessageStr(msg) \in 0..Len(msg)
           /\ KoovoxMessageStr(SubSeq(msg, 1, p)) =
                 IF KoovoxMessageStr(msg) # 0 /\ p >= KoovoxMessageStr(msg)
                 THEN KoovoxMessageStr(msg) ELSE 0
  <1> DEFINE L == Len(msg)
             q == SubSeq(msg, 1, p)
             s(n) == Scan(msg, n)
  <1>1. L \in Nat /\ p \in Nat
    BY LenProperties
  <1>2. Len(q) = p /\ \A n \in 1..p : q[n] = msg[n]
    BY <1>1, SubSeqProperties
  <1>3. Scan(q, p) = s(p)
    BY <1>1, <1>2, ScanSame
  <1>4. KoovoxMessageStr(msg) = IF s(L).j = 2 THEN s(L).i ELSE 0
    BY TheTail DEF KoovoxMessageStr
  <1>5. KoovoxMessageStr(q) = IF s(p).j = 2 THEN s(p).i ELSE 0
    BY <1>2, <1>3, TheTail DEF KoovoxMessageStr
  <1>6. /\ s(L).j # 2 => s(L).i = L /\ \A k \in 0..L : s(k).j # 2
        /\ s(L).j = 2 => /\ s(L).i \in 1..L
                         /\ \A k \in s(L).i..L : s(k) = s(L)
                         /\ \A k \in 0..(s(L).i - 1) : s(k).j # 2
    BY <1>1, ScanStops
  <1> HIDE DEF s, L, q
  <1>7. KoovoxMessageStr(msg) \in 0..L
    BY <1>1, <1>4, <1>6
  <1>8. CASE s(L).j # 2
    <2>1. s(p).j # 2
      BY <1>6, <1>8 DEF L
    <2> QED
      BY <1>4, <1>5, <1>7, <1>8, <2>1 DEF L, q
  <1>9. CASE s(L).j = 2 /\ p < s(L).i
    <2>1. p \in 0..(s(L).i - 1)
      BY <1>1, <1>6, <1>9
    <2>2. s(p).j # 2
      BY <1>6, <1>9, <2>1
    <2>3. s(L).i \in Nat
      BY <1>6, <1>9
    <2> QED
      BY <1>1, <1>4, <1>5, <1>7, <1>9, <2>2, <2>3 DEF L, q
  <1>10. CASE s(L).j = 2 /\ p >= s(L).i
    <2>1. p \in s(L).i..L
      BY <1>1, <1>6, <1>10 DEF L
    <2>2. s(p) = s(L) /\ s(L).i # 0
      BY <1>6, <1>10, <2>1
    <2> QED
      BY <1>4, <1>5, <1>7, <1>10, <2>2 DEF L, q
  <1>11. s(L).j = 2 => s(L).i \in Nat
    BY <1>6
  <1> QED
    BY <1>1, <1>8, <1>9, <1>10, <1>11

\* The buffer ends within a tail.
Half(msg) == Scan(msg, Len(msg)).j = 1

LEMMA StrEmpty == KoovoxMessageStr(<<>>) = 0 /\ ~Half(<<>>)
  <1>1. Scan(<<>>, 0) = Unread /\ Len(<<>>) = 0
    BY ScanSteps
  <1> QED
    BY <1>1, TheTail DEF KoovoxMessageStr, Half, Unread

\* One byte more.
LEMMA StrAppend ==
    ASSUME NEW x \in Seq(Byte), NEW b \in Byte, KoovoxMessageStr(x) = 0
    PROVE  /\ Half(Append(x, b)) <=> ~Half(x) /\ b = OPEN
           /\ KoovoxMessageStr(Append(x, b)) = IF Half(x) /\ b = CLOSE THEN Len(x) + 1 ELSE 0
  <1> DEFINE L == Len(x)
             y == Append(x, b)
  <1>1. L \in Nat /\ L + 1 \in Nat \ {0} /\ (L + 1) - 1 = L
    BY LenProperties
  <1>2. Len(y) = L + 1 /\ y[L + 1] = b /\ \A n \in 1..L : y[n] = x[n]
    BY AppendProperties
  <1> HIDE DEF y
  <1>3. Scan(y, L) = Scan(x, L) /\ Scan(y, L + 1) = Compare(Scan(y, L), b)
    <2>1. Scan(y, L) = Scan(x, L)
      BY <1>1, <1>2, ScanSame
    <2>2. Scan(y, L + 1) = Compare(Scan(y, (L + 1) - 1), y[L + 1])
      BY <1>1, ScanSteps
    <2> QED
      BY <1>1, <1>2, <2>1, <2>2
  <1> DEFINE s == Scan(x, L)
             t == Scan(y, L + 1)
  <1>4. s \in ScanState /\ t = Compare(s, b)
    BY <1>1, <1>3, ScanSteps
  <1>5. s.j # 2 /\ s.i = L
    <2>1. s.j = 2 => s.i \in 1..L
      BY <1>1, ScanStops
    <2>2. s.j # 2
      BY <2>1, TheTail DEF KoovoxMessageStr
    <2> QED
      BY <1>1, <2>2, ScanStops
  <1>6. KoovoxMessageStr(y) = IF t.j = 2 THEN t.i ELSE 0
    BY <1>2, TheTail DEF KoovoxMessageStr
  <1>7. (Half(x) <=> s.j = 1) /\ (Half(y) <=> t.j = 1)
    BY <1>2 DEF Half
  <1>8. s.j \in {0, 1}
    BY <1>4, <1>5 DEF ScanState
  <1> HIDE DEF s, t, L
  <1>9. /\ t.i = s.i + 1
        /\ t.j = IF s.j = 0 THEN (IF b = OPEN THEN 1 ELSE 0) ELSE (IF b = CLOSE THEN 2 ELSE 0)
    BY <1>4, <1>5, CompareIs
  <1> QED
    BY <1>5, <1>6, <1>7, <1>8, <1>9 DEF y, L

-----------------------------------------------------------------------------
(* Sequences and their beginnings                                          *)

\* The first k elements are the first k - 1 and one more.
LEMMA PrefixGrows ==
    ASSUME NEW S, NEW q \in Seq(S), NEW k \in 1..Len(q)
    PROVE  /\ SubSeq(q, 1, k) = Append(SubSeq(q, 1, k - 1), q[k])
           /\ SubSeq(q, 1, k - 1) \in Seq(S) /\ Len(SubSeq(q, 1, k - 1)) = k - 1
           /\ q[k] \in S
  <1> DEFINE u == SubSeq(q, 1, k)
             v == SubSeq(q, 1, k - 1)
             w == Append(v, q[k])
  <1>1. Len(q) \in Nat /\ k \in Nat /\ k - 1 \in Nat /\ q[k] \in S
    BY LenProperties, ElementOfSeq
  <1>2. u \in Seq(S) /\ Len(u) = k /\ \A i \in 1..k : u[i] = q[i]
    BY <1>1, SubSeqProperties
  <1>3. v \in Seq(S) /\ Len(v) = k - 1 /\ \A i \in 1..(k - 1) : v[i] = q[i]
    BY <1>1, SubSeqProperties
  <1> HIDE DEF u, v
  <1>4. w \in Seq(S) /\ Len(w) = k /\ w[k] = q[k] /\ \A i \in 1..(k - 1) : w[i] = v[i]
    BY <1>1, <1>3, AppendProperties
  <1> HIDE DEF w
  <1>5. \A i \in 1..k : u[i] = w[i]
    BY <1>1, <1>2, <1>3, <1>4
  <1>6. u = w
    BY <1>2, <1>4, <1>5, SeqEqual
  <1> QED
    BY <1>1, <1>3, <1>6 DEF u, v, w

\* The whole and the empty beginning.
LEMMA SubSeqEnds ==
    ASSUME NEW S, NEW q \in Seq(S)
    PROVE  SubSeq(q, 1, 0) = <<>> /\ SubSeq(q, 1, Len(q)) = q
  BY SubSeqFull, SubSeqEmpty

\* A beginning that reaches into the second part.
LEMMA PrefixOfConcat ==
    ASSUME NEW S, NEW p \in Seq(S), NEW q \in Seq(S), NEW k \in 0..Len(q)
    PROVE  SubSeq(p \o q, 1, Len(p) + k) = p \o SubSeq(q, 1, k)
  <1> DEFINE u == SubSeq(p \o q, 1, Len(p) + k)
             f == SubSeq(q, 1, k)
             v == p \o f
             w == p \o q
  <1>1. Len(p) \in Nat /\ Len(q) \in Nat /\ k \in Nat
    BY LenProperties
  <1>2. w \in Seq(S) /\ Len(w) = Len(p) + Len(q)
        /\ \A i \in 1..Len(p) + Len(q) : w[i] = IF i <= Len(p) THEN p[i] ELSE q[i - Len(p)]
    BY ConcatProperties
  <1>3. \A i \in 1..k : q[i] \in S
    BY <1>1, ElementOfSeq
  <1>4. f \in Seq(S) /\ Len(f) = k /\ \A i \in 1..k : f[i] = q[i]
    BY <1>1, <1>3, SubSeqProperties
  <1>5. \A i \in 1..(Len(p) + k) : w[i] \in S
    BY <1>1, <1>2, ElementOfSeq
  <1>6. u \in Seq(S) /\ Len(u) = Len(p) + k /\ \A i \in 1..(Len(p) + k) : u[i] = w[i]
    BY <1>1, <1>5, SubSeqProperties
  <1> HIDE DEF f, u, w
  <1>7. v \in Seq(S) /\ Len(v) = Len(p) + k
        /\ \A i \in 1..(Len(p) + k) : v[i] = IF i <= Len(p) THEN p[i] ELSE f[i - Len(p)]
    BY <1>4, ConcatProperties
  <1> HIDE DEF v
  <1>8. \A i \in 1..(Len(p) + k) : u[i] = v[i]
    <2> TAKE i \in 1..(Len(p) + k)
    <2>1. u[i] = w[i] /\ i \in 1..(Len(p) + Len(q))
      BY <1>1, <1>6
    <2>2. CASE i <= Len(p)
      BY <1>2, <1>7, <2>1, <2>2
    <2>3. CASE ~(i <= Len(p))
      <3>1. i - Len(p) \in 1..k
        BY <1>1, <2>3
      <3>2. w[i] = q[i - Len(p)] /\ v[i] = f[i - Len(p)]
        BY <1>2, <1>7, <2>1, <2>3
      <3> QED
        BY <1>4, <2>1, <3>1, <3>2
    <2> QED
      BY <2>2, <2>3
  <1>9. u = v
    BY <1>6, <1>7, <1>8, SeqEqual
  <1> QED
    BY <1>9 DEF u, v, f, w

LEMMA ConcatAppend ==
    ASSUME NEW S, NEW p \in Seq(S), NEW q \in Seq(S), NEW b \in S
    PROVE  p \o Append(q, b) = Append(p \o q, b)
  OBVIOUS

-----------------------------------------------------------------------------
(* A receiver that takes the bytes one by one                              *)

\* The buffer a byte is put into.
Room(r) == IF Len(r.uart_msg) = SIZE_UART_MSG THEN <<>> ELSE r.uart_msg

LEMMA TakeByteIs ==
    ASSUME NEW r \in Receiver, NEW b \in Byte
    PROVE  LET msg == Append(Room(r), b)
           IN /\ msg \in Seq(Byte) /\ TakeByte(r, b) \in Receiver
              /\ KoovoxMessageStr(msg) = 0
                   => TakeByte(r, b) = [uart_msg |-> msg, handled |-> r.handled]
              /\ KoovoxMessageStr(msg) # 0
                   => TakeByte(r, b) = [uart_msg |-> <<>>, handled |-> Append(r.handled, msg)]
  <1> DEFINE msg == Append(Room(r), b)
  <1>1. r.uart_msg \in Seq(Byte) /\ r.handled \in Seq(Seq(Byte))
    BY DEF Receiver
  <1>2. <<>> \in Seq(Byte)
    OBVIOUS
  <1>3. msg \in Seq(Byte)
    BY <1>1, <1>2, AppendProperties DEF Room
  <1>4. Append(r.handled, msg) \in Seq(Seq(Byte))
    BY <1>1, <1>3, AppendProperties
  <1>5. [r EXCEPT !.uart_msg = msg] = [uart_msg |-> msg, handled |-> r.handled]
    <2> HIDE DEF msg
    <2> QED
      BY DEF Receiver
  <1>6. TakeByte(r, b) = IF KoovoxMessageStr(msg) = 0 THEN [r EXCEPT !.uart_msg = msg]
                         ELSE [uart_msg |-> <<>>, handled |-> Append(r.handled, msg)]
    BY DEF TakeByte, Room
  <1> HIDE DEF msg
  <1>7. TakeByte(r, b) \in Receiver
    BY <1>1, <1>2, <1>3, <1>4, <1>5, <1>6 DEF Receiver
  <1> QED
    BY <1>3, <1>5, <1>6, <1>7 DEF msg

\* The receiver's course, byte by byte.
LEMMA TakeCourse ==
    ASSUME NEW r \in Receiver, NEW N \in Nat, NEW bytes \in Seq(Byte), Len(bytes) = N
    PROVE  \E f \in [0..N -> Receiver] :
              /\ f[0] = r /\ TakeBytes(r, bytes) = f[N]
              /\ \A n \in 1..N : f[n] = TakeByte(f[n - 1], bytes[n])
  <1>0. \A n \in 1..N : bytes[n] \in Byte
    BY ElementOfSeq
  <1> DEFINE D == [x \in Receiver \X (1..N) |-> TakeByte(x[1], bytes[x[2]])]
  <1>1. \A x \in Receiver, n \in 1..N : TakeByte(x, bytes[n]) \in Receiver
    BY <1>0, TakeByteIs
  <1>2. D \in [Receiver \X (1..N) -> Receiver]
    BY <1>1
  <1>3. \A x \in Receiver, n \in 1..N : D[<<x, n>>] = TakeByte(x, bytes[n])
    OBVIOUS
  <1> HIDE DEF D
  <1>4. PICK f \in [0..N -> Receiver] : IsLoop(f, N, r, D)
    BY <1>2, Loop
  <1>5. f[0] = r /\ \A n \in 1..N : f[n] = TakeByte(f[n - 1], bytes[n])
    <2>1. \A n \in 1..N : f[n - 1] \in Receiver
      OBVIOUS
    <2> QED
      BY <1>3, <1>4, <2>1 DEF IsLoop
  <1> DEFINE Def(g) == g = [n \in 0..N |-> IF n = 0 THEN r ELSE TakeByte(g[n - 1], bytes[n])]
             run == CHOOSE g : Def(g)
  <1>6. Def(f)
    BY <1>5
  <1>7. Def(run)
    <2> HIDE DEF Def
    <2> QED
      BY <1>6, Zenon
  <1>8. TakeBytes(r, bytes) = run[N]
    BY Zenon DEF TakeBytes
  <1> HIDE DEF run
  <1>9. run[0] = r /\ \A n \in 1..N : run[n] = TakeByte(run[n - 1], bytes[n])
    BY <1>7
  <1>10. run[N] = f[N]
    <2>1. run[0] = f[0] /\ \A n \in 1..N : run[n - 1] = f[n - 1] => run[n] = f[n]
      BY <1>5, <1>9
    <2> QED
      BY <2>1, SameCourse
  <1> QED
    BY <1>5, <1>8, <1>10

LEMMA TakeNone ==
    ASSUME NEW r \in Receiver
    PROVE  TakeBytes(r, <<>>) = r
  <1>1. <<>> \in Seq(Byte) /\ Len(<<>>) = 0 /\ 0 \in Nat
    OBVIOUS
  <1> DEFINE none == <<>>
             N == 0
  <1>2. none \in Seq(Byte) /\ Len(none) = N /\ N \in Nat
    BY <1>1
  <1> HIDE DEF none, N
  <1>3. PICK f \in [0..N -> Receiver] : f[0] = r /\ TakeBytes(r, none) = f[N]
    BY <1>2, TakeCourse
  <1> QED
    BY <1>3 DEF none, N

LEMMA TakeType ==
    ASSUME NEW r \in Receiver, NEW bytes \in Seq(Byte)
    PROVE  TakeBytes(r, bytes) \in Receiver
  <1>1. Len(bytes) \in Nat
    BY LenProperties
  <1>2. PICK f \in [0..Len(bytes) -> Receiver] : TakeBytes(r, bytes) = f[Len(bytes)]
    BY <1>1, TakeCourse
  <1> QED
    BY <1>1, <1>2

LEMMA TakeOneMore ==
    ASSUME NEW r \in Receiver, NEW bytes \in Seq(Byte), NEW b \in Byte
    PROVE  TakeBytes(r, Append(bytes, b)) = TakeByte(TakeBytes(r, bytes), b)
  <1> DEFINE N == Len(bytes)
             more == Append(bytes, b)
  <1>1. N \in Nat /\ N + 1 \in Nat /\ N + 1 \in 1..(N + 1) /\ (N + 1) - 1 = N
    BY LenProperties
  <1>2. more \in Seq(Byte) /\ Len(more) = N + 1 /\ more[N + 1] = b
        /\ \A n \in 1..N : more[n] = bytes[n]
    BY AppendProperties
  <1> HIDE DEF N, more
  <1>3. PICK f \in [0..(N + 1) -> Receiver] :
              /\ f[0] = r /\ TakeBytes(r, more) = f[N + 1]
              /\ \A n \in 1..(N + 1) : f[n] = TakeByte(f[n - 1], more[n])
    BY <1>1, <1>2, TakeCourse
  <1>4. PICK g \in [0..N -> Receiver] :
              /\ g[0] = r /\ TakeBytes(r, bytes) = g[N]
              /\ \A n \in 1..N : g[n] = TakeByte(g[n - 1], bytes[n])
    BY <1>1, TakeCourse DEF N
  <1>5. f[0] = g[0] /\ \A n \in 1..N : f[n - 1] = g[n - 1] => f[n] = g[n]
    BY <1>1, <1>2, <1>3, <1>4
  <1>6. f[N] = g[N]
    BY <1>1, <1>5, SameCourse
  <1>7. f[N + 1] = TakeByte(f[N], b)
    BY <1>1, <1>2, <1>3
  <1> QED
    BY <1>3, <1>4, <1>6, <1>7 DEF more

\* Bytes that come together or one piece after the other.
LEMMA TakeTwice ==
    ASSUME NEW r \in Receiver, NEW p \in Seq(Byte), NEW q \in Seq(Byte)
    PROVE  TakeBytes(r, p \o q) = TakeBytes(TakeBytes(r, p), q)
  <1> DEFINE R == TakeBytes(r, p)
             P == {u \in Seq(Byte) : TakeBytes(r, p \o u) = TakeBytes(R, u)}
  <1>1. R \in Receiver
    BY TakeType
  <1>2. <<>> \in P
    <2>1. p \o <<>> = p /\ <<>> \in Seq(Byte)
      OBVIOUS
    <2>2. TakeBytes(R, <<>>) = R
      BY <1>1, TakeNone
    <2> QED
      BY <2>1, <2>2
  <1>3. ASSUME NEW u \in Seq(Byte), NEW b \in Byte, u \in P
        PROVE  Append(u, b) \in P
    <2>1. p \o Append(u, b) = Append(p \o u, b) /\ p \o u \in Seq(Byte)
      BY ConcatAppend, ConcatProperties
    <2>2. TakeBytes(r, Append(p \o u, b)) = TakeByte(TakeBytes(r, p \o u), b)
      BY <2>1, TakeOneMore
    <2>3. TakeBytes(R, Append(u, b)) = TakeByte(TakeBytes(R, u), b)
      BY <1>1, TakeOneMore
    <2>4. Append(u, b) \in Seq(Byte)
      BY AppendProperties
    <2> QED
      BY <1>3, <2>1, <2>2, <2>3, <2>4
  <1> HIDE DEF P
  <1>4. q \in P
    BY <1>2, <1>3, SequencesIn
  <1> QED
    BY <1>4 DEF P

\* A receiver with another buffer.
With(r, msg) == [uart_msg |-> msg, handled |-> r.handled]

Delivered(r, msg) == [uart_msg |-> <<>>, handled |-> Append(r.handled, msg)]

LEMMA WithType ==
    ASSUME NEW r \in Receiver, NEW msg \in Seq(Byte)
    PROVE  /\ With(r, msg) \in Receiver /\ Delivered(r, msg) \in Receiver
           /\ r = With(r, r.uart_msg) /\ r.uart_msg \in Seq(Byte)
  <1>1. r.uart_msg \in Seq(Byte) /\ r.handled \in Seq(Seq(Byte)) /\ <<>> \in Seq(Byte)
    BY DEF Receiver
  <1>2. Append(r.handled, msg) \in Seq(Seq(Byte))
    BY <1>1, AppendProperties
  <1> QED
    BY <1>1, <1>2 DEF Receiver, With, Delivered

LEMMA RoomCalm ==
    ASSUME NEW r, Calm(r)
    PROVE  /\ Room(r) \in Seq(Byte) /\ Len(Room(r)) < SIZE_UART_MSG
           /\ KoovoxMessageStr(Room(r)) = 0 /\ r \in Receiver
           /\ Room(r) = r.uart_msg \/ Room(r) = <<>>
  <1>1. /\ r \in Receiver /\ r.uart_msg \in Seq(Byte) /\ Len(r.uart_msg) \in Nat
        /\ Len(r.uart_msg) <= SIZE_UART_MSG /\ SIZE_UART_MSG \in Nat /\ SIZE_UART_MSG > 2
    BY LenProperties, SizeAssumption, TheTail DEF Calm, Receiver
  <1>2. <<>> \in Seq(Byte) /\ Len(<<>>) = 0
    OBVIOUS
  <1> QED
    BY <1>1, <1>2, StrEmpty DEF Room, Calm

\* What a byte makes of a receiver between two pieces.
LEMMA TakeByteCalm ==
    ASSUME NEW r, Calm(r), NEW b \in Byte
    PROVE  Calm(TakeByte(r, b))
  <1> DEFINE msg == Append(Room(r), b)
  <1>1. r \in Receiver /\ Room(r) \in Seq(Byte) /\ Len(Room(r)) < SIZE_UART_MSG
    BY RoomCalm
  <1>2. msg \in Seq(Byte) /\ Len(msg) = Len(Room(r)) + 1 /\ Len(Room(r)) \in Nat
    BY <1>1, AppendProperties, LenProperties
  <1>3. Len(msg) <= SIZE_UART_MSG
    BY <1>1, <1>2, SizeAssumption
  <1>4. /\ TakeByte(r, b) \in Receiver
        /\ \/ KoovoxMessageStr(msg) = 0 /\ TakeByte(r, b).uart_msg = msg
           \/ TakeByte(r, b).uart_msg = <<>>
    BY <1>1, TakeByteIs
  <1>5. Len(<<>>) <= SIZE_UART_MSG
    BY SizeAssumption
  <1> HIDE DEF msg
  <1> QED
    BY <1>3, <1>4, <1>5, StrEmpty DEF Calm

LEMMA TakeBytesCalm ==
    ASSUME NEW r, Calm(r), NEW q \in Seq(Byte)
    PROVE  Calm(TakeBytes(r, q))
  <1> DEFINE P == {u \in Seq(Byte) : Calm(TakeBytes(r, u))}
  <1>0. r \in Receiver
    BY DEF Calm
  <1>1. <<>> \in P
    BY <1>0, TakeNone
  <1>2. ASSUME NEW u \in Seq(Byte), NEW b \in Byte, u \in P
        PROVE  Append(u, b) \in P
    BY <1>0, <1>2, TakeOneMore, TakeByteCalm, AppendProperties
  <1> HIDE DEF P
  <1>3. q \in P
    BY <1>1, <1>2, SequencesIn
  <1> QED
    BY <1>3 DEF P

\* Bytes without a tail fill the buffer, as far as there is room.
LEMMA Fill ==
    ASSUME NEW r \in Receiver, NEW q \in Seq(Byte),
           Len(r.uart_msg) + Len(q) <= SIZE_UART_MSG,
           KoovoxMessageStr(r.uart_msg \o q) = 0
    PROVE  TakeBytes(r, q) = With(r, r.uart_msg \o q)
  <1> DEFINE x == r.uart_msg
             Good(u) == Len(x) + Len(u) <= SIZE_UART_MSG /\ KoovoxMessageStr(x \o u) = 0
             P == {u \in Seq(Byte) : Good(u) => TakeBytes(r, u) = With(r, x \o u)}
  <1>0. x \in Seq(Byte) /\ Len(x) \in Nat /\ r = With(r, x) /\ SIZE_UART_MSG \in Nat
    BY WithType, LenProperties, SizeAssumption DEF Receiver
  <1>1. <<>> \in P
    <2>1. x \o <<>> = x /\ <<>> \in Seq(Byte)
      BY <1>0
    <2> QED
      BY <1>0, <2>1, TakeNone
  <1>2. ASSUME NEW u \in Seq(Byte), NEW b \in Byte, u \in P
        PROVE  Append(u, b) \in P
    <2> DEFINE y == x \o u
    <2>0. /\ x \o Append(u, b) = Append(y, b) /\ y \in Seq(Byte) /\ Len(y) = Len(x) + Len(u)
          /\ Len(u) \in Nat /\ Len(Append(u, b)) = Len(u) + 1 /\ Append(u, b) \in Seq(Byte)
      <3> HIDE DEF x
      <3>1. x \o Append(u, b) = Append(y, b)
        BY <1>0, ConcatAppend
      <3>2. y \in Seq(Byte) /\ Len(y) = Len(x) + Len(u)
        BY <1>0, ConcatProperties
      <3>3. Len(u) \in Nat /\ Len(Append(u, b)) = Len(u) + 1 /\ Append(u, b) \in Seq(Byte)
        BY LenProperties, AppendProperties
      <3> QED
        BY <3>1, <3>2, <3>3
    <2>1. /\ x \o Append(u, b) = Append(y, b) /\ y \in Seq(Byte) /\ Len(y) = Len(x) + Len(u)
          /\ Len(u) \in Nat /\ Len(Append(u, b)) = Len(u) + 1 /\ Append(u, b) \in Seq(Byte)
      BY <2>0
    <2> SUFFICES ASSUME Good(Append(u, b))
                 PROVE  TakeBytes(r, Append(u, b)) = With(r, x \o Append(u, b))
      BY <2>1
    <2> HIDE DEF x
    <2>2. Len(y) < SIZE_UART_MSG /\ KoovoxMessageStr(Append(y, b)) = 0
      BY <1>0, <2>1
    <2> HIDE DEF y
    <2>3. KoovoxMessageStr(y) = 0
      <3> DEFINE z == Append(y, b)
      <3>1. z \in Seq(Byte) /\ Len(y) \in 0..Len(z) /\ SubSeq(z, 1, Len(y)) = y
        <4>1. z \in Seq(Byte) /\ Len(z) = Len(y) + 1 /\ Len(y) \in Nat
              /\ \A i \in 1..Len(y) : z[i] = y[i]
          BY <2>1, AppendProperties, LenProperties
        <4> HIDE DEF z
        <4>2. \A i \in 1..Len(y) : z[i] \in Byte
          BY <2>1, <4>1, ElementOfSeq
        <4>3. /\ SubSeq(z, 1, Len(y)) \in Seq(Byte) /\ Len(SubSeq(z, 1, Len(y))) = Len(y)
              /\ \A i \in 1..Len(y) : SubSeq(z, 1, Len(y))[i] = z[i]
          BY <4>1, <4>2, SubSeqProperties
        <4>4. SubSeq(z, 1, Len(y)) = y
          BY <2>1, <4>1, <4>3, SeqEqual
        <4> QED
          BY <4>1, <4>4
      <3> HIDE DEF z
      <3> QED
        BY <2>2, <3>1, StrOfPrefix DEF z
    <2>4. TakeBytes(r, u) = With(r, y)
      <3>1. Good(u)
        BY <1>0, <2>1, <2>2, <2>3 DEF y
      <3> QED
        BY <1>2, <3>1 DEF y
    <2>5. With(r, y) \in Receiver /\ With(r, y).uart_msg = y /\ With(r, y).handled = r.handled
      BY <2>1, WithType DEF With
    <2>6. Room(With(r, y)) = y
      BY <2>2, <2>5 DEF Room
    <2>7. TakeByte(With(r, y), b) = With(r, Append(y, b))
      BY <2>2, <2>5, <2>6, TakeByteIs DEF With
    <2>8. TakeBytes(r, Append(u, b)) = With(r, Append(y, b))
      BY <2>4, <2>7, TakeOneMore
    <2> QED
      BY <2>1, <2>8
  <1> HIDE DEF P
  <1>3. q \in P
    BY <1>1, <1>2, SequencesIn
  <1> QED
    BY <1>0, <1>3 DEF P

\* Bytes up to the end of a tail are delivered with what was in the buffer.
LEMMA FillTail ==
    ASSUME NEW r \in Receiver, KoovoxMessageStr(r.uart_msg) = 0, NEW q \in Seq(Byte),
           Len(r.uart_msg) + Len(q) <= SIZE_UART_MSG,
           KoovoxMessageStr(r.uart_msg \o q) # 0
    PROVE  LET msg == r.uart_msg \o q
               ret == KoovoxMessageStr(msg)
           IN /\ ret - Len(r.uart_msg) \in 1..Len(q)
              /\ TakeBytes(r, SubSeq(q, 1, ret - Len(r.uart_msg)))
                   = Delivered(r, SubSeq(msg, 1, ret))
  <1> DEFINE x == r.uart_msg
             msg == x \o q
             ret == KoovoxMessageStr(msg)
             c == ret - Len(x)
             front == SubSeq(q, 1, c - 1)
             y == x \o front
  <1>0. x \in Seq(Byte) /\ Len(x) \in Nat /\ SIZE_UART_MSG \in Nat /\ Len(q) \in Nat
    BY WithType, LenProperties, SizeAssumption DEF Receiver
  <1>1. msg \in Seq(Byte) /\ Len(msg) = Len(x) + Len(q)
    BY <1>0, ConcatProperties
  <1>2. \A p \in 0..Len(msg) :
           /\ ret \in 0..Len(msg)
           /\ KoovoxMessageStr(SubSeq(msg, 1, p)) = IF ret # 0 /\ p >= ret THEN ret ELSE 0
    BY <1>1, StrOfPrefix
  <1>3. \A k \in 0..Len(q) : SubSeq(msg, 1, Len(x) + k) = x \o SubSeq(q, 1, k)
    <2> TAKE k \in 0..Len(q)
    <2> HIDE DEF x
    <2> QED
      BY <1>0, PrefixOfConcat
  <1> HIDE DEF x, msg
  <1>4. ret \in 1..Len(msg)
    <2>1. 0 \in 0..Len(msg)
      BY <1>0, <1>1
    <2> QED
      BY <1>0, <1>1, <1>2, <2>1 DEF x, msg
  <1>5. ret > Len(x)
    <2>1. SubSeq(msg, 1, Len(x) + 0) = x
      <3>1. SubSeq(q, 1, 0) = <<>> /\ x \o <<>> = x
        BY <1>0, SubSeqEnds
      <3>2. 0 \in 0..Len(q)
        BY <1>0
      <3> QED
        BY <1>3, <3>1, <3>2
    <2>2. KoovoxMessageStr(x) = 0 /\ Len(x) + 0 = Len(x) /\ Len(x) \in 0..Len(msg)
      BY <1>0, <1>1 DEF x
    <2>3. ~(Len(x) >= ret)
      <3> DEFINE p == Len(x)
      <3>1. KoovoxMessageStr(SubSeq(msg, 1, p)) = IF ret # 0 /\ p >= ret THEN ret ELSE 0
        BY <1>2, <2>2
      <3>2. SubSeq(msg, 1, p) = x
        BY <2>1, <2>2
      <3>3. ret # 0
        BY <1>4
      <3> HIDE DEF p, ret
      <3>4. ~(p >= ret)
        BY <2>2, <3>1, <3>2, <3>3
      <3> QED
        BY <3>4 DEF p
    <2> QED
      BY <1>0, <1>4, <2>3
  <1>6. c \in 1..Len(q) /\ Len(x) + c = ret /\ c - 1 \in 0..Len(q) /\ Len(x) + (c - 1) = ret - 1
    BY <1>0, <1>1, <1>4, <1>5
  <1> HIDE DEF ret, c
  <1>7. SubSeq(q, 1, c) = Append(front, q[c]) /\ front \in Seq(Byte) /\ Len(front) = c - 1
        /\ q[c] \in Byte
    BY <1>6, PrefixGrows
  <1>8. SubSeq(msg, 1, ret) = x \o SubSeq(q, 1, c) /\ SubSeq(msg, 1, ret - 1) = y
    <2>1. c \in 0..Len(q)
      BY <1>6
    <2> QED
      BY <1>3, <1>6, <2>1
  <1> HIDE DEF front
  <1>9. x \o SubSeq(q, 1, c) = Append(y, q[c]) /\ y \in Seq(Byte) /\ Len(y) = Len(x) + Len(front)
    <2>1. x \o Append(front, q[c]) = Append(x \o front, q[c])
      BY <1>0, <1>7, ConcatAppend
    <2>2. x \o front \in Seq(Byte) /\ Len(x \o front) = Len(x) + Len(front)
      BY <1>0, <1>7, ConcatProperties
    <2>3. SubSeq(q, 1, c) = Append(front, q[c])
      BY <1>7
    <2> QED
      BY <2>1, <2>2, <2>3
  <1> HIDE DEF y
  <1>10. KoovoxMessageStr(y) = 0 /\ KoovoxMessageStr(Append(y, q[c])) # 0
    <2>1. ret - 1 \in 0..Len(msg) /\ ret \in 0..Len(msg) /\ ~(ret - 1 >= ret) /\ ret >= ret /\ ret # 0
      BY <1>0, <1>1, <1>4
    <2>2. KoovoxMessageStr(SubSeq(msg, 1, ret - 1)) = 0 /\ KoovoxMessageStr(SubSeq(msg, 1, ret)) # 0
      BY <1>2, <2>1
    <2> QED
      BY <1>8, <1>9, <2>2
  <1>11. TakeBytes(r, front) = With(r, y)
    <2>1. Len(x) + Len(front) <= SIZE_UART_MSG
      BY <1>0, <1>6, <1>7 DEF x
    <2> QED
      BY <1>7, <1>10, <2>1, Fill DEF x, y
  <1>12. TakeByte(With(r, y), q[c]) = Delivered(r, Append(y, q[c]))
    <2>1. With(r, y) \in Receiver /\ With(r, y).uart_msg = y /\ With(r, y).handled = r.handled
      BY <1>9, WithType DEF With
    <2>2. Len(y) < SIZE_UART_MSG
      BY <1>0, <1>6, <1>7, <1>9 DEF x
    <2>3. Room(With(r, y)) = y
      BY <1>0, <2>1, <2>2 DEF Room
    <2> QED
      BY <1>7, <1>10, <2>1, <2>3, TakeByteIs DEF Delivered
  <1>13. TakeBytes(r, Append(front, q[c])) = Delivered(r, Append(y, q[c]))
    BY <1>7, <1>11, <1>12, TakeOneMore
  <1> QED
    BY <1>6, <1>7, <1>8, <1>9, <1>13 DEF x, msg, ret, c

-----------------------------------------------------------------------------
(* The loop over a piece                                                   *)

LEMMA IndexIs ==
    ASSUME NEW a \in Nat
    PROVE  /\ INDEX_SIZE \in Nat /\ INDEX_SIZE > 0
           /\ a % INDEX_SIZE \in Nat /\ a % INDEX_SIZE <= a
           /\ a < INDEX_SIZE => a % INDEX_SIZE = a
  <1>1. INDEX_SIZE \in Nat /\ INDEX_SIZE > 0
    BY SizeAssumption, TheTail
  <1> QED
    BY <1>1

\* A full buffer is as good as an empty one.
LEMMA StartedOver ==
    ASSUME NEW r, Calm(r), NEW q \in Seq(Byte), q # <<>>
    PROVE  TakeBytes(r, q) = TakeBytes(With(r, Room(r)), q)
  <1> DEFINE R == With(r, Room(r))
             P == {u \in Seq(Byte) : u # <<>> => TakeBytes(r, u) = TakeBytes(R, u)}
  <1>0. Room(r) \in Seq(Byte) /\ Len(Room(r)) < SIZE_UART_MSG /\ r \in Receiver
    BY RoomCalm
  <1>1. R \in Receiver /\ R.uart_msg = Room(r) /\ R.handled = r.handled
    BY <1>0, WithType DEF With
  <1>2. Room(R) = Room(r)
    <2>1. Len(Room(r)) # SIZE_UART_MSG
      BY <1>0, LenProperties, SizeAssumption
    <2> HIDE DEF R
    <2>2. Room(R) = IF Len(Room(r)) = SIZE_UART_MSG THEN <<>> ELSE Room(r)
      BY <1>1 DEF Room
    <2> QED
      BY <2>1, <2>2
  <1> HIDE DEF R
  <1>3. ASSUME NEW b \in Byte
        PROVE  TakeByte(r, b) = TakeByte(R, b)
    <2> DEFINE msg == Append(Room(r), b)
    <2>1. /\ KoovoxMessageStr(msg) = 0
               => TakeByte(r, b) = [uart_msg |-> msg, handled |-> r.handled]
          /\ KoovoxMessageStr(msg) # 0
               => TakeByte(r, b) = [uart_msg |-> <<>>, handled |-> Append(r.handled, msg)]
      BY <1>0, TakeByteIs
    <2>2. Append(Room(R), b) = msg
      BY <1>2
    <2>3. /\ KoovoxMessageStr(msg) = 0
               => TakeByte(R, b) = [uart_msg |-> msg, handled |-> R.handled]
          /\ KoovoxMessageStr(msg) # 0
               => TakeByte(R, b) = [uart_msg |-> <<>>, handled |-> Append(R.handled, msg)]
      <3> HIDE DEF msg
      <3> QED
        BY <1>1, <2>2, TakeByteIs
    <2> HIDE DEF msg
    <2> QED
      BY <1>1, <2>1, <2>3
  <1>4. <<>> \in P
    OBVIOUS
  <1>5. ASSUME NEW u \in Seq(Byte), NEW b \in Byte, u \in P
        PROVE  Append(u, b) \in P
    <2>1. Append(u, b) \in Seq(Byte)
      BY AppendProperties
    <2>2. TakeBytes(r, Append(u, b)) = TakeByte(TakeBytes(r, u), b)
          /\ TakeBytes(R, Append(u, b)) = TakeByte(TakeBytes(R, u), b)
      BY <1>0, <1>1, TakeOneMore
    <2>3. CASE u = <<>>
      BY <1>0, <1>1, <1>3, <2>1, <2>2, <2>3, TakeNone
    <2>4. CASE u # <<>>
      BY <1>5, <2>1, <2>2, <2>4
    <2> QED
      BY <2>3, <2>4
  <1> HIDE DEF P
  <1>6. q \in P
    BY <1>4, <1>5, SequencesIn
  <1> QED
    BY <1>6 DEF P, R

\* A part of the piece.
LEMMA PartIs ==
    ASSUME NEW data \in Seq(Byte), NEW i \in Nat, NEW n \in Nat, i + n <= Len(data)
    PROVE  LET part == SubSeq(data, i + 1, i + n)
           IN /\ part \in Seq(Byte) /\ Len(part) = n
              /\ \A k \in 1..n : part[k] = data[i + k]
  <1>1. Len(data) \in Nat
    BY LenProperties
  <1>2. \A k \in (i + 1)..(i + n) : data[k] \in Byte
    BY <1>1, ElementOfSeq
  <1> DEFINE part == SubSeq(data, i + 1, i + n)
  <1>3. part \in Seq(Byte) /\ Len(part) = IF i + 1 <= i + n THEN (i + n) - (i + 1) + 1 ELSE 0
    BY <1>1, <1>2, SubSeqProperties
  <1>4. \A k \in 1..((i + n) - (i + 1) + 1) : part[k] = data[(i + 1) + k - 1]
    BY <1>1, <1>2, SubSeqProperties
  <1> HIDE DEF part
  <1>5. \A k \in 1..n : (i + 1) + k - 1 = i + k
    OBVIOUS
  <1>6. Len(part) = n
    BY <1>3
  <1>7. (i + n) - (i + 1) + 1 = n
    OBVIOUS
  <1> QED
    BY <1>3, <1>4, <1>5, <1>6, <1>7 DEF part

\* The first k bytes of a part.
LEMMA PartOfPart ==
    ASSUME NEW data \in Seq(Byte), NEW i \in Nat, NEW n \in Nat, i + n <= Len(data),
           NEW k \in 0..n
    PROVE  SubSeq(SubSeq(data, i + 1, i + n), 1, k) = SubSeq(data, i + 1, i + k)
  <1> DEFINE part == SubSeq(data, i + 1, i + n)
             u == SubSeq(part, 0 + 1, 0 + k)
             v == SubSeq(data, i + 1, i + k)
  <1>1. Len(data) \in Nat /\ k \in Nat /\ i + k <= Len(data)
    BY LenProperties
  <1>2. part \in Seq(Byte) /\ Len(part) = n /\ \A m \in 1..n : part[m] = data[i + m]
    BY PartIs
  <1>3. v \in Seq(Byte) /\ Len(v) = k /\ \A m \in 1..k : v[m] = data[i + m]
    BY <1>1, PartIs
  <1> HIDE DEF part, v
  <1>4. 0 \in Nat /\ 0 + k <= Len(part)
    BY <1>1, <1>2
  <1>5. u \in Seq(Byte) /\ Len(u) = k /\ \A m \in 1..k : u[m] = part[0 + m]
    BY <1>1, <1>2, <1>4, PartIs
  <1>6. 0 + 1 = 1 /\ 0 + k = k
    BY <1>1
  <1> HIDE DEF u
  <1>7. \A m \in 1..k : u[m] = v[m]
    <2> TAKE m \in 1..k
    <2>1. 0 + m = m /\ m \in 1..n
      BY <1>1
    <2>2. u[m] = part[m]
      BY <1>5, <2>1
    <2> QED
      BY <1>2, <1>3, <2>1, <2>2
  <1>8. u = v
    BY <1>3, <1>5, <1>7, SeqEqual
  <1> QED
    BY <1>6, <1>8 DEF u, v, part

\* A beginning and the part behind it.
LEMMA PartBehind ==
    ASSUME NEW data \in Seq(Byte), NEW i \in Nat, NEW n \in Nat, i + n <= Len(data)
    PROVE  /\ SubSeq(data, 1, i) \in Seq(Byte)
           /\ SubSeq(data, 1, i + n) = SubSeq(data, 1, i) \o SubSeq(data, i + 1, i + n)
  <1> DEFINE p == SubSeq(data, 0 + 1, 0 + i)
             q == SubSeq(data, i + 1, i + n)
             u == SubSeq(data, 0 + 1, 0 + (i + n))
             v == p \o q
  <1>1. Len(data) \in Nat /\ i <= Len(data) /\ i + n \in Nat
    BY LenProperties
  <1>2. q \in Seq(Byte) /\ Len(q) = n /\ \A m \in 1..n : q[m] = data[i + m]
    BY PartIs
  <1>3. 0 \in Nat /\ 0 + i <= Len(data) /\ 0 + (i + n) <= Len(data)
    BY <1>1
  <1>4. p \in Seq(Byte) /\ Len(p) = i /\ \A m \in 1..i : p[m] = data[0 + m]
    BY <1>3, PartIs
  <1>5. u \in Seq(Byte) /\ Len(u) = i + n /\ \A m \in 1..(i + n) : u[m] = data[0 + m]
    BY <1>1, <1>3, PartIs
  <1> HIDE DEF p, q, u
  <1>6. v \in Seq(Byte) /\ Len(v) = i + n
        /\ \A m \in 1..(i + n) : v[m] = IF m <= i THEN p[m] ELSE q[m - i]
    BY <1>2, <1>4, ConcatProperties
  <1> HIDE DEF v
  <1>7. \A m \in 1..(i + n) : u[m] = v[m]
    <2> TAKE m \in 1..(i + n)
    <2>1. u[m] = data[m]
      BY <1>5
    <2>2. CASE m <= i
      BY <1>4, <1>6, <2>1, <2>2
    <2>3. CASE ~(m <= i)
      <3>1. m - i \in 1..n /\ i + (m - i) = m
        BY <2>3
      <3> QED
        BY <1>2, <1>6, <2>1, <2>3, <3>1
    <2> QED
      BY <2>2, <2>3
  <1>8. u = v
    BY <1>5, <1>6, <1>7, SeqEqual
  <1>9. 0 + 1 = 1 /\ 0 + i = i /\ 0 + (i + n) = i + n
    BY <1>1
  <1> QED
    BY <1>4, <1>8, <1>9 DEF u, v, p, q

ReceiverOf(r) == [uart_msg |-> r.uart_msg, handled |-> r.handled]

\* What the loop has between two turns.
Looping(data) ==
    {r \in [uart_msg : Seq(Byte), i : Nat, length : Nat, handled : Seq(Seq(Byte))] :
        Calm(ReceiverOf(r)) /\ r.i + r.length <= Len(data)}

LEMMA LoopingIs ==
    ASSUME NEW data \in Seq(Byte), NEW R, Calm(R), NEW i \in Nat, NEW length \in Nat,
           i + length <= Len(data)
    PROVE  LET r == [uart_msg |-> R.uart_msg, i |-> i, length |-> length, handled |-> R.handled]
           IN r \in Looping(data) /\ ReceiverOf(r) = R
  <1>1. R \in Receiver
    BY DEF Calm
  <1> DEFINE r == [uart_msg |-> R.uart_msg, i |-> i, length |-> length, handled |-> R.handled]
  <1>2. ReceiverOf(r) = R
    BY <1>1 DEF ReceiverOf, Receiver
  <1>3. r \in [uart_msg : Seq(Byte), i : Nat, length : Nat, handled : Seq(Seq(Byte))]
    BY <1>1 DEF Receiver
  <1>4. r.i = i /\ r.length = length
    OBVIOUS
  <1> HIDE DEF r
  <1> QED
    BY <1>2, <1>3, <1>4 DEF Looping, r

\* A turn takes some bytes of the piece, and does with them what the receiver does
\* that takes them one by one.
LEMMA TurnTakes ==
    ASSUME NEW data \in Seq(Byte), NEW r \in Looping(data), r.length # 0
    PROVE  /\ Turn(data, r) \in Looping(data)
           /\ \E c \in 1..r.length :
                 /\ Turn(data, r).i = (r.i + c) % INDEX_SIZE
                 /\ Turn(data, r).length = r.length - c
                 /\ ReceiverOf(Turn(data, r))
                      = TakeBytes(ReceiverOf(r), SubSeq(data, r.i + 1, r.i + c))
  <1> DEFINE R     == ReceiverOf(r)
             start == Room(R)
             n     == Copied(start, r.length)
             piece == SubSeq(data, r.i + 1, r.i + n)
             msg   == start \o piece
             ret   == KoovoxMessageStr(msg)
             S     == With(R, start)
             T     == Turn(data, r)
  <1>1. /\ r.i \in Nat /\ r.length \in Nat \ {0} /\ r.i + r.length <= Len(data) /\ Calm(R)
        /\ Len(data) \in Nat
    BY LenProperties DEF Looping
  <1>2. /\ start \in Seq(Byte) /\ Len(start) < SIZE_UART_MSG /\ KoovoxMessageStr(start) = 0
        /\ R \in Receiver /\ Len(start) \in Nat /\ SIZE_UART_MSG \in Nat
    <2> HIDE DEF R
    <2> QED
      BY <1>1, RoomCalm, LenProperties, SizeAssumption
  <1>3. n \in 1..r.length /\ Len(start) + n <= SIZE_UART_MSG
    <2> HIDE DEF start
    <2> QED
      BY <1>1, <1>2 DEF Copied
  <1>4. start = StartOver(r.uart_msg)
    BY DEF Room, StartOver, ReceiverOf
  <1>5. T = IF ret = 0
            THEN [r EXCEPT !.uart_msg = msg, !.i = (@ + n) % INDEX_SIZE, !.length = @ - n]
            ELSE [uart_msg |-> <<>>, i |-> (r.i + n - (Len(msg) - ret)) % INDEX_SIZE,
                  length |-> r.length - n + (Len(msg) - ret),
                  handled |-> Append(r.handled, SubSeq(msg, 1, ret))]
    BY <1>4 DEF Turn, GiveBack
  <1>6. S \in Receiver /\ S.uart_msg = start /\ S.handled = r.handled /\ Calm(S)
    <2>1. S \in Receiver /\ S.uart_msg = start /\ S.handled = R.handled
      <3> HIDE DEF start, R
      <3> QED
        BY <1>2, WithType DEF With
    <2>2. R.handled = r.handled
      BY DEF ReceiverOf
    <2> HIDE DEF S
    <2> QED
      BY <1>2, <2>1, <2>2 DEF Calm
  <1>7. r = [uart_msg |-> r.uart_msg, i |-> r.i, length |-> r.length, handled |-> r.handled]
    BY DEF Looping
  <1> HIDE DEF n, start, S, T, R
  <1>8. piece \in Seq(Byte) /\ Len(piece) = n
    <2>1. n \in Nat /\ r.i + n <= Len(data)
      BY <1>1, <1>3
    <2> QED
      BY <1>1, <2>1, PartIs
  <1>9. \A k \in 0..n : SubSeq(piece, 1, k) = SubSeq(data, r.i + 1, r.i + k)
    <2>1. n \in Nat /\ r.i + n <= Len(data)
      BY <1>1, <1>3
    <2> QED
      BY <1>1, <2>1, PartOfPart
  <1>10. msg \in Seq(Byte) /\ Len(msg) = Len(start) + n
    BY <1>2, <1>8, ConcatProperties
  <1> DEFINE X == ReceiverOf(T)
             done(c) == /\ T.i = (r.i + c) % INDEX_SIZE
                        /\ T.length = r.length - c
                        /\ X = TakeBytes(S, SubSeq(data, r.i + 1, r.i + c))
                        /\ T = [uart_msg |-> X.uart_msg, i |-> T.i, length |-> T.length,
                                handled |-> X.handled]
  <1>11. ASSUME ret = 0
         PROVE  \E c \in 1..r.length : done(c)
    <2> HIDE DEF msg
    <2>1. T = [uart_msg |-> msg, i |-> (r.i + n) % INDEX_SIZE, length |-> r.length - n,
               handled |-> r.handled]
      BY <1>5, <1>7, <1>11
    <2>2. X = With(S, msg) /\ With(S, msg).uart_msg = msg
          /\ With(S, msg).handled = r.handled
      BY <1>6, <2>1 DEF ReceiverOf, With
    <2> HIDE DEF piece
    <2>3. TakeBytes(S, piece) = With(S, msg)
      BY <1>2, <1>3, <1>6, <1>8, <1>11, Fill DEF msg
    <2> HIDE DEF X
    <2>4. done(n)
      BY <2>1, <2>2, <2>3 DEF piece
    <2> QED
      BY <1>3, <2>4
  <1>12. ASSUME ret # 0
         PROVE  \E c \in 1..r.length : done(c)
    <2> DEFINE c == ret - Len(start)
               Y == Delivered(S, SubSeq(msg, 1, ret))
    <2>1. c \in 1..n /\ TakeBytes(S, SubSeq(piece, 1, c)) = Y
      <3> HIDE DEF piece
      <3> QED
        BY <1>2, <1>3, <1>6, <1>8, <1>12, FillTail
    <2>2. SubSeq(piece, 1, c) = SubSeq(data, r.i + 1, r.i + c)
      <3>1. c \in 0..n
        BY <2>1
      <3> HIDE DEF c, piece
      <3> QED
        BY <1>9, <3>1
    <2>3. ret \in Int
      <3>1. 0 \in 0..Len(msg)
        BY <1>2, <1>3, <1>10
      <3>2. ret \in 0..Len(msg)
        <4> HIDE DEF msg
        <4> QED
          BY <1>10, <3>1, StrOfPrefix
      <3> QED
        BY <1>2, <1>3, <1>10, <3>2
    <2> HIDE DEF msg, piece
    <2>4. r.i + n - (Len(msg) - ret) = r.i + c /\ r.length - n + (Len(msg) - ret) = r.length - c
      BY <1>1, <1>2, <1>3, <1>10, <2>3
    <2>5. T = [uart_msg |-> <<>>, i |-> (r.i + c) % INDEX_SIZE, length |-> r.length - c,
               handled |-> Append(r.handled, SubSeq(msg, 1, ret))]
      BY <1>5, <1>12, <2>4
    <2>6. X = Y /\ X.uart_msg = <<>>
          /\ X.handled = Append(r.handled, SubSeq(msg, 1, ret))
      BY <1>6, <2>5 DEF ReceiverOf, Delivered
    <2> HIDE DEF c, X, Y
    <2>7. done(c)
      BY <2>1, <2>2, <2>5, <2>6
    <2>8. c \in 1..r.length
      BY <1>1, <1>3, <2>1
    <2> QED
      BY <2>7, <2>8
  <1>13. PICK c \in 1..r.length : done(c)
    <2> HIDE DEF done, ret
    <2> QED
      BY <1>11, <1>12
  <1> DEFINE part == SubSeq(data, r.i + 1, r.i + c)
  <1>14. part \in Seq(Byte) /\ part # <<>>
    <2>1. c \in Nat /\ r.i + c <= Len(data) /\ c # 0
      BY <1>1
    <2>2. part \in Seq(Byte) /\ Len(part) = c
      BY <1>1, <2>1, PartIs
    <2> HIDE DEF part
    <2> QED
      BY <2>1, <2>2, EmptySeq
  <1>15. X = TakeBytes(S, part) /\ TakeBytes(R, part) = TakeBytes(S, part)
    <2>1. X = TakeBytes(S, part)
      BY <1>13
    <2>2. TakeBytes(R, part) = TakeBytes(S, part)
      <3> HIDE DEF part
      <3> QED
        BY <1>1, <1>14, StartedOver DEF S, start
    <2> QED
      BY <2>1, <2>2
  <1>16. Calm(X)
    <2> HIDE DEF part, X
    <2> QED
      BY <1>6, <1>14, <1>15, TakeBytesCalm
  <1>17. T \in Looping(data)
    <2>1. r.i + c \in Nat /\ r.length - c \in Nat /\ (r.i + c) + (r.length - c) <= Len(data)
      BY <1>1, <1>13
    <2>2. T.i \in Nat /\ T.i <= r.i + c /\ T.length = r.length - c
      BY <1>13, <2>1, IndexIs
    <2>3. T.i + T.length <= Len(data) /\ T.length \in Nat
      BY <1>1, <2>1, <2>2
    <2>4. T = [uart_msg |-> X.uart_msg, i |-> T.i, length |-> T.length, handled |-> X.handled]
      BY <1>13
    <2> HIDE DEF done, X
    <2> QED
      BY <1>16, <2>2, <2>3, <2>4, LoopingIs
  <1>18. /\ T.i = (r.i + c) % INDEX_SIZE /\ T.length = r.length - c
         /\ ReceiverOf(T) = TakeBytes(R, part)
    BY <1>13, <1>15
  <1> HIDE DEF done
  <1> QED
    BY <1>17, <1>18 DEF T, R

First(data) == [uart_msg |-> uart_msg, i |-> 0, length |-> Len(data), handled |-> handled]

Round(data, r) == IF r.length = 0 THEN r ELSE Turn(data, r)

\* The loop, turn by turn.
LEMMA ReceiveCourse ==
    ASSUME NEW data \in Seq(Byte), Calm(Now), NEW N \in Nat, N = Len(data)
    PROVE  \E f \in [0..N -> Looping(data)] :
              /\ f[0] = First(data) /\ Receive(data) = f[N]
              /\ \A n \in 1..N : f[n] = Round(data, f[n - 1])
  <1>1. First(data) \in Looping(data)
    <2>1. 0 \in Nat /\ 0 + N <= Len(data)
      OBVIOUS
    <2>2. Now.uart_msg = uart_msg /\ Now.handled = handled
      BY DEF Now
    <2> HIDE DEF Now
    <2> QED
      BY <2>1, <2>2, LoopingIs DEF First
  <1> DEFINE D == [x \in Looping(data) \X (1..N) |-> Round(data, x[1])]
  <1>2. \A r \in Looping(data) : Round(data, r) \in Looping(data)
    BY TurnTakes DEF Round
  <1>3. D \in [Looping(data) \X (1..N) -> Looping(data)]
    BY <1>2
  <1>4. \A r \in Looping(data), n \in 1..N : D[<<r, n>>] = Round(data, r)
    OBVIOUS
  <1> HIDE DEF D
  <1>5. PICK f \in [0..N -> Looping(data)] : IsLoop(f, N, First(data), D)
    BY <1>1, <1>3, Loop
  <1>6. f[0] = First(data) /\ \A n \in 1..N : f[n] = Round(data, f[n - 1])
    <2>1. \A n \in 1..N : f[n - 1] \in Looping(data)
      OBVIOUS
    <2> QED
      BY <1>4, <1>5, <2>1 DEF IsLoop
  <1> DEFINE Def(g) == g = [n \in 0..N |-> IF n = 0 THEN First(data)
                                           ELSE Round(data, g[n - 1])]
             loop == CHOOSE g : Def(g)
  <1>7. Def(f)
    BY <1>6
  <1>8. Def(loop)
    <2> HIDE DEF Def
    <2> QED
      BY <1>7, Zenon
  <1>9. Receive(data) = loop[N]
    BY Zenon DEF Receive, First, Round
  <1> HIDE DEF loop
  <1>10. loop[0] = First(data) /\ \A n \in 1..N : loop[n] = Round(data, loop[n - 1])
    BY <1>8
  <1>11. loop[N] = f[N]
    <2>1. loop[0] = f[0] /\ \A n \in 1..N : loop[n - 1] = f[n - 1] => loop[n] = f[n]
      BY <1>6, <1>10
    <2> QED
      BY <2>1, SameCourse
  <1> QED
    BY <1>6, <1>9, <1>11

\* What it has after some turns, unless the index overflows: the receiver has taken
\* the bytes in front of those that are left.
AfterTurns(data, r) ==
    Len(data) <= INDEX_SIZE =>
        /\ r.length # 0 => r.i + r.length = Len(data)
        /\ r.length <= Len(data)
        /\ ReceiverOf(r) = TakeBytes(Now, SubSeq(data, 1, Len(data) - r.length))

LEMMA FirstTurn ==
    ASSUME NEW data \in Seq(Byte), Calm(Now)
    PROVE  AfterTurns(data, First(data))
  <1>1. Len(data) \in Nat /\ SubSeq(data, 1, 0) = <<>> /\ Len(data) - Len(data) = 0
    BY LenProperties, SubSeqEnds
  <1>2. TakeBytes(Now, <<>>) = Now
    BY TakeNone DEF Calm
  <1>3. ReceiverOf(First(data)) = Now /\ First(data).i = 0 /\ First(data).length = Len(data)
    BY DEF ReceiverOf, First, Now
  <1> DEFINE r == First(data)
  <1>4. r.i + r.length = Len(data) /\ r.length <= Len(data) /\ Len(data) - r.length = 0
    BY <1>1, <1>3
  <1>5. ReceiverOf(r) = TakeBytes(Now, SubSeq(data, 1, Len(data) - r.length))
    BY <1>1, <1>2, <1>3, <1>4
  <1> HIDE DEF r
  <1>6. AfterTurns(data, r)
    BY <1>4, <1>5 DEF AfterTurns
  <1> QED
    BY <1>6 DEF r

LEMMA OneTurn ==
    ASSUME NEW data \in Seq(Byte), Calm(Now), NEW r \in Looping(data), r.length # 0,
           AfterTurns(data, r)
    PROVE  /\ AfterTurns(data, Turn(data, r))
           /\ Turn(data, r).length \in Nat /\ Turn(data, r).length < r.length
  <1> DEFINE L == Len(data)
             T == Turn(data, r)
  <1>1. L \in Nat /\ r.i \in Nat /\ r.length \in Nat \ {0} /\ r.i + r.length <= L
    BY LenProperties DEF Looping
  <1>2. PICK c \in 1..r.length :
            /\ T.i = (r.i + c) % INDEX_SIZE
            /\ T.length = r.length - c
            /\ ReceiverOf(T) = TakeBytes(ReceiverOf(r), SubSeq(data, r.i + 1, r.i + c))
    BY TurnTakes
  <1> HIDE DEF T
  <1>3. c \in Nat /\ T.length \in Nat /\ T.length < r.length
    BY <1>1, <1>2
  <1>4. ASSUME L <= INDEX_SIZE
        PROVE  /\ T.length # 0 => T.i + T.length = L
               /\ T.length <= L
               /\ ReceiverOf(T) = TakeBytes(Now, SubSeq(data, 1, L - T.length))
    <2>1. r.i + r.length = L /\ ReceiverOf(r) = TakeBytes(Now, SubSeq(data, 1, L - r.length))
      BY <1>1, <1>4 DEF AfterTurns
    <2>2. r.i + c \in Nat /\ r.i + c <= L /\ L - r.length = r.i /\ L - T.length = r.i + c
      BY <1>1, <1>2, <2>1
    <2>3. T.length # 0 => r.i + c < INDEX_SIZE
      <3>1. INDEX_SIZE \in Nat
        BY SizeAssumption
      <3>2. r.length - c # 0 => r.i + c < L
        BY <1>1, <1>3, <2>1
      <3> HIDE DEF L
      <3> QED
        BY <1>1, <1>2, <1>4, <2>2, <3>1, <3>2
    <2>4. T.length # 0 => T.i = r.i + c
      BY <1>2, <2>2, <2>3, IndexIs
    <2>5. T.length # 0 => T.i + T.length = L
      BY <1>1, <1>2, <2>1, <2>4
    <2>6. /\ SubSeq(data, 1, r.i) \in Seq(Byte) /\ SubSeq(data, r.i + 1, r.i + c) \in Seq(Byte)
          /\ SubSeq(data, 1, r.i + c) = SubSeq(data, 1, r.i) \o SubSeq(data, r.i + 1, r.i + c)
      BY <1>1, <1>3, <2>2, PartBehind, PartIs
    <2>7. Now \in Receiver
      BY DEF Calm
    <2>8. ReceiverOf(T) = TakeBytes(Now, SubSeq(data, 1, r.i + c))
      <3>1. TakeBytes(Now, SubSeq(data, 1, r.i) \o SubSeq(data, r.i + 1, r.i + c))
              = TakeBytes(TakeBytes(Now, SubSeq(data, 1, r.i)), SubSeq(data, r.i + 1, r.i + c))
        BY <2>6, <2>7, TakeTwice
      <3> QED
        BY <1>2, <2>1, <2>2, <2>6, <3>1
    <2> QED
      BY <1>1, <1>3, <2>2, <2>5, <2>8
  <1> QED
    BY <1>3, <1>4 DEF T, AfterTurns

\* The loop over a piece does what the receiver does that takes its bytes one by one.
LEMMA ReceiveTakes ==
    ASSUME NEW data \in Seq(Byte), Calm(Now)
    PROVE  /\ Calm(ReceiverOf(Receive(data)))
           /\ Len(data) <= INDEX_SIZE => ReceiverOf(Receive(data)) = TakeBytes(Now, data)
  <1> DEFINE N == Len(data)
  <1>1. N \in Nat
    BY LenProperties
  <1>2. PICK f \in [0..N -> Looping(data)] :
              /\ f[0] = First(data) /\ Receive(data) = f[N]
              /\ \A n \in 1..N : f[n] = Round(data, f[n - 1])
    BY <1>1, ReceiveCourse
  <1> HIDE DEF N
  <1> DEFINE P == {n \in 0..N : f[n].length + n <= N \/ f[n].length = 0}
             Q == {n \in 0..N : AfterTurns(data, f[n])}
  <1>3. \A n \in 0..N : f[n] \in Looping(data) /\ f[n].length \in Nat
    BY <1>2 DEF Looping
  <1>4. 0 \in P /\ 0 \in Q
    <2>1. f[0].length = N
      BY <1>2 DEF First, N
    <2>2. AfterTurns(data, f[0])
      BY <1>2, FirstTurn
    <2> QED
      BY <1>1, <2>1, <2>2
  <1>5. ASSUME NEW n \in 1..N
        PROVE  (n - 1 \in Q => n \in Q) /\ (n - 1 \in Q /\ n - 1 \in P => n \in P)
    <2> DEFINE r == f[n - 1]
    <2>1. n - 1 \in 0..N /\ n \in 0..N /\ r \in Looping(data) /\ r.length \in Nat
      BY <1>1, <1>3
    <2>2. f[n] = Round(data, r)
      BY <1>2
    <2> HIDE DEF r
    <2>3. CASE r.length = 0
      <3>1. f[n] = r
        BY <2>2, <2>3 DEF Round
      <3> QED
        BY <2>1, <2>3, <3>1 DEF r
    <2>4. CASE r.length # 0
      <3>1. f[n] = Turn(data, r)
        BY <2>2, <2>4 DEF Round
      <3>2. AfterTurns(data, r) => /\ AfterTurns(data, f[n])
                                   /\ f[n].length \in Nat /\ f[n].length < r.length
        BY <2>1, <2>4, <3>1, OneTurn
      <3>3. n - 1 \in Q => AfterTurns(data, r)
        BY DEF r
      <3>4. n - 1 \in P => r.length + (n - 1) <= N
        BY <2>4 DEF r
      <3>5. f[n].length < r.length /\ r.length + (n - 1) <= N /\ f[n].length \in Nat
              => f[n].length + n <= N
        BY <1>1, <2>1
      <3> QED
        BY <2>1, <3>2, <3>3, <3>4, <3>5
    <2> QED
      BY <2>3, <2>4
  <1>6. N \in 0..N
    BY <1>1
  <1> HIDE DEF P, Q
  <1>7. N \in Q /\ N \in P
    <2> DEFINE B == P \cap Q
    <2>1. 0 \in B /\ \A n \in 1..N : n - 1 \in B => n \in B
      BY <1>4, <1>5
    <2> HIDE DEF B
    <2>2. N \in B
      BY <1>1, <1>6, <2>1, UpTo
    <2> QED
      BY <2>2 DEF B
  <1>8. f[N].length = 0
    <2>1. f[N].length + N <= N \/ f[N].length = 0
      BY <1>7 DEF P
    <2> QED
      BY <1>1, <1>3, <1>6, <2>1
  <1>9. Calm(ReceiverOf(f[N]))
    <2>1. f[N] \in Looping(data)
      BY <1>3, <1>6
    <2> QED
      BY <2>1 DEF Looping
  <1>10. N <= INDEX_SIZE => ReceiverOf(f[N]) = TakeBytes(Now, data)
    <2>1. AfterTurns(data, f[N])
      BY <1>7 DEF Q
    <2>2. SubSeq(data, 1, N - 0) = data
      <3>1. N - 0 = N
        BY <1>1
      <3> QED
        BY <3>1, SubSeqEnds DEF N
    <2> QED
      BY <1>8, <2>1, <2>2 DEF AfterTurns, N
  <1> QED
    BY <1>2, <1>9, <1>10 DEF N

-----------------------------------------------------------------------------
(* What a frame does to the receiver                                       *)

\* Bytes in which no '}' follows a '{' hold no tail.
LEMMA NoTail ==
    ASSUME NEW b \in Seq(Byte),
           \A k \in 1..(Len(b) - 1) : ~(b[k] = OPEN /\ b[k + 1] = CLOSE)
    PROVE  KoovoxMessageStr(b) = 0
  <1> DEFINE N == Len(b)
             u(n) == SubSeq(b, 1, n)
             Good(n) == /\ KoovoxMessageStr(u(n)) = 0
                        /\ Half(u(n)) => n # 0 /\ b[n] = OPEN
             P == {n \in 0..N : Good(n)}
  <1>1. N \in Nat
    BY LenProperties
  <1>2. 0 \in P
    <2>1. u(0) = <<>>
      BY SubSeqEnds
    <2>2. Good(0)
      <3> HIDE DEF u
      <3> QED
        BY <2>1, StrEmpty
    <2> QED
      BY <1>1, <2>2
  <1>3. ASSUME NEW n \in 1..N, n - 1 \in P
        PROVE  n \in P
    <2>1. u(n) = Append(u(n - 1), b[n]) /\ u(n - 1) \in Seq(Byte) /\ b[n] \in Byte
      BY PrefixGrows
    <2>2. KoovoxMessageStr(u(n - 1)) = 0 /\ (Half(u(n - 1)) => n - 1 # 0 /\ b[n - 1] = OPEN)
      BY <1>3
    <2>3. ~(Half(u(n - 1)) /\ b[n] = CLOSE)
      <3>1. n - 1 # 0 => n - 1 \in 1..(Len(b) - 1) /\ (n - 1) + 1 = n
        BY <1>1
      <3>2. n - 1 # 0 => ~(b[n - 1] = OPEN /\ b[n] = CLOSE)
        BY <3>1
      <3> QED
        BY <2>2, <3>2
    <2> HIDE DEF u
    <2>4. /\ Half(u(n)) => b[n] = OPEN
          /\ KoovoxMessageStr(u(n)) = 0
      BY <2>1, <2>2, <2>3, StrAppend
    <2> QED
      BY <1>1, <2>4
  <1>4. N \in P
    <2> HIDE DEF P
    <2>1. \A n \in 1..N : n - 1 \in P => n \in P
      BY <1>3
    <2>2. N \in 0..N
      BY <1>1
    <2> QED
      BY <1>1, <1>2, <2>1, <2>2, UpTo
  <1>5. u(N) = b
    BY SubSeqEnds
  <1> QED
    BY <1>4, <1>5

\* The buffer grows by no more than the bytes taken.
LEMMA Grows ==
    ASSUME NEW R, Calm(R), NEW q \in Seq(Byte)
    PROVE  Len(TakeBytes(R, q).uart_msg) <= Len(R.uart_msg) + Len(q)
  <1> DEFINE L == Len(R.uart_msg)
             P == {u \in Seq(Byte) : Len(TakeBytes(R, u).uart_msg) <= L + Len(u)}
  <1>1. R \in Receiver /\ L \in Nat
    BY LenProperties DEF Calm, Receiver
  <1>2. <<>> \in P
    <2>1. TakeBytes(R, <<>>) = R /\ <<>> \in Seq(Byte) /\ Len(<<>>) = 0
      BY <1>1, TakeNone
    <2> QED
      BY <1>1, <2>1
  <1>3. ASSUME NEW u \in Seq(Byte), NEW e \in Byte, u \in P
        PROVE  Append(u, e) \in P
    <2> DEFINE S   == TakeBytes(R, u)
               T   == TakeByte(S, e)
               msg == Append(Room(S), e)
    <2>1. Calm(S) /\ TakeBytes(R, Append(u, e)) = T
      BY <1>1, TakeBytesCalm, TakeOneMore
    <2>2. Len(S.uart_msg) <= L + Len(u)
      BY <1>3
    <2>3. Len(u) \in Nat /\ Len(Append(u, e)) = Len(u) + 1 /\ Append(u, e) \in Seq(Byte)
      BY LenProperties, AppendProperties
    <2> HIDE DEF S, L
    <2>4. /\ S \in Receiver /\ Room(S) \in Seq(Byte) /\ Len(Room(S)) \in Nat
          /\ Room(S) = S.uart_msg \/ Room(S) = <<>>
      BY <2>1, RoomCalm, LenProperties
    <2>5. Len(msg) = Len(Room(S)) + 1 /\ (T.uart_msg = msg \/ T.uart_msg = <<>>)
      <3>1. T = [uart_msg |-> msg, handled |-> S.handled]
            \/ T = [uart_msg |-> <<>>, handled |-> Append(S.handled, msg)]
        BY <2>4, TakeByteIs
      <3>2. Len(msg) = Len(Room(S)) + 1
        BY <2>4, AppendProperties
      <3> HIDE DEF msg, T
      <3> QED
        BY <3>1, <3>2
    <2> HIDE DEF msg, T
    <2>6. Len(Room(S)) <= L + Len(u)
      BY <1>1, <2>2, <2>3, <2>4
    <2>7. Len(T.uart_msg) <= L + (Len(u) + 1)
      <3>1. Len(<<>>) = 0
        OBVIOUS
      <3> QED
        BY <1>1, <2>3, <2>4, <2>5, <2>6, <3>1
    <2> QED
      BY <2>1, <2>3, <2>7
  <1> HIDE DEF P
  <1>4. q \in P
    BY <1>2, <1>3, SequencesIn
  <1> QED
    BY <1>4 DEF P

Fresh == [uart_msg |-> <<>>, handled |-> <<>>]

LEMMA FreshIs == Fresh \in Receiver /\ Calm(Fresh)
  <1>1. <<>> \in Seq(Byte) /\ <<>> \in Seq(Seq(Byte)) /\ Len(<<>>) <= SIZE_UART_MSG
    BY SizeAssumption
  <1>2. Fresh.uart_msg = <<>> /\ Fresh \in Receiver
    BY <1>1 DEF Fresh, Receiver
  <1> QED
    BY <1>1, <1>2, StrEmpty DEF Calm

\* The receiver r, with frames that were handled before.
Behind(R, r) == [uart_msg |-> r.uart_msg, handled |-> R.handled \o r.handled]

\* Behind an empty buffer the receiver does what it does at the beginning.
LEMMA Shifted ==
    ASSUME NEW R \in Receiver, R.uart_msg = <<>>, NEW q \in Seq(Byte)
    PROVE  TakeBytes(R, q) = Behind(R, ByteWise(q)) /\ ByteWise(q) \in Receiver
  <1> DEFINE P == {u \in Seq(Byte) : TakeBytes(R, u) = Behind(R, ByteWise(u))}
  <1>1. R = [uart_msg |-> R.uart_msg, handled |-> R.handled] /\ R.handled \in Seq(Seq(Byte))
    BY DEF Receiver
  <1>2. \A u \in Seq(Byte) : ByteWise(u) = TakeBytes(Fresh, u) /\ ByteWise(u) \in Receiver
    BY FreshIs, TakeType DEF ByteWise, Fresh
  <1>3. <<>> \in P
    <2>1. TakeBytes(R, <<>>) = R /\ ByteWise(<<>>) = Fresh /\ <<>> \in Seq(Byte)
      <3>1. <<>> \in Seq(Byte)
        OBVIOUS
      <3>2. TakeBytes(R, <<>>) = R /\ TakeBytes(Fresh, <<>>) = Fresh
        BY FreshIs, TakeNone
      <3> QED
        BY <1>2, <3>1, <3>2
    <2>2. R.handled \o <<>> = R.handled
      BY <1>1
    <2>3. Behind(R, Fresh) = R
      BY <1>1, <2>2 DEF Behind, Fresh
    <2> QED
      BY <2>1, <2>3
  <1>4. ASSUME NEW u \in Seq(Byte), NEW e \in Byte, u \in P
        PROVE  Append(u, e) \in P
    <2> DEFINE F   == ByteWise(u)
               G   == Behind(R, F)
               msg == Append(Room(F), e)
    <2>1. /\ TakeBytes(R, Append(u, e)) = TakeByte(G, e)
          /\ ByteWise(Append(u, e)) = TakeByte(F, e) /\ Append(u, e) \in Seq(Byte)
      <3>1. Append(u, e) \in Seq(Byte)
        BY AppendProperties
      <3>2. TakeBytes(R, u) = G /\ ByteWise(u) = TakeBytes(Fresh, u)
        BY <1>2, <1>4
      <3>3. TakeBytes(R, Append(u, e)) = TakeByte(TakeBytes(R, u), e)
        BY TakeOneMore
      <3>4. TakeBytes(Fresh, Append(u, e)) = TakeByte(TakeBytes(Fresh, u), e)
        BY FreshIs, TakeOneMore
      <3>5. ByteWise(Append(u, e)) = TakeBytes(Fresh, Append(u, e))
        BY <1>2, <3>1
      <3> HIDE DEF G
      <3> QED
        BY <3>1, <3>2, <3>3, <3>4, <3>5
    <2>2. F \in Receiver /\ F.handled \in Seq(Seq(Byte)) /\ F.uart_msg \in Seq(Byte)
      BY <1>2 DEF Receiver
    <2> HIDE DEF F
    <2>3. G.uart_msg = F.uart_msg /\ G.handled = R.handled \o F.handled
      BY DEF Behind
    <2>4. G \in Receiver
      <3>1. R.handled \o F.handled \in Seq(Seq(Byte))
        BY <1>1, <2>2, ConcatProperties
      <3> QED
        BY <2>2, <3>1 DEF Receiver, Behind
    <2> HIDE DEF G
    <2>5. Room(G) = Room(F)
      BY <2>3 DEF Room
    <2>6. /\ msg \in Seq(Byte)
          /\ KoovoxMessageStr(msg) = 0
               => /\ TakeByte(F, e) = [uart_msg |-> msg, handled |-> F.handled]
                  /\ TakeByte(G, e) = [uart_msg |-> msg, handled |-> G.handled]
          /\ KoovoxMessageStr(msg) # 0
               => /\ TakeByte(F, e) = [uart_msg |-> <<>>, handled |-> Append(F.handled, msg)]
                  /\ TakeByte(G, e) = [uart_msg |-> <<>>, handled |-> Append(G.handled, msg)]
      BY <2>2, <2>4, <2>5, TakeByteIs
    <2> HIDE DEF msg
    <2>7. Append(G.handled, msg) = R.handled \o Append(F.handled, msg)
      <3> DEFINE g == R.handled
                 f == F.handled
      <3>1. g \in Seq(Seq(Byte)) /\ f \in Seq(Seq(Byte)) /\ msg \in Seq(Byte)
        BY <1>1, <2>2, <2>6
      <3> HIDE DEF g, f
      <3>2. g \o Append(f, msg) = Append(g \o f, msg)
        BY <3>1, ConcatAppend
      <3> QED
        BY <2>3, <3>2 DEF g, f
    <2>8. TakeByte(G, e) = Behind(R, TakeByte(F, e))
      <3>1. CASE KoovoxMessageStr(msg) = 0
        <4>1. TakeByte(F, e).uart_msg = msg /\ TakeByte(F, e).handled = F.handled
          BY <2>6, <3>1
        <4>2. TakeByte(G, e) = [uart_msg |-> msg, handled |-> R.handled \o F.handled]
          BY <2>3, <2>6, <3>1
        <4> QED
          BY <4>1, <4>2 DEF Behind
      <3>2. CASE KoovoxMessageStr(msg) # 0
        <4>1. TakeByte(F, e).uart_msg = <<>> /\ TakeByte(F, e).handled = Append(F.handled, msg)
          BY <2>6, <3>2
        <4> QED
          BY <2>6, <2>7, <3>2, <4>1 DEF Behind
      <3> QED
        BY <3>1, <3>2
    <2> QED
      BY <2>1, <2>8
  <1> HIDE DEF P
  <1>5. q \in P
    BY <1>3, <1>4, SequencesIn
  <1> QED
    BY <1>2, <1>5 DEF P

\* The bytes before the tail, which may hold one themselves.
LEMMA BodyTaken ==
    ASSUME NEW R, Calm(R), NEW b \in Body, Last(b) # OPEN
    PROVE  LET R1 == TakeBytes(R, b)
           IN /\ Calm(R1) /\ ~Half(R1.uart_msg) /\ b \in Seq(Byte)
              /\ Len(R1.uart_msg) <= Len(R.uart_msg) + Len(b)
              /\ R.uart_msg = <<>> /\ KoovoxMessageStr(b) = 0 => R1 = With(R, b)
  <1> DEFINE R1 == TakeBytes(R, b)
  <1>1. b \in Seq(Byte) /\ b # <<>> /\ Len(b) + 2 < SIZE_UART_MSG /\ Len(b) \in Nat
    BY BodyAssumption, TheTail, LenProperties
  <1>2. R \in Receiver
    BY DEF Calm
  <1>3. Calm(R1) /\ Len(R1.uart_msg) <= Len(R.uart_msg) + Len(b)
    BY <1>1, TakeBytesCalm, Grows
  <1>4. ~Half(R1.uart_msg)
    <2>1. PICK s \in Seq(Byte), e \in Byte : b = Append(s, e)
      BY <1>1, SequenceEmptyOrAppend
    <2>2. e # OPEN
      <3>1. Len(b) = Len(s) + 1 /\ b[Len(s) + 1] = e
        BY <2>1, AppendProperties
      <3> QED
        BY <3>1 DEF Last
    <2> DEFINE S == TakeBytes(R, s)
               msg == Append(Room(S), e)
    <2>3. Calm(S) /\ R1 = TakeByte(S, e)
      BY <1>2, <2>1, TakeBytesCalm, TakeOneMore
    <2> HIDE DEF S, R1
    <2>4. S \in Receiver /\ Room(S) \in Seq(Byte) /\ KoovoxMessageStr(Room(S)) = 0
      BY <2>3, RoomCalm
    <2>5. ~Half(msg)
      BY <2>2, <2>4, StrAppend
    <2>6. R1.uart_msg = msg \/ R1.uart_msg = <<>>
      <3>1. TakeByte(S, e) = [uart_msg |-> msg, handled |-> S.handled]
            \/ TakeByte(S, e) = [uart_msg |-> <<>>, handled |-> Append(S.handled, msg)]
        BY <2>4, TakeByteIs
      <3> HIDE DEF msg
      <3> QED
        BY <2>3, <3>1
    <2> QED
      BY <2>5, <2>6, StrEmpty
  <1>5. ASSUME R.uart_msg = <<>>, KoovoxMessageStr(b) = 0
        PROVE  R1 = With(R, b)
    <2>1. R.uart_msg \o b = b /\ Len(R.uart_msg) = 0
      BY <1>1, <1>5
    <2>2. Len(R.uart_msg) + Len(b) <= SIZE_UART_MSG
      BY <1>1, <2>1, SizeAssumption
    <2> QED
      BY <1>1, <1>2, <1>5, <2>1, <2>2, Fill
  <1> QED
    BY <1>1, <1>3, <1>4, <1>5

LEMMA TailBytes ==
    /\ FRAME_TAIL = Append(Append(<<>>, OPEN), CLOSE)
    /\ <<>> \in Seq(Byte) /\ Append(<<>>, OPEN) \in Seq(Byte)
    /\ OPEN \in Byte /\ CLOSE \in Byte /\ OPEN # CLOSE
    /\ <<CLOSE>> = Append(<<>>, CLOSE) /\ Len(<<CLOSE>>) = 1 /\ <<CLOSE>> \in Seq(Byte)
  <1>1. OPEN \in Byte /\ CLOSE \in Byte /\ OPEN # CLOSE
    BY ByteAssumption DEF Byte
  <1>2. FRAME_TAIL = Append(Append(<<>>, OPEN), CLOSE)
    BY DEF FRAME_TAIL
  <1>3. <<>> \in Seq(Byte) /\ Append(<<>>, OPEN) \in Seq(Byte)
    BY <1>1
  <1>4. <<CLOSE>> = Append(<<>>, CLOSE) /\ Len(<<CLOSE>>) = 1 /\ <<CLOSE>> \in Seq(Byte)
    BY <1>1
  <1> QED
    BY <1>1, <1>2, <1>3, <1>4

\* The tail, when the bytes before it do not hide it.
LEMMA TailTaken ==
    ASSUME NEW R, Calm(R), ~Half(R.uart_msg)
    PROVE  LET R2 == TakeBytes(R, FRAME_TAIL)
           IN /\ R2.uart_msg \in {<<>>, <<CLOSE>>}
              /\ Len(R.uart_msg) + 2 <= SIZE_UART_MSG
                   => R2 = Delivered(R, Append(Append(R.uart_msg, OPEN), CLOSE))
  <1> DEFINE x  == Room(R)
             m1 == Append(x, OPEN)
             R1 == TakeByte(R, OPEN)
             R2 == TakeByte(R1, CLOSE)
             y  == Room(R1)
             m2 == Append(y, CLOSE)
  <1>1. TakeBytes(R, FRAME_TAIL) = R2
    <2>1. R \in Receiver
      BY DEF Calm
    <2>2. TakeBytes(R, Append(<<>>, OPEN)) = R1
      BY <2>1, TailBytes, TakeOneMore, TakeNone
    <2> QED
      BY <2>1, <2>2, TailBytes, TakeOneMore
  <1>2. /\ x \in Seq(Byte) /\ Len(x) < SIZE_UART_MSG /\ Len(x) \in Nat /\ SIZE_UART_MSG \in Nat
        /\ KoovoxMessageStr(x) = 0 /\ R \in Receiver /\ ~Half(x)
    BY RoomCalm, StrEmpty, LenProperties, SizeAssumption
  <1>3. m1 \in Seq(Byte) /\ Len(m1) = Len(x) + 1 /\ Half(m1) /\ KoovoxMessageStr(m1) = 0
    <2> HIDE DEF x
    <2> QED
      BY <1>2, TailBytes, StrAppend, AppendProperties
  <1>4. R1 = With(R, m1)
    <2> HIDE DEF m1
    <2> QED
      BY <1>2, <1>3, TailBytes, TakeByteIs DEF m1, x, With
  <1>5. R1 \in Receiver /\ R1.uart_msg = m1 /\ R1.handled = R.handled
    <2> HIDE DEF m1, R1
    <2> QED
      BY <1>2, <1>3, <1>4, WithType DEF With
  <1>6. CASE Len(m1) = SIZE_UART_MSG
    <2>1. y = <<>>
      <3> HIDE DEF m1, R1
      <3> QED
        BY <1>5, <1>6 DEF Room
    <2>2. m2 = <<CLOSE>> /\ KoovoxMessageStr(m2) = 0
      <3> HIDE DEF y
      <3>1. KoovoxMessageStr(Append(<<>>, CLOSE)) = 0
        BY TailBytes, StrEmpty, StrAppend
      <3> QED
        BY <2>1, <3>1, TailBytes
    <2>3. R2.uart_msg = <<CLOSE>>
      <3>1. KoovoxMessageStr(m2) = 0
              => R2 = [uart_msg |-> m2, handled |-> R1.handled]
        <4> HIDE DEF R1
        <4> QED
          BY <1>5, TailBytes, TakeByteIs
      <3> HIDE DEF R1, R2, m2
      <3> QED
        BY <2>2, <3>1
    <2>4. ~(Len(R.uart_msg) + 2 <= SIZE_UART_MSG)
      <3>1. x = R.uart_msg \/ Len(R.uart_msg) = SIZE_UART_MSG
        BY DEF Room
      <3> HIDE DEF x, m1
      <3> QED
        BY <1>2, <1>3, <1>6, <3>1
    <2> QED
      BY <1>1, <2>3, <2>4
  <1>7. CASE Len(m1) # SIZE_UART_MSG
    <2>1. y = m1
      <3> HIDE DEF m1, R1
      <3> QED
        BY <1>5, <1>7 DEF Room
    <2>2. KoovoxMessageStr(Append(m1, CLOSE)) # 0
      <3> HIDE DEF m1
      <3>1. KoovoxMessageStr(Append(m1, CLOSE)) = Len(m1) + 1
        BY <1>3, TailBytes, StrAppend
      <3> QED
        BY <1>2, <1>3, <3>1
    <2>3. R2 = Delivered(R, Append(m1, CLOSE))
      <3>1. Append(y, CLOSE) = Append(m1, CLOSE)
        BY <2>1
      <3> HIDE DEF R1, m1
      <3> QED
        BY <1>5, <2>2, <3>1, TailBytes, TakeByteIs DEF Delivered
    <2>4. Len(R.uart_msg) + 2 <= SIZE_UART_MSG => x = R.uart_msg
      BY SizeAssumption DEF Room
    <2>5. R2.uart_msg = <<>>
      <3> HIDE DEF R2, m1
      <3> QED
        BY <2>3 DEF Delivered
    <2> QED
      BY <1>1, <2>3, <2>4, <2>5
  <1> QED
    BY <1>6, <1>7

\* A frame leaves '}' in the buffer at most, and behind that nothing.  Behind an
\* empty buffer it is handled as it is by itself: whole, unless its body holds a tail.
LEMMA FrameTaken ==
    ASSUME NEW R, Calm(R), NEW b \in Body, Last(b) # OPEN
    PROVE  LET R2 == TakeBytes(TakeBytes(R, b), FRAME_TAIL)
               frame == b \o FRAME_TAIL
           IN /\ R2.uart_msg \in {<<>>, <<CLOSE>>}
              /\ R.uart_msg \in {<<>>, <<CLOSE>>} => R2.uart_msg = <<>>
              /\ R.uart_msg = <<>> => R2 = Behind(R, ByteWise(frame))
              /\ R.uart_msg = <<>> /\ Whole(frame) => R2 = Delivered(R, frame)
  <1> DEFINE x  == R.uart_msg
             R1 == TakeBytes(R, b)
             R2 == TakeBytes(R1, FRAME_TAIL)
             frame == b \o FRAME_TAIL
  <1>1. /\ Calm(R1) /\ ~Half(R1.uart_msg) /\ b \in Seq(Byte)
        /\ Len(R1.uart_msg) <= Len(x) + Len(b)
        /\ x = <<>> /\ KoovoxMessageStr(b) = 0 => R1 = With(R, b)
    BY BodyTaken
  <1>2. /\ R2.uart_msg \in {<<>>, <<CLOSE>>}
        /\ Len(R1.uart_msg) + 2 <= SIZE_UART_MSG
             => R2 = Delivered(R1, Append(Append(R1.uart_msg, OPEN), CLOSE))
    <2> HIDE DEF R1
    <2> QED
      BY <1>1, TailTaken
  <1>3. ASSUME x \in {<<>>, <<CLOSE>>}
        PROVE  R2 = Delivered(R1, Append(Append(R1.uart_msg, OPEN), CLOSE)) /\ R2.uart_msg = <<>>
    <2> DEFINE k == Len(x)
               m == Len(b)
               l == Len(R1.uart_msg)
    <2>1. k \in {0, 1} /\ m \in Nat
      BY <1>1, <1>3, TailBytes, LenProperties
    <2>2. m + 2 < SIZE_UART_MSG /\ SIZE_UART_MSG \in Nat
      BY BodyAssumption, TheTail, SizeAssumption
    <2>3. l <= k + m /\ l \in Nat
      <3> HIDE DEF R1
      <3> QED
        BY <1>1, LenProperties DEF Calm, Receiver
    <2> HIDE DEF k, m, l
    <2>4. l + 2 <= SIZE_UART_MSG
      BY <2>1, <2>2, <2>3
    <2>5. R2 = Delivered(R1, Append(Append(R1.uart_msg, OPEN), CLOSE))
      BY <1>2, <2>4 DEF l
    <2> HIDE DEF R1, R2
    <2> QED
      BY <2>5 DEF Delivered
  <1>4. ASSUME x = <<>>
        PROVE  R2 = Behind(R, ByteWise(frame))
    <2>1. R \in Receiver /\ frame \in Seq(Byte) /\ FRAME_TAIL \in Seq(Byte)
      BY <1>1, TheTail, ConcatProperties DEF Calm
    <2>2. R2 = TakeBytes(R, frame)
      BY <1>1, <2>1, TakeTwice
    <2>3. TakeBytes(R, frame) = Behind(R, ByteWise(frame))
      <3> HIDE DEF frame
      <3> QED
        BY <1>4, <2>1, Shifted
    <2> QED
      BY <2>2, <2>3
  <1>5. frame = Append(Append(b, OPEN), CLOSE)
    <2>1. b \o FRAME_TAIL = Append(b \o Append(<<>>, OPEN), CLOSE)
      BY <1>1, TailBytes, ConcatAppend
    <2>2. b \o Append(<<>>, OPEN) = Append(b \o <<>>, OPEN)
      BY <1>1, TailBytes, ConcatAppend
    <2>3. b \o <<>> = b
      BY <1>1
    <2> QED
      BY <2>1, <2>2, <2>3
  <1>6. ASSUME x = <<>>, Whole(frame)
        PROVE  R2 = Delivered(R, frame)
    <2>1. Len(b) \in Nat /\ Len(frame) = Len(b) + 2
          /\ \A i \in 1..Len(b) : frame[i] = b[i]
      <3>1. Len(b) \in Nat /\ Len(FRAME_TAIL) = 2
        BY <1>1, LenProperties, TheTail
      <3>2. /\ Len(b \o FRAME_TAIL) = Len(b) + Len(FRAME_TAIL)
            /\ \A i \in 1..Len(b) + Len(FRAME_TAIL) :
                  (b \o FRAME_TAIL)[i] = IF i <= Len(b) THEN b[i] ELSE FRAME_TAIL[i - Len(b)]
        BY <1>1, TheTail, ConcatProperties
      <3> QED
        BY <3>1, <3>2
    <2>2. \A k \in 1..(Len(b) - 1) : ~(b[k] = OPEN /\ b[k + 1] = CLOSE)
      <3> TAKE k \in 1..(Len(b) - 1)
      <3> HIDE DEF frame
      <3>1. k \in 1..(Len(frame) - 2) /\ k \in 1..Len(b) /\ k + 1 \in 1..Len(b)
        BY <2>1
      <3> QED
        BY <1>6, <2>1, <3>1, TheTail DEF Whole
    <2>3. KoovoxMessageStr(b) = 0
      BY <1>1, <2>2, NoTail
    <2>4. R1 = With(R, b)
      BY <1>1, <1>6, <2>3
    <2> HIDE DEF R1, frame, R2
    <2>5. R1.uart_msg = b /\ R1.handled = R.handled
      BY <2>4 DEF With
    <2>6. R2 = Delivered(R1, frame)
      BY <1>3, <1>5, <1>6, <2>5
    <2> QED
      BY <2>5, <2>6 DEF Delivered
  <1> HIDE DEF R2, frame
  <1> QED
    BY <1>2, <1>3, <1>4, <1>6 DEF R2, frame

\* By itself a whole frame is one frame.
LEMMA WholeFrame ==
    ASSUME NEW b \in Body, Last(b) # OPEN, Whole(b \o FRAME_TAIL)
    PROVE  ByteWise(b \o FRAME_TAIL).handled = <<b \o FRAME_TAIL>>
  <1> DEFINE frame == b \o FRAME_TAIL
  <1>1. b \in Seq(Byte) /\ FRAME_TAIL \in Seq(Byte) /\ Fresh \in Receiver
    BY BodyAssumption, TheTail, FreshIs
  <1>2. Fresh.uart_msg = <<>> /\ Fresh.handled = <<>>
    BY DEF Fresh
  <1>3. ByteWise(frame) = TakeBytes(TakeBytes(Fresh, b), FRAME_TAIL)
    BY <1>1, TakeTwice DEF ByteWise, Fresh
  <1>4. ByteWise(frame) = Delivered(Fresh, frame)
    BY <1>2, <1>3, FreshIs, FrameTaken
  <1> HIDE DEF frame
  <1>5. ByteWise(frame).handled = Append(<<>>, frame)
    BY <1>2, <1>4 DEF Delivered
  <1> QED
    BY <1>5 DEF frame

-----------------------------------------------------------------------------
(* The invariant is inductive                                              *)

LEMMA NowIs ==
    /\ Now.uart_msg = uart_msg /\ Now.handled = handled
    /\ Calm(Now) => /\ uart_msg \in Seq(Byte) /\ Len(uart_msg) <= SIZE_UART_MSG
                    /\ handled \in Seq(Seq(Byte)) /\ Now \in Receiver
  BY DEF Now, Calm, Receiver

LEMMA InitFraming == Init => FramingInv
  <1> SUFFICES ASSUME Init PROVE FramingInv
    OBVIOUS
  <1>1. Now = Fresh /\ wire = <<>> /\ seen = <<>> /\ sent = <<>> /\ due = <<>>
    BY DEF Init, Now, Fresh
  <1>2. Then = Fresh /\ ByteWise(seen) = Fresh
    BY <1>1, FreshIs, TakeNone DEF Then, ByteWise, Fresh
  <1>3. TypeOK
    <2>1. <<>> \in Seq(Byte) /\ <<>> \in Seq(Seq(Byte)) /\ Len(<<>>) <= SIZE_UART_MSG
      BY SizeAssumption
    <2>2. clean \in 0..Recovery /\ noise \in 0..MaxNoise /\ overrun \in BOOLEAN
      <3>1. MaxNoise \in Nat
        BY BoundAssumption
      <3>2. clean = 3 /\ noise = 0 /\ overrun = FALSE
        BY DEF Init, Recovery
      <3>3. 0 \in 0..MaxNoise /\ 3 \in 0..3
        BY <3>1
      <3> QED
        BY <3>2, <3>3 DEF Recovery
    <2> QED
      BY <2>1, <2>2 DEF Init, TypeOK
  <1>4. Calm(Now)
    BY <1>1, FreshIs
  <1>5. PiecesDoNotMatter
    BY <1>1, <1>2 DEF PiecesDoNotMatter, Now
  <1>6. Recovering
    <2>1. Then.uart_msg = <<>>
      BY <1>2 DEF Fresh
    <2> QED
      BY <1>1, <2>1 DEF Recovering
  <1>7. Then = [uart_msg |-> <<>>, handled |-> due] /\ due = sent
    BY <1>1, <1>2 DEF Fresh
  <1> QED
    BY <1>3, <1>4, <1>5, <1>6, <1>7 DEF FramingInv

\* A piece of n bytes: the receiver will be what it was going to be.
LEMMA MoreDataKeeps ==
    ASSUME FramingInv, NEW n \in DOMAIN wire, MoreData(n)
    PROVE  FramingInv'
  <1> DEFINE data == SubSeq(wire, 1, n)
             rest == SubSeq(wire, n + 1, Len(wire))
             R    == ReceiverOf(Receive(data))
  <1>1. TypeOK /\ Calm(Now) /\ PiecesDoNotMatter /\ Recovering
        /\ (Undisturbed => /\ Then = [uart_msg |-> <<>>, handled |-> due]
                           /\ (\A k \in DOMAIN sent : Whole(sent[k])) => due = sent)
    BY DEF FramingInv
  <1>2. wire \in Seq(Byte) /\ seen \in Seq(Byte) /\ Len(wire) \in Nat /\ n \in 1..Len(wire)
        /\ n \in Nat
    BY <1>1, LenProperties DEF TypeOK
  <1>3. /\ data \in Seq(Byte) /\ Len(data) = n /\ rest \in Seq(Byte) /\ wire = data \o rest
    <2> DEFINE m == Len(wire) - n
    <2>1. m \in Nat /\ n + m <= Len(wire) /\ n + m = Len(wire)
      BY <1>2
    <2>2. /\ SubSeq(wire, 1, n) \in Seq(Byte) /\ SubSeq(wire, n + 1, n + m) \in Seq(Byte)
          /\ SubSeq(wire, 1, n + m) = SubSeq(wire, 1, n) \o SubSeq(wire, n + 1, n + m)
      <3> HIDE DEF m
      <3>1. SubSeq(wire, n + 1, n + m) \in Seq(Byte)
        BY <1>2, <2>1, PartIs
      <3>2. /\ SubSeq(wire, 1, n) \in Seq(Byte)
            /\ SubSeq(wire, 1, n + m) = SubSeq(wire, 1, n) \o SubSeq(wire, n + 1, n + m)
        BY <1>2, <2>1, PartBehind
      <3> QED
        BY <3>1, <3>2
    <2>3. SubSeq(wire, 1, Len(wire)) = wire
      BY <1>2, SubSeqEnds
    <2>4. Len(data) = n
      BY <1>2, SubSeqProperties
    <2> QED
      BY <2>1, <2>2, <2>3, <2>4
  <1>4. /\ wire' = rest /\ seen' = seen \o data /\ overrun' = (overrun \/ n > INDEX_SIZE)
        /\ clean' = (IF n > INDEX_SIZE THEN 0 ELSE clean)
        /\ sent' = sent /\ due' = due /\ noise' = noise /\ Now' = R
    BY DEF MoreData, Now, ReceiverOf
  <1> HIDE DEF data, rest
  <1>5. Calm(R) /\ (n <= INDEX_SIZE => R = TakeBytes(Now, data))
    BY <1>1, <1>3, ReceiveTakes
  <1> HIDE DEF R
  <1>6. Calm(Now)'
    <2>1. Calm(Now') = Calm(R)
      BY <1>4
    <2> QED
      BY <1>5, <2>1 DEF Calm, Receiver
  <1>7. TypeOK'
    <2>1. /\ uart_msg' \in Seq(Byte) /\ Len(uart_msg') <= SIZE_UART_MSG
          /\ handled' \in Seq(Seq(Byte))
      <3>1. R.uart_msg = uart_msg' /\ R.handled = handled'
        BY <1>4 DEF Now
      <3> QED
        BY <1>5, <3>1 DEF Calm, Receiver
    <2>2. wire' \in Seq(Byte) /\ seen' \in Seq(Byte)
      BY <1>2, <1>3, <1>4, ConcatProperties
    <2>3. clean' \in 0..Recovery /\ noise' \in 0..MaxNoise /\ overrun' \in BOOLEAN
          /\ sent' \in Seq(Seq(Byte)) /\ due' \in Seq(Seq(Byte))
      BY <1>1, <1>4 DEF TypeOK, Recovery
    <2> QED
      BY <2>1, <2>2, <2>3 DEF TypeOK
  <1>8. CASE n > INDEX_SIZE
    <2>1. overrun' = TRUE /\ clean' = 0
      BY <1>4, <1>8
    <2>2. PiecesDoNotMatter' /\ ~Undisturbed'
      BY <2>1 DEF PiecesDoNotMatter, Undisturbed
    <2>3. Recovering'
      BY <2>1 DEF Recovering, Recovery
    <2> QED
      BY <1>6, <1>7, <2>2, <2>3 DEF FramingInv
  <1>9. CASE ~(n > INDEX_SIZE)
    <2>1. R = TakeBytes(Now, data)
      BY <1>2, <1>5, <1>9, SizeAssumption
    <2>2. clean' = clean /\ (overrun' <=> overrun)
      BY <1>4, <1>9
    <2>3. Then' = Then
      <3>1. TakeBytes(Now, data \o rest) = TakeBytes(TakeBytes(Now, data), rest)
        BY <1>1, <1>3, TakeTwice DEF Calm
      <3>2. Then = TakeBytes(R, rest)
        BY <1>3, <2>1, <3>1 DEF Then
      <3>3. Then' = TakeBytes(Now', wire')
        BY DEF Then, TakeBytes, TakeByte, KoovoxMessageStr, Scan, Compare
      <3> QED
        BY <1>4, <3>2, <3>3
    <2>4. PiecesDoNotMatter'
      <3>1. ByteWise(seen \o data) = TakeBytes(ByteWise(seen), data)
        BY <1>2, <1>3, FreshIs, TakeTwice DEF ByteWise, Fresh
      <3>2. ~overrun => Now = ByteWise(seen)
        BY <1>1 DEF PiecesDoNotMatter, Now
      <3>3. ~overrun => Now' = ByteWise(seen \o data)
        BY <1>4, <2>1, <3>1, <3>2
      <3>4. ByteWise(seen)' = ByteWise(seen \o data)
        BY <1>4 DEF ByteWise, TakeBytes, TakeByte, KoovoxMessageStr, Scan, Compare
      <3>5. Now' = [uart_msg |-> uart_msg', handled |-> handled']
        BY DEF Now
      <3> QED
        BY <2>2, <3>3, <3>4, <3>5 DEF PiecesDoNotMatter
    <2>5. Recovering'
      BY <1>1, <1>4, <2>2, <2>3 DEF Recovering, Recovery, Whole
    <2>6. Undisturbed' => /\ Then' = [uart_msg |-> <<>>, handled |-> due']
                          /\ (\A k \in DOMAIN sent' : Whole(sent'[k])) => due' = sent'
      BY <1>1, <1>4, <2>2, <2>3 DEF Undisturbed, HidesTail, Whole
    <2> QED
      BY <1>6, <1>7, <2>4, <2>5, <2>6 DEF FramingInv
  <1> QED
    BY <1>8, <1>9

\* The state of the receiver is untouched.
LEMMA ReceiverKept ==
    ASSUME FramingInv, UNCHANGED <<uart_msg, handled, seen, overrun>>
    PROVE  Calm(Now)' /\ PiecesDoNotMatter' /\ Now' = Now /\ Then' = TakeBytes(Now, wire')
  <1>1. Now' = Now
    BY DEF Now
  <1>2. Calm(Now) /\ PiecesDoNotMatter
    BY DEF FramingInv
  <1>3. Calm(Now)'
    <2>1. Calm(Now') = Calm(Now)
      BY <1>1
    <2> QED
      BY <1>2, <2>1 DEF Calm, Receiver
  <1>4. PiecesDoNotMatter'
    <2>1. ByteWise(seen)' = ByteWise(seen)
      BY DEF ByteWise, TakeBytes, TakeByte, KoovoxMessageStr, Scan, Compare
    <2> QED
      BY <1>2, <2>1 DEF PiecesDoNotMatter
  <1>5. Then' = TakeBytes(Now', wire')
    BY DEF Then, TakeBytes, TakeByte, KoovoxMessageStr, Scan, Compare
  <1> QED
    BY <1>1, <1>3, <1>4, <1>5

\* The receiver will have the frame too, as far as trouble is behind.
LEMMA SensorSendsKeeps ==
    ASSUME FramingInv, NEW b \in Body, SensorSends(b)
    PROVE  FramingInv'
  <1> DEFINE frame == b \o FRAME_TAIL
             R     == Then
             R2    == TakeBytes(TakeBytes(R, b), FRAME_TAIL)
  <1>1. TypeOK /\ Calm(Now) /\ PiecesDoNotMatter /\ Recovering
        /\ (Undisturbed => /\ Then = [uart_msg |-> <<>>, handled |-> due]
                           /\ (\A k \in DOMAIN sent : Whole(sent[k])) => due = sent)
    BY DEF FramingInv
  <1>2. /\ wire \in Seq(Byte) /\ sent \in Seq(Seq(Byte)) /\ due \in Seq(Seq(Byte))
        /\ Now \in Receiver /\ clean \in 0..3
    BY <1>1 DEF TypeOK, Calm, Recovery
  <1>3. b # <<>>
    BY BodyAssumption
  <1>4. b \in Seq(Byte) /\ FRAME_TAIL \in Seq(Byte)
    BY BodyAssumption, TheTail
  <1>5. frame \in Seq(Byte) /\ Len(frame) = Len(b) + 2 /\ Len(b) \in Nat \ {0}
        /\ frame[Len(frame) - 2] = Last(b)
    <2>1. Len(b) \in Nat \ {0}
      BY <1>3, EmptySeq
    <2>2. /\ frame \in Seq(Byte) /\ Len(frame) = Len(b) + Len(FRAME_TAIL)
          /\ \A i \in 1..Len(b) + Len(FRAME_TAIL) :
                frame[i] = IF i <= Len(b) THEN b[i] ELSE FRAME_TAIL[i - Len(b)]
      BY <1>4, ConcatProperties
    <2> HIDE DEF frame
    <2>3. Len(frame) - 2 = Len(b) /\ Len(b) \in 1..Len(b) + Len(FRAME_TAIL)
      BY <2>1, <2>2, TheTail
    <2> QED
      BY <2>1, <2>2, <2>3, TheTail DEF Last
  <1> HIDE DEF frame
  <1> DEFINE parts == ByteWise(frame).handled
  <1>6. /\ wire' = (wire \o b) \o FRAME_TAIL /\ sent' = Append(sent, frame)
        /\ due' = due \o parts
        /\ clean' = (IF Last(b) = OPEN THEN 0 ELSE IF clean < 3 THEN clean + 1 ELSE clean)
        /\ UNCHANGED <<uart_msg, handled, seen, noise, overrun>>
    BY DEF SensorSends, frame, Recovery
  <1>7. Calm(Now)' /\ PiecesDoNotMatter' /\ Then' = TakeBytes(Now, wire')
    BY <1>6, ReceiverKept
  <1>8. Then' = R2 /\ wire' \in Seq(Byte) /\ Calm(R)
    <2>1. wire \o b \in Seq(Byte) /\ wire' \in Seq(Byte)
      BY <1>2, <1>4, <1>6, ConcatProperties
    <2>2. TakeBytes(Now, wire') = TakeBytes(TakeBytes(Now, wire \o b), FRAME_TAIL)
      BY <1>2, <1>4, <1>6, <2>1, TakeTwice
    <2>3. TakeBytes(Now, wire \o b) = TakeBytes(R, b)
      BY <1>2, <1>4, TakeTwice DEF Then
    <2>4. Calm(R)
      BY <1>1, <1>2, TakeBytesCalm DEF Then
    <2> QED
      BY <1>7, <2>1, <2>2, <2>3, <2>4
  <1>9. TypeOK'
    <2>1. sent' \in Seq(Seq(Byte))
      BY <1>2, <1>5, <1>6, AppendProperties
    <2>2. clean' \in 0..3
      BY <1>2, <1>6
    <2>3. due' \in Seq(Seq(Byte))
      <3>1. ByteWise(frame) \in Receiver
        BY <1>5, FreshIs, TakeType DEF ByteWise, Fresh
      <3>2. parts \in Seq(Seq(Byte))
        BY <3>1 DEF Receiver
      <3> HIDE DEF parts
      <3> QED
        BY <1>2, <1>6, <3>2, ConcatProperties
    <2> QED
      BY <1>1, <1>6, <1>8, <2>1, <2>2, <2>3 DEF TypeOK, Recovery
  <1> HIDE DEF R, R2, parts
  <1>10. Last(b) # OPEN => /\ R2.uart_msg \in {<<>>, <<CLOSE>>}
                           /\ R.uart_msg \in {<<>>, <<CLOSE>>} => R2.uart_msg = <<>>
                           /\ R.uart_msg = <<>> => R2 = Behind(R, ByteWise(frame))
                           /\ R.uart_msg = <<>> /\ Whole(frame) => R2 = Delivered(R, frame)
    BY <1>8, FrameTaken DEF R2, frame
  <1>11. /\ Delivered(R, frame).uart_msg = <<>>
         /\ Delivered(R, frame).handled = Append(R.handled, frame)
    BY DEF Delivered
  <1>12. /\ Append(R.handled, frame) # <<>> /\ Last(Append(R.handled, frame)) = frame
         /\ Last(sent') = frame
    <2>1. R.handled \in Seq(Seq(Byte))
      BY <1>8 DEF Calm, Receiver
    <2>2. \A q \in Seq(Seq(Byte)) : Append(q, frame) # <<>> /\ Last(Append(q, frame)) = frame
      BY <1>5, AppendProperties DEF Last
    <2> QED
      BY <1>2, <1>6, <2>1, <2>2
  <1>13. Recovering'
    <2>1. /\ clean >= 1 => R.uart_msg \in {<<>>, <<CLOSE>>}
          /\ clean >= 2 => R.uart_msg = <<>>
      BY <1>1 DEF Recovering, R
    <2>2. clean' >= 1 => R2.uart_msg \in {<<>>, <<CLOSE>>}
      BY <1>2, <1>6, <1>10
    <2>3. clean' >= 2 => R2.uart_msg = <<>>
      BY <1>2, <1>6, <1>10, <2>1
    <2>4. clean' = 3 /\ Whole(frame) => R2 = Delivered(R, frame)
      BY <1>2, <1>6, <1>10, <2>1
    <2>5. clean' = 3 /\ Whole(Last(sent'))
            => R2.handled # <<>> /\ Last(R2.handled) = Last(sent')
      BY <1>11, <1>12, <2>4
    <2> QED
      BY <1>8, <2>2, <2>3, <2>5 DEF Recovering, Recovery, Whole
  <1>14. ASSUME Undisturbed'
         PROVE  /\ Then' = [uart_msg |-> <<>>, handled |-> due']
                /\ (\A k \in DOMAIN sent' : Whole(sent'[k])) => due' = sent'
    <2>1. Len(sent) \in Nat /\ Len(sent') = Len(sent) + 1 /\ sent'[Len(sent) + 1] = frame
          /\ \A k \in 1..Len(sent) : sent'[k] = sent[k]
      BY <1>2, <1>5, <1>6, AppendProperties, LenProperties
    <2>2. DOMAIN sent = 1..Len(sent) /\ DOMAIN sent' = 1..(Len(sent) + 1)
      <3>1. sent' \in Seq(Seq(Byte))
        BY <1>9 DEF TypeOK
      <3> QED
        BY <1>2, <2>1, <3>1, LenProperties
    <2>3. \A k \in DOMAIN sent' : ~(sent'[k][Len(sent'[k]) - 2] = OPEN)
      BY <1>14, TheTail DEF Undisturbed, HidesTail
    <2>4. Last(b) # OPEN
      <3>1. Len(sent) + 1 \in DOMAIN sent'
        BY <2>1, <2>2
      <3> QED
        BY <1>5, <2>1, <2>3, <3>1
    <2>5. Undisturbed
      <3>1. noise = 0 /\ ~overrun
        BY <1>6, <1>14 DEF Undisturbed
      <3>2. \A k \in DOMAIN sent : ~(sent[k][Len(sent[k]) - 2] = OPEN)
        <4> TAKE k \in DOMAIN sent
        <4>1. k \in DOMAIN sent' /\ sent'[k] = sent[k]
          BY <2>1, <2>2
        <4> QED
          BY <2>3, <4>1
      <3> QED
        BY <3>1, <3>2, TheTail DEF Undisturbed, HidesTail
    <2>6. R = [uart_msg |-> <<>>, handled |-> due]
          /\ ((\A k \in DOMAIN sent : Whole(sent[k])) => due = sent)
      BY <1>1, <2>5 DEF R
    <2>7. R.uart_msg = <<>> /\ R.handled = due
      BY <2>6
    <2>8. Then' = [uart_msg |-> <<>>, handled |-> due']
      <3>1. R2 = Behind(R, ByteWise(frame)) /\ R2.uart_msg = <<>>
        BY <1>10, <2>4, <2>7
      <3>2. R2 = [uart_msg |-> <<>>, handled |-> due']
        BY <1>6, <2>7, <3>1 DEF Behind, parts
      <3> QED
        BY <1>8, <3>2
    <2>9. ASSUME \A k \in DOMAIN sent' : Whole(sent'[k])
          PROVE  due' = sent'
      <3>1. \A k \in DOMAIN sent : Whole(sent[k])
        BY <2>1, <2>2, <2>9
      <3>2. Whole(frame)
        <4>1. Len(sent) + 1 \in DOMAIN sent'
          BY <2>1, <2>2
        <4> QED
          BY <2>1, <2>9, <4>1
      <3>3. parts = <<frame>>
        BY <2>4, <3>2, WholeFrame DEF parts, frame
      <3>4. sent \o <<frame>> = Append(sent, frame)
        BY <1>2, <1>5
      <3> QED
        BY <1>6, <2>6, <3>1, <3>3, <3>4
    <2> QED
      BY <2>8, <2>9
  <1> QED
    BY <1>7, <1>9, <1>13, <1>14 DEF FramingInv

LEMMA NoiseKeeps ==
    ASSUME FramingInv, NEW i \in DOMAIN wire, Noise(i)
    PROVE  FramingInv'
  <1>1. TypeOK
    BY DEF FramingInv
  <1>2. wire \in Seq(Byte) /\ noise \in 0..MaxNoise /\ MaxNoise \in Nat
    BY <1>1, BoundAssumption DEF TypeOK
  <1>3. /\ noise < MaxNoise /\ noise' = noise + 1 /\ clean' = 0
        /\ UNCHANGED <<uart_msg, handled, seen, sent, due, overrun>>
        /\ wire' = RemoveAt(wire, i) \/ \E c \in Byte : wire' = [wire EXCEPT ![i] = c]
    BY DEF Noise
  <1>4. Len(wire) \in Nat /\ i \in 1..Len(wire)
    BY <1>2, LenProperties
  <1>5. wire' \in Seq(Byte)
    <2>1. CASE wire' = RemoveAt(wire, i)
      <3>1. SubSeq(wire, 1, i - 1) \in Seq(Byte)
        BY <1>2, <1>4, PrefixGrows
      <3>2. SubSeq(wire, i + 1, Len(wire)) \in Seq(Byte)
        <4> DEFINE m == Len(wire) - i
        <4>1. i \in Nat /\ m \in Nat /\ i + m <= Len(wire) /\ i + m = Len(wire)
          <5> DEFINE L == Len(wire)
          <5>1. L \in Nat /\ i \in 1..L /\ m = L - i
            BY <1>4
          <5> HIDE DEF L, m
          <5>2. i \in Nat /\ m \in Nat /\ i + m <= L /\ i + m = L
            BY <5>1
          <5> QED
            BY <5>2 DEF L
        <4> HIDE DEF m
        <4> QED
          BY <1>2, <4>1, PartIs
      <3> QED
        BY <2>1, <3>1, <3>2, ConcatProperties DEF RemoveAt
    <2>2. CASE \E c \in Byte : wire' = [wire EXCEPT ![i] = c]
      BY <1>2, <2>2, ExceptSeq
    <2> QED
      BY <1>3, <2>1, <2>2
  <1>6. TypeOK'
    BY <1>1, <1>2, <1>3, <1>5 DEF TypeOK, Recovery
  <1>7. Recovering' /\ ~Undisturbed'
    <2>1. clean' = 0 /\ noise' # 0
      BY <1>2, <1>3
    <2> QED
      BY <2>1 DEF Recovering, Recovery, Undisturbed
  <1> QED
    BY <1>3, <1>6, <1>7, ReceiverKept DEF FramingInv

LEMMA NextFraming == FramingInv /\ [Next]_vars => FramingInv'
  <1> SUFFICES ASSUME FramingInv, [Next]_vars
               PROVE  FramingInv'
    OBVIOUS
  <1>1. CASE \E b \in Body : SensorSends(b)
    BY <1>1, SensorSendsKeeps
  <1>2. CASE \E n \in DOMAIN wire : MoreData(n)
    BY <1>2, MoreDataKeeps
  <1>3. CASE \E n \in DOMAIN wire : Noise(n)
    BY <1>3, NoiseKeeps
  <1>4. CASE UNCHANGED vars
    <2>1. UNCHANGED <<uart_msg, handled, seen, overrun, wire, sent, due, clean, noise>>
      BY <1>4 DEF vars
    <2>2. Calm(Now)' /\ PiecesDoNotMatter' /\ Then' = TakeBytes(Now, wire')
      BY <2>1, ReceiverKept
    <2>3. Then' = Then
      BY <2>1, <2>2 DEF Then
    <2>4. TypeOK'
      BY <2>1 DEF FramingInv, TypeOK, Recovery
    <2>5. Recovering'
      BY <2>1, <2>3 DEF FramingInv, Recovering, Recovery, Whole
    <2>6. Undisturbed' => /\ Then' = [uart_msg |-> <<>>, handled |-> due']
                          /\ (\A k \in DOMAIN sent' : Whole(sent'[k])) => due' = sent'
      BY <2>1, <2>3 DEF FramingInv, Undisturbed, HidesTail, Whole
    <2> QED
      BY <2>2, <2>4, <2>5, <2>6 DEF FramingInv
  <1> QED
    BY <1>1, <1>2, <1>3, <1>4 DEF Next

-----------------------------------------------------------------------------
(* The theorems                                                            *)

\* On an empty line the receiver is what it is going to be.
LEMMA LineEmpty ==
    ASSUME FramingInv, wire = <<>>
    PROVE  Then = Now
  <1>1. Now \in Receiver
    BY DEF FramingInv, Calm
  <1> QED
    BY <1>1, TakeNone DEF Then

\* The buffer of uart_data_stream_rx_data is never written behind its end, whatever
\* the sizes of the pieces and the bytes in them.
THEOREM TypeCorrect == Spec => []TypeOK
  <1>1. FramingInv => TypeOK
    BY DEF FramingInv
  <1> QED
    BY InitFraming, NextFraming, <1>1, PTL DEF Spec

\* How the bytes were cut into pieces changes neither the frames handled nor the
\* bytes kept: the loop with its copies, its full buffer and the bytes it gives
\* back does what a receiver does that takes the bytes one by one.
THEOREM PiecesDoNotMatterAlways == Spec => []PiecesDoNotMatter
  <1>1. FramingInv => PiecesDoNotMatter
    BY DEF FramingInv
  <1> QED
    BY InitFraming, NextFraming, <1>1, PTL DEF Spec

\* After noise, an overrun of the index or a frame that hides its tail, two frames
\* may be lost or cut wrongly; each one from the third on is handled as it was sent,
\* unless its own data hold a tail.
THEOREM RecoversAlways == Spec => []Recovers
  <1>1. FramingInv => Recovers
    <2> SUFFICES ASSUME FramingInv, wire = <<>>, clean = Recovery, sent # <<>>,
                        Whole(Last(sent))
                 PROVE  handled # <<>> /\ Last(handled) = Last(sent)
      BY DEF Recovers
    <2>1. Then.handled # <<>> /\ Last(Then.handled) = Last(sent)
      BY DEF FramingInv, Recovering
    <2> QED
      BY <2>1, LineEmpty, NowIs
  <1> QED
    BY InitFraming, NextFraming, <1>1, PTL DEF Spec

\* Without trouble, whatever the data, each frame of the sensor is handled, once and
\* in order: whole, or, when its own data hold the tail, in the parts that these
\* make of it, with no effect on the frames around it.
THEOREM AllHandledAlways == Spec => []AllHandled
  <1>1. FramingInv => AllHandled
    <2> SUFFICES ASSUME FramingInv, wire = <<>>, Undisturbed
                 PROVE  /\ handled = due
                        /\ (\A k \in DOMAIN sent : Whole(sent[k])) => handled = sent
      BY DEF AllHandled, Undisturbed
    <2>1. Then = [uart_msg |-> <<>>, handled |-> due]
          /\ ((\A k \in DOMAIN sent : Whole(sent[k])) => due = sent)
      BY DEF FramingInv
    <2>2. Then.handled = due
      BY <2>1
    <2> QED
      BY <2>1, <2>2, LineEmpty, NowIs
  <1> QED
    BY InitFraming, NextFraming, <1>1, PTL DEF Spec
=============================================================================
