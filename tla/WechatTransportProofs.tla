----------------------- MODULE WechatTransportProofs -----------------------
(***************************************************************************)
(* What WechatTransport promises: one record for every number of slots,    *)
(* streams and channels, and no lost slot and no stray access with the one *)
(* slot that the application asks for.                                     *)
(***************************************************************************)
EXTENDS WechatTransport, InductionOverData, SequenceTheorems

-----------------------------------------------------------------------------
(* Sets of messages in a queue                                             *)

Has(q, A) == \E i \in 1..Len(q) : q[i] \in A

AtMostOne(q, A) == \A i, j \in 1..Len(q) : q[i] \in A /\ q[j] \in A => i = j

All(q, A) == \A i \in 1..Len(q) : q[i] \in A

Before(q, A, B) == \A i, j \in 1..Len(q) : q[i] \in A /\ q[j] \in B => i < j

\* Behind every message of A there is one of B.
Followed(q, A, B) ==
    \A i \in 1..Len(q) : q[i] \in A => \E j \in (i + 1)..Len(q) : q[j] \in B

\* The queue r is q with the messages s behind it, element by element.
Join(r, q, s) ==
    /\ Len(r) = Len(q) + Len(s)
    /\ \A i \in 1..Len(q) : i \in 1..Len(r) /\ r[i] = q[i]
    /\ \A k \in 1..Len(s) : Len(q) + k \in 1..Len(r) /\ r[Len(q) + k] = s[k]
    /\ \A i \in 1..Len(r) : i \in 1..Len(q) \/ \E k \in 1..Len(s) : i = Len(q) + k

\* What a queue q and the messages s behind it have, element by element.
LEMMA Joined ==
    ASSUME NEW M, NEW q \in Seq(M), NEW s \in Seq(M)
    PROVE  Join(q \o s, q, s) /\ q \o s \in Seq(M) /\ Len(q) \in Nat /\ Len(s) \in Nat
  <1>1. Len(q) \in Nat /\ Len(s) \in Nat
    BY LenProperties
  <1>2. q \o s \in Seq(M) /\ Len(q \o s) = Len(q) + Len(s)
    BY ConcatProperties
  <1>3. \A i \in 1..Len(q) + Len(s) :
           (q \o s)[i] = IF i <= Len(q) THEN q[i] ELSE s[i - Len(q)]
    BY ConcatProperties
  <1>4. \A i \in 1..Len(q) : (q \o s)[i] = q[i]
    BY <1>1, <1>3
  <1>5. \A i \in 1..Len(s) : (q \o s)[Len(q) + i] = s[i]
    <2> TAKE i \in 1..Len(s)
    <2>1. Len(q) + i \in 1..Len(q) + Len(s) /\ ~(Len(q) + i <= Len(q)) /\ Len(q) + i - Len(q) = i
      BY <1>1
    <2> QED
      BY <1>3, <2>1
  <1>6. \A i \in 1..Len(q) + Len(s) :
           i \in 1..Len(q) \/ \E k \in 1..Len(s) : i = Len(q) + k
    <2> TAKE i \in 1..Len(q) + Len(s)
    <2>1. CASE i > Len(q)
      <3>1. i - Len(q) \in 1..Len(s) /\ i = Len(q) + (i - Len(q))
        BY <1>1, <2>1
      <3> QED
        BY <3>1
    <2>2. CASE ~(i > Len(q))
      BY <1>1, <2>2
    <2> QED
      BY <2>1, <2>2
  <1> DEFINE r == q \o s
  <1>7. /\ Len(r) = Len(q) + Len(s)
        /\ \A i \in 1..Len(q) : r[i] = q[i]
        /\ \A k \in 1..Len(s) : r[Len(q) + k] = s[k]
        /\ \A i \in 1..Len(r) : i \in 1..Len(q) \/ \E k \in 1..Len(s) : i = Len(q) + k
    BY <1>2, <1>4, <1>5, <1>6
  <1> HIDE DEF r
  <1>8. \A i \in 1..Len(q) : i \in 1..Len(r)
    BY <1>1, <1>7
  <1>9. \A k \in 1..Len(s) : Len(q) + k \in 1..Len(r)
    BY <1>1, <1>7
  <1>10. Join(r, q, s)
    BY <1>7, <1>8, <1>9, Zenon DEF Join
  <1> QED
    BY <1>1, <1>2, <1>10 DEF r

\* The sets of messages in it.
LEMMA JoinHas ==
    ASSUME NEW r, NEW q, NEW s, Join(r, q, s), NEW A
    PROVE  /\ Has(r, A) <=> Has(q, A) \/ Has(s, A)
           /\ All(r, A) <=> All(q, A) /\ All(s, A)
  <1>1. Has(q, A) \/ Has(s, A) => Has(r, A)
    BY Zenon DEF Has, Join
  <1>2. Has(r, A) => Has(q, A) \/ Has(s, A)
    BY Zenon DEF Has, Join
  <1>3. All(r, A) => All(q, A) /\ All(s, A)
    BY Zenon DEF All, Join
  <1>4. All(q, A) /\ All(s, A) => All(r, A)
    BY Zenon DEF All, Join
  <1> QED
    BY <1>1, <1>2, <1>3, <1>4

\* The n-th message of q and s is one of q or of s, of the set C.
Placed(n, q, s, C) ==
    \/ n \in 1..Len(q) /\ q[n] \in C
    \/ \E k \in 1..Len(s) : n = Len(q) + k /\ s[k] \in C

LEMMA JoinPlace ==
    ASSUME NEW r, NEW q, NEW s, Join(r, q, s), NEW C,
           NEW n \in 1..Len(r), r[n] \in C
    PROVE  Placed(n, q, s, C)
  BY Zenon DEF Join, Placed

\* One message of a kind at most.
LEMMA JoinOne ==
    ASSUME NEW r, NEW q, NEW s, Join(r, q, s), NEW A,
           AtMostOne(q, A), AtMostOne(s, A), ~(Has(q, A) /\ Has(s, A))
    PROVE  AtMostOne(r, A)
  <1> SUFFICES ASSUME NEW i \in 1..Len(r), NEW j \in 1..Len(r), r[i] \in A, r[j] \in A
               PROVE  i = j
    BY DEF AtMostOne
  <1>1. Placed(i, q, s, A)
    BY JoinPlace, Zenon
  <1>2. Placed(j, q, s, A)
    BY JoinPlace, Zenon
  <1>3. CASE Has(q, A)
    <2>1. ~ \E k \in 1..Len(s) : s[k] \in A
      BY <1>3 DEF Has
    <2> QED
      BY <1>1, <1>2, <2>1, Zenon DEF AtMostOne, Placed
  <1>4. CASE ~Has(q, A)
    <2>1. /\ \E k \in 1..Len(s) : i = Len(q) + k /\ s[k] \in A
          /\ \E k \in 1..Len(s) : j = Len(q) + k /\ s[k] \in A
      BY <1>1, <1>2, <1>4, Zenon DEF Has, Placed
    <2> QED
      BY <2>1, Zenon DEF AtMostOne
  <1> QED
    BY <1>3, <1>4

\* The order of two kinds.
LEMMA JoinBefore ==
    ASSUME NEW r, NEW q, NEW s, Join(r, q, s), Len(q) \in Nat, Len(s) \in Nat,
           NEW A, NEW B,
           Before(q, A, B), Before(s, A, B), ~(Has(s, A) /\ Has(q, B))
    PROVE  Before(r, A, B)
  <1> SUFFICES ASSUME NEW i \in 1..Len(r), NEW j \in 1..Len(r), r[i] \in A, r[j] \in B
               PROVE  i < j
    BY DEF Before
  <1>2. Placed(i, q, s, A)
    BY JoinPlace, Zenon
  <1>3. Placed(j, q, s, B)
    BY JoinPlace, Zenon
  <1>4. CASE i \in 1..Len(q) /\ q[i] \in A /\ j \in 1..Len(q) /\ q[j] \in B
    BY <1>4 DEF Before
  <1>5. CASE i \in 1..Len(q) /\ \E k \in 1..Len(s) : j = Len(q) + k
    BY <1>5
  <1>6. CASE /\ \E k \in 1..Len(s) : i = Len(q) + k /\ s[k] \in A
             /\ \E k \in 1..Len(s) : j = Len(q) + k /\ s[k] \in B
    <2>1. PICK k \in 1..Len(s) : i = Len(q) + k /\ s[k] \in A
      BY <1>6
    <2>2. PICK l \in 1..Len(s) : j = Len(q) + l /\ s[l] \in B
      BY <1>6
    <2>3. k < l
      BY <2>1, <2>2 DEF Before
    <2> QED
      BY <2>1, <2>2, <2>3
  <1>7. ~(/\ \E k \in 1..Len(s) : i = Len(q) + k /\ s[k] \in A
          /\ j \in 1..Len(q) /\ q[j] \in B)
    BY Zenon DEF Has
  <1> QED
    BY <1>2, <1>3, <1>4, <1>5, <1>6, <1>7, Zenon DEF Placed

\* What follows what.
LEMMA JoinFollowed ==
    ASSUME NEW r, NEW q, NEW s, Join(r, q, s), Len(q) \in Nat, Len(s) \in Nat,
           NEW A, NEW B, Followed(q, A, B) \/ Has(s, B), ~Has(s, A)
    PROVE  Followed(r, A, B)
  <1> SUFFICES ASSUME NEW i \in 1..Len(r), r[i] \in A
               PROVE  \E j \in (i + 1)..Len(r) : r[j] \in B
    BY DEF Followed
  <1>0. Len(r) = Len(q) + Len(s) /\ Len(r) \in Nat
    BY DEF Join
  <1>1. i \in 1..Len(q) /\ q[i] \in A
    <2>1. Placed(i, q, s, A)
      BY JoinPlace, Zenon
    <2> QED
      BY <2>1, Zenon DEF Has, Placed
  <1>2. CASE Followed(q, A, B)
    <2>1. PICK j \in (i + 1)..Len(q) : q[j] \in B
      BY <1>1, <1>2 DEF Followed
    <2>2. j \in 1..Len(q) /\ j \in (i + 1)..Len(r)
      BY <1>0, <1>1, <2>1
    <2>3. r[j] = q[j]
      BY <2>2, Zenon DEF Join
    <2> QED
      BY <2>1, <2>2, <2>3
  <1>3. CASE Has(s, B)
    <2>1. PICK k \in 1..Len(s) : s[k] \in B
      BY <1>3 DEF Has
    <2>2. Len(q) + k \in (i + 1)..Len(r)
      BY <1>0, <1>1, <2>1
    <2>3. r[Len(q) + k] = s[k]
      BY <2>1, Zenon DEF Join
    <2> QED
      BY <2>1, <2>2, <2>3
  <1> QED
    BY <1>2, <1>3

\* What remains when the first message is taken.
LEMMA TailHas ==
    ASSUME NEW M, NEW q \in Seq(M), q # <<>>
    PROVE  /\ Tail(q) \in Seq(M) /\ Head(q) \in M
           /\ \A A : Has(q, A) <=> Head(q) \in A \/ Has(Tail(q), A)
           /\ \A A : All(q, A) <=> Head(q) \in A /\ All(Tail(q), A)
           /\ \A A : AtMostOne(q, A) =>
                 AtMostOne(Tail(q), A) /\ (Head(q) \in A => ~Has(Tail(q), A))
           /\ \A A, B : Before(q, A, B) =>
                 Before(Tail(q), A, B) /\ (Head(q) \in B => ~Has(Tail(q), A))
           /\ \A A, B : Followed(q, A, B) =>
                 Followed(Tail(q), A, B) /\ (Head(q) \in A => Has(Tail(q), B))
  <1> DEFINE r == Tail(q)
  <1>1. r \in Seq(M) /\ Head(q) \in M /\ Head(q) = q[1] /\ Len(q) \in Nat \ {0}
        /\ Len(r) = Len(q) - 1 /\ \A i \in 1..Len(r) : r[i] = q[i + 1]
    BY HeadTailProperties, LenProperties, EmptySeq
  <1> HIDE DEF r
  <1>2. \A i \in 1..Len(r) : i + 1 \in 1..Len(q)
    BY <1>1
  <1>3. \A i \in 1..Len(q) : i = 1 \/ (i - 1 \in 1..Len(r) /\ q[i] = r[i - 1])
    BY <1>1
  <1>4. 1 \in 1..Len(q)
    BY <1>1
  <1>5. \A A : Has(q, A) <=> Head(q) \in A \/ Has(r, A)
    BY <1>1, <1>2, <1>3, <1>4, Zenon DEF Has
  <1>6. \A A : All(q, A) <=> Head(q) \in A /\ All(r, A)
    BY <1>1, <1>2, <1>3, <1>4, Zenon DEF All
  <1>7. ASSUME NEW A, AtMostOne(q, A)
        PROVE  AtMostOne(r, A) /\ (Head(q) \in A => ~Has(r, A))
    <2>1. ASSUME NEW i \in 1..Len(r), NEW j \in 1..Len(r), r[i] \in A, r[j] \in A
          PROVE  i = j
      <3>1. i + 1 = j + 1
        BY <1>1, <1>2, <1>7, <2>1 DEF AtMostOne
      <3> QED
        BY <3>1
    <2>2. ASSUME Head(q) \in A, NEW i \in 1..Len(r), r[i] \in A
          PROVE  FALSE
      <3>1. i + 1 = 1
        BY <1>1, <1>2, <1>4, <1>7, <2>2 DEF AtMostOne
      <3> QED
        BY <3>1
    <2> QED
      BY <2>1, <2>2 DEF AtMostOne, Has
  <1>8. ASSUME NEW A, NEW B, Before(q, A, B)
        PROVE  Before(r, A, B) /\ (Head(q) \in B => ~Has(r, A))
    <2>1. ASSUME NEW i \in 1..Len(r), NEW j \in 1..Len(r), r[i] \in A, r[j] \in B
          PROVE  i < j
      <3>1. i + 1 < j + 1
        BY <1>1, <1>2, <1>8, <2>1 DEF Before
      <3> QED
        BY <3>1
    <2>2. ASSUME Head(q) \in B, NEW i \in 1..Len(r), r[i] \in A
          PROVE  FALSE
      <3>1. i + 1 < 1
        BY <1>1, <1>2, <1>4, <1>8, <2>2 DEF Before
      <3> QED
        BY <3>1
    <2> QED
      BY <2>1, <2>2 DEF Before, Has
  <1>9. ASSUME NEW A, NEW B, Followed(q, A, B)
        PROVE  Followed(r, A, B) /\ (Head(q) \in A => Has(r, B))
    <2>1. ASSUME NEW i \in 1..Len(q), q[i] \in A
          PROVE  \E j \in 1..Len(r) : i <= j /\ r[j] \in B
      <3>1. PICK j \in (i + 1)..Len(q) : q[j] \in B
        BY <1>9, <2>1 DEF Followed
      <3>2. j - 1 \in 1..Len(r) /\ i <= j - 1 /\ r[j - 1] = q[j]
        BY <1>1, <3>1
      <3> QED
        BY <3>1, <3>2
    <2>2. ASSUME NEW i \in 1..Len(r), r[i] \in A
          PROVE  \E j \in (i + 1)..Len(r) : r[j] \in B
      <3>1. i + 1 \in 1..Len(q) /\ q[i + 1] \in A
        BY <1>1, <1>2, <2>2
      <3>2. PICK j \in 1..Len(r) : i + 1 <= j /\ r[j] \in B
        BY <2>1, <3>1
      <3>3. j \in (i + 1)..Len(r)
        BY <1>1, <3>2
      <3> QED
        BY <3>2, <3>3
    <2>3. Head(q) \in A => Has(r, B)
      BY <1>1, <1>4, <2>1 DEF Has
    <2> QED
      BY <2>2, <2>3 DEF Followed
  <1> QED
    BY <1>1, <1>5, <1>6, <1>7, <1>8, <1>9 DEF r

\* What remains when the message at i is taken.
LEMMA Removed ==
    ASSUME NEW M, NEW q \in Seq(M), NEW i \in 1..Len(q)
    PROVE  /\ RemoveAt(q, i) \in Seq(M)
           /\ \A A : Has(RemoveAt(q, i), A) => Has(q, A)
           /\ \A A : Has(q, A) => q[i] \in A \/ Has(RemoveAt(q, i), A)
           /\ \A A : All(q, A) => All(RemoveAt(q, i), A)
           /\ \A A : AtMostOne(q, A) => AtMostOne(RemoveAt(q, i), A)
           /\ \A A : AtMostOne(q, A) /\ q[i] \in A => ~Has(RemoveAt(q, i), A)
  <1> DEFINE r == RemoveAt(q, i)
             At(j) == IF j < i THEN j ELSE j + 1
  <1>0. Len(q) \in Nat
    BY LenProperties
  <1>1. r \in Seq(M) /\ Len(r) = Len(q) - 1 /\ \A j \in 1..Len(r) : r[j] = q[At(j)]
    <2> DEFINE a == SubSeq(q, 1, i - 1)
               b == SubSeq(q, i + 1, Len(q))
    <2>1. a \in Seq(M) /\ Len(a) = i - 1 /\ \A j \in 1..(i - 1) : a[j] = q[j]
      BY <1>0
    <2>2. b \in Seq(M) /\ Len(b) = Len(q) - i /\ \A j \in 1..(Len(q) - i) : b[j] = q[i + j]
      BY <1>0
    <2>3. r = a \o b
      BY DEF RemoveAt
    <2> HIDE DEF r, a, b
    <2>c. /\ a \o b \in Seq(M) /\ Len(a \o b) = Len(a) + Len(b)
          /\ \A j \in 1..Len(a) + Len(b) :
                (a \o b)[j] = IF j <= Len(a) THEN a[j] ELSE b[j - Len(a)]
      BY <2>1, <2>2, ConcatProperties, Zenon
    <2>4. r \in Seq(M) /\ Len(r) = Len(q) - 1
      BY <1>0, <2>1, <2>2, <2>3, <2>c
    <2>5. \A j \in 1..Len(r) : r[j] = IF j <= i - 1 THEN a[j] ELSE b[j - (i - 1)]
      BY <1>0, <2>1, <2>2, <2>3, <2>4, <2>c
    <2>6. ASSUME NEW j \in 1..Len(r)
          PROVE  r[j] = q[At(j)]
      <3>1. CASE j < i
        BY <1>0, <2>1, <2>5, <3>1
      <3>2. CASE ~(j < i)
        <4>1. j - (i - 1) \in 1..(Len(q) - i) /\ i + (j - (i - 1)) = j + 1
          BY <1>0, <2>4, <3>2
        <4>2. r[j] = b[j - (i - 1)]
          BY <1>0, <2>4, <2>5, <3>2
        <4> QED
          BY <2>2, <3>2, <4>1, <4>2
      <3> QED
        BY <3>1, <3>2
    <2> QED
      BY <2>4, <2>6
  <1> HIDE DEF r
  <1>2. \A j \in 1..Len(r) : At(j) \in 1..Len(q) /\ At(j) # i
    BY <1>0, <1>1
  <1>3. \A j, k \in 1..Len(r) : At(j) = At(k) => j = k
    BY <1>0, <1>1
  <1>4. \A n \in 1..Len(q) : n = i \/ \E j \in 1..Len(r) : n = At(j)
    <2> TAKE n \in 1..Len(q)
    <2>1. CASE n < i
      <3>1. n \in 1..Len(r) /\ n = At(n)
        BY <1>0, <1>1, <2>1
      <3> QED
        BY <3>1
    <2>2. CASE n > i
      <3>1. n - 1 \in 1..Len(r) /\ n = At(n - 1)
        BY <1>0, <1>1, <2>2
      <3> QED
        BY <3>1
    <2> QED
      BY <1>0, <2>1, <2>2
  <1> HIDE DEF At
  <1>5. \A A : Has(r, A) => Has(q, A)
    BY <1>1, <1>2, Zenon DEF Has
  <1>6. \A A : Has(q, A) => q[i] \in A \/ Has(r, A)
    BY <1>1, <1>4, Zenon DEF Has
  <1>7. \A A : All(q, A) => All(r, A)
    BY <1>1, <1>2, Zenon DEF All
  <1>8. \A A : AtMostOne(q, A) => AtMostOne(r, A)
    BY <1>1, <1>2, <1>3, Zenon DEF AtMostOne
  <1>9. \A A : AtMostOne(q, A) /\ q[i] \in A => ~Has(r, A)
    BY <1>1, <1>2, Zenon DEF AtMostOne, Has
  <1> QED
    BY <1>1, <1>5, <1>6, <1>7, <1>8, <1>9 DEF r

\* What a handler sends: nothing, or a message.
LEMMA Short ==
    ASSUME NEW M, NEW a \in M
    PROVE  /\ <<>> \in Seq(M) /\ <<a>> \in Seq(M)
           /\ \A A : /\ ~Has(<<>>, A) /\ All(<<>>, A) /\ AtMostOne(<<>>, A)
                     /\ Has(<<a>>, A) <=> a \in A
                     /\ All(<<a>>, A) <=> a \in A
                     /\ AtMostOne(<<a>>, A)
           /\ \A A, B : /\ Before(<<>>, A, B)
                        /\ ~(a \in A /\ a \in B) => Before(<<a>>, A, B)
  <1>1. <<>> \in Seq(M) /\ <<a>> \in Seq(M)
        /\ Len(<<>>) = 0 /\ Len(<<a>>) = 1 /\ <<a>>[1] = a
    OBVIOUS
  <1>2. 1..0 = {} /\ 1..1 = {1}
    OBVIOUS
  <1> DEFINE e == <<>>  x == <<a>>
  <1>3. Len(e) = 0 /\ Len(x) = 1 /\ x[1] = a
    BY <1>1
  <1> HIDE DEF e, x
  <1>4. \A A : ~Has(e, A) /\ All(e, A) /\ AtMostOne(e, A)
    BY <1>2, <1>3 DEF Has, All, AtMostOne
  <1>5. \A A : (Has(x, A) <=> a \in A) /\ (All(x, A) <=> a \in A) /\ AtMostOne(x, A)
    BY <1>2, <1>3 DEF Has, All, AtMostOne
  <1>6. \A A, B : /\ Before(e, A, B)
                  /\ ~(a \in A /\ a \in B) => Before(x, A, B)
    BY <1>2, <1>3 DEF Before
  <1> QED
    BY <1>1, <1>4, <1>5, <1>6 DEF e, x

-----------------------------------------------------------------------------
(* Types                                                                   *)

Id == Request \cup AppEvent \cup
      {"RFCOMM_REGISTER_CFM", "RFCOMM_UNREGISTER_CFM", "SDP_REGISTER_CFM", "SDP_UNREGISTER_CFM",
       "RFCOMM_CONNECT_IND", "RFCOMM_CONNECT_RES", "RFCOMM_SERVER_CONNECT_CFM",
       "RFCOMM_DISCONNECT_IND", "RFCOMM_DISCONNECT_RSP", "RFCOMM_DISCONNECT_REQ",
       "RFCOMM_DISCONNECT_CFM"}

\* Messages about a stream that exists, or did.
OfStream == {"RFCOMM_CONNECT_IND", "RFCOMM_CONNECT_RES", "RFCOMM_SERVER_CONNECT_CFM",
             "RFCOMM_DISCONNECT_IND", "RFCOMM_DISCONNECT_RSP"}

Field == [id : Id, sink : Sink \cup {NULL}, channel : Channel \cup {NULL},
          slot : Slot \cup {NULL}, ok : BOOLEAN]

Message == {m \in Field : m.id \in OfStream => m.sink \in Sink}

StreamState == {"none", "asked", "accepted", "declined", "up", "closing", "leaving"}

SlotType == [type : {"none", "rfcomm"}, sink : Sink \cup {NULL},
             rfcomm_channel : Channel \cup {NULL}, connected : BOOLEAN]

ConnType == [state : StreamState, channel : Channel \cup {NULL}]

DataType ==
    /\ transport \in [Slot -> SlotType]
    /\ spp_sdp_handle \in Channel \cup {NULL} /\ wechat_transport \in Slot \cup {NULL}
    /\ conn \in [Sink -> ConnType]

CountType == session \in BOOLEAN /\ refused \in BOOLEAN /\ closed \in Nat /\ failed \in Nat

TypeInv == DataType /\ CountType /\ queue \in Seq(Message) /\ pending \in Seq(Message)

\* What a message is about.
Says(m, id, s, c, ok) == m.id = id /\ m.sink = s /\ m.channel = c /\ m.ok = ok

LEMMA SaysKind ==
    ASSUME NEW m, NEW id, NEW s, NEW c, NEW ok, Says(m, id, s, c, ok)
    PROVE  m.id = id /\ m.sink = s /\ m.channel = c
  BY Zenon DEF Says

\* The messages that are sent.
LEMMA OnChannelSent ==
    ASSUME NEW id \in Id \ OfStream, NEW c \in Channel \cup {NULL}, NEW ok \in BOOLEAN
    PROVE  OnChannel(id, c, ok) \in Message /\ Says(OnChannel(id, c, ok), id, NULL, c, ok)
  <1>1. "RFCOMM_REGISTER_REQ" \in Id
    BY DEF Id, Request
  <1>2. OnChannel(id, c, ok) \in Field /\ Says(OnChannel(id, c, ok), id, NULL, c, ok)
    BY <1>1 DEF OnChannel, Blank, Field, Says
  <1> QED
    BY <1>2 DEF Message, Says

LEMMA OnLinkSent ==
    ASSUME NEW id \in Id, NEW s \in Sink \cup {NULL}, NEW c \in Channel \cup {NULL},
           NEW ok \in BOOLEAN, id \in OfStream => s \in Sink
    PROVE  OnLink(id, s, c, ok) \in Message /\ Says(OnLink(id, s, c, ok), id, s, c, ok)
  <1>1. "RFCOMM_REGISTER_REQ" \in Id
    BY DEF Id, Request
  <1>2. OnLink(id, s, c, ok) \in Field /\ Says(OnLink(id, s, c, ok), id, s, c, ok)
    BY <1>1 DEF OnLink, Blank, Field, Says
  <1> QED
    BY <1>2 DEF Message, Says

LEMMA OnSlotSent ==
    ASSUME NEW id \in AppEvent, NEW t \in Slot \cup {NULL}
    PROVE  OnSlot(id, t) \in Message /\ OnSlot(id, t).id = id /\ OnSlot(id, t).slot = t
  <1>1. "RFCOMM_REGISTER_REQ" \in Id /\ id \in Id /\ id \notin OfStream
    BY DEF Id, Request, AppEvent, OfStream
  <1>2. OnSlot(id, t) \in Field /\ OnSlot(id, t).id = id /\ OnSlot(id, t).slot = t
    BY <1>1 DEF OnSlot, Blank, Field
  <1> QED
    BY <1>1, <1>2 DEF Message

LEMMA BlankSent == Blank \in Message /\ Blank.id = "RFCOMM_REGISTER_REQ"
  <1>1. "RFCOMM_REGISTER_REQ" \in Id \ OfStream
    BY DEF Id, Request, OfStream
  <1> QED
    BY <1>1 DEF Blank, Message, Field

\* The first of the slots found is one of them.
LEMMA FirstFound ==
    ASSUME NEW found, found \subseteq Slot
    PROVE  /\ found = {} => FirstOf(found) = NULL
           /\ found # {} => FirstOf(found) \in found
           /\ NULL \notin Slot
  <1>1. Slot \subseteq Nat
    BY BoundAssumption DEF Slot
  <1>2. NULL \notin Slot
    BY <1>1, NullAssumption
  <1>3. ASSUME found # {}
        PROVE  FirstOf(found) \in found
    <2>1. found \subseteq Nat
      BY <1>1
    <2>2. \E t \in found : \A u \in found : t <= u
      BY <1>3, <2>1, LeastNumber, Zenon
    <2>3. (CHOOSE t \in found : \A u \in found : t <= u) \in found
      BY <2>2, Zenon
    <2> QED
      BY <1>3, <2>3, Zenon DEF FirstOf
  <1>4. found = {} => FirstOf(found) = NULL
    BY Zenon DEF FirstOf
  <1> QED
    BY <1>2, <1>3, <1>4

\* The searches find slots.
LEMMA Searches ==
    /\ FirstOf(Free) = NULL \/ (FirstOf(Free) \in Slot /\ ~Taken(FirstOf(Free)))
    /\ \A c : FirstOf(FromRfcommChannel(c)) \in Slot \cup {NULL}
    /\ \A s : FirstOf(FromSink(s)) \in Slot \cup {NULL}
  <1>1. Free \subseteq Slot /\ \A t \in Free : ~Taken(t)
    BY DEF Free
  <1>2. \A c : FromRfcommChannel(c) \subseteq Slot
    BY DEF FromRfcommChannel
  <1>3. \A s : FromSink(s) \subseteq Slot
    BY DEF FromSink
  <1>4. \A found : found \subseteq Slot => FirstOf(found) \in found \cup {NULL}
    BY FirstFound
  <1>5. FirstOf(Free) \in Free \cup {NULL}
    BY <1>1, <1>4
  <1>6. \A c : FirstOf(FromRfcommChannel(c)) \in Slot \cup {NULL}
    BY <1>2, <1>4, Zenon
  <1>7. \A s : FirstOf(FromSink(s)) \in Slot \cup {NULL}
    BY <1>3, <1>4, Zenon
  <1> QED
    BY <1>1, <1>5, <1>6, <1>7

\* The first message is taken, and ms sent.
Took(ms) ==
    /\ queue \in Seq(Message) /\ queue # <<>> /\ ms \in Seq(Message)
    /\ queue' \in Seq(Message) /\ Join(queue', Tail(queue), ms)

\* The message m comes.
Added(m) ==
    /\ queue \in Seq(Message) /\ m \in Message
    /\ queue' \in Seq(Message) /\ Join(queue', queue, <<m>>)

LEMMA Taking ==
    ASSUME queue \in Seq(Message), NEW id, NEW ms, ms \in Seq(Message), HandleAndSend(id, ms)
    PROVE  /\ Took(ms) /\ Head(queue) \in Message /\ Head(queue).id = id
           /\ panicked' = panicked
  <1>1. queue # <<>> /\ Head(queue).id = id /\ queue' = Tail(queue) \o ms /\ panicked' = panicked
    BY DEF HandleAndSend
  <1>2. Tail(queue) \in Seq(Message) /\ Head(queue) \in Message
    BY <1>1, TailHas
  <1>3. Join(Tail(queue) \o ms, Tail(queue), ms) /\ Tail(queue) \o ms \in Seq(Message)
    BY <1>2, Joined
  <1> QED
    BY <1>1, <1>2, <1>3 DEF Took

LEMMA Adding ==
    ASSUME queue \in Seq(Message), NEW m, m \in Message, queue' = Append(queue, m)
    PROVE  Added(m)
  <1>1. queue' = queue \o <<m>> /\ <<m>> \in Seq(Message)
    BY AppendIsConcat
  <1>2. Join(queue \o <<m>>, queue, <<m>>) /\ queue \o <<m>> \in Seq(Message)
    BY <1>1, Joined
  <1> QED
    BY <1>1, <1>2 DEF Added

-----------------------------------------------------------------------------
(* What the actions take and send                                          *)

\* The first message, of kind id, is taken; nothing is sent, x, or x and y.
TookNone(id) == Head(queue).id = id /\ Head(queue) \in Message /\ Took(<<>>)

TookOne(id, x) ==
    Head(queue).id = id /\ Head(queue) \in Message /\ x \in Message /\ Took(<<x>>)

TookTwo(id, x, y) ==
    /\ Head(queue).id = id /\ Head(queue) \in Message
    /\ x \in Message /\ y \in Message /\ Took(<<x>> \o <<y>>)

LEMMA TakesNone ==
    ASSUME queue \in Seq(Message), NEW id, NEW ms, ms = <<>>, HandleAndSend(id, ms)
    PROVE  TookNone(id)
  <1>1. <<>> \in Seq(Message)
    OBVIOUS
  <1> QED
    BY <1>1, Taking DEF TookNone

LEMMA TakesOne ==
    ASSUME queue \in Seq(Message), NEW id, NEW ms, NEW x, x \in Message, ms = <<x>>,
           HandleAndSend(id, ms)
    PROVE  TookOne(id, x)
  <1>1. <<x>> \in Seq(Message)
    OBVIOUS
  <1> QED
    BY <1>1, Taking DEF TookOne

LEMMA TakesTwo ==
    ASSUME queue \in Seq(Message), NEW id, NEW ms, NEW x, x \in Message,
           NEW y, y \in Message, ms = <<x>> \o <<y>>, HandleAndSend(id, ms)
    PROVE  TookTwo(id, x, y)
  <1>1. <<x>> \in Seq(Message) /\ <<y>> \in Seq(Message)
    OBVIOUS
  <1>2. <<x>> \o <<y>> \in Seq(Message)
    BY <1>1, Joined
  <1> QED
    BY <1>2, Taking DEF TookTwo

LEMMA FirstMessage ==
    ASSUME queue \in Seq(Message), queue # <<>>
    PROVE  /\ Head(queue) \in Message /\ Head(queue).id \in Id
           /\ Head(queue).sink \in Sink \cup {NULL} /\ Head(queue).channel \in Channel \cup {NULL}
           /\ Head(queue).slot \in Slot \cup {NULL} /\ Head(queue).ok \in BOOLEAN
           /\ Head(queue).id \in OfStream => Head(queue).sink \in Sink
           /\ TRUE \in BOOLEAN /\ NULL \in Sink \cup {NULL} /\ NULL \in Channel \cup {NULL}
  <1>1. Head(queue) \in Message
    BY TailHas
  <1> QED
    BY <1>1 DEF Message, Field

\* The kinds of messages.
LEMMA Kinds ==
    /\ {"SDP_REGISTER_REQ", "SDP_UNREGISTER_REQ", "RFCOMM_REGISTER_REQ",
        "RFCOMM_UNREGISTER_REQ", "RFCOMM_DISCONNECT_REQ", "RFCOMM_DISCONNECT_CFM",
        "RFCOMM_REGISTER_CFM", "RFCOMM_UNREGISTER_CFM", "SDP_REGISTER_CFM",
        "SDP_UNREGISTER_CFM"} \subseteq Id \ OfStream
    /\ {"RFCOMM_CONNECT_IND", "RFCOMM_CONNECT_RES", "RFCOMM_SERVER_CONNECT_CFM",
        "RFCOMM_DISCONNECT_IND", "RFCOMM_DISCONNECT_RSP"} \subseteq Id \cap OfStream
    /\ {"WECHAT_CONNECT_IND", "WECHAT_DISCONNECT_IND"} = AppEvent
  BY DEF Id, OfStream, Request, SdpRequest, AppEvent

LEMMA RegisterCfmEffect ==
    ASSUME TypeInv, HandleRegisterCfm
    PROVE  /\ UNCHANGED <<transport, spp_sdp_handle, appVars, stackVars, historyVars>>
           /\ \/ /\ ~Head(queue).ok /\ TookNone("RFCOMM_REGISTER_CFM")
              \/ /\ Head(queue).ok
                 /\ \E x : /\ TookOne("RFCOMM_REGISTER_CFM", x)
                           /\ Says(x, "SDP_REGISTER_REQ", NULL, Head(queue).channel, TRUE)
  <1> DEFINE x == OnChannel("SDP_REGISTER_REQ", Head(queue).channel, TRUE)
  <1>1. queue \in Seq(Message) /\ queue # <<>>
    BY DEF TypeInv, HandleRegisterCfm, HandleAndSend
  <1>2. x \in Message /\ Says(x, "SDP_REGISTER_REQ", NULL, Head(queue).channel, TRUE)
    BY <1>1, FirstMessage, Kinds, OnChannelSent
  <1> HIDE DEF x
  <1>3. HandleAndSend("RFCOMM_REGISTER_CFM", IF Head(queue).ok THEN <<x>> ELSE <<>>)
    BY DEF HandleRegisterCfm, x
  <1>4. CASE Head(queue).ok
    BY <1>1, <1>2, <1>3, <1>4, TakesOne DEF HandleRegisterCfm, libVars
  <1>5. CASE ~Head(queue).ok
    BY <1>1, <1>3, <1>5, TakesNone DEF HandleRegisterCfm, libVars
  <1> QED
    BY <1>4, <1>5

LEMMA SdpUnregisterCfmEffect ==
    ASSUME TypeInv, HandleSdpUnregisterCfm
    PROVE  /\ UNCHANGED <<transport, spp_sdp_handle, appVars, stackVars, historyVars>>
           /\ \/ ~Head(queue).ok /\ TookNone("SDP_UNREGISTER_CFM")
              \/ Head(queue).ok /\ TookOne("SDP_UNREGISTER_CFM", Blank)
  <1>1. queue \in Seq(Message)
    BY DEF TypeInv
  <1>2. HandleAndSend("SDP_UNREGISTER_CFM", IF Head(queue).ok THEN <<Blank>> ELSE <<>>)
    BY DEF HandleSdpUnregisterCfm
  <1>3. CASE Head(queue).ok
    BY <1>1, <1>2, <1>3, BlankSent, TakesOne DEF HandleSdpUnregisterCfm, libVars
  <1>4. CASE ~Head(queue).ok
    BY <1>1, <1>2, <1>4, TakesNone DEF HandleSdpUnregisterCfm, libVars
  <1> QED
    BY <1>3, <1>4

\* The slot t takes the stream s on channel c.
Accepts(t, s, c) ==
    transport' = [transport EXCEPT ![t] = [@ EXCEPT !.type = "rfcomm", !.sink = s,
                                                    !.rfcomm_channel = c]]

LEMMA ConnectIndEffect ==
    ASSUME TypeInv, HandleConnectInd
    PROVE  /\ UNCHANGED <<spp_sdp_handle, appVars, stackVars, historyVars>>
           /\ Head(queue).sink \in Sink
           /\ \E ok \in BOOLEAN : \E x :
                 /\ TookOne("RFCOMM_CONNECT_IND", x)
                 /\ Says(x, "RFCOMM_CONNECT_RES", Head(queue).sink, Head(queue).channel, ok)
                 /\ ~ok => transport' = transport /\ Free = {}
                 /\ ok => \E t \in Slot : /\ ~Taken(t)
                                          /\ Accepts(t, Head(queue).sink, Head(queue).channel)
  <1> DEFINE t == FirstOf(Free)
             ok == t # NULL
             x == OnLink("RFCOMM_CONNECT_RES", Head(queue).sink, Head(queue).channel, ok)
  <1>1. queue \in Seq(Message) /\ queue # <<>> /\ Head(queue).id = "RFCOMM_CONNECT_IND"
    BY DEF TypeInv, HandleConnectInd, HandleAndSend
  <1>2. ok \in BOOLEAN
    OBVIOUS
  <1>3. Head(queue).sink \in Sink
    BY <1>1, FirstMessage, Kinds
  <1>4. HandleAndSend("RFCOMM_CONNECT_IND", <<x>>)
    BY DEF HandleConnectInd
  <1>5. /\ ~ok => transport' = transport
        /\ ok => Accepts(t, Head(queue).sink, Head(queue).channel)
    BY DEF HandleConnectInd, Accepts
  <1>6. ok => t \in Slot /\ ~Taken(t)
    BY Searches
  <1>7. ~ok => Free = {}
    <2>1. Free \subseteq Slot
      BY DEF Free
    <2> QED
      BY <2>1, FirstFound
  <1> HIDE DEF ok
  <1>8. x \in Message /\ Says(x, "RFCOMM_CONNECT_RES", Head(queue).sink, Head(queue).channel, ok)
    BY <1>1, <1>2, <1>3, FirstMessage, Kinds, OnLinkSent
  <1> HIDE DEF x, t
  <1>9. TookOne("RFCOMM_CONNECT_IND", x)
    BY <1>1, <1>4, <1>8, TakesOne
  <1>10. UNCHANGED <<spp_sdp_handle, appVars, stackVars, historyVars>>
    BY DEF HandleConnectInd
  <1> QED
    BY <1>2, <1>3, <1>5, <1>6, <1>7, <1>8, <1>9, <1>10

LEMMA ServerConnectCfmEffect ==
    ASSUME TypeInv, HandleServerConnectCfm
    PROVE  /\ UNCHANGED <<spp_sdp_handle, appVars, stackVars, historyVars>>
           /\ Head(queue).sink \in Sink
           /\ \/ /\ ~Head(queue).ok /\ TookNone("RFCOMM_SERVER_CONNECT_CFM")
                 /\ transport' = transport
              \/ /\ Head(queue).ok
                 /\ \E x, y, t :
                       /\ t = FirstOf(FromRfcommChannel(Head(queue).channel))
                       /\ TookTwo("RFCOMM_SERVER_CONNECT_CFM", x, y)
                       /\ Says(x, "SDP_UNREGISTER_REQ", NULL, spp_sdp_handle, TRUE)
                       /\ y.id = "WECHAT_CONNECT_IND" /\ y.slot = t
                       /\ transport' = IF t = NULL THEN transport
                                       ELSE [transport EXCEPT ![t] =
                                                [@ EXCEPT !.sink = Head(queue).sink,
                                                          !.connected = TRUE]]
  <1> DEFINE t == FirstOf(FromRfcommChannel(Head(queue).channel))
             x == OnChannel("SDP_UNREGISTER_REQ", spp_sdp_handle, TRUE)
             y == OnSlot("WECHAT_CONNECT_IND", t)
             id == "RFCOMM_SERVER_CONNECT_CFM"
  <1>1. queue \in Seq(Message) /\ queue # <<>> /\ Head(queue).id = id
    BY DEF TypeInv, HandleServerConnectCfm, HandleAndSend
  <1>2. Head(queue).sink \in Sink
    BY <1>1, FirstMessage, Kinds
  <1>3. x \in Message /\ Says(x, "SDP_UNREGISTER_REQ", NULL, spp_sdp_handle, TRUE)
    <2>1. spp_sdp_handle \in Channel \cup {NULL} /\ TRUE \in BOOLEAN
      BY DEF TypeInv, DataType, SlotType, ConnType
    <2> QED
      BY <2>1, Kinds, OnChannelSent
  <1>4. y \in Message /\ y.id = "WECHAT_CONNECT_IND" /\ y.slot = t
    <2>1. t \in Slot \cup {NULL}
      BY Searches
    <2> HIDE DEF t
    <2> QED
      BY <2>1, Kinds, OnSlotSent
  <1>5. UNCHANGED <<spp_sdp_handle, appVars, stackVars, historyVars>>
    BY DEF HandleServerConnectCfm, libVars
  <1>6. \/ /\ Head(queue).ok /\ HandleAndSend(id, <<x>> \o <<y>>)
           /\ transport' = IF t = NULL THEN transport
                           ELSE [transport EXCEPT ![t] =
                                    [@ EXCEPT !.sink = Head(queue).sink, !.connected = TRUE]]
        \/ ~Head(queue).ok /\ HandleAndSend(id, <<>>) /\ transport' = transport
    BY DEF HandleServerConnectCfm, WithdrawRecord, libVars
  <1> HIDE DEF t, x, y, id
  <1>7. CASE ~Head(queue).ok
    <2>1. TookNone(id) /\ transport' = transport
      BY <1>1, <1>6, <1>7, TakesNone
    <2> QED
      BY <1>2, <1>5, <1>7, <2>1 DEF id
  <1>8. CASE Head(queue).ok
    <2>1. TookTwo(id, x, y)
      BY <1>1, <1>3, <1>4, <1>6, <1>8, TakesTwo
    <2>2. TookTwo("RFCOMM_SERVER_CONNECT_CFM", x, y)
      BY <2>1 DEF id
    <2>3. t = FirstOf(FromRfcommChannel(Head(queue).channel))
      BY DEF t
    <2> QED
      BY <1>2, <1>3, <1>4, <1>5, <1>6, <1>8, <2>2, <2>3
  <1> QED
    BY <1>7, <1>8

LEMMA DisconnectIndEffect ==
    ASSUME TypeInv, HandleDisconnectInd
    PROVE  /\ UNCHANGED <<transport, spp_sdp_handle, appVars, stackVars, historyVars>>
           /\ Head(queue).sink \in Sink
           /\ \E x : /\ Says(x, "RFCOMM_DISCONNECT_RSP", Head(queue).sink, NULL, TRUE)
                     /\ \/ /\ FromSink(Head(queue).sink) = {}
                           /\ TookOne("RFCOMM_DISCONNECT_IND", x)
                        \/ \E y, t : /\ t \in FromSink(Head(queue).sink)
                                     /\ TookTwo("RFCOMM_DISCONNECT_IND", x, y)
                                     /\ Says(y, "RFCOMM_UNREGISTER_REQ", NULL,
                                             transport[t].rfcomm_channel, TRUE)
  <1> DEFINE s == Head(queue).sink
             t == FirstOf(FromSink(s))
             x == OnLink("RFCOMM_DISCONNECT_RSP", s, NULL, TRUE)
             y == OnChannel("RFCOMM_UNREGISTER_REQ", transport[t].rfcomm_channel, TRUE)
             id == "RFCOMM_DISCONNECT_IND"
  <1>1. queue \in Seq(Message) /\ queue # <<>> /\ Head(queue).id = id
    BY DEF TypeInv, HandleDisconnectInd, HandleAndSend
  <1>2. s \in Sink /\ NULL \in Channel \cup {NULL} /\ TRUE \in BOOLEAN
    BY <1>1, FirstMessage, Kinds
  <1>3. x \in Message /\ Says(x, "RFCOMM_DISCONNECT_RSP", s, NULL, TRUE)
    BY <1>2, Kinds, OnLinkSent
  <1>4. IF t = NULL THEN FromSink(s) = {} ELSE t \in Slot /\ t \in FromSink(s)
    <2>1. FromSink(s) \subseteq Slot
      BY DEF FromSink
    <2> QED
      BY <2>1, FirstFound, Zenon
  <1>5. UNCHANGED <<transport, spp_sdp_handle, appVars, stackVars, historyVars>>
    BY DEF HandleDisconnectInd, libVars
  <1>6. HandleAndSend(id, <<x>> \o (IF t = NULL THEN <<>> ELSE <<y>>))
    BY DEF HandleDisconnectInd, ReleaseChannel
  <1>7. t # NULL => y \in Message /\ Says(y, "RFCOMM_UNREGISTER_REQ", NULL,
                                          transport[t].rfcomm_channel, TRUE)
    <2> SUFFICES ASSUME t # NULL
                 PROVE  y \in Message /\ Says(y, "RFCOMM_UNREGISTER_REQ", NULL,
                                              transport[t].rfcomm_channel, TRUE)
      OBVIOUS
    <2>1. t \in Slot
      BY <1>4
    <2> HIDE DEF t
    <2>2. transport[t].rfcomm_channel \in Channel \cup {NULL}
      BY <2>1 DEF TypeInv, DataType, SlotType, ConnType
    <2> QED
      BY <1>2, <2>2, Kinds, OnChannelSent
  <1> HIDE DEF t, x, y
  <1>8. CASE t = NULL
    <2>1. <<x>> \o (IF t = NULL THEN <<>> ELSE <<y>>) = <<x>>
      <3>1. <<x>> \in Seq(Message)
        BY <1>3
      <3> QED
        BY <1>8, <3>1, ConcatEmptySeq
    <2>2. TookOne(id, x)
      BY <1>1, <1>3, <1>6, <2>1, TakesOne
    <2>3. FromSink(s) = {}
      BY <1>4, <1>8
    <2> QED
      BY <1>2, <1>3, <1>5, <2>2, <2>3
  <1>9. CASE t # NULL
    <2>1. <<x>> \o (IF t = NULL THEN <<>> ELSE <<y>>) = <<x>> \o <<y>>
      BY <1>9
    <2>2. TookTwo(id, x, y)
      BY <1>1, <1>3, <1>6, <1>7, <1>9, <2>1, TakesTwo
    <2>3. t \in FromSink(s)
      BY <1>4, <1>9
    <2> QED
      BY <1>2, <1>3, <1>5, <1>7, <1>9, <2>2, <2>3
  <1> QED
    BY <1>8, <1>9

LEMMA UnregisterCfmEffect ==
    ASSUME TypeInv, HandleUnregisterCfm
    PROVE  /\ UNCHANGED <<transport, spp_sdp_handle, appVars, stackVars, historyVars>>
           /\ \/ ~Head(queue).ok /\ TookNone("RFCOMM_UNREGISTER_CFM")
              \/ /\ Head(queue).ok
                 /\ \E x : /\ TookOne("RFCOMM_UNREGISTER_CFM", x)
                           /\ x.id = "WECHAT_DISCONNECT_IND"
                           /\ x.slot = FirstOf(FromRfcommChannel(Head(queue).channel))
  <1> DEFINE t == FirstOf(FromRfcommChannel(Head(queue).channel))
             x == OnSlot("WECHAT_DISCONNECT_IND", t)
  <1>1. queue \in Seq(Message) /\ t \in Slot \cup {NULL}
    BY Searches DEF TypeInv
  <1>2. HandleAndSend("RFCOMM_UNREGISTER_CFM", IF Head(queue).ok THEN <<x>> ELSE <<>>)
    BY DEF HandleUnregisterCfm
  <1>3. UNCHANGED <<transport, spp_sdp_handle, appVars, stackVars, historyVars>>
    BY DEF HandleUnregisterCfm, libVars
  <1>4. t = FirstOf(FromRfcommChannel(Head(queue).channel))
    OBVIOUS
  <1> HIDE DEF t
  <1>5. x \in Message /\ x.id = "WECHAT_DISCONNECT_IND" /\ x.slot = t
    BY <1>1, Kinds, OnSlotSent
  <1> HIDE DEF x
  <1>6. CASE Head(queue).ok
    BY <1>1, <1>2, <1>3, <1>4, <1>5, <1>6, TakesOne
  <1>7. CASE ~Head(queue).ok
    BY <1>1, <1>2, <1>3, <1>7, TakesNone
  <1> QED
    BY <1>6, <1>7

LEMMA DisconnectReqEffect ==
    ASSUME TypeInv, DisconnectReq
    PROVE  /\ UNCHANGED <<libVars, appVars, pending, registered, records, historyVars>>
           /\ \/ /\ TookNone("RFCOMM_DISCONNECT_REQ")
                 /\ Head(queue).sink \in Streams
                 /\ conn' = IF conn[Head(queue).sink].state \in {"accepted", "up"}
                            THEN [conn EXCEPT ![Head(queue).sink].state = "leaving"] ELSE conn
              \/ /\ \E x : /\ TookOne("RFCOMM_DISCONNECT_REQ", x)
                           /\ Says(x, "RFCOMM_DISCONNECT_CFM", Head(queue).sink, NULL, TRUE)
                 /\ conn' = conn
  <1> DEFINE s == Head(queue).sink
             x == OnLink("RFCOMM_DISCONNECT_CFM", s, NULL, TRUE)
  <1>1. queue \in Seq(Message) /\ queue # <<>>
    BY DEF TypeInv, DisconnectReq, HandleAndSend
  <1>2. x \in Message /\ Says(x, "RFCOMM_DISCONNECT_CFM", s, NULL, TRUE)
    BY <1>1, FirstMessage, Kinds, OnLinkSent
  <1>3. UNCHANGED <<libVars, appVars, pending, registered, records, historyVars>>
    BY DEF DisconnectReq, stackVars
  <1>4. \/ /\ HandleAndSend("RFCOMM_DISCONNECT_REQ", <<>>)
           /\ s \in Streams
           /\ conn' = IF conn[s].state \in {"accepted", "up"}
                      THEN [conn EXCEPT ![s].state = "leaving"] ELSE conn
        \/ HandleAndSend("RFCOMM_DISCONNECT_REQ", <<x>>) /\ conn' = conn
    BY DEF DisconnectReq, stackVars
  <1> HIDE DEF x
  <1>5. CASE HandleAndSend("RFCOMM_DISCONNECT_REQ", <<x>>) /\ conn' = conn
    <2>1. TookOne("RFCOMM_DISCONNECT_REQ", x)
      BY <1>1, <1>2, <1>5, TakesOne
    <2> QED
      BY <1>2, <1>3, <1>5, <2>1
  <1>6. CASE HandleAndSend("RFCOMM_DISCONNECT_REQ", <<>>)
             /\ s \in Streams
             /\ conn' = IF conn[s].state \in {"accepted", "up"}
                        THEN [conn EXCEPT ![s].state = "leaving"] ELSE conn
    <2>1. TookNone("RFCOMM_DISCONNECT_REQ")
      BY <1>1, <1>6, TakesNone
    <2> QED
      BY <1>3, <1>6, <2>1
  <1> QED
    BY <1>4, <1>5, <1>6

\* The handlers that send nothing.
LEMMA SilentEffect ==
    ASSUME TypeInv
    PROVE  /\ HandleSdpRegisterCfm => TookNone("SDP_REGISTER_CFM")
           /\ HandleDisconnectCfm => TookNone("RFCOMM_DISCONNECT_CFM")
           /\ HandleWechatConnectInd => TookNone("WECHAT_CONNECT_IND")
           /\ HandleWechatDisconnectInd => TookNone("WECHAT_DISCONNECT_IND")
           /\ ConnectRes => TookNone("RFCOMM_CONNECT_RES") /\ Head(queue).sink \in Sink
           /\ DisconnectRsp => TookNone("RFCOMM_DISCONNECT_RSP") /\ Head(queue).sink \in Sink
           /\ ForwardRequest => \E id \in Request : TookNone(id)
  <1>1. queue \in Seq(Message)
    BY DEF TypeInv
  <1>2. \A id : HandleAndSend(id, <<>>) => TookNone(id)
    BY <1>1, TakesNone, Zenon
  <1>3. \A id : TookNone(id) /\ id \in OfStream => Head(queue).sink \in Sink
    BY DEF TookNone, Message
  <1> QED
    BY <1>2, <1>3, Kinds DEF HandleSdpRegisterCfm, HandleDisconnectCfm, HandleWechatConnectInd,
       HandleWechatDisconnectInd, ConnectRes, DisconnectRsp, ForwardRequest

\* The actions that put a message behind the others.
LEMMA TellAdds ==
    ASSUME queue \in Seq(Message), NEW x, x \in Message, Tell(x)
    PROVE  Added(x) /\ UNCHANGED <<libVars, appVars, panicked>>
  BY Adding DEF Tell

LEMMA WechatDisconnectEffect ==
    ASSUME TypeInv, WechatDisconnect
    PROVE  /\ UNCHANGED <<libVars, appVars, stackVars, refused, failed>>
           /\ closed' = closed + 1
           /\ \E x, s : Added(x) /\ Says(x, "RFCOMM_DISCONNECT_REQ", s, NULL, TRUE)
  <1> DEFINE s == transport[wechat_transport].sink
             x == OnLink("RFCOMM_DISCONNECT_REQ", s, NULL, TRUE)
  <1>1. queue \in Seq(Message) /\ s \in Sink \cup {NULL} /\ NULL \in Channel \cup {NULL}
        /\ TRUE \in BOOLEAN
    BY DEF TypeInv, DataType, SlotType, ConnType, WechatDisconnect
  <1>2. queue' = Append(queue, x) /\ closed' = closed + 1
        /\ UNCHANGED <<libVars, appVars, stackVars, refused, failed>>
    BY DEF WechatDisconnect
  <1> HIDE DEF s
  <1>3. x \in Message /\ Says(x, "RFCOMM_DISCONNECT_REQ", s, NULL, TRUE)
    BY <1>1, Kinds, OnLinkSent
  <1> HIDE DEF x
  <1>4. Added(x)
    BY <1>1, <1>2, <1>3, Adding
  <1> QED
    BY <1>2, <1>3, <1>4

\* The answer x of BlueStack to the request r.
Answers(r, ok, x) ==
    \/ /\ r.id = "RFCOMM_REGISTER_REQ" /\ records' = records
       /\ \/ ok /\ \E c \in Channel : Says(x, "RFCOMM_REGISTER_CFM", NULL, c, TRUE)
          \/ ~ok /\ Says(x, "RFCOMM_REGISTER_CFM", NULL, NULL, FALSE)
    \/ /\ r.id = "RFCOMM_UNREGISTER_REQ" /\ records' = records
       /\ Says(x, "RFCOMM_UNREGISTER_CFM", NULL, r.channel, ok)
       /\ ok \/ failed' = failed + 1
    \/ /\ r.id = "SDP_REGISTER_REQ"
       /\ Says(x, "SDP_REGISTER_CFM", NULL, r.channel, ok)
       /\ records' = IF ok THEN records \cup {r.channel} ELSE records
    \/ /\ r.id = "SDP_UNREGISTER_REQ" /\ (ok => r.channel \in records)
       /\ Says(x, "SDP_UNREGISTER_CFM", NULL, r.channel, ok)
       /\ records' = IF ok THEN records \ {r.channel} ELSE records

LEMMA StackAnswersEffect ==
    ASSUME TypeInv, StackAnswers
    PROVE  /\ UNCHANGED <<libVars, appVars, conn, closed, refused>>
           /\ failed' \in {failed, failed + 1}
           /\ \E i \in 1..Len(pending), ok \in BOOLEAN : \E x :
                 /\ Added(x) /\ pending' = RemoveAt(pending, i)
                 /\ pending[i] \in Message /\ Answers(pending[i], ok, x)
  <1>1. queue \in Seq(Message) /\ pending \in Seq(Message)
    BY DEF TypeInv
  <1>2. PICK i \in DOMAIN pending, ok \in BOOLEAN :
            /\ \/ Registers(pending[i], ok) \/ Unregisters(pending[i], ok)
               \/ Publishes(pending[i], ok) \/ Withdraws(pending[i], ok)
            /\ pending' = RemoveAt(pending, i)
    BY DEF StackAnswers
  <1>3. i \in 1..Len(pending) /\ pending[i] \in Message
    BY <1>1, LenProperties
  <1> DEFINE r == pending[i]
  <1> HIDE DEF r
  <1>4. r \in Message /\ r.channel \in Channel \cup {NULL} /\ NULL \in Channel \cup {NULL}
        /\ TRUE \in BOOLEAN /\ FALSE \in BOOLEAN
    BY <1>3 DEF r, Message, Field
  <1>5. \/ Registers(r, ok) \/ Unregisters(r, ok) \/ Publishes(r, ok) \/ Withdraws(r, ok)
    BY <1>2 DEF r
  <1>6. \A id \in Id \ OfStream, c \in Channel \cup {NULL}, b \in BOOLEAN :
           Tell(OnChannel(id, c, b)) =>
              /\ Added(OnChannel(id, c, b)) /\ Says(OnChannel(id, c, b), id, NULL, c, b)
              /\ UNCHANGED <<libVars, appVars>>
    BY <1>1, OnChannelSent, TellAdds, Zenon
  <1>7. CASE Registers(r, ok)
    <2>1. /\ r.id = "RFCOMM_REGISTER_REQ" /\ records' = records
          /\ \/ ok /\ \E c \in Channel : Tell(OnChannel("RFCOMM_REGISTER_CFM", c, TRUE))
             \/ ~ok /\ Tell(OnChannel("RFCOMM_REGISTER_CFM", NULL, FALSE))
      BY <1>7 DEF Registers
    <2>2. ASSUME ok
          PROVE  UNCHANGED <<libVars, appVars>> /\ \E x : Added(x) /\ Answers(r, ok, x)
      <3>1. PICK c \in Channel : Tell(OnChannel("RFCOMM_REGISTER_CFM", c, TRUE))
        BY <2>1, <2>2
      <3>2. c \in Channel \cup {NULL}
        OBVIOUS
      <3>3. /\ Added(OnChannel("RFCOMM_REGISTER_CFM", c, TRUE))
            /\ Says(OnChannel("RFCOMM_REGISTER_CFM", c, TRUE), "RFCOMM_REGISTER_CFM", NULL, c, TRUE)
            /\ UNCHANGED <<libVars, appVars>>
        BY <1>4, <1>6, <3>1, <3>2, Kinds
      <3> QED
        BY <2>1, <2>2, <3>3 DEF Answers
    <2>3. ASSUME ~ok
          PROVE  UNCHANGED <<libVars, appVars>> /\ \E x : Added(x) /\ Answers(r, ok, x)
      <3>1. LET x == OnChannel("RFCOMM_REGISTER_CFM", NULL, FALSE)
            IN Added(x) /\ Says(x, "RFCOMM_REGISTER_CFM", NULL, NULL, FALSE)
               /\ UNCHANGED <<libVars, appVars>>
        BY <1>4, <1>6, <2>1, <2>3, Kinds
      <3> QED
        BY <2>1, <2>3, <3>1 DEF Answers
    <2>4. UNCHANGED <<libVars, appVars>> /\ \E x : Added(x) /\ Answers(r, ok, x)
      BY <2>2, <2>3
    <2>5. failed' \in {failed, failed + 1}
      BY <1>7 DEF Registers, Fails
    <2> QED
      BY <1>2, <1>3, <2>4, <2>5 DEF StackAnswers, r
  <1>8. CASE Unregisters(r, ok)
    <2>1. /\ Tell(OnChannel("RFCOMM_UNREGISTER_CFM", r.channel, ok))
          /\ r.id = "RFCOMM_UNREGISTER_REQ" /\ records' = records
          /\ ok \/ failed' = failed + 1
      BY <1>8 DEF Unregisters, Fails
    <2> DEFINE x == OnChannel("RFCOMM_UNREGISTER_CFM", r.channel, ok)
    <2>2. Added(x) /\ Says(x, "RFCOMM_UNREGISTER_CFM", NULL, r.channel, ok)
          /\ UNCHANGED <<libVars, appVars>>
      BY <1>4, <1>6, <2>1, Kinds
    <2> HIDE DEF x
    <2>4. Answers(r, ok, x)
      BY <2>1, <2>2 DEF Answers
    <2>5. failed' \in {failed, failed + 1}
      BY <1>8 DEF Unregisters, Fails
    <2> QED
      BY <1>2, <1>3, <2>2, <2>4, <2>5 DEF StackAnswers, r
  <1>9. CASE Publishes(r, ok)
    <2>1. /\ Tell(OnChannel("SDP_REGISTER_CFM", r.channel, ok))
          /\ r.id = "SDP_REGISTER_REQ"
          /\ records' = IF ok THEN records \cup {r.channel} ELSE records
      BY <1>9 DEF Publishes
    <2> DEFINE x == OnChannel("SDP_REGISTER_CFM", r.channel, ok)
    <2>2. Added(x) /\ Says(x, "SDP_REGISTER_CFM", NULL, r.channel, ok)
          /\ UNCHANGED <<libVars, appVars>>
      BY <1>4, <1>6, <2>1, Kinds
    <2> HIDE DEF x
    <2>4. Answers(r, ok, x)
      BY <2>1, <2>2 DEF Answers
    <2>5. failed' \in {failed, failed + 1}
      BY <1>9 DEF Publishes, Fails
    <2> QED
      BY <1>2, <1>3, <2>2, <2>4, <2>5 DEF StackAnswers, r
  <1>10. CASE Withdraws(r, ok)
    <2>1. /\ Tell(OnChannel("SDP_UNREGISTER_CFM", r.channel, ok))
          /\ r.id = "SDP_UNREGISTER_REQ" /\ (ok => r.channel \in records)
          /\ records' = IF ok THEN records \ {r.channel} ELSE records
      BY <1>10 DEF Withdraws
    <2> DEFINE x == OnChannel("SDP_UNREGISTER_CFM", r.channel, ok)
    <2>2. Added(x) /\ Says(x, "SDP_UNREGISTER_CFM", NULL, r.channel, ok)
          /\ UNCHANGED <<libVars, appVars>>
      BY <1>4, <1>6, <2>1, Kinds
    <2> HIDE DEF x
    <2>4. Answers(r, ok, x)
      BY <2>1, <2>2 DEF Answers
    <2>5. failed' \in {failed, failed + 1}
      BY <1>10 DEF Withdraws, Fails
    <2> QED
      BY <1>2, <1>3, <2>2, <2>4, <2>5 DEF StackAnswers, r
  <1> QED
    BY <1>5, <1>7, <1>8, <1>9, <1>10

\* What phones and BlueStack tell of a stream.
LEMMA StreamEffect ==
    ASSUME TypeInv, NEW s \in Sink
    PROVE  /\ \A c \in Channel : PhoneConnects(s, c) =>
                 \E x : Added(x) /\ Says(x, "RFCOMM_CONNECT_IND", s, c, TRUE)
           /\ StackConfirms(s) => \E ok \in BOOLEAN : \E x :
                 /\ Added(x)
                 /\ Says(x, "RFCOMM_SERVER_CONNECT_CFM", s, conn[s].channel, ok)
                 /\ ok => /\ conn[s].state = "accepted" /\ refused' = refused
                          /\ conn' = [conn EXCEPT ![s].state = "up"]
                 /\ ~ok => /\ conn[s].state \in {"accepted", "declined"}
                           /\ conn' = [conn EXCEPT ![s] = NoConn]
                           /\ refused' = (refused \/ conn[s].state = "accepted")
           /\ PhoneDisconnects(s) =>
                 \E x : Added(x) /\ Says(x, "RFCOMM_DISCONNECT_IND", s, NULL, TRUE)
           /\ StackDisconnects(s) =>
                 \E x : Added(x) /\ Says(x, "RFCOMM_DISCONNECT_CFM", s, NULL, TRUE)
  <1>1. queue \in Seq(Message) /\ s \in Sink \cup {NULL} /\ NULL \in Channel \cup {NULL}
        /\ TRUE \in BOOLEAN /\ FALSE \in BOOLEAN /\ conn[s].channel \in Channel \cup {NULL}
    BY DEF TypeInv, DataType, SlotType, ConnType
  <1>2. \A id \in Id, c \in Channel \cup {NULL}, b \in BOOLEAN :
           Tell(OnLink(id, s, c, b)) =>
              Added(OnLink(id, s, c, b)) /\ Says(OnLink(id, s, c, b), id, s, c, b)
    BY <1>1, OnLinkSent, TellAdds, Zenon
  <1>3. ASSUME NEW c \in Channel, PhoneConnects(s, c)
        PROVE  \E x : Added(x) /\ Says(x, "RFCOMM_CONNECT_IND", s, c, TRUE)
    <2>1. Tell(OnLink("RFCOMM_CONNECT_IND", s, c, TRUE)) /\ c \in Channel \cup {NULL}
      BY <1>3 DEF PhoneConnects
    <2> QED
      BY <1>1, <1>2, <2>1, Kinds
  <1>4. ASSUME StackConfirms(s)
        PROVE  \E ok \in BOOLEAN : \E x :
                 /\ Added(x)
                 /\ Says(x, "RFCOMM_SERVER_CONNECT_CFM", s, conn[s].channel, ok)
                 /\ ok => /\ conn[s].state = "accepted" /\ refused' = refused
                          /\ conn' = [conn EXCEPT ![s].state = "up"]
                 /\ ~ok => /\ conn[s].state \in {"accepted", "declined"}
                           /\ conn' = [conn EXCEPT ![s] = NoConn]
                           /\ refused' = (refused \/ conn[s].state = "accepted")
    <2>1. PICK ok \in BOOLEAN :
                 /\ Tell(OnLink("RFCOMM_SERVER_CONNECT_CFM", s, conn[s].channel, ok))
                 /\ ok => /\ conn[s].state = "accepted" /\ refused' = refused
                          /\ conn' = [conn EXCEPT ![s].state = "up"]
                 /\ ~ok => /\ conn[s].state \in {"accepted", "declined"}
                           /\ conn' = [conn EXCEPT ![s] = NoConn]
                           /\ refused' = (refused \/ conn[s].state = "accepted")
      BY <1>1, <1>4, Zenon DEF StackConfirms
    <2>2. /\ Added(OnLink("RFCOMM_SERVER_CONNECT_CFM", s, conn[s].channel, ok))
          /\ Says(OnLink("RFCOMM_SERVER_CONNECT_CFM", s, conn[s].channel, ok),
                  "RFCOMM_SERVER_CONNECT_CFM", s, conn[s].channel, ok)
      BY <1>1, <1>2, <2>1, Kinds
    <2> QED
      BY <2>1, <2>2, Zenon
  <1>5. ASSUME PhoneDisconnects(s)
        PROVE  \E x : Added(x) /\ Says(x, "RFCOMM_DISCONNECT_IND", s, NULL, TRUE)
    <2>1. Tell(OnLink("RFCOMM_DISCONNECT_IND", s, NULL, TRUE))
      BY <1>5 DEF PhoneDisconnects
    <2> QED
      BY <1>1, <1>2, <2>1, Kinds
  <1>6. ASSUME StackDisconnects(s)
        PROVE  \E x : Added(x) /\ Says(x, "RFCOMM_DISCONNECT_CFM", s, NULL, TRUE)
    <2>1. Tell(OnLink("RFCOMM_DISCONNECT_CFM", s, NULL, TRUE))
      BY <1>6 DEF StackDisconnects
    <2> QED
      BY <1>1, <1>2, <2>1, Kinds
  <1> QED
    BY <1>3, <1>4, <1>5, <1>6


-----------------------------------------------------------------------------
(* What becomes of a kind of message                                       *)

LEMMA KindTaken ==
    ASSUME NEW ms, Took(ms), NEW A
    PROVE  /\ Has(queue', A) <=> Has(Tail(queue), A) \/ Has(ms, A)
           /\ All(queue', A) <=> All(Tail(queue), A) /\ All(ms, A)
           /\ Has(queue, A) <=> Head(queue) \in A \/ Has(Tail(queue), A)
           /\ All(queue, A) <=> Head(queue) \in A /\ All(Tail(queue), A)
           /\ AtMostOne(queue, A) =>
                 AtMostOne(Tail(queue), A) /\ (Head(queue) \in A => ~Has(Tail(queue), A))
  BY TailHas, JoinHas DEF Took

\* Nothing is sent.
LEMMA NoneKind ==
    ASSUME NEW id, TookNone(id), NEW A
    PROVE  /\ Has(queue', A) <=> Has(Tail(queue), A)
           /\ Has(queue, A) <=> Head(queue) \in A \/ Has(Tail(queue), A)
           /\ All(queue, A) => All(queue', A) /\ Head(queue) \in A
           /\ AtMostOne(queue, A) =>
                 AtMostOne(queue', A) /\ (Head(queue) \in A => ~Has(queue', A))
  <1>1. Took(<<>>) /\ Head(queue) \in Message
    BY DEF TookNone
  <1>2. ~Has(<<>>, A) /\ All(<<>>, A) /\ AtMostOne(<<>>, A)
    BY <1>1, Short
  <1>3. AtMostOne(Tail(queue), A) => AtMostOne(queue', A)
    BY <1>1, <1>2, JoinOne DEF Took
  <1> QED
    BY <1>1, <1>2, <1>3, KindTaken

\* The message x is sent.
LEMMA OneKind ==
    ASSUME NEW id, NEW x, TookOne(id, x), NEW A
    PROVE  /\ Has(queue', A) <=> x \in A \/ Has(Tail(queue), A)
           /\ Has(queue, A) <=> Head(queue) \in A \/ Has(Tail(queue), A)
           /\ All(queue, A) => Head(queue) \in A /\ (x \in A => All(queue', A))
           /\ AtMostOne(queue, A) /\ Head(queue) \in A => ~Has(Tail(queue), A)
           /\ AtMostOne(queue, A) /\ (x \in A => Head(queue) \in A \/ ~Has(queue, A))
                 => AtMostOne(queue', A)
  <1>1. Took(<<x>>) /\ x \in Message
    BY DEF TookOne
  <1>2. (Has(<<x>>, A) <=> x \in A) /\ (All(<<x>>, A) <=> x \in A) /\ AtMostOne(<<x>>, A)
    BY <1>1, Short
  <1>3. ASSUME AtMostOne(queue, A), x \in A => Head(queue) \in A \/ ~Has(queue, A)
        PROVE  AtMostOne(queue', A)
    <2>1. AtMostOne(Tail(queue), A) /\ ~(Has(Tail(queue), A) /\ Has(<<x>>, A))
      BY <1>1, <1>2, <1>3, KindTaken
    <2> QED
      BY <1>1, <1>2, <2>1, JoinOne DEF Took
  <1> QED
    BY <1>1, <1>2, <1>3, KindTaken

\* The messages x and y are sent.
LEMMA TwoKind ==
    ASSUME NEW id, NEW x, NEW y, TookTwo(id, x, y), NEW A
    PROVE  /\ Has(queue', A) <=> x \in A \/ y \in A \/ Has(Tail(queue), A)
           /\ Has(queue, A) <=> Head(queue) \in A \/ Has(Tail(queue), A)
           /\ All(queue, A) => Head(queue) \in A /\ (x \in A /\ y \in A => All(queue', A))
           /\ AtMostOne(queue, A) /\ Head(queue) \in A => ~Has(Tail(queue), A)
           /\ /\ AtMostOne(queue, A) /\ ~(x \in A /\ y \in A)
              /\ x \in A \/ y \in A => Head(queue) \in A \/ ~Has(queue, A)
              => AtMostOne(queue', A)
  <1>1. Took(<<x>> \o <<y>>) /\ x \in Message /\ y \in Message
    BY DEF TookTwo
  <1> DEFINE s == <<x>> \o <<y>>
  <1>2. /\ Has(<<x>>, A) <=> x \in A
        /\ All(<<x>>, A) <=> x \in A
        /\ AtMostOne(<<x>>, A)
        /\ Has(<<y>>, A) <=> y \in A
        /\ All(<<y>>, A) <=> y \in A
        /\ AtMostOne(<<y>>, A)
        /\ <<x>> \in Seq(Message) /\ <<y>> \in Seq(Message)
    BY <1>1, Short
  <1>3. Join(s, <<x>>, <<y>>)
    BY <1>2, Joined
  <1> HIDE DEF s
  <1>4. /\ Has(s, A) <=> x \in A \/ y \in A
        /\ All(s, A) <=> x \in A /\ y \in A
    BY <1>2, <1>3, JoinHas
  <1>5. ~(x \in A /\ y \in A) => AtMostOne(s, A)
    BY <1>2, <1>3, JoinOne
  <1>6. Took(s)
    BY <1>1 DEF s
  <1>7. ASSUME AtMostOne(queue, A), ~(x \in A /\ y \in A),
               x \in A \/ y \in A => Head(queue) \in A \/ ~Has(queue, A)
        PROVE  AtMostOne(queue', A)
    <2>1. AtMostOne(Tail(queue), A) /\ ~(Has(Tail(queue), A) /\ Has(s, A))
      BY <1>6, <1>4, <1>7, KindTaken
    <2> QED
      BY <1>6, <1>5, <1>7, <2>1, JoinOne DEF Took
  <1> QED
    BY <1>4, <1>6, <1>7, KindTaken

\* The message x comes.
LEMMA AddedKind ==
    ASSUME NEW x, Added(x), NEW A
    PROVE  /\ Has(queue', A) <=> x \in A \/ Has(queue, A)
           /\ All(queue, A) /\ x \in A => All(queue', A)
           /\ AtMostOne(queue, A) /\ (x \in A => ~Has(queue, A)) => AtMostOne(queue', A)
  <1>1. (Has(<<x>>, A) <=> x \in A) /\ (All(<<x>>, A) <=> x \in A) /\ AtMostOne(<<x>>, A)
    BY Short DEF Added
  <1>2. AtMostOne(queue, A) /\ ~(Has(queue, A) /\ Has(<<x>>, A)) => AtMostOne(queue', A)
    BY <1>1, JoinOne DEF Added
  <1> QED
    BY <1>1, <1>2, JoinHas DEF Added

\* The request r goes to BlueStack.
LEMMA PendingKind ==
    ASSUME pending \in Seq(Message), NEW r \in Message, pending' = Append(pending, r), NEW A
    PROVE  /\ pending' \in Seq(Message)
           /\ Has(pending', A) <=> r \in A \/ Has(pending, A)
           /\ All(pending, A) /\ r \in A => All(pending', A)
           /\ AtMostOne(pending, A) /\ (r \in A => ~Has(pending, A)) => AtMostOne(pending', A)
  <1>1. pending' = pending \o <<r>> /\ <<r>> \in Seq(Message)
    BY AppendIsConcat
  <1>2. Join(pending \o <<r>>, pending, <<r>>) /\ pending \o <<r>> \in Seq(Message)
    BY <1>1, Joined
  <1>3. (Has(<<r>>, A) <=> r \in A) /\ (All(<<r>>, A) <=> r \in A) /\ AtMostOne(<<r>>, A)
    BY Short
  <1>4. AtMostOne(pending, A) /\ ~(Has(pending, A) /\ Has(<<r>>, A)) => AtMostOne(pending', A)
    BY <1>1, <1>2, <1>3, JoinOne
  <1> QED
    BY <1>1, <1>2, <1>3, <1>4, JoinHas

-----------------------------------------------------------------------------
(* Every action keeps the types                                            *)

LEMMA InitType == Init => TypeInv
  <1> SUFFICES ASSUME Init PROVE TypeInv
    OBVIOUS
  <1>1. DataType
    BY DEF Init, DataType, SlotType, ConnType, NoTransport, NoConn, StreamState
  <1>2. CountType
    BY DEF Init, CountType
  <1>3. queue \in Seq(Message) /\ pending \in Seq(Message)
    BY BlankSent DEF Init
  <1> QED
    BY <1>1, <1>2, <1>3 DEF TypeInv

\* The handlers that take the first message.
TookSome ==
    \E id : TookNone(id) \/ (\E x : TookOne(id, x)) \/ (\E x, y : TookTwo(id, x, y))

LEMMA HandlerTakes ==
    ASSUME TypeInv, Handler
    PROVE  TookSome
  <1>1. CASE HandleRegisterCfm
    BY <1>1, RegisterCfmEffect, Zenon DEF TookSome
  <1>2. CASE HandleSdpUnregisterCfm
    BY <1>2, SdpUnregisterCfmEffect, Zenon DEF TookSome
  <1>3. CASE HandleConnectInd
    BY <1>3, ConnectIndEffect, Zenon DEF TookSome
  <1>4. CASE HandleServerConnectCfm
    BY <1>4, ServerConnectCfmEffect, Zenon DEF TookSome
  <1>5. CASE HandleDisconnectInd
    BY <1>5, DisconnectIndEffect, Zenon DEF TookSome
  <1>6. CASE HandleUnregisterCfm
    BY <1>6, UnregisterCfmEffect, Zenon DEF TookSome
  <1>7. CASE DisconnectReq
    BY <1>7, DisconnectReqEffect, Zenon DEF TookSome
  <1>8. CASE \/ HandleSdpRegisterCfm \/ HandleDisconnectCfm \/ HandleWechatConnectInd
             \/ HandleWechatDisconnectInd \/ ConnectRes \/ DisconnectRsp \/ ForwardRequest
    BY <1>8, SilentEffect, Zenon DEF TookSome
  <1> QED
    BY <1>1, <1>2, <1>3, <1>4, <1>5, <1>6, <1>7, <1>8, Zenon DEF Handler, TransportHandler

LEMMA TookSomeQueue ==
    ASSUME TookSome
    PROVE  queue' \in Seq(Message)
  BY Zenon DEF TookSome, TookNone, TookOne, TookTwo, Took

\* What is written to a slot.
LEMMA DropEffect ==
    ASSUME DataType, NEW t \in Slot, DropState(t)
    PROVE  /\ transport' \in [Slot -> SlotType] /\ ~Taken(t)'
           /\ \A u \in Slot : u # t => transport'[u] = transport[u]
  BY DEF DataType, SlotType, DropState, Taken

LEMMA AcceptsWrites ==
    ASSUME DataType, NEW t \in Slot, NEW s \in Sink \cup {NULL},
           NEW c \in Channel \cup {NULL}, Accepts(t, s, c)
    PROVE  /\ transport' \in [Slot -> SlotType] /\ Taken(t)'
           /\ transport'[t].sink = s /\ transport'[t].rfcomm_channel = c
           /\ \A u \in Slot : u # t => transport'[u] = transport[u]
  <1> DEFINE r == [transport[t] EXCEPT !.type = "rfcomm", !.sink = s, !.rfcomm_channel = c]
  <1>1. transport \in [Slot -> SlotType]
    BY DEF DataType
  <1>2. r \in SlotType /\ r.type = "rfcomm" /\ r.sink = s /\ r.rfcomm_channel = c
    BY <1>1 DEF SlotType
  <1>3. transport' = [transport EXCEPT ![t] = r]
    BY DEF Accepts
  <1> HIDE DEF r
  <1> QED
    BY <1>1, <1>2, <1>3 DEF Taken

\* The slot t is connected to the stream s.
Connects(t, s) ==
    transport' = [transport EXCEPT ![t] = [@ EXCEPT !.sink = s, !.connected = TRUE]]

LEMMA ConnectsWrites ==
    ASSUME DataType, NEW t \in Slot, NEW s \in Sink \cup {NULL}, Connects(t, s)
    PROVE  /\ transport' \in [Slot -> SlotType] /\ Taken(t)' = Taken(t)
           /\ transport'[t].sink = s
           /\ transport'[t].rfcomm_channel = transport[t].rfcomm_channel
           /\ \A u \in Slot : u # t => transport'[u] = transport[u]
  <1> DEFINE r == [transport[t] EXCEPT !.sink = s, !.connected = TRUE]
  <1>1. transport \in [Slot -> SlotType]
    BY DEF DataType
  <1>2. /\ r \in SlotType /\ r.type = transport[t].type /\ r.sink = s
        /\ r.rfcomm_channel = transport[t].rfcomm_channel
    BY <1>1 DEF SlotType
  <1>3. transport' = [transport EXCEPT ![t] = r]
    BY DEF Connects
  <1> HIDE DEF r
  <1> QED
    BY <1>1, <1>2, <1>3 DEF Taken

LEMMA HandlerType ==
    ASSUME TypeInv, Handler
    PROVE  TypeInv'
  <1>0. DataType /\ CountType /\ queue \in Seq(Message) /\ pending \in Seq(Message)
    BY DEF TypeInv
  <1>1. queue' \in Seq(Message)
    BY HandlerTakes, TookSomeQueue
  <1>2. CountType'
    <2>1. UNCHANGED historyVars
      BY DEF Handler, TransportHandler, HandleRegisterCfm, HandleSdpUnregisterCfm, HandleConnectInd,
         HandleServerConnectCfm, HandleDisconnectInd, HandleUnregisterCfm, DisconnectReq,
         HandleSdpRegisterCfm, HandleDisconnectCfm, HandleWechatConnectInd,
         HandleWechatDisconnectInd, ConnectRes, DisconnectRsp, ForwardRequest
    <2>2. session' \in BOOLEAN
      BY <1>0 DEF CountType, appVars, Handler, TransportHandler, HandleRegisterCfm,
         HandleSdpUnregisterCfm, HandleConnectInd,
         HandleServerConnectCfm, HandleDisconnectInd, HandleUnregisterCfm, DisconnectReq,
         HandleSdpRegisterCfm, HandleDisconnectCfm, HandleWechatConnectInd,
         HandleWechatDisconnectInd, ConnectRes, DisconnectRsp, ForwardRequest
    <2> QED
      BY <1>0, <2>1, <2>2 DEF CountType, historyVars
  <1>3. CASE UNCHANGED <<transport, spp_sdp_handle, wechat_transport, conn, pending>>
    BY <1>0, <1>1, <1>2, <1>3 DEF TypeInv, DataType
  <1>4. CASE HandleRegisterCfm \/ HandleSdpUnregisterCfm \/ HandleDisconnectInd \/ HandleUnregisterCfm
    BY <1>3, <1>4 DEF HandleRegisterCfm, HandleSdpUnregisterCfm, HandleDisconnectInd,
       HandleUnregisterCfm, libVars, appVars, stackVars
  <1>5. CASE HandleConnectInd
    <2>1. PICK ok \in BOOLEAN :
                 /\ ~ok => transport' = transport
                 /\ ok => \E t \in Slot : Accepts(t, Head(queue).sink, Head(queue).channel)
      BY <1>5, ConnectIndEffect, Zenon
    <2>2. Head(queue).sink \in Sink \cup {NULL} /\ Head(queue).channel \in Channel \cup {NULL}
      BY <1>0, <1>5, FirstMessage DEF HandleConnectInd, HandleAndSend
    <2>3. \A t \in Slot : Accepts(t, Head(queue).sink, Head(queue).channel) =>
             transport' \in [Slot -> SlotType]
      BY <1>0, <2>2, AcceptsWrites
    <2> QED
      BY <1>0, <1>1, <1>2, <1>5, <2>1, <2>3
      DEF TypeInv, DataType, HandleConnectInd, appVars, stackVars
  <1>6. CASE HandleServerConnectCfm
    <2> DEFINE t == FirstOf(FromRfcommChannel(Head(queue).channel))
    <2>1. \/ transport' = transport
          \/ t # NULL /\ Connects(t, Head(queue).sink)
      BY <1>6 DEF HandleServerConnectCfm, libVars, Connects
    <2>2. Head(queue).sink \in Sink \cup {NULL} /\ t \in Slot \cup {NULL}
      BY <1>0, <1>6, FirstMessage, Searches DEF HandleServerConnectCfm, HandleAndSend
    <2>3. UNCHANGED <<spp_sdp_handle, wechat_transport, conn, pending>>
      BY <1>6 DEF HandleServerConnectCfm, libVars, appVars, stackVars
    <2> HIDE DEF t
    <2>4. transport' \in [Slot -> SlotType]
      BY <1>0, <2>1, <2>2, ConnectsWrites DEF DataType
    <2> QED
      BY <1>0, <1>1, <1>2, <2>3, <2>4 DEF TypeInv, DataType
  <1>7. CASE HandleDisconnectCfm
    <2> DEFINE t == FirstOf(FromSink(Head(queue).sink))
    <2>1. IF t = NULL THEN UNCHANGED transport ELSE DropState(t)
      BY <1>7 DEF HandleDisconnectCfm
    <2>2. t \in Slot \cup {NULL}
      BY Searches
    <2> HIDE DEF t
    <2> QED
      BY <1>0, <1>1, <1>2, <1>7, <2>1, <2>2, DropEffect
      DEF TypeInv, DataType, HandleDisconnectCfm, appVars, stackVars
  <1>8. CASE HandleWechatDisconnectInd
    <2> DEFINE t == Head(queue).slot
    <2>1. IF t = NULL THEN UNCHANGED transport ELSE DropState(t)
      BY <1>8 DEF HandleWechatDisconnectInd
    <2>2. t \in Slot \cup {NULL}
      BY <1>0, <1>8, FirstMessage DEF HandleWechatDisconnectInd, HandleAndSend
    <2> HIDE DEF t
    <2> QED
      BY <1>0, <1>1, <1>2, <1>8, <2>1, <2>2, DropEffect
      DEF TypeInv, DataType, HandleWechatDisconnectInd, stackVars
  <1>9. CASE HandleSdpRegisterCfm
    <2>1. Head(queue).channel \in Channel \cup {NULL}
      BY <1>0, <1>9, FirstMessage DEF HandleSdpRegisterCfm, HandleAndSend
    <2> QED
      BY <1>0, <1>1, <1>2, <1>9, <2>1
      DEF TypeInv, DataType, HandleSdpRegisterCfm, appVars, stackVars
  <1>10. CASE HandleWechatConnectInd
    <2>1. Head(queue).slot \in Slot \cup {NULL}
      BY <1>0, <1>10, FirstMessage DEF HandleWechatConnectInd, HandleAndSend
    <2> QED
      BY <1>0, <1>1, <1>2, <1>10, <2>1
      DEF TypeInv, DataType, HandleWechatConnectInd, libVars, stackVars
  <1>11. CASE ForwardRequest
    <2>1. Head(queue) \in Message
      BY <1>0, <1>11, FirstMessage DEF ForwardRequest, HandleAndSend
    <2> QED
      BY <1>0, <1>1, <1>2, <1>11, <2>1, PendingKind
      DEF TypeInv, DataType, ForwardRequest, libVars, appVars
  <1>12. CASE ConnectRes
    <2>1. Head(queue).sink \in Sink
      BY <1>12, SilentEffect
    <2>2. conn' = [conn EXCEPT ![Head(queue).sink].state =
                       IF Head(queue).ok THEN "accepted" ELSE "declined"]
      BY <1>12 DEF ConnectRes
    <2>3. conn' \in [Sink -> ConnType]
      BY <1>0, <2>1, <2>2 DEF DataType, ConnType, StreamState
    <2> QED
      BY <1>0, <1>1, <1>2, <1>12, <2>3 DEF TypeInv, DataType, ConnectRes, libVars, appVars
  <1>13. CASE DisconnectReq
    <2> DEFINE s == Head(queue).sink
    <2>1. \/ conn' = conn
          \/ s \in Streams /\ conn' = [conn EXCEPT ![s].state = "leaving"]
      BY <1>13, DisconnectReqEffect
    <2>2. s \in Streams => s \in Sink
      BY DEF Streams
    <2>3. conn' \in [Sink -> ConnType]
      BY <1>0, <2>1, <2>2 DEF DataType, ConnType, StreamState
    <2>4. UNCHANGED <<libVars, appVars, pending>>
      BY <1>13, DisconnectReqEffect
    <2> QED
      BY <1>0, <1>1, <1>2, <2>3, <2>4 DEF TypeInv, DataType, libVars, appVars
  <1>14. CASE DisconnectRsp
    <2> DEFINE s == Head(queue).sink
    <2>1. s \in Sink
      BY <1>14, SilentEffect
    <2>2. \/ conn' = conn \/ conn' = [conn EXCEPT ![s] = NoConn]
      BY <1>14 DEF DisconnectRsp
    <2>3. conn' \in [Sink -> ConnType]
      BY <1>0, <2>1, <2>2 DEF DataType, ConnType, StreamState, NoConn
    <2> QED
      BY <1>0, <1>1, <1>2, <1>14, <2>3 DEF TypeInv, DataType, DisconnectRsp, libVars, appVars
  <1> QED
    BY <1>4, <1>5, <1>6, <1>7, <1>8, <1>9, <1>10, <1>11, <1>12, <1>13, <1>14, Zenon
    DEF Handler, TransportHandler

\* What phones and BlueStack tell of a stream: a message comes, and the rest of the
\* stream's state is as it was.
StreamStep(s) == Link(s) \/ PhoneDisconnects(s) \/ \E c \in Channel : PhoneConnects(s, c)

LEMMA StreamFrame ==
    ASSUME NEW s, StreamStep(s)
    PROVE  UNCHANGED <<libVars, appVars, pending, registered, records, closed, failed>>
  BY DEF StreamStep, Link, StackConfirms, StackDisconnects, PhoneDisconnects, PhoneConnects, Tell,
     historyVars

LEMMA StreamTells ==
    ASSUME TypeInv, NEW s \in Sink, StreamStep(s)
    PROVE  \E x :
              /\ Added(x)
              /\ \/ \E c : Says(x, "RFCOMM_CONNECT_IND", s, c, TRUE)
                 \/ \E c, ok : Says(x, "RFCOMM_SERVER_CONNECT_CFM", s, c, ok)
                 \/ Says(x, "RFCOMM_DISCONNECT_IND", s, NULL, TRUE)
                 \/ Says(x, "RFCOMM_DISCONNECT_CFM", s, NULL, TRUE)
  <1>1. CASE \E c \in Channel : PhoneConnects(s, c)
    BY <1>1, StreamEffect, Zenon
  <1>2. CASE StackConfirms(s)
    BY <1>2, StreamEffect, Zenon
  <1>3. CASE PhoneDisconnects(s)
    BY <1>3, StreamEffect, Zenon
  <1>4. CASE StackDisconnects(s)
    BY <1>4, StreamEffect, Zenon
  <1> QED
    BY <1>1, <1>2, <1>3, <1>4 DEF StreamStep, Link

LEMMA StreamType ==
    ASSUME TypeInv, NEW s \in Sink, StreamStep(s)
    PROVE  TypeInv'
  <1>0. DataType /\ CountType /\ queue \in Seq(Message) /\ pending \in Seq(Message)
    BY DEF TypeInv
  <1>1. \E x : Added(x)
    BY StreamTells, Zenon
  <1>2. queue' \in Seq(Message)
    BY <1>1 DEF Added
  <1>3. conn' \in [Sink -> ConnType]
    <2>1. \/ \E st \in StreamState : conn' = [conn EXCEPT ![s].state = st]
          \/ \E r \in ConnType : conn' = [conn EXCEPT ![s] = r]
      <3>1. /\ {"up", "closing"} \subseteq StreamState /\ NoConn \in ConnType
            /\ \A c \in Channel : [state |-> "asked", channel |-> c] \in ConnType
        BY DEF ConnType, StreamState, NoConn
      <3> QED
        BY <3>1, Zenon DEF StreamStep, Link, StackConfirms, StackDisconnects,
           PhoneDisconnects, PhoneConnects
    <2> QED
      BY <1>0, <2>1 DEF DataType, ConnType
  <1>4. refused' \in BOOLEAN
    BY <1>0 DEF CountType, StreamStep, Link, StackConfirms, StackDisconnects,
       PhoneDisconnects, PhoneConnects, historyVars
  <1> QED
    BY <1>0, <1>2, <1>3, <1>4, StreamFrame DEF TypeInv, DataType, CountType, libVars, appVars

LEMMA NextType ==
    ASSUME TypeInv, [Next]_vars
    PROVE  TypeInv'
  <1>0. DataType /\ CountType /\ queue \in Seq(Message) /\ pending \in Seq(Message)
    BY DEF TypeInv
  <1>1. CASE UNCHANGED <<libVars, appVars, queue, stackVars, historyVars>>
    BY <1>0, <1>1 DEF TypeInv, DataType, CountType, libVars, appVars, stackVars, historyVars
  <1>2. CASE Handler
    BY <1>2, HandlerType
  <1>3. CASE WechatDisconnect
    <2>1. \E x : Added(x)
      BY <1>3, WechatDisconnectEffect, Zenon
    <2>2. queue' \in Seq(Message) /\ closed' \in Nat
      BY <1>0, <1>3, <2>1, WechatDisconnectEffect DEF Added, CountType
    <2> QED
      BY <1>0, <1>3, <2>2, WechatDisconnectEffect
      DEF TypeInv, DataType, CountType, libVars, appVars, stackVars
  <1>4. CASE StackAnswers
    <2>1. PICK i \in 1..Len(pending) : pending' = RemoveAt(pending, i) /\ \E x : Added(x)
      BY <1>4, StackAnswersEffect, Zenon
    <2>2. queue' \in Seq(Message) /\ pending' \in Seq(Message)
      BY <1>0, <2>1, Removed DEF Added
    <2>3. failed' \in Nat
      BY <1>0, <1>4, StackAnswersEffect DEF CountType
    <2> QED
      BY <1>0, <1>4, <2>2, <2>3, StackAnswersEffect
      DEF TypeInv, DataType, CountType, libVars, appVars
  <1>5. CASE \E s \in Sink : StreamStep(s)
    BY <1>5, StreamType
  <1>6. CASE StrayAccess
    BY <1>1, <1>6 DEF StrayAccess
  <1>7. CASE Reboot
    <2>1. DataType'
      BY <1>7 DEF Reboot, DataType, SlotType, ConnType, NoTransport, NoConn, StreamState
    <2>2. CountType'
      BY <1>7 DEF Reboot, CountType
    <2>3. queue' \in Seq(Message) /\ pending' \in Seq(Message)
      BY <1>7, BlankSent DEF Reboot
    <2> QED
      BY <2>1, <2>2, <2>3 DEF TypeInv
  <1> QED
    BY <1>1, <1>2, <1>3, <1>4, <1>5, <1>6, <1>7 DEF Next, vars, StreamStep

-----------------------------------------------------------------------------
(* One record                                                              *)

\* The messages that a record comes of: there is one at most, and none beside a record.
Token(m) ==
    \/ m.id \in {"RFCOMM_REGISTER_REQ", "SDP_REGISTER_REQ"}
    \/ m.ok /\ m.id \in {"RFCOMM_REGISTER_CFM", "SDP_UNREGISTER_CFM"}

Tokens == {m \in Message : Token(m)}

OneToken ==
    /\ AtMostOne(queue, Tokens) /\ AtMostOne(pending, Tokens)
    /\ ~(Has(queue, Tokens) /\ Has(pending, Tokens))
    /\ records # {} => ~Has(queue, Tokens) /\ ~Has(pending, Tokens)
    /\ OneRecord

LEMMA InitToken ==
    ASSUME queue = <<Blank>>, pending = <<>>, records = {}
    PROVE  OneToken
  BY BlankSent, Short DEF OneToken, OneRecord

\* No action but BlueStack's answers lets a record come or go, and none but these
\* and the forwarding of requests moves a token.
LEMMA TokenStays ==
    ASSUME OneToken, UNCHANGED <<pending, records>>,
           AtMostOne(queue', Tokens), Has(queue', Tokens) => Has(queue, Tokens)
    PROVE  OneToken'
  BY DEF OneToken, OneRecord

LEMMA NoneToken ==
    ASSUME OneToken, UNCHANGED <<pending, records>>, NEW id, TookNone(id)
    PROVE  OneToken'
  BY NoneKind, TokenStays DEF OneToken

LEMMA OneMoreToken ==
    ASSUME OneToken, UNCHANGED <<pending, records>>, NEW id, NEW x, TookOne(id, x),
           Token(x) => Token(Head(queue))
    PROVE  OneToken'
  <1>1. x \in Tokens => Head(queue) \in Tokens
    BY DEF Tokens, TookOne
  <1> QED
    BY <1>1, OneKind, TokenStays DEF OneToken

LEMMA TwoMoreToken ==
    ASSUME OneToken, UNCHANGED <<pending, records>>, NEW id, NEW x, NEW y, TookTwo(id, x, y),
           ~Token(x), ~Token(y)
    PROVE  OneToken'
  <1>1. x \notin Tokens /\ y \notin Tokens
    BY DEF Tokens
  <1> QED
    BY <1>1, TwoKind, TokenStays DEF OneToken

LEMMA AddedToken ==
    ASSUME OneToken, UNCHANGED <<pending, records>>, NEW x, Added(x), ~Token(x)
    PROVE  OneToken'
  <1>1. x \notin Tokens
    BY DEF Tokens
  <1> QED
    BY <1>1, AddedKind, TokenStays DEF OneToken

LEMMA HandlerToken ==
    ASSUME TypeInv, OneToken, Handler
    PROVE  OneToken'
  <1>1. CASE HandleRegisterCfm
    <2>1. UNCHANGED <<pending, records>>
      BY <1>1, RegisterCfmEffect DEF stackVars
    <2>2. CASE TookNone("RFCOMM_REGISTER_CFM")
      BY <2>1, <2>2, NoneToken
    <2>3. CASE /\ Head(queue).ok
               /\ \E x : TookOne("RFCOMM_REGISTER_CFM", x)
      BY <2>1, <2>3, OneMoreToken DEF TookOne, Token
    <2> QED
      BY <1>1, <2>2, <2>3, RegisterCfmEffect
  <1>2. CASE HandleSdpUnregisterCfm
    <2>1. UNCHANGED <<pending, records>>
      BY <1>2, SdpUnregisterCfmEffect DEF stackVars
    <2>2. CASE TookNone("SDP_UNREGISTER_CFM")
      BY <2>1, <2>2, NoneToken
    <2>3. CASE Head(queue).ok /\ TookOne("SDP_UNREGISTER_CFM", Blank)
      BY <2>1, <2>3, OneMoreToken DEF TookOne, Token
    <2> QED
      BY <1>2, <2>2, <2>3, SdpUnregisterCfmEffect
  <1>3. CASE HandleConnectInd
    <2>1. UNCHANGED <<pending, records>>
      BY <1>3, ConnectIndEffect DEF stackVars
    <2>2. PICK x : TookOne("RFCOMM_CONNECT_IND", x) /\ x.id = "RFCOMM_CONNECT_RES"
      BY <1>3, ConnectIndEffect DEF Says
    <2> QED
      BY <2>1, <2>2, OneMoreToken DEF Token
  <1>4. CASE HandleServerConnectCfm
    <2>1. UNCHANGED <<pending, records>>
      BY <1>4, ServerConnectCfmEffect DEF stackVars
    <2>2. CASE TookNone("RFCOMM_SERVER_CONNECT_CFM")
      BY <2>1, <2>2, NoneToken
    <2>3. CASE \E x, y : /\ TookTwo("RFCOMM_SERVER_CONNECT_CFM", x, y)
                         /\ x.id = "SDP_UNREGISTER_REQ" /\ y.id = "WECHAT_CONNECT_IND"
      BY <2>1, <2>3, TwoMoreToken DEF Token
    <2> QED
      BY <1>4, <2>2, <2>3, ServerConnectCfmEffect DEF Says
  <1>5. CASE HandleDisconnectInd
    <2>1. UNCHANGED <<pending, records>>
      BY <1>5, DisconnectIndEffect DEF stackVars
    <2>2. CASE \E x : TookOne("RFCOMM_DISCONNECT_IND", x) /\ x.id = "RFCOMM_DISCONNECT_RSP"
      BY <2>1, <2>2, OneMoreToken DEF Token
    <2>3. CASE \E x, y : /\ TookTwo("RFCOMM_DISCONNECT_IND", x, y)
                         /\ x.id = "RFCOMM_DISCONNECT_RSP" /\ y.id = "RFCOMM_UNREGISTER_REQ"
      BY <2>1, <2>3, TwoMoreToken DEF Token
    <2> QED
      BY <1>5, <2>2, <2>3, DisconnectIndEffect DEF Says
  <1>6. CASE HandleUnregisterCfm
    <2>1. UNCHANGED <<pending, records>>
      BY <1>6, UnregisterCfmEffect DEF stackVars
    <2>2. CASE TookNone("RFCOMM_UNREGISTER_CFM")
      BY <2>1, <2>2, NoneToken
    <2>3. CASE \E x : TookOne("RFCOMM_UNREGISTER_CFM", x) /\ x.id = "WECHAT_DISCONNECT_IND"
      BY <2>1, <2>3, OneMoreToken DEF Token
    <2> QED
      BY <1>6, <2>2, <2>3, UnregisterCfmEffect
  <1>7. CASE DisconnectReq
    <2>1. UNCHANGED <<pending, records>>
      BY <1>7, DisconnectReqEffect
    <2>2. CASE TookNone("RFCOMM_DISCONNECT_REQ")
      BY <2>1, <2>2, NoneToken
    <2>3. CASE \E x : TookOne("RFCOMM_DISCONNECT_REQ", x) /\ x.id = "RFCOMM_DISCONNECT_CFM"
      BY <2>1, <2>3, OneMoreToken DEF Token
    <2> QED
      BY <1>7, <2>2, <2>3, DisconnectReqEffect DEF Says
  <1>8. CASE \/ HandleSdpRegisterCfm \/ HandleDisconnectCfm \/ HandleWechatConnectInd
             \/ HandleWechatDisconnectInd \/ ConnectRes \/ DisconnectRsp
    <2>1. UNCHANGED <<pending, records>>
      BY <1>8 DEF HandleSdpRegisterCfm, HandleDisconnectCfm, HandleWechatConnectInd,
         HandleWechatDisconnectInd, ConnectRes, DisconnectRsp, stackVars
    <2>2. \E id : TookNone(id)
      BY <1>8, SilentEffect, Zenon
    <2> QED
      BY <2>1, <2>2, NoneToken
  <1>9. CASE ForwardRequest
    <2>1. PICK id : TookNone(id)
      BY <1>9, SilentEffect, Zenon
    <2> DEFINE r == Head(queue)
    <2>2. pending \in Seq(Message) /\ r \in Message /\ pending' = Append(pending, r)
          /\ records' = records
      BY <1>9, <2>1 DEF TypeInv, ForwardRequest, TookNone
    <2> HIDE DEF r
    <2>3. /\ Has(pending', Tokens) <=> r \in Tokens \/ Has(pending, Tokens)
          /\ AtMostOne(pending, Tokens) /\ (r \in Tokens => ~Has(pending, Tokens))
                => AtMostOne(pending', Tokens)
      BY <2>2, PendingKind
    <2>4. /\ AtMostOne(queue', Tokens) /\ (r \in Tokens => ~Has(queue', Tokens))
          /\ Has(queue, Tokens) <=> r \in Tokens \/ Has(queue', Tokens)
      BY <2>1, NoneKind DEF OneToken, r
    <2> QED
      BY <2>2, <2>3, <2>4 DEF OneToken, OneRecord
  <1> QED
    BY <1>1, <1>2, <1>3, <1>4, <1>5, <1>6, <1>7, <1>8, <1>9, Zenon DEF Handler, TransportHandler

\* The four answers.
LEMMA AnswerKinds ==
    ASSUME NEW r, NEW ok \in BOOLEAN, NEW x, Answers(r, ok, x)
    PROVE  \/ /\ r.id = "RFCOMM_REGISTER_REQ" /\ x.id = "RFCOMM_REGISTER_CFM"
              /\ records' = records
           \/ /\ r.id = "RFCOMM_UNREGISTER_REQ" /\ x.id = "RFCOMM_UNREGISTER_CFM"
              /\ records' = records
           \/ /\ r.id = "SDP_REGISTER_REQ" /\ x.id = "SDP_REGISTER_CFM"
              /\ records' = IF ok THEN records \cup {r.channel} ELSE records
           \/ /\ r.id = "SDP_UNREGISTER_REQ" /\ x.id = "SDP_UNREGISTER_CFM" /\ x.ok = ok
              /\ ok => r.channel \in records
              /\ records' = IF ok THEN records \ {r.channel} ELSE records
  <1>1. CASE r.id = "RFCOMM_REGISTER_REQ"
    <2>1. records' = records /\ x.id = "RFCOMM_REGISTER_CFM"
      BY <1>1, SaysKind DEF Answers
    <2> QED
      BY <1>1, <2>1
  <1>2. CASE r.id = "RFCOMM_UNREGISTER_REQ"
    <2>1. records' = records /\ x.id = "RFCOMM_UNREGISTER_CFM"
      BY <1>2, SaysKind DEF Answers
    <2> QED
      BY <1>2, <2>1
  <1>3. CASE r.id = "SDP_REGISTER_REQ"
    <2>1. x.id = "SDP_REGISTER_CFM" /\ records' = IF ok THEN records \cup {r.channel} ELSE records
      BY <1>3, SaysKind DEF Answers
    <2> QED
      BY <1>3, <2>1
  <1>4. CASE r.id = "SDP_UNREGISTER_REQ"
    <2>1. /\ ok => r.channel \in records
          /\ Says(x, "SDP_UNREGISTER_CFM", NULL, r.channel, ok)
          /\ records' = IF ok THEN records \ {r.channel} ELSE records
      BY <1>4 DEF Answers
    <2>2. x.id = "SDP_UNREGISTER_CFM" /\ x.ok = ok
      BY <2>1, Zenon DEF Says
    <2> QED
      BY <1>4, <2>1, <2>2
  <1> QED
    BY <1>1, <1>2, <1>3, <1>4 DEF Answers

LEMMA AnswerToken ==
    ASSUME TypeInv, OneToken, StackAnswers
    PROVE  OneToken'
  <1>1. PICK i \in 1..Len(pending), ok \in BOOLEAN : \E x :
            /\ Added(x) /\ pending' = RemoveAt(pending, i)
            /\ pending[i] \in Message /\ Answers(pending[i], ok, x)
    BY StackAnswersEffect, Zenon
  <1>2. PICK x : /\ Added(x) /\ pending' = RemoveAt(pending, i)
                 /\ pending[i] \in Message /\ Answers(pending[i], ok, x)
    BY <1>1
  <1> DEFINE r == pending[i]
  <1>3. /\ Has(pending', Tokens) => Has(pending, Tokens)
        /\ AtMostOne(pending, Tokens) => AtMostOne(pending', Tokens)
        /\ AtMostOne(pending, Tokens) /\ r \in Tokens => ~Has(pending', Tokens)
        /\ r \in Tokens => Has(pending, Tokens)
    BY <1>2, Removed DEF TypeInv, Has
  <1>4. Answers(r, ok, x) /\ r \in Message /\ x \in Message
    BY <1>2 DEF Added
  <1> HIDE DEF r
  <1>5. /\ Has(queue', Tokens) <=> x \in Tokens \/ Has(queue, Tokens)
        /\ AtMostOne(queue, Tokens) /\ (x \in Tokens => ~Has(queue, Tokens))
              => AtMostOne(queue', Tokens)
    BY <1>2, AddedKind
  <1>6. CASE r.id = "SDP_UNREGISTER_REQ" /\ ok
    <2>1. r.channel \in records /\ records' = records \ {r.channel}
      BY <1>4, <1>6, AnswerKinds
    <2>2. records' = {} /\ ~Has(queue, Tokens) /\ ~Has(pending, Tokens)
      BY <2>1 DEF OneToken, OneRecord
    <2> QED
      BY <1>3, <1>5, <2>2 DEF OneToken, OneRecord
  <1>7. CASE r.id = "SDP_REGISTER_REQ" /\ ok
    <2>1. r \in Tokens /\ x \notin Tokens /\ records' = records \cup {r.channel}
      BY <1>4, <1>7, AnswerKinds DEF Tokens, Token
    <2>2. records = {} /\ ~Has(queue, Tokens)
      BY <1>3, <2>1 DEF OneToken
    <2> QED
      BY <1>3, <1>5, <2>1, <2>2 DEF OneToken, OneRecord
  <1>8. CASE ~(ok /\ r.id \in SdpRequest)
    <2>1. CASE r.id \in {"RFCOMM_REGISTER_REQ", "RFCOMM_UNREGISTER_REQ", "SDP_REGISTER_REQ"}
      <3>1. records' = records /\ (x \in Tokens => r \in Tokens)
        BY <1>4, <1>8, <2>1, AnswerKinds DEF SdpRequest, Tokens, Token
      <3> QED
        BY <1>3, <1>5, <3>1 DEF OneToken, OneRecord
    <2>2. CASE r.id = "SDP_UNREGISTER_REQ"
      <3>1. ~ok
        BY <1>8, <2>2 DEF SdpRequest
      <3>2. x.id = "SDP_UNREGISTER_CFM" /\ x.ok = ok /\ records' = records
        BY <1>4, <2>2, <3>1, AnswerKinds
      <3>3. ~x.ok
        BY <3>1, <3>2, Zenon
      <3>4. x \notin Tokens
        BY <3>2, <3>3 DEF Tokens, Token
      <3> QED
        BY <1>3, <1>5, <3>2, <3>4 DEF OneToken, OneRecord
    <2> QED
      BY <1>4, <2>1, <2>2, AnswerKinds
  <1> QED
    BY <1>6, <1>7, <1>8 DEF SdpRequest

LEMMA NextToken ==
    ASSUME TypeInv, OneToken, [Next]_vars
    PROVE  OneToken'
  <1>1. CASE UNCHANGED <<queue, stackVars>>
    BY <1>1 DEF OneToken, OneRecord, stackVars
  <1>2. CASE Handler
    BY <1>2, HandlerToken
  <1>3. CASE WechatDisconnect
    <2>1. UNCHANGED <<pending, records>>
      BY <1>3, WechatDisconnectEffect DEF stackVars
    <2>2. PICK x : Added(x) /\ x.id = "RFCOMM_DISCONNECT_REQ"
      BY <1>3, WechatDisconnectEffect DEF Says
    <2> QED
      BY <2>1, <2>2, AddedToken DEF Token
  <1>4. CASE StackAnswers
    BY <1>4, AnswerToken
  <1>5. ASSUME NEW s \in Sink, StreamStep(s)
        PROVE  OneToken'
    <2>1. UNCHANGED <<pending, records>>
      BY <1>5, StreamFrame
    <2>2. PICK x :
            /\ Added(x)
            /\ \/ \E c : Says(x, "RFCOMM_CONNECT_IND", s, c, TRUE)
               \/ \E c, ok : Says(x, "RFCOMM_SERVER_CONNECT_CFM", s, c, ok)
               \/ Says(x, "RFCOMM_DISCONNECT_IND", s, NULL, TRUE)
               \/ Says(x, "RFCOMM_DISCONNECT_CFM", s, NULL, TRUE)
      BY <1>5, StreamTells
    <2>3. x.id \in {"RFCOMM_CONNECT_IND", "RFCOMM_SERVER_CONNECT_CFM",
                    "RFCOMM_DISCONNECT_IND", "RFCOMM_DISCONNECT_CFM"}
      BY <2>2, SaysKind, Zenon
    <2> QED
      BY <2>1, <2>2, <2>3, AddedToken DEF Token
  <1>6. CASE StrayAccess
    BY <1>1, <1>6 DEF StrayAccess
  <1>7. CASE Reboot
    <2>1. queue' = <<Blank>> /\ pending' = <<>> /\ records' = {}
      BY <1>7 DEF Reboot
    <2> QED
      BY <2>1, BlankSent, Short DEF OneToken, OneRecord
  <1> QED
    BY <1>1, <1>2, <1>3, <1>4, <1>5, <1>6, <1>7 DEF Next, vars, StreamStep

\* Of the tokens that a record comes of there is one at most, and none beside a record:
\* withdrawing one asks for the next channel, never two at a time
\* (wechatTransportRfcommHandleSdpUnregisterCfm, "Get another channel from the pool").
THEOREM AtMostOneRecord == Spec => []OneRecord
  <1>1. Init => TypeInv /\ OneToken
    BY InitType, InitToken DEF Init
  <1>2. TypeInv /\ OneToken /\ [Next]_vars => TypeInv' /\ OneToken'
    BY NextType, NextToken
  <1>3. OneToken => OneRecord
    BY DEF OneToken
  <1> QED
    BY <1>1, <1>2, <1>3, PTL DEF Spec

-----------------------------------------------------------------------------
(* What a step does to every kind of message at once                       *)

\* The new messages n come behind the old ones, q.
Sent(q, n) ==
    /\ \A A : Has(queue', A) <=> Has(q, A) \/ \E m \in n : m \in A
    /\ \A A : AtMostOne(q, A) /\ (\A m \in n : m \notin A) => AtMostOne(queue', A)
    /\ \A A : ~Has(q, A) /\ (\A l, m \in n : l \in A /\ m \in A => l = m)
                 => AtMostOne(queue', A)
    /\ \A A, B : Followed(q, A, B) /\ (\A m \in n : m \notin A) => Followed(queue', A, B)
    /\ \A A, B : (\E m \in n : m \in B) /\ (\A m \in n : m \notin A) => Followed(queue', A, B)
    /\ \A A, B : Before(q, A, B) /\ (\A m \in n : m \notin A) => Before(queue', A, B)

\* The first message, of kind id, is taken.
First(id) ==
    /\ Head(queue) \in Message /\ Head(queue).id = id
    /\ \A A : Has(queue, A) <=> Head(queue) \in A \/ Has(Tail(queue), A)
    /\ \A A : AtMostOne(queue, A) =>
                 AtMostOne(Tail(queue), A) /\ (Head(queue) \in A => ~Has(Tail(queue), A))
    /\ \A A, B : Before(queue, A, B) =>
                    Before(Tail(queue), A, B) /\ (Head(queue) \in B => ~Has(Tail(queue), A))
    /\ \A A, B : Followed(queue, A, B) =>
                    Followed(Tail(queue), A, B) /\ (Head(queue) \in A => Has(Tail(queue), B))

LEMMA NoneBetween ==
    ASSUME NEW q, NEW A, NEW B, ~Has(q, A)
    PROVE  AtMostOne(q, A) /\ Before(q, A, B) /\ Followed(q, A, B)
  BY Zenon DEF Has, AtMostOne, Before, Followed

\* The messages n are those of s, one of each kind at most.
SameKinds(s, n) ==
    /\ \A A : Has(s, A) <=> \E m \in n : m \in A
    /\ \A A : (\A l, m \in n : l \in A /\ m \in A => l = m) => AtMostOne(s, A)

LEMMA JoinSent ==
    ASSUME NEW q, NEW s, NEW n, Join(queue', q, s), Len(q) \in Nat, Len(s) \in Nat,
           SameKinds(s, n)
    PROVE  Sent(q, n)
  <1>1. \A A : Has(s, A) <=> \E m \in n : m \in A
    BY DEF SameKinds
  <1>2. \A A : Has(queue', A) <=> Has(q, A) \/ \E m \in n : m \in A
    <2> TAKE A
    <2>1. Has(queue', A) <=> Has(q, A) \/ Has(s, A)
      BY JoinHas, Zenon
    <2> QED
      BY <1>1, <2>1
  <1>3. ASSUME NEW A, AtMostOne(q, A), \A m \in n : m \notin A
        PROVE  AtMostOne(queue', A)
    <2>1. ~Has(s, A)
      BY <1>1, <1>3
    <2> QED
      BY <1>3, <2>1, JoinOne, NoneBetween, Zenon
  <1>4. ASSUME NEW A, ~Has(q, A), \A l, m \in n : l \in A /\ m \in A => l = m
        PROVE  AtMostOne(queue', A)
    <2>1. AtMostOne(s, A)
      BY <1>4 DEF SameKinds
    <2> QED
      BY <1>4, <2>1, JoinOne, NoneBetween, Zenon
  <1>5. ASSUME NEW A, NEW B, Followed(q, A, B), \A m \in n : m \notin A
        PROVE  Followed(queue', A, B)
    <2>1. ~Has(s, A)
      BY <1>1, <1>5
    <2> QED
      BY <1>5, <2>1, JoinFollowed, Zenon
  <1>6. ASSUME NEW A, NEW B, \E m \in n : m \in B, \A m \in n : m \notin A
        PROVE  Followed(queue', A, B)
    <2>1. ~Has(s, A) /\ Has(s, B)
      BY <1>1, <1>6
    <2> QED
      BY <2>1, JoinFollowed, Zenon
  <1>7. ASSUME NEW A, NEW B, Before(q, A, B), \A m \in n : m \notin A
        PROVE  Before(queue', A, B)
    <2>1. ~Has(s, A)
      BY <1>1, <1>7
    <2> QED
      BY <1>7, <2>1, JoinBefore, NoneBetween, Zenon
  <1> QED
    BY <1>2, <1>3, <1>4, <1>5, <1>6, <1>7 DEF Sent

\* The sequences that are sent.
LEMMA SentKinds ==
    /\ SameKinds(<<>>, {})
    /\ \A x \in Message : SameKinds(<<x>>, {x})
    /\ \A x, y \in Message : x # y => SameKinds(<<x>> \o <<y>>, {x, y})
  <1>1. SameKinds(<<>>, {})
    <2>1. Blank \in Message
      BY BlankSent
    <2>2. \A A : ~Has(<<>>, A) /\ AtMostOne(<<>>, A)
      BY <2>1, Short
    <2> QED
      BY <2>2 DEF SameKinds
  <1>2. ASSUME NEW x \in Message
        PROVE  SameKinds(<<x>>, {x})
    <2>1. \A A : (Has(<<x>>, A) <=> x \in A) /\ AtMostOne(<<x>>, A)
      BY Short
    <2> QED
      BY <2>1 DEF SameKinds
  <1>3. ASSUME NEW x \in Message, NEW y \in Message, x # y
        PROVE  SameKinds(<<x>> \o <<y>>, {x, y})
    <2> DEFINE s == <<x>> \o <<y>>
    <2>1. \A A : (Has(<<x>>, A) <=> x \in A) /\ AtMostOne(<<x>>, A)
      BY Short
    <2>2. \A A : (Has(<<y>>, A) <=> y \in A) /\ AtMostOne(<<y>>, A)
      BY Short
    <2>3. Join(s, <<x>>, <<y>>)
      <3>1. <<x>> \in Seq(Message) /\ <<y>> \in Seq(Message)
        BY Short
      <3> QED
        BY <3>1, Joined
    <2> HIDE DEF s
    <2>4. \A A : Has(s, A) <=> \E m \in {x, y} : m \in A
      <3> TAKE A
      <3>1. Has(s, A) <=> Has(<<x>>, A) \/ Has(<<y>>, A)
        BY <2>3, JoinHas
      <3> QED
        BY <2>1, <2>2, <3>1
    <2>5. ASSUME NEW A, \A l, m \in {x, y} : l \in A /\ m \in A => l = m
          PROVE  AtMostOne(s, A)
      <3>1. ~(Has(<<x>>, A) /\ Has(<<y>>, A))
        BY <1>3, <2>1, <2>2, <2>5
      <3> QED
        BY <2>1, <2>2, <2>3, <3>1, JoinOne
    <2>6. SameKinds(s, {x, y})
      BY <2>4, <2>5 DEF SameKinds
    <2> QED
      BY <2>6 DEF s
  <1> QED
    BY <1>1, <1>2, <1>3

LEMMA TookFirst ==
    ASSUME NEW id, NEW ms, NEW n, Took(ms), SameKinds(ms, n), Head(queue) \in Message,
           Head(queue).id = id
    PROVE  First(id) /\ Sent(Tail(queue), n)
  <1>1. Sent(Tail(queue), n)
    <2>1. Len(ms) \in Nat /\ Len(Tail(queue)) \in Nat
      BY TailHas, LenProperties DEF Took
    <2> QED
      BY <2>1, JoinSent DEF Took
  <1>2. First(id)
    <2>1. queue \in Seq(Message) /\ queue # <<>>
      BY DEF Took
    <2> QED
      BY <2>1, TailHas, Zenon DEF First
  <1> QED
    BY <1>1, <1>2

LEMMA NoneSent ==
    ASSUME NEW id, TookNone(id)
    PROVE  First(id) /\ Sent(Tail(queue), {})
  BY SentKinds, TookFirst DEF TookNone

LEMMA OneSent ==
    ASSUME NEW id, NEW x, TookOne(id, x)
    PROVE  First(id) /\ Sent(Tail(queue), {x}) /\ x \in Message
  BY SentKinds, TookFirst DEF TookOne

LEMMA TwoSent ==
    ASSUME NEW id, NEW x, NEW y, TookTwo(id, x, y), x.id # y.id
    PROVE  First(id) /\ Sent(Tail(queue), {x, y}) /\ x \in Message /\ y \in Message
  BY SentKinds, TookFirst DEF TookTwo

LEMMA AddedSent ==
    ASSUME NEW x, Added(x)
    PROVE  Sent(queue, {x}) /\ x \in Message
  <1>1. x \in Message /\ Len(queue) \in Nat /\ Len(<<x>>) \in Nat /\ Join(queue', queue, <<x>>)
    BY LenProperties DEF Added
  <1>2. SameKinds(<<x>>, {x})
    BY <1>1, SentKinds
  <1> QED
    BY <1>1, <1>2, JoinSent

-----------------------------------------------------------------------------
(* The messages about a stream                                             *)

\* The phone's request and the library's answer, and the phone's farewell and the answer.
Asks(s) ==
    {m \in Message : m.id \in {"RFCOMM_CONNECT_IND", "RFCOMM_CONNECT_RES"} /\ m.sink = s}

AsksElse(s, c) == {m \in Asks(s) : m.channel # c}

Closes(s) ==
    {m \in Message : m.id \in {"RFCOMM_DISCONNECT_IND", "RFCOMM_DISCONNECT_RSP"} /\ m.sink = s}

\* The connection that stands, and its end.
Stands(s) == {m \in Message : m.id = "RFCOMM_SERVER_CONNECT_CFM" /\ m.ok /\ m.sink = s}

Ends(s) ==
    {m \in Message : m.id \in {"RFCOMM_DISCONNECT_IND", "RFCOMM_DISCONNECT_CFM"} /\ m.sink = s}

\* A stream in state r waits for the answer that is in the queue q, and one whose
\* connection stands is connected, or its end comes behind.
Ordered(q, r, s) ==
    /\ AtMostOne(q, Asks(s)) /\ AtMostOne(q, Closes(s))
    /\ Has(q, Asks(s)) => r.state = "asked"
    /\ ~Has(q, AsksElse(s, r.channel))
    /\ Has(q, Closes(s)) => r.state = "closing"
    /\ r.state \in {"up", "leaving"} \/ Followed(q, Stands(s), Ends(s))

StreamInv == \A s \in Sink : Ordered(queue, conn[s], s)

LEMMA Marked ==
    ASSUME NEW s, NEW c
    PROVE  /\ \A m \in Asks(s) \cup AsksElse(s, c) \cup Closes(s) \cup Stands(s) :
                 m.id \in OfStream /\ m.sink = s
           /\ \A m : m.id \notin OfStream \/ m.sink # s =>
                 m \notin Asks(s) /\ m \notin AsksElse(s, c) /\ m \notin Closes(s) /\ m \notin Stands(s)
  BY DEF Asks, AsksElse, Closes, Stands, OfStream

LEMMA OrderedTail ==
    ASSUME NEW r, NEW s, Ordered(queue, r, s), NEW id, First(id)
    PROVE  Ordered(Tail(queue), r, s)
  BY Zenon DEF Ordered, First

\* Messages that are not about the stream.
LEMMA OrderedSent ==
    ASSUME NEW q, NEW r, NEW s, Ordered(q, r, s), NEW n, Sent(q, n),
           \A m \in n : m.id \notin OfStream \/ m.sink # s
    PROVE  Ordered(queue', r, s)
  <1>1. \A m \in n : /\ m \notin Asks(s) /\ m \notin AsksElse(s, r.channel)
                     /\ m \notin Closes(s) /\ m \notin Stands(s)
    BY Marked, Zenon
  <1>2. AtMostOne(queue', Asks(s)) /\ AtMostOne(queue', Closes(s))
    BY <1>1, Zenon DEF Ordered, Sent
  <1>3. /\ Has(queue', Asks(s)) => Has(q, Asks(s))
        /\ Has(queue', AsksElse(s, r.channel)) => Has(q, AsksElse(s, r.channel))
        /\ Has(queue', Closes(s)) => Has(q, Closes(s))
    BY <1>1, Zenon DEF Sent
  <1>4. r.state \in {"up", "leaving"} \/ Followed(queue', Stands(s), Ends(s))
    BY <1>1, Zenon DEF Ordered, Sent
  <1> QED
    BY <1>2, <1>3, <1>4, Zenon DEF Ordered

\* The new messages n, behind all others or in the place of the first.
Comes(n) == Sent(queue, n) \/ \E id : First(id) /\ Sent(Tail(queue), n)

LEMMA OrderedComes ==
    ASSUME NEW r, NEW s, Ordered(queue, r, s), NEW n, Comes(n),
           \A m \in n : m.id \notin OfStream \/ m.sink # s
    PROVE  Ordered(queue', r, s)
  BY OrderedTail, OrderedSent, Zenon DEF Comes

\* Steps that are not about streams.
LEMMA OtherSteps ==
    ASSUME TypeInv,
           \/ HandleRegisterCfm \/ HandleSdpUnregisterCfm \/ HandleServerConnectCfm
           \/ HandleUnregisterCfm \/ HandleSdpRegisterCfm \/ HandleDisconnectCfm
           \/ HandleWechatConnectInd \/ HandleWechatDisconnectInd \/ ForwardRequest
           \/ WechatDisconnect \/ StackAnswers
    PROVE  conn' = conn /\ \E n : Comes(n) /\ \A m \in n : m.id \notin OfStream
  <1>1. conn' = conn
    BY DEF HandleRegisterCfm, HandleSdpUnregisterCfm, HandleServerConnectCfm,
       HandleUnregisterCfm, HandleSdpRegisterCfm, HandleDisconnectCfm, HandleWechatConnectInd,
       HandleWechatDisconnectInd, ForwardRequest, WechatDisconnect, StackAnswers, stackVars
  <1>2. /\ {"SDP_REGISTER_REQ", "SDP_UNREGISTER_REQ", "RFCOMM_REGISTER_REQ",
            "RFCOMM_UNREGISTER_REQ", "RFCOMM_DISCONNECT_REQ", "RFCOMM_DISCONNECT_CFM",
            "RFCOMM_REGISTER_CFM", "RFCOMM_UNREGISTER_CFM", "SDP_REGISTER_CFM",
            "SDP_UNREGISTER_CFM", "WECHAT_CONNECT_IND", "WECHAT_DISCONNECT_IND"}
              \cap OfStream = {}
        /\ "SDP_UNREGISTER_REQ" # "WECHAT_CONNECT_IND"
    BY DEF OfStream
  <1> DEFINE Goal == \E n : Comes(n) /\ \A m \in n : m.id \notin OfStream
  <1>3. ASSUME NEW id, TookNone(id)
        PROVE  Goal
    <2>1. First(id) /\ Sent(Tail(queue), {})
      BY <1>3, NoneSent
    <2>2. Comes({})
      BY <2>1, Zenon DEF Comes
    <2> QED
      BY <2>2
  <1>4. ASSUME NEW id, NEW x, TookOne(id, x), x.id \notin OfStream
        PROVE  Goal
    <2>1. First(id) /\ Sent(Tail(queue), {x})
      BY <1>4, OneSent
    <2>2. Comes({x})
      BY <2>1, Zenon DEF Comes
    <2> QED
      BY <1>4, <2>2
  <1>5. ASSUME NEW id, NEW x, NEW y, TookTwo(id, x, y), x.id # y.id,
               x.id \notin OfStream, y.id \notin OfStream
        PROVE  Goal
    <2>1. First(id) /\ Sent(Tail(queue), {x, y})
      BY <1>5, TwoSent
    <2>2. Comes({x, y})
      BY <2>1, Zenon DEF Comes
    <2> QED
      BY <1>5, <2>2
  <1>6. ASSUME NEW x, Added(x), x.id \notin OfStream
        PROVE  Goal
    <2>1. Comes({x})
      BY <1>6, AddedSent DEF Comes
    <2> QED
      BY <1>6, <2>1
  <1> SUFFICES Goal
    BY <1>1
  <1> HIDE DEF Goal
  <1>7. CASE HandleRegisterCfm
    <2>1. \/ TookNone("RFCOMM_REGISTER_CFM")
          \/ \E x : TookOne("RFCOMM_REGISTER_CFM", x) /\ x.id = "SDP_REGISTER_REQ"
      BY <1>7, RegisterCfmEffect, SaysKind, Zenon
    <2> QED
      BY <1>2, <1>3, <1>4, <2>1
  <1>8. CASE HandleSdpUnregisterCfm
    <2>1. \/ TookNone("SDP_UNREGISTER_CFM")
          \/ TookOne("SDP_UNREGISTER_CFM", Blank) /\ Blank.id = "RFCOMM_REGISTER_REQ"
      BY <1>8, SdpUnregisterCfmEffect, BlankSent, Zenon
    <2> QED
      BY <1>2, <1>3, <1>4, <2>1
  <1>9. CASE HandleServerConnectCfm
    <2>1. \/ TookNone("RFCOMM_SERVER_CONNECT_CFM")
          \/ \E x, y : /\ TookTwo("RFCOMM_SERVER_CONNECT_CFM", x, y)
                       /\ x.id = "SDP_UNREGISTER_REQ" /\ y.id = "WECHAT_CONNECT_IND"
      BY <1>9, ServerConnectCfmEffect, SaysKind, Zenon
    <2> QED
      BY <1>2, <1>3, <1>5, <2>1
  <1>10. CASE HandleUnregisterCfm
    <2>1. \/ TookNone("RFCOMM_UNREGISTER_CFM")
          \/ \E x : TookOne("RFCOMM_UNREGISTER_CFM", x) /\ x.id = "WECHAT_DISCONNECT_IND"
      BY <1>10, UnregisterCfmEffect, Zenon
    <2> QED
      BY <1>2, <1>3, <1>4, <2>1
  <1>11. CASE \/ HandleSdpRegisterCfm \/ HandleDisconnectCfm \/ HandleWechatConnectInd
              \/ HandleWechatDisconnectInd \/ ForwardRequest
    <2>1. \E id : TookNone(id)
      BY <1>11, SilentEffect, Zenon
    <2> QED
      BY <1>3, <2>1
  <1>12. CASE WechatDisconnect
    <2>1. \E x : Added(x) /\ x.id = "RFCOMM_DISCONNECT_REQ"
      BY <1>12, WechatDisconnectEffect, SaysKind, Zenon
    <2> QED
      BY <1>2, <1>6, <2>1
  <1>13. CASE StackAnswers
    <2>1. PICK r, ok, x : ok \in BOOLEAN /\ Added(x) /\ Answers(r, ok, x)
      BY <1>13, StackAnswersEffect, Zenon
    <2>2. x.id \in {"RFCOMM_REGISTER_CFM", "RFCOMM_UNREGISTER_CFM", "SDP_REGISTER_CFM",
                    "SDP_UNREGISTER_CFM"}
      BY <2>1, AnswerKinds
    <2> QED
      BY <1>2, <1>6, <2>1, <2>2
  <1> QED
    BY <1>7, <1>8, <1>9, <1>10, <1>11, <1>12, <1>13

\* How the state of a stream and the messages about it change together.
LEMMA OrderedState ==
    ASSUME NEW q, NEW r, NEW s, ~Has(q, Asks(s)), ~Has(q, Closes(s)),
           r.state \in {"up", "leaving"} \/ Followed(q, Stands(s), Ends(s))
    PROVE  Ordered(q, r, s)
  <1>1. ~Has(q, AsksElse(s, r.channel))
    BY Zenon DEF Has, AsksElse
  <1> QED
    BY <1>1, NoneBetween, Zenon DEF Ordered

LEMMA OrderedAsks ==
    ASSUME NEW q, NEW r, NEW s, Ordered(q, r, s), ~Has(q, Asks(s)), r.state = "asked",
           NEW x, Sent(q, {x}), x \in Asks(s), x.channel = r.channel
    PROVE  Ordered(queue', r, s)
  <1>1. x \notin AsksElse(s, r.channel) /\ x \notin Closes(s) /\ x \notin Stands(s)
    BY DEF Asks, AsksElse, Closes, Stands
  <1>2. AtMostOne(queue', Asks(s))
    BY DEF Sent
  <1>3. AtMostOne(queue', Closes(s))
    BY <1>1 DEF Sent, Ordered
  <1>4. ~Has(queue', AsksElse(s, r.channel))
    BY <1>1 DEF Sent, Ordered
  <1>5. Has(queue', Closes(s)) => r.state = "closing"
    BY <1>1 DEF Sent, Ordered
  <1>6. r.state \in {"up", "leaving"} \/ Followed(queue', Stands(s), Ends(s))
    BY <1>1 DEF Sent, Ordered
  <1> QED
    BY <1>2, <1>3, <1>4, <1>5, <1>6, Zenon DEF Ordered

LEMMA OrderedCloses ==
    ASSUME NEW q, NEW r, NEW s, ~Has(q, Asks(s)), ~Has(q, Closes(s)), r.state = "closing",
           NEW n, Sent(q, n), NEW x \in n, x \in Closes(s),
           \A m \in n : m = x \/ m.id \notin OfStream,
           Followed(q, Stands(s), Ends(s)) \/ x \in Ends(s)
    PROVE  Ordered(queue', r, s)
  <1>1. x \notin Asks(s) /\ x \notin Stands(s)
    BY DEF Asks, Closes, Stands
  <1>2. \A m \in n : m \notin Asks(s) /\ m \notin Stands(s)
    BY <1>1, Marked, Zenon
  <1>3. \A m \in n : m \in Closes(s) => m = x
    BY Marked, Zenon
  <1>4. ~Has(queue', Asks(s))
    BY <1>2, Zenon DEF Sent
  <1>5. ~Has(queue', AsksElse(s, r.channel))
    BY <1>4, Zenon DEF Has, AsksElse
  <1>6. AtMostOne(queue', Closes(s))
    BY <1>3, Zenon DEF Sent
  <1>7. Followed(queue', Stands(s), Ends(s))
    BY <1>2, Zenon DEF Sent
  <1> QED
    BY <1>4, <1>5, <1>6, <1>7, NoneBetween, Zenon DEF Ordered

LEMMA OrderedConfirm ==
    ASSUME NEW q, NEW r, NEW s, Ordered(q, r, s), NEW x, Sent(q, {x}),
           x.id = "RFCOMM_SERVER_CONNECT_CFM", r.state = "up" \/ ~x.ok
    PROVE  Ordered(queue', r, s)
  <1>1. x \notin Asks(s) /\ x \notin AsksElse(s, r.channel) /\ x \notin Closes(s)
    BY DEF Asks, AsksElse, Closes
  <1>2. r.state \in {"up", "leaving"} \/ x \notin Stands(s)
    BY DEF Stands
  <1>3. AtMostOne(queue', Asks(s)) /\ AtMostOne(queue', Closes(s))
    BY <1>1 DEF Sent, Ordered
  <1>4. ~Has(queue', AsksElse(s, r.channel))
    BY <1>1 DEF Sent, Ordered
  <1>5. /\ Has(queue', Asks(s)) => r.state = "asked"
        /\ Has(queue', Closes(s)) => r.state = "closing"
    BY <1>1 DEF Sent, Ordered
  <1>6. r.state \in {"up", "leaving"} \/ Followed(queue', Stands(s), Ends(s))
    BY <1>2 DEF Sent, Ordered
  <1> QED
    BY <1>3, <1>4, <1>5, <1>6, Zenon DEF Ordered

LEMMA OrderedEnds ==
    ASSUME NEW q, NEW r, NEW s, ~Has(q, Asks(s)), ~Has(q, Closes(s)), NEW x, Sent(q, {x}),
           x \in Ends(s), x.id = "RFCOMM_DISCONNECT_CFM"
    PROVE  Ordered(queue', r, s)
  <1>1. x \notin Asks(s) /\ x \notin Closes(s) /\ x \notin Stands(s)
    BY DEF Asks, Closes, Stands
  <1>2. ~Has(queue', Asks(s)) /\ ~Has(queue', Closes(s))
    BY <1>1 DEF Sent
  <1>3. Followed(queue', Stands(s), Ends(s))
    BY <1>1 DEF Sent
  <1> QED
    BY <1>2, <1>3, OrderedState

\* The stream of an answer, and what its state says of the queue.
LEMMA OrderedFirst ==
    ASSUME NEW r, NEW s, Ordered(queue, r, s), NEW id, First(id)
    PROVE  /\ Head(queue) \in Asks(s) =>
                 /\ r.state = "asked" /\ ~Has(Tail(queue), Asks(s)) /\ ~Has(Tail(queue), Closes(s))
                 /\ Head(queue).channel = r.channel
                 /\ Followed(Tail(queue), Stands(s), Ends(s))
           /\ Head(queue) \in Closes(s) =>
                 /\ r.state = "closing" /\ ~Has(Tail(queue), Asks(s))
                 /\ ~Has(Tail(queue), Closes(s))
                 /\ Followed(Tail(queue), Stands(s), Ends(s))
  <1>1. Ordered(Tail(queue), r, s)
    BY OrderedTail
  <1>2. CASE Head(queue) \in Asks(s)
    <2>1. Has(queue, Asks(s)) /\ ~Has(Tail(queue), Asks(s))
      BY <1>2, Zenon DEF First, Ordered
    <2>2. r.state = "asked"
      BY <2>1 DEF Ordered
    <2>3. ~Has(Tail(queue), Closes(s)) /\ Followed(Tail(queue), Stands(s), Ends(s))
      BY <1>1, <2>2 DEF Ordered
    <2>4. Head(queue) \notin AsksElse(s, r.channel)
      BY Zenon DEF First, Ordered
    <2>5. Head(queue).channel = r.channel
      BY <1>2, <2>4 DEF AsksElse
    <2>6. Head(queue) \notin Closes(s)
      BY <1>2 DEF Asks, Closes
    <2> QED
      BY <2>1, <2>2, <2>3, <2>5, <2>6
  <1>3. CASE Head(queue) \in Closes(s)
    <2>1. Has(queue, Closes(s)) /\ ~Has(Tail(queue), Closes(s))
      BY <1>3, Zenon DEF First, Ordered
    <2>2. r.state = "closing"
      BY <2>1 DEF Ordered
    <2>3. ~Has(Tail(queue), Asks(s)) /\ Followed(Tail(queue), Stands(s), Ends(s))
      BY <1>1, <2>2 DEF Ordered
    <2>4. Head(queue) \notin Asks(s)
      BY <1>3 DEF Asks, Closes
    <2> QED
      BY <2>1, <2>2, <2>3, <2>4
  <1> QED
    BY <1>2, <1>3

LEMMA OrderedIdle ==
    ASSUME NEW r, NEW s, Ordered(queue, r, s), r.state \notin {"asked", "closing"}
    PROVE  /\ ~Has(queue, Asks(s)) /\ ~Has(queue, Closes(s))
           /\ r.state \in {"up", "leaving"} \/ Followed(queue, Stands(s), Ends(s))
  BY DEF Ordered

LEMMA OneStream ==
    ASSUME StreamInv, NEW s \in Sink, NEW n, Comes(n),
           \A m \in n : m.id \notin OfStream \/ m.sink = s,
           \A r \in Sink : r # s => conn'[r] = conn[r],
           Ordered(queue', conn'[s], s)
    PROVE  StreamInv'
  <1>1. ASSUME NEW r \in Sink, r # s
        PROVE  Ordered(queue', conn'[r], r)
    <2>1. \A m \in n : m.id \notin OfStream \/ m.sink # r
      BY <1>1
    <2>2. Ordered(queue, conn[r], r)
      BY DEF StreamInv
    <2>3. Ordered(queue', conn[r], r)
      BY <2>1, <2>2, OrderedComes, Zenon
    <2> QED
      BY <1>1, <2>3
  <1> QED
    BY <1>1, Zenon DEF StreamInv

LEMMA OtherStream ==
    ASSUME TypeInv, StreamInv,
           \/ HandleRegisterCfm \/ HandleSdpUnregisterCfm \/ HandleServerConnectCfm
           \/ HandleUnregisterCfm \/ HandleSdpRegisterCfm \/ HandleDisconnectCfm
           \/ HandleWechatConnectInd \/ HandleWechatDisconnectInd \/ ForwardRequest
           \/ WechatDisconnect \/ StackAnswers
    PROVE  StreamInv'
  <1>1. conn' = conn
    BY OtherSteps
  <1>2. PICK n : Comes(n) /\ \A m \in n : m.id \notin OfStream
    BY OtherSteps
  <1>3. \A s \in Sink : Ordered(queue', conn[s], s)
    BY <1>2, OrderedComes, Zenon DEF StreamInv
  <1> QED
    BY <1>1, <1>3 DEF StreamInv

LEMMA HandlerStream ==
    ASSUME TypeInv, StreamInv, Handler
    PROVE  StreamInv'
  <1> DEFINE h == Head(queue)
             s == h.sink
  <1>0. \A r \in Sink : conn[r] \in ConnType
    BY DEF TypeInv, DataType
  <1>1. CASE HandleConnectInd
    <2>1. s \in Sink /\ conn' = conn
      BY <1>1, ConnectIndEffect DEF stackVars
    <2>2. PICK x, ok : /\ TookOne("RFCOMM_CONNECT_IND", x)
                       /\ Says(x, "RFCOMM_CONNECT_RES", s, h.channel, ok)
      BY <1>1, ConnectIndEffect, Zenon
    <2>3. /\ First("RFCOMM_CONNECT_IND") /\ Sent(Tail(queue), {x}) /\ x \in Message
          /\ x.id = "RFCOMM_CONNECT_RES" /\ x.sink = s /\ x.channel = h.channel
      BY <2>2, OneSent, SaysKind, Zenon
    <2>4. h \in Asks(s) /\ x \in Asks(s)
      BY <2>3 DEF First, Asks
    <2> HIDE DEF s
    <2>5. Ordered(Tail(queue), conn[s], s) /\ Ordered(queue, conn[s], s)
      BY <2>1, <2>3, OrderedTail DEF StreamInv
    <2>6. conn[s].state = "asked" /\ ~Has(Tail(queue), Asks(s)) /\ h.channel = conn[s].channel
      BY <2>3, <2>4, <2>5, OrderedFirst
    <2>7. Ordered(queue', conn[s], s)
      BY <2>3, <2>4, <2>5, <2>6, OrderedAsks
    <2>8. Comes({x})
      BY <2>3, Zenon DEF Comes
    <2>9. \A m \in {x} : m.id \notin OfStream \/ m.sink = s
      BY <2>3
    <2> QED
      BY <2>1, <2>7, <2>8, <2>9, OneStream
  <1>2. CASE HandleDisconnectInd
    <2>1. s \in Sink /\ conn' = conn
      BY <1>2, DisconnectIndEffect DEF stackVars
    <2>2. PICK n, a : /\ First("RFCOMM_DISCONNECT_IND") /\ Sent(Tail(queue), n)
                      /\ a \in n /\ a \in Message
                      /\ a.id = "RFCOMM_DISCONNECT_RSP" /\ a.sink = s
                      /\ \A m \in n : m = a \/ m.id \notin OfStream
      <3>1. PICK x : /\ Says(x, "RFCOMM_DISCONNECT_RSP", s, NULL, TRUE)
                     /\ \/ TookOne("RFCOMM_DISCONNECT_IND", x)
                        \/ \E y, c : /\ TookTwo("RFCOMM_DISCONNECT_IND", x, y)
                                     /\ Says(y, "RFCOMM_UNREGISTER_REQ", NULL, c, TRUE)
        BY <1>2, DisconnectIndEffect, Zenon
      <3>2. x.id = "RFCOMM_DISCONNECT_RSP" /\ x.sink = s
        BY <3>1, SaysKind, Zenon
      <3>3. CASE TookOne("RFCOMM_DISCONNECT_IND", x)
        <4>1. First("RFCOMM_DISCONNECT_IND") /\ Sent(Tail(queue), {x}) /\ x \in Message
          BY <3>3, OneSent
        <4>2. x \in {x} /\ \A m \in {x} : m = x \/ m.id \notin OfStream
          OBVIOUS
        <4> WITNESS {x}, x
        <4> QED
          BY <3>2, <4>1, <4>2, Zenon
      <3>4. CASE \E y, c : /\ TookTwo("RFCOMM_DISCONNECT_IND", x, y)
                           /\ Says(y, "RFCOMM_UNREGISTER_REQ", NULL, c, TRUE)
        <4>1. PICK y : /\ TookTwo("RFCOMM_DISCONNECT_IND", x, y)
                       /\ y.id = "RFCOMM_UNREGISTER_REQ"
          BY <3>4, SaysKind, Zenon
        <4>2. y.id \notin OfStream /\ x.id # y.id
          BY <3>2, <4>1 DEF OfStream
        <4>3. /\ First("RFCOMM_DISCONNECT_IND") /\ Sent(Tail(queue), {x, y})
              /\ x \in Message
          BY <4>1, <4>2, TwoSent
        <4> QED
          BY <3>2, <4>2, <4>3
      <3> QED
        BY <3>1, <3>3, <3>4
    <2>3. h \in Closes(s) /\ a \in Closes(s)
      BY <2>2 DEF First, Closes
    <2> HIDE DEF s
    <2>4. Ordered(queue, conn[s], s)
      BY <2>1 DEF StreamInv
    <2>5. /\ conn[s].state = "closing" /\ ~Has(Tail(queue), Asks(s))
          /\ ~Has(Tail(queue), Closes(s)) /\ Followed(Tail(queue), Stands(s), Ends(s))
      BY <2>2, <2>3, <2>4, OrderedFirst
    <2>6. Ordered(queue', conn[s], s)
      BY <2>2, <2>3, <2>5, OrderedCloses
    <2>7. Comes(n)
      BY <2>2, Zenon DEF Comes
    <2> QED
      BY <2>1, <2>2, <2>6, <2>7, OneStream
  <1>3. CASE ConnectRes
    <2>1. TookNone("RFCOMM_CONNECT_RES") /\ s \in Sink
      BY <1>3, SilentEffect
    <2>2. First("RFCOMM_CONNECT_RES") /\ Sent(Tail(queue), {})
      BY <2>1, NoneSent
    <2>3. h \in Asks(s)
      BY <2>2 DEF First, Asks
    <2>4. \A r \in Sink : r # s => conn'[r] = conn[r]
      BY <1>3, <2>1 DEF ConnectRes, TypeInv, DataType
    <2> HIDE DEF s
    <2>5. /\ ~Has(Tail(queue), Asks(s)) /\ ~Has(Tail(queue), Closes(s))
          /\ Followed(Tail(queue), Stands(s), Ends(s))
      BY <2>1, <2>2, <2>3, OrderedFirst DEF StreamInv
    <2>6. Ordered(Tail(queue), conn'[s], s)
      BY <2>5, OrderedState
    <2>7. Ordered(queue', conn'[s], s)
      BY <2>2, <2>6, OrderedSent
    <2>8. Comes({})
      BY <2>2, Zenon DEF Comes
    <2> QED
      BY <2>1, <2>4, <2>7, <2>8, OneStream
  <1>4. CASE DisconnectRsp
    <2>1. TookNone("RFCOMM_DISCONNECT_RSP") /\ s \in Sink
      BY <1>4, SilentEffect
    <2>2. First("RFCOMM_DISCONNECT_RSP") /\ Sent(Tail(queue), {})
      BY <2>1, NoneSent
    <2>3. h \in Closes(s)
      BY <2>2 DEF First, Closes
    <2>4. \A r \in Sink : r # s => conn'[r] = conn[r]
      BY <1>4, <2>1 DEF DisconnectRsp, TypeInv, DataType
    <2> HIDE DEF s
    <2>5. /\ ~Has(Tail(queue), Asks(s)) /\ ~Has(Tail(queue), Closes(s))
          /\ Followed(Tail(queue), Stands(s), Ends(s))
      BY <2>1, <2>2, <2>3, OrderedFirst DEF StreamInv
    <2>6. Ordered(Tail(queue), conn'[s], s)
      BY <2>5, OrderedState
    <2>7. Ordered(queue', conn'[s], s)
      BY <2>2, <2>6, OrderedSent
    <2>8. Comes({})
      BY <2>2, Zenon DEF Comes
    <2> QED
      BY <2>1, <2>4, <2>7, <2>8, OneStream
  <1>5. CASE DisconnectReq
    <2>1. \/ /\ TookNone("RFCOMM_DISCONNECT_REQ") /\ s \in Streams
             /\ conn' = IF conn[s].state \in {"accepted", "up"}
                        THEN [conn EXCEPT ![s].state = "leaving"] ELSE conn
          \/ /\ \E x : /\ TookOne("RFCOMM_DISCONNECT_REQ", x)
                       /\ Says(x, "RFCOMM_DISCONNECT_CFM", s, NULL, TRUE)
             /\ conn' = conn
      BY <1>5, DisconnectReqEffect, Zenon
    <2>2. PICK n : Comes(n) /\ \A m \in n : m.id \notin OfStream
      <3>1. CASE TookNone("RFCOMM_DISCONNECT_REQ")
        <4>1. Comes({})
          BY <3>1, NoneSent, Zenon DEF Comes
        <4> QED
          BY <4>1
      <3>2. CASE \E x : /\ TookOne("RFCOMM_DISCONNECT_REQ", x)
                        /\ Says(x, "RFCOMM_DISCONNECT_CFM", s, NULL, TRUE)
        <4>1. PICK x : TookOne("RFCOMM_DISCONNECT_REQ", x) /\ x.id = "RFCOMM_DISCONNECT_CFM"
          BY <3>2, SaysKind, Zenon
        <4>2. Comes({x})
          BY <4>1, OneSent, Zenon DEF Comes
        <4>3. x.id \notin OfStream
          BY <4>1 DEF OfStream
        <4> QED
          BY <4>2, <4>3
      <3> QED
        BY <2>1, <3>1, <3>2
    <2>3. CASE conn' = conn
      BY <2>2, <2>3, OrderedComes, Zenon DEF StreamInv
    <2>4. CASE /\ s \in Streams /\ conn[s].state \in {"accepted", "up"}
               /\ conn' = [conn EXCEPT ![s].state = "leaving"]
      <3>1. s \in Sink
        BY <2>4 DEF Streams
      <3>2. /\ conn'[s].state = "leaving"
            /\ \A r \in Sink : r # s => conn'[r] = conn[r]
        BY <2>4, <3>1, <1>0 DEF TypeInv, DataType, ConnType
      <3> HIDE DEF s
      <3>3. ~Has(queue, Asks(s)) /\ ~Has(queue, Closes(s))
        BY <2>4, <3>1, OrderedIdle DEF StreamInv
      <3>4. Ordered(queue, conn'[s], s)
        BY <3>2, <3>3, OrderedState
      <3>5. Ordered(queue', conn'[s], s)
        BY <2>2, <3>4, OrderedComes
      <3> QED
        BY <2>2, <3>1, <3>2, <3>5, OneStream
    <2> QED
      BY <2>1, <2>3, <2>4
  <1>6. CASE \/ HandleRegisterCfm \/ HandleSdpUnregisterCfm \/ HandleServerConnectCfm
             \/ HandleUnregisterCfm \/ HandleSdpRegisterCfm \/ HandleDisconnectCfm
             \/ HandleWechatConnectInd \/ HandleWechatDisconnectInd \/ ForwardRequest
    BY <1>6, OtherStream
  <1> QED
    BY <1>1, <1>2, <1>3, <1>4, <1>5, <1>6, Zenon DEF Handler, TransportHandler

LEMMA StreamStream ==
    ASSUME TypeInv, StreamInv, NEW s \in Sink, StreamStep(s)
    PROVE  StreamInv'
  <1>0. conn[s] \in ConnType /\ Ordered(queue, conn[s], s)
        /\ conn \in [Sink -> ConnType]
    BY DEF TypeInv, DataType, StreamInv
  <1>1. \A r \in Sink : r # s => conn'[r] = conn[r]
    BY <1>0 DEF StreamStep, Link, StackConfirms, StackDisconnects, PhoneDisconnects, PhoneConnects
  <1>2. ASSUME NEW x, Added(x), x.sink = s, Ordered(queue', conn'[s], s)
        PROVE  StreamInv'
    <2>1. Comes({x})
      BY <1>2, AddedSent DEF Comes
    <2> QED
      BY <1>1, <1>2, <2>1, OneStream
  <1>3. ASSUME NEW c \in Channel, PhoneConnects(s, c)
        PROVE  StreamInv'
    <2>0. PICK x : Added(x) /\ Says(x, "RFCOMM_CONNECT_IND", s, c, TRUE)
      BY <1>3, StreamEffect, Zenon
    <2>1. Added(x) /\ x.id = "RFCOMM_CONNECT_IND" /\ x.sink = s /\ x.channel = c
      BY <2>0, SaysKind, Zenon
    <2>2. conn[s].state = "none" /\ conn'[s].state = "asked" /\ conn'[s].channel = c
      BY <1>0, <1>3 DEF PhoneConnects
    <2>3. Sent(queue, {x}) /\ x \in Asks(s)
      BY <2>1, AddedSent DEF Asks
    <2>4. /\ ~Has(queue, Asks(s)) /\ ~Has(queue, Closes(s))
          /\ Followed(queue, Stands(s), Ends(s))
      BY <1>0, <2>2, OrderedIdle
    <2>5. Ordered(queue, conn'[s], s)
      BY <2>4, OrderedState
    <2>6. Ordered(queue', conn'[s], s)
      BY <2>1, <2>2, <2>3, <2>4, <2>5, OrderedAsks
    <2> QED
      BY <1>2, <2>1, <2>6
  <1>4. ASSUME StackConfirms(s)
        PROVE  StreamInv'
    <2>1. PICK x, ok : /\ ok \in BOOLEAN /\ Added(x)
                       /\ Says(x, "RFCOMM_SERVER_CONNECT_CFM", s, conn[s].channel, ok)
                       /\ ok => /\ conn[s].state = "accepted"
                                /\ conn' = [conn EXCEPT ![s].state = "up"]
                       /\ ~ok => /\ conn[s].state \in {"accepted", "declined"}
                                 /\ conn' = [conn EXCEPT ![s] = NoConn]
      BY <1>4, StreamEffect, Zenon
    <2>2. x.id = "RFCOMM_SERVER_CONNECT_CFM" /\ x.sink = s /\ (x.ok <=> ok)
      BY <2>1, Zenon DEF Says
    <2>3. conn[s].state \in {"accepted", "declined"}
      BY <2>1
    <2>4. ok => conn'[s].state = "up"
      BY <1>0, <2>1 DEF ConnType
    <2>5. /\ ~Has(queue, Asks(s)) /\ ~Has(queue, Closes(s))
          /\ Followed(queue, Stands(s), Ends(s))
      BY <1>0, <2>3, OrderedIdle
    <2>6. Ordered(queue, conn'[s], s)
      BY <2>5, OrderedState
    <2>7. Sent(queue, {x}) /\ (conn'[s].state = "up" \/ ~x.ok)
      BY <2>1, <2>2, <2>4, AddedSent, Zenon
    <2>8. Ordered(queue', conn'[s], s)
      BY <2>2, <2>6, <2>7, OrderedConfirm
    <2> QED
      BY <1>2, <2>1, <2>2, <2>8
  <1>5. ASSUME PhoneDisconnects(s)
        PROVE  StreamInv'
    <2>0. PICK x : Added(x) /\ Says(x, "RFCOMM_DISCONNECT_IND", s, NULL, TRUE)
      BY <1>5, StreamEffect, Zenon
    <2>1. Added(x) /\ x.id = "RFCOMM_DISCONNECT_IND" /\ x.sink = s
      BY <2>0, SaysKind, Zenon
    <2>2. conn[s].state = "up" /\ conn'[s].state = "closing"
      BY <1>0, <1>5 DEF PhoneDisconnects, ConnType
    <2>3. Sent(queue, {x}) /\ x \in Closes(s) /\ x \in Ends(s)
      BY <2>1, AddedSent DEF Closes, Ends
    <2>4. ~Has(queue, Asks(s)) /\ ~Has(queue, Closes(s))
      BY <1>0, <2>2, OrderedIdle
    <2>5. x \in {x} /\ \A m \in {x} : m = x
      OBVIOUS
    <2>6. Ordered(queue', conn'[s], s)
      BY <2>2, <2>3, <2>4, <2>5, OrderedCloses
    <2> QED
      BY <1>2, <2>1, <2>6
  <1>6. ASSUME StackDisconnects(s)
        PROVE  StreamInv'
    <2>0. PICK x : Added(x) /\ Says(x, "RFCOMM_DISCONNECT_CFM", s, NULL, TRUE)
      BY <1>6, StreamEffect, Zenon
    <2>1. Added(x) /\ x.id = "RFCOMM_DISCONNECT_CFM" /\ x.sink = s
      BY <2>0, SaysKind, Zenon
    <2>2. conn[s].state = "leaving"
      BY <1>6 DEF StackDisconnects
    <2>3. Sent(queue, {x}) /\ x \in Ends(s)
      BY <2>1, AddedSent DEF Ends
    <2>4. ~Has(queue, Asks(s)) /\ ~Has(queue, Closes(s))
      BY <1>0, <2>2, OrderedIdle
    <2>5. Ordered(queue', conn'[s], s)
      BY <2>1, <2>3, <2>4, OrderedEnds
    <2> QED
      BY <1>2, <2>1, <2>5
  <1> QED
    BY <1>3, <1>4, <1>5, <1>6 DEF StreamStep, Link

LEMMA InitStream ==
    ASSUME NEW r, NEW s, r.state = "none"
    PROVE  Ordered(<<Blank>>, r, s)
  <1>1. Blank \in Message /\ Blank.id = "RFCOMM_REGISTER_REQ"
    BY BlankSent
  <1>2. Blank \notin Asks(s) /\ Blank \notin Closes(s) /\ Blank \notin Stands(s)
    BY <1>1 DEF Asks, Closes, Stands
  <1>3. ~Has(<<Blank>>, Asks(s)) /\ ~Has(<<Blank>>, Closes(s)) /\ ~Has(<<Blank>>, Stands(s))
    BY <1>1, <1>2, Short
  <1> QED
    BY <1>3, NoneBetween, OrderedState

LEMMA NextStream ==
    ASSUME TypeInv, StreamInv, [Next]_vars
    PROVE  StreamInv'
  <1>1. CASE UNCHANGED <<queue, stackVars>>
    BY <1>1 DEF StreamInv, stackVars
  <1>2. CASE Handler
    BY <1>2, HandlerStream
  <1>3. CASE WechatDisconnect \/ StackAnswers
    BY <1>3, OtherStream
  <1>4. CASE \E s \in Sink : StreamStep(s)
    BY <1>4, StreamStream
  <1>5. CASE StrayAccess
    BY <1>1, <1>5 DEF StrayAccess
  <1>6. CASE Reboot
    <2>1. queue' = <<Blank>> /\ \A s \in Sink : conn'[s].state = "none"
      BY <1>6 DEF Reboot, NoConn
    <2> QED
      BY <2>1, InitStream DEF StreamInv
  <1> QED
    BY <1>1, <1>2, <1>3, <1>4, <1>5, <1>6 DEF Next, vars, StreamStep

-----------------------------------------------------------------------------
(* The slot that is kept                                                   *)

T == transport[1]

\* What will free the slot of stream s on channel c: the answer that sets the
\* connection up, its end, and the release of the channel.
Frees(c) == {m \in Message : m.id = "RFCOMM_UNREGISTER_REQ" /\ m.channel = c}

Holds(s, c) ==
    {m \in Message :
       \/ m.id = "RFCOMM_CONNECT_RES" /\ m.ok /\ m.sink = s
       \/ m.id \in {"RFCOMM_DISCONNECT_IND", "RFCOMM_DISCONNECT_CFM"} /\ m.sink = s
       \/ m.id = "RFCOMM_UNREGISTER_REQ" /\ m.channel = c
       \/ m.id = "RFCOMM_UNREGISTER_CFM" /\ m.ok /\ m.channel = c
       \/ m.id = "WECHAT_DISCONNECT_IND" /\ m.slot = 1}

Connected == {s \in Sink : conn[s].state \in {"accepted", "up", "leaving"}}

Kept(s, c) == Has(queue, Holds(s, c)) \/ Has(pending, Frees(c)) \/ s \in Connected

KeptInv == ~refused /\ failed = 0 /\ Taken(1) => Kept(T.sink, T.rfcomm_channel)

\* With one slot, a search finds it or nothing.
LEMMA OneSlot ==
    ASSUME MaxConnections = 1
    PROVE  /\ Slot = {1} /\ 1 # NULL
           /\ \A c : IF Taken(1) /\ T.rfcomm_channel = c THEN FirstOf(FromRfcommChannel(c)) = 1
                     ELSE FirstOf(FromRfcommChannel(c)) = NULL
           /\ \A s : IF T.sink = s THEN FromSink(s) = {1} /\ FirstOf(FromSink(s)) = 1
                     ELSE FromSink(s) = {} /\ FirstOf(FromSink(s)) = NULL
  <1>1. Slot = {1} /\ 1 # NULL
    BY NullAssumption DEF Slot
  <1>2. FirstOf({}) = NULL /\ FirstOf({1}) = 1
    <2>1. {1} \subseteq Slot /\ {} \subseteq Slot /\ {1} # {}
      BY <1>1
    <2>2. FirstOf({1}) \in {1} /\ FirstOf({}) = NULL
      BY <2>1, FirstFound
    <2> QED
      BY <2>2
  <1>3. \A c : FromRfcommChannel(c) = IF Taken(1) /\ T.rfcomm_channel = c THEN {1} ELSE {}
    BY <1>1 DEF FromRfcommChannel, T
  <1>4. \A s : FromSink(s) = IF T.sink = s THEN {1} ELSE {}
    BY <1>1 DEF FromSink, T
  <1>5. \A c : IF Taken(1) /\ T.rfcomm_channel = c THEN FirstOf(FromRfcommChannel(c)) = 1
               ELSE FirstOf(FromRfcommChannel(c)) = NULL
    BY <1>2, <1>3
  <1>6. \A s : IF T.sink = s THEN FromSink(s) = {1} /\ FirstOf(FromSink(s)) = 1
               ELSE FromSink(s) = {} /\ FirstOf(FromSink(s)) = NULL
    BY <1>2, <1>4
  <1> QED
    BY <1>1, <1>5, <1>6

\* The slot is as it was, and what keeps it too.
LEMMA KeptStays ==
    ASSUME KeptInv, transport' = transport, refused => refused', failed' = 0 => failed = 0,
           Has(queue, Holds(T.sink, T.rfcomm_channel)) =>
              Kept(T.sink, T.rfcomm_channel)',
           Has(pending, Frees(T.rfcomm_channel)) => Kept(T.sink, T.rfcomm_channel)',
           T.sink \in Connected /\ ~refused' => Kept(T.sink, T.rfcomm_channel)'
    PROVE  KeptInv'
  BY DEF KeptInv, Kept, Taken, T

\* Steps that do not move what keeps the slot.
LEMMA KeptElse ==
    ASSUME KeptInv, UNCHANGED <<transport, pending, refused, failed>>,
           \A s \in Connected : s \in Connected',
           NEW n, Comes(n),
           \/ Sent(queue, n) \/ Head(queue) \notin Holds(T.sink, T.rfcomm_channel)
    PROVE  KeptInv'
  <1> DEFINE s == T.sink
             c == T.rfcomm_channel
  <1>1. Has(queue, Holds(s, c)) => Has(queue', Holds(s, c))
    BY Zenon DEF Comes, Sent, First
  <1>2. s' = s /\ c' = c
    BY DEF T
  <1>3. Has(queue, Holds(s, c)) => Has(queue, Holds(s, c))'
    BY <1>1, <1>2 DEF Holds
  <1>4. Has(pending, Frees(c)) => Has(pending, Frees(c))'
    BY <1>2 DEF Frees
  <1> QED
    BY <1>2, <1>3, <1>4, KeptStays DEF Kept

\* The kinds of messages that keep a slot.
LEMMA HoldKinds ==
    ASSUME NEW s, NEW c
    PROVE  \A m \in Holds(s, c) :
              m.id \in {"RFCOMM_CONNECT_RES", "RFCOMM_DISCONNECT_IND", "RFCOMM_DISCONNECT_CFM",
                        "RFCOMM_UNREGISTER_REQ", "RFCOMM_UNREGISTER_CFM", "WECHAT_DISCONNECT_IND"}
  BY DEF Holds

\* Steps that take no such message and leave slots and streams alone.
LEMMA KeptOther ==
    ASSUME TypeInv, KeptInv,
           \/ HandleRegisterCfm \/ HandleSdpUnregisterCfm \/ HandleSdpRegisterCfm
           \/ HandleWechatConnectInd \/ WechatDisconnect
    PROVE  KeptInv'
  <1> DEFINE s == T.sink
             c == T.rfcomm_channel
  <1>1. UNCHANGED <<transport, pending, conn, refused, failed>>
    BY DEF HandleRegisterCfm, HandleSdpUnregisterCfm, HandleSdpRegisterCfm,
       HandleWechatConnectInd, WechatDisconnect, libVars, stackVars, historyVars
  <1>2. \A r \in Connected : r \in Connected'
    BY <1>1 DEF Connected
  <1> HIDE DEF s, c
  <1>3. \E n : Comes(n) /\ (Sent(queue, n) \/ Head(queue) \notin Holds(s, c))
    <2>1. ASSUME NEW id, TookNone(id) \/ \E x : TookOne(id, x),
                 id \in {"RFCOMM_REGISTER_CFM", "SDP_UNREGISTER_CFM", "SDP_REGISTER_CFM",
                         "WECHAT_CONNECT_IND"}
          PROVE  \E n : Comes(n) /\ Head(queue) \notin Holds(s, c)
      <3>1. PICK n : First(id) /\ Sent(Tail(queue), n)
        BY <2>1, NoneSent, OneSent, Zenon
      <3>2. Comes(n)
        BY <3>1, Zenon DEF Comes
      <3>3. Head(queue).id = id
        BY <3>1 DEF First
      <3> QED
        BY <2>1, <3>2, <3>3, HoldKinds
    <2>2. CASE HandleRegisterCfm
      <3>1. TookNone("RFCOMM_REGISTER_CFM") \/ \E x : TookOne("RFCOMM_REGISTER_CFM", x)
        BY <2>2, RegisterCfmEffect, Zenon
      <3> QED
        BY <2>1, <3>1
    <2>3. CASE HandleSdpUnregisterCfm
      <3>1. TookNone("SDP_UNREGISTER_CFM") \/ \E x : TookOne("SDP_UNREGISTER_CFM", x)
        BY <2>3, SdpUnregisterCfmEffect, Zenon
      <3> QED
        BY <2>1, <3>1
    <2>4. CASE HandleSdpRegisterCfm
      <3>1. TookNone("SDP_REGISTER_CFM")
        BY <2>4, SilentEffect
      <3> QED
        BY <2>1, <3>1
    <2>5. CASE HandleWechatConnectInd
      <3>1. TookNone("WECHAT_CONNECT_IND")
        BY <2>5, SilentEffect
      <3> QED
        BY <2>1, <3>1
    <2>6. CASE WechatDisconnect
      <3>1. PICK x : Added(x)
        BY <2>6, WechatDisconnectEffect, Zenon
      <3>2. Sent(queue, {x}) /\ Comes({x})
        BY <3>1, AddedSent DEF Comes
      <3> QED
        BY <3>2
    <2> QED
      BY <2>2, <2>3, <2>4, <2>5, <2>6
  <1> QED
    BY <1>1, <1>2, <1>3, KeptElse DEF s, c

\* A connection is accepted, or declined.
LEMMA KeptConnectInd ==
    ASSUME MaxConnections = 1, TypeInv, KeptInv, HandleConnectInd
    PROVE  KeptInv'
  <1> DEFINE h == Head(queue)
  <1>0. h.sink \in Sink /\ h.channel \in Channel \cup {NULL}
        /\ UNCHANGED <<pending, conn, refused, failed>>
    <2>1. queue \in Seq(Message) /\ queue # <<>>
      BY DEF TypeInv, HandleConnectInd, HandleAndSend
    <2> QED
      BY <2>1, ConnectIndEffect, FirstMessage DEF stackVars, historyVars
  <1>1. PICK ok, x : /\ ok \in BOOLEAN /\ TookOne("RFCOMM_CONNECT_IND", x)
                     /\ Says(x, "RFCOMM_CONNECT_RES", h.sink, h.channel, ok)
                     /\ ~ok => transport' = transport
                     /\ ok => \E t \in Slot : Accepts(t, h.sink, h.channel)
    BY ConnectIndEffect, Zenon
  <1>2. First("RFCOMM_CONNECT_IND") /\ Sent(Tail(queue), {x}) /\ x \in Message
    BY <1>1, OneSent
  <1>3. x.id = "RFCOMM_CONNECT_RES" /\ x.sink = h.sink /\ (x.ok <=> ok)
    BY <1>1, Zenon DEF Says
  <1> HIDE DEF h
  <1>4. CASE ok
    <2>1. T'.sink = h.sink
      BY <1>0, <1>1, <1>4, OneSlot, AcceptsWrites DEF T, TypeInv
    <2>2. x \in Holds(h.sink, T'.rfcomm_channel)
      BY <1>2, <1>3, <1>4 DEF Holds
    <2>3. Has(queue', Holds(T'.sink, T'.rfcomm_channel))
      BY <1>2, <2>1, <2>2 DEF Sent
    <2>4. Has(queue', Holds(T.sink, T.rfcomm_channel)')
      BY <2>3 DEF Holds
    <2> QED
      BY <2>4 DEF KeptInv, Kept
  <1>5. CASE ~ok
    <2>1. \A r \in Connected : r \in Connected'
      BY <1>0 DEF Connected
    <2>2. Comes({x})
      BY <1>2, Zenon DEF Comes
    <2>3. Head(queue) \notin Holds(T.sink, T.rfcomm_channel)
      BY <1>2, HoldKinds DEF First
    <2> QED
      BY <1>0, <1>1, <1>5, <2>1, <2>2, <2>3, KeptElse
  <1> QED
    BY <1>1, <1>4, <1>5

\* The connection stands: the slot is connected to its stream.
LEMMA KeptServerConnectCfm ==
    ASSUME MaxConnections = 1, TypeInv, StreamInv, KeptInv, HandleServerConnectCfm
    PROVE  KeptInv'
  <1> DEFINE h == Head(queue)
             t == FirstOf(FromRfcommChannel(h.channel))
  <1>0. h.sink \in Sink /\ UNCHANGED <<pending, conn, refused, failed>>
    BY ServerConnectCfmEffect DEF stackVars, historyVars
  <1>1. PICK n : /\ First("RFCOMM_SERVER_CONNECT_CFM") /\ Sent(Tail(queue), n)
                 /\ \/ transport' = transport
                    \/ h.ok /\ t # NULL /\ Connects(t, h.sink)
    <2>1. \/ TookNone("RFCOMM_SERVER_CONNECT_CFM") /\ transport' = transport
          \/ /\ h.ok
             /\ \E x, y : /\ TookTwo("RFCOMM_SERVER_CONNECT_CFM", x, y)
                          /\ x.id = "SDP_UNREGISTER_REQ" /\ y.id = "WECHAT_CONNECT_IND"
             /\ transport' = IF t = NULL THEN transport
                             ELSE [transport EXCEPT ![t] = [@ EXCEPT !.sink = h.sink,
                                                                     !.connected = TRUE]]
      BY ServerConnectCfmEffect, SaysKind, Zenon
    <2> HIDE DEF t, h
    <2>2. ASSUME TookNone("RFCOMM_SERVER_CONNECT_CFM"), transport' = transport
          PROVE  \E n : First("RFCOMM_SERVER_CONNECT_CFM") /\ Sent(Tail(queue), n)
      BY <2>2, NoneSent, Zenon
    <2>3. ASSUME \E x, y : /\ TookTwo("RFCOMM_SERVER_CONNECT_CFM", x, y)
                           /\ x.id = "SDP_UNREGISTER_REQ" /\ y.id = "WECHAT_CONNECT_IND"
          PROVE  \E n : First("RFCOMM_SERVER_CONNECT_CFM") /\ Sent(Tail(queue), n)
      <3>1. PICK x, y : /\ TookTwo("RFCOMM_SERVER_CONNECT_CFM", x, y)
                        /\ x.id # y.id
        BY <2>3
      <3> QED
        BY <3>1, TwoSent, Zenon
    <2>4. \E n : First("RFCOMM_SERVER_CONNECT_CFM") /\ Sent(Tail(queue), n)
      BY <2>1, <2>2, <2>3
    <2>5. transport' = transport \/ (h.ok /\ t # NULL /\ Connects(t, h.sink))
      BY <2>1 DEF Connects
    <2> QED
      BY <2>4, <2>5
  <1>2. CASE transport' = transport
    <2>1. \A r \in Connected : r \in Connected'
      BY <1>0 DEF Connected
    <2>2. Comes(n)
      BY <1>1, Zenon DEF Comes
    <2>3. Head(queue) \notin Holds(T.sink, T.rfcomm_channel)
      BY <1>1, HoldKinds DEF First
    <2> QED
      BY <1>0, <1>2, <2>1, <2>2, <2>3, KeptElse
  <1>3. CASE h.ok /\ t # NULL /\ Connects(t, h.sink)
    <2>1. t = 1
      BY <1>3, OneSlot
    <2> HIDE DEF t
    <2>2. T'.sink = h.sink
      BY <1>0, <1>3, <2>1, OneSlot, ConnectsWrites DEF T, TypeInv
    <2> DEFINE s == h.sink
               c == T'.rfcomm_channel
    <2>3. h \in Stands(s) /\ Ordered(queue, conn[s], s)
      BY <1>0, <1>1, <1>3 DEF First, Stands, StreamInv
    <2> HIDE DEF s, c
    <2>4. conn[s].state \in {"up", "leaving"} \/ Has(Tail(queue), Ends(s))
      BY <1>1, <2>3, Zenon DEF First, Ordered
    <2>5. CASE conn[s].state \in {"up", "leaving"}
      BY <1>0, <2>2, <2>5 DEF KeptInv, Kept, Connected, s
    <2>6. CASE Has(Tail(queue), Ends(s))
      <3>1. Has(queue', Ends(s))
        BY <1>1, <2>6, Zenon DEF Sent
      <3>2. \A m \in Ends(s) : m \in Holds(s, c)
        BY DEF Ends, Holds
      <3>3. Has(queue', Holds(s, c))
        BY <3>1, <3>2 DEF Has
      <3>4. Has(queue', Holds(T.sink, T.rfcomm_channel)')
        BY <2>2, <3>3 DEF Holds, s, c
      <3> QED
        BY <3>4 DEF KeptInv, Kept
    <2> QED
      BY <2>4, <2>5, <2>6
  <1> QED
    BY <1>1, <1>2, <1>3

\* The phone has gone: the channel is released.
LEMMA KeptDisconnectInd ==
    ASSUME MaxConnections = 1, TypeInv, KeptInv, HandleDisconnectInd
    PROVE  KeptInv'
  <1> DEFINE h == Head(queue)
  <1>0. UNCHANGED <<transport, pending, conn, refused, failed>>
    BY DisconnectIndEffect DEF stackVars, historyVars
  <1>1. \A r \in Connected : r \in Connected'
    BY <1>0 DEF Connected
  <1>2. PICK x : /\ x.id = "RFCOMM_DISCONNECT_RSP"
                 /\ \/ FromSink(h.sink) = {} /\ TookOne("RFCOMM_DISCONNECT_IND", x)
                    \/ \E y, t : /\ t \in FromSink(h.sink)
                                 /\ TookTwo("RFCOMM_DISCONNECT_IND", x, y)
                                 /\ y.id = "RFCOMM_UNREGISTER_REQ"
                                 /\ y.channel = transport[t].rfcomm_channel
    BY DisconnectIndEffect, SaysKind, Zenon
  <1>3. CASE FromSink(h.sink) = {} /\ TookOne("RFCOMM_DISCONNECT_IND", x)
    <2>1. First("RFCOMM_DISCONNECT_IND") /\ Sent(Tail(queue), {x})
      BY <1>3, OneSent
    <2>2. T.sink # h.sink
      BY <1>3, OneSlot
    <2>3. Head(queue) \notin Holds(T.sink, T.rfcomm_channel)
      BY <2>1, <2>2 DEF First, Holds
    <2>4. Comes({x})
      BY <2>1, Zenon DEF Comes
    <2> QED
      BY <1>0, <1>1, <2>3, <2>4, KeptElse
  <1>4. ASSUME NEW y, NEW t, t \in FromSink(h.sink), TookTwo("RFCOMM_DISCONNECT_IND", x, y),
               y.id = "RFCOMM_UNREGISTER_REQ", y.channel = transport[t].rfcomm_channel
        PROVE  KeptInv'
    <2>1. Sent(Tail(queue), {x, y}) /\ y \in Message
      BY <1>2, <1>4, TwoSent
    <2>2. t = 1
      BY <1>4, OneSlot DEF FromSink
    <2>3. y \in Holds(T.sink, T.rfcomm_channel)
      BY <1>4, <2>1, <2>2 DEF Holds, T
    <2>4. Has(queue', Holds(T.sink, T.rfcomm_channel))
      BY <2>1, <2>3 DEF Sent
    <2>5. Has(queue', Holds(T.sink, T.rfcomm_channel)')
      BY <1>0, <2>4 DEF Holds, T
    <2> QED
      BY <2>5 DEF KeptInv, Kept
  <1> QED
    BY <1>2, <1>3, <1>4

\* The slot is dropped.
LEMMA KeptDisconnectCfm ==
    ASSUME MaxConnections = 1, TypeInv, KeptInv, HandleDisconnectCfm
    PROVE  KeptInv'
  <1> DEFINE t == FirstOf(FromSink(Head(queue).sink))
  <1>0. UNCHANGED <<pending, conn, refused, failed>>
        /\ IF t = NULL THEN UNCHANGED transport ELSE DropState(t)
    BY DEF HandleDisconnectCfm, stackVars, historyVars
  <1>1. First("RFCOMM_DISCONNECT_CFM") /\ Sent(Tail(queue), {})
    BY SilentEffect, NoneSent
  <1>2. \A r \in Connected : r \in Connected'
    BY <1>0 DEF Connected
  <1>3. IF T.sink = Head(queue).sink THEN t = 1 ELSE t = NULL
    BY OneSlot
  <1>4. 1 \in Slot /\ 1 # NULL
    BY OneSlot
  <1> HIDE DEF t
  <1>5. CASE T.sink = Head(queue).sink
    <2>1. ~Taken(1)'
      BY <1>0, <1>3, <1>4, <1>5, DropEffect DEF TypeInv
    <2> QED
      BY <2>1 DEF KeptInv
  <1>6. CASE T.sink # Head(queue).sink
    <2>1. Head(queue) \notin Holds(T.sink, T.rfcomm_channel)
      BY <1>1, <1>6 DEF First, Holds
    <2>2. Comes({})
      BY <1>1, Zenon DEF Comes
    <2>3. transport' = transport
      BY <1>0, <1>3, <1>6
    <2> QED
      BY <1>0, <1>2, <2>1, <2>2, <2>3, KeptElse
  <1> QED
    BY <1>5, <1>6

\* The channel is free: the application is told of the slot.
LEMMA KeptUnregisterCfm ==
    ASSUME MaxConnections = 1, TypeInv, KeptInv, HandleUnregisterCfm
    PROVE  KeptInv'
  <1> DEFINE h == Head(queue)
             H == Holds(T.sink, T.rfcomm_channel)
             id == "RFCOMM_UNREGISTER_CFM"
  <1>0. UNCHANGED <<transport, pending, conn, refused, failed>>
    BY UnregisterCfmEffect DEF stackVars, historyVars
  <1>1. \A r \in Connected : r \in Connected'
    BY <1>0 DEF Connected
  <1>2. ASSUME NEW n, First(id), Sent(Tail(queue), n), h \notin H
        PROVE  KeptInv'
    <2>1. Comes(n)
      BY <1>2, Zenon DEF Comes
    <2> QED
      BY <1>0, <1>1, <1>2, <2>1, KeptElse
  <1>3. CASE ~h.ok /\ TookNone(id)
    <2>1. First(id) /\ Sent(Tail(queue), {})
      BY <1>3, NoneSent
    <2>2. h \notin H
      BY <1>3, <2>1 DEF First, Holds
    <2> QED
      BY <1>2, <2>1, <2>2
  <1>4. ASSUME NEW x, TookOne(id, x), x.id = "WECHAT_DISCONNECT_IND",
               x.slot = FirstOf(FromRfcommChannel(h.channel))
        PROVE  KeptInv'
    <2>1. First(id) /\ Sent(Tail(queue), {x}) /\ x \in Message
      BY <1>4, OneSent
    <2>2. CASE T.rfcomm_channel # h.channel
      <3>1. h \notin H
        BY <2>1, <2>2 DEF First, Holds
      <3> QED
        BY <1>2, <2>1, <3>1
    <2>3. CASE T.rfcomm_channel = h.channel /\ Taken(1)
      <3>1. x.slot = 1
        BY <1>4, <2>3, OneSlot
      <3>2. x \in H
        BY <1>4, <2>1, <3>1 DEF Holds
      <3>3. Has(queue', H)
        BY <2>1, <3>2 DEF Sent
      <3>4. Has(queue', H')
        BY <1>0, <3>3 DEF Holds, T
      <3> QED
        BY <3>4 DEF KeptInv, Kept
    <2>4. CASE ~Taken(1)
      BY <1>0, <2>4 DEF KeptInv, Taken
    <2> QED
      BY <2>2, <2>3, <2>4
  <1> QED
    BY <1>3, <1>4, UnregisterCfmEffect

\* The application drops the slot.
LEMMA KeptWechatDisconnectInd ==
    ASSUME MaxConnections = 1, TypeInv, KeptInv, HandleWechatDisconnectInd
    PROVE  KeptInv'
  <1> DEFINE t == Head(queue).slot
  <1>0. UNCHANGED <<pending, conn, refused, failed>>
        /\ IF t = NULL THEN UNCHANGED transport ELSE DropState(t)
    BY DEF HandleWechatDisconnectInd, stackVars, historyVars
  <1>1. First("WECHAT_DISCONNECT_IND") /\ Sent(Tail(queue), {})
    BY SilentEffect, NoneSent
  <1>2. \A r \in Connected : r \in Connected'
    BY <1>0 DEF Connected
  <1>3. t \in {1, NULL}
    <2>1. t \in Slot \cup {NULL}
      BY <1>1 DEF First, Message, Field
    <2> QED
      BY <2>1, OneSlot
  <1>4. 1 \in Slot /\ 1 # NULL
    BY OneSlot
  <1>5. CASE t = 1
    <2>1. ~Taken(1)'
      BY <1>0, <1>4, <1>5, DropEffect DEF TypeInv
    <2> QED
      BY <2>1 DEF KeptInv
  <1>6. CASE t = NULL
    <2>1. Head(queue) \notin Holds(T.sink, T.rfcomm_channel)
      BY <1>1, <1>4, <1>6 DEF First, Holds
    <2>2. Comes({})
      BY <1>1, Zenon DEF Comes
    <2> QED
      BY <1>0, <1>2, <1>6, <2>1, <2>2, KeptElse
  <1> QED
    BY <1>3, <1>5, <1>6

\* A request goes to BlueStack.
LEMMA KeptForward ==
    ASSUME TypeInv, KeptInv, ForwardRequest
    PROVE  KeptInv'
  <1> DEFINE h == Head(queue)
             s == T.sink
             c == T.rfcomm_channel
  <1>1. PICK id \in Request : TookNone(id)
    BY SilentEffect
  <1>2. /\ pending' = Append(pending, h) /\ UNCHANGED <<transport, conn, refused, failed>>
        /\ pending \in Seq(Message)
    BY DEF ForwardRequest, libVars, historyVars, TypeInv
  <1>3. First(id) /\ Sent(Tail(queue), {})
    BY <1>1, NoneSent
  <1>4. h \in Message
    BY <1>3 DEF First
  <1> HIDE DEF h
  <1>5. Has(pending', Frees(c)) <=> h \in Frees(c) \/ Has(pending, Frees(c))
    BY <1>2, <1>4, PendingKind
  <1>6. h \in Holds(s, c) => h \in Frees(c)
    BY <1>3 DEF First, Holds, Frees, Request, SdpRequest, h
  <1>7. Has(queue, Holds(s, c)) => Has(queue', Holds(s, c)) \/ Has(pending', Frees(c))
    BY <1>3, <1>5, <1>6 DEF First, Sent, h
  <1>8. s' = s /\ c' = c /\ Holds(s, c)' = Holds(s, c) /\ Frees(c)' = Frees(c)
    BY <1>2 DEF T, Holds, Frees
  <1>9. s \in Connected => s' \in Connected'
    BY <1>2, <1>8 DEF Connected
  <1> QED
    BY <1>2, <1>5, <1>7, <1>8, <1>9, KeptStays DEF Kept

\* BlueStack's answer frees the channel, or fails.
LEMMA KeptAnswers ==
    ASSUME TypeInv, KeptInv, StackAnswers
    PROVE  KeptInv'
  <1> DEFINE s == T.sink
             c == T.rfcomm_channel
  <1>1. PICK i \in 1..Len(pending), ok \in BOOLEAN : \E x :
            /\ Added(x) /\ pending' = RemoveAt(pending, i)
            /\ pending[i] \in Message /\ Answers(pending[i], ok, x)
    BY StackAnswersEffect, Zenon
  <1>2. PICK x : /\ Added(x) /\ pending' = RemoveAt(pending, i)
                 /\ pending[i] \in Message /\ Answers(pending[i], ok, x)
    BY <1>1
  <1>3. /\ UNCHANGED <<transport, conn, refused>> /\ failed' \in {failed, failed + 1}
        /\ failed \in Nat
    BY StackAnswersEffect DEF libVars, TypeInv, CountType
  <1> DEFINE r == pending[i]
  <1>4. Has(pending, Frees(c)) => r \in Frees(c) \/ Has(pending', Frees(c))
    BY <1>2, Removed DEF TypeInv
  <1>5. Answers(r, ok, x) /\ r \in Message /\ x \in Message /\ Sent(queue, {x})
    BY <1>2, AddedSent
  <1> HIDE DEF r
  <1>6. failed' = 0 /\ r \in Frees(c) => x \in Holds(s, c)
    <2>1. SUFFICES ASSUME failed' = 0, r \in Frees(c)
                   PROVE  x \in Holds(s, c)
      OBVIOUS
    <2>2. r.id = "RFCOMM_UNREGISTER_REQ" /\ r.channel = c
      BY <2>1 DEF Frees
    <2>3. Says(x, "RFCOMM_UNREGISTER_CFM", NULL, r.channel, ok) /\ (ok \/ failed' = failed + 1)
      BY <1>5, <2>2 DEF Answers
    <2>4. ok
      BY <1>3, <2>1, <2>3
    <2>5. x.id = "RFCOMM_UNREGISTER_CFM" /\ x.channel = c /\ x.ok
      BY <2>2, <2>3, <2>4, Zenon DEF Says
    <2> QED
      BY <1>5, <2>5 DEF Holds
  <1>7. /\ Has(queue, Holds(s, c)) => Has(queue', Holds(s, c))
        /\ x \in Holds(s, c) => Has(queue', Holds(s, c))
    BY <1>5 DEF Sent
  <1>8. s' = s /\ c' = c /\ Holds(s, c)' = Holds(s, c) /\ Frees(c)' = Frees(c)
    BY <1>3 DEF T, Holds, Frees
  <1>9. s \in Connected => s' \in Connected'
    BY <1>3, <1>8 DEF Connected
  <1>10. failed' = 0 => failed = 0
    BY <1>3
  <1>11. Taken(1)' = Taken(1)
    BY <1>3 DEF Taken
  <1>12. SUFFICES ASSUME ~refused', failed' = 0, Taken(1)'
                  PROVE  Kept(T.sink, T.rfcomm_channel)'
    BY DEF KeptInv
  <1>13. Kept(s, c)
    BY <1>3, <1>10, <1>11, <1>12 DEF KeptInv
  <1> QED
    BY <1>4, <1>6, <1>7, <1>8, <1>9, <1>12, <1>13 DEF Kept

\* The library's answer reaches the stream.
LEMMA KeptConnectRes ==
    ASSUME TypeInv, StreamInv, KeptInv, ConnectRes
    PROVE  KeptInv'
  <1> DEFINE h == Head(queue)
             s == T.sink
             c == T.rfcomm_channel
  <1>1. First("RFCOMM_CONNECT_RES") /\ Sent(Tail(queue), {}) /\ h.sink \in Sink
    BY SilentEffect, NoneSent
  <1>2. /\ UNCHANGED <<transport, pending, refused, failed>> /\ conn \in [Sink -> ConnType]
        /\ conn' = [conn EXCEPT ![h.sink].state = IF h.ok THEN "accepted" ELSE "declined"]
    BY DEF ConnectRes, libVars, historyVars, TypeInv, DataType
  <1>3. h \in Asks(h.sink)
    BY <1>1 DEF First, Asks
  <1>4. conn[h.sink].state = "asked"
    BY <1>1, <1>3, OrderedFirst DEF StreamInv
  <1>5. /\ \A r \in Connected : r \in Connected'
        /\ h.ok => h.sink \in Connected'
    BY <1>1, <1>2, <1>4 DEF Connected, ConnType
  <1>6. h \in Holds(s, c) => h.ok /\ h.sink = s
    BY <1>1 DEF First, Holds
  <1>7. Has(queue, Holds(s, c)) => h \in Holds(s, c) \/ Has(queue', Holds(s, c))
    BY <1>1 DEF First, Sent
  <1>8. s' = s /\ c' = c /\ Holds(s, c)' = Holds(s, c) /\ Frees(c)' = Frees(c)
    BY <1>2 DEF T, Holds, Frees
  <1> QED
    BY <1>2, <1>5, <1>6, <1>7, <1>8, KeptStays DEF Kept

\* The headset ends a stream, and the stream of a phone that has gone is destroyed.
LEMMA KeptDisconnects ==
    ASSUME TypeInv, KeptInv, DisconnectReq \/ DisconnectRsp
    PROVE  KeptInv'
  <1> DEFINE s == Head(queue).sink
  <1>0. conn \in [Sink -> ConnType]
    BY DEF TypeInv, DataType
  <1>1. CASE DisconnectReq
    <2>1. /\ UNCHANGED <<transport, pending, refused, failed>>
          /\ \/ conn' = conn
             \/ /\ conn[s].state \in {"accepted", "up"}
                /\ conn' = [conn EXCEPT ![s].state = "leaving"]
      BY <1>1, DisconnectReqEffect DEF libVars, historyVars
    <2>2. \A r \in Connected : r \in Connected'
      BY <1>0, <2>1 DEF Connected, ConnType
    <2>3. PICK n : First("RFCOMM_DISCONNECT_REQ") /\ Sent(Tail(queue), n)
      BY <1>1, DisconnectReqEffect, NoneSent, OneSent, Zenon
    <2>4. Comes(n)
      BY <2>3, Zenon DEF Comes
    <2>5. Head(queue) \notin Holds(T.sink, T.rfcomm_channel)
      BY <2>3, HoldKinds DEF First
    <2> QED
      BY <2>1, <2>2, <2>4, <2>5, KeptElse
  <1>2. CASE DisconnectRsp
    <2>1. /\ UNCHANGED <<transport, pending, refused, failed>>
          /\ conn' = IF conn[s].state = "closing" THEN [conn EXCEPT ![s] = NoConn] ELSE conn
      BY <1>2 DEF DisconnectRsp, libVars, historyVars
    <2>2. \A r \in Connected : r \in Connected'
      BY <1>0, <2>1 DEF Connected
    <2>3. First("RFCOMM_DISCONNECT_RSP") /\ Sent(Tail(queue), {})
      BY <1>2, SilentEffect, NoneSent
    <2>4. Comes({})
      BY <2>3, Zenon DEF Comes
    <2>5. Head(queue) \notin Holds(T.sink, T.rfcomm_channel)
      BY <2>3, HoldKinds DEF First
    <2> QED
      BY <2>1, <2>2, <2>4, <2>5, KeptElse
  <1> QED
    BY <1>1, <1>2

\* A stream's end is told, or its failure is remembered.
LEMMA KeptStream ==
    ASSUME TypeInv, KeptInv, NEW r \in Sink, StreamStep(r)
    PROVE  KeptInv'
  <1> DEFINE s == T.sink
             c == T.rfcomm_channel
  <1>0. /\ UNCHANGED <<transport, pending, failed>> /\ conn \in [Sink -> ConnType]
    BY StreamFrame DEF libVars, TypeInv, DataType
  <1>1. s' = s /\ c' = c /\ Holds(s, c)' = Holds(s, c) /\ Frees(c)' = Frees(c)
    BY <1>0 DEF T, Holds, Frees
  <1>2. \A q \in Connected : q # r => q \in Connected'
    BY <1>0 DEF Connected, StreamStep, Link, StackConfirms, StackDisconnects,
       PhoneDisconnects, PhoneConnects
  <1>3. refused => refused'
    BY DEF StreamStep, Link, StackConfirms, StackDisconnects, PhoneDisconnects, PhoneConnects,
       historyVars
  <1>4. \A A : Has(queue, A) => Has(queue', A)
    BY StreamTells, AddedSent DEF Sent
  <1>5. ASSUME s = r, r \in Connected, ~refused'
        PROVE  r \in Connected' \/ Has(queue', Holds(s, c))
    <2>1. CASE \E d \in Channel : PhoneConnects(r, d)
      BY <1>5, <2>1 DEF PhoneConnects, Connected
    <2>2. CASE StackConfirms(r)
      <3>1. conn' = [conn EXCEPT ![r].state = "up"] \/ (refused' = (refused \/ conn[r].state = "accepted"))
        BY <2>2 DEF StackConfirms
      <3>2. conn[r].state = "accepted"
        BY <1>5, <2>2 DEF StackConfirms, Connected
      <3>3. conn' = [conn EXCEPT ![r].state = "up"]
        BY <1>5, <3>1, <3>2, Zenon
      <3> QED
        BY <1>0, <3>3 DEF Connected, ConnType
    <2>3. CASE PhoneDisconnects(r)
      <3>1. PICK x : Added(x) /\ Says(x, "RFCOMM_DISCONNECT_IND", r, NULL, TRUE)
        BY <2>3, StreamEffect, Zenon
      <3>2. x.id = "RFCOMM_DISCONNECT_IND" /\ x.sink = r
        BY <3>1, SaysKind, Zenon
      <3>3. x \in Holds(s, c) /\ Sent(queue, {x})
        BY <1>5, <3>1, <3>2, AddedSent DEF Holds
      <3> QED
        BY <3>3 DEF Sent
    <2>4. CASE StackDisconnects(r)
      <3>1. PICK x : Added(x) /\ Says(x, "RFCOMM_DISCONNECT_CFM", r, NULL, TRUE)
        BY <2>4, StreamEffect, Zenon
      <3>2. x.id = "RFCOMM_DISCONNECT_CFM" /\ x.sink = r
        BY <3>1, SaysKind, Zenon
      <3>3. x \in Holds(s, c) /\ Sent(queue, {x})
        BY <1>5, <3>1, <3>2, AddedSent DEF Holds
      <3> QED
        BY <3>3 DEF Sent
    <2> QED
      BY <2>1, <2>2, <2>3, <2>4 DEF StreamStep, Link
  <1>6. s \in Connected /\ ~refused' => Kept(T.sink, T.rfcomm_channel)'
    BY <1>1, <1>2, <1>5 DEF Kept
  <1> QED
    BY <1>0, <1>1, <1>3, <1>4, <1>6, KeptStays DEF Kept

LEMMA NextKept ==
    ASSUME MaxConnections = 1, TypeInv, StreamInv, KeptInv, [Next]_vars
    PROVE  KeptInv'
  <1>1. CASE UNCHANGED <<libVars, queue, stackVars, historyVars>>
    BY <1>1 DEF KeptInv, Kept, Taken, T, Connected, Holds, Frees, libVars, stackVars, historyVars
  <1>2. CASE Handler
    BY <1>2, KeptOther, KeptConnectInd, KeptServerConnectCfm, KeptDisconnectInd, KeptDisconnectCfm,
       KeptUnregisterCfm, KeptWechatDisconnectInd, KeptForward, KeptConnectRes, KeptDisconnects
    DEF Handler, TransportHandler
  <1>3. CASE WechatDisconnect
    BY <1>3, KeptOther
  <1>4. CASE StackAnswers
    BY <1>4, KeptAnswers
  <1>5. CASE \E s \in Sink : StreamStep(s)
    BY <1>5, KeptStream
  <1>6. CASE StrayAccess
    BY <1>1, <1>6 DEF StrayAccess
  <1>7. CASE Reboot
    <2>1. transport' = [t \in Slot |-> NoTransport] /\ 1 \in Slot
      BY <1>7, OneSlot DEF Reboot
    <2>2. ~Taken(1)'
      BY <2>1 DEF Taken, NoTransport
    <2> QED
      BY <2>2 DEF KeptInv
  <1> QED
    BY <1>1, <1>2, <1>3, <1>4, <1>5, <1>6, <1>7 DEF Next, vars, StreamStep

\* What keeps the slot is its stream, or the end of it.
LEMMA KeptEnds ==
    ASSUME MaxConnections = 1, TypeInv, StreamInv, KeptInv
    PROVE  SlotLost
  <1> SUFFICES ASSUME ~refused, failed = 0, Taken(1)
               PROVE  T.sink \in Streams \/ Ending(1)
    <2>1. failed \in Nat /\ Slot = {1}
      BY OneSlot DEF TypeInv, CountType
    <2> QED
      BY <2>1 DEF SlotLost, TakenSlotHasLink, T
  <1> DEFINE s == T.sink
             c == T.rfcomm_channel
  <1>0. queue \in Seq(Message) /\ pending \in Seq(Message)
    BY DEF TypeInv
  <1>1. CASE s \in Connected
    BY <1>1 DEF Connected, Streams
  <1>2. CASE Has(queue, Holds(s, c))
    <2>1. PICK i \in 1..Len(queue) : queue[i] \in Holds(s, c)
      BY <1>2 DEF Has
    <2> DEFINE m == queue[i]
    <2>2. m \in Known /\ m \in Message
      BY <1>0, <2>1 DEF Known, ToSet, Holds
    <2>3. \/ m \in Asks(s) \/ m \in Closes(s)
          \/ m.id = "RFCOMM_DISCONNECT_CFM" /\ m.sink = s
          \/ m.id \in {"RFCOMM_UNREGISTER_REQ", "RFCOMM_UNREGISTER_CFM"} /\ m.channel = c
          \/ m.id = "WECHAT_DISCONNECT_IND" /\ m.slot = 1
      BY <2>1 DEF Holds, Asks, Closes
    <2>4. m \in Asks(s) \/ m \in Closes(s) => s \in Sink
      BY DEF Asks, Closes, Message, OfStream
    <2>5. CASE m \in Asks(s) \/ m \in Closes(s)
      <3>1. Has(queue, Asks(s)) \/ Has(queue, Closes(s))
        BY <2>5 DEF Has
      <3>2. conn[s].state \in {"asked", "closing"}
        BY <2>4, <2>5, <3>1 DEF StreamInv, Ordered
      <3> QED
        BY <2>4, <2>5, <3>2 DEF Streams
    <2> HIDE DEF m
    <2>6. CASE ~(m \in Asks(s) \/ m \in Closes(s))
      BY <2>2, <2>3, <2>6 DEF Ending, T
    <2> QED
      BY <2>5, <2>6
  <1>3. CASE Has(pending, Frees(c))
    <2>1. PICK i \in 1..Len(pending) : pending[i] \in Frees(c)
      BY <1>3 DEF Has
    <2>2. pending[i] \in Known
      BY <1>0, <2>1 DEF Known, ToSet
    <2> QED
      BY <2>1, <2>2 DEF Ending, Frees, T
  <1> QED
    BY <1>1, <1>2, <1>3 DEF KeptInv, Kept

\* With the one slot of the application, a slot without a connection is on its way to
\* being freed, unless an accepted connection or a request to BlueStack failed
\* (wechatTransportRfcommHandleServerConnectCfm, wechatTransportRfcommDropState).
THEOREM SlotComesBack == MaxConnections = 1 => (Spec => []SlotLost)
  <1> SUFFICES ASSUME MaxConnections = 1
               PROVE  Spec => []SlotLost
    OBVIOUS
  <1>1. Init => TypeInv /\ StreamInv /\ KeptInv
    <2> SUFFICES ASSUME Init
                 PROVE  TypeInv /\ StreamInv /\ KeptInv
      OBVIOUS
    <2>1. StreamInv
      <3>1. queue = <<Blank>> /\ \A s \in Sink : conn[s].state = "none"
        BY DEF Init, NoConn
      <3> QED
        BY <3>1, InitStream DEF StreamInv
    <2>2. KeptInv
      <3>1. transport = [t \in Slot |-> NoTransport] /\ 1 \in Slot
        BY OneSlot DEF Init
      <3> QED
        BY <3>1 DEF KeptInv, Taken, NoTransport
    <2> QED
      BY <2>1, <2>2, InitType
  <1>2. TypeInv /\ StreamInv /\ KeptInv /\ [Next]_vars => TypeInv' /\ StreamInv' /\ KeptInv'
    BY NextType, NextStream, NextKept
  <1>3. TypeInv /\ StreamInv /\ KeptInv => SlotLost
    BY KeptEnds
  <1> QED
    BY <1>1, <1>2, <1>3, PTL DEF Spec

-----------------------------------------------------------------------------
(* The turn: what the one slot waits for, as long as the application closes nothing *)

Accept   == {m \in Message : m.id = "RFCOMM_CONNECT_RES" /\ m.ok}
Stand    == {m \in Message : m.id = "RFCOMM_SERVER_CONNECT_CFM" /\ m.ok}
Start    == {m \in Message : m.id = "WECHAT_CONNECT_IND"}
End      == {m \in Message : m.id = "RFCOMM_DISCONNECT_IND"}
Release  == {m \in Message : m.id = "RFCOMM_UNREGISTER_REQ"}
Released == {m \in Message : m.id = "RFCOMM_UNREGISTER_CFM" /\ m.ok}
Over     == {m \in Message : m.id = "WECHAT_DISCONNECT_IND"}
Asked    == {m \in Message : m.id \in {"RFCOMM_DISCONNECT_REQ", "RFCOMM_DISCONNECT_CFM"}}

\* The slot waits for one of these, unless it has a stream; and what is told of a
\* connection that stands.
Turn == Accept \cup End \cup Release \cup Released \cup Over
News == Stand \cup Start

Weighty == Turn \cup News \cup Asked

\* Messages of another stream s, channel c or slot.
Elsewhere(s, c) ==
    {m \in Turn \cup News :
       \/ m \in Accept \cup End \cup Stand /\ m.sink # s
       \/ m \in Accept \cup Stand \cup Release \cup Released /\ m.channel # c
       \/ m \in Over \cup Start /\ m.slot # 1}

ElseReleased(c) == {m \in Release : m.channel # c}

Live == {s \in Sink : conn[s].state \in {"accepted", "up"}}

Up == {s \in Sink : conn[s].state = "up"}

OneTurn ==
    /\ AtMostOne(queue, Turn) /\ AtMostOne(pending, Release)
    /\ ~(Has(queue, Turn) /\ Has(pending, Release))
    /\ Live # {} => ~Has(queue, Turn) /\ ~Has(pending, Release)

\* All of it is about the slot's stream and channel.
InPlace ==
    /\ ~Has(queue, Elsewhere(T.sink, T.rfcomm_channel))
    /\ ~Has(pending, ElseReleased(T.rfcomm_channel))
    /\ ~Has(queue, Asked) /\ \A s \in Sink : conn[s].state # "leaving"
    /\ \A s \in Live : s = T.sink /\ conn[s].channel = T.rfcomm_channel

\* A free slot waits for nothing.
Idle ==
    ~Taken(1) => /\ ~Has(queue, Turn) /\ ~Has(queue, News) /\ ~Has(pending, Release)
                 /\ Live = {} /\ ~session

\* A connection is told once, and before its end.
Announced ==
    /\ AtMostOne(queue, News)
    /\ Has(queue, Stand) => Up # {} \/ Has(queue, End)
    /\ Has(queue, Start) => Up # {} \/ Has(queue, End) \/ Has(queue, Release)
    /\ Before(queue, Stand, End) /\ Before(queue, Start, Release)
    /\ session => ~Has(queue, Accept) /\ ~Has(queue, News) /\ Live = Up

TurnInv == closed = 0 => OneTurn /\ InPlace /\ Idle /\ Announced

LEMMA Parts ==
    /\ Accept \subseteq Turn /\ End \subseteq Turn /\ Release \subseteq Turn
    /\ Released \subseteq Turn /\ Over \subseteq Turn
    /\ Stand \subseteq News /\ Start \subseteq News
    /\ Turn \subseteq Weighty /\ News \subseteq Weighty /\ Asked \subseteq Weighty
    /\ \A s, c : Elsewhere(s, c) \subseteq Turn \cup News /\ Elsewhere(s, c) \subseteq Weighty
    /\ \A m : m \in Weighty => m \in Message
    /\ Stand \cap Start = {} /\ Turn \cap News = {} /\ Turn \cap Asked = {} /\ News \cap Asked = {}
  BY DEF Turn, News, Weighty, Elsewhere, Accept, Stand, Start, End, Release, Released, Over, Asked

\* What a message of a given kind is.
LEMMA Weights ==
    ASSUME NEW m \in Message
    PROVE  /\ m.id = "RFCOMM_CONNECT_RES" /\ m.ok =>
                m \in Accept /\ m \notin End \cup Release \cup Released \cup Over \cup News \cup Asked
           /\ m.id = "RFCOMM_SERVER_CONNECT_CFM" /\ m.ok =>
                m \in Stand /\ m \notin Start \cup Turn \cup Asked
           /\ m.id = "WECHAT_CONNECT_IND" =>
                m \in Start /\ m \notin Stand \cup Turn \cup Asked
           /\ m.id = "RFCOMM_DISCONNECT_IND" =>
                m \in End /\ m \notin Accept \cup Release \cup Released \cup Over \cup News \cup Asked
           /\ m.id = "RFCOMM_UNREGISTER_REQ" =>
                m \in Release /\ m \notin Accept \cup End \cup Released \cup Over \cup News \cup Asked
           /\ m.id = "RFCOMM_UNREGISTER_CFM" /\ m.ok =>
                m \in Released /\ m \notin Accept \cup End \cup Release \cup Over \cup News \cup Asked
           /\ m.id = "WECHAT_DISCONNECT_IND" =>
                m \in Over /\ m \notin Accept \cup End \cup Release \cup Released \cup News \cup Asked
           /\ m.id \in {"RFCOMM_DISCONNECT_REQ", "RFCOMM_DISCONNECT_CFM"} => m \in Asked
  BY DEF Turn, News, Accept, Stand, Start, End, Release, Released, Over, Asked

LEMMA Light ==
    ASSUME NEW m,
           \/ m.id \notin {"RFCOMM_CONNECT_RES", "RFCOMM_SERVER_CONNECT_CFM", "WECHAT_CONNECT_IND",
                           "RFCOMM_DISCONNECT_IND", "RFCOMM_UNREGISTER_REQ",
                           "RFCOMM_UNREGISTER_CFM", "WECHAT_DISCONNECT_IND",
                           "RFCOMM_DISCONNECT_REQ", "RFCOMM_DISCONNECT_CFM"}
           \/ /\ ~m.ok
              /\ m.id \in {"RFCOMM_CONNECT_RES", "RFCOMM_SERVER_CONNECT_CFM",
                           "RFCOMM_UNREGISTER_CFM"}
    PROVE  m \notin Weighty
  BY DEF Weighty, Turn, News, Accept, Stand, Start, End, Release, Released, Over, Asked

LEMMA HasLess ==
    ASSUME NEW q, NEW A, NEW B, A \subseteq B, ~Has(q, B)
    PROVE  ~Has(q, A)
  BY DEF Has

\* One of a set, and which.
LEMMA OneOfThem ==
    ASSUME NEW q, NEW A, NEW B, NEW C, A \subseteq B, C \subseteq B, A \cap C = {},
           AtMostOne(q, B), Has(q, A)
    PROVE  ~Has(q, C)
  BY DEF Has, AtMostOne

LEMMA NoneBehind ==
    ASSUME NEW q, NEW A, NEW B, ~Has(q, A) \/ ~Has(q, B)
    PROVE  Before(q, A, B)
  BY DEF Has, Before

-----------------------------------------------------------------------------
(* Steps that leave the turn alone                                         *)

\* The queue has the same messages of weight.
SameWeight ==
    \A A : A \subseteq Weighty =>
        /\ Has(queue', A) <=> Has(queue, A)
        /\ AtMostOne(queue, A) => AtMostOne(queue', A)
        /\ \A B : Before(queue, A, B) => Before(queue', A, B)

LEMMA LightComes ==
    ASSUME NEW n, \A m \in n : m \notin Weighty, Comes(n),
           Sent(queue, n) \/ Head(queue) \notin Weighty
    PROVE  SameWeight
  <1> SUFFICES ASSUME NEW A, A \subseteq Weighty
               PROVE  /\ Has(queue', A) <=> Has(queue, A)
                      /\ AtMostOne(queue, A) => AtMostOne(queue', A)
                      /\ \A B : Before(queue, A, B) => Before(queue', A, B)
    BY DEF SameWeight
  <1>1. \A m \in n : m \notin A
    OBVIOUS
  <1>2. CASE Sent(queue, n)
    BY <1>1, <1>2, Zenon DEF Sent
  <1>3. CASE \E id : First(id) /\ Sent(Tail(queue), n) /\ Head(queue) \notin A
    <2>1. /\ Has(queue, A) <=> Has(Tail(queue), A)
          /\ AtMostOne(queue, A) => AtMostOne(Tail(queue), A)
          /\ \A B : Before(queue, A, B) => Before(Tail(queue), A, B)
      BY <1>3, Zenon DEF First
    <2> QED
      BY <1>1, <1>3, <2>1, Zenon DEF Sent
  <1> QED
    BY <1>2, <1>3 DEF Comes

LEMMA TurnStays ==
    ASSUME TurnInv, UNCHANGED <<transport, session, closed>>, SameWeight,
           Live' \subseteq Live, Up' = Up,
           \A s \in Live' : conn'[s].channel = conn[s].channel,
           \A s \in Sink : conn'[s].state = "leaving" => conn[s].state = "leaving",
           \A A \in {Release, ElseReleased(T.rfcomm_channel)} : Has(pending', A) => Has(pending, A),
           AtMostOne(pending, Release) => AtMostOne(pending', Release)
    PROVE  TurnInv'
  <1> SUFFICES ASSUME closed = 0
               PROVE  OneTurn' /\ InPlace' /\ Idle' /\ Announced'
    BY DEF TurnInv
  <1>1. OneTurn /\ InPlace /\ Idle /\ Announced
    BY DEF TurnInv
  <1> DEFINE s == T.sink
             c == T.rfcomm_channel
  <1>2. s' = s /\ c' = c /\ Taken(1)' = Taken(1) /\ Elsewhere(s, c)' = Elsewhere(s, c)
        /\ ElseReleased(c)' = ElseReleased(c)
    BY DEF T, Taken, Elsewhere, ElseReleased
  <1>3. \A A \in {Turn, News, Asked, Elsewhere(s, c), Accept, Stand, Start, End, Release} :
           A \subseteq Weighty
    BY Parts
  <1>4. \A A \in {Turn, News, Asked, Elsewhere(s, c), Accept, Stand, Start, End, Release} :
           Has(queue', A) <=> Has(queue, A)
    BY <1>3 DEF SameWeight
  <1>5. \A A \in {Turn, News} : AtMostOne(queue, A) => AtMostOne(queue', A)
    BY <1>3 DEF SameWeight
  <1>6. \A A \in {Stand, Start} : \A B : Before(queue, A, B) => Before(queue', A, B)
    BY <1>3 DEF SameWeight
  <1>7. Up' \subseteq Live'
    BY DEF Up, Live
  <1> HIDE DEF s, c
  <1>8. OneTurn'
    BY <1>1, <1>4, <1>5 DEF OneTurn
  <1>9. ~Has(queue', Elsewhere(s, c)) /\ ~Has(pending', ElseReleased(c)) /\ ~Has(queue', Asked)
    BY <1>1, <1>4 DEF InPlace, s, c
  <1>10. /\ \A r \in Sink : conn'[r].state # "leaving"
         /\ \A r \in Live' : r = s /\ conn'[r].channel = c
    BY <1>1 DEF InPlace, s, c
  <1>11. InPlace'
    BY <1>2, <1>9, <1>10 DEF InPlace, s, c
  <1>12. Idle'
    BY <1>1, <1>2, <1>4 DEF Idle
  <1>13. Announced'
    BY <1>1, <1>4, <1>5, <1>6, <1>7 DEF Announced
  <1> QED
    BY <1>8, <1>11, <1>12, <1>13

-----------------------------------------------------------------------------
(* Steps that take the turn on                                             *)

\* What holds while the first message has the turn.
LEMMA Others ==
    ASSUME OneTurn, InPlace, Idle, NEW id, First(id), Head(queue) \in Turn
    PROVE  /\ Taken(1) /\ Live = {} /\ Up = {} /\ ~Has(pending, Release)
           /\ ~Has(Tail(queue), Turn) /\ Has(queue, Turn)
           /\ \A A : A \subseteq Turn /\ Head(queue) \notin A => ~Has(queue, A)
           /\ Head(queue) \notin Elsewhere(T.sink, T.rfcomm_channel)
  <1>1. Has(queue, Turn) /\ ~Has(Tail(queue), Turn)
    BY DEF First, OneTurn
  <1>2. Live = {} /\ Up = {} /\ ~Has(pending, Release) /\ Taken(1)
    BY <1>1 DEF OneTurn, Idle, Live, Up
  <1>3. ASSUME NEW A, A \subseteq Turn, Head(queue) \notin A
        PROVE  ~Has(queue, A)
    BY <1>1, <1>3, HasLess DEF First
  <1>4. Head(queue) \notin Elsewhere(T.sink, T.rfcomm_channel)
    BY DEF First, InPlace
  <1> QED
    BY <1>1, <1>2, <1>3, <1>4

\* What holds while a stream has it.
LEMMA Quietly ==
    ASSUME OneTurn, InPlace, Idle, NEW s \in Live
    PROVE  /\ Taken(1) /\ Live = {s} /\ s = T.sink /\ conn[s].channel = T.rfcomm_channel
           /\ ~Has(pending, Release) /\ ~Has(queue, Turn)
           /\ \A A : A \subseteq Turn => ~Has(queue, A)
  <1>1. ~Has(pending, Release) /\ ~Has(queue, Turn) /\ Taken(1)
    BY DEF OneTurn, Idle
  <1>2. Live = {s} /\ s = T.sink /\ conn[s].channel = T.rfcomm_channel
    BY DEF InPlace
  <1> QED
    BY <1>1, <1>2, HasLess

\* What is misplaced is of the turn or of the news.
LEMMA InPlaceQueue ==
    ASSUME NEW q, NEW s, NEW c, ~Has(q, Turn), ~Has(q, News)
    PROVE  ~Has(q, Elsewhere(s, c))
  BY Parts DEF Has

\* A slot that is free takes a connection.
LEMMA TurnConnectInd ==
    ASSUME MaxConnections = 1, TypeInv, TurnInv, HandleConnectInd
    PROVE  TurnInv'
  <1> SUFFICES ASSUME closed = 0, closed' = 0
               PROVE  OneTurn' /\ InPlace' /\ Idle' /\ Announced'
    BY ConnectIndEffect DEF TurnInv, historyVars
  <1>0. OneTurn /\ InPlace /\ Idle /\ Announced
    BY DEF TurnInv
  <1> DEFINE h == Head(queue)
  <1>1. /\ UNCHANGED <<pending, conn, session, closed>> /\ Slot = {1}
        /\ transport \in [Slot -> SlotType]
    BY ConnectIndEffect, OneSlot DEF stackVars, appVars, historyVars, TypeInv, DataType
  <1>2. PICK ok, x :
            /\ ok \in BOOLEAN /\ TookOne("RFCOMM_CONNECT_IND", x)
            /\ Says(x, "RFCOMM_CONNECT_RES", h.sink, h.channel, ok)
            /\ ~ok => transport' = transport
            /\ ok => \E t \in Slot : ~Taken(t) /\ Accepts(t, h.sink, h.channel)
    BY ConnectIndEffect, Zenon
  <1>3. First("RFCOMM_CONNECT_IND") /\ Sent(Tail(queue), {x}) /\ x \in Message
    BY <1>2, OneSent
  <1>4. h \notin Weighty
    BY <1>3, Light DEF First
  <1>5. Comes({x})
    BY <1>3, Zenon DEF Comes
  <1>6. x.id = "RFCOMM_CONNECT_RES" /\ x.sink = h.sink /\ x.channel = h.channel /\ (x.ok <=> ok)
    BY <1>2, Zenon DEF Says
  <1>7. CASE ~ok
    <2>1. x \notin Weighty
      BY <1>6, <1>7, Light
    <2>2. SameWeight
      BY <1>4, <1>5, <2>1, LightComes
    <2>3. TurnInv'
      BY <1>1, <1>2, <1>7, <2>2, TurnStays DEF Live, Up
    <2> QED
      BY <2>3 DEF TurnInv
  <1>8. CASE ok
    <2>1. ~Taken(1) /\ Accepts(1, h.sink, h.channel)
      BY <1>1, <1>2, <1>8
    <2>2. T.sink' = h.sink /\ T.rfcomm_channel' = h.channel /\ Taken(1)'
      <3>1. h.sink \in Sink \cup {NULL} /\ h.channel \in Channel \cup {NULL}
        BY <1>3 DEF First, Message, Field
      <3> HIDE DEF h
      <3> QED
        BY <1>1, <2>1, <3>1, AcceptsWrites DEF T, TypeInv
    <2>3. ~Has(queue, Turn) /\ ~Has(queue, News) /\ ~Has(pending, Release) /\ Live = {} /\ ~session
      BY <1>0, <2>1 DEF Idle
    <2>4. /\ x \in Accept /\ x \in Turn /\ x \notin News /\ x \notin Asked
          /\ x \notin Elsewhere(h.sink, h.channel)
      BY <1>3, <1>6, <1>8, Weights, Parts DEF Elsewhere
    <2>5. ~Has(Tail(queue), Turn) /\ ~Has(Tail(queue), News) /\ ~Has(Tail(queue), Asked)
      BY <1>0, <1>3, <2>3 DEF First, InPlace
    <2>6. AtMostOne(queue', Turn) /\ ~Has(queue', News) /\ ~Has(queue', Asked)
      BY <1>3, <2>4, <2>5 DEF Sent
    <2>7. ~Has(queue', Elsewhere(h.sink, h.channel))
      BY <1>3, <2>4, <2>5, InPlaceQueue DEF Sent
    <2>8. ~Has(pending, ElseReleased(h.channel)) /\ AtMostOne(pending, Release)
      BY <1>0, <2>3, HasLess DEF ElseReleased, OneTurn
    <2>9. Live' = {} /\ Up' = {}
      BY <1>1, <2>3 DEF Live, Up
    <2>10. OneTurn'
      BY <1>1, <2>3, <2>6, <2>8, <2>9 DEF OneTurn
    <2>11. InPlace'
      BY <1>0, <1>1, <2>2, <2>6, <2>7, <2>8, <2>9 DEF InPlace, Elsewhere, ElseReleased
    <2>12. ~Has(queue', Stand) /\ ~Has(queue', Start)
      BY <2>6, Parts, HasLess
    <2>13. Announced'
      BY <1>1, <2>3, <2>6, <2>12, NoneBehind, NoneBetween DEF Announced
    <2> QED
      BY <2>2, <2>10, <2>11, <2>13 DEF Idle
  <1> QED
    BY <1>7, <1>8

\* The stream of the slot is accepted.
LEMMA TurnConnectRes ==
    ASSUME TypeInv, StreamInv, TurnInv, ConnectRes
    PROVE  TurnInv'
  <1> SUFFICES ASSUME closed = 0, closed' = 0
               PROVE  TurnInv'
    BY DEF TurnInv, ConnectRes, historyVars
  <1>0. OneTurn /\ InPlace /\ Idle /\ Announced
    BY DEF TurnInv
  <1> DEFINE h == Head(queue)
             s == h.sink
  <1>1. First("RFCOMM_CONNECT_RES") /\ Sent(Tail(queue), {}) /\ s \in Sink
    BY SilentEffect, NoneSent
  <1>2. /\ UNCHANGED <<transport, pending, session, closed>> /\ conn \in [Sink -> ConnType]
        /\ conn' = [conn EXCEPT ![s].state = IF h.ok THEN "accepted" ELSE "declined"]
    BY DEF ConnectRes, libVars, appVars, historyVars, TypeInv, DataType
  <1>3. h \in Message /\ h.id = "RFCOMM_CONNECT_RES" /\ h \in Asks(s)
    BY <1>1 DEF First, Asks
  <1>4. conn[s].state = "asked" /\ conn[s].channel = h.channel
    BY <1>1, <1>3, OrderedFirst DEF StreamInv
  <1>5. Up' = Up /\ \A r \in Sink : conn'[r].state = "leaving" => conn[r].state = "leaving"
    BY <1>1, <1>2, <1>4 DEF Up, ConnType
  <1>6. \A r \in Sink : conn'[r].channel = conn[r].channel
    BY <1>1, <1>2 DEF ConnType
  <1>7. CASE ~h.ok
    <2>1. h \notin Weighty
      BY <1>3, <1>7, Light
    <2>2. Comes({})
      BY <1>1, Zenon DEF Comes
    <2>3. SameWeight
      BY <2>1, <2>2, LightComes
    <2>4. Live' \subseteq Live
      BY <1>1, <1>2, <1>7 DEF Live, ConnType
    <2>5. Live' \subseteq Sink
      BY DEF Live
    <2> QED
      BY <1>2, <1>5, <1>6, <2>3, <2>4, <2>5, TurnStays
  <1>8. CASE h.ok
    <2>1. h \in Accept /\ h \in Turn /\ h \notin End \cup Release
      BY <1>3, <1>8, Weights, Parts
    <2>2. /\ Taken(1) /\ Live = {} /\ Up = {} /\ ~Has(pending, Release) /\ ~Has(Tail(queue), Turn)
          /\ ~Has(queue, End) /\ ~Has(queue, Release)
          /\ h \notin Elsewhere(T.sink, T.rfcomm_channel)
      BY <1>0, <1>1, <2>1, Others, Parts
    <2>3. s = T.sink /\ h.channel = T.rfcomm_channel
      BY <2>1, <2>2 DEF Elsewhere
    <2>4. ~session /\ ~Has(queue, Stand) /\ ~Has(queue, Start)
      BY <1>0, <1>1, <2>1, <2>2 DEF Announced, First
    <2>5. Live' = {s}
      BY <1>1, <1>2, <1>8, <2>2 DEF Live, ConnType
    <2>6. \A A : Has(queue', A) => Has(queue, A)
      BY <1>1 DEF First, Sent
    <2>7. AtMostOne(queue', News) /\ ~Has(queue', Turn)
      BY <1>0, <1>1, <2>2 DEF First, Sent, Announced
    <2>8. T' = T /\ Taken(1)' = Taken(1)
      BY <1>2 DEF T, Taken
    <2> HIDE DEF h
    <2>9. OneTurn'
      BY <1>0, <1>2, <2>2, <2>7, NoneBetween DEF OneTurn
    <2>10. InPlace'
      BY <1>0, <1>2, <1>4, <1>5, <1>6, <2>3, <2>5, <2>6, <2>8 DEF InPlace, Elsewhere, ElseReleased
    <2>11. Announced'
      BY <1>2, <2>4, <2>6, <2>7, NoneBehind DEF Announced
    <2>12. Idle'
      BY <2>2, <2>8 DEF Idle
    <2> QED
      BY <2>9, <2>10, <2>11, <2>12 DEF TurnInv
  <1> QED
    BY <1>7, <1>8

\* The connection stands: the application will be told.
LEMMA TurnServerConnectCfm ==
    ASSUME MaxConnections = 1, TypeInv, TurnInv, HandleServerConnectCfm
    PROVE  TurnInv'
  <1> SUFFICES ASSUME closed = 0, closed' = 0
               PROVE  TurnInv'
    BY ServerConnectCfmEffect DEF TurnInv, historyVars
  <1>0. OneTurn /\ InPlace /\ Idle /\ Announced
    BY DEF TurnInv
  <1> DEFINE h == Head(queue)
             id == "RFCOMM_SERVER_CONNECT_CFM"
  <1>1. /\ UNCHANGED <<pending, conn, session, closed>> /\ Slot = {1} /\ 1 # NULL
        /\ transport \in [Slot -> SlotType]
    BY ServerConnectCfmEffect, OneSlot DEF stackVars, appVars, historyVars, TypeInv, DataType
  <1>2. Live' = Live /\ Up' = Up
    BY <1>1 DEF Live, Up
  <1>3. CASE ~h.ok /\ TookNone(id) /\ transport' = transport
    <2>1. First(id) /\ Sent(Tail(queue), {})
      BY <1>3, NoneSent
    <2>2. h \notin Weighty
      BY <1>3, <2>1, Light DEF First
    <2>3. Comes({})
      BY <2>1, Zenon DEF Comes
    <2>4. SameWeight
      BY <2>2, <2>3, LightComes
    <2> QED
      BY <1>1, <1>2, <1>3, <2>4, TurnStays
  <1>4. ASSUME h.ok,
               NEW x, NEW y, TookTwo(id, x, y), x.id = "SDP_UNREGISTER_REQ",
               y.id = "WECHAT_CONNECT_IND", y.slot = FirstOf(FromRfcommChannel(h.channel)),
               transport' = IF y.slot = NULL THEN transport
                            ELSE [transport EXCEPT ![y.slot] =
                                     [@ EXCEPT !.sink = h.sink, !.connected = TRUE]]
        PROVE  TurnInv'
    <2>1. First(id) /\ Sent(Tail(queue), {x, y}) /\ x \in Message /\ y \in Message
      BY <1>4, TwoSent
    <2>2. h \in Stand /\ h \in News /\ h \notin Turn /\ h \notin Asked
      BY <1>4, <2>1, Weights, Parts DEF First
    <2>3. Has(queue, Stand) /\ Has(queue, News) /\ ~Has(Tail(queue), News)
      BY <1>0, <2>1, <2>2 DEF First, Announced
    <2>4. Taken(1) /\ h.sink = T.sink /\ h.channel = T.rfcomm_channel
      BY <1>0, <2>1, <2>2, <2>3 DEF Idle, InPlace, Elsewhere, First
    <2>5. y.slot = 1
      BY <1>4, <2>4, OneSlot
    <2>6. T.sink' = T.sink /\ T.rfcomm_channel' = T.rfcomm_channel /\ Taken(1)'
      <3>1. Connects(1, h.sink) /\ h.sink \in Sink \cup {NULL}
        BY <1>1, <1>4, <2>1, <2>5 DEF Connects, First, Message, Field
      <3> HIDE DEF h
      <3> QED
        BY <1>1, <2>4, <3>1, ConnectsWrites DEF T, TypeInv
    <2>7. x \notin Weighty /\ y \in Start /\ y \in News /\ y \notin Stand /\ y \notin Turn
          /\ y \notin Asked /\ y \notin Elsewhere(T.sink, T.rfcomm_channel)
      BY <1>4, <2>1, <2>5, Light, Weights, Parts DEF Elsewhere
    <2>8. x \notin Turn /\ x \notin News /\ x \notin Stand /\ x \notin Asked
          /\ x \notin Elsewhere(T.sink, T.rfcomm_channel)
      BY <2>7, Parts
    <2>9. /\ Has(queue', Turn) <=> Has(queue, Turn)
          /\ AtMostOne(queue, Turn) => AtMostOne(queue', Turn)
      BY <2>1, <2>2, <2>7, <2>8, Zenon DEF First, Sent
    <2>10. /\ Has(queue', End) <=> Has(queue, End)
           /\ Has(queue', Release) <=> Has(queue, Release)
      <3>1. /\ h \notin End /\ x \notin End /\ y \notin End
            /\ h \notin Release /\ x \notin Release /\ y \notin Release
        BY <2>2, <2>7, <2>8, Parts
      <3> QED
        BY <2>1, <3>1, Zenon DEF First, Sent
    <2>11. ~Has(Tail(queue), Stand)
      BY <2>3, Parts, HasLess
    <2>12. ~Has(queue', Stand) /\ ~Has(queue', Asked)
           /\ ~Has(queue', Elsewhere(T.sink, T.rfcomm_channel))
      BY <1>0, <2>1, <2>7, <2>8, <2>11, Zenon DEF First, Sent, InPlace
    <2>13. AtMostOne(queue', News)
      BY <2>1, <2>3, <2>8 DEF Sent
    <2>14. Up # {} \/ Has(queue, End)
      BY <1>0, <2>3 DEF Announced
    <2>15. ~Has(queue, Release)
      <3>1. CASE Up # {}
        <4>1. Live # {}
          BY <3>1 DEF Up, Live
        <4> QED
          BY <1>0, <4>1, Parts, HasLess DEF OneTurn
      <3>2. CASE Has(queue, End)
        <4>1. End \cap Release = {}
          BY DEF End, Release
        <4> QED
          BY <1>0, <3>2, <4>1, Parts, OneOfThem DEF OneTurn
      <3> QED
        BY <2>14, <3>1, <3>2
    <2>16. ~session
      BY <1>0, <2>3 DEF Announced
    <2>17. OneTurn'
      BY <1>0, <1>1, <1>2, <2>9 DEF OneTurn
    <2>18. InPlace'
      BY <1>0, <1>1, <1>2, <2>6, <2>12 DEF InPlace, Elsewhere, ElseReleased
    <2>19. Announced'
      BY <1>1, <1>2, <2>10, <2>12, <2>13, <2>14, <2>15, <2>16, NoneBehind DEF Announced
    <2> QED
      BY <2>6, <2>17, <2>18, <2>19 DEF TurnInv, Idle
  <1> QED
    <2>1. CASE h.ok
      <3>1. PICK x, y, t : /\ t = FirstOf(FromRfcommChannel(h.channel)) /\ TookTwo(id, x, y)
                           /\ Says(x, "SDP_UNREGISTER_REQ", NULL, spp_sdp_handle, TRUE)
                           /\ y.id = "WECHAT_CONNECT_IND" /\ y.slot = t
                           /\ transport' = IF t = NULL THEN transport
                                ELSE [transport EXCEPT ![t] =
                                         [@ EXCEPT !.sink = h.sink, !.connected = TRUE]]
        BY <2>1, ServerConnectCfmEffect, Zenon
      <3>2. x.id = "SDP_UNREGISTER_REQ"
        BY <3>1, SaysKind, Zenon
      <3> HIDE DEF h
      <3> QED
        BY <1>4, <2>1, <3>1, <3>2
    <2>2. CASE ~h.ok
      BY <1>3, <2>2, ServerConnectCfmEffect
    <2> QED
      BY <2>1, <2>2

\* The application has its session.
LEMMA TurnWechatConnectInd ==
    ASSUME TypeInv, TurnInv, HandleWechatConnectInd
    PROVE  TurnInv'
  <1> SUFFICES ASSUME closed = 0, closed' = 0
               PROVE  TurnInv'
    BY DEF TurnInv, HandleWechatConnectInd, historyVars
  <1>0. OneTurn /\ InPlace /\ Idle /\ Announced
    BY DEF TurnInv
  <1> DEFINE h == Head(queue)
  <1>1. First("WECHAT_CONNECT_IND") /\ Sent(Tail(queue), {})
    BY SilentEffect, NoneSent
  <1>2. UNCHANGED <<transport, pending, conn>>
    BY DEF HandleWechatConnectInd, libVars, stackVars
  <1>3. h \in Start /\ h \in News /\ h \notin Turn
    BY <1>1, Weights, Parts DEF First
  <1>4. Has(queue, Start) /\ Has(queue, News) /\ ~Has(Tail(queue), News)
    BY <1>0, <1>1, <1>3 DEF First, Announced
  <1>5. ~Has(queue', News)
    BY <1>1, <1>4 DEF Sent
  <1>6. /\ \A A : Has(queue', A) => Has(queue, A)
        /\ AtMostOne(queue, Turn) => AtMostOne(queue', Turn)
    BY <1>1, Zenon DEF First, Sent
  <1>7. Up # {} \/ Has(queue, End) \/ Has(queue, Release)
    BY <1>0, <1>4 DEF Announced
  <1>8. Live = Up /\ ~Has(queue, Accept)
    <2>1. CASE Up # {}
      <3>1. Up \subseteq Live /\ Live # {}
        BY <2>1 DEF Up, Live
      <3>2. Live = Up
        BY <1>0, <2>1, <3>1 DEF InPlace
      <3> QED
        BY <1>0, <3>1, <3>2, Parts, HasLess DEF OneTurn
    <2>2. CASE Has(queue, End) \/ Has(queue, Release)
      <3>1. Accept \cap End = {} /\ Accept \cap Release = {}
        BY DEF Accept, End, Release
      <3>2. ~Has(queue, Accept)
        BY <1>0, <2>2, <3>1, Parts, OneOfThem DEF OneTurn
      <3>3. Has(queue, Turn)
        BY <2>2, Parts, HasLess
      <3>4. Live = {}
        BY <1>0, <3>3 DEF OneTurn
      <3> QED
        BY <3>2, <3>4 DEF Live, Up
    <2> QED
      BY <1>7, <2>1, <2>2
  <1>9. Taken(1)
    BY <1>0, <1>4 DEF Idle
  <1>10. Live' = Live /\ Up' = Up /\ T' = T /\ Taken(1)' = Taken(1)
    BY <1>2 DEF Live, Up, T, Taken
  <1>11. ~Has(queue', Stand) /\ ~Has(queue', Start)
    BY <1>5, Parts, HasLess
  <1> HIDE DEF h
  <1>12. OneTurn'
    BY <1>0, <1>2, <1>6, <1>10 DEF OneTurn
  <1>13. InPlace'
    BY <1>0, <1>2, <1>6, <1>10 DEF InPlace, Elsewhere, ElseReleased
  <1>14. Announced'
    BY <1>5, <1>6, <1>8, <1>10, <1>11, NoneBehind, NoneBetween DEF Announced
  <1> QED
    BY <1>9, <1>10, <1>12, <1>13, <1>14 DEF TurnInv, Idle

\* The stream is up, or fails.
LEMMA TurnStackConfirms ==
    ASSUME TypeInv, TurnInv, NEW s \in Sink, StackConfirms(s)
    PROVE  TurnInv'
  <1> SUFFICES ASSUME closed = 0, closed' = 0
               PROVE  TurnInv'
    BY DEF TurnInv, StackConfirms
  <1>0. OneTurn /\ InPlace /\ Idle /\ Announced
    BY DEF TurnInv
  <1>1. UNCHANGED <<transport, pending, session, closed>> /\ conn \in [Sink -> ConnType]
    BY StreamFrame DEF StreamStep, Link, libVars, appVars, TypeInv, DataType
  <1>2. PICK x, ok : /\ Added(x) /\ ok \in BOOLEAN
                     /\ Says(x, "RFCOMM_SERVER_CONNECT_CFM", s, conn[s].channel, ok)
                     /\ ok => /\ conn[s].state = "accepted"
                              /\ conn' = [conn EXCEPT ![s].state = "up"]
                     /\ ~ok => /\ conn[s].state \in {"accepted", "declined"}
                               /\ conn' = [conn EXCEPT ![s] = NoConn]
    BY StreamEffect, Zenon
  <1>3. x \in Message /\ Sent(queue, {x}) /\ x.id = "RFCOMM_SERVER_CONNECT_CFM" /\ x.sink = s
        /\ x.channel = conn[s].channel /\ (x.ok <=> ok)
    <2>1. x.id = "RFCOMM_SERVER_CONNECT_CFM" /\ x.sink = s /\ x.channel = conn[s].channel
          /\ (x.ok <=> ok)
      BY <1>2, Zenon DEF Says
    <2> QED
      BY <1>2, <2>1, AddedSent
  <1>4. CASE ~ok
    <2>1. x \notin Weighty /\ Comes({x})
      BY <1>3, <1>4, Light DEF Comes
    <2>2. SameWeight
      BY <1>3, <2>1, LightComes
    <2>3. Live' \subseteq Live /\ Up' = Up
      BY <1>1, <1>2, <1>4 DEF Live, Up, NoConn
    <2>4. \A r \in Live' : conn'[r].channel = conn[r].channel
      BY <1>1, <1>2, <1>4 DEF Live, NoConn
    <2>5. \A r \in Sink : conn'[r].state = "leaving" => conn[r].state = "leaving"
      BY <1>1, <1>2, <1>4 DEF NoConn
    <2> QED
      BY <1>1, <2>2, <2>3, <2>4, <2>5, TurnStays
  <1>5. CASE ok
    <2>1. s \in Live /\ s \notin Up
      BY <1>2, <1>5 DEF Live, Up
    <2>2. /\ Taken(1) /\ Live = {s} /\ s = T.sink /\ conn[s].channel = T.rfcomm_channel
          /\ ~Has(pending, Release) /\ ~Has(queue, Turn)
          /\ ~Has(queue, End) /\ ~Has(queue, Release)
      BY <1>0, <2>1, Quietly, Parts
    <2>3. Up = {}
      BY <2>1, <2>2 DEF Up, Live
    <2>4. ~Has(queue, Stand) /\ ~Has(queue, Start) /\ ~session
      BY <1>0, <2>2, <2>3 DEF Announced
    <2>5. ~Has(queue, News)
      BY <2>4 DEF Has, News
    <2>6. /\ x \in Stand /\ x \notin Start /\ x \notin Turn /\ x \notin Asked
          /\ x \notin Elsewhere(T.sink, T.rfcomm_channel)
      BY <1>3, <1>5, <2>2, Weights, Parts DEF Elsewhere
    <2>7. Live' = {s} /\ Up' = {s}
      BY <1>1, <1>2, <1>5, <2>2, <2>3 DEF Live, Up, ConnType
    <2>8. conn'[s].channel = conn[s].channel
          /\ \A r \in Sink : conn'[r].state = "leaving" => conn[r].state = "leaving"
      BY <1>1, <1>2, <1>5 DEF ConnType
    <2>9. T' = T /\ Taken(1)' = Taken(1)
      BY <1>1 DEF T, Taken
    <2>10. ~Has(queue', Turn) /\ ~Has(queue', Start) /\ ~Has(queue', Asked)
           /\ ~Has(queue', Elsewhere(T.sink, T.rfcomm_channel)) /\ AtMostOne(queue', News)
      BY <1>0, <1>3, <2>2, <2>4, <2>5, <2>6 DEF Sent, InPlace
    <2>11. ~Has(queue', End)
      BY <2>10, Parts, HasLess
    <2>12. OneTurn'
      BY <1>0, <1>1, <2>2, <2>10, NoneBetween DEF OneTurn
    <2>13. InPlace'
      BY <1>0, <1>1, <2>2, <2>7, <2>8, <2>9, <2>10 DEF InPlace, Elsewhere, ElseReleased
    <2>14. Announced'
      BY <1>1, <2>4, <2>7, <2>10, <2>11, NoneBehind DEF Announced
    <2> QED
      BY <2>2, <2>9, <2>12, <2>13, <2>14 DEF TurnInv, Idle
  <1> QED
    BY <1>2, <1>4, <1>5

\* The phone goes.
LEMMA TurnPhoneDisconnects ==
    ASSUME TypeInv, TurnInv, NEW s \in Sink, PhoneDisconnects(s)
    PROVE  TurnInv'
  <1> SUFFICES ASSUME closed = 0, closed' = 0
               PROVE  TurnInv'
    BY DEF TurnInv, PhoneDisconnects, historyVars
  <1>0. OneTurn /\ InPlace /\ Idle /\ Announced
    BY DEF TurnInv
  <1>1. /\ UNCHANGED <<transport, pending, session>> /\ conn \in [Sink -> ConnType]
        /\ conn[s].state = "up" /\ conn' = [conn EXCEPT ![s].state = "closing"]
    BY StreamFrame DEF StreamStep, PhoneDisconnects, libVars, appVars, TypeInv, DataType
  <1>2. PICK x : Added(x) /\ Says(x, "RFCOMM_DISCONNECT_IND", s, NULL, TRUE)
    BY StreamEffect, Zenon
  <1>3. x \in Message /\ Sent(queue, {x}) /\ x.id = "RFCOMM_DISCONNECT_IND" /\ x.sink = s
    BY <1>2, AddedSent, SaysKind
  <1>4. s \in Live
    BY <1>1 DEF Live
  <1>5. /\ Taken(1) /\ Live = {s} /\ s = T.sink
        /\ ~Has(pending, Release) /\ ~Has(queue, Turn)
        /\ ~Has(queue, End) /\ ~Has(queue, Accept)
    BY <1>0, <1>4, Quietly, Parts
  <1>6. /\ x \in End /\ x \in Turn /\ x \notin Accept /\ x \notin News /\ x \notin Asked
        /\ x \notin Elsewhere(T.sink, T.rfcomm_channel)
    BY <1>3, <1>5, Weights, Parts DEF Elsewhere
  <1>7. Live' = {} /\ Up' = {}
    BY <1>1, <1>5 DEF Live, Up, ConnType
  <1>8. \A r \in Sink : conn'[r].state = "leaving" => conn[r].state = "leaving"
    BY <1>1 DEF ConnType
  <1>9. x \notin Stand /\ x \notin Start
    BY <1>6, Parts
  <1>10. /\ AtMostOne(queue', Turn) /\ AtMostOne(queue', News) /\ Has(queue', End)
         /\ Has(queue', News) => Has(queue, News)
         /\ ~Has(queue', Asked) /\ ~Has(queue', Accept)
         /\ ~Has(queue', Elsewhere(T.sink, T.rfcomm_channel))
         /\ Before(queue', Stand, End) /\ Before(queue', Start, Release)
    BY <1>0, <1>3, <1>5, <1>6, <1>9 DEF Sent, InPlace, Announced
  <1>11. T' = T /\ Taken(1)' = Taken(1)
    BY <1>1 DEF T, Taken
  <1>12. OneTurn'
    BY <1>0, <1>1, <1>5, <1>7, <1>10 DEF OneTurn
  <1>13. InPlace'
    BY <1>0, <1>1, <1>7, <1>8, <1>10, <1>11 DEF InPlace, Elsewhere, ElseReleased
  <1>14. Announced'
    BY <1>0, <1>1, <1>7, <1>10 DEF Announced
  <1> QED
    BY <1>5, <1>11, <1>12, <1>13, <1>14 DEF TurnInv, Idle

\* The library gives the channel of the stream back.
LEMMA TurnDisconnectInd ==
    ASSUME MaxConnections = 1, TypeInv, TurnInv, HandleDisconnectInd
    PROVE  TurnInv'
  <1> SUFFICES ASSUME closed = 0, closed' = 0
               PROVE  TurnInv'
    BY DisconnectIndEffect DEF TurnInv, historyVars
  <1>0. OneTurn /\ InPlace /\ Idle /\ Announced
    BY DEF TurnInv
  <1> DEFINE h == Head(queue)
             id == "RFCOMM_DISCONNECT_IND"
  <1>1. UNCHANGED <<transport, pending, conn, session>>
    BY DisconnectIndEffect DEF stackVars, appVars
  <1>2. PICK x : /\ Says(x, "RFCOMM_DISCONNECT_RSP", h.sink, NULL, TRUE)
                 /\ \/ FromSink(h.sink) = {} /\ TookOne(id, x)
                    \/ \E y, t : /\ t \in FromSink(h.sink) /\ TookTwo(id, x, y)
                                 /\ Says(y, "RFCOMM_UNREGISTER_REQ", NULL,
                                         transport[t].rfcomm_channel, TRUE)
    BY DisconnectIndEffect, Zenon
  <1>3. x.id = "RFCOMM_DISCONNECT_RSP"
    BY <1>2, SaysKind, Zenon
  <1>4. h \in Message /\ h.id = id
    BY <1>2 DEF TookOne, TookTwo
  <1>5. h \in End /\ h \in Turn /\ h \notin News /\ h \notin Accept
    BY <1>4, Weights, Parts
  <1>6. queue \in Seq(Message) /\ queue # <<>>
    BY <1>2 DEF TookOne, TookTwo, Took
  <1>7. Has(queue, Turn) /\ h \notin Elsewhere(T.sink, T.rfcomm_channel)
    BY <1>0, <1>5, <1>6, TailHas DEF InPlace
  <1>8. h.sink = T.sink
    BY <1>5, <1>7 DEF Elsewhere
  <1>9. FromSink(h.sink) = {1}
    BY <1>8, OneSlot
  <1>10. PICK y, t : /\ t \in FromSink(h.sink) /\ TookTwo(id, x, y)
                     /\ Says(y, "RFCOMM_UNREGISTER_REQ", NULL, transport[t].rfcomm_channel, TRUE)
    BY <1>2, <1>9
  <1>11. y.id = "RFCOMM_UNREGISTER_REQ" /\ y.channel = T.rfcomm_channel
    BY <1>9, <1>10, SaysKind DEF T
  <1>12. First(id) /\ Sent(Tail(queue), {x, y}) /\ x \in Message /\ y \in Message
    BY <1>3, <1>10, <1>11, TwoSent
  <1>13. /\ x \notin Weighty /\ y \in Release /\ y \in Turn /\ y \notin Accept
         /\ y \notin End /\ y \notin News /\ y \notin Asked
         /\ y \notin Elsewhere(T.sink, T.rfcomm_channel)
    BY <1>3, <1>11, <1>12, Light, Weights, Parts DEF Elsewhere
  <1>14. /\ x \notin Turn /\ x \notin Accept /\ x \notin News /\ x \notin Stand /\ x \notin Start
         /\ x \notin Asked /\ x \notin Elsewhere(T.sink, T.rfcomm_channel)
         /\ y \notin Stand /\ y \notin Start
    BY <1>13, Parts
  <1>15. Taken(1) /\ Live = {} /\ Up = {} /\ ~Has(pending, Release) /\ ~Has(Tail(queue), Turn)
    BY <1>0, <1>5, <1>12, Others
  <1>16. ~Has(Tail(queue), Stand)
    BY <1>0, <1>5, <1>12 DEF Announced, First
  <1>17. /\ AtMostOne(queue', Turn) /\ AtMostOne(queue', News) /\ Has(queue', Release)
         /\ ~Has(queue', Stand)
         /\ Has(queue', News) => Has(queue, News)
         /\ Has(queue', Accept) => Has(queue, Accept)
    BY <1>0, <1>12, <1>13, <1>14, <1>15, <1>16, Zenon DEF Sent, First, Announced
  <1>18. /\ ~Has(queue', Asked) /\ ~Has(queue', Elsewhere(T.sink, T.rfcomm_channel))
         /\ Before(queue', Start, Release)
    BY <1>0, <1>12, <1>13, <1>14, Zenon DEF Sent, First, InPlace, Announced
  <1>19. Live' = Live /\ Up' = Up /\ T' = T /\ Taken(1)' = Taken(1)
    BY <1>1 DEF Live, Up, T, Taken
  <1> HIDE DEF h
  <1>20. OneTurn'
    BY <1>0, <1>1, <1>15, <1>17, <1>19 DEF OneTurn
  <1>21. InPlace'
    BY <1>0, <1>1, <1>18, <1>19 DEF InPlace, Elsewhere, ElseReleased
  <1>22. Announced'
    BY <1>0, <1>1, <1>17, <1>18, <1>19, NoneBehind DEF Announced
  <1> QED
    BY <1>15, <1>19, <1>20, <1>21, <1>22 DEF TurnInv, Idle

\* A request goes to BlueStack.
LEMMA TurnForward ==
    ASSUME TypeInv, TurnInv, ForwardRequest
    PROVE  TurnInv'
  <1> SUFFICES ASSUME closed = 0, closed' = 0
               PROVE  TurnInv'
    BY DEF TurnInv, ForwardRequest, historyVars
  <1>0. OneTurn /\ InPlace /\ Idle /\ Announced
    BY DEF TurnInv
  <1> DEFINE h == Head(queue)
             c == T.rfcomm_channel
  <1>1. PICK id \in Request : TookNone(id)
    BY SilentEffect
  <1>2. /\ pending' = Append(pending, h) /\ UNCHANGED <<transport, session, conn, closed>>
        /\ pending \in Seq(Message)
    BY DEF ForwardRequest, libVars, appVars, historyVars, TypeInv
  <1>3. First(id) /\ Sent(Tail(queue), {}) /\ Comes({})
    <2>1. First(id) /\ Sent(Tail(queue), {})
      BY <1>1, NoneSent
    <2> QED
      BY <2>1, Zenon DEF Comes
  <1>4. h \in Message /\ h.id = id
    BY <1>3 DEF First
  <1>5. Live' = Live /\ Up' = Up /\ T' = T /\ Taken(1)' = Taken(1)
    BY <1>2 DEF Live, Up, T, Taken
  <1> HIDE DEF h
  <1>6. \A A : /\ Has(pending', A) <=> h \in A \/ Has(pending, A)
               /\ AtMostOne(pending, A) /\ (h \in A => ~Has(pending, A)) => AtMostOne(pending', A)
    BY <1>2, <1>4, PendingKind
  <1>7. CASE h \notin Release
    <2>1. h \notin Weighty
      <3>1. id # "RFCOMM_UNREGISTER_REQ"
        BY <1>4, <1>7 DEF Release
      <3> QED
        BY <1>4, <3>1, Light DEF Request, SdpRequest
    <2>2. SameWeight
      BY <1>3, <2>1, LightComes DEF h
    <2>3. h \notin ElseReleased(c)
      BY <1>7 DEF ElseReleased
    <2>4. \A A \in {Release, ElseReleased(c)} : Has(pending', A) => Has(pending, A)
      BY <1>6, <1>7, <2>3
    <2> HIDE DEF c
    <2>5. AtMostOne(pending, Release) => AtMostOne(pending', Release)
      BY <1>6, <1>7
    <2> QED
      BY <1>2, <1>5, <2>2, <2>4, <2>5, TurnStays DEF c
  <1>8. CASE h \in Release
    <2>1. h \in Turn /\ h \notin Accept /\ h \notin End
      BY <1>4, <1>8, Weights, Parts DEF Release
    <2>2. /\ Taken(1) /\ Live = {} /\ Up = {} /\ ~Has(pending, Release)
          /\ ~Has(Tail(queue), Turn) /\ ~Has(queue, Accept) /\ ~Has(queue, End)
          /\ h \notin Elsewhere(T.sink, c)
      BY <1>0, <1>3, <2>1, Others, Parts DEF h
    <2>3. h.channel = c
      BY <1>8, <2>1, <2>2 DEF Elsewhere
    <2>4. ~Has(queue', Turn) /\ \A A : Has(queue', A) => Has(queue, A)
      BY <1>3, <2>2 DEF First, Sent
    <2>5. ~Has(queue, Stand) /\ ~Has(Tail(queue), Start)
      BY <1>0, <1>3, <1>8, <2>2 DEF Announced, First, h
    <2>6. ~Has(queue', Stand) /\ ~Has(queue', Start) /\ AtMostOne(queue', News)
      BY <1>0, <1>3, <2>5 DEF Announced, First, Sent
    <2>7. AtMostOne(pending', Release) /\ ~Has(pending', ElseReleased(c))
      BY <1>0, <1>6, <2>2, <2>3 DEF OneTurn, InPlace, ElseReleased
    <2>8. OneTurn'
      BY <1>5, <2>2, <2>4, <2>7, NoneBetween DEF OneTurn
    <2>9. InPlace'
      BY <1>0, <1>2, <1>5, <2>4, <2>7 DEF InPlace, Elsewhere, ElseReleased
    <2>10. Announced'
      BY <1>0, <1>2, <1>5, <2>4, <2>6, NoneBehind DEF Announced
    <2> QED
      BY <1>5, <2>2, <2>8, <2>9, <2>10 DEF TurnInv, Idle
  <1> QED
    BY <1>7, <1>8

\* BlueStack's answer.
LEMMA TurnAnswers ==
    ASSUME TypeInv, TurnInv, StackAnswers
    PROVE  TurnInv'
  <1> SUFFICES ASSUME closed = 0, closed' = 0
               PROVE  TurnInv'
    BY StackAnswersEffect DEF TurnInv
  <1>0. OneTurn /\ InPlace /\ Idle /\ Announced
    BY DEF TurnInv
  <1> DEFINE c == T.rfcomm_channel
  <1>1. PICK i \in 1..Len(pending), ok \in BOOLEAN : \E x :
            /\ Added(x) /\ pending' = RemoveAt(pending, i)
            /\ pending[i] \in Message /\ Answers(pending[i], ok, x)
    BY StackAnswersEffect, Zenon
  <1>2. PICK x : /\ Added(x) /\ pending' = RemoveAt(pending, i)
                 /\ pending[i] \in Message /\ Answers(pending[i], ok, x)
    BY <1>1
  <1>3. UNCHANGED <<transport, session, conn, closed>>
    BY StackAnswersEffect DEF libVars, appVars
  <1> DEFINE r == pending[i]
  <1>4. /\ \A A : Has(pending', A) => Has(pending, A)
        /\ \A A : AtMostOne(pending, A) => AtMostOne(pending', A)
        /\ \A A : AtMostOne(pending, A) /\ r \in A => ~Has(pending', A)
        /\ \A A : r \in A => Has(pending, A)
    <2>1. pending \in Seq(Message)
      BY DEF TypeInv
    <2>2. \A A : r \in A => Has(pending, A)
      BY DEF Has
    <2> QED
      BY <1>2, <2>1, <2>2, Removed
  <1>5. Answers(r, ok, x) /\ r \in Message /\ x \in Message /\ Sent(queue, {x})
    BY <1>2, AddedSent
  <1>6. Live' = Live /\ Up' = Up /\ T' = T /\ Taken(1)' = Taken(1)
    BY <1>3 DEF Live, Up, T, Taken
  <1> HIDE DEF r
  <1>7. x \in Weighty => /\ r \in Release /\ ok /\ x.channel = r.channel
                         /\ x.id = "RFCOMM_UNREGISTER_CFM" /\ x.ok
    <2>1. CASE r.id = "RFCOMM_UNREGISTER_REQ"
      <3>1. Says(x, "RFCOMM_UNREGISTER_CFM", NULL, r.channel, ok)
        BY <1>5, <2>1 DEF Answers
      <3>2. x.id = "RFCOMM_UNREGISTER_CFM" /\ x.channel = r.channel /\ (x.ok <=> ok)
        BY <3>1, Zenon DEF Says
      <3> QED
        BY <1>5, <2>1, <3>2, Light DEF Release
    <2>2. CASE r.id # "RFCOMM_UNREGISTER_REQ"
      <3>1. x.id \in {"RFCOMM_REGISTER_CFM", "SDP_REGISTER_CFM", "SDP_UNREGISTER_CFM"}
        BY <1>5, <2>2, AnswerKinds
      <3> QED
        BY <3>1, Light
    <2> QED
      BY <2>1, <2>2
  <1>8. CASE x \notin Weighty
    <2>1. Comes({x})
      BY <1>5 DEF Comes
    <2>2. SameWeight
      BY <1>5, <1>8, <2>1, LightComes
    <2> QED
      BY <1>3, <1>4, <1>6, <2>2, TurnStays
  <1>9. CASE x \in Weighty
    <2>1. /\ x \in Released /\ x \in Turn /\ x \notin Accept /\ x \notin End /\ x \notin Release
          /\ x \notin News /\ x \notin Stand /\ x \notin Start /\ x \notin Asked
      BY <1>5, <1>7, <1>9, Weights, Parts
    <2>2. Has(pending, Release) /\ ~Has(pending', Release) /\ r.channel = c
      BY <1>0, <1>4, <1>7, <1>9 DEF OneTurn, InPlace, ElseReleased
    <2>3. ~Has(queue, Turn) /\ Live = {} /\ Up = {} /\ Taken(1)
      BY <1>0, <2>2 DEF OneTurn, Idle, Live, Up
    <2>4. ~Has(queue, End) /\ ~Has(queue, Accept) /\ ~Has(queue, Release)
      BY <2>3, Parts, HasLess
    <2>5. ~Has(queue, Stand) /\ ~Has(queue, Start)
      BY <1>0, <2>3, <2>4 DEF Announced
    <2>6. x \notin Elsewhere(T.sink, c)
      BY <1>7, <1>9, <2>1, <2>2 DEF Elsewhere, Released, Accept, End, Stand, Over, Start
    <2>7. /\ AtMostOne(queue', Turn) /\ AtMostOne(queue', News) /\ ~Has(queue', Stand)
          /\ ~Has(queue', Start) /\ ~Has(queue', Accept) /\ ~Has(queue', Asked)
          /\ ~Has(queue', Elsewhere(T.sink, c)) /\ (Has(queue', News) => Has(queue, News))
      BY <1>0, <1>5, <2>1, <2>3, <2>4, <2>5, <2>6 DEF Sent, InPlace, Announced
    <2>8. OneTurn'
      BY <1>0, <1>4, <1>6, <2>2, <2>3, <2>7 DEF OneTurn
    <2>9. InPlace'
      BY <1>0, <1>3, <1>4, <1>6, <2>7 DEF InPlace, Elsewhere, ElseReleased
    <2>10. Announced'
      BY <1>0, <1>3, <1>6, <2>7, NoneBehind DEF Announced
    <2> QED
      BY <1>6, <2>3, <2>8, <2>9, <2>10 DEF TurnInv, Idle
  <1> QED
    BY <1>8, <1>9

\* The channel is free: the application will drop the slot.
LEMMA TurnUnregisterCfm ==
    ASSUME MaxConnections = 1, TypeInv, TurnInv, HandleUnregisterCfm
    PROVE  TurnInv'
  <1> SUFFICES ASSUME closed = 0, closed' = 0
               PROVE  TurnInv'
    BY UnregisterCfmEffect DEF TurnInv, historyVars
  <1>0. OneTurn /\ InPlace /\ Idle /\ Announced
    BY DEF TurnInv
  <1> DEFINE h == Head(queue)
             id == "RFCOMM_UNREGISTER_CFM"
  <1>1. UNCHANGED <<transport, pending, conn, session, closed>>
    BY UnregisterCfmEffect DEF stackVars, appVars, historyVars
  <1>2. Live' = Live /\ Up' = Up /\ T' = T /\ Taken(1)' = Taken(1)
    BY <1>1 DEF Live, Up, T, Taken
  <1>3. CASE ~h.ok
    <2>1. First(id) /\ Sent(Tail(queue), {})
      BY <1>3, UnregisterCfmEffect, NoneSent
    <2>2. h \notin Weighty
      BY <1>3, <2>1, Light DEF First
    <2>3. Comes({})
      BY <2>1, Zenon DEF Comes
    <2>4. SameWeight
      BY <2>2, <2>3, LightComes
    <2> QED
      BY <1>1, <1>2, <2>4, TurnStays
  <1>4. CASE h.ok
    <2>1. PICK x : /\ TookOne(id, x) /\ x.id = "WECHAT_DISCONNECT_IND"
                   /\ x.slot = FirstOf(FromRfcommChannel(h.channel))
      BY <1>4, UnregisterCfmEffect
    <2>2. First(id) /\ Sent(Tail(queue), {x}) /\ x \in Message
      BY <2>1, OneSent
    <2>3. h \in Message /\ h.id = id
      BY <2>2 DEF First
    <2>4. h \in Released /\ h \in Turn /\ h \notin Accept /\ h \notin End /\ h \notin Release
      BY <1>4, <2>3, Weights, Parts
    <2>5. /\ Taken(1) /\ Live = {} /\ Up = {} /\ ~Has(pending, Release)
          /\ ~Has(Tail(queue), Turn) /\ ~Has(queue, Accept) /\ ~Has(queue, End)
          /\ ~Has(queue, Release) /\ h \notin Elsewhere(T.sink, T.rfcomm_channel)
      BY <1>0, <2>2, <2>4, Others, Parts
    <2>6. h.channel = T.rfcomm_channel
      BY <2>4, <2>5 DEF Elsewhere
    <2>7. x.slot = 1
      BY <2>1, <2>5, <2>6, OneSlot
    <2>8. /\ x \in Over /\ x \in Turn /\ x \notin Accept /\ x \notin End /\ x \notin Release
          /\ x \notin News /\ x \notin Stand /\ x \notin Start /\ x \notin Asked
      BY <2>1, <2>2, Weights, Parts
    <2>9. x \notin Elsewhere(T.sink, T.rfcomm_channel)
      BY <2>1, <2>7 DEF Elsewhere, Accept, End, Stand, Release, Released
    <2> HIDE DEF h
    <2>10. ~Has(queue, Stand) /\ ~Has(queue, Start)
      BY <1>0, <2>5 DEF Announced
    <2>11. /\ AtMostOne(queue', Turn) /\ AtMostOne(queue', News) /\ ~Has(queue', Stand)
           /\ ~Has(queue', Start) /\ ~Has(queue', Accept) /\ ~Has(queue', Asked)
           /\ ~Has(queue', Elsewhere(T.sink, T.rfcomm_channel))
           /\ Has(queue', News) => Has(queue, News)
      BY <1>0, <2>2, <2>5, <2>8, <2>9, <2>10, Zenon DEF First, Sent, InPlace, Announced
    <2>12. OneTurn'
      BY <1>0, <1>1, <1>2, <2>5, <2>11 DEF OneTurn
    <2>13. InPlace'
      BY <1>0, <1>1, <1>2, <2>11 DEF InPlace, Elsewhere, ElseReleased
    <2>14. Announced'
      BY <1>0, <1>1, <1>2, <2>11, NoneBehind DEF Announced
    <2> QED
      BY <1>2, <2>5, <2>12, <2>13, <2>14 DEF TurnInv, Idle
  <1> QED
    BY <1>3, <1>4

\* The slot is free again, and the session is over.
LEMMA TurnWechatDisconnectInd ==
    ASSUME MaxConnections = 1, TypeInv, TurnInv, HandleWechatDisconnectInd
    PROVE  TurnInv'
  <1> SUFFICES ASSUME closed = 0, closed' = 0
               PROVE  TurnInv'
    BY DEF TurnInv, HandleWechatDisconnectInd, historyVars
  <1>0. OneTurn /\ InPlace /\ Idle /\ Announced
    BY DEF TurnInv
  <1> DEFINE h == Head(queue)
             id == "WECHAT_DISCONNECT_IND"
  <1>1. UNCHANGED <<pending, conn>> /\ ~session' /\ Slot = {1} /\ 1 # NULL /\ DataType
    BY OneSlot DEF HandleWechatDisconnectInd, stackVars, TypeInv
  <1>2. First(id) /\ Sent(Tail(queue), {})
    BY SilentEffect, NoneSent
  <1>3. h \in Message /\ h.id = id
    BY <1>2 DEF First
  <1>4. h \in Over /\ h \in Turn /\ h \notin End /\ h \notin Release
    BY <1>3, Weights, Parts
  <1>5. /\ Taken(1) /\ Live = {} /\ Up = {} /\ ~Has(pending, Release) /\ ~Has(Tail(queue), Turn)
        /\ ~Has(queue, End) /\ ~Has(queue, Release)
        /\ h \notin Elsewhere(T.sink, T.rfcomm_channel)
    BY <1>0, <1>2, <1>4, Others, Parts
  <1>6. h.slot = 1
    BY <1>4, <1>5 DEF Elsewhere
  <1>7. DropState(1)
    BY <1>1, <1>6 DEF HandleWechatDisconnectInd
  <1>8. ~Taken(1)'
    BY <1>1, <1>7, DropEffect
  <1>9. ~Has(queue, Stand) /\ ~Has(queue, Start)
    BY <1>0, <1>5 DEF Announced
  <1>10. ~Has(queue, News)
    BY <1>9 DEF Has, News
  <1> HIDE DEF h
  <1>11. ~Has(queue', Turn) /\ \A A : Has(queue', A) => Has(queue, A)
    BY <1>2, <1>5, Zenon DEF First, Sent
  <1>12. ~Has(queue', News) /\ ~Has(queue', Stand) /\ ~Has(queue', Start) /\ ~Has(queue', Asked)
    BY <1>0, <1>9, <1>10, <1>11 DEF InPlace
  <1>13. \A s, c : ~Has(queue', Elsewhere(s, c))
    BY <1>11, <1>12, InPlaceQueue
  <1>14. \A c : ~Has(pending', ElseReleased(c))
    BY <1>1, <1>5, HasLess DEF ElseReleased
  <1>15. Live' = {} /\ Up' = {}
    BY <1>1, <1>5 DEF Live, Up
  <1>16. OneTurn'
    BY <1>0, <1>1, <1>5, <1>11, NoneBetween DEF OneTurn
  <1>17. InPlace'
    <2>1. ~Has(queue', Elsewhere(T'.sink, T'.rfcomm_channel))
          /\ ~Has(pending', ElseReleased(T'.rfcomm_channel))
      BY <1>13, <1>14
    <2> QED
      BY <1>0, <1>1, <1>12, <1>15, <2>1 DEF InPlace, Elsewhere, ElseReleased
  <1>18. Announced'
    BY <1>1, <1>12, NoneBehind, NoneBetween DEF Announced
  <1>19. Idle'
    BY <1>1, <1>5, <1>11, <1>12, <1>15 DEF Idle
  <1> QED
    BY <1>16, <1>17, <1>18, <1>19 DEF TurnInv

\* Steps that leave the turn alone, or do not happen.
LEMMA TurnOther ==
    ASSUME TypeInv, TurnInv,
           \/ HandleRegisterCfm \/ HandleSdpRegisterCfm \/ HandleSdpUnregisterCfm
           \/ HandleDisconnectCfm \/ DisconnectReq \/ DisconnectRsp
    PROVE  TurnInv'
  <1>0. conn \in [Sink -> ConnType]
    BY DEF TypeInv, DataType
  <1>1. CASE HandleRegisterCfm \/ HandleSdpRegisterCfm \/ HandleSdpUnregisterCfm
    <2>1. UNCHANGED <<transport, session, pending, conn, closed>>
      BY <1>1 DEF HandleRegisterCfm, HandleSdpRegisterCfm, HandleSdpUnregisterCfm, libVars,
         appVars, stackVars, historyVars
    <2> DEFINE Goal == \E n : /\ Comes(n) /\ Head(queue) \notin Weighty
                              /\ \A x \in n : x \notin Weighty
    <2>2. ASSUME NEW id \in {"RFCOMM_REGISTER_CFM", "SDP_REGISTER_CFM", "SDP_UNREGISTER_CFM"},
                 NEW n, First(id), Sent(Tail(queue), n),
                 \A x \in n : x.id \in {"SDP_REGISTER_REQ", "RFCOMM_REGISTER_REQ"}
          PROVE  Goal
      <3>1. Comes(n)
        BY <2>2, Zenon DEF Comes
      <3>2. Head(queue) \notin Weighty
        BY <2>2, Light DEF First
      <3>3. \A x \in n : x \notin Weighty
        BY <2>2, Light
      <3> QED
        BY <3>1, <3>2, <3>3
    <2> HIDE DEF Goal
    <2>3. Goal
      <3>1. CASE HandleRegisterCfm
        <4>1. \/ TookNone("RFCOMM_REGISTER_CFM")
              \/ \E x : TookOne("RFCOMM_REGISTER_CFM", x) /\ x.id = "SDP_REGISTER_REQ"
          BY <3>1, RegisterCfmEffect, SaysKind, Zenon
        <4>2. CASE TookNone("RFCOMM_REGISTER_CFM")
          <5>1. First("RFCOMM_REGISTER_CFM") /\ Sent(Tail(queue), {})
            BY <4>2, NoneSent
          <5> QED
            BY <2>2, <5>1
        <4>3. ASSUME NEW x, TookOne("RFCOMM_REGISTER_CFM", x), x.id = "SDP_REGISTER_REQ"
              PROVE  Goal
          <5>1. First("RFCOMM_REGISTER_CFM") /\ Sent(Tail(queue), {x})
            BY <4>3, OneSent
          <5> QED
            BY <2>2, <4>3, <5>1
        <4> QED
          BY <4>1, <4>2, <4>3
      <3>2. CASE HandleSdpRegisterCfm
        BY <2>2, <3>2, SilentEffect, NoneSent
      <3>3. CASE HandleSdpUnregisterCfm
        <4>1. \/ TookNone("SDP_UNREGISTER_CFM")
              \/ TookOne("SDP_UNREGISTER_CFM", Blank) /\ Blank.id = "RFCOMM_REGISTER_REQ"
          BY <3>3, SdpUnregisterCfmEffect, BlankSent, Zenon
        <4>2. CASE TookNone("SDP_UNREGISTER_CFM")
          <5>1. First("SDP_UNREGISTER_CFM") /\ Sent(Tail(queue), {})
            BY <4>2, NoneSent
          <5> QED
            BY <2>2, <5>1
        <4>3. CASE TookOne("SDP_UNREGISTER_CFM", Blank) /\ Blank.id = "RFCOMM_REGISTER_REQ"
          <5>1. First("SDP_UNREGISTER_CFM") /\ Sent(Tail(queue), {Blank})
            BY <4>3, OneSent
          <5> QED
            BY <2>2, <4>3, <5>1
        <4> QED
          BY <4>1, <4>2, <4>3
      <3> QED
        BY <1>1, <3>1, <3>2, <3>3
    <2>4. SameWeight
      BY <2>3, LightComes DEF Goal
    <2> QED
      BY <2>1, <2>4, TurnStays DEF Live, Up
  <1>2. CASE HandleDisconnectCfm \/ DisconnectReq
    <2>1. PICK id \in {"RFCOMM_DISCONNECT_CFM", "RFCOMM_DISCONNECT_REQ"} : First(id)
      <3>1. CASE HandleDisconnectCfm
        BY <3>1, SilentEffect, NoneSent
      <3>2. CASE DisconnectReq
        <4>1. TookNone("RFCOMM_DISCONNECT_REQ") \/ \E x : TookOne("RFCOMM_DISCONNECT_REQ", x)
          BY <3>2, DisconnectReqEffect, Zenon
        <4> QED
          BY <4>1, NoneSent, OneSent
      <3> QED
        BY <1>2, <3>1, <3>2
    <2>2. Head(queue) \in Asked
      BY <2>1, Weights DEF First
    <2>3. Has(queue, Asked)
      BY <2>1, <2>2 DEF First
    <2>4. closed # 0 /\ closed' = closed
      BY <1>2, <2>3 DEF TurnInv, InPlace, HandleDisconnectCfm, DisconnectReq, historyVars
    <2> QED
      BY <2>4 DEF TurnInv
  <1>3. CASE DisconnectRsp
    <2> DEFINE s == Head(queue).sink
    <2>1. /\ UNCHANGED <<transport, session, pending, closed>>
          /\ conn' = IF conn[s].state = "closing" THEN [conn EXCEPT ![s] = NoConn] ELSE conn
      BY <1>3 DEF DisconnectRsp, libVars, appVars, historyVars
    <2>2. First("RFCOMM_DISCONNECT_RSP") /\ Sent(Tail(queue), {})
      BY <1>3, SilentEffect, NoneSent
    <2>3. Comes({}) /\ Head(queue) \notin Weighty
      <3>1. Comes({})
        BY <2>2, Zenon DEF Comes
      <3> QED
        BY <2>2, <3>1, Light DEF First
    <2>4. SameWeight
      BY <2>3, LightComes
    <2>5. Live' = Live /\ Up' = Up
      BY <1>0, <2>1 DEF Live, Up, NoConn
    <2>6. /\ \A r \in Live' : conn'[r].channel = conn[r].channel
          /\ \A r \in Sink : conn'[r].state = "leaving" => conn[r].state = "leaving"
      BY <1>0, <2>1 DEF Live, NoConn
    <2> QED
      BY <2>1, <2>4, <2>5, <2>6, TurnStays
  <1> QED
    BY <1>1, <1>2, <1>3

\* A phone asks for a stream; the headset does not end one.
LEMMA TurnStream ==
    ASSUME TypeInv, TurnInv, NEW s \in Sink, StreamStep(s)
    PROVE  TurnInv'
  <1>0. conn \in [Sink -> ConnType] /\ UNCHANGED <<transport, session, pending, closed>>
    BY StreamFrame DEF TypeInv, DataType, libVars, appVars
  <1>1. ASSUME NEW c \in Channel, PhoneConnects(s, c)
        PROVE  TurnInv'
    <2>1. PICK x : Added(x) /\ Says(x, "RFCOMM_CONNECT_IND", s, c, TRUE)
      BY <1>1, StreamEffect, Zenon
    <2>2. x.id = "RFCOMM_CONNECT_IND"
      BY <2>1, SaysKind, Zenon
    <2>3. Sent(queue, {x}) /\ x \notin Weighty
      BY <2>1, <2>2, AddedSent, Light
    <2>4. Comes({x})
      BY <2>3 DEF Comes
    <2>5. SameWeight
      BY <2>3, <2>4, LightComes
    <2>6. conn[s].state = "none" /\ conn' = [conn EXCEPT ![s] = [state |-> "asked", channel |-> c]]
      BY <1>1 DEF PhoneConnects
    <2>7. Live' = Live /\ Up' = Up
      BY <1>0, <2>6 DEF Live, Up
    <2>8. /\ \A r \in Live' : conn'[r].channel = conn[r].channel
          /\ \A r \in Sink : conn'[r].state = "leaving" => conn[r].state = "leaving"
      BY <1>0, <2>6 DEF Live
    <2> QED
      BY <1>0, <2>5, <2>7, <2>8, TurnStays
  <1>2. CASE StackDisconnects(s)
    <2>1. conn[s].state = "leaving"
      BY <1>2 DEF StackDisconnects
    <2>2. closed # 0
      BY <2>1 DEF TurnInv, InPlace
    <2> QED
      BY <1>0, <2>2 DEF TurnInv
  <1> QED
    BY <1>1, <1>2, TurnStackConfirms, TurnPhoneDisconnects DEF StreamStep, Link

LEMMA InitTurn ==
    ASSUME queue = <<Blank>>, pending = <<>>, conn = [s \in Sink |-> NoConn], session = FALSE
    PROVE  TurnInv
  <1>1. Blank \notin Weighty /\ Blank \in Message
    BY BlankSent, Light
  <1>2. \A A : A \subseteq Weighty => ~Has(queue, A)
    BY <1>1, Short
  <1>3. \A A : ~Has(pending, A)
    BY <1>1, Short
  <1>4. Live = {} /\ Up = {} /\ \A s \in Sink : conn[s].state # "leaving"
    BY DEF Live, Up, NoConn
  <1>5. /\ ~Has(queue, Turn) /\ ~Has(queue, News) /\ ~Has(queue, Asked) /\ ~Has(queue, Stand)
        /\ ~Has(queue, Start) /\ ~Has(queue, Accept)
        /\ ~Has(queue, Elsewhere(T.sink, T.rfcomm_channel))
    BY <1>2, Parts, Zenon
  <1>6. OneTurn
    BY <1>3, <1>4, <1>5, NoneBetween DEF OneTurn
  <1>7. InPlace
    BY <1>3, <1>4, <1>5 DEF InPlace
  <1>8. Idle
    BY <1>3, <1>4, <1>5 DEF Idle
  <1>9. Announced
    BY <1>5, NoneBehind, NoneBetween DEF Announced
  <1> QED
    BY <1>6, <1>7, <1>8, <1>9 DEF TurnInv

LEMMA RebootTurn ==
    ASSUME Reboot
    PROVE  TurnInv'
  <1>0. /\ queue' = <<Blank>> /\ pending' = <<>>
        /\ conn' = [s \in Sink |-> NoConn] /\ session' = FALSE
    BY DEF Reboot
  <1>1. Blank \notin Weighty /\ Blank \in Message
    BY BlankSent, Light
  <1>2. \A A : A \subseteq Weighty => ~Has(queue', A)
    BY <1>0, <1>1, Short
  <1>3. \A A : ~Has(pending', A)
    BY <1>0, <1>1, Short
  <1>4. Live' = {} /\ Up' = {} /\ \A s \in Sink : conn'[s].state # "leaving"
    BY <1>0 DEF Live, Up, NoConn
  <1>5. /\ ~Has(queue', Turn) /\ ~Has(queue', News) /\ ~Has(queue', Asked) /\ ~Has(queue', Stand)
        /\ ~Has(queue', Start) /\ ~Has(queue', Accept)
        /\ ~Has(queue', Elsewhere(T'.sink, T'.rfcomm_channel))
    BY <1>2, Parts, Zenon
  <1>6. OneTurn'
    BY <1>0, <1>3, <1>4, <1>5, NoneBetween DEF OneTurn
  <1>7. InPlace'
    BY <1>0, <1>3, <1>4, <1>5 DEF InPlace
  <1>8. Idle'
    BY <1>0, <1>3, <1>4, <1>5 DEF Idle
  <1>9. Announced'
    BY <1>0, <1>5, NoneBehind, NoneBetween DEF Announced
  <1> QED
    BY <1>6, <1>7, <1>8, <1>9 DEF TurnInv

LEMMA NextTurn ==
    ASSUME MaxConnections = 1, TypeInv, StreamInv, TurnInv, [Next]_vars
    PROVE  TurnInv'
  <1>1. CASE UNCHANGED <<transport, session, queue, pending, conn, closed>>
    <2>1. Live' = Live /\ Up' = Up /\ T' = T /\ Taken(1)' = Taken(1)
      BY <1>1 DEF Live, Up, T, Taken
    <2> QED
      BY <1>1, <2>1 DEF TurnInv, OneTurn, InPlace, Idle, Announced, Elsewhere, ElseReleased
  <1>2. CASE Handler
    BY <1>2, TurnOther, TurnConnectInd, TurnConnectRes, TurnServerConnectCfm, TurnDisconnectInd,
       TurnUnregisterCfm, TurnWechatConnectInd, TurnWechatDisconnectInd, TurnForward
    DEF Handler, TransportHandler
  <1>3. CASE WechatDisconnect
    <2>1. closed' # 0
      BY <1>3, WechatDisconnectEffect DEF TypeInv, CountType
    <2> QED
      BY <2>1 DEF TurnInv
  <1>4. CASE StackAnswers
    BY <1>4, TurnAnswers
  <1>5. CASE \E s \in Sink : StreamStep(s)
    BY <1>5, TurnStream
  <1>6. CASE StrayAccess
    BY <1>1, <1>6 DEF StrayAccess, libVars, appVars, stackVars, historyVars
  <1>7. CASE Reboot
    BY <1>7, RebootTurn
  <1>8. CASE UNCHANGED vars
    BY <1>1, <1>8 DEF vars, libVars, appVars, stackVars, historyVars
  <1> QED
    BY <1>2, <1>3, <1>4, <1>5, <1>6, <1>7, <1>8 DEF Next, StreamStep

\* Whoever has the turn finds the slot.
LEMMA TurnFindsSlot ==
    ASSUME MaxConnections = 1, TypeInv, TurnInv
    PROVE  NoStray
  <1> SUFFICES ASSUME closed = 0, queue # <<>>
               PROVE  ~NoSlot(Head(queue)) /\ ~(Head(queue).id = "WECHAT_CONNECT_IND" /\ session)
    BY DEF NoStray
  <1> DEFINE h == Head(queue)
  <1>0. OneTurn /\ InPlace /\ Idle /\ Announced
    BY DEF TurnInv
  <1>1. h \in Message /\ \A A : h \in A => Has(queue, A)
    BY TailHas DEF TypeInv
  <1>2. h \notin Elsewhere(T.sink, T.rfcomm_channel) /\ h \notin Asked
    BY <1>0, <1>1 DEF InPlace
  <1>3. 1 # NULL
    BY OneSlot
  <1> HIDE DEF h
  <1>4. ~(h.id = "RFCOMM_SERVER_CONNECT_CFM" /\ h.ok /\ FromRfcommChannel(h.channel) = {})
    <2>1. SUFFICES ASSUME h.id = "RFCOMM_SERVER_CONNECT_CFM", h.ok
                   PROVE  FromRfcommChannel(h.channel) # {}
      OBVIOUS
    <2>2. h \in Stand /\ h \in News
      BY <1>1, <2>1, Weights, Parts
    <2>3. h.channel = T.rfcomm_channel /\ Taken(1)
      BY <1>0, <1>1, <1>2, <2>2 DEF Elsewhere, Idle
    <2>4. 1 \in Slot
      BY OneSlot
    <2> QED
      BY <2>3, <2>4 DEF FromRfcommChannel, T
  <1>5. ~(h.id \in {"RFCOMM_DISCONNECT_IND", "RFCOMM_DISCONNECT_CFM"} /\ FromSink(h.sink) = {})
    <2>1. h.id # "RFCOMM_DISCONNECT_CFM"
      BY <1>1, <1>2, Weights
    <2>2. h.id = "RFCOMM_DISCONNECT_IND" => h.sink = T.sink
      BY <1>1, <1>2, Weights, Parts DEF Elsewhere
    <2> QED
      BY <2>1, <2>2, OneSlot
  <1>6. ~(h.id \in AppEvent /\ h.slot = NULL)
    BY <1>1, <1>2, <1>3, Weights, Parts DEF Elsewhere, AppEvent
  <1>7. ~(h.id = "WECHAT_CONNECT_IND" /\ session)
    BY <1>0, <1>1, Weights, Parts DEF Announced
  <1> QED
    BY <1>4, <1>5, <1>6, <1>7 DEF NoSlot, h

\* With the one slot of the application, and until the application closes a connection
\* itself: every handler finds the slot that it writes through, and a connection is
\* announced only when there is no session (wechatTransportRfcommHandleServerConnectCfm,
\* wechatTransportRfcommHandleDisconnectInd).
THEOREM NeverStray == MaxConnections = 1 => (Spec => []NoStray)
  <1> SUFFICES ASSUME MaxConnections = 1
               PROVE  Spec => []NoStray
    OBVIOUS
  <1>1. Init => TypeInv /\ StreamInv /\ TurnInv
    <2> SUFFICES ASSUME Init
                 PROVE  TypeInv /\ StreamInv /\ TurnInv
      OBVIOUS
    <2>1. StreamInv
      <3>1. queue = <<Blank>> /\ \A s \in Sink : conn[s].state = "none"
        BY DEF Init, NoConn
      <3> QED
        BY <3>1, InitStream DEF StreamInv
    <2>2. TurnInv
      BY InitTurn DEF Init
    <2> QED
      BY <2>1, <2>2, InitType
  <1>2. TypeInv /\ StreamInv /\ TurnInv /\ [Next]_vars => TypeInv' /\ StreamInv' /\ TurnInv'
    BY NextType, NextStream, NextTurn
  <1>3. TypeInv /\ TurnInv => NoStray
    BY TurnFindsSlot
  <1> QED
    BY <1>1, <1>2, <1>3, PTL DEF Spec

=============================================================================
