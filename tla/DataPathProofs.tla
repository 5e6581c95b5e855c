----------------------------- MODULE DataPathProofs -----------------------------
(***************************************************************************)
(* What is proved about the data path: how a fan-out is shared out, the     *)
(* types of a run with their inductive invariant, that what is written      *)
(* stays, that every step brings a run nearer to its end, and that no       *)
(* temporary table is left.                                                 *)
(***************************************************************************)
EXTENDS PlainRun, SequenceTheorems, FiniteOrders

-----------------------------------------------------------------------------
(* The chunks of a fan-out.                                                *)

LEMMA Division ==
  ASSUME NEW n \in Nat, NEW k \in Nat \ {0}
  PROVE  /\ n \div k \in Nat /\ n % k \in Nat /\ n % k < k
         /\ n = k * (n \div k) + (n % k)
OBVIOUS

\* The closed form is the running index of the loop: it begins at 0, goes on by the
\* length of each chunk, and ends at the length of the universe.
LEMMA RunningIndex ==
  ASSUME NEW n \in Nat, NEW k \in Nat \ {0}
  PROVE  /\ ChunkStart(n, k, 0) = 0
         /\ ChunkStart(n, k, k) = n
         /\ \A c \in Nat : /\ ChunkStart(n, k, c) \in Nat /\ ChunkLength(n, k, c) \in Nat
                           /\ ChunkStart(n, k, c + 1) = ChunkStart(n, k, c) + ChunkLength(n, k, c)
<1> DEFINE q == n \div k
           r == n % k
<1>1. /\ q \in Nat /\ r \in Nat /\ r < k /\ n = k * q + r
      /\ \A c : /\ ChunkStart(n, k, c) = c * q + (IF c < r THEN c ELSE r)
                /\ ChunkLength(n, k, c) = q + (IF c < r THEN 1 ELSE 0)
  BY Division DEF ChunkStart, ChunkLength
<1> HIDE DEF q, r
<1>2. ASSUME NEW c \in Nat PROVE c * q \in Nat /\ (c + 1) * q = c * q + q
  BY <1>1
<1>3. 0 * q = 0
  BY <1>1
<1>4. ASSUME NEW c \in Nat
      PROVE  /\ ChunkStart(n, k, c) \in Nat /\ ChunkLength(n, k, c) \in Nat
             /\ ChunkStart(n, k, c + 1) = ChunkStart(n, k, c) + ChunkLength(n, k, c)
  BY <1>1, <1>2
<1>5. QED BY <1>1, <1>3, <1>4

LEMMA Products ==
  ASSUME NEW a \in Nat, NEW b \in Nat, NEW c \in Nat
  PROVE  /\ a * c \in Nat /\ (a + b) * c = a * c + b * c
         /\ a < b => (a + 1) * c <= b * c
<1>1. a * c \in Nat /\ b * c \in Nat /\ (a + b) * c = a * c + b * c
  OBVIOUS
<1>2. a < b => \E d \in Nat : b = a + 1 + d
  <2>1. HAVE a < b
  <2>2. b - a - 1 \in Nat /\ b = a + 1 + (b - a - 1)
    BY <2>1
  <2>3. QED BY <2>2
<1>3. \A d \in Nat : (a + 1 + d) * c = (a + 1) * c + d * c /\ d * c \in Nat
  OBVIOUS
<1>4. (a + 1) * c \in Nat
  OBVIOUS
<1>5. QED BY <1>1, <1>2, <1>3, <1>4

\* Later chunks start later, so no position is in two chunks.
LEMMA StartsInOrder ==
  ASSUME NEW n \in Nat, NEW k \in Nat \ {0}, NEW c \in Nat, NEW d \in Nat, c < d
  PROVE  ChunkStart(n, k, c) + ChunkLength(n, k, c) <= ChunkStart(n, k, d)
<1> DEFINE q == n \div k
           r == n % k
<1>1. /\ q \in Nat /\ r \in Nat
      /\ \A e : /\ ChunkStart(n, k, e) = e * q + (IF e < r THEN e ELSE r)
                /\ ChunkLength(n, k, e) = q + (IF e < r THEN 1 ELSE 0)
  BY Division DEF ChunkStart, ChunkLength
<1> HIDE DEF q, r
<1>2. c * q \in Nat /\ d * q \in Nat /\ c * q + q <= d * q
  <2>1. (c + 1) * q = c * q + 1 * q /\ 1 * q = q
    BY <1>1
  <2>2. QED BY <1>1, <2>1, Products
<1>3. QED BY <1>1, <1>2

\* Every position is in a chunk: one of the longer ones, or one of the others.
LEMMA InSomeChunk ==
  ASSUME NEW n \in Nat, NEW k \in Nat \ {0}, NEW p \in 0..(n - 1)
  PROVE  \E c \in 0..(k - 1) :
           /\ ChunkStart(n, k, c) <= p
           /\ p < ChunkStart(n, k, c) + ChunkLength(n, k, c)
<1> DEFINE q == n \div k
           r == n % k
<1>1. /\ q \in Nat /\ r \in Nat /\ r < k /\ n = k * q + r
      /\ \A c : /\ ChunkStart(n, k, c) = c * q + (IF c < r THEN c ELSE r)
                /\ ChunkLength(n, k, c) = q + (IF c < r THEN 1 ELSE 0)
  BY Division DEF ChunkStart, ChunkLength
<1> HIDE DEF q, r
<1>2. p \in Nat /\ p < n
  OBVIOUS
<1>3. CASE p < r * (q + 1)
  <2> DEFINE c == p \div (q + 1)
  <2>1. c \in Nat /\ c * (q + 1) <= p /\ p < c * (q + 1) + q + 1
    <3>1. q + 1 \in Nat \ {0}
      BY <1>1
    <3>2. /\ c \in Nat /\ p % (q + 1) \in Nat /\ p % (q + 1) < q + 1
          /\ p = (q + 1) * c + (p % (q + 1))
      BY <1>2, <3>1, Division
    <3> HIDE DEF c
    <3>3. (q + 1) * c = c * (q + 1)
      BY <1>1, <3>2
    <3>4. c * (q + 1) \in Nat
      BY <1>1, <3>2
    <3>5. QED BY <1>1, <1>2, <3>2, <3>3, <3>4
  <2> HIDE DEF c
  <2>2. c < r
    <3>1. CASE r <= c
      <4>1. r * (q + 1) <= c * (q + 1)
        <5>1. CASE r = c
          BY <1>1, <2>1, <5>1
        <5>2. CASE r < c
          <6>1. q + 1 \in Nat /\ (r + 1) * (q + 1) = r * (q + 1) + (q + 1)
            BY <1>1
          <6>2. (r + 1) * (q + 1) <= c * (q + 1) /\ r * (q + 1) \in Nat
            BY <1>1, <2>1, <5>2, <6>1, Products
          <6>3. QED BY <1>1, <2>1, <6>1, <6>2
        <5>3. QED BY <1>1, <2>1, <3>1, <5>1, <5>2
      <4>2. c * (q + 1) \in Nat /\ r * (q + 1) \in Nat
        BY <1>1, <2>1
      <4>3. QED BY <1>2, <1>3, <2>1, <4>1, <4>2
    <3>2. QED BY <1>1, <2>1, <3>1
  <2>3. c * (q + 1) = c * q + c /\ c * q \in Nat
    BY <1>1, <2>1
  <2>4. ChunkStart(n, k, c) = c * q + c /\ ChunkLength(n, k, c) = q + 1
    BY <1>1, <2>2
  <2>5. c \in 0..(k - 1)
    BY <1>1, <2>1, <2>2
  <2>6. QED BY <1>1, <1>2, <2>1, <2>3, <2>4, <2>5
<1>4. CASE r * (q + 1) <= p
  <2> DEFINE rest == p - r * (q + 1)
             d == rest \div q
             c == r + d
  <2>1. r * (q + 1) = r * q + r /\ r * q \in Nat /\ r * (q + 1) \in Nat
    BY <1>1
  <2>2. k * q = r * q + (k - r) * q
    BY <1>1
  <2>3. rest \in Nat /\ rest < (k - r) * q
    BY <1>1, <1>2, <1>4, <2>1, <2>2
  <2>4. q \in Nat \ {0}
    <3>1. (k - r) * 0 = 0
      BY <1>1
    <3> HIDE DEF rest
    <3>2. QED BY <1>1, <2>3, <3>1
  <2>5. p = r * q + r + rest
    BY <1>1, <1>2, <2>1
  <2> HIDE DEF rest
  <2>6. d \in Nat /\ d * q <= rest /\ rest < d * q + q /\ d * q \in Nat
    <3>1. /\ d \in Nat /\ rest % q \in Nat /\ rest % q < q
          /\ rest = q * d + (rest % q)
      BY <2>3, <2>4, Division
    <3> HIDE DEF d
    <3>2. q * d = d * q /\ d * q \in Nat
      BY <2>4, <3>1
    <3>3. QED BY <2>3, <2>4, <3>1, <3>2
  <2> HIDE DEF d
  <2>7. d < k - r
    <3>1. CASE k - r <= d
      <4>1. (k - r) * q <= d * q
        <5>1. k - r \in Nat
          BY <1>1
        <5>2. CASE k - r = d
          BY <2>6, <5>2
        <5>3. CASE k - r < d
          <6>1. ((k - r) + 1) * q = (k - r) * q + q /\ (k - r) * q \in Nat
            BY <1>1, <5>1
          <6>2. ((k - r) + 1) * q <= d * q
            BY <1>1, <2>6, <5>1, <5>3, Products
          <6>3. QED BY <1>1, <2>6, <6>1, <6>2
        <5>4. QED BY <2>6, <3>1, <5>1, <5>2, <5>3
      <4>2. (k - r) * q \in Nat
        BY <1>1
      <4>3. QED BY <2>3, <2>6, <4>1, <4>2
    <3>2. QED BY <1>1, <2>6, <3>1
  <2>8. c * q = r * q + d * q
    BY <1>1, <2>6
  <2>9. c \in 0..(k - 1) /\ ~ (c < r)
    BY <1>1, <2>6, <2>7
  <2> HIDE DEF c
  <2>10. ChunkStart(n, k, c) = r * q + d * q + r /\ ChunkLength(n, k, c) = q
    BY <1>1, <2>8, <2>9
  <2>11. QED BY <1>1, <2>1, <2>3, <2>5, <2>6, <2>9, <2>10
<1>5. QED
  <2>1. r * (q + 1) \in Nat
    BY <1>1
  <2>2. QED BY <1>2, <1>3, <1>4, <2>1

-----------------------------------------------------------------------------
\* Chunk c holds the values of the universe from its start on, in their order.
LEMMA ChunkValues ==
  ASSUME NEW V, NEW values \in Seq(V), NEW k \in Nat \ {0}, NEW c \in 0..(k - 1)
  PROVE  LET n == Len(values)
             chunk == ChunkEvenly(values, k)[c + 1]
         IN /\ chunk \in Seq(V)
            /\ Len(chunk) = ChunkLength(n, k, c)
            /\ \A j \in 1..Len(chunk) : chunk[j] = values[ChunkStart(n, k, c) + j]
<1> DEFINE n == Len(values)
           s == ChunkStart(n, k, c)
           l == ChunkLength(n, k, c)
<1>1. n \in Nat /\ \A i \in 1..n : values[i] \in V
  BY LenProperties, ElementOfSeq
<1>2. s \in Nat /\ l \in Nat
  <2>1. c \in Nat
    OBVIOUS
  <2> HIDE DEF n
  <2>2. QED BY <1>1, <2>1, RunningIndex
<1>3. s + l <= n
  <2>1. n = ChunkStart(n, k, k)
    BY <1>1, RunningIndex
  <2>2. QED BY <1>1, <2>1, StartsInOrder
<1>4. ChunkEvenly(values, k)[c + 1] = SubSeq(values, s + 1, s + l)
  <2>1. c + 1 \in 1..k /\ (c + 1) - 1 = c
    OBVIOUS
  <2>2. ChunkEvenly(values, k)[c + 1] = Chunk(values, k, (c + 1) - 1)
    BY <2>1 DEF ChunkEvenly
  <2>3. Chunk(values, k, (c + 1) - 1) = Chunk(values, k, c)
    BY <2>1
  <2>4. QED BY <2>2, <2>3 DEF Chunk
<1> HIDE DEF n, s, l
<1>5. \A i \in (s + 1)..(s + l) : values[i] \in V
  BY <1>1, <1>2, <1>3
<1>6. /\ SubSeq(values, s + 1, s + l) \in Seq(V)
      /\ Len(SubSeq(values, s + 1, s + l)) = l
      /\ \A j \in 1..l : SubSeq(values, s + 1, s + l)[j] = values[s + j]
  <2>1. s + 1 \in Int /\ s + l \in Int
        /\ (s + l) - (s + 1) + 1 = l /\ (s + 1 <= s + l <=> l # 0)
    BY <1>2
  <2>2. /\ SubSeq(values, s + 1, s + l) \in Seq(V)
        /\ Len(SubSeq(values, s + 1, s + l)) =
             IF s + 1 <= s + l THEN (s + l) - (s + 1) + 1 ELSE 0
        /\ \A j \in 1..((s + l) - (s + 1) + 1) :
             SubSeq(values, s + 1, s + l)[j] = values[(s + 1) + j - 1]
    BY <1>5, <2>1, SubSeqProperties
  <2>3. \A j \in 1..l : (s + 1) + j - 1 = s + j
    BY <1>2
  <2>4. QED BY <1>2, <2>1, <2>2, <2>3
<1>7. QED BY <1>4, <1>6 DEF n, s, l

\* The tasks of a fan-out share its universe out: every position of the universe is
\* in exactly one chunk, whatever the number of tasks and the length of the universe.
THEOREM ChunksPartition ==
  ASSUME NEW V, NEW values \in Seq(V), NEW k \in Nat \ {0}, NEW i \in 1..Len(values)
  PROVE  LET n == Len(values)
             HasIt(c) == /\ ChunkStart(n, k, c) < i
                         /\ i <= ChunkStart(n, k, c) + Len(ChunkEvenly(values, k)[c + 1])
         IN \E c \in 0..(k - 1) :
              /\ HasIt(c)
              /\ ChunkEvenly(values, k)[c + 1][i - ChunkStart(n, k, c)] = values[i]
              /\ \A d \in 0..(k - 1) : HasIt(d) => d = c
<1> DEFINE n == Len(values)
<1>1. n \in Nat /\ i \in Nat /\ i - 1 \in 0..(n - 1)
  BY LenProperties
<1>2. \A c \in 0..(k - 1) :
        /\ ChunkStart(n, k, c) \in Nat /\ ChunkLength(n, k, c) \in Nat
        /\ Len(ChunkEvenly(values, k)[c + 1]) = ChunkLength(n, k, c)
        /\ \A j \in 1..ChunkLength(n, k, c) :
             ChunkEvenly(values, k)[c + 1][j] = values[ChunkStart(n, k, c) + j]
  <2>1. \A c \in 0..(k - 1) : c \in Nat
    OBVIOUS
  <2>2. \A c \in 0..(k - 1) :
          ChunkStart(n, k, c) \in Nat /\ ChunkLength(n, k, c) \in Nat
    <3> HIDE DEF n
    <3>1. QED BY <1>1, <2>1, RunningIndex
  <2>3. \A c \in 0..(k - 1) :
          /\ Len(ChunkEvenly(values, k)[c + 1]) = ChunkLength(n, k, c)
          /\ \A j \in 1..Len(ChunkEvenly(values, k)[c + 1]) :
               ChunkEvenly(values, k)[c + 1][j] = values[ChunkStart(n, k, c) + j]
    BY ChunkValues
  <2> HIDE DEF n
  <2>4. QED BY <2>2, <2>3
<1>3. PICK c \in 0..(k - 1) :
        ChunkStart(n, k, c) <= i - 1 /\ i - 1 < ChunkStart(n, k, c) + ChunkLength(n, k, c)
  BY <1>1, InSomeChunk
<1>4. ASSUME NEW d \in 0..(k - 1), d # c, ChunkStart(n, k, d) < i,
             i <= ChunkStart(n, k, d) + ChunkLength(n, k, d)
      PROVE  FALSE
  <2>1. \/ ChunkStart(n, k, c) + ChunkLength(n, k, c) <= ChunkStart(n, k, d)
        \/ ChunkStart(n, k, d) + ChunkLength(n, k, d) <= ChunkStart(n, k, c)
    BY <1>1, <1>4, StartsInOrder
  <2>2. QED BY <1>1, <1>2, <1>3, <1>4, <2>1
<1> HIDE DEF n
<1>5. i - ChunkStart(n, k, c) \in 1..ChunkLength(n, k, c)
  BY <1>1, <1>2, <1>3
<1>6. ChunkEvenly(values, k)[c + 1][i - ChunkStart(n, k, c)] = values[i]
  <2>1. ChunkStart(n, k, c) + (i - ChunkStart(n, k, c)) = i
    BY <1>1, <1>2
  <2>2. QED BY <1>2, <1>5, <2>1
<1>7. /\ ChunkStart(n, k, c) < i
      /\ i <= ChunkStart(n, k, c) + Len(ChunkEvenly(values, k)[c + 1])
  BY <1>1, <1>2, <1>3
<1>8. QED BY <1>2, <1>4, <1>6, <1>7 DEF n

\* No task of a fan-out gets more than one value more than another, and the longer
\* chunks come first.
THEOREM ChunksAreEven ==
  ASSUME NEW V, NEW values \in Seq(V), NEW k \in Nat \ {0}, NEW c \in 1..k, NEW d \in 1..k
  PROVE  /\ Len(ChunkEvenly(values, k)[c]) <= Len(ChunkEvenly(values, k)[d]) + 1
         /\ c <= d => Len(ChunkEvenly(values, k)[d]) <= Len(ChunkEvenly(values, k)[c])
<1>1. ASSUME NEW e \in 1..k
      PROVE  Len(ChunkEvenly(values, k)[e]) = ChunkLength(Len(values), k, e - 1)
  <2>1. e - 1 \in 0..(k - 1) /\ (e - 1) + 1 = e
    OBVIOUS
  <2>2. Len(ChunkEvenly(values, k)[(e - 1) + 1]) = ChunkLength(Len(values), k, e - 1)
    BY <2>1, ChunkValues
  <2>3. QED BY <2>1, <2>2
<1> DEFINE q == Len(values) \div k
           r == Len(values) % k
<1>2. q \in Nat /\ r \in Nat
  BY LenProperties, Division
<1>3. \A e \in 1..k : ChunkLength(Len(values), k, e - 1) = q + (IF e - 1 < r THEN 1 ELSE 0)
  BY DEF ChunkLength
<1> HIDE DEF q, r
<1>4. /\ Len(ChunkEvenly(values, k)[c]) = q + (IF c - 1 < r THEN 1 ELSE 0)
      /\ Len(ChunkEvenly(values, k)[d]) = q + (IF d - 1 < r THEN 1 ELSE 0)
  BY <1>1, <1>3
<1> DEFINE lc == Len(ChunkEvenly(values, k)[c])
           ld == Len(ChunkEvenly(values, k)[d])
<1> HIDE DEF lc, ld
<1>5. lc = q + (IF c - 1 < r THEN 1 ELSE 0) /\ ld = q + (IF d - 1 < r THEN 1 ELSE 0)
  BY <1>4 DEF lc, ld
<1>6. lc <= ld + 1 /\ (c <= d => ld <= lc)
  BY <1>2, <1>5
<1>7. QED BY <1>6 DEF lc, ld

-----------------------------------------------------------------------------
(* Sequences, and recursive functions over them.                           *)

\* What IsSeq says: a function from 1 to its length.
LEMMA SeqShape ==
  ASSUME NEW s, IsSeq(s)
  PROVE  /\ Len(s) \in Nat /\ DOMAIN s = 1..Len(s) /\ s = [k \in 1..Len(s) |-> s[k]]
         /\ s \in Seq(Range(s))
BY DEF IsSeq

\* A function from 1 to n is a sequence of length n.
LEMMA SeqIntro ==
  ASSUME NEW s, NEW n \in Nat, DOMAIN s = 1..n, s = [k \in 1..n |-> s[k]]
  PROVE  IsSeq(s) /\ Len(s) = n
BY DEF IsSeq, Range

\* A sequence in the sense of Seq is one in the sense of IsSeq, and back.
LEMMA SeqOfSet ==
  ASSUME NEW S, NEW s \in Seq(S)
  PROVE  IsSeq(s) /\ Range(s) \subseteq S
<1>1. Len(s) \in Nat /\ DOMAIN s = 1..Len(s) /\ s = [k \in 1..Len(s) |-> s[k]]
  OBVIOUS
<1>2. \A k \in 1..Len(s) : s[k] \in S
  OBVIOUS
<1>3. QED BY <1>1, <1>2, SeqIntro DEF Range

LEMMA SeqInSet ==
  ASSUME NEW S, NEW s, IsSeq(s), \A k \in DOMAIN s : s[k] \in S
  PROVE  s \in Seq(S)
<1>1. Len(s) \in Nat /\ DOMAIN s = 1..Len(s) /\ s = [k \in 1..Len(s) |-> s[k]]
  BY SeqShape
<1>2. QED BY <1>1

\* The length and the elements of a concatenation.
LEMMA Concat ==
  ASSUME NEW s, NEW t, IsSeq(s), IsSeq(t)
  PROVE  /\ IsSeq(s \o t) /\ Len(s \o t) = Len(s) + Len(t)
         /\ \A k \in 1..(Len(s) + Len(t)) :
              (s \o t)[k] = IF k <= Len(s) THEN s[k] ELSE t[k - Len(s)]
<1> DEFINE S == Range(s) \cup Range(t)
<1>1. s \in Seq(S) /\ t \in Seq(S)
  BY SeqInSet DEF Range
<1>2. s \o t \in Seq(S)
  BY <1>1
<1>3. IsSeq(s \o t)
  <2> HIDE DEF S
  <2>1. QED BY <1>2, SeqOfSet
<1>4. QED BY <1>1, <1>3

LEMMA Singleton ==
  ASSUME NEW x
  PROVE  IsSeq(<<x>>) /\ Len(<<x>>) = 1 /\ <<x>>[1] = x /\ DOMAIN <<x>> = 1..1
<1>1. <<x>> \in Seq({x})
  OBVIOUS
<1>2. IsSeq(<<x>>)
  BY <1>1, SeqOfSet
<1>3. QED BY <1>2

LEMMA NoElements == IsSeq(<<>>) /\ Len(<<>>) = 0 /\ DOMAIN <<>> = {}
<1>1. <<>> \in Seq({})
  OBVIOUS
<1>2. IsSeq(<<>>)
  BY <1>1, SeqOfSet
<1>3. QED BY <1>2

LEMMA EmptyLen ==
  ASSUME NEW s, IsSeq(s)
  PROVE  s = <<>> <=> Len(s) = 0
<1>1. s \in Seq(Range(s))
  BY SeqShape
<1>2. QED BY <1>1

-----------------------------------------------------------------------------
(* Recursive functions.                                                    *)

\* f is the function on 0..n that begins with base and goes on by G.
Solution(f, n, S, base, G) ==
  f \in [0..n -> S] /\ f[0] = base /\ \A i \in 1..n : f[i] = G[<<i, f[i - 1]>>]

\* A recursion over 0..n in a set S has a solution.
LEMMA Recursion ==
  ASSUME NEW n \in Nat, NEW S, NEW base \in S, NEW G \in [(1..n) \X S -> S]
  PROVE  \E f : Solution(f, n, S, base, G)
<1> DEFINE Solves(f, m) == /\ f \in [0..m -> S] /\ f[0] = base
                           /\ \A i \in 1..m : f[i] = G[<<i, f[i - 1]>>]
           N == {m \in 0..n : ~ \E f : Solves(f, m)}
<1>1. ASSUME N # {} PROVE FALSE
  <2>1. N \in SUBSET Nat
    OBVIOUS
  <2>2. PICK m \in N : \A k \in N : m <= k
    <3> HIDE DEF N
    <3>1. QED BY <1>1, <2>1, LeastNatural
  <2>3. m # 0
    <3>1. Solves([i \in 0..0 |-> base], 0)
      OBVIOUS
    <3>2. QED BY <2>2, <3>1
  <2>4. m - 1 \in 0..n /\ m - 1 \notin N /\ m \in 1..n
    <3>1. m \in 0..n
      OBVIOUS
    <3>2. m \in 1..n /\ m - 1 \in 0..n /\ ~ (m <= m - 1)
      BY <2>3, <3>1
    <3> HIDE DEF N
    <3>3. QED BY <2>2, <3>2
  <2>5. PICK f : Solves(f, m - 1)
    BY <2>4
  <2> DEFINE g == [i \in 0..m |-> IF i = m THEN G[<<m, f[m - 1]>>] ELSE f[i]]
  <2>6. f[m - 1] \in S /\ G[<<m, f[m - 1]>>] \in S
    BY <2>4, <2>5
  <2>7. Solves(g, m)
    <3>1. g \in [0..m -> S]
      BY <2>4, <2>5, <2>6
    <3>2. g[0] = base
      BY <2>4, <2>5
    <3>3. ASSUME NEW i \in 1..m PROVE g[i] = G[<<i, g[i - 1]>>]
      <4>1. CASE i = m
        <5>1. g[i - 1] = f[m - 1]
          BY <2>4, <4>1
        <5>2. g[m] = G[<<m, f[m - 1]>>]
          BY <2>4
        <5>3. QED BY <4>1, <5>1, <5>2
      <4>2. CASE i # m
        BY <2>4, <2>5, <4>2
      <4>3. QED BY <4>1, <4>2
    <3>4. QED BY <3>1, <3>2, <3>3
  <2>8. QED BY <2>2, <2>7
<1>2. n \in 0..n /\ n \notin N
  <2> HIDE DEF N
  <2>1. QED BY <1>1
<1>3. PICK f : Solves(f, n)
  BY <1>2
<1>4. QED BY <1>3 DEF Solution

\* Induction up to n, over a set.
LEMMA UpTo ==
  ASSUME NEW n \in Nat, NEW N, 0 \in N, \A i \in 1..n : i - 1 \in N => i \in N
  PROVE  0..n \subseteq N
<1> DEFINE M == {m \in 0..n : m \notin N}
<1>1. ASSUME M # {} PROVE FALSE
  <2>1. M \in SUBSET Nat
    OBVIOUS
  <2>2. PICK m \in M : \A k \in M : m <= k
    <3> HIDE DEF M
    <3>1. QED BY <1>1, <2>1, LeastNatural
  <2>3. m \in 0..n /\ m \notin N
    OBVIOUS
  <2>4. m \in 1..n /\ m - 1 \in 0..n /\ ~ (m <= m - 1)
    BY <2>3
  <2>5. m - 1 \notin M
    <3> HIDE DEF M
    <3>1. QED BY <2>2, <2>4
  <2>6. QED BY <2>3, <2>4, <2>5
<1>2. QED BY <1>1

\* FlattenSeq glues sequences one after the other.
LEMMA FlattenSteps ==
  ASSUME NEW S, NEW ss, IsSeq(ss), \A k \in DOMAIN ss : ss[k] \in Seq(S)
  PROVE  \E f \in [0..Len(ss) -> Seq(S)] :
           /\ f[0] = <<>> /\ \A i \in 1..Len(ss) : f[i] = f[i - 1] \o ss[i]
           /\ FlattenSeq(ss) = f[Len(ss)]
<1> DEFINE n == Len(ss)
           T == Seq(S)
           G == [p \in (1..n) \X T |-> p[2] \o ss[p[1]]]
<1>1. n \in Nat /\ DOMAIN ss = 1..n
  BY SeqShape
<1>2. PICK f \in [0..n -> T] : f[0] = <<>> /\ \A i \in 1..n : f[i] = f[i - 1] \o ss[i]
  <2>1. <<>> \in T
    OBVIOUS
  <2>2. G \in [(1..n) \X T -> T]
    <3>1. \A i \in 1..n, x \in T : x \o ss[i] \in T
      BY <1>1
    <3>2. QED BY <3>1
  <2> DEFINE b == <<>>
  <2>3. \A i \in 1..n, x \in T : G[<<i, x>>] = x \o ss[i]
    OBVIOUS
  <2> HIDE DEF G, T, n
  <2>4. \E f : Solution(f, n, T, b, G)
    <3>1. b \in T
      BY <2>1
    <3> HIDE DEF b
    <3>2. QED BY <1>1, <2>2, <3>1, Recursion
  <2>5. PICK f : Solution(f, n, T, b, G)
    BY <2>4
  <2>6. f \in [0..n -> T] /\ f[0] = b /\ \A i \in 1..n : f[i] = G[<<i, f[i - 1]>>]
    BY <2>5 DEF Solution
  <2>7. ASSUME NEW i \in 1..n PROVE f[i] = f[i - 1] \o ss[i]
    <3>1. i - 1 \in 0..n
      BY <1>1
    <3>2. QED BY <2>3, <2>6, <3>1
  <2>8. QED BY <2>6, <2>7
<1> HIDE DEF G, n
<1>3. CASE n = 0
  <2>1. FlattenSeq(ss) = ss /\ ss = <<>>
    BY <1>3, EmptyLen DEF FlattenSeq, n
  <2>2. QED BY <1>2, <1>3, <2>1 DEF n
<1>4. CASE n # 0
  <2> DEFINE Eq(F) == F = [i \in 1..n |-> IF i = 1 THEN ss[i] ELSE F[i - 1] \o ss[i]]
             flat == CHOOSE F : Eq(F)
             g == [i \in 1..n |-> f[i]]
  <2>1. FlattenSeq(ss) = flat[n]
    BY <1>4 DEF FlattenSeq, n
  <2>2. Eq(g)
    <3>1. ASSUME NEW i \in 1..n PROVE g[i] = IF i = 1 THEN ss[i] ELSE g[i - 1] \o ss[i]
      <4>1. CASE i = 1
        <5>0. 1 \in 1..n /\ 1 - 1 = 0
          BY <4>1
        <5>1. f[1] = f[0] \o ss[1] /\ ss[1] \in Seq(S)
          BY <1>1, <1>2, <5>0
        <5>2. f[1] = ss[1]
          BY <1>2, <5>1
        <5>3. QED BY <4>1, <5>2
      <4>2. CASE i # 1
        <5>1. i - 1 \in 1..n
          BY <1>1, <4>2
        <5>2. QED BY <1>2, <4>2, <5>1
      <4>3. QED BY <4>1, <4>2
    <3>2. QED BY <3>1
  <2>3. Eq(flat)
    <3> HIDE DEF Eq, g
    <3>1. QED BY <2>2
  <2>4. ASSUME NEW i \in 1..n
        PROVE  flat[i] = IF i = 1 THEN ss[i] ELSE flat[i - 1] \o ss[i]
    <3> HIDE DEF flat
    <3>1. QED BY <2>3
  <2>5. ASSUME NEW i \in 1..n
        PROVE  g[i] = IF i = 1 THEN ss[i] ELSE g[i - 1] \o ss[i]
    <3> HIDE DEF g
    <3>1. QED BY <2>2
  <2> HIDE DEF flat, Eq
  <2> DEFINE N == {i \in 0..n : i = 0 \/ flat[i] = f[i]}
  <2>6. ASSUME NEW i \in 1..n, i - 1 \in N PROVE i \in N
    <3>1. g[i] = f[i] /\ i \in 0..n
      BY <1>1
    <3>2. CASE i = 1
      <4>1. flat[i] = g[i]
        BY <2>4, <2>5, <3>2
      <4> HIDE DEF g
      <4>2. QED BY <3>1, <4>1
    <3>3. CASE i # 1
      <4>1. i - 1 \in 1..n /\ flat[i - 1] = f[i - 1] /\ g[i - 1] = f[i - 1]
        BY <1>1, <2>6, <3>3
      <4>2. flat[i] = f[i - 1] \o ss[i]
        BY <2>4, <3>3, <4>1
      <4>3. flat[i] = f[i]
        BY <1>2, <4>2
      <4>4. QED BY <3>1, <4>3
    <3>4. QED BY <3>2, <3>3
  <2>7. n \in N
    <3>1. 0 \in N
      BY <1>1
    <3> HIDE DEF N
    <3>2. 0..n \subseteq N
      BY <1>1, <2>6, <3>1, UpTo
    <3>3. QED BY <1>1, <3>2
  <2>8. FlattenSeq(ss) = f[n]
    BY <1>4, <2>1, <2>7
  <2>9. QED BY <1>2, <2>8 DEF n
<1>5. QED BY <1>3, <1>4

\* FlattenSeq glues sequences over S to one over S, which is no shorter than any of them.
LEMMA Flatten ==
  ASSUME NEW S, NEW ss, IsSeq(ss), \A k \in DOMAIN ss : ss[k] \in Seq(S)
  PROVE  /\ FlattenSeq(ss) \in Seq(S)
         /\ \A k \in DOMAIN ss : Len(ss[k]) <= Len(FlattenSeq(ss))
<1> DEFINE n == Len(ss)
<1>1. n \in Nat /\ DOMAIN ss = 1..n
  BY SeqShape
<1>2. PICK f \in [0..n -> Seq(S)] :
           /\ f[0] = <<>> /\ \A i \in 1..n : f[i] = f[i - 1] \o ss[i]
           /\ FlattenSeq(ss) = f[n]
  BY FlattenSteps
<1> HIDE DEF n
<1> DEFINE N == {i \in 0..n : \A k \in 1..i : Len(ss[k]) <= Len(f[i])}
<1>3. ASSUME NEW i \in 1..n, i - 1 \in N PROVE i \in N
  <2> DEFINE before == Len(f[i - 1])
             here == Len(ss[i])
             whole == Len(f[i])
  <2>1. /\ i - 1 \in 0..n /\ i \in 0..n /\ \A k \in 1..(i - 1) : Len(ss[k]) <= before
    BY <1>1, <1>3
  <2>2. f[i - 1] \in Seq(S) /\ ss[i] \in Seq(S)
    BY <1>1, <1>2, <2>1
  <2>3. f[i] = f[i - 1] \o ss[i]
    BY <1>2
  <2>4. before \in Nat /\ here \in Nat /\ whole = before + here
    BY <2>2, <2>3
  <2> HIDE DEF before, here, whole
  <2>5. ASSUME NEW k \in 1..i PROVE Len(ss[k]) <= whole
    <3>1. CASE k = i
      BY <2>4, <3>1 DEF here
    <3>2. CASE k # i
      <4>1. k \in 1..(i - 1) /\ k \in 1..n
        BY <1>1, <3>2
      <4>2. ss[k] \in Seq(S)
        BY <1>1, <4>1
      <4>3. Len(ss[k]) \in Nat
        BY <4>2
      <4>4. Len(ss[k]) <= before
        BY <2>1, <4>1
      <4>5. QED BY <2>4, <4>3, <4>4
    <3>3. QED BY <3>1, <3>2
  <2>6. QED BY <2>1, <2>5 DEF whole
<1>4. n \in N
  <2>1. 0 \in N
    BY <1>1
  <2> HIDE DEF N
  <2>2. 0..n \subseteq N
    BY <1>1, <1>3, <2>1, UpTo
  <2>3. QED BY <1>1, <2>2
<1>5. f[n] \in Seq(S)
  BY <1>1, <1>2
<1>6. QED BY <1>1, <1>2, <1>4, <1>5

\* What FlattenSeq yields, given what it has after each of the sequences.
LEMMA FlattenIs ==
  ASSUME NEW ss, IsSeq(ss), \A k \in DOMAIN ss : IsSeq(ss[k]),
         NEW g, g[0] = <<>>, \A i \in 1..Len(ss) : g[i] = g[i - 1] \o ss[i]
  PROVE  FlattenSeq(ss) = g[Len(ss)]
<1> DEFINE S == UNION {Range(ss[k]) : k \in DOMAIN ss}
           n == Len(ss)
<1>1. \A k \in DOMAIN ss : ss[k] \in Seq(S)
  BY SeqInSet DEF Range
<1> HIDE DEF S
<1>2. PICK f \in [0..n -> Seq(S)] :
           /\ f[0] = <<>> /\ \A i \in 1..n : f[i] = f[i - 1] \o ss[i]
           /\ FlattenSeq(ss) = f[n]
  BY <1>1, FlattenSteps
<1>3. n \in Nat
  BY SeqShape
<1> DEFINE N == {i \in 0..n : f[i] = g[i]}
<1>4. 0 \in N /\ \A i \in 1..n : i - 1 \in N => i \in N
  <2>1. 0 \in N
    BY <1>2, <1>3
  <2>2. ASSUME NEW i \in 1..n, i - 1 \in N PROVE i \in N
    <3>1. i \in 0..n /\ f[i - 1] = g[i - 1]
      BY <1>3, <2>2
    <3>2. f[i] = g[i - 1] \o ss[i] /\ g[i] = g[i - 1] \o ss[i]
      BY <1>2, <3>1
    <3>3. QED BY <3>1, <3>2
  <2>3. QED BY <2>1, <2>2
<1>5. n \in N
  <2> HIDE DEF N, n
  <2>1. 0..n \subseteq N
    BY <1>3, <1>4, UpTo
  <2>2. QED BY <1>3, <2>1
<1>6. QED BY <1>2, <1>5

\* The members of s in T: a sequence over both, not empty if there is one.
LEMMA ThoseShape ==
  ASSUME NEW s, NEW T, IsSeq(s)
  PROVE  /\ Those(s, T) \in Seq(T \cap Range(s))
         /\ IsSeq(Those(s, T))
         /\ (\E k \in DOMAIN s : s[k] \in T) => Len(Those(s, T)) > 0
<1> DEFINE S == T \cap Range(s)
           ss == [k \in DOMAIN s |-> IF s[k] \in T THEN <<s[k]>> ELSE <<>>]
<1>1. Len(s) \in Nat /\ DOMAIN s = 1..Len(s)
  BY SeqShape
<1>2. IsSeq(ss)
  BY <1>1, SeqIntro
<1>3. \A k \in DOMAIN ss : ss[k] \in Seq(S)
  <2>1. ASSUME NEW k \in DOMAIN s, s[k] \in T PROVE <<s[k]>> \in Seq(S)
    <3>1. s[k] \in S
      BY <2>1 DEF Range
    <3> HIDE DEF S
    <3>2. QED BY <3>1
  <2>2. <<>> \in Seq(S)
    OBVIOUS
  <2>3. QED BY <2>1, <2>2
<1>4. Those(s, T) = FlattenSeq(ss)
  BY DEF Those
<1>5. \A k \in DOMAIN s : s[k] \in T => Len(ss[k]) = 1
  OBVIOUS
<1>6. DOMAIN ss = DOMAIN s
  OBVIOUS
<1> HIDE DEF S, ss
<1>7. Those(s, T) \in Seq(S) /\ \A k \in DOMAIN s : Len(ss[k]) <= Len(Those(s, T))
  BY <1>2, <1>3, <1>4, <1>6, Flatten
<1>8. QED
  <2>1. IsSeq(Those(s, T)) /\ Len(Those(s, T)) \in Nat
    BY <1>7, SeqOfSet
  <2>2. QED BY <1>5, <1>7, <2>1 DEF S

\* Concatenation is associative, with the empty sequence as its unit.
LEMMA Glue ==
  ASSUME NEW S, NEW a \in Seq(S), NEW b \in Seq(S), NEW c \in Seq(S)
  PROVE  (a \o b) \o c = a \o (b \o c) /\ a \o <<>> = a /\ <<>> \o a = a
OBVIOUS

\* One more element at the end of the first i of them.
LEMMA FirstOnes ==
  ASSUME NEW s, NEW i \in Nat \ {0}
  PROVE  [k \in 1..(i - 1) |-> s[k]] \o <<s[i]>> = [k \in 1..i |-> s[k]]
<1> DEFINE a == [k \in 1..(i - 1) |-> s[k]]
           b == <<s[i]>>
<1>1. i - 1 \in Nat
  OBVIOUS
<1>2. IsSeq(a) /\ Len(a) = i - 1
  BY <1>1, SeqIntro
<1>3. IsSeq(b) /\ Len(b) = 1 /\ b[1] = s[i]
  BY Singleton
<1>4. \A k \in 1..(i - 1) : a[k] = s[k]
  OBVIOUS
<1> HIDE DEF a, b
<1>5. IsSeq(a \o b) /\ Len(a \o b) = i
  <2>1. IsSeq(a \o b) /\ Len(a \o b) = Len(a) + Len(b)
    BY <1>2, <1>3, Concat
  <2>2. QED BY <1>2, <1>3, <2>1
<1>6. ASSUME NEW k \in 1..i PROVE (a \o b)[k] = s[k]
  <2>1. (a \o b)[k] = IF k <= i - 1 THEN a[k] ELSE b[k - (i - 1)]
    BY <1>2, <1>3, Concat
  <2>2. CASE k <= i - 1
    BY <1>4, <2>1, <2>2
  <2>3. CASE ~ (k <= i - 1)
    BY <1>3, <2>1, <2>3
  <2>4. QED BY <2>2, <2>3
<1>7. a \o b = [k \in 1..i |-> (a \o b)[k]]
  BY <1>5, SeqShape
<1>8. a \o b = [k \in 1..i |-> s[k]]
  BY <1>6, <1>7
<1>9. QED BY <1>8 DEF a, b

\* Nothing after nothing is nothing.
LEMMA NoneTwice == <<>> \o <<>> = <<>>
<1> DEFINE e == <<>>
<1>1. e \in Seq({})
  OBVIOUS
<1> HIDE DEF e
<1>2. e \o <<>> = e
  BY <1>1, Glue
<1>3. QED BY <1>2 DEF e

\* What Those yields, and what it has after each element.
LEMMA ThoseSteps ==
  ASSUME NEW s, NEW T, IsSeq(s)
  PROVE  \E f \in [0..Len(s) -> Seq(T)] :
           /\ f[0] = <<>>
           /\ \A i \in 1..Len(s) : f[i] = f[i - 1] \o (IF s[i] \in T THEN <<s[i]>> ELSE <<>>)
           /\ Those(s, T) = f[Len(s)]
<1> DEFINE ss == [k \in DOMAIN s |-> IF s[k] \in T THEN <<s[k]>> ELSE <<>>]
<1>1. DOMAIN s = 1..Len(s) /\ IsSeq(ss) /\ Len(ss) = Len(s)
  BY SeqShape, SeqIntro
<1>2. \A k \in DOMAIN ss : ss[k] \in Seq(T)
  OBVIOUS
<1>3. Those(s, T) = FlattenSeq(ss)
  BY DEF Those
<1>4. \A k \in 1..Len(s) : ss[k] = IF s[k] \in T THEN <<s[k]>> ELSE <<>>
  BY <1>1
<1> HIDE DEF ss
<1>5. PICK f \in [0..Len(ss) -> Seq(T)] :
           /\ f[0] = <<>> /\ \A i \in 1..Len(ss) : f[i] = f[i - 1] \o ss[i]
           /\ FlattenSeq(ss) = f[Len(ss)]
  BY <1>1, <1>2, FlattenSteps
<1>6. QED BY <1>1, <1>3, <1>4, <1>5

\* What Those yields, given what it has after each element.
LEMMA ThoseIs ==
  ASSUME NEW s, NEW T, IsSeq(s), NEW g, g[0] = <<>>,
         \A i \in 1..Len(s) : g[i] = g[i - 1] \o (IF s[i] \in T THEN <<s[i]>> ELSE <<>>)
  PROVE  Those(s, T) = g[Len(s)]
<1> DEFINE ss == [k \in DOMAIN s |-> IF s[k] \in T THEN <<s[k]>> ELSE <<>>]
<1>1. DOMAIN s = 1..Len(s) /\ IsSeq(ss) /\ Len(ss) = Len(s)
  BY SeqShape, SeqIntro
<1>2. \A k \in DOMAIN ss : IsSeq(ss[k])
  BY Singleton, NoElements
<1>3. Those(s, T) = FlattenSeq(ss)
  BY DEF Those
<1>4. \A k \in 1..Len(s) : ss[k] = IF s[k] \in T THEN <<s[k]>> ELSE <<>>
  BY <1>1
<1> HIDE DEF ss
<1>5. \A i \in 1..Len(ss) : g[i] = g[i - 1] \o ss[i]
  BY <1>1, <1>4
<1>6. QED BY <1>1, <1>2, <1>3, <1>5, FlattenIs

\* A sequence of members only is kept as it is.
LEMMA ThoseAll ==
  ASSUME NEW s, NEW T, IsSeq(s), \A k \in DOMAIN s : s[k] \in T
  PROVE  Those(s, T) = s
<1> DEFINE n == Len(s)
           g == [i \in 0..n |-> [k \in 1..i |-> s[k]]]
<1>1. n \in Nat /\ DOMAIN s = 1..n /\ s = [k \in 1..n |-> s[k]]
  BY SeqShape
<1>2. g[0] = <<>>
  <2>1. g[0] = [k \in 1..0 |-> s[k]]
    BY <1>1
  <2>2. [k \in 1..0 |-> s[k]] = <<>>
    BY SeqIntro, EmptyLen
  <2>3. QED BY <2>1, <2>2
<1>3. ASSUME NEW i \in 1..n PROVE g[i] = g[i - 1] \o <<s[i]>>
  <2>1. g[i] = [k \in 1..i |-> s[k]] /\ g[i - 1] = [k \in 1..(i - 1) |-> s[k]]
    BY <1>1
  <2>2. i \in Nat \ {0}
    BY <1>1
  <2> HIDE DEF g
  <2>3. QED BY <2>1, <2>2, FirstOnes
<1>4. g[n] = s
  BY <1>1
<1> HIDE DEF g
<1>5. Those(s, T) = g[n]
  BY <1>1, <1>2, <1>3, ThoseIs
<1>6. QED BY <1>4, <1>5

\* Of a sequence without a member nothing is kept.
LEMMA ThoseNone ==
  ASSUME NEW s, NEW T, IsSeq(s), \A k \in DOMAIN s : s[k] \notin T
  PROVE  Those(s, T) = <<>>
<1> DEFINE n == Len(s)
           g == [i \in 0..n |-> <<>>]
<1>1. n \in Nat /\ DOMAIN s = 1..n
  BY SeqShape
<1>2. g[0] = <<>> /\ g[n] = <<>>
  BY <1>1
<1>3. ASSUME NEW i \in 1..n PROVE g[i] = g[i - 1] \o <<>>
  <2>1. g[i] = <<>> /\ g[i - 1] = <<>>
    BY <1>1
  <2>2. QED BY <2>1, NoneTwice
<1> HIDE DEF g
<1>4. Those(s, T) = g[n]
  BY <1>1, <1>2, <1>3, ThoseIs
<1>5. QED BY <1>2, <1>4

\* Of two sequences in a row, what is kept of the one, then of the other.
LEMMA ThoseConcat ==
  ASSUME NEW s, NEW t, NEW T, IsSeq(s), IsSeq(t)
  PROVE  Those(s \o t, T) = Those(s, T) \o Those(t, T)
<1> DEFINE If(v) == IF v \in T THEN <<v>> ELSE <<>>
           n == Len(s)
           m == Len(t)
           x == s \o t
<1>1. /\ n \in Nat /\ m \in Nat /\ IsSeq(x) /\ Len(x) = n + m
      /\ \A k \in 1..n : x[k] = s[k]
      /\ \A k \in (n + 1)..(n + m) : x[k] = t[k - n]
  <2>1. n \in Nat /\ m \in Nat
    BY SeqShape
  <2>2. /\ IsSeq(x) /\ Len(x) = n + m
        /\ \A k \in 1..(n + m) : x[k] = IF k <= n THEN s[k] ELSE t[k - n]
    BY Concat
  <2> HIDE DEF x, n, m
  <2>3. QED BY <2>1, <2>2
<1>2. PICK f \in [0..n -> Seq(T)] :
        /\ f[0] = <<>> /\ \A i \in 1..n : f[i] = f[i - 1] \o If(s[i])
        /\ Those(s, T) = f[n]
  <2>1. \E f \in [0..Len(s) -> Seq(T)] :
          /\ f[0] = <<>>
          /\ \A i \in 1..Len(s) : f[i] = f[i - 1] \o (IF s[i] \in T THEN <<s[i]>> ELSE <<>>)
          /\ Those(s, T) = f[Len(s)]
    BY ThoseSteps
  <2>2. QED BY <2>1
<1>3. PICK h \in [0..m -> Seq(T)] :
        /\ h[0] = <<>> /\ \A i \in 1..m : h[i] = h[i - 1] \o If(t[i])
        /\ Those(t, T) = h[m]
  <2>1. \E h \in [0..Len(t) -> Seq(T)] :
          /\ h[0] = <<>>
          /\ \A i \in 1..Len(t) : h[i] = h[i - 1] \o (IF t[i] \in T THEN <<t[i]>> ELSE <<>>)
          /\ Those(t, T) = h[Len(t)]
    BY ThoseSteps
  <2>2. QED BY <2>1
<1>4. \A v : If(v) \in Seq(T)
  OBVIOUS
<1> DEFINE g == [i \in 0..(n + m) |-> IF i <= n THEN f[i] ELSE f[n] \o h[i - n]]
<1> HIDE DEF n, m, x, If
<1>5. \A i \in 0..n : g[i] = f[i]
  BY <1>1
<1>6. \A i \in 0..m : g[n + i] = f[n] \o h[i]
  <2>1. ASSUME NEW i \in 0..m PROVE g[n + i] = f[n] \o h[i]
    <3>1. CASE i = 0
      <4>1. g[n + i] = f[n] /\ f[n] \in Seq(T) /\ h[i] = <<>>
        BY <1>1, <1>2, <1>3, <1>5, <3>1
      <4> HIDE DEF g
      <4>2. QED BY <4>1, Glue
    <3>2. CASE i # 0
      <4>1. n + i \in 0..(n + m) /\ ~ (n + i <= n) /\ (n + i) - n = i
        BY <1>1, <3>2
      <4>2. QED BY <4>1
    <3>3. QED BY <3>1, <3>2
  <2>2. QED BY <2>1
<1> HIDE DEF g
<1>7. ASSUME NEW i \in 1..Len(x) PROVE g[i] = g[i - 1] \o If(x[i])
  <2>1. CASE i \in 1..n
    <3>1. i \in 0..n /\ i - 1 \in 0..n
      BY <1>1, <2>1
    <3>2. QED BY <1>1, <1>2, <1>5, <2>1, <3>1
  <2>2. CASE i \in (n + 1)..(n + m)
    <3> DEFINE j == i - n
    <3>1. j \in 1..m /\ j \in 0..m /\ j - 1 \in 0..m /\ i = n + j /\ i - 1 = n + (j - 1) /\ x[i] = t[j]
      BY <1>1, <2>2
    <3> HIDE DEF j
    <3>2. g[i] = f[n] \o (h[j - 1] \o If(x[i])) /\ g[i - 1] = f[n] \o h[j - 1]
      BY <1>3, <1>6, <3>1
    <3>3. f[n] \in Seq(T) /\ h[j - 1] \in Seq(T) /\ If(x[i]) \in Seq(T)
      BY <1>1, <1>2, <1>3, <1>4, <3>1
    <3> DEFINE a == f[n]
               b == h[j - 1]
               c == If(x[i])
    <3>4. g[i] = a \o (b \o c) /\ g[i - 1] = a \o b /\ a \in Seq(T) /\ b \in Seq(T) /\ c \in Seq(T)
      BY <3>2, <3>3
    <3> HIDE DEF a, b, c
    <3>5. (a \o b) \o c = a \o (b \o c)
      <4>1. a \in Seq(T) /\ b \in Seq(T) /\ c \in Seq(T)
        BY <3>4
      <4>2. QED BY <4>1, Glue
    <3>6. g[i] = g[i - 1] \o c
      BY <3>4, <3>5
    <3>7. QED BY <3>6 DEF c
  <2>3. QED BY <1>1, <2>1, <2>2
<1>8. g[0] = <<>> /\ g[Len(x)] = f[n] \o h[m]
  <2>1. 0 \in 0..n /\ m \in 0..m
    BY <1>1
  <2>2. g[0] = <<>>
    BY <1>2, <1>5, <2>1
  <2>3. g[n + m] = f[n] \o h[m]
    BY <1>6, <2>1
  <2>4. QED BY <1>1, <2>2, <2>3
<1>9. Those(x, T) = g[Len(x)]
  <2>1. ASSUME NEW i \in 1..Len(x)
        PROVE  g[i] = g[i - 1] \o (IF x[i] \in T THEN <<x[i]>> ELSE <<>>)
    BY <1>7 DEF If
  <2>2. IsSeq(x) /\ g[0] = <<>>
    BY <1>1, <1>8
  <2>3. QED BY <2>1, <2>2, ThoseIs
<1>10. QED BY <1>2, <1>3, <1>8, <1>9 DEF x

\* Of sequences glued together, those in T are the ones of the only sequence that has any,
\* if all of it is.
LEMMA ThoseOfOne ==
  ASSUME NEW ss, IsSeq(ss), \A k \in DOMAIN ss : IsSeq(ss[k]), NEW T, NEW n \in DOMAIN ss,
         \A j \in DOMAIN ss[n] : ss[n][j] \in T,
         \A k \in DOMAIN ss \ {n} : \A j \in DOMAIN ss[k] : ss[k][j] \notin T
  PROVE  Those(FlattenSeq(ss), T) = ss[n]
<1> DEFINE S == UNION {Range(ss[k]) : k \in DOMAIN ss}
           m == Len(ss)
<1>1. m \in Nat /\ DOMAIN ss = 1..m
  BY SeqShape
<1>2. \A k \in DOMAIN ss : ss[k] \in Seq(S)
  BY SeqInSet DEF Range
<1> HIDE DEF S
<1>3. PICK f \in [0..m -> Seq(S)] :
           /\ f[0] = <<>> /\ \A i \in 1..m : f[i] = f[i - 1] \o ss[i]
           /\ FlattenSeq(ss) = f[m]
  BY <1>2, FlattenSteps
<1> HIDE DEF m
<1> DEFINE N == {i \in 0..m : Those(f[i], T) = IF i < n THEN <<>> ELSE ss[n]}
<1>4. 0 \in N
  <2>1. Those(<<>>, T) = <<>>
    BY NoElements, ThoseNone
  <2>2. 0 < n
    BY <1>1
  <2>3. QED BY <1>1, <1>3, <2>1, <2>2
<1>5. ASSUME NEW i \in 1..m, i - 1 \in N PROVE i \in N
  <2>1. i \in 0..m /\ i - 1 \in 0..m /\ i \in DOMAIN ss
    BY <1>1
  <2>2. f[i - 1] \in Seq(S) /\ IsSeq(ss[i])
    BY <1>3, <2>1
  <2>3. Those(f[i], T) = Those(f[i - 1], T) \o Those(ss[i], T)
    <3>1. IsSeq(f[i - 1]) /\ f[i] = f[i - 1] \o ss[i]
      BY <1>3, <2>2, SeqOfSet
    <3>2. QED BY <2>2, <3>1, ThoseConcat
  <2>4. ss[n] \in Seq(S)
    BY <1>2
  <2>5. CASE i < n
    <3>0. i \in DOMAIN ss \ {n} /\ i - 1 < n
      BY <1>1, <2>1, <2>5
    <3>1. Those(f[i - 1], T) = <<>> /\ Those(ss[i], T) = <<>>
      BY <1>5, <2>2, <3>0, ThoseNone
    <3>2. Those(f[i], T) = <<>>
      <4>1. <<>> \o <<>> = <<>>
        BY NoneTwice
      <4>2. QED BY <2>3, <3>1, <4>1
    <3>3. QED BY <2>1, <2>5, <3>2
  <2>6. CASE i = n
    <3>1. Those(f[i - 1], T) = <<>> /\ Those(ss[i], T) = ss[n]
      BY <1>1, <1>5, <2>1, <2>2, <2>6, ThoseAll
    <3>2. Those(f[i], T) = ss[n]
      BY <2>3, <2>4, <3>1, Glue
    <3>3. QED BY <1>1, <2>1, <2>6, <3>2
  <2>7. CASE i > n
    <3>0. i \in DOMAIN ss \ {n} /\ ~ (i - 1 < n)
      BY <1>1, <2>1, <2>7
    <3>1. Those(f[i - 1], T) = ss[n] /\ Those(ss[i], T) = <<>>
      BY <1>5, <2>2, <3>0, ThoseNone
    <3>2. Those(f[i], T) = ss[n]
      BY <2>3, <2>4, <3>1, Glue
    <3>3. QED BY <1>1, <2>1, <2>7, <3>2
  <2>8. i < n \/ i = n \/ i > n
    BY <1>1
  <2>9. QED BY <2>5, <2>6, <2>7, <2>8
<1>6. m \in N
  <2> HIDE DEF N
  <2>1. 0..m \subseteq N
    BY <1>1, <1>4, <1>5, UpTo
  <2>2. QED BY <1>1, <2>1
<1>7. ~ (m < n)
  BY <1>1
<1>8. QED BY <1>3, <1>6, <1>7

\* The numbers up to m of those up to w, in order.
LEMMA ThoseFirst ==
  ASSUME NEW w \in Nat, NEW m \in 0..w
  PROVE  Those([c \in 1..w |-> c], 1..m) = [c \in 1..m |-> c]
<1> DEFINE s == [c \in 1..w |-> c]
           First(i) == [c \in 1..i |-> s[c]]
           Upto(i) == IF i < m THEN i ELSE m
           g == [i \in 0..w |-> First(Upto(i))]
<1>1. IsSeq(s) /\ Len(s) = w /\ \A k \in 1..w : s[k] = k
  BY SeqIntro
<1>2. First(0) = <<>>
  BY SeqIntro, EmptyLen
<1>3. \A i \in 1..w : First(i) = First(i - 1) \o <<s[i]>>
  <2> HIDE DEF s
  <2>1. ASSUME NEW i \in 1..w PROVE First(i) = First(i - 1) \o <<s[i]>>
    <3>1. i \in Nat \ {0}
      OBVIOUS
    <3>2. QED BY <3>1, FirstOnes
  <2>2. QED BY <2>1
<1>4. First(m) \o <<>> = First(m)
  <2> DEFINE x == First(m)
  <2>1. IsSeq(x)
    BY SeqIntro
  <2> HIDE DEF x
  <2>2. x \in Seq(Range(x))
    BY <2>1, SeqShape
  <2>3. x \o <<>> = x
    BY <2>2, Glue
  <2>4. QED BY <2>3 DEF x
<1>5. First(m) = [c \in 1..m |-> c]
  BY <1>1
<1> HIDE DEF First, s
<1>6. \A i \in 0..w : g[i] = First(IF i < m THEN i ELSE m)
  OBVIOUS
<1> HIDE DEF g, Upto
<1>7. ASSUME NEW i \in 1..w
      PROVE  g[i] = g[i - 1] \o (IF s[i] \in 1..m THEN <<s[i]>> ELSE <<>>)
  <2>1. i \in 0..w /\ i - 1 \in 0..w /\ s[i] = i
    BY <1>1
  <2>2. CASE i <= m
    <3>1. g[i] = First(i) /\ g[i - 1] = First(i - 1) /\ s[i] \in 1..m
      <4>1. (IF i < m THEN i ELSE m) = i /\ (IF i - 1 < m THEN i - 1 ELSE m) = i - 1
        BY <2>2
      <4>2. QED BY <1>6, <2>1, <2>2, <4>1
    <3>2. QED BY <1>3, <3>1
  <2>3. CASE ~ (i <= m)
    <3>1. g[i] = First(m) /\ g[i - 1] = First(m) /\ s[i] \notin 1..m
      <4>1. (IF i < m THEN i ELSE m) = m /\ (IF i - 1 < m THEN i - 1 ELSE m) = m
        BY <2>3
      <4>2. QED BY <1>6, <2>1, <2>3, <4>1
    <3>2. QED BY <1>4, <3>1
  <2>4. QED BY <2>2, <2>3
<1>8. g[0] = <<>> /\ g[w] = First(m)
  <2>1. (IF 0 < m THEN 0 ELSE m) = 0 /\ (IF w < m THEN w ELSE m) = m
    OBVIOUS
  <2>2. QED BY <1>2, <1>6, <2>1
<1>9. Those(s, 1..m) = g[Len(s)]
  BY <1>1, <1>7, <1>8, ThoseIs
<1>10. QED BY <1>1, <1>5, <1>8, <1>9 DEF s

\* Those only asks about the elements of the sequence.
LEMMA ThoseSame ==
  ASSUME NEW s, NEW T, NEW U, \A k \in DOMAIN s : s[k] \in T <=> s[k] \in U
  PROVE  Those(s, T) = Those(s, U)
<1>1. [k \in DOMAIN s |-> IF s[k] \in T THEN <<s[k]>> ELSE <<>>]
      = [k \in DOMAIN s |-> IF s[k] \in U THEN <<s[k]>> ELSE <<>>]
  OBVIOUS
<1>2. QED BY <1>1 DEF Those

-----------------------------------------------------------------------------
(* The scanner: a record it finds ends within the text.                    *)

LEMMA MinOf ==
  ASSUME NEW N \in SUBSET Nat, N # {}
  PROVE  Min(N) \in N /\ \A n \in N : Min(N) <= n
<1>1. \E m \in N : \A n \in N : m <= n
  BY LeastNatural
<1>2. QED BY <1>1 DEF Min

\* find_next never goes back and never past the end of the text.
LEMMA SkipInRange ==
  ASSUME NEW b, IsSeq(b), NEW i \in 1..(Len(b) + 1), NEW S
  PROVE  Skip(b, i, S) \in i..(Len(b) + 1)
<1> DEFINE N == {j \in i..(Len(b) + 1) : j > Len(b) \/ b[j] \notin S}
<1>1. Len(b) \in Nat
  BY SeqShape
<1>2. Len(b) + 1 \in N
  BY <1>1
<1>3. N \in SUBSET Nat /\ N # {} /\ N \subseteq i..(Len(b) + 1)
  BY <1>1, <1>2
<1>4. Skip(b, i, S) = Min(N)
  BY DEF Skip
<1> HIDE DEF N
<1>5. QED BY <1>3, <1>4, MinOf

\* The states of the bracket matcher are closed under its step.
LEMMA StepStates ==
  ASSUME NEW s \in ScanStates, NEW c
  PROVE  Step(s, c) \in ScanStates
<1>1. [s EXCEPT !.esc = FALSE] \in ScanStates /\ [s EXCEPT !.esc = TRUE] \in ScanStates
  BY DEF ScanStates
<1>2. [s EXCEPT !.str = FALSE] \in ScanStates /\ [s EXCEPT !.str = TRUE] \in ScanStates
  BY DEF ScanStates
<1>3. [s EXCEPT !.depth = s.depth + 1] \in ScanStates
  BY DEF ScanStates
<1>4. [s EXCEPT !.depth = s.depth - 1, !.closed = s.depth <= 1] \in ScanStates
  <2>1. \A i \in Int, v \in BOOLEAN : [s EXCEPT !.depth = i, !.closed = v] \in ScanStates
    BY DEF ScanStates
  <2>2. s.depth - 1 \in Int /\ (s.depth <= 1) \in BOOLEAN
    BY DEF ScanStates
  <2>3. QED BY <2>1, <2>2, Zenon
<1>5. Inside(s, c) \in ScanStates
  BY <1>1, <1>2, Zenon DEF Inside
<1>6. Outside(s, c) \in ScanStates
  <2> DEFINE a == [s EXCEPT !.str = TRUE]
             o == [s EXCEPT !.depth = s.depth + 1]
             z == [s EXCEPT !.depth = s.depth - 1, !.closed = s.depth <= 1]
  <2>1. Outside(s, c) = CASE c = "\"" -> a [] c \in Openers -> o [] c \in Closers -> z [] OTHER -> s
    BY DEF Outside
  <2>2. a \in ScanStates /\ o \in ScanStates /\ z \in ScanStates
    BY <1>2, <1>3, <1>4
  <2> HIDE DEF a, o, z
  <2>3. QED BY <2>1, <2>2
<1>7. QED BY <1>5, <1>6 DEF Step

\* A record ends after the byte it begins with and within the text: the cursor of the
\* scanner always advances.
LEMMA RecordEndRange ==
  ASSUME NEW b, IsSeq(b), NEW i \in 1..Len(b)
  PROVE  RecordEnd(b, i) \in (i + 1)..(Len(b) + 1)
<1> DEFINE n == Len(b)
           W == ScanStates
           Eq(e) == e = [j \in i..(n + 1) |->
                           [s \in W |-> IF s.closed \/ j > n THEN j ELSE e[j + 1][Step(s, b[j])]]]
           end == CHOOSE e : Eq(e)
<1>1. n \in Nat /\ i \in Nat /\ i <= n
  BY SeqShape
<1>2. Fresh \in W /\ Fresh.closed = FALSE
  BY DEF Fresh, ScanStates
<1>3. RecordEnd(b, i) = end[i][Fresh]
  BY DEF RecordEnd
<1>4. \A s \in W : \A c : Step(s, c) \in W
  BY StepStates
<1> HIDE DEF W, n
<1>5. \E e : Eq(e)
  <2> DEFINE S == [W -> i..(n + 1)]
             m == (n + 1) - i
             base == [s \in W |-> n + 1]
             At(d) == (n + 1) - d
             G == [p \in (1..m) \X S |->
                     [s \in W |-> IF s.closed THEN At(p[1]) ELSE p[2][Step(s, b[At(p[1])])]]]
  <2>1. m \in Nat /\ base \in S
    BY <1>1
  <2>2. G \in [(1..m) \X S -> S]
    <3>1. ASSUME NEW d \in 1..m, NEW g \in S
          PROVE  [s \in W |-> IF s.closed THEN At(d) ELSE g[Step(s, b[At(d)])]] \in S
      <4>1. At(d) \in i..(n + 1)
        BY <1>1
      <4>2. \A s \in W : g[Step(s, b[At(d)])] \in i..(n + 1)
        BY <1>4
      <4>3. QED BY <4>1, <4>2
    <3> HIDE DEF S
    <3>2. QED BY <3>1
  <2>3. PICK f : Solution(f, m, S, base, G)
    <3> HIDE DEF m, S, base, G
    <3>1. QED BY <2>1, <2>2, Recursion
  <2>4. f[0] = base /\ \A d \in 1..m : f[d] = G[<<d, f[d - 1]>>]
    BY <2>3 DEF Solution
  <2>5. \A d \in 0..m : f[d] \in S
    BY <2>3 DEF Solution
  <2>6. ASSUME NEW d \in 1..m
        PROVE  f[d] = [s \in W |-> IF s.closed THEN At(d) ELSE f[d - 1][Step(s, b[At(d)])]]
    <3>1. d - 1 \in 0..m
      BY <2>1
    <3>2. f[d - 1] \in S
      BY <2>5, <3>1
    <3> HIDE DEF S
    <3>3. QED BY <2>4, <3>2
  <2> DEFINE e == [j \in i..(n + 1) |-> f[(n + 1) - j]]
  <2>7. ASSUME NEW j \in i..(n + 1)
        PROVE  f[(n + 1) - j] = [s \in W |-> IF s.closed \/ j > n THEN j ELSE e[j + 1][Step(s, b[j])]]
    <3>1. CASE j = n + 1
      <4>1. (n + 1) - j = 0 /\ j > n
        BY <1>1, <3>1
      <4>2. QED BY <2>4, <3>1, <4>1
    <3>2. CASE j # n + 1
      <4> DEFINE d == (n + 1) - j
      <4>1. d \in 1..m /\ At(d) = j /\ (n + 1) - (j + 1) = d - 1 /\ j + 1 \in i..(n + 1) /\ ~ (j > n)
        BY <1>1, <3>2
      <4>2. e[j + 1] = f[d - 1]
        BY <4>1
      <4>3. f[d] = [s \in W |-> IF s.closed THEN j ELSE f[d - 1][Step(s, b[j])]]
        <5> HIDE DEF d, m, At, e
        <5>1. f[d] = [s \in W |-> IF s.closed THEN At(d) ELSE f[d - 1][Step(s, b[At(d)])]]
          BY <2>6, <4>1
        <5>2. QED BY <4>1, <5>1
      <4> HIDE DEF e, m, At
      <4>4. QED BY <4>1, <4>2, <4>3
    <3>3. QED BY <3>1, <3>2
  <2>8. Eq(e)
    BY <2>7
  <2>9. QED BY <2>8
<1>6. Eq(end)
  <2> HIDE DEF Eq
  <2>1. QED BY <1>5
<1>7. \A j \in i..(n + 1), s \in W :
        end[j][s] = IF s.closed \/ j > n THEN j ELSE end[j + 1][Step(s, b[j])]
  <2> HIDE DEF end
  <2>1. \A j \in i..(n + 1) :
          end[j] = [s \in W |-> IF s.closed \/ j > n THEN j ELSE end[j + 1][Step(s, b[j])]]
    BY <1>6
  <2>2. QED BY <2>1
<1> HIDE DEF end, Eq
<1> DEFINE N == {d \in 0..((n + 1) - i) : \A s \in W : end[(n + 1) - d][s] \in ((n + 1) - d)..(n + 1)}
<1>8. 0 \in N
  <2>1. (n + 1) - 0 = n + 1 /\ n + 1 \in i..(n + 1) /\ n + 1 > n /\ 0 \in 0..((n + 1) - i)
    BY <1>1
  <2>2. QED BY <1>1, <1>7, <2>1
<1>9. ASSUME NEW d \in 1..((n + 1) - i), d - 1 \in N PROVE d \in N
  <2> DEFINE j == (n + 1) - d
  <2>1. j \in i..(n + 1) /\ (n + 1) - (d - 1) = j + 1 /\ ~ (j > n) /\ d \in 0..((n + 1) - i) /\ j \in Nat
    BY <1>1
  <2>2. \A s \in W : end[j + 1][s] \in (j + 1)..(n + 1)
    BY <1>9, <2>1
  <2>3. ASSUME NEW s \in W PROVE end[j][s] \in j..(n + 1)
    <3>1. end[j][s] = IF s.closed \/ j > n THEN j ELSE end[j + 1][Step(s, b[j])]
      <4> HIDE DEF j
      <4>1. QED BY <1>7, <2>1
    <3>2. end[j + 1][Step(s, b[j])] \in (j + 1)..(n + 1)
      BY <1>4, <2>2
    <3> HIDE DEF j
    <3>3. QED BY <1>1, <2>1, <3>1, <3>2
  <2>4. QED BY <2>1, <2>3
<1>10. 0..((n + 1) - i) \subseteq N
  <2>1. (n + 1) - i \in Nat
    BY <1>1
  <2> HIDE DEF N
  <2>2. QED BY <1>8, <1>9, <2>1, UpTo
<1>11. end[i][Fresh] = end[i + 1][Step(Fresh, b[i])]
  <2>1. i \in i..(n + 1) /\ ~ (i > n)
    BY <1>1
  <2>2. QED BY <1>2, <1>7, <2>1
<1>12. end[i + 1][Step(Fresh, b[i])] \in (i + 1)..(n + 1)
  <2>1. n - i \in 0..((n + 1) - i) /\ (n + 1) - (n - i) = i + 1
    BY <1>1
  <2>2. n - i \in N
    BY <1>10, <2>1
  <2>3. Step(Fresh, b[i]) \in W
    BY <1>2, <1>4
  <2>4. QED BY <2>1, <2>2, <2>3
<1>13. QED BY <1>3, <1>11, <1>12 DEF n

\* A scan that is not over moves on and stays within the text.
LEMMA ScanMoves ==
  ASSUME NEW b, IsSeq(b), NEW i \in 1..(Len(b) + 1), ~ Scan(b, i).done
  PROVE  Scan(b, i).pos \in (i + 1)..(Len(b) + 1)
<1> DEFINE here == Skip(b, i, Blanks)
           inside == IF here <= Len(b) /\ b[here] = "[" THEN here + 1 ELSE here
           start == Skip(b, inside, Blanks \cup {","})
<1>1. Len(b) \in Nat
  BY SeqShape
<1>2. here \in i..(Len(b) + 1)
  BY SkipInRange
<1>3. inside \in i..(Len(b) + 1) /\ inside \in 1..(Len(b) + 1)
  <2> HIDE DEF here
  <2>1. QED BY <1>1, <1>2
<1>4. start \in inside..(Len(b) + 1)
  <2> HIDE DEF inside
  <2>1. QED BY <1>3, SkipInRange
<1>5. ~ (start > Len(b)) /\ Scan(b, i).pos = RecordEnd(b, start)
  BY DEF Scan
<1> HIDE DEF here, inside, start
<1>6. start \in 1..Len(b) /\ start >= i
  BY <1>1, <1>3, <1>4, <1>5
<1>7. RecordEnd(b, start) \in (start + 1)..(Len(b) + 1)
  BY <1>6, RecordEndRange
<1>8. QED BY <1>1, <1>5, <1>6, <1>7

-----------------------------------------------------------------------------
(* Cells, columns and tables.                                              *)

\* A cell of a column is of the column's type or null; columns of one length.
CellOK(v, kind) == v = Null \/ v[1] = kind

\* A cell that is coerced to the type of its column has that type or is null.
LEMMA CoerceKind ==
  ASSUME NEW v, NEW kind \in ColKinds
  PROVE  CellOK(Coerce(v, kind), kind)
<1>1. \A t : CellOK(ParseI64(t), "i64") /\ CellOK(ParseF64(t), "f64") /\ CellOK(ParseBool(t), "bool")
  BY DEF ParseI64, ParseF64, ParseBool, I64, F64, Bool, CellOK
<1>2. CellOK(AsI64(v), "i64")
  BY <1>1 DEF AsI64, I64, CellOK
<1>3. CellOK(AsF64(v), "f64")
  BY <1>1 DEF AsF64, F64, CellOK
<1>4. CellOK(AsBool(v), "bool")
  BY <1>1 DEF AsBool, Bool, CellOK
<1>5. CellOK(AsStr(v), "str")
  BY DEF AsStr, Str, CellOK
<1>6. QED BY <1>2, <1>3, <1>4, <1>5 DEF Coerce, ColKinds

\* The type inferred of an expression is the type of some column.
LEMMA KindOfExpr == ASSUME NEW ts PROVE ExprKind(ts) \in ColKinds
<1>1. \A t : CastType(t) \in ColKinds
  BY DEF CastType, ColKinds
<1>2. QED BY <1>1 DEF ExprKind, ColKinds

ColumnOK(col) == DOMAIN col = {"name", "kind", "cells"} /\ col.kind \in ColKinds /\ IsSeq(col.cells)

\* Columns of n cells each.
ColumnsOK(cols, n) ==
  /\ IsSeq(cols)
  /\ \A c \in DOMAIN cols :
       /\ ColumnOK(cols[c]) /\ Len(cols[c].cells) = n
       /\ \A r \in 1..n : CellOK(cols[c].cells[r], cols[c].kind)

\* Columns of one length give that length as the number of rows.
LEMMA RowCountIs ==
  ASSUME NEW cols, NEW n \in Nat, ColumnsOK(cols, n)
  PROVE  RowCount(cols) \in Nat /\ (RowCount(cols) = 0 \/ RowCount(cols) = n)
<1>1. CASE cols = <<>>
  BY <1>1 DEF RowCount
<1>2. CASE cols # <<>>
  <2>1. 1 \in DOMAIN cols
    BY <1>2, SeqShape, EmptyLen DEF ColumnsOK
  <2>2. QED BY <1>2, <2>1 DEF RowCount, ColumnsOK
<1>3. QED BY <1>1, <1>2

\* A table over columns, with rows of cells of their kinds.
LEMMA TableIsOK ==
  ASSUME NEW cols, NEW rows, IsSeq(cols), IsSeq(rows), \A c \in DOMAIN cols : ColumnOK(cols[c]),
         \A k \in DOMAIN rows :
           /\ rows[k] = [c \in DOMAIN cols |-> rows[k][c]]
           /\ \A c \in DOMAIN cols : CellOK(rows[k][c], cols[c].kind)
  PROVE  TableOK(Table(cols, rows))
<1> DEFINE t == Table(cols, rows)
<1>1. Len(cols) \in Nat /\ DOMAIN cols = 1..Len(cols)
  BY SeqShape
<1>2. DOMAIN t = {"names", "kinds", "rows"} /\ t.names = Names(cols) /\ t.kinds = Kinds(cols) /\ t.rows = rows
  BY DEF Table
<1>3. IsSeq(t.names) /\ Len(t.names) = Len(cols) /\ IsSeq(t.kinds) /\ Len(t.kinds) = Len(cols)
  <2>1. /\ DOMAIN Names(cols) = 1..Len(cols) /\ Names(cols) = [c \in 1..Len(cols) |-> Names(cols)[c]]
        /\ DOMAIN Kinds(cols) = 1..Len(cols) /\ Kinds(cols) = [c \in 1..Len(cols) |-> Kinds(cols)[c]]
    BY <1>1 DEF Names, Kinds
  <2>2. QED BY <1>1, <1>2, <2>1, SeqIntro
<1>4. \A k \in Range(t.kinds) : k \in ColKinds
  BY <1>1, <1>2 DEF Kinds, Range, ColumnOK
<1>5. ASSUME NEW row \in Range(rows)
      PROVE  Len(row) = Len(cols) /\ \A c \in DOMAIN row : row[c] = Null \/ row[c][1] = t.kinds[c]
  <2>1. PICK k \in DOMAIN rows : row = rows[k]
    BY <1>5 DEF Range
  <2>2. row = [c \in DOMAIN cols |-> row[c]] /\ \A c \in DOMAIN cols : CellOK(row[c], cols[c].kind)
    BY <2>1
  <2>3. DOMAIN row = 1..Len(cols)
    BY <1>1, <2>2
  <2>4. Len(row) = Len(cols)
    BY <1>1, <2>2, <2>3, SeqIntro
  <2>5. \A c \in DOMAIN cols : t.kinds[c] = cols[c].kind
    BY <1>2 DEF Kinds
  <2>6. QED BY <1>1, <2>2, <2>3, <2>4, <2>5 DEF CellOK
<1> HIDE DEF t
<1>6. QED BY <1>2, <1>3, <1>4, <1>5 DEF TableOK, t

\* The row groups of a file have the rows from 1 to n and no other.
LEMMA RowGroupsWithin ==
  ASSUME NEW n \in Nat
  PROVE  FlattenSeq(RowGroups(n)) \in Seq(1..n)
<1> DEFINE G == GroupRows
           q == (n + G - 1) \div G
           Rows(g) == IF g * G <= n THEN G ELSE n - (g - 1) * G
<1>1. G \in Nat \ {0}
  BY GroupRowsAssumption
<1> HIDE DEF G
<1>2. q \in Nat /\ q * G \in Nat /\ q * G <= n + G - 1
  <2>1. n + G - 1 \in Nat
    BY <1>1
  <2>2. q \in Nat /\ n + G - 1 = G * q + ((n + G - 1) % G) /\ (n + G - 1) % G \in Nat
    BY <1>1, <2>1, Division
  <2> HIDE DEF q
  <2>3. G * q = q * G /\ q * G \in Nat
    BY <1>1, <2>2
  <2>4. QED BY <1>1, <2>2, <2>3
<1> HIDE DEF q
<1>3. ASSUME NEW g \in 1..q
      PROVE  /\ (g - 1) * G \in Nat /\ (g - 1) * G < n /\ Rows(g) \in Nat
             /\ (g - 1) * G + Rows(g) <= n
  <2>1. g - 1 \in Nat /\ (g - 1) + 1 = g /\ g - 1 < q /\ g \in Nat
    BY <1>2
  <2>2. (g - 1) * G \in Nat /\ ((g - 1) + 1) * G <= q * G /\ ((g - 1) + 1) * G = (g - 1) * G + 1 * G
    BY <1>1, <1>2, <2>1, Products
  <2>3. g * G = (g - 1) * G + G /\ g * G <= q * G
    BY <1>1, <2>1, <2>2
  <2> DEFINE a == (g - 1) * G
             z == g * G
  <2> HIDE DEF a, z
  <2>4. a \in Nat /\ z = a + G /\ z <= q * G
    BY <2>2, <2>3 DEF a, z
  <2>5. a < n
    BY <1>1, <1>2, <2>4
  <2>6. (IF z <= n THEN G ELSE n - a) \in Nat /\ a + (IF z <= n THEN G ELSE n - a) <= n
    BY <1>1, <2>4, <2>5
  <2>7. QED BY <2>4, <2>5, <2>6 DEF a, z
<1> DEFINE ss == RowGroups(n)
<1>4. ss = [g \in 1..q |-> [r \in 1..Rows(g) |-> (g - 1) * G + r]]
  BY DEF RowGroups, G, q
<1>5. IsSeq(ss)
  BY <1>2, <1>4, SeqIntro
<1>6. ASSUME NEW g \in DOMAIN ss PROVE ss[g] \in Seq(1..n)
  <2>1. g \in 1..q /\ ss[g] = [r \in 1..Rows(g) |-> (g - 1) * G + r]
    BY <1>4
  <2>2. (g - 1) * G \in Nat /\ Rows(g) \in Nat /\ (g - 1) * G + Rows(g) <= n
    BY <1>3, <2>1
  <2> DEFINE a == (g - 1) * G
             m == Rows(g)
  <2> HIDE DEF a, m
  <2>3. a \in Nat /\ m \in Nat /\ a + m <= n /\ ss[g] = [r \in 1..m |-> a + r]
    BY <2>1, <2>2 DEF a, m
  <2>4. \A r \in 1..m : a + r \in 1..n
    BY <2>3
  <2> HIDE DEF ss
  <2>5. QED BY <2>3, <2>4
<1> HIDE DEF ss
<1>7. QED BY <1>5, <1>6, Flatten DEF ss

\* Columns of one length make a table: each row has a cell for each column.
LEMMA ParquetTableOK ==
  ASSUME NEW cols, NEW n \in Nat, ColumnsOK(cols, n)
  PROVE  TableOK(ParquetTable(cols))
<1> DEFINE m == RowCount(cols)
           order == FlattenSeq(RowGroups(m))
           rows == [k \in DOMAIN order |-> Row(cols, order[k])]
<1>1. m \in Nat /\ (m = 0 \/ m = n)
  BY RowCountIs
<1>2. order \in Seq(1..m)
  <2> HIDE DEF m
  <2>1. QED BY <1>1, RowGroupsWithin
<1>3. Len(order) \in Nat /\ DOMAIN order = 1..Len(order) /\ \A k \in DOMAIN order : order[k] \in 1..n
  <2> HIDE DEF order, m
  <2>1. QED BY <1>1, <1>2
<1> HIDE DEF order, m
<1>4. IsSeq(rows)
  BY <1>3, SeqIntro
<1>5. ASSUME NEW k \in DOMAIN rows
      PROVE  /\ rows[k] = [c \in DOMAIN cols |-> rows[k][c]]
             /\ \A c \in DOMAIN cols : CellOK(rows[k][c], cols[c].kind)
  BY <1>3 DEF Row, ColumnsOK
<1>6. ParquetTable(cols) = Table(cols, rows)
  BY DEF ParquetTable, order, m
<1> HIDE DEF rows
<1>7. QED BY <1>4, <1>5, <1>6, TableIsOK DEF ColumnsOK

-----------------------------------------------------------------------------
(* What the operations of the store keep.                                  *)

\* A store of rectangular tables and of files that are such or documents.
TablesOK(tables) == \A t \in DOMAIN tables : TableOK(tables[t])
FilesOK(files) == \A p \in DOMAIN files : FileOK(files[p])
StoreOK(st) ==
  /\ DOMAIN st = {"mem", "duck", "files"}
  /\ TablesOK(st.mem) /\ TablesOK(st.duck) /\ FilesOK(st.files)

\* An operation may take or change the tables named in temps, and otherwise adds: rows
\* to the end of a table, tables, files.
KeepsRows(old, new, temps) ==
  \A t \in DOMAIN old \ temps : t \in DOMAIN new /\ IsPrefix(old[t].rows, new[t].rows)
Grows(old, new, temps) ==
  /\ KeepsRows(old.mem, new.mem, temps) /\ KeepsRows(old.duck, new.duck, {})
  /\ DOMAIN old.files \subseteq DOMAIN new.files

LEMMA PrefixIs ==
  ASSUME NEW s, NEW t, IsSeq(s), IsSeq(t)
  PROVE  IsPrefix(s, t) <=> Len(s) <= Len(t) /\ \A k \in 1..Len(s) : s[k] = t[k]
<1> DEFINE S == Range(s) \cup Range(t)
<1>1. s \in Seq(S) /\ t \in Seq(S)
  BY SeqInSet DEF Range
<1> HIDE DEF S
<1>2. Len(s) \in Nat /\ Len(t) \in Nat /\ SubSeq(s, 1, Len(s)) = s
  BY <1>1
<1>3. CASE Len(s) <= Len(t)
  <2>1. /\ SubSeq(t, 1, Len(s)) = [k \in 1..Len(s) |-> t[k]]
        /\ s = [k \in 1..Len(s) |-> s[k]]
    BY <1>1, <1>2, <1>3
  <2>2. SubSeq(s, 1, Len(s)) = SubSeq(t, 1, Len(s)) <=> \A k \in 1..Len(s) : s[k] = t[k]
    BY <1>2, <2>1
  <2>3. QED BY <1>3, <2>2 DEF IsPrefix
<1>4. CASE ~ (Len(s) <= Len(t))
  BY <1>4 DEF IsPrefix
<1>5. QED BY <1>3, <1>4

\* Being a prefix is reflexive and transitive, and appending keeps it.
LEMMA PrefixFacts ==
  ASSUME NEW s, NEW t, IsSeq(s), IsSeq(t)
  PROVE  /\ IsPrefix(s, s) /\ IsPrefix(s, s \o t)
         /\ \A u : IsSeq(u) /\ IsPrefix(s, t) /\ IsPrefix(t, u) => IsPrefix(s, u)
<1>1. Len(s) \in Nat /\ Len(t) \in Nat
  BY SeqShape
<1>2. IsPrefix(s, s)
  BY <1>1, PrefixIs
<1>3. IsPrefix(s, s \o t)
  <2> DEFINE c == s \o t
  <2>1. IsSeq(c) /\ Len(c) = Len(s) + Len(t) /\ \A k \in 1..(Len(s) + Len(t)) : k <= Len(s) => c[k] = s[k]
    BY Concat
  <2> HIDE DEF c
  <2>2. Len(s) <= Len(c) /\ \A k \in 1..Len(s) : s[k] = c[k]
    BY <1>1, <2>1
  <2>3. IsPrefix(s, c)
    BY <2>1, <2>2, PrefixIs
  <2>4. QED BY <2>3 DEF c
<1>4. ASSUME NEW u, IsSeq(u), IsPrefix(s, t), IsPrefix(t, u) PROVE IsPrefix(s, u)
  <2>1. Len(u) \in Nat
    BY <1>4, SeqShape
  <2>2. Len(s) <= Len(t) /\ \A k \in 1..Len(s) : s[k] = t[k]
    BY <1>4, PrefixIs
  <2>3. Len(t) <= Len(u) /\ \A k \in 1..Len(t) : t[k] = u[k]
    BY <1>4, PrefixIs
  <2>4. Len(s) <= Len(u) /\ \A k \in 1..Len(s) : s[k] = u[k]
    BY <1>1, <2>1, <2>2, <2>3
  <2>5. QED BY <1>4, <2>4, PrefixIs
<1>5. QED BY <1>2, <1>3, <1>4

\* Two operations that keep what there was, one after the other, keep it.
LEMMA GrowsTwice ==
  ASSUME NEW a, NEW b, NEW c, NEW temps, StoreOK(a), StoreOK(b), StoreOK(c),
         Grows(a, b, temps), Grows(b, c, temps)
  PROVE  Grows(a, c, temps)
<1>1. ASSUME NEW old, NEW mid, NEW new, NEW T, TablesOK(old), TablesOK(mid), TablesOK(new),
             KeepsRows(old, mid, T), KeepsRows(mid, new, T)
      PROVE  KeepsRows(old, new, T)
  <2>1. ASSUME NEW t \in DOMAIN old \ T PROVE t \in DOMAIN new /\ IsPrefix(old[t].rows, new[t].rows)
    <3>1. t \in DOMAIN mid /\ IsPrefix(old[t].rows, mid[t].rows)
      BY <1>1 DEF KeepsRows
    <3>2. t \in DOMAIN new /\ IsPrefix(mid[t].rows, new[t].rows)
      BY <1>1, <3>1 DEF KeepsRows
    <3>3. IsSeq(old[t].rows) /\ IsSeq(mid[t].rows) /\ IsSeq(new[t].rows)
      BY <1>1, <3>1, <3>2 DEF TablesOK, TableOK
    <3>4. QED BY <3>1, <3>2, <3>3, PrefixFacts
  <2>2. QED BY <2>1 DEF KeepsRows
<1>2. KeepsRows(a.mem, c.mem, temps)
  BY <1>1 DEF Grows, StoreOK
<1>3. KeepsRows(a.duck, c.duck, {})
  BY <1>1 DEF Grows, StoreOK
<1>4. QED BY <1>2, <1>3 DEF Grows

LEMMA KeepsSame ==
  ASSUME NEW tables, NEW temps, TablesOK(tables)
  PROVE  KeepsRows(tables, tables, temps)
<1>1. \A t \in DOMAIN tables : IsSeq(tables[t].rows)
  BY DEF TablesOK, TableOK
<1>2. QED BY <1>1, PrefixFacts DEF KeepsRows

LEMMA GrowsSame == ASSUME NEW st, StoreOK(st), NEW temps PROVE Grows(st, st, temps)
BY KeepsSame DEF Grows, StoreOK

\* A table is put in the place of one whose rows it begins with.
LEMMA PutKeeps ==
  ASSUME NEW tables, NEW t, NEW table, NEW temps, TablesOK(tables), TableOK(table),
         t \in DOMAIN tables => IsPrefix(tables[t].rows, table.rows)
  PROVE  TablesOK(Put(tables, t, table)) /\ KeepsRows(tables, Put(tables, t, table), temps)
<1>1. /\ DOMAIN Put(tables, t, table) = DOMAIN tables \cup {t}
      /\ Put(tables, t, table)[t] = table
      /\ \A u \in DOMAIN tables : u # t => Put(tables, t, table)[u] = tables[u]
  BY DEF Put, Merge
<1>2. \A u \in DOMAIN tables : IsPrefix(tables[u].rows, tables[u].rows)
  BY PrefixFacts DEF TablesOK, TableOK
<1>3. QED BY <1>1, <1>2 DEF TablesOK, KeepsRows

\* Replacing a table by a longer one keeps the store well formed and takes nothing.
LEMMA PutTableKeeps ==
  ASSUME NEW st, StoreOK(st), NEW conn, NEW t, NEW table, NEW temps, TableOK(table),
         Has(st, conn, t) => IsPrefix(TableAt(st, conn, t).rows, table.rows)
  PROVE  StoreOK(PutTable(st, conn, t, table)) /\ Grows(st, PutTable(st, conn, t, table), temps)
<1> DEFINE new == PutTable(st, conn, t, table)
<1>1. CASE conn = "mem"
  <2>1. /\ DOMAIN new = DOMAIN st /\ new.mem = Put(st.mem, t, table)
        /\ new.duck = st.duck /\ new.files = st.files
    BY <1>1 DEF PutTable, StoreOK
  <2>2. t \in DOMAIN st.mem => IsPrefix(st.mem[t].rows, table.rows)
    BY <1>1 DEF Has, TableAt
  <2>3. TablesOK(st.mem) /\ TablesOK(st.duck)
    BY DEF StoreOK
  <2>4. TablesOK(new.mem) /\ KeepsRows(st.mem, new.mem, temps)
    BY <2>1, <2>2, <2>3, PutKeeps
  <2>5. KeepsRows(st.duck, new.duck, {})
    BY <2>1, <2>3, KeepsSame
  <2> HIDE DEF new
  <2>6. QED BY <2>1, <2>3, <2>4, <2>5 DEF StoreOK, Grows, new
<1>2. CASE conn # "mem"
  <2>1. /\ DOMAIN new = DOMAIN st /\ new.duck = Put(st.duck, <<conn, t>>, table)
        /\ new.mem = st.mem /\ new.files = st.files
    BY <1>2 DEF PutTable, StoreOK
  <2>2. <<conn, t>> \in DOMAIN st.duck => IsPrefix(st.duck[<<conn, t>>].rows, table.rows)
    BY <1>2 DEF Has, TableAt
  <2>3. TablesOK(st.mem) /\ TablesOK(st.duck)
    BY DEF StoreOK
  <2>4. TablesOK(new.duck) /\ KeepsRows(st.duck, new.duck, {})
    BY <2>1, <2>2, <2>3, PutKeeps
  <2>5. KeepsRows(st.mem, new.mem, temps)
    BY <2>1, <2>3, KeepsSame
  <2> HIDE DEF new
  <2>6. QED BY <2>1, <2>3, <2>4, <2>5 DEF StoreOK, Grows, new
<1>3. QED BY <1>1, <1>2

\* Rows are added to the end of the table, or nothing is done.
LEMMA AppendKeeps ==
  ASSUME NEW st, StoreOK(st), NEW conn, NEW t, NEW cols, IsSeq(cols),
         \A c \in DOMAIN cols : ColumnOK(cols[c]), NEW n \in Nat, NEW temps
  PROVE  LET result == CreateAndAppend(st, conn, t, cols, n)
         IN StoreOK(result.store) /\ Grows(st, result.store, temps)
<1> DEFINE old == IF Has(st, conn, t) THEN TableAt(st, conn, t) ELSE Table(cols, <<>>)
           Placed(r) == [c \in DOMAIN old.names |->
                           IF Contains(Names(cols), old.names[c])
                           THEN Coerce(cols[IndexOf(Names(cols), old.names[c])].cells[r], old.kinds[c])
                           ELSE Null]
           added == [r \in 1..n |-> Placed(r)]
           new == [old EXCEPT !.rows = @ \o added]
<1>1. TableOK(old)
  <2>1. CASE Has(st, conn, t)
    <3>1. conn = "mem" => t \in DOMAIN st.mem /\ TableAt(st, conn, t) = st.mem[t]
      BY <2>1 DEF Has, TableAt
    <3>2. conn # "mem" => <<conn, t>> \in DOMAIN st.duck /\ TableAt(st, conn, t) = st.duck[<<conn, t>>]
      BY <2>1 DEF Has, TableAt
    <3>3. QED BY <2>1, <3>1, <3>2 DEF StoreOK, TablesOK
  <2>2. CASE ~ Has(st, conn, t)
    <3>1. IsSeq(<<>>) /\ DOMAIN <<>> = {}
      BY NoElements
    <3>2. TableOK(Table(cols, <<>>))
      BY <3>1, TableIsOK
    <3>3. QED BY <2>2, <3>2
  <2>3. QED BY <2>1, <2>2
<1> HIDE DEF old
<1>2. /\ DOMAIN old = {"names", "kinds", "rows"} /\ IsSeq(old.rows) /\ IsSeq(old.names) /\ IsSeq(old.kinds)
      /\ Len(old.kinds) = Len(old.names)
      /\ \A c \in DOMAIN old.names : old.kinds[c] \in ColKinds
  <2>1. DOMAIN old.names = DOMAIN old.kinds
    BY <1>1, SeqShape DEF TableOK
  <2>2. QED BY <1>1, <2>1 DEF TableOK, Range
<1>3. IsSeq(added) /\ DOMAIN added = 1..n
  BY SeqIntro
<1>4. ASSUME NEW r \in 1..n
      PROVE  /\ Len(added[r]) = Len(old.names)
             /\ \A c \in DOMAIN added[r] : added[r][c] = Null \/ added[r][c][1] = old.kinds[c]
  <2>1. added[r] = Placed(r)
    OBVIOUS
  <2>2. Len(old.names) \in Nat /\ DOMAIN old.names = 1..Len(old.names)
    BY <1>2, SeqShape
  <2>3. Len(Placed(r)) = Len(old.names)
    BY <2>2, SeqIntro
  <2>4. ASSUME NEW c \in DOMAIN old.names PROVE Placed(r)[c] = Null \/ Placed(r)[c][1] = old.kinds[c]
    <3>1. \A v : CellOK(Coerce(v, old.kinds[c]), old.kinds[c])
      BY <1>2, CoerceKind
    <3>2. QED BY <3>1 DEF CellOK
  <2> HIDE DEF added
  <2>5. DOMAIN Placed(r) = DOMAIN old.names
    OBVIOUS
  <2> HIDE DEF Placed
  <2>6. QED BY <2>1, <2>3, <2>4, <2>5
<1> HIDE DEF added
<1>5. IsSeq(old.rows \o added) /\ IsPrefix(old.rows, old.rows \o added)
  BY <1>2, <1>3, Concat, PrefixFacts
<1>6. /\ DOMAIN new = DOMAIN old /\ new.names = old.names /\ new.kinds = old.kinds
      /\ new.rows = old.rows \o added
  BY <1>2
<1>7. ASSUME NEW row \in Range(old.rows \o added)
      PROVE  row \in Range(old.rows) \/ row \in Range(added)
  <2> DEFINE S == Range(old.rows) \cup Range(added)
  <2>1. old.rows \in Seq(S) /\ added \in Seq(S)
    BY <1>2, <1>3, SeqInSet DEF Range
  <2> HIDE DEF S
  <2>2. old.rows \o added \in Seq(S)
    BY <2>1
  <2>3. Range(old.rows \o added) \subseteq S
    BY <2>2, SeqOfSet
  <2>4. QED BY <2>3 DEF S
<1> HIDE DEF new
<1>8. TableOK(new)
  <2>1. ASSUME NEW row \in Range(new.rows)
        PROVE  /\ Len(row) = Len(new.names)
               /\ \A c \in DOMAIN row : row[c] = Null \/ row[c][1] = new.kinds[c]
    <3>1. CASE row \in Range(old.rows)
      BY <1>1, <1>6, <3>1 DEF TableOK
    <3>2. CASE row \in Range(added)
      <4>1. PICK r \in 1..n : row = added[r]
        BY <1>3, <3>2 DEF Range
      <4>2. QED BY <1>4, <1>6, <4>1
    <3>3. QED BY <1>6, <1>7, <3>1, <3>2
  <2>2. QED BY <1>1, <1>2, <1>5, <1>6, <2>1 DEF TableOK
<1>9. Has(st, conn, t) => IsPrefix(TableAt(st, conn, t).rows, new.rows)
  BY <1>5, <1>6 DEF old
<1>10. StoreOK(PutTable(st, conn, t, new)) /\ Grows(st, PutTable(st, conn, t, new), temps)
  BY <1>8, <1>9, PutTableKeeps
<1>11. \/ CreateAndAppend(st, conn, t, cols, n) = Failed(WriteError(t, cols), st)
       \/ CreateAndAppend(st, conn, t, cols, n) = Done(PutTable(st, conn, t, new))
  BY DEF CreateAndAppend, new, added, old
<1>12. QED BY <1>10, <1>11, GrowsSame DEF Failed, Done

-----------------------------------------------------------------------------
(* Gathering rows, and writing files.                                      *)

\* Gathering the same rows of every column gives columns of one length.
LEMMA GatherOK ==
  ASSUME NEW cols, NEW n \in Nat, ColumnsOK(cols, n), NEW data \in Seq(DOMAIN cols),
         NEW rows \in Seq(1..n)
  PROVE  ColumnsOK([k \in DOMAIN data |-> Gather(cols[data[k]], rows)], Len(rows))
<1> DEFINE g == [k \in DOMAIN data |-> Gather(cols[data[k]], rows)]
<1>1. Len(data) \in Nat /\ DOMAIN data = 1..Len(data) /\ \A k \in DOMAIN data : data[k] \in DOMAIN cols
  OBVIOUS
<1>2. Len(rows) \in Nat /\ DOMAIN rows = 1..Len(rows) /\ \A r \in DOMAIN rows : rows[r] \in 1..n
  OBVIOUS
<1>3. IsSeq(g) /\ DOMAIN g = DOMAIN data
  BY <1>1, SeqIntro
<1>4. ASSUME NEW k \in DOMAIN g
      PROVE  /\ ColumnOK(g[k]) /\ Len(g[k].cells) = Len(rows)
             /\ \A r \in 1..Len(rows) : CellOK(g[k].cells[r], g[k].kind)
  <2> DEFINE col == cols[data[k]]
             cells == [r \in DOMAIN rows |-> col.cells[rows[r]]]
  <2>1. data[k] \in DOMAIN cols /\ g[k] = [col EXCEPT !.cells = cells]
    BY <1>1, <1>3 DEF Gather
  <2>2. ColumnOK(col) /\ \A r \in 1..n : CellOK(col.cells[r], col.kind)
    BY <2>1 DEF ColumnsOK
  <2> HIDE DEF g, col
  <2>3. IsSeq(cells) /\ Len(cells) = Len(rows)
    BY <1>2, SeqIntro
  <2>4. \A r \in 1..Len(rows) : CellOK(cells[r], col.kind)
    BY <1>2, <2>2
  <2> HIDE DEF cells
  <2>5. DOMAIN g[k] = DOMAIN col /\ g[k].kind = col.kind /\ g[k].cells = cells
    BY <2>1, <2>2 DEF ColumnOK
  <2>6. QED BY <2>2, <2>3, <2>4, <2>5 DEF ColumnOK
<1> HIDE DEF g
<1>5. QED BY <1>3, <1>4 DEF ColumnsOK, g

\* The rows of a directory are rows of the columns.
LEMMA HiveGroupWithin ==
  ASSUME NEW cols, NEW n \in Nat, ColumnsOK(cols, n), NEW by, NEW key
  PROVE  HiveGroup(cols, by, key) \in Seq(1..n)
<1> DEFINE m == RowCount(cols)
           all == [i \in 1..m |-> i]
           T == {i \in 1..m : HiveKey(cols, by, i) = key}
<1>1. m \in Nat /\ (m = 0 \/ m = n)
  BY RowCountIs
<1>2. HiveGroup(cols, by, key) = Those(all, T)
  BY DEF HiveGroup
<1> HIDE DEF m
<1>3. IsSeq(all)
  BY <1>1, SeqIntro
<1>4. T \cap Range(all) \subseteq 1..n
  BY <1>1
<1> HIDE DEF all, T
<1>5. Those(all, T) \in Seq(T \cap Range(all))
  BY <1>3, ThoseShape
<1>6. QED BY <1>2, <1>4, <1>5

\* The files of a partitioned dataset are tables.
LEMMA HiveFilesOK ==
  ASSUME NEW base, NEW cols, NEW n \in Nat, ColumnsOK(cols, n), NEW by
  PROVE  FilesOK(HiveFiles(base, cols, by))
<1> DEFINE all == [c \in DOMAIN cols |-> c]
           T == {c \in DOMAIN cols : \A j \in DOMAIN by : IndexOf(Names(cols), by[j]) # c}
           data == Those(all, T)
           Gathered(rows) == [k \in DOMAIN data |-> Gather(cols[data[k]], rows)]
<1>1. data \in Seq(DOMAIN cols)
  <2>1. IsSeq(cols) /\ Len(cols) \in Nat /\ DOMAIN cols = 1..Len(cols)
    BY SeqShape DEF ColumnsOK
  <2>2. IsSeq(all)
    BY <2>1, SeqIntro
  <2>3. T \subseteq DOMAIN cols
    OBVIOUS
  <2> HIDE DEF all, T
  <2>4. Those(all, T) \in Seq(T \cap Range(all))
    BY <2>2, ThoseShape
  <2>5. QED BY <2>3, <2>4
<1>2. ASSUME NEW key PROVE FileOK(ParquetTable(Gathered(HiveGroup(cols, by, key))))
  <2> DEFINE rows == HiveGroup(cols, by, key)
  <2>1. rows \in Seq(1..n)
    BY HiveGroupWithin
  <2> HIDE DEF data, rows
  <2>2. ColumnsOK(Gathered(rows), Len(rows)) /\ Len(rows) \in Nat
    BY <1>1, <2>1, GatherOK
  <2> HIDE DEF Gathered
  <2>3. TableOK(ParquetTable(Gathered(rows)))
    BY <2>2, ParquetTableOK
  <2>4. QED BY <2>3 DEF FileOK, TableOK, rows
<1>3. \A p \in DOMAIN HiveFiles(base, cols, by) :
        HiveFiles(base, cols, by)[p] = ParquetTable(Gathered(HiveGroup(cols, by, p[2])))
  BY DEF HiveFiles
<1> HIDE DEF Gathered
<1>4. QED BY <1>2, <1>3 DEF FilesOK

LEMMA MergeFiles ==
  ASSUME NEW f, NEW g, FilesOK(f), FilesOK(g)
  PROVE  FilesOK(Merge(f, g)) /\ DOMAIN Merge(f, g) = DOMAIN f \cup DOMAIN g
BY DEF FilesOK, Merge

\* Files come with new ones merged in.
LEMMA FilesKeep ==
  ASSUME NEW st, StoreOK(st), NEW files, FilesOK(files), DOMAIN st.files \subseteq DOMAIN files, NEW temps
  PROVE  LET new == [st EXCEPT !.files = files] IN StoreOK(new) /\ Grows(st, new, temps)
<1> DEFINE new == [st EXCEPT !.files = files]
<1>1. DOMAIN new = DOMAIN st /\ new.files = files /\ new.mem = st.mem /\ new.duck = st.duck
  BY DEF StoreOK
<1>2. TablesOK(st.mem) /\ TablesOK(st.duck)
  BY DEF StoreOK
<1> HIDE DEF new
<1>3. KeepsRows(st.mem, new.mem, temps) /\ KeepsRows(st.duck, new.duck, {})
  BY <1>1, <1>2, KeepsSame
<1>4. StoreOK(new) /\ Grows(st, new, temps)
  BY <1>1, <1>3 DEF StoreOK, Grows
<1>5. QED BY <1>4 DEF new

\* Writing files keeps the files there are, or replaces them whole.
LEMMA WriteFilesKeeps ==
  ASSUME NEW st, StoreOK(st), NEW base, NEW cols, NEW n \in Nat, ColumnsOK(cols, n), NEW by, NEW temps
  PROVE  LET result == WriteFiles(st, base, cols, by)
         IN StoreOK(result.store) /\ Grows(st, result.store, temps)
<1>1. FilesOK(st.files)
  BY DEF StoreOK
<1>2. StoreOK(st) /\ Grows(st, st, temps)
  BY GrowsSame
<1> DEFINE path == <<base, <<>>>>
           one == WriteParquet(st.files, path, cols)
           many == Merge(HiveFiles(base, cols, by), st.files)
<1>3. FilesOK(one) /\ DOMAIN st.files \subseteq DOMAIN one
  <2>1. CASE RowCount(cols) = 0
    BY <1>1, <2>1 DEF WriteParquet
  <2>2. CASE RowCount(cols) # 0
    <3> DEFINE new == [x \in {path} |-> ParquetTable(cols)]
    <3>1. FileOK(ParquetTable(cols))
      BY ParquetTableOK DEF FileOK, TableOK
    <3>2. FilesOK(new)
      BY <3>1 DEF FilesOK
    <3>3. one = Merge(new, st.files)
      BY <2>2 DEF WriteParquet, Put
    <3> HIDE DEF new, one
    <3>4. QED BY <1>1, <3>2, <3>3, MergeFiles
  <2>3. QED BY <2>1, <2>2
<1>4. FilesOK(many) /\ DOMAIN st.files \subseteq DOMAIN many
  BY <1>1, HiveFilesOK, MergeFiles
<1> HIDE DEF one, many
<1> DEFINE st1 == [st EXCEPT !.files = one]
           st2 == [st EXCEPT !.files = many]
<1>5. StoreOK(st1) /\ Grows(st, st1, temps) /\ StoreOK(st2) /\ Grows(st, st2, temps)
  BY <1>3, <1>4, FilesKeep
<1> HIDE DEF st1, st2
<1>6. WriteFiles(st, base, cols, by).store \in {st, st1, st2}
  BY DEF WriteFiles, Done, Failed, st1, st2, one, many, path
<1>7. QED BY <1>2, <1>5, <1>6

\* Dropping a table takes that table and no other.
LEMMA DropKeeps ==
  ASSUME NEW st, StoreOK(st), NEW t
  PROVE  StoreOK(DropTable(st, t)) /\ Grows(st, DropTable(st, t), {t})
<1> DEFINE new == DropTable(st, t)
<1>1. /\ DOMAIN new = DOMAIN st /\ new.files = st.files /\ new.duck = st.duck
      /\ DOMAIN new.mem = DOMAIN st.mem \ {t}
      /\ \A u \in DOMAIN st.mem \ {t} : new.mem[u] = st.mem[u]
  BY DEF DropTable, StoreOK
<1> HIDE DEF new
<1>2. KeepsRows(st.mem, st.mem, {t}) /\ KeepsRows(st.duck, st.duck, {})
  BY KeepsSame DEF StoreOK
<1>3. StoreOK(new) /\ Grows(st, new, {t})
  BY <1>1, <1>2 DEF StoreOK, TablesOK, Grows, KeepsRows
<1>4. QED BY <1>3 DEF new

-----------------------------------------------------------------------------
(* Accumulators.                                                           *)

\* An accumulator has a cell in every column for each of its rows: in those of its fields
\* unless a root builds them, and in the column of the keys to join on.
AccInv(acc, ds) ==
  /\ DOMAIN acc = {"cols", "nodes", "key", "filter", "lk", "raws", "elems"}
  /\ IsSeq(acc.cols) /\ IsSeq(acc.lk) /\ IsSeq(acc.raws) /\ IsSeq(acc.elems)
  /\ Len(acc.lk) = IF ds.join = <<>> THEN 0 ELSE 1
  /\ \A c \in DOMAIN acc.cols : ColumnOK(acc.cols[c])
  /\ \A c \in DOMAIN acc.lk : ColumnOK(acc.lk[c]) /\ Len(acc.lk[c].cells) = AccRows(acc, ds)
  /\ IF HasRoot(ds)
     THEN Len(acc.elems) = AccRows(acc, ds) /\ \A c \in DOMAIN acc.cols : Len(acc.cols[c].cells) = 0
     ELSE acc.raws = <<>> /\ \A c \in DOMAIN acc.cols : Len(acc.cols[c].cells) = AccRows(acc, ds)

LEMMA FlattenAny ==
  ASSUME NEW ss, IsSeq(ss), \A k \in DOMAIN ss : IsSeq(ss[k])
  PROVE  /\ IsSeq(FlattenSeq(ss))
         /\ \A k \in DOMAIN ss : Len(ss[k]) <= Len(FlattenSeq(ss))
<1> DEFINE S == UNION {Range(ss[k]) : k \in DOMAIN ss}
<1>1. \A k \in DOMAIN ss : ss[k] \in Seq(S)
  BY SeqInSet DEF Range
<1> HIDE DEF S
<1>2. FlattenSeq(ss) \in Seq(S) /\ \A k \in DOMAIN ss : Len(ss[k]) <= Len(FlattenSeq(ss))
  BY <1>1, Flatten
<1>3. QED BY <1>2, SeqOfSet

\* An accumulator has a number of rows.
LEMMA AccRowsNat ==
  ASSUME NEW acc, NEW ds, AccInv(acc, ds)
  PROVE  AccRows(acc, ds) \in Nat
<1>1. CASE HasRoot(ds)
  BY <1>1, SeqShape DEF AccRows, AccInv
<1>2. CASE ~ HasRoot(ds) /\ ds.join # <<>>
  <2>1. 1 \in DOMAIN acc.lk
    BY <1>2, SeqShape DEF AccInv
  <2>2. QED BY <1>2, <2>1, SeqShape DEF AccRows, AccInv, ColumnOK
<1>3. CASE ~ HasRoot(ds) /\ ds.join = <<>>
  <2>1. acc.cols # <<>> => 1 \in DOMAIN acc.cols
    BY SeqShape, EmptyLen DEF AccInv
  <2>2. QED BY <1>3, <2>1, SeqShape DEF AccRows, RowCount, AccInv, ColumnOK
<1>4. QED BY <1>1, <1>2, <1>3

LEMMA FieldsWithin ==
  ASSUME NEW ds, IsSeq(ds.fields)
  PROVE  LocalFields(ds) \in Seq(DOMAIN ds.fields)
<1> DEFINE all == [k \in DOMAIN ds.fields |-> k]
           T == {k \in DOMAIN ds.fields : Projection(ds, k) = <<>>}
<1>1. IsSeq(all)
  BY SeqShape, SeqIntro
<1>2. T \cap Range(all) \subseteq DOMAIN ds.fields /\ LocalFields(ds) = Those(all, T)
  BY DEF LocalFields
<1> HIDE DEF all, T
<1>3. Those(all, T) \in Seq(T \cap Range(all))
  BY <1>1, ThoseShape
<1>4. QED BY <1>2, <1>3

LEMMA NewColumn ==
  ASSUME NEW name, NEW kind \in ColKinds
  PROVE  ColumnOK(Column(name, kind)) /\ Len(Column(name, kind).cells) = 0
BY NoElements DEF Column, ColumnOK

\* A new accumulator is empty in all its columns.
LEMMA NewAccOK ==
  ASSUME NEW ds, IsSeq(ds.fields)
  PROVE  AccInv(NewAcc(ds), ds)
<1> DEFINE acc == NewAcc(ds)
           local == LocalFields(ds)
<1>1. Len(local) \in Nat /\ DOMAIN local = 1..Len(local)
  BY FieldsWithin, SeqOfSet, SeqShape
<1>2. /\ DOMAIN acc = {"cols", "nodes", "key", "filter", "lk", "raws", "elems"}
      /\ acc.cols = [c \in DOMAIN local |-> FieldColumn(ds, local[c])]
      /\ acc.lk = IF ds.join = <<>> THEN <<>> ELSE <<Column("__lk0", "str")>>
      /\ acc.raws = <<>> /\ acc.elems = <<>>
  BY DEF NewAcc
<1> HIDE DEF acc, local
<1>3. IsSeq(acc.cols) /\ DOMAIN acc.cols = DOMAIN local
  BY <1>1, <1>2, SeqIntro
<1>4. \A c \in DOMAIN acc.cols : ColumnOK(acc.cols[c]) /\ Len(acc.cols[c].cells) = 0
  BY <1>2, <1>3, NewColumn, KindOfExpr DEF FieldColumn
<1>5. IsSeq(acc.lk) /\ Len(acc.lk) = IF ds.join = <<>> THEN 0 ELSE 1
  BY <1>2, NoElements, Singleton
<1>6. \A c \in DOMAIN acc.lk : ColumnOK(acc.lk[c]) /\ Len(acc.lk[c].cells) = 0
  <2>1. ColumnOK(Column("__lk0", "str")) /\ Len(Column("__lk0", "str").cells) = 0
    BY NewColumn DEF ColKinds
  <2> DEFINE lk == Column("__lk0", "str")
  <2> HIDE DEF lk
  <2>2. DOMAIN <<lk>> = 1..1 /\ <<lk>>[1] = lk
    BY Singleton
  <2>3. \A c \in DOMAIN <<lk>> : <<lk>>[c] = lk
    BY <2>2
  <2>4. DOMAIN <<>> = {}
    BY NoElements
  <2>5. QED BY <1>2, <2>1, <2>3, <2>4 DEF lk
<1>7. AccRows(acc, ds) = 0
  <2>1. CASE HasRoot(ds)
    BY <1>2, <2>1, NoElements DEF AccRows
  <2>2. CASE ~ HasRoot(ds) /\ ds.join # <<>>
    <3>1. 1 \in DOMAIN acc.lk
      BY <1>5, <2>2, SeqShape
    <3>2. QED BY <1>6, <2>2, <3>1 DEF AccRows
  <2>3. CASE ~ HasRoot(ds) /\ ds.join = <<>>
    <3>1. acc.cols # <<>> => 1 \in DOMAIN acc.cols
      BY <1>3, SeqShape, EmptyLen
    <3>2. QED BY <1>4, <2>3, <3>1 DEF AccRows, RowCount
  <2>4. QED BY <2>1, <2>2, <2>3
<1>8. QED
  <2>1. IsSeq(<<>>) /\ Len(<<>>) = 0
    BY NoElements
  <2>2. AccInv(acc, ds)
    BY <1>2, <1>3, <1>4, <1>5, <1>6, <1>7, <2>1 DEF AccInv
  <2>3. QED BY <2>2 DEF acc

LEMMA PushAdds ==
  ASSUME NEW col, ColumnOK(col), NEW vs, IsSeq(vs)
  PROVE  /\ ColumnOK(Push(col, vs)) /\ Push(col, vs).kind = col.kind
         /\ Len(Push(col, vs).cells) = Len(col.cells) + Len(vs)
<1> DEFINE more == [k \in DOMAIN vs |-> Coerce(vs[k], col.kind)]
<1>1. IsSeq(more) /\ Len(more) = Len(vs)
  BY SeqShape, SeqIntro
<1>2. Push(col, vs) = [col EXCEPT !.cells = @ \o more]
  BY DEF Push
<1> HIDE DEF more
<1>3. IsSeq(col.cells \o more) /\ Len(col.cells \o more) = Len(col.cells) + Len(vs)
  BY <1>1, Concat DEF ColumnOK
<1>4. QED BY <1>2, <1>3 DEF ColumnOK

\* Pushing the rows of a record keeps every column of an accumulator at the number of
\* its rows (push_master_row, push_row, push_rooted).
LEMMA PushRowsKeeps ==
  ASSUME NEW acc, NEW ds, AccInv(acc, ds), NEW rows, IsSeq(rows)
  PROVE  AccInv(PushRows(acc, ds, rows), ds)
<1> DEFINE new == PushRows(acc, ds, rows)
           m == Len(rows)
           lk == PushedKey(acc, rows)
           cols == [c \in DOMAIN acc.cols |-> PushedCells(acc, ds, c, rows)]
           raws == [r \in DOMAIN rows |-> rows[r].base]
           elems == [r \in DOMAIN rows |-> RootElem(rows[r])]
<1>1. m \in Nat /\ DOMAIN rows = 1..m
  BY SeqShape
<1> HIDE DEF m
<1>2. IsSeq(raws) /\ Len(raws) = m /\ IsSeq(elems) /\ Len(elems) = m
  BY <1>1, SeqIntro
<1>3. /\ IsSeq(acc.raws \o raws) /\ Len(acc.raws \o raws) = Len(acc.raws) + m
      /\ IsSeq(acc.elems \o elems) /\ Len(acc.elems \o elems) = Len(acc.elems) + m
  <2>1. IsSeq(acc.raws) /\ IsSeq(acc.elems)
    BY DEF AccInv
  <2> HIDE DEF raws, elems
  <2>2. QED BY <1>2, <2>1, Concat
<1>4. /\ IsSeq(lk) /\ Len(lk) = Len(acc.lk) /\ DOMAIN lk = DOMAIN acc.lk
      /\ \A c \in DOMAIN lk : ColumnOK(lk[c]) /\ Len(lk[c].cells) = Len(acc.lk[c].cells) + m
  <2>1. IsSeq(lk) /\ Len(lk) = Len(acc.lk) /\ DOMAIN lk = DOMAIN acc.lk
    BY SeqShape, SeqIntro DEF AccInv, PushedKey
  <2>2. ASSUME NEW c \in DOMAIN acc.lk
        PROVE  ColumnOK(lk[c]) /\ Len(lk[c].cells) = Len(acc.lk[c].cells) + m
    <3> DEFINE vs == [r \in DOMAIN rows |-> ToCell(Eval(acc.key[c], rows[r]), "str")]
    <3>1. IsSeq(vs) /\ Len(vs) = m
      BY <1>1, SeqIntro
    <3>2. lk[c] = Push(acc.lk[c], vs) /\ ColumnOK(acc.lk[c])
      BY DEF PushedKey, AccInv
    <3> HIDE DEF vs, lk
    <3>3. QED BY <3>1, <3>2, PushAdds
  <2> HIDE DEF lk
  <2>3. QED BY <2>1, <2>2
<1>5. /\ IsSeq(cols) /\ Len(cols) = Len(acc.cols) /\ DOMAIN cols = DOMAIN acc.cols
      /\ \A c \in DOMAIN cols : ColumnOK(cols[c]) /\ Len(cols[c].cells) = Len(acc.cols[c].cells) + m
  <2>1. IsSeq(cols) /\ Len(cols) = Len(acc.cols) /\ DOMAIN cols = DOMAIN acc.cols
    BY SeqShape, SeqIntro DEF AccInv
  <2>2. ASSUME NEW c \in DOMAIN acc.cols
        PROVE  ColumnOK(cols[c]) /\ Len(cols[c].cells) = Len(acc.cols[c].cells) + m
    <3> DEFINE vs == [r \in DOMAIN rows |->
                        ToCell(Eval(acc.nodes[LocalFields(ds)[c]], rows[r]), acc.cols[c].kind)]
    <3>1. IsSeq(vs) /\ Len(vs) = m
      BY <1>1, SeqIntro
    <3>2. cols[c] = Push(acc.cols[c], vs) /\ ColumnOK(acc.cols[c])
      BY DEF PushedCells, AccInv
    <3> HIDE DEF vs, cols
    <3>3. QED BY <3>1, <3>2, PushAdds
  <2> HIDE DEF cols
  <2>3. QED BY <2>1, <2>2
<1>6. AccRows(acc, ds) \in Nat
  BY AccRowsNat
<1>7. CASE HasRoot(ds)
  <2>1. /\ DOMAIN new = DOMAIN acc /\ new.cols = acc.cols /\ new.lk = lk
        /\ new.raws = acc.raws \o raws /\ new.elems = acc.elems \o elems
    BY <1>7 DEF PushRows, AccInv
  <2> HIDE DEF new, lk, cols, raws, elems
  <2>2. /\ IsSeq(new.raws) /\ Len(new.raws) = Len(acc.raws) + m
        /\ IsSeq(new.elems) /\ Len(new.elems) = Len(acc.elems) + m
    BY <1>3, <2>1
  <2>3. AccRows(new, ds) = AccRows(acc, ds) + m
    BY <1>7, <2>2 DEF AccRows
  <2>4. AccInv(new, ds)
    BY <1>4, <1>7, <2>1, <2>2, <2>3 DEF AccInv
  <2>5. QED BY <2>4 DEF new
<1>8. CASE ~ HasRoot(ds)
  <2>1. /\ DOMAIN new = DOMAIN acc /\ new.cols = cols /\ new.lk = lk
        /\ new.raws = acc.raws /\ new.elems = acc.elems
    BY <1>8 DEF PushRows, AccInv
  <2> HIDE DEF new, lk, cols, raws, elems
  <2>2. CASE ds.join # <<>>
    <3>1. 1 \in DOMAIN acc.lk
      BY <2>2, SeqShape DEF AccInv
    <3>2. AccRows(new, ds) = AccRows(acc, ds) + m
      BY <1>4, <1>8, <2>1, <2>2, <3>1 DEF AccRows
    <3>3. AccInv(new, ds)
      BY <1>4, <1>5, <1>8, <2>1, <2>2, <3>2 DEF AccInv
    <3>4. QED BY <3>3 DEF new
  <2>3. CASE ds.join = <<>>
    <3>1. DOMAIN acc.lk = {}
      BY <2>3, SeqShape DEF AccInv
    <3>2. \A c \in DOMAIN cols : Len(cols[c].cells) = AccRows(new, ds)
      <4>1. ASSUME NEW c \in DOMAIN cols PROVE Len(cols[c].cells) = AccRows(new, ds)
        <5>1. acc.cols # <<>> /\ cols # <<>> /\ 1 \in DOMAIN cols
          BY <1>5, SeqShape, EmptyLen, NoElements DEF AccInv
        <5>2. Len(cols[c].cells) = AccRows(acc, ds) + m /\ Len(cols[1].cells) = AccRows(acc, ds) + m
          BY <1>5, <1>8, <5>1 DEF AccInv
        <5>3. AccRows(new, ds) = Len(cols[1].cells)
          BY <1>8, <2>1, <2>3, <5>1 DEF AccRows, RowCount
        <5>4. QED BY <5>2, <5>3
      <4>2. QED BY <4>1
    <3>3. AccInv(new, ds)
      BY <1>4, <1>5, <1>8, <2>1, <2>3, <3>1, <3>2 DEF AccInv
    <3>4. QED BY <3>3 DEF new
  <2>4. QED BY <2>2, <2>3
<1>9. QED BY <1>7, <1>8

LEMMA ElementsSeq == ASSUME NEW v PROVE IsSeq(Elements(v))
BY NoElements DEF Elements, IsArr

\* A record has a sequence of rows, be it a master record or unwound.
LEMMA RecordRowsSeq ==
  ASSUME NEW ds, IsSeq(ds.rules), NEW v, NEW task
  PROVE  IsSeq(RecordRows(ds, v, task))
<1>1. ASSUME NEW rule PROVE IsSeq(RuleRows(rule, v, task))
  <2> DEFINE found == ResolvePath(rule.path, RecordCtx(v, task))
             alias == IF rule.alias = "" THEN rule.name ELSE rule.alias
             es == Elements(found[1])
             some == [e \in DOMAIN es |-> Ctx(v, <<es[e]>>, <<alias>>, task)]
  <2>1. RuleRows(rule, v, task) = <<>> \/ RuleRows(rule, v, task) = some
    BY DEF RuleRows
  <2> HIDE DEF found, alias
  <2>2. IsSeq(es)
    BY ElementsSeq
  <2> HIDE DEF es
  <2>3. IsSeq(some)
    BY <2>2, SeqShape, SeqIntro
  <2>4. QED BY <2>1, <2>3, NoElements
<1> DEFINE ss == [r \in DOMAIN ds.rules |-> RuleRows(ds.rules[r], v, task)]
<1>2. IsSeq(ss) /\ \A k \in DOMAIN ss : IsSeq(ss[k])
  BY <1>1, SeqShape, SeqIntro
<1>3. RecordRows(ds, v, task) = FlattenSeq(ss) \/ RecordRows(ds, v, task) = <<RecordCtx(v, task)>>
  BY DEF RecordRows
<1> HIDE DEF ss
<1>4. QED BY <1>2, <1>3, FlattenAny, Singleton

\* A record gives every column of a dataset equally many cells.
LEMMA ScannedKeeps ==
  ASSUME NEW acc, NEW ds, AccInv(acc, ds), IsSeq(ds.rules), NEW v, NEW task
  PROVE  AccInv(Scanned(acc, ds, v, task), ds)
<1> DEFINE rows == RecordRows(ds, v, task)
           kept == {ctx \in Range(rows) : Keep(acc.filter, ctx)}
<1>1. Scanned(acc, ds, v, task) = PushRows(acc, ds, Those(rows, kept))
  BY DEF Scanned
<1>2. IsSeq(rows)
  BY RecordRowsSeq
<1> HIDE DEF rows, kept
<1>3. IsSeq(Those(rows, kept))
  BY <1>2, ThoseShape
<1>4. QED BY <1>1, <1>3, PushRowsKeeps

\* What PipeTypeOK says of an accumulator.
LEMMA AccInvOK ==
  ASSUME NEW acc, NEW ds, AccInv(acc, ds)
  PROVE  AccOK(acc)
<1> DEFINE lengths == {Len(acc.cols[c].cells) : c \in DOMAIN acc.cols}
                      \cup {Len(acc.lk[c].cells) : c \in DOMAIN acc.lk}
           n == AccRows(acc, ds)
<1>1. CASE acc.raws = <<>>
  <2>1. lengths \subseteq {n}
    <3>1. CASE HasRoot(ds)
      <4>1. n = 0
        BY <1>1, <3>1, NoElements DEF AccRows
      <4>2. QED BY <3>1, <4>1 DEF AccInv
    <3>2. CASE ~ HasRoot(ds)
      BY <3>2 DEF AccInv
    <3>3. QED BY <3>1, <3>2
  <2> HIDE DEF lengths, n
  <2>2. IsFiniteSet({n}) /\ Cardinality({n}) = 1
    BY FS_Singleton
  <2>3. Cardinality(lengths) <= 1
    BY <2>1, <2>2, FS_Subset
  <2>4. QED BY <1>1, <2>3 DEF AccOK, lengths
<1>2. CASE acc.raws # <<>>
  BY <1>2 DEF AccOK, AccInv, AccRows
<1>3. QED BY <1>1, <1>2

-----------------------------------------------------------------------------
(* Assembling and writing.                                                 *)

\* The columns that are written have a cell for each row of the accumulator.
LEMMA OutColumnsOK ==
  ASSUME NEW acc, NEW ds, IsSeq(ds.fields), AccRows(acc, ds) \in Nat, NEW rows, NEW task
  PROVE  ColumnsOK(OutColumns(acc, ds, rows, task), AccRows(acc, ds))
<1> DEFINE n == AccRows(acc, ds)
           cols == OutColumns(acc, ds, rows, task)
           Cells(k) == [r \in 1..n |-> Coerce(OutCell(acc, ds, rows, task, r, k), FieldColumn(ds, k).kind)]
<1>1. IsSeq(cols) /\ DOMAIN cols = DOMAIN ds.fields
  <2>1. DOMAIN cols = DOMAIN ds.fields /\ cols = [k \in DOMAIN ds.fields |-> cols[k]]
    BY DEF OutColumns
  <2>2. Len(ds.fields) \in Nat /\ DOMAIN ds.fields = 1..Len(ds.fields)
    BY SeqShape
  <2> HIDE DEF cols
  <2>3. QED BY <2>1, <2>2, SeqIntro
<1>2. ASSUME NEW k \in DOMAIN cols
      PROVE  /\ ColumnOK(cols[k]) /\ Len(cols[k].cells) = n
             /\ \A r \in 1..n : CellOK(cols[k].cells[r], cols[k].kind)
  <2> DEFINE col == FieldColumn(ds, k)
             cells == Cells(k)
  <2>1. cols[k] = [col EXCEPT !.cells = cells]
    BY <1>1 DEF OutColumns
  <2>2. ColumnOK(col)
    BY KindOfExpr, NewColumn DEF FieldColumn
  <2> HIDE DEF cols
  <2>3. IsSeq(cells) /\ Len(cells) = n
    <3>1. n \in Nat /\ DOMAIN cells = 1..n /\ cells = [r \in 1..n |-> cells[r]]
      OBVIOUS
    <3> HIDE DEF n, cells
    <3>2. QED BY <3>1, SeqIntro
  <2>4. \A r \in 1..n : CellOK(cells[r], col.kind)
    BY <2>2, CoerceKind DEF ColumnOK
  <2> HIDE DEF col, cells
  <2>5. DOMAIN cols[k] = DOMAIN col /\ cols[k].kind = col.kind /\ cols[k].cells = cells
    BY <2>1, <2>2 DEF ColumnOK
  <2>6. QED BY <2>2, <2>3, <2>4, <2>5 DEF ColumnOK
<1> HIDE DEF cols, n
<1>3. ColumnsOK(cols, n)
  BY <1>1, <1>2 DEF ColumnsOK
<1>4. QED BY <1>3 DEF cols, n

\* A join leaves nothing changed but its temporary table.
LEMMA JoinKeeps ==
  ASSUME NEW st, StoreOK(st), NEW acc, NEW ds, AccInv(acc, ds), ds.join # <<>>
  PROVE  LET joined == JoinSteps(st, acc, ds)
         IN StoreOK(joined.store) /\ Grows(st, joined.store, {TempTable(ds)})
<1> DEFINE n == AccRows(acc, ds)
           rid == [Column("__rid", "i64") EXCEPT !.cells = [r \in 1..n |-> I64(r - 1)]]
           mine == IF HasRoot(ds) THEN <<>> ELSE acc.cols
           extra == <<acc.lk[1], rid>>
           t == TempTable(ds)
           written == CreateAndAppend(st, "mem", t, mine \o extra, n)
           j == ds.join[1]
           rows == LeftJoin(written.store, t, j.target, j.rightKey, j.columns)
<1>1. n \in Nat
  BY AccRowsNat
<1>2. ColumnOK(rid)
  <2>1. IsSeq([r \in 1..n |-> I64(r - 1)])
    <3> HIDE DEF n
    <3>1. QED BY <1>1, SeqIntro
  <2>2. QED BY <2>1, NewColumn DEF ColKinds, Column, ColumnOK
<1>3. ColumnOK(acc.lk[1])
  BY SeqShape DEF AccInv
<1> HIDE DEF n, rid
<1>4. IsSeq(extra) /\ \A c \in DOMAIN extra : ColumnOK(extra[c])
  <2> DEFINE a == acc.lk[1]
             S == {a, rid}
  <2> HIDE DEF a
  <2>1. <<a, rid>> \in Seq(S)
    OBVIOUS
  <2>2. IsSeq(<<a, rid>>) /\ Range(<<a, rid>>) \subseteq S
    <3> HIDE DEF S
    <3>1. QED BY <2>1, SeqOfSet
  <2>3. QED BY <1>2, <1>3, <2>2 DEF a, Range
<1>5. IsSeq(mine) /\ \A c \in DOMAIN mine : ColumnOK(mine[c])
  BY NoElements DEF AccInv
<1> HIDE DEF mine, extra
<1>6. IsSeq(mine \o extra) /\ \A c \in DOMAIN (mine \o extra) : ColumnOK((mine \o extra)[c])
  <2> DEFINE S == Range(mine) \cup Range(extra)
  <2>1. mine \in Seq(S) /\ extra \in Seq(S)
    BY <1>4, <1>5, SeqInSet DEF Range
  <2>2. \A col \in S : ColumnOK(col)
    BY <1>4, <1>5 DEF Range
  <2> HIDE DEF S
  <2>3. mine \o extra \in Seq(S)
    BY <2>1
  <2>4. IsSeq(mine \o extra) /\ Range(mine \o extra) \subseteq S
    BY <2>3, SeqOfSet
  <2>5. QED BY <2>2, <2>4 DEF Range
<1>7. StoreOK(written.store) /\ Grows(st, written.store, {t})
  BY <1>1, <1>6, AppendKeeps
<1> HIDE DEF written
<1>8. /\ StoreOK(DropTable(written.store, t))
      /\ Grows(written.store, DropTable(written.store, t), {t})
  BY <1>7, DropKeeps
<1>9. Grows(st, DropTable(written.store, t), {t})
  BY <1>7, <1>8, GrowsTwice
<1>10. JoinSteps(st, acc, ds) = JoinWritten(written, ds)
  BY DEF JoinSteps, written, n, rid, mine, extra
<1>11. JoinWritten(written, ds).store \in {written.store, DropTable(written.store, t)}
  <2> HIDE DEF rows
  <2>1. JoinDropped(rows, written.store, ds).store \in {written.store, DropTable(written.store, t)}
    BY DEF JoinDropped
  <2>2. QED BY <2>1 DEF JoinWritten, rows
<1> HIDE DEF t
<1>12. QED BY <1>7, <1>8, <1>9, <1>10, <1>11 DEF t

\* write_target leaves the store well formed and takes nothing from it, whatever the
\* target is and even if it fails on the way.
LEMMA WriteTargetKeeps ==
  ASSUME NEW st, StoreOK(st), NEW t, NEW ds, NEW cols, NEW n \in Nat, ColumnsOK(cols, n), NEW temps
  PROVE  LET result == WriteTarget(st, t, ds, cols)
         IN StoreOK(result.store) /\ Grows(st, result.store, temps)
<1> DEFINE uri == TaskUri(t, ds.to)
           table == CreateAndAppend(st, Conn(uri), NameIn(uri, ds.name), cols, RowCount(cols))
           files == WriteFiles(st, FileBase(ds, uri), cols, ds.by)
<1>1. StoreOK(table.store) /\ Grows(st, table.store, temps)
  <2>1. RowCount(cols) \in Nat
    BY RowCountIs
  <2>2. QED BY <2>1, AppendKeeps DEF ColumnsOK
<1>2. StoreOK(files.store) /\ Grows(st, files.store, temps)
  BY WriteFilesKeeps
<1> HIDE DEF table, files, uri
<1>3. WriteTarget(st, t, ds, cols).store \in {st, table.store, files.store}
  BY DEF WriteTarget, Failed, table, files, uri
<1>4. QED BY <1>1, <1>2, <1>3, GrowsSame

\* Whatever becomes of a dataset, tables only grow, but for its own temporary one.
LEMMA AssembledKeeps ==
  ASSUME NEW st, StoreOK(st), NEW t, NEW acc, NEW ds, AccInv(acc, ds), IsSeq(ds.fields)
  PROVE  LET result == Assembled(st, t, acc, ds)
         IN StoreOK(result.store) /\ Grows(st, result.store, {TempTable(ds)})
<1> DEFINE T == {TempTable(ds)}
           joined == IF ds.join # <<>> /\ AccRows(acc, ds) > 0 THEN JoinSteps(st, acc, ds)
                     ELSE [err |-> <<>>, store |-> st, rows |-> <<>>]
           cols == OutColumns(acc, ds, joined.rows, TaskValue(t))
           target == WriteTarget(joined.store, t, ds, cols)
<1>1. StoreOK(joined.store) /\ Grows(st, joined.store, T)
  BY JoinKeeps, GrowsSame
<1> HIDE DEF joined
<1>2. AccRows(acc, ds) \in Nat
  BY AccRowsNat
<1>3. ColumnsOK(cols, AccRows(acc, ds))
  BY <1>2, OutColumnsOK
<1> HIDE DEF cols, T
<1>4. StoreOK(target.store) /\ Grows(joined.store, target.store, T)
  BY <1>1, <1>2, <1>3, WriteTargetKeeps
<1> HIDE DEF target
<1>5. Grows(st, target.store, T)
  BY <1>1, <1>4, GrowsTwice
<1>6. Assembled(st, t, acc, ds).store \in {joined.store, target.store}
  BY DEF Assembled, WriteJoined, Failed, joined, target, cols
<1>7. QED BY <1>1, <1>4, <1>5, <1>6 DEF T

-----------------------------------------------------------------------------
(* Documents.                                                              *)

\* The text of a value is made of characters: what the constant Render is to yield.
RenderIsText == \A v : IsSeq(Render(v))

LEMMA DocIsText ==
  ASSUME RenderIsText, NEW vs, IsSeq(vs)
  PROVE  IsSeq(Doc(vs).text)
<1> DEFINE ss == [k \in DOMAIN vs |-> Render(vs[k]) \o <<" ">>]
<1>1. IsSeq(ss)
  BY SeqShape, SeqIntro
<1>2. ASSUME NEW k \in DOMAIN ss PROVE IsSeq(ss[k])
  BY Concat, Singleton DEF RenderIsText
<1> HIDE DEF ss
<1>3. IsSeq(FlattenSeq(ss))
  BY <1>1, <1>2, FlattenAny
<1>4. QED BY <1>3 DEF Doc, ss

\* The document a scan reads is a sequence of characters.
LEMMA SourceIsText ==
  ASSUME RenderIsText, NEW st, StoreOK(st), NEW src, ReadSource(st, src) # <<>>
  PROVE  IsSeq(ReadSource(st, src)[1].text)
<1> DEFINE r == ReadSource(st, src)
           Texts(vs) == <<Doc(vs)>>
<1>1. \A v : IsSeq(Doc(<<v>>).text)
  BY DocIsText, Singleton
<1>2. CASE src.uri.scheme # "file"
  <2> DEFINE found == ReadTable(st, src.uri, src.name)
  <2>1. found = <<>> \/ \E v : found = <<v>>
    BY DEF ReadTable
  <2>2. r = IF found = <<>> THEN <<>> ELSE <<Doc(found)>>
    BY <1>2 DEF ReadSource
  <2> HIDE DEF found
  <2>3. QED BY <1>1, <2>1, <2>2
<1>3. CASE src.uri.scheme = "file"
  <2> DEFINE p == <<src.uri.path, <<>>>>
             file == st.files[p]
  <2>1. CASE p \in DOMAIN st.files
    <3>1. FileOK(file)
      BY <2>1 DEF StoreOK, FilesOK
    <3> DEFINE inner == AtPath(file.json[1], src.path)
               json == IF src.path = <<>> THEN <<Doc(file.json)>>
                       ELSE IF Len(file.json) # 1 \/ inner = <<>> THEN <<>>
                       ELSE <<Doc(<<inner[1]>>)>>
               rows == IF "rows" \in DOMAIN file THEN <<Doc(<<RowsAsJson(file)>>)>> ELSE <<>>
               bytes == IF src.path = <<>> THEN <<Doc(<<>>)>> ELSE <<>>
    <3>2. r \in {<<>>, rows, bytes} \/ ("json" \in DOMAIN file /\ r = json)
      <4> HIDE DEF inner
      <4>1. r = CASE src.format = "parquet" -> rows
                  [] src.format = "json" /\ "json" \notin DOMAIN file -> bytes
                  [] src.format = "json" /\ "json" \in DOMAIN file -> json
                  [] OTHER -> <<>>
        BY <1>3, <2>1 DEF ReadSource, inner
      <4> HIDE DEF json, rows, bytes, r
      <4>2. QED BY <4>1
    <3>3. "json" \in DOMAIN file => IsSeq(Doc(file.json).text)
      BY <3>1, DocIsText DEF FileOK
    <3>4. IsSeq(Doc(<<>>).text)
      BY DocIsText, NoElements
    <3> HIDE DEF inner, file
    <3>5. QED BY <1>1, <3>2, <3>3, <3>4
  <2>2. CASE p \notin DOMAIN st.files
    BY <1>3, <2>2 DEF ReadSource
  <2>3. QED BY <2>1, <2>2
<1>4. QED BY <1>2, <1>3

-----------------------------------------------------------------------------
(* The plan.                                                               *)

TaskOK(cf, t) ==
  /\ PipelineOK(t.pipe) /\ t.pipe.datasets # <<>>
  /\ \A d \in DOMAIN t.pipe.datasets : TempTable(t.pipe.datasets[d]) \in TempTables(cf)

LEMMA NamedOne ==
  ASSUME NEW s, NEW n, IsSeq(s), Named(s, n) # {}
  PROVE  Min(Named(s, n)) \in DOMAIN s /\ Min(Named(s, n)) \in Named(s, n)
<1>1. Named(s, n) \in SUBSET Nat /\ Named(s, n) \subseteq DOMAIN s
  BY SeqShape DEF Named
<1>2. QED BY <1>1, MinOf

\* A task's pipeline is one of the configuration, with datasets.
LEMMA FirstNamedIs ==
  ASSUME NEW n, ConfigOK(config), Named(config.pipelines, n) # {}, ~ Refused
  PROVE  LET pipe == FirstNamed(config.pipelines, n)
         IN /\ PipelineOK(pipe) /\ pipe.datasets # <<>>
            /\ \A d \in DOMAIN pipe.datasets : TempTable(pipe.datasets[d]) \in TempTables(config)
<1> DEFINE p == Min(Named(config.pipelines, n))
<1>1. p \in DOMAIN config.pipelines
  BY NamedOne DEF ConfigOK
<1>2. FirstNamed(config.pipelines, n) = config.pipelines[p]
  BY DEF FirstNamed
<1> HIDE DEF p
<1>3. PipelineOK(config.pipelines[p])
  BY <1>1 DEF ConfigOK, Range
<1>4. QED BY <1>1, <1>2, <1>3 DEF Refused, TempTables

\* The filter a fan-out adds to each dataset leaves it what it was otherwise.
LEMMA FilteredIs ==
  ASSUME NEW pipe, PipelineOK(pipe), pipe.datasets # <<>>,
         \A d \in DOMAIN pipe.datasets : TempTable(pipe.datasets[d]) \in TempTables(config), NEW field
  PROVE  LET new == Filtered(pipe, field)
         IN /\ PipelineOK(new) /\ new.datasets # <<>>
            /\ \A d \in DOMAIN new.datasets : TempTable(new.datasets[d]) \in TempTables(config)
<1>1. CASE field = <<>>
  BY <1>1 DEF Filtered
<1>2. CASE field # <<>>
  <2> DEFINE old == pipe.datasets
             filter == <<UnitFilter(field[1])>>
             sets == [d \in DOMAIN old |-> IF old[d].filter = <<>> THEN [old[d] EXCEPT !.filter = filter]
                                           ELSE old[d]]
             new == [pipe EXCEPT !.datasets = sets]
  <2>1. Filtered(pipe, field) = new
    BY <1>2 DEF Filtered
  <2>2. IsSeq(filter)
    BY Singleton
  <2> HIDE DEF filter
  <2>3. IsSeq(sets) /\ Len(sets) = Len(old) /\ DOMAIN sets = DOMAIN old
    BY SeqShape, SeqIntro DEF PipelineOK
  <2>4. ASSUME NEW d \in DOMAIN sets PROVE DatasetOK(sets[d]) /\ TempTable(sets[d]) \in TempTables(config)
    <3>1. DatasetOK(old[d]) /\ TempTable(old[d]) \in TempTables(config)
      BY <2>3 DEF PipelineOK, Range
    <3> DEFINE x == [old[d] EXCEPT !.filter = filter]
    <3>2. sets[d] \in {old[d], x}
      BY <2>3
    <3> HIDE DEF sets
    <3>3. /\ DOMAIN x = DOMAIN old[d] /\ x.name = old[d].name /\ x.filter = filter
          /\ x.fields = old[d].fields /\ x.rules = old[d].rules /\ x.join = old[d].join /\ x.by = old[d].by
      BY <3>1 DEF DatasetOK
    <3> HIDE DEF x
    <3>4. DatasetOK(x) /\ TempTable(x) \in TempTables(config)
      BY <2>2, <3>1, <3>3 DEF DatasetOK, TempTable
    <3>5. QED BY <3>1, <3>2, <3>4
  <2> HIDE DEF sets
  <2>5. /\ DOMAIN new = DOMAIN pipe /\ new.datasets = sets /\ new.sources = pipe.sources
    BY DEF PipelineOK
  <2> HIDE DEF new
  <2>6. PipelineOK(new)
    BY <2>3, <2>4, <2>5 DEF PipelineOK, Range
  <2>7. sets # <<>>
    BY <2>3, EmptyLen DEF PipelineOK
  <2>8. QED BY <2>1, <2>4, <2>5, <2>6, <2>7
<1>3. QED BY <1>1, <1>2

\* The tasks of a node run its pipeline.
LEMMA NodeTasksAre ==
  ASSUME ConfigOK(config), ~ Refused, NEW st, NEW s, NEW node, NodeOK(node),
         NodeTasks(config, st, s, node) # <<>>
  PROVE  LET tasks == NodeTasks(config, st, s, node)[1]
         IN /\ Named(config.pipelines, node.pipeline) # {}
            /\ IsSeq(tasks) /\ \A k \in DOMAIN tasks : TaskOK(config, tasks[k])
<1> DEFINE n == node.pipeline
           one == SingleTask(config, s, n)
           part == node.partition[1]
<1>1. Named(config.pipelines, n) # {}
  BY DEF NodeTasks
<1>2. CASE node.partition = <<>>
  <2>1. NodeTasks(config, st, s, node)[1] = <<one>>
    BY <1>1, <1>2 DEF NodeTasks
  <2>2. TaskOK(config, one)
    BY <1>1, FirstNamedIs DEF SingleTask, TaskOK
  <2> HIDE DEF one
  <2>3. IsSeq(<<one>>) /\ DOMAIN <<one>> = 1..1 /\ <<one>>[1] = one
    BY Singleton
  <2>4. QED BY <1>1, <2>1, <2>2, <2>3
<1>3. CASE node.partition # <<>>
  <2>1. PICK units : NodeTasks(config, st, s, node)[1] = FanOutTasks(config, s, node, units)
    BY <1>1, <1>3 DEF NodeTasks
  <2>2. part.workers \in Nat
    <3>1. 1 \in DOMAIN node.partition
      BY <1>3, SeqShape, EmptyLen DEF NodeOK
    <3>2. QED BY <3>1 DEF NodeOK, Range
  <2> DEFINE chunks == ChunkEvenly(units, part.workers)
             pipe == Filtered(FirstNamed(config.pipelines, n), part.field)
             Task1(c) == [stage |-> s, pipeline |-> n, index |-> c - 1,
                          ctx |-> ChunkCtx(chunks[c], c - 1, part.workers), pipe |-> pipe]
             all == [c \in 1..part.workers |-> c]
             some == {c \in 1..part.workers : chunks[c] # <<>>}
             used == Those(all, some)
             tasks == [k \in DOMAIN used |-> Task1(used[k])]
  <2>3. FanOutTasks(config, s, node, units) = tasks
    BY DEF FanOutTasks
  <2>4. IsSeq(used)
    <3> DEFINE w == part.workers
    <3> HIDE DEF w
    <3>1. w \in Nat
      BY <2>2 DEF w
    <3>2. IsSeq([c \in 1..w |-> c])
      BY <3>1, SeqIntro
    <3>3. IsSeq(all)
      BY <3>2 DEF w
    <3> HIDE DEF all, some
    <3>4. QED BY <3>3, ThoseShape
  <2> HIDE DEF used
  <2>5. IsSeq(tasks)
    BY <2>4, SeqShape, SeqIntro
  <2>6. /\ PipelineOK(pipe) /\ pipe.datasets # <<>>
        /\ \A d \in DOMAIN pipe.datasets : TempTable(pipe.datasets[d]) \in TempTables(config)
    BY <1>1, FirstNamedIs, FilteredIs
  <2> HIDE DEF pipe, chunks
  <2>7. \A k \in DOMAIN tasks : TaskOK(config, tasks[k])
    BY <2>6 DEF TaskOK
  <2> HIDE DEF tasks
  <2>8. QED BY <1>1, <2>1, <2>3, <2>5, <2>7
<1>4. QED BY <1>2, <1>3

\* The stages of a configuration, given or by default, are sequences of nodes, and there
\* is one at least in a configuration that is not refused.
LEMMA StagesAre ==
  ASSUME ConfigOK(config)
  PROVE  /\ IsSeq(Stages(config))
         /\ \A s \in DOMAIN Stages(config) :
              /\ IsSeq(Stages(config)[s])
              /\ \A n \in DOMAIN Stages(config)[s] : NodeOK(Stages(config)[s][n])
         /\ ~ Refused => Len(Stages(config)) > 0
<1>1. CASE config.execution # <<>>
  <2>1. Stages(config) = config.execution
    BY <1>1 DEF Stages
  <2>2. Len(config.execution) > 0
    BY <1>1, SeqShape, EmptyLen DEF ConfigOK
  <2>3. QED BY <2>1, <2>2 DEF ConfigOK, Range
<1>2. CASE config.execution = <<>>
  <2> DEFINE ps == config.pipelines
             node(p) == [pipeline |-> ps[p].name, partition |-> <<>>]
             stages == [p \in DOMAIN ps |-> <<node(p)>>]
  <2>1. Stages(config) = stages
    BY <1>2 DEF Stages
  <2>2. IsSeq(ps) /\ Len(ps) \in Nat /\ DOMAIN ps = 1..Len(ps)
    BY SeqShape DEF ConfigOK
  <2>3. IsSeq(stages) /\ Len(stages) = Len(ps)
    BY <2>2, SeqIntro
  <2>4. ASSUME NEW s \in DOMAIN stages
        PROVE  IsSeq(stages[s]) /\ \A n \in DOMAIN stages[s] : NodeOK(stages[s][n])
    <3>1. stages[s] = <<node(s)>>
      OBVIOUS
    <3>2. NodeOK(node(s))
      <4>1. IsSeq(<<>>) /\ DOMAIN <<>> = {}
        BY NoElements
      <4>2. QED BY <4>1 DEF NodeOK, Range
    <3> HIDE DEF stages, node
    <3>3. IsSeq(<<node(s)>>) /\ DOMAIN <<node(s)>> = 1..1 /\ <<node(s)>>[1] = node(s)
      BY Singleton
    <3>4. QED BY <3>1, <3>2, <3>3
  <2>5. ~ Refused => Len(ps) > 0
    BY <2>2, EmptyLen DEF Refused
  <2> HIDE DEF stages
  <2>6. QED BY <2>1, <2>3, <2>4, <2>5
<1>3. QED BY <1>1, <1>2

\* A plan has the stages of its configuration, made of tasks of its pipelines.
LEMMA PlanIs ==
  ASSUME ConfigOK(config), ~ Refused, NEW st, BuildPlan(config, st) # <<>>
  PROVE  LET p == BuildPlan(config, st)[1]
         IN /\ IsSeq(p) /\ Len(p) = Len(Stages(config)) /\ Len(p) > 0
            /\ \A s \in DOMAIN p : IsSeq(p[s]) /\ \A k \in DOMAIN p[s] : TaskOK(config, p[s][k])
            /\ \A s \in DOMAIN Stages(config) : \A n \in DOMAIN Stages(config)[s] :
                 Named(config.pipelines, Stages(config)[s][n].pipeline) # {}
<1> DEFINE stages == Stages(config)
           Tasks(s, n) == NodeTasks(config, st, s, stages[s][n])
           Parts(s) == [n \in DOMAIN stages[s] |-> Tasks(s, n)[1]]
           p == [s \in DOMAIN stages |-> FlattenSeq(Parts(s))]
<1>1. /\ BuildPlan(config, st)[1] = p
      /\ \A s \in DOMAIN stages : \A n \in DOMAIN stages[s] : Tasks(s, n) # <<>>
  BY DEF BuildPlan
<1>2. /\ IsSeq(stages) /\ Len(stages) > 0
      /\ \A s \in DOMAIN stages : IsSeq(stages[s]) /\ \A n \in DOMAIN stages[s] : NodeOK(stages[s][n])
  BY StagesAre
<1> HIDE DEF stages
<1>3. IsSeq(p) /\ Len(p) = Len(stages) /\ DOMAIN p = DOMAIN stages
  BY <1>2, SeqShape, SeqIntro
<1>4. ASSUME NEW s \in DOMAIN stages, NEW n \in DOMAIN stages[s]
      PROVE  /\ Named(config.pipelines, stages[s][n].pipeline) # {}
             /\ IsSeq(Tasks(s, n)[1]) /\ \A k \in DOMAIN Tasks(s, n)[1] : TaskOK(config, Tasks(s, n)[1][k])
  BY <1>1, <1>2, NodeTasksAre
<1>5. ASSUME NEW s \in DOMAIN stages
      PROVE  IsSeq(FlattenSeq(Parts(s))) /\ \A k \in DOMAIN FlattenSeq(Parts(s)) : TaskOK(config, FlattenSeq(Parts(s))[k])
  <2> DEFINE S == {t \in UNION {Range(Tasks(s, n)[1]) : n \in DOMAIN stages[s]} : TaskOK(config, t)}
             parts == Parts(s)
  <2>1. IsSeq(parts) /\ DOMAIN parts = DOMAIN stages[s]
    BY <1>2, SeqShape, SeqIntro
  <2>2. \A n \in DOMAIN parts : parts[n] \in Seq(S)
    <3>1. ASSUME NEW n \in DOMAIN parts PROVE parts[n] \in Seq(S)
      <4> DEFINE ts == Tasks(s, n)[1]
      <4>1. IsSeq(ts) /\ \A k \in DOMAIN ts : ts[k] \in S
        BY <1>4, <2>1 DEF Range
      <4>2. parts[n] = ts
        BY <2>1
      <4> HIDE DEF S, ts, parts
      <4>3. QED BY <4>1, <4>2, SeqInSet
    <3>2. QED BY <3>1
  <2>3. \A t \in S : TaskOK(config, t)
    OBVIOUS
  <2> HIDE DEF S, parts
  <2>4. FlattenSeq(parts) \in Seq(S)
    BY <2>1, <2>2, Flatten
  <2> DEFINE flat == FlattenSeq(parts)
  <2> HIDE DEF flat
  <2>5. IsSeq(flat) /\ \A k \in DOMAIN flat : flat[k] \in S
    BY <2>4, SeqOfSet DEF flat, Range
  <2>6. QED BY <2>3, <2>5 DEF flat, parts
<1> HIDE DEF Parts, Tasks
<1>6. \A s \in DOMAIN p : IsSeq(p[s]) /\ \A k \in DOMAIN p[s] : TaskOK(config, p[s][k])
  BY <1>3, <1>5
<1> HIDE DEF p
<1>7. QED BY <1>1, <1>2, <1>3, <1>4, <1>6 DEF stages

-----------------------------------------------------------------------------
(* The groups of a run.                                                    *)

\* A run has a group at least, and each group a dataset of the pipeline at least.
LEMMA GroupsAre ==
  ASSUME NEW pipe, PipelineOK(pipe), pipe.datasets # <<>>
  PROVE  LET gs == Groups(pipe)
         IN /\ IsSeq(gs) /\ Len(gs) > 0
            /\ \A g \in DOMAIN gs : /\ gs[g].sets \in Seq(DOMAIN pipe.datasets)
                                    /\ Len(gs[g].sets) > 0
<1> DEFINE D == DOMAIN pipe.datasets
           Of(d) == SourceOf(pipe, pipe.datasets[d])
           all == [d \in D |-> d]
           Same(d) == {e \in DOMAIN all : Of(e) = Of(d)}
           GroupOf(d) == [source |-> Of(d), sets |-> Those(all, Same(d))]
           ss == [d \in DOMAIN all |-> IF \A e \in 1..(d - 1) : Of(e) # Of(d) THEN <<GroupOf(d)>> ELSE <<>>]
           S == {GroupOf(d) : d \in D}
<1>1. Len(pipe.datasets) \in Nat /\ D = 1..Len(pipe.datasets) /\ 1 \in D
  BY SeqShape, EmptyLen DEF PipelineOK
<1>2. Groups(pipe) = FlattenSeq(ss)
  BY DEF Groups
<1> HIDE DEF D
<1>3. IsSeq(all) /\ DOMAIN all = D
  BY <1>1, SeqIntro
<1>4. IsSeq(ss) /\ DOMAIN ss = D
  BY <1>1, <1>3, SeqIntro
<1>5. \A d \in D : ss[d] \in Seq(S)
  <2>1. ASSUME NEW d \in D PROVE ss[d] \in Seq(S)
    <3>1. GroupOf(d) \in S
      OBVIOUS
    <3>2. ss[d] = <<GroupOf(d)>> \/ ss[d] = <<>>
      BY <1>3
    <3> HIDE DEF S, ss, GroupOf
    <3> DEFINE G == GroupOf(d)
    <3>3. \A T, x : x \in T => <<x>> \in Seq(T) /\ <<>> \in Seq(T)
      OBVIOUS
    <3>4. G \in S
      BY <3>1
    <3> HIDE DEF G
    <3>5. <<G>> \in Seq(S) /\ <<>> \in Seq(S)
      BY <3>3, <3>4
    <3>6. ss[d] = <<G>> \/ ss[d] = <<>>
      BY <3>2 DEF G
    <3>7. QED BY <3>5, <3>6
  <2>2. QED BY <2>1
<1>6. Len(ss[1]) = 1
  <2>1. 1..(1 - 1) = {}
    OBVIOUS
  <2>2. ss[1] = <<GroupOf(1)>>
    BY <1>1, <1>3, <2>1
  <2> HIDE DEF ss, GroupOf
  <2>3. QED BY <2>2, Singleton
<1>7. \A G \in S : G.sets \in Seq(D) /\ Len(G.sets) > 0
  <2>1. ASSUME NEW d \in D PROVE Those(all, Same(d)) \in Seq(D) /\ Len(Those(all, Same(d))) > 0
    <3>1. d \in Same(d) /\ d \in DOMAIN all /\ all[d] = d
      BY <1>3
    <3>2. Same(d) \cap Range(all) \subseteq D
      BY <1>3
    <3> HIDE DEF Same, all
    <3>3. /\ Those(all, Same(d)) \in Seq(Same(d) \cap Range(all))
          /\ Len(Those(all, Same(d))) > 0
      BY <1>3, <3>1, ThoseShape
    <3>4. QED BY <3>2, <3>3
  <2> HIDE DEF Same, all
  <2>2. QED BY <2>1
<1> HIDE DEF ss, S
<1>8. FlattenSeq(ss) \in Seq(S) /\ Len(FlattenSeq(ss)) >= 1
  <2>1. FlattenSeq(ss) \in Seq(S) /\ \A d \in D : Len(ss[d]) <= Len(FlattenSeq(ss))
    BY <1>4, <1>5, Flatten
  <2>2. QED BY <1>1, <1>6, <2>1
<1> DEFINE gs == FlattenSeq(ss)
<1> HIDE DEF gs
<1>9. IsSeq(gs) /\ Len(gs) > 0 /\ \A g \in DOMAIN gs : gs[g] \in S
  <2>1. gs \in Seq(S) /\ Len(gs) >= 1
    BY <1>8 DEF gs
  <2>2. IsSeq(gs) /\ Range(gs) \subseteq S
    BY <2>1, SeqOfSet
  <2>3. QED BY <2>1, <2>2, SeqShape DEF Range
<1>10. QED BY <1>2, <1>7, <1>9 DEF gs, D

-----------------------------------------------------------------------------
(* The inductive invariant.                                                *)

\* The plan is made whole and of the configuration; the stage is one of it, and tries is
\* about its tasks. Before that there is nothing.
PlanInv ==
  IF stage = 0 THEN plan = <<>> /\ left = {} /\ tries = <<>> /\ job = NoJob
  ELSE /\ IsSeq(plan) /\ Len(plan) = Len(Stages(config)) /\ stage \in 1..Len(plan)
       /\ \A s \in DOMAIN plan : IsSeq(plan[s]) /\ \A k \in DOMAIN plan[s] : TaskOK(config, plan[s][k])
       /\ \A s \in DOMAIN Stages(config) : \A n \in DOMAIN Stages(config)[s] :
            Named(config.pipelines, Stages(config)[s][n].pipeline) # {}
       /\ DOMAIN tries = DOMAIN plan[stage]

\* A task that is still to be run has runs left, but for the one that is under way.
LeftInv ==
  /\ left \subseteq DOMAIN tries
  /\ \A k \in DOMAIN tries : tries[k] \in 0..(Retries + 1)
  /\ \A k \in left : job.task # k => tries[k] <= Retries
  /\ outcome \in {"ok", "error"} => left = {} /\ job = NoJob

\* A run that holds the store: the documents it has read, the group it has come to and
\* how far, with an accumulator for each dataset of the group.
DocsOK(pipe, docs) ==
  DOMAIN docs = DOMAIN pipe.sources /\ \A s \in DOMAIN docs : IsSeq(docs[s][1].text)
JobOK(pipe, j) ==
  LET group == Groups(pipe)[j.group]
      sources == Named(pipe.sources, group.source)
  IN /\ DOMAIN j = {"task", "docs", "group", "pos", "writing", "accs"}
     /\ DocsOK(pipe, j.docs)
     /\ j.group \in 1..Len(Groups(pipe))
     /\ j.writing \in 0..Len(group.sets)
     /\ DOMAIN j.accs = DOMAIN group.sets
     /\ \A d \in DOMAIN j.accs : AccInv(j.accs[d], pipe.datasets[group.sets[d]])
     /\ sources # {} => j.pos \in 1..(Len(j.docs[Min(sources)][1].text) + 1)

JobInv == job # NoJob => job.task \in left /\ JobOK(Pipe, job)

\* The inductive invariant.
PipeInv ==
  /\ config \in Configs
  /\ StoreOK(store)
  /\ faults \in 0..FaultBound
  /\ outcome \in {"running", "ok", "killed", "error"}
  /\ PlanInv /\ LeftInv /\ JobInv

-----------------------------------------------------------------------------
(* The run that holds the store.                                           *)

\* A run that holds the store is not the absence of one.
LEMMA NoJobIs == ASSUME NEW pipe, NEW j, JobOK(pipe, j) PROVE j # NoJob
<1>1. DOMAIN j # DOMAIN NoJob
  BY DEF JobOK, NoJob
<1>2. QED BY <1>1

\* Once the plan is made, the stage is one of it and tries counts its tasks.
LEMMA TheStage ==
  ASSUME PipeInv, stage # 0
  PROVE  /\ ConfigOK(config)
         /\ IsSeq(plan) /\ Len(plan) \in Nat /\ stage \in 1..Len(plan) /\ stage \in DOMAIN plan
         /\ IsSeq(plan[stage]) /\ DOMAIN tries = DOMAIN plan[stage]
         /\ \A k \in DOMAIN tries : k \in Nat /\ k # 0 /\ tries[k] \in Nat /\ TaskOK(config, plan[stage][k])
<1>1. ConfigOK(config)
  BY ConfigsAssumption DEF PipeInv
<1>2. /\ IsSeq(plan) /\ Len(plan) \in Nat /\ stage \in 1..Len(plan) /\ stage \in DOMAIN plan
      /\ IsSeq(plan[stage]) /\ DOMAIN tries = DOMAIN plan[stage]
  BY SeqShape DEF PipeInv, PlanInv
<1>3. DOMAIN plan[stage] = 1..Len(plan[stage])
  BY <1>2, SeqShape
<1>4. \A k \in DOMAIN tries : k \in Nat /\ k # 0 /\ tries[k] \in Nat
  BY <1>2, <1>3, RetriesAssumption DEF PipeInv, LeftInv
<1>5. \A k \in DOMAIN tries : TaskOK(config, plan[stage][k])
  BY <1>2 DEF PipeInv, PlanInv
<1>6. QED BY <1>1, <1>2, <1>4, <1>5

\* The datasets of a group are datasets of the pipeline.
LEMMA TheGroup ==
  ASSUME NEW cf, NEW t, TaskOK(cf, t), NEW g \in 1..Len(Groups(t.pipe))
  PROVE  LET sets == Groups(t.pipe)[g].sets
         IN /\ IsSeq(sets) /\ Len(sets) \in Nat \ {0} /\ DOMAIN sets = 1..Len(sets)
            /\ \A d \in DOMAIN sets :
                 /\ sets[d] \in DOMAIN t.pipe.datasets
                 /\ DatasetOK(t.pipe.datasets[sets[d]])
                 /\ TempTable(t.pipe.datasets[sets[d]]) \in TempTables(cf)
<1> DEFINE pipe == t.pipe
           gs == Groups(pipe)
           sets == gs[g].sets
           D == DOMAIN pipe.datasets
<1>1. PipelineOK(pipe) /\ pipe.datasets # <<>> /\ \A d \in D : TempTable(pipe.datasets[d]) \in TempTables(cf)
  BY DEF TaskOK
<1>2. \A d \in D : DatasetOK(pipe.datasets[d])
  BY <1>1 DEF PipelineOK, Range
<1> HIDE DEF pipe
<1>3. IsSeq(gs) /\ \A h \in DOMAIN gs : gs[h].sets \in Seq(D) /\ Len(gs[h].sets) > 0
  BY <1>1, GroupsAre
<1>4. g \in DOMAIN gs
  <2> HIDE DEF gs
  <2>1. QED BY <1>3, SeqShape DEF gs, pipe
<1> HIDE DEF gs, D
<1>5. sets \in Seq(D) /\ Len(sets) > 0
  BY <1>3, <1>4
<1> HIDE DEF sets
<1>6. IsSeq(sets) /\ Len(sets) \in Nat /\ DOMAIN sets = 1..Len(sets) /\ \A d \in DOMAIN sets : sets[d] \in D
  BY <1>5, SeqOfSet, SeqShape DEF Range
<1>7. QED BY <1>1, <1>2, <1>5, <1>6 DEF sets, gs, pipe, D

\* The run that holds the store is of a task that is left, at a group of its pipeline.
LEMMA TheJob ==
  ASSUME PipeInv, job # NoJob
  PROVE  /\ stage # 0 /\ job.task \in left /\ job.task \in DOMAIN tries
         /\ outcome \notin {"ok", "error"}
         /\ TaskOK(config, Task) /\ JobOK(Pipe, job)
         /\ job.group \in 1..Len(Groups(Pipe)) /\ Len(Groups(Pipe)) \in Nat
         /\ IsSeq(Group.sets) /\ Len(Group.sets) \in Nat \ {0} /\ DOMAIN Group.sets = 1..Len(Group.sets)
         /\ \A d \in DOMAIN Group.sets : Group.sets[d] \in DOMAIN Pipe.datasets /\ DatasetOK(GroupSet(d)) /\ TempTable(GroupSet(d)) \in TempTables(config)
<1>1. stage # 0 /\ job.task \in left /\ job.task \in DOMAIN tries /\ outcome \notin {"ok", "error"}
  BY DEF PipeInv, PlanInv, JobInv, LeftInv
<1>2. TaskOK(config, Task)
  BY <1>1, TheStage DEF Task
<1>3. JobOK(Pipe, job) /\ job.group \in 1..Len(Groups(Pipe))
  BY DEF PipeInv, JobInv, JobOK
<1>4. Len(Groups(Pipe)) \in Nat
  <2>1. PipelineOK(Pipe) /\ Pipe.datasets # <<>>
    BY <1>2 DEF TaskOK, Pipe
  <2>2. IsSeq(Groups(Pipe))
    BY <2>1, GroupsAre
  <2>3. QED BY <2>2, SeqShape
<1>5. /\ IsSeq(Group.sets) /\ Len(Group.sets) \in Nat \ {0} /\ DOMAIN Group.sets = 1..Len(Group.sets)
      /\ \A d \in DOMAIN Group.sets : Group.sets[d] \in DOMAIN Pipe.datasets /\ DatasetOK(GroupSet(d)) /\ TempTable(GroupSet(d)) \in TempTables(config)
  BY <1>2, <1>3, TheGroup DEF Group, GroupSet, Pipe
<1>6. QED BY <1>1, <1>2, <1>3, <1>4, <1>5

\* Group g of a run begins.
LEMMA AtGroupOK ==
  ASSUME NEW cf, NEW t, TaskOK(cf, t), NEW k, NEW docs, DocsOK(t.pipe, docs),
         NEW g \in 1..Len(Groups(t.pipe))
  PROVE  /\ JobOK(t.pipe, AtGroup(k, t.pipe, docs, g)) /\ AtGroup(k, t.pipe, docs, g).task = k
         /\ AtGroup(k, t.pipe, docs, g).group = g /\ AtGroup(k, t.pipe, docs, g).writing = 0
<1> DEFINE pipe == t.pipe
           group == Groups(pipe)[g]
           sets == group.sets
           accs == [d \in DOMAIN sets |-> NewAcc(pipe.datasets[sets[d]])]
           j == AtGroup(k, pipe, docs, g)
           named == Named(pipe.sources, group.source)
<1>1. /\ DOMAIN j = {"task", "docs", "group", "pos", "writing", "accs"}
      /\ j.task = k /\ j.docs = docs /\ j.group = g /\ j.pos = 1 /\ j.writing = 0 /\ j.accs = accs
  BY DEF AtGroup
<1>2. IsSeq(sets) /\ Len(sets) \in Nat \ {0} /\ \A d \in DOMAIN sets : DatasetOK(pipe.datasets[sets[d]])
  BY TheGroup
<1>3. \A d \in DOMAIN sets : AccInv(accs[d], pipe.datasets[sets[d]])
  BY <1>2, NewAccOK DEF DatasetOK
<1>4. named # {} => 1 \in 1..(Len(docs[Min(named)][1].text) + 1)
  <2>1. SUFFICES ASSUME named # {} PROVE 1 \in 1..(Len(docs[Min(named)][1].text) + 1)
    OBVIOUS
  <2>2. IsSeq(pipe.sources)
    BY DEF TaskOK, PipelineOK
  <2>3. Min(named) \in DOMAIN docs
    BY <2>1, <2>2, NamedOne DEF DocsOK
  <2> DEFINE text == docs[Min(named)][1].text
  <2>4. IsSeq(text)
    BY <2>3 DEF DocsOK
  <2> HIDE DEF text
  <2>5. Len(text) \in Nat
    BY <2>4, SeqShape
  <2>6. QED BY <2>5 DEF text
<1>5. DOMAIN accs = DOMAIN sets /\ 0 \in 0..Len(sets)
  BY <1>2
<1> HIDE DEF j, accs
<1>6. JobOK(pipe, j)
  BY <1>1, <1>3, <1>4, <1>5 DEF JobOK
<1>7. QED BY <1>1, <1>6 DEF j

-----------------------------------------------------------------------------
(* Steps that leave the plan as it is.                                     *)

\* Nothing but the counts of the plan changes.
PlanKept == UNCHANGED <<config, plan, stage>> /\ DOMAIN tries' = DOMAIN tries

\* A step that leaves the plan as it is keeps PlanInv.
LEMMA PlanStays ==
  ASSUME PipeInv, stage # 0, PlanKept
  PROVE  PlanInv' /\ Stages(config)' = Stages(config)
<1>1. config' = config /\ plan' = plan /\ stage' = stage /\ DOMAIN tries' = DOMAIN tries
  BY DEF PlanKept
<1>2. QED BY <1>1 DEF PipeInv, PlanInv

\* A run of task k is over, with an error or without.
LEMMA FailsKeeps ==
  ASSUME PipeInv, NEW k \in left, NEW err, Fails(k, err), stage # 0,
         \A j \in DOMAIN tries : tries'[j] \in 0..(Retries + 1), DOMAIN tries' = DOMAIN tries,
         \A j \in left \ {k} : tries'[j] <= Retries
  PROVE  LeftInv' /\ JobInv' /\ outcome' \in {"running", "ok", "killed", "error"} /\ left' \subseteq left
<1>1. job' = NoJob /\ (left' = left \ {k} \/ left' = left)
  BY DEF Fails
<1>2. left' = left => tries'[k] <= Retries
  BY DEF Fails
<1>3. outcome \notin {"ok", "error"} /\ outcome' \in {outcome, "killed"}
  BY DEF PipeInv, LeftInv, Fails
<1>4. LeftInv'
  BY <1>1, <1>2, <1>3 DEF PipeInv, LeftInv
<1>5. JobInv'
  BY <1>1 DEF JobInv
<1>6. QED BY <1>1, <1>3, <1>4, <1>5 DEF PipeInv

\* Beginning a run counts it, and no task is run more than Retries + 1 times.
LEMMA RangeOfTries ==
  ASSUME PipeInv, NEW k \in left, job = NoJob, tries' = [tries EXCEPT ![k] = @ + 1]
  PROVE  /\ stage # 0 /\ DOMAIN tries' = DOMAIN tries
         /\ \A j \in DOMAIN tries : tries'[j] \in 0..(Retries + 1)
         /\ \A j \in left \ {k} : tries'[j] <= Retries
         /\ tries'[k] = tries[k] + 1 /\ \A j \in DOMAIN tries \ {k} : tries'[j] = tries[j]
<1>1. stage # 0
  BY DEF PipeInv, PlanInv
<1>2. k \in DOMAIN tries /\ left \subseteq DOMAIN tries /\ \A j \in left : j # 0
  BY <1>1, TheStage DEF PipeInv, LeftInv
<1>3. \A j \in left : tries[j] \in Nat /\ tries[j] <= Retries
  BY <1>1, <1>2, TheStage DEF PipeInv, LeftInv, NoJob
<1>4. \A j \in DOMAIN tries : tries[j] \in 0..(Retries + 1)
  BY DEF PipeInv, LeftInv
<1>5. DOMAIN tries' = DOMAIN tries /\ tries'[k] = tries[k] + 1 /\ \A j \in DOMAIN tries \ {k} : tries'[j] = tries[j]
  BY <1>2
<1>6. QED BY <1>1, <1>2, <1>3, <1>4, <1>5, RetriesAssumption

LEMMA BeginKeeps ==
  ASSUME RenderIsText, PipeInv, NEW k \in left, Begin(k)
  PROVE  PipeInv'
<1> DEFINE t == plan[stage][k]
           docs == Sources(store, t.pipe)
           sets == t.pipe.datasets
<1>1. /\ job = NoJob /\ tries' = [tries EXCEPT ![k] = @ + 1]
      /\ UNCHANGED <<config, store, plan, stage, faults>>
  BY DEF Begin
<1>2. /\ stage # 0 /\ DOMAIN tries' = DOMAIN tries
      /\ \A j \in DOMAIN tries : tries'[j] \in 0..(Retries + 1)
      /\ \A j \in left \ {k} : tries'[j] <= Retries
  BY <1>1, RangeOfTries
<1>3. PlanInv'
  BY <1>1, <1>2, PlanStays DEF PlanKept
<1>4. LeftInv' /\ JobInv' /\ outcome' \in {"running", "ok", "killed", "error"}
  <2>1. CASE Fails(k, BeginError(store, t.pipe))
    BY <1>2, <2>1, FailsKeeps
  <2>2. CASE /\ \A s \in DOMAIN docs : docs[s] # <<>>
             /\ job' = AtGroup(k, t.pipe, docs, 1) /\ UNCHANGED <<left, outcome>>
    <3>1. TaskOK(config, t) /\ StoreOK(store) /\ k \in DOMAIN tries
      BY <1>2, TheStage DEF PipeInv, LeftInv
    <3>2. DocsOK(t.pipe, docs)
      BY <2>2, <3>1, SourceIsText DEF Sources, DocsOK
    <3>3. 1 \in 1..Len(Groups(t.pipe))
      <4> DEFINE gs == Groups(t.pipe)
      <4>1. IsSeq(gs) /\ Len(gs) > 0
        BY <3>1, GroupsAre DEF TaskOK
      <4> HIDE DEF gs
      <4>2. 1 \in 1..Len(gs)
        BY <4>1, SeqShape
      <4>3. QED BY <4>2 DEF gs
    <3>4. JobOK(t.pipe, job') /\ job'.task = k
      <4>1. job' = AtGroup(k, t.pipe, docs, 1) /\ TaskOK(config, t)
        BY <2>2, <3>1
      <4> HIDE DEF docs, t
      <4>2. JobOK(t.pipe, AtGroup(k, t.pipe, docs, 1))
        BY <3>2, <3>3, <4>1, AtGroupOK
      <4>3. AtGroup(k, t.pipe, docs, 1).task = k
        BY DEF AtGroup
      <4>4. QED BY <4>1, <4>2, <4>3
    <3>5. JobInv'
      BY <1>1, <2>2, <3>4 DEF JobInv, Pipe, Task
    <3>6. LeftInv'
      <4>1. outcome \notin {"ok", "error"}
        BY DEF PipeInv, LeftInv
      <4>2. \A j \in left' : job'.task # j => tries'[j] <= Retries
        BY <1>2, <2>2, <3>4
      <4>3. QED BY <1>2, <2>2, <4>1, <4>2 DEF PipeInv, LeftInv
    <3>7. QED BY <2>2, <3>5, <3>6 DEF PipeInv
  <2>3. QED BY <2>1, <2>2 DEF Begin
<1>5. QED BY <1>1, <1>3, <1>4 DEF PipeInv

LEMMA BeginFaultKeeps ==
  ASSUME PipeInv, NEW k \in left, BeginFault(k)
  PROVE  PipeInv'
<1>1. /\ job = NoJob /\ tries' = [tries EXCEPT ![k] = @ + 1]
      /\ UNCHANGED <<config, store, plan, stage>> /\ faults' \in 0..FaultBound
  BY FaultBoundAssumption DEF BeginFault, CanFault, PipeInv
<1>2. PICK err : Fails(k, err)
  BY DEF BeginFault
<1>3. /\ stage # 0 /\ DOMAIN tries' = DOMAIN tries
      /\ \A j \in DOMAIN tries : tries'[j] \in 0..(Retries + 1)
      /\ \A j \in left \ {k} : tries'[j] <= Retries
  BY <1>1, RangeOfTries
<1>4. PlanInv'
  BY <1>1, <1>3, PlanStays DEF PlanKept
<1>5. LeftInv' /\ JobInv' /\ outcome' \in {"running", "ok", "killed", "error"}
  BY <1>2, <1>3, FailsKeeps
<1>6. QED BY <1>1, <1>4, <1>5 DEF PipeInv

\* What a run that holds the store leaves of the tries.
LEMMA TriesStay ==
  ASSUME PipeInv, job # NoJob, tries' = tries
  PROVE  /\ DOMAIN tries' = DOMAIN tries
         /\ \A j \in DOMAIN tries : tries'[j] \in 0..(Retries + 1)
         /\ \A j \in left \ {job.task} : tries'[j] <= Retries
BY DEF PipeInv, LeftInv

LEMMA UnknownSourceKeeps ==
  ASSUME PipeInv, UnknownSource
  PROVE  PipeInv'
<1>1. job # NoJob /\ UNCHANGED <<config, store, plan, stage, tries, faults>> /\ Fails(job.task, Says(<<"unknown source", Group.source>>))
  BY DEF UnknownSource
<1>2. job.task \in left /\ stage # 0
  BY <1>1, TheJob
<1>3. LeftInv' /\ JobInv' /\ outcome' \in {"running", "ok", "killed", "error"}
  BY <1>1, <1>2, TriesStay, FailsKeeps
<1>4. PlanInv'
  BY <1>1, <1>2, PlanStays DEF PlanKept
<1>5. QED BY <1>1, <1>3, <1>4 DEF PipeInv

\* The run goes on with the same task.
LEMMA JobGoesOn ==
  ASSUME PipeInv, job # NoJob, UNCHANGED <<config, plan, stage, left, tries, outcome>>,
         JobOK(Pipe, job'), job'.task = job.task
  PROVE  PlanInv' /\ LeftInv' /\ JobInv' /\ outcome' \in {"running", "ok", "killed", "error"}
<1>1. stage # 0 /\ job.task \in left /\ outcome \notin {"ok", "error"}
  BY TheJob
<1>2. PlanInv'
  BY <1>1, PlanStays DEF PlanKept
<1>3. LeftInv'
  BY <1>1 DEF PipeInv, LeftInv
<1>4. JobInv'
  BY <1>1 DEF JobInv, Pipe, Task
<1>5. QED BY <1>2, <1>3, <1>4 DEF PipeInv

LEMMA ScanRecordKeeps ==
  ASSUME PipeInv, ScanRecord
  PROVE  PipeInv'
<1> DEFINE next == Scan(Input.text, job.pos)
           parsed == Parse(next.slice, Input.values)
           accs == job.accs
           more == [d \in DOMAIN accs |-> Scanned(accs[d], GroupSet(d), parsed[1], TaskValue(Task))]
           new == IF parsed \in {<<>>, <<Null>>} THEN accs ELSE more
<1>1. /\ job # NoJob /\ Declared # {} /\ UNCHANGED <<config, store, plan, stage, left, tries, faults, outcome>>
      /\ job' = IF next.done THEN [job EXCEPT !.writing = 1]
                ELSE [job EXCEPT !.pos = next.pos, !.accs = new]
  BY DEF ScanRecord
<1>2. /\ JobOK(Pipe, job) /\ IsSeq(Group.sets) /\ Len(Group.sets) \in Nat \ {0}
      /\ \A d \in DOMAIN Group.sets : DatasetOK(GroupSet(d))
      /\ TaskOK(config, Task)
  BY <1>1, TheJob
<1>3. JobOK(Pipe, job') /\ job'.task = job.task
  <2>1. CASE next.done
    <3>1. /\ DOMAIN job' = DOMAIN job /\ job'.writing = 1 /\ job'.task = job.task /\ job'.docs = job.docs
          /\ job'.group = job.group /\ job'.pos = job.pos /\ job'.accs = job.accs
      BY <1>1, <1>2, <2>1 DEF JobOK
    <3>2. 1 \in 0..Len(Group.sets)
      BY <1>2
    <3>3. QED BY <1>2, <3>1, <3>2 DEF JobOK, Group
  <2>2. CASE ~ next.done
    <3>1. IsSeq(Input.text) /\ job.pos \in 1..(Len(Input.text) + 1)
      <4>1. Min(Declared) \in DOMAIN Pipe.sources
        BY <1>1, <1>2, NamedOne DEF Declared, TaskOK, PipelineOK, Pipe
      <4>2. QED BY <1>1, <1>2, <4>1 DEF JobOK, DocsOK, Input, Declared, Group
    <3>2. next.pos \in (job.pos + 1)..(Len(Input.text) + 1)
      BY <2>2, <3>1, ScanMoves
    <3>3. next.pos \in 1..(Len(Input.text) + 1)
      <4> DEFINE n == Len(Input.text)
      <4> HIDE DEF next
      <4>1. n \in Nat /\ job.pos \in 1..(n + 1) /\ next.pos \in (job.pos + 1)..(n + 1)
        BY <3>1, <3>2, SeqShape
      <4> HIDE DEF n
      <4>2. next.pos \in 1..(n + 1)
        BY <4>1
      <4>3. QED BY <4>2 DEF n
    <3>4. DOMAIN new = DOMAIN accs /\ \A d \in DOMAIN accs : AccInv(new[d], GroupSet(d))
      <4>1. \A d \in DOMAIN accs : AccInv(accs[d], GroupSet(d)) /\ DatasetOK(GroupSet(d))
        BY <1>2 DEF JobOK, GroupSet, Group
      <4>2. \A d \in DOMAIN accs : AccInv(more[d], GroupSet(d))
        BY <4>1, ScannedKeeps DEF DatasetOK
      <4>3. QED BY <4>1, <4>2
    <3> HIDE DEF next, new
    <3>5. /\ DOMAIN job' = DOMAIN job /\ job'.writing = job.writing /\ job'.task = job.task /\ job'.docs = job.docs
          /\ job'.group = job.group /\ job'.pos = next.pos /\ job'.accs = new
      BY <1>1, <1>2, <2>2 DEF JobOK
    <3>6. QED BY <1>2, <3>3, <3>4, <3>5 DEF JobOK, Group, GroupSet, Input, Declared
  <2>3. QED BY <2>1, <2>2
<1>4. PlanInv' /\ LeftInv' /\ JobInv' /\ outcome' \in {"running", "ok", "killed", "error"}
  BY <1>1, <1>3, JobGoesOn
<1>5. QED BY <1>1, <1>4 DEF PipeInv

-----------------------------------------------------------------------------
(* Writing.                                                                *)

\* What the dataset that is next to be written comes to.
Result == Assembled(store, Task, job.accs[job.writing], GroupSet(job.writing))

\* What a dataset is assembled to leaves the store well formed and takes nothing but
\* temporary tables from it.
LEMMA ResultKeeps ==
  ASSUME PipeInv, job # NoJob, job.writing > 0
  PROVE  StoreOK(Result.store) /\ Grows(store, Result.store, TempTables(config))
<1> DEFINE d == job.writing
           ds == GroupSet(d)
           acc == job.accs[d]
<1>1. /\ JobOK(Pipe, job) /\ Len(Group.sets) \in Nat /\ DOMAIN Group.sets = 1..Len(Group.sets)
      /\ \A e \in DOMAIN Group.sets : DatasetOK(GroupSet(e)) /\ TempTable(GroupSet(e)) \in TempTables(config)
  BY TheJob
<1>2. d \in DOMAIN Group.sets /\ AccInv(acc, ds)
  <2>1. d \in 0..Len(Group.sets) /\ DOMAIN job.accs = DOMAIN Group.sets
    BY <1>1 DEF JobOK, Group
  <2>2. d \in DOMAIN Group.sets
    BY <1>1, <2>1
  <2>3. QED BY <1>1, <2>1, <2>2 DEF JobOK, Group, GroupSet
<1>3. IsSeq(ds.fields) /\ TempTable(ds) \in TempTables(config) /\ StoreOK(store)
  BY <1>1, <1>2 DEF DatasetOK, PipeInv
<1> HIDE DEF d, ds, acc
<1>4. StoreOK(Result.store) /\ Grows(store, Result.store, {TempTable(ds)})
  BY <1>2, <1>3, AssembledKeeps DEF Result, ds, acc, d
<1>5. QED BY <1>3, <1>4 DEF Grows, KeepsRows

\* So does a write that stops half-way: the files that were written are there, one of
\* them perhaps torn.
LEMMA TornKeeps ==
  ASSUME NEW st, NEW res, NEW temps, StoreOK(st), StoreOK(res), Grows(st, res, temps),
         NEW done, NEW torn, done \subseteq DOMAIN res.files
  PROVE  LET new == [res EXCEPT !.files = CutShort(st.files, @, done, torn)]
         IN StoreOK(new) /\ Grows(st, new, temps)
<1> DEFINE files == CutShort(st.files, res.files, done, torn)
           new == [res EXCEPT !.files = files]
<1>1. DOMAIN new = {"mem", "duck", "files"} /\ new.mem = res.mem /\ new.duck = res.duck /\ new.files = files
  BY DEF StoreOK
<1>2. FileOK(Torn)
  BY DEF FileOK, Torn
<1>3. DOMAIN st.files \subseteq DOMAIN files
  BY DEF CutShort
<1>4. FilesOK(files)
  <2>1. ASSUME NEW p \in DOMAIN files PROVE FileOK(files[p])
    <3>1. files[p] = Torn \/ (p \in done /\ files[p] = res.files[p]) \/ (p \in DOMAIN st.files /\ files[p] = st.files[p])
      BY DEF CutShort
    <3>2. QED BY <1>2, <3>1 DEF StoreOK, FilesOK
  <2>2. QED BY <2>1 DEF FilesOK
<1> HIDE DEF files
<1>5. StoreOK(new) /\ Grows(st, new, temps)
  <2> HIDE DEF new
  <2>1. QED BY <1>1, <1>3, <1>4 DEF StoreOK, Grows
<1>6. QED BY <1>5 DEF files

LEMMA WriteFaultStore ==
  ASSUME PipeInv, WriteFault
  PROVE  StoreOK(store') /\ Grows(store, store', TempTables(config))
<1>1. job # NoJob /\ job.writing > 0
  BY DEF WriteFault
<1>2. PICK torn, done : /\ done \subseteq Changed(store.files, Result.store.files)
                        /\ store' = [Result.store EXCEPT !.files = CutShort(store.files, @, done, torn)]
  <2>1. \E result \in {Result} : \E new \in {Changed(store.files, result.store.files)} :
          \E torn \in {{}} \cup {{p} : p \in new} : \E done \in SUBSET (new \ torn) :
            store' = [result.store EXCEPT !.files = CutShort(store.files, @, done, torn)]
    BY DEF WriteFault, Result
  <2>2. QED BY <2>1
<1>3. done \subseteq DOMAIN Result.store.files
  BY <1>2 DEF Changed
<1>4. StoreOK(store) /\ StoreOK(Result.store) /\ Grows(store, Result.store, TempTables(config))
  BY <1>1, ResultKeeps DEF PipeInv
<1>5. QED BY <1>2, <1>3, <1>4, TornKeeps

LEMMA WriteFaultKeeps ==
  ASSUME PipeInv, WriteFault
  PROVE  PipeInv'
<1>1. /\ job # NoJob /\ UNCHANGED <<config, plan, stage, tries>> /\ faults' \in 0..FaultBound
  BY FaultBoundAssumption DEF WriteFault, CanFault, PipeInv
<1>2. PICK err : Fails(job.task, err)
  BY DEF WriteFault
<1>3. job.task \in left /\ stage # 0
  BY <1>1, TheJob
<1>4. LeftInv' /\ JobInv' /\ outcome' \in {"running", "ok", "killed", "error"}
  BY <1>1, <1>2, <1>3, TriesStay, FailsKeeps
<1>5. PlanInv'
  BY <1>1, <1>3, PlanStays DEF PlanKept
<1>6. QED BY <1>1, <1>4, <1>5, WriteFaultStore DEF PipeInv

\* What WriteDataset does to the run.
LEMMA WriteDatasetMoves ==
  ASSUME WriteDataset
  PROVE  /\ job # NoJob /\ job.writing > 0 /\ UNCHANGED <<config, plan, stage, tries, faults>>
         /\ store' = Result.store
         /\ \/ Result.err # <<>> /\ Fails(job.task, Result.err)
            \/ /\ Result.err = <<>> /\ job.writing < Len(Group.sets)
               /\ job' = [job EXCEPT !.writing = @ + 1] /\ UNCHANGED <<left, outcome>>
            \/ /\ Result.err = <<>> /\ ~ (job.writing < Len(Group.sets)) /\ job.group < Len(Groups(Pipe))
               /\ job' = AtGroup(job.task, Pipe, job.docs, job.group + 1) /\ UNCHANGED <<left, outcome>>
            \/ /\ Result.err = <<>> /\ ~ (job.writing < Len(Group.sets)) /\ ~ (job.group < Len(Groups(Pipe)))
               /\ Finishes(job.task)
BY DEF WriteDataset, Result

LEMMA WriteDatasetStore ==
  ASSUME PipeInv, WriteDataset
  PROVE  StoreOK(store') /\ Grows(store, store', TempTables(config))
BY WriteDatasetMoves, ResultKeeps

LEMMA WriteDatasetKeeps ==
  ASSUME PipeInv, WriteDataset
  PROVE  PipeInv'
<1>1. job # NoJob /\ job.writing > 0 /\ UNCHANGED <<config, plan, stage, tries, faults>>
  BY WriteDatasetMoves
<1>2. /\ job.task \in left /\ stage # 0 /\ TaskOK(config, Task) /\ JobOK(Pipe, job)
      /\ Len(Group.sets) \in Nat /\ job.group \in 1..Len(Groups(Pipe)) /\ Len(Groups(Pipe)) \in Nat
      /\ outcome \notin {"ok", "error"}
  BY <1>1, TheJob
<1>3. PlanInv'
  BY <1>1, <1>2, PlanStays DEF PlanKept
<1>4. LeftInv' /\ JobInv' /\ outcome' \in {"running", "ok", "killed", "error"}
  <2>1. CASE Fails(job.task, Result.err)
    BY <1>1, <1>2, <2>1, TriesStay, FailsKeeps
  <2>2. CASE /\ job.writing < Len(Group.sets)
             /\ job' = [job EXCEPT !.writing = @ + 1] /\ UNCHANGED <<left, outcome>>
    <3>1. /\ DOMAIN job' = DOMAIN job /\ job'.writing = job.writing + 1 /\ job'.task = job.task /\ job'.docs = job.docs
          /\ job'.group = job.group /\ job'.pos = job.pos /\ job'.accs = job.accs
      BY <1>2, <2>2 DEF JobOK
    <3>2. job.writing \in 0..Len(Group.sets)
      BY <1>2 DEF JobOK, Group
    <3>3. job'.writing \in 0..Len(Group.sets)
      BY <1>2, <2>2, <3>1, <3>2
    <3>4. JobOK(Pipe, job')
      BY <1>2, <3>1, <3>3 DEF JobOK, Group
    <3>5. QED BY <1>1, <2>2, <3>1, <3>4, JobGoesOn
  <2>3. CASE /\ job.group < Len(Groups(Pipe))
             /\ job' = AtGroup(job.task, Pipe, job.docs, job.group + 1) /\ UNCHANGED <<left, outcome>>
    <3> DEFINE g == job.group + 1
    <3>1. g \in 1..Len(Groups(Pipe))
      BY <1>2, <2>3
    <3>2. DocsOK(Pipe, job.docs)
      BY <1>2 DEF JobOK
    <3> HIDE DEF g
    <3>3. JobOK(Pipe, AtGroup(job.task, Pipe, job.docs, g))
      BY <1>2, <3>1, <3>2, AtGroupOK DEF Pipe
    <3>4. AtGroup(job.task, Pipe, job.docs, g).task = job.task
      BY DEF AtGroup
    <3>5. job' = AtGroup(job.task, Pipe, job.docs, g)
      BY <2>3 DEF g
    <3>6. QED BY <1>1, <2>3, <3>3, <3>4, <3>5, JobGoesOn
  <2>4. CASE Finishes(job.task)
    <3>1. job' = NoJob /\ left' = left \ {job.task} /\ outcome' = outcome
      BY <2>4 DEF Finishes
    <3>2. LeftInv'
      BY <1>1, <1>2, <3>1, TriesStay DEF PipeInv, LeftInv
    <3>3. QED BY <3>1, <3>2 DEF JobInv, PipeInv
  <2>5. QED BY <2>1, <2>2, <2>3, <2>4, WriteDatasetMoves
<1>5. QED BY <1>1, <1>3, <1>4, WriteDatasetStore DEF PipeInv

-----------------------------------------------------------------------------
(* The driver.                                                             *)

\* A stage begins with its tasks untried.
LEMMA EnterStageKeeps ==
  ASSUME NEW p, IsSeq(p), NEW s \in DOMAIN p, \A r \in DOMAIN p : IsSeq(p[r]), EnterStage(p, s)
  PROVE  /\ stage' = s /\ DOMAIN tries' = DOMAIN p[s] /\ left' \subseteq DOMAIN tries'
         /\ \A k \in DOMAIN tries' : tries'[k] = 0
BY DEF EnterStage, TasksOf

LEMMA ExpandKeeps ==
  ASSUME PipeInv, Expand
  PROVE  PipeInv'
<1>1. /\ stage = 0 /\ outcome = "running" /\ UNCHANGED <<config, store, job, faults>>
      /\ ConfigOK(config) /\ plan = <<>> /\ left = {} /\ tries = <<>> /\ job = NoJob
  BY ConfigsAssumption DEF Expand, PipeInv, PlanInv
<1> DEFINE built == BuildPlan(config, store)
<1>2. CASE outcome' = "error" /\ UNCHANGED <<plan, stage, left, tries>>
  BY <1>1, <1>2 DEF PipeInv, PlanInv, LeftInv, JobInv
<1>3. CASE /\ ~ Refused /\ built # <<>> /\ plan' = built[1]
           /\ EnterStage(built[1], 1) /\ UNCHANGED outcome
  <2> DEFINE p == built[1]
  <2>1. /\ IsSeq(p) /\ Len(p) = Len(Stages(config)) /\ Len(p) > 0
        /\ \A s \in DOMAIN p : IsSeq(p[s]) /\ \A k \in DOMAIN p[s] : TaskOK(config, p[s][k])
        /\ \A s \in DOMAIN Stages(config) : \A n \in DOMAIN Stages(config)[s] :
             Named(config.pipelines, Stages(config)[s][n].pipeline) # {}
    BY <1>1, <1>3, PlanIs
  <2> HIDE DEF built, p
  <2>2. plan' = p /\ EnterStage(p, 1)
    BY <1>3 DEF p
  <2>3. 1 \in DOMAIN p /\ 1 \in 1..Len(p)
    BY <2>1, SeqShape
  <2>4. stage' = 1 /\ DOMAIN tries' = DOMAIN p[1] /\ left' \subseteq DOMAIN tries' /\ \A k \in DOMAIN tries' : tries'[k] = 0
    BY <2>1, <2>2, <2>3, EnterStageKeeps
  <2>5. PlanInv'
    BY <1>1, <2>1, <2>2, <2>3, <2>4 DEF PlanInv
  <2>6. LeftInv'
    BY <1>1, <1>3, <2>4, RetriesAssumption DEF LeftInv
  <2>7. QED BY <1>1, <1>3, <2>5, <2>6 DEF PipeInv, JobInv
<1>4. QED BY <1>2, <1>3 DEF Expand

LEMMA ExpandFaultKeeps ==
  ASSUME PipeInv, ExpandFault
  PROVE  PipeInv'
<1>1. /\ stage = 0 /\ outcome' = "error" /\ UNCHANGED <<config, store, plan, stage, left, tries, job>>
      /\ faults' \in 0..FaultBound
  BY FaultBoundAssumption DEF ExpandFault, CanFault, PipeInv
<1>2. QED BY <1>1 DEF PipeInv, PlanInv, LeftInv, JobInv

LEMMA StageOverKeeps ==
  ASSUME PipeInv, StageOver
  PROVE  PipeInv'
<1>1. /\ outcome = "running" /\ stage # 0 /\ job = NoJob /\ left = {} /\ UNCHANGED <<config, store, plan, job, faults>>
  BY DEF StageOver
<1>2. /\ IsSeq(plan) /\ Len(plan) \in Nat /\ stage \in 1..Len(plan)
      /\ Len(plan) = Len(Stages(config))
      /\ \A s \in DOMAIN plan : IsSeq(plan[s]) /\ \A k \in DOMAIN plan[s] : TaskOK(config, plan[s][k])
      /\ \A s \in DOMAIN Stages(config) : \A n \in DOMAIN Stages(config)[s] :
           Named(config.pipelines, Stages(config)[s][n].pipeline) # {}
  BY <1>1, TheStage DEF PipeInv, PlanInv
<1>3. CASE stage < Len(plan) /\ EnterStage(plan, stage + 1) /\ UNCHANGED outcome
  <2> DEFINE s == stage + 1
  <2>1. s \in 1..Len(plan) /\ s # 0
    BY <1>2, <1>3
  <2>2. s \in DOMAIN plan
    BY <1>2, <2>1, SeqShape
  <2>3. EnterStage(plan, s)
    BY <1>3
  <2> HIDE DEF s
  <2>4. stage' = s /\ DOMAIN tries' = DOMAIN plan[s] /\ left' \subseteq DOMAIN tries' /\ \A k \in DOMAIN tries' : tries'[k] = 0
    BY <1>2, <2>2, <2>3, EnterStageKeeps
  <2>5. PlanInv'
    BY <1>1, <1>2, <2>1, <2>4 DEF PlanInv
  <2>6. LeftInv'
    BY <1>1, <1>3, <2>4, RetriesAssumption DEF LeftInv
  <2>7. QED BY <1>1, <1>3, <2>5, <2>6 DEF PipeInv, JobInv
<1>4. CASE outcome' = "ok" /\ UNCHANGED <<stage, left, tries>>
  <2>1. PlanInv'
    BY <1>1, <1>4, PlanStays DEF PlanKept
  <2>2. QED BY <1>1, <1>4, <2>1 DEF PipeInv, LeftInv, JobInv
<1>5. QED BY <1>3, <1>4 DEF StageOver

LEMMA NeverRunKeeps ==
  ASSUME PipeInv, NeverRun
  PROVE  PipeInv'
<1>1. UNCHANGED <<config, store, plan, stage, tries, job, faults, outcome>> /\ outcome = "killed"
  BY DEF NeverRun
<1>2. PICK k \in left : job.task # k /\ left' = left \ {k}
  BY DEF NeverRun
<1>3. stage # 0
  BY <1>2 DEF PipeInv, PlanInv
<1>4. PlanInv'
  BY <1>1, <1>3, PlanStays DEF PlanKept
<1>5. LeftInv'
  BY <1>1, <1>2 DEF PipeInv, LeftInv
<1>6. JobInv'
  BY <1>1, <1>2 DEF PipeInv, JobInv, Pipe, Task
<1>7. QED BY <1>1, <1>4, <1>5, <1>6 DEF PipeInv

\* The initial states satisfy the invariant, and every step keeps it.
LEMMA PipeInitInv == PipeInit => PipeInv
<1> SUFFICES ASSUME PipeInit PROVE PipeInv
  OBVIOUS
<1>2. StoreOK(store)
  <2>1. TablesOK(<<>>)
    BY NoElements DEF TablesOK
  <2>2. DOMAIN store = {"mem", "duck", "files"} /\ store.mem = <<>> /\ store.duck = <<>> /\ store.files = Files
    BY DEF PipeInit
  <2>3. QED BY <2>1, <2>2, FilesAssumption DEF StoreOK, FilesOK
<1>3. DOMAIN tries = {}
  BY NoElements DEF PipeInit
<1>4. QED BY <1>2, <1>3, FaultBoundAssumption DEF PipeInit, PipeInv, PlanInv, LeftInv, JobInv

LEMMA PipeStepInv ==
  ASSUME RenderIsText, PipeInv, [PipeNext]_pipeVars
  PROVE  PipeInv'
<1>1. CASE UNCHANGED pipeVars
  BY <1>1 DEF pipeVars, PipeInv, PlanInv, LeftInv, JobInv, Pipe, Task
<1>2. CASE Expand
  BY <1>2, ExpandKeeps
<1>3. CASE ExpandFault
  BY <1>3, ExpandFaultKeeps
<1>4. CASE StageOver
  BY <1>4, StageOverKeeps
<1>5. CASE NeverRun
  BY <1>5, NeverRunKeeps
<1>6. ASSUME NEW k \in left, Begin(k) PROVE PipeInv'
  BY <1>6, BeginKeeps
<1>7. ASSUME NEW k \in left, BeginFault(k) PROVE PipeInv'
  BY <1>7, BeginFaultKeeps
<1>8. CASE UnknownSource
  BY <1>8, UnknownSourceKeeps
<1>9. CASE ScanRecord
  BY <1>9, ScanRecordKeeps
<1>10. CASE WriteDataset
  BY <1>10, WriteDatasetKeeps
<1>11. CASE WriteFault
  BY <1>11, WriteFaultKeeps
<1>12. QED BY <1>1, <1>2, <1>3, <1>4, <1>5, <1>6, <1>7, <1>8, <1>9, <1>10, <1>11 DEF PipeNext, Works, Ended

\* The inductive invariant of the data path: the plan is one of the configuration, what
\* is left of a stage is counted, the run that holds the store (run_one_pipeline, from its
\* first source to its last dataset) is at a group, a dataset and a byte that exist, and
\* all columns of an accumulator have as many cells as it has rows.
THEOREM PipeInvariance == ASSUME RenderIsText PROVE PipeSpec => []PipeInv
<1>1. PipeInv /\ [PipeNext]_pipeVars => PipeInv'
  BY PipeStepInv
<1>2. QED BY <1>1, PipeInitInv, PTL DEF PipeSpec

LEMMA InvTypes == PipeInv => PipeTypeOK
<1> SUFFICES ASSUME PipeInv PROVE PipeTypeOK
  OBVIOUS
<1>2. stage \in 0..Len(plan)
  <2>1. CASE stage = 0
    BY <2>1, NoElements DEF PipeInv, PlanInv
  <2>2. CASE stage # 0
    BY <2>2, TheStage
  <2>3. QED BY <2>1, <2>2
<1>3. /\ \A t \in DOMAIN store.mem : TableOK(store.mem[t])
      /\ \A t \in DOMAIN store.duck : TableOK(store.duck[t])
      /\ \A p \in DOMAIN store.files : "rows" \in DOMAIN store.files[p] => TableOK(store.files[p])
  BY DEF PipeInv, StoreOK, TablesOK, FilesOK, FileOK
<1>4. job # NoJob =>
        /\ job.task \in left
        /\ \A s \in DOMAIN job.docs : IsSeq(job.docs[s][1].text)
        /\ \A d \in DOMAIN job.accs : AccOK(job.accs[d])
  BY AccInvOK DEF PipeInv, JobInv, JobOK, DocsOK
<1>5. QED BY <1>2, <1>3, <1>4 DEF PipeInv, LeftInv, PipeTypeOK

\* Every table of the store and of a file is rectangular, the cells of a column are of
\* its type, and the driver, the plan and the run that holds the store are of theirs
\* (PipeTypeOK), for all configurations, documents, retries and failures.
THEOREM PipeTypes == ASSUME RenderIsText PROVE PipeSpec => []PipeTypeOK
BY InvTypes, PipeInvariance, PTL

-----------------------------------------------------------------------------
(* Tables and files only grow.                                             *)

\* No step takes a row, a table or a file, but for the temporary tables.
LEMMA StepGrows ==
  ASSUME PipeInv, [PipeNext]_pipeVars
  PROVE  Grows(store, store', TempTables(config))
<1>1. CASE WriteDataset
  BY <1>1, WriteDatasetStore
<1>2. CASE WriteFault
  BY <1>2, WriteFaultStore
<1>3. CASE store' = store
  BY <1>3, GrowsSame DEF PipeInv
<1>4. \/ WriteDataset \/ WriteFault \/ store' = store
  BY DEF PipeNext, Works, Ended, pipeVars, Expand, ExpandFault, StageOver, NeverRun, Begin, BeginFault,
         UnknownSource, ScanRecord
<1>5. QED BY <1>1, <1>2, <1>3, <1>4

\* Only temporary tables are dropped: what a task wrote to a table no later step takes
\* away or changes, and no file disappears (CREATE TABLE IF NOT EXISTS, the appender,
\* write_target), for all configurations, interleavings and failures.
THEOREM TablesGrow == ASSUME RenderIsText PROVE PipeSpec => TablesOnlyGrow
<1>1. PipeInv /\ [PipeNext]_pipeVars => [NothingTaken]_pipeVars
  <2> SUFFICES ASSUME PipeInv, [PipeNext]_pipeVars PROVE NothingTaken
    OBVIOUS
  <2>1. Grows(store, store', TempTables(config))
    BY StepGrows
  <2>2. QED BY <2>1 DEF NothingTaken, Grows, KeepsRows, TempTables
<1>2. QED BY <1>1, PipeInvariance, PTL DEF PipeSpec, TablesOnlyGrow

-----------------------------------------------------------------------------
(* The rank.                                                               *)

\* The five numbers of the rank: stages, runs of tasks, groups, datasets and characters
\* that are still to come. A run is a task of the stage with the number of the attempt.
Runs == {run \in left \X (1..(Retries + 1)) : tries[run[1]] < run[2]}
StagesLeft == IF outcome \in {"ok", "error"} THEN 0 ELSE Len(Stages(config)) + 1 - stage
GroupsLeft == IF job # NoJob THEN Len(Groups(Pipe)) + 1 - job.group ELSE 0
SetsLeft == IF job # NoJob THEN Len(Group.sets) + 1 - job.writing ELSE 0
TextLeft == IF job # NoJob /\ job.writing = 0 /\ Declared # {} THEN Len(Input.text) + 1 - job.pos ELSE 0

LEMMA RankIs == Rank = <<StagesLeft, Cardinality(Runs), GroupsLeft, SetsLeft, TextLeft>>
BY DEF Rank, Runs, StagesLeft, GroupsLeft, SetsLeft, TextLeft

\* They are natural numbers, and the run that holds the store has a group and a dataset.
RankOK ==
  /\ StagesLeft \in Nat /\ Cardinality(Runs) \in Nat /\ GroupsLeft \in Nat /\ SetsLeft \in Nat
  /\ TextLeft \in Nat /\ IsFiniteSet(Runs)
  /\ job # NoJob => GroupsLeft > 0 /\ SetsLeft > 0

\* The rank is made of natural numbers, so it cannot go down for ever.
LEMMA RankInNat == PipeInv => RankOK
<1> SUFFICES ASSUME PipeInv PROVE RankOK
  OBVIOUS
<1>1. StagesLeft \in Nat
  <2>1. Len(Stages(config)) \in Nat
    BY StagesAre, SeqShape, ConfigsAssumption DEF PipeInv
  <2>2. stage = 0 \/ (stage \in 1..Len(plan) /\ Len(plan) = Len(Stages(config)))
    BY DEF PipeInv, PlanInv
  <2>3. QED BY <2>1, <2>2 DEF StagesLeft
<1>2. IsFiniteSet(Runs) /\ Cardinality(Runs) \in Nat
  <2>1. IsFiniteSet(left)
    <3>1. CASE stage = 0
      BY <3>1, FS_EmptySet DEF PipeInv, PlanInv
    <3>2. CASE stage # 0
      <4>1. DOMAIN tries = 1..Len(plan[stage]) /\ Len(plan[stage]) \in Nat
        BY <3>2, TheStage, SeqShape
      <4>2. left \subseteq DOMAIN tries
        BY DEF PipeInv, LeftInv
      <4> DEFINE n == Len(plan[stage])
      <4> HIDE DEF n
      <4>3. IsFiniteSet(1..n)
        BY <4>1, FS_Interval DEF n
      <4>4. QED BY <4>1, <4>2, <4>3, FS_Subset DEF n
    <3>3. QED BY <3>1, <3>2
  <2>2. IsFiniteSet(left \X (1..(Retries + 1)))
    <3>1. IsFiniteSet(1..(Retries + 1))
      BY FS_Interval, RetriesAssumption
    <3>2. QED BY <2>1, <3>1, FS_Product
  <2>3. Runs \subseteq left \X (1..(Retries + 1))
    BY DEF Runs
  <2>4. QED BY <2>2, <2>3, FS_Subset, FS_CardinalityType
<1>3. GroupsLeft \in Nat /\ (job # NoJob => GroupsLeft > 0)
  BY TheJob DEF GroupsLeft
<1>4. SetsLeft \in Nat /\ (job # NoJob => SetsLeft > 0)
  <2>1. job # NoJob => job.writing \in 0..Len(Group.sets) /\ Len(Group.sets) \in Nat
    BY TheJob DEF JobOK, Group
  <2>2. QED BY <2>1 DEF SetsLeft
<1>5. TextLeft \in Nat
  <2>1. CASE job # NoJob /\ Declared # {}
    <3>1. JobOK(Pipe, job) /\ TaskOK(config, Task)
      BY <2>1, TheJob
    <3>2. Min(Declared) \in DOMAIN Pipe.sources
      BY <2>1, <3>1, NamedOne DEF Declared, TaskOK, PipelineOK, Pipe
    <3>3. IsSeq(Input.text) /\ job.pos \in 1..(Len(Input.text) + 1)
      BY <2>1, <3>1, <3>2 DEF JobOK, DocsOK, Input, Declared, Group
    <3>4. Len(Input.text) \in Nat
      BY <3>3, SeqShape
    <3>5. QED BY <3>3, <3>4 DEF TextLeft
  <2>2. QED BY <2>1 DEF TextLeft
<1>6. QED BY <1>1, <1>2, <1>3, <1>4, <1>5 DEF RankOK

LEMMA RankInNatNext == PipeInv' => RankOK'
BY RankInNat, PTL

\* The lexicographic order of five numbers, spelled out.
LEMMA NearerAt ==
  ASSUME NEW a1 \in Nat, NEW a2 \in Nat, NEW a3 \in Nat, NEW a4 \in Nat, NEW a5 \in Nat,
         NEW b1 \in Nat, NEW b2 \in Nat, NEW b3 \in Nat, NEW b4 \in Nat, NEW b5 \in Nat,
         \/ b1 < a1
         \/ b1 = a1 /\ b2 < a2
         \/ b1 = a1 /\ b2 = a2 /\ b3 < a3
         \/ b1 = a1 /\ b2 = a2 /\ b3 = a3 /\ b4 < a4
         \/ b1 = a1 /\ b2 = a2 /\ b3 = a3 /\ b4 = a4 /\ b5 < a5
  PROVE  Nearer(<<b1, b2, b3, b4, b5>>, <<a1, a2, a3, a4, a5>>)
<1> DEFINE new == <<b1, b2, b3, b4, b5>>
           old == <<a1, a2, a3, a4, a5>>
<1>1. \A i \in 1..5 : new[i] \in Nat
  OBVIOUS
<1>2. /\ new[1] = b1 /\ new[2] = b2 /\ new[3] = b3 /\ new[4] = b4 /\ new[5] = b5
      /\ old[1] = a1 /\ old[2] = a2 /\ old[3] = a3 /\ old[4] = a4 /\ old[5] = a5
  OBVIOUS
<1> HIDE DEF new, old
<1>3. \E i \in 1..5 : new[i] < old[i] /\ \A j \in 1..(i - 1) : new[j] = old[j]
  <2>1. CASE b1 < a1
    <3>1. 1..(1 - 1) = {} /\ 1 \in 1..5
      OBVIOUS
    <3>2. QED BY <1>2, <2>1, <3>1
  <2>2. CASE b1 = a1 /\ b2 < a2
    <3>1. 1..(2 - 1) = {1} /\ 2 \in 1..5
      OBVIOUS
    <3>2. QED BY <1>2, <2>2, <3>1
  <2>3. CASE b1 = a1 /\ b2 = a2 /\ b3 < a3
    <3>1. 1..(3 - 1) = {1, 2} /\ 3 \in 1..5
      OBVIOUS
    <3>2. QED BY <1>2, <2>3, <3>1
  <2>4. CASE b1 = a1 /\ b2 = a2 /\ b3 = a3 /\ b4 < a4
    <3>1. 1..(4 - 1) = {1, 2, 3} /\ 4 \in 1..5
      OBVIOUS
    <3>2. QED BY <1>2, <2>4, <3>1
  <2>5. CASE b1 = a1 /\ b2 = a2 /\ b3 = a3 /\ b4 = a4 /\ b5 < a5
    <3>1. 1..(5 - 1) = {1, 2, 3, 4} /\ 5 \in 1..5
      OBVIOUS
    <3>2. QED BY <1>2, <2>5, <3>1
  <2>6. QED BY <2>1, <2>2, <2>3, <2>4, <2>5
<1>4. QED BY <1>1, <1>3 DEF Nearer, new, old

\* The ways in which a step can bring the run nearer to its end.
Closer ==
  \/ StagesLeft' < StagesLeft
  \/ StagesLeft' = StagesLeft /\ Cardinality(Runs') < Cardinality(Runs)
  \/ /\ StagesLeft' = StagesLeft /\ Cardinality(Runs') = Cardinality(Runs)
     /\ \/ GroupsLeft' < GroupsLeft
        \/ GroupsLeft' = GroupsLeft /\ SetsLeft' < SetsLeft
        \/ GroupsLeft' = GroupsLeft /\ SetsLeft' = SetsLeft /\ TextLeft' < TextLeft

LEMMA CloserIsNearer == ASSUME RankOK, RankOK', Closer PROVE Nearer(Rank', Rank)
<1>1. /\ Rank = <<StagesLeft, Cardinality(Runs), GroupsLeft, SetsLeft, TextLeft>>
      /\ Rank' = <<StagesLeft', Cardinality(Runs'), GroupsLeft', SetsLeft', TextLeft'>>
  BY DEF Rank, Runs, StagesLeft, GroupsLeft, SetsLeft, TextLeft
<1>2. /\ StagesLeft \in Nat /\ Cardinality(Runs) \in Nat /\ GroupsLeft \in Nat /\ SetsLeft \in Nat
      /\ TextLeft \in Nat
      /\ StagesLeft' \in Nat /\ Cardinality(Runs') \in Nat /\ GroupsLeft' \in Nat /\ SetsLeft' \in Nat
      /\ TextLeft' \in Nat
  BY DEF RankOK
<1>3. Nearer(<<StagesLeft', Cardinality(Runs'), GroupsLeft', SetsLeft', TextLeft'>>,
             <<StagesLeft, Cardinality(Runs), GroupsLeft, SetsLeft, TextLeft>>)
  BY <1>2, NearerAt DEF Closer
<1>4. QED BY <1>1, <1>3

-----------------------------------------------------------------------------
(* Each step lowers the rank.                                              *)

\* No run is added.
RunsKept == left' \subseteq left /\ \A j \in left' : tries'[j] \in Nat /\ tries[j] \in Nat /\ tries[j] <= tries'[j]

\* When no task is put back, no run is added; and fewer runs are fewer.
LEMMA RunsShrink ==
  ASSUME RankOK, RankOK', RunsKept
  PROVE  /\ Cardinality(Runs') <= Cardinality(Runs)
         /\ Runs' # Runs => Cardinality(Runs') < Cardinality(Runs)
<1>1. Runs' \subseteq Runs
  <2>1. ASSUME NEW run \in Runs' PROVE run \in Runs
    <3>1. run \in left' \X (1..(Retries + 1)) /\ tries'[run[1]] < run[2]
      BY <2>1 DEF Runs
    <3>2. run[1] \in left' /\ run[2] \in 1..(Retries + 1) /\ run = <<run[1], run[2]>>
      BY <3>1
    <3>3. run[1] \in left /\ tries[run[1]] \in Nat /\ tries'[run[1]] \in Nat /\ tries[run[1]] <= tries'[run[1]]
      BY <3>2 DEF RunsKept
    <3>4. tries[run[1]] < run[2]
      BY <3>1, <3>2, <3>3, RetriesAssumption
    <3>5. QED BY <3>2, <3>3, <3>4 DEF Runs
  <2>2. QED BY <2>1
<1>2. IsFiniteSet(Runs) /\ Cardinality(Runs) \in Nat /\ Cardinality(Runs') \in Nat
  BY DEF RankOK
<1>3. /\ Cardinality(Runs') <= Cardinality(Runs)
      /\ Cardinality(Runs') = Cardinality(Runs) => Runs' = Runs
  BY <1>1, <1>2, FS_Subset
<1>4. QED BY <1>2, <1>3

\* A run of a task that was still to come is over.
LEMMA OneRunLess ==
  ASSUME RankOK, RankOK', RunsKept, NEW k \in left, tries[k] \in Nat, tries[k] <= Retries,
         k \notin left' \/ tries'[k] = tries[k] + 1
  PROVE  Cardinality(Runs') < Cardinality(Runs)
<1>1. tries[k] + 1 \in 1..(Retries + 1) /\ tries[k] < tries[k] + 1 /\ ~ (tries[k] + 1 < tries[k] + 1)
  BY RetriesAssumption
<1>2. <<k, tries[k] + 1>> \in Runs
  BY <1>1 DEF Runs
<1>3. <<k, tries[k] + 1>> \notin Runs'
  BY <1>1 DEF Runs
<1>4. QED BY <1>2, <1>3, RunsShrink

LEMMA StagesStay ==
  ASSUME UNCHANGED <<config, stage>>, outcome' \in {"ok", "error"} <=> outcome \in {"ok", "error"}
  PROVE  StagesLeft' = StagesLeft
BY DEF StagesLeft

LEMMA DriverCloser ==
  ASSUME PipeInv, Expand \/ ExpandFault \/ StageOver
  PROVE  Closer
<1>1. Len(Stages(config)) \in Nat
  BY StagesAre, SeqShape, ConfigsAssumption DEF PipeInv
<1>2. config' = config /\ outcome = "running"
  BY DEF Expand, ExpandFault, StageOver
<1>3. CASE Expand \/ ExpandFault
  <2>1. stage = 0 /\ (outcome' = "error" \/ (stage' = 1 /\ outcome' = outcome))
    BY <1>3 DEF Expand, ExpandFault, EnterStage
  <2>2. QED BY <1>1, <1>2, <2>1 DEF Closer, StagesLeft
<1>4. CASE StageOver
  <2>1. stage \in 1..Len(plan) /\ Len(plan) = Len(Stages(config))
    BY <1>4, TheStage DEF StageOver, PipeInv, PlanInv
  <2>2. outcome' = "ok" \/ (stage' = stage + 1 /\ outcome' = outcome)
    BY <1>4 DEF StageOver, EnterStage
  <2>3. QED BY <1>1, <1>2, <2>1, <2>2 DEF Closer, StagesLeft
<1>5. QED BY <1>3, <1>4

LEMMA NeverRunCloser ==
  ASSUME PipeInv, RankOK, RankOK', NeverRun
  PROVE  Closer
<1>1. UNCHANGED <<config, stage, tries, outcome>>
  BY DEF NeverRun
<1>2. PICK k \in left : job.task # k /\ left' = left \ {k}
  BY DEF NeverRun
<1>3. stage # 0 /\ left \subseteq DOMAIN tries /\ tries[k] <= Retries
  BY <1>2 DEF PipeInv, PlanInv, LeftInv
<1>4. \A j \in left : tries[j] \in Nat
  BY <1>3, TheStage
<1>5. RunsKept
  BY <1>1, <1>2, <1>4 DEF RunsKept
<1>6. Cardinality(Runs') < Cardinality(Runs)
  BY <1>2, <1>3, <1>4, <1>5, OneRunLess
<1>7. QED BY <1>1, <1>6, StagesStay DEF Closer

LEMMA BeginCloser ==
  ASSUME PipeInv, RankOK, RankOK', NEW k \in left, Begin(k) \/ BeginFault(k)
  PROVE  Closer
<1>1. job = NoJob /\ tries' = [tries EXCEPT ![k] = @ + 1] /\ UNCHANGED <<config, stage>>
  BY DEF Begin, BeginFault
<1>2. /\ stage # 0 /\ DOMAIN tries' = DOMAIN tries
      /\ tries'[k] = tries[k] + 1 /\ \A j \in DOMAIN tries \ {k} : tries'[j] = tries[j]
  BY <1>1, RangeOfTries
<1>3. left' \subseteq left /\ outcome' \in {outcome, "killed"}
  BY DEF Begin, BeginFault, Fails
<1>4. left \subseteq DOMAIN tries /\ \A j \in left : tries[j] \in Nat /\ j # 0
  BY <1>2, TheStage DEF PipeInv, LeftInv
<1>5. tries[k] <= Retries /\ outcome \notin {"ok", "error"}
  BY <1>1, <1>4 DEF PipeInv, LeftInv, NoJob
<1>6. RunsKept
  BY <1>2, <1>3, <1>4 DEF RunsKept
<1>7. Cardinality(Runs') < Cardinality(Runs)
  BY <1>2, <1>4, <1>5, <1>6, OneRunLess
<1>8. QED BY <1>1, <1>3, <1>5, <1>7, StagesStay DEF Closer

\* The run that holds the store is over.
LEMMA EndCloser ==
  ASSUME PipeInv, RankOK, RankOK', job # NoJob, job' = NoJob, UNCHANGED <<config, stage, tries>>,
         left' \subseteq left, outcome' \in {outcome, "killed"}
  PROVE  Closer
<1>1. stage # 0 /\ outcome \notin {"ok", "error"}
  BY TheJob
<1>2. left \subseteq DOMAIN tries /\ \A j \in left : tries[j] \in Nat
  BY <1>1, TheStage DEF PipeInv, LeftInv
<1>3. RunsKept
  BY <1>2 DEF RunsKept
<1>4. Cardinality(Runs') <= Cardinality(Runs) /\ Cardinality(Runs) \in Nat /\ Cardinality(Runs') \in Nat
  BY <1>3, RunsShrink DEF RankOK
<1>5. GroupsLeft' = 0 /\ GroupsLeft > 0 /\ GroupsLeft \in Nat
  BY DEF GroupsLeft, RankOK
<1>6. StagesLeft' = StagesLeft
  BY <1>1, StagesStay
<1>7. QED BY <1>4, <1>5, <1>6 DEF Closer

\* The run that holds the store goes on.
LEMMA StepCloser ==
  ASSUME PipeInv, job # NoJob, job' # NoJob, UNCHANGED <<config, plan, stage, left, tries, outcome>>,
         job'.task = job.task, RankOK, RankOK',
         \/ GroupsLeft' < GroupsLeft
         \/ GroupsLeft' = GroupsLeft /\ SetsLeft' < SetsLeft
         \/ GroupsLeft' = GroupsLeft /\ SetsLeft' = SetsLeft /\ TextLeft' < TextLeft
  PROVE  Closer
<1>1. StagesLeft' = StagesLeft /\ Runs' = Runs
  BY DEF StagesLeft, Runs
<1>2. QED BY <1>1 DEF Closer

LEMMA ScanRecordCloser ==
  ASSUME PipeInv, RankOK, RankOK', ScanRecord, PipeInv'
  PROVE  Closer
<1> DEFINE next == Scan(Input.text, job.pos)
<1>1. /\ job # NoJob /\ job.writing = 0 /\ Declared # {}
      /\ UNCHANGED <<config, plan, stage, left, tries, outcome>>
      /\ \/ next.done /\ job' = [job EXCEPT !.writing = 1]
         \/ ~ next.done /\ \E new : job' = [job EXCEPT !.pos = next.pos, !.accs = new]
  BY DEF ScanRecord
<1>2. JobOK(Pipe, job) /\ TaskOK(config, Task) /\ Len(Group.sets) \in Nat /\ Len(Groups(Pipe)) \in Nat
  BY <1>1, TheJob
<1> HIDE DEF next
<1>a. DOMAIN job = {"task", "docs", "group", "pos", "writing", "accs"} /\ DOMAIN NoJob = {"task"}
  BY <1>2 DEF JobOK, NoJob
<1>b. job.writing = 0 /\ job # NoJob /\ UNCHANGED <<config, plan, stage, left, tries, outcome>>
  BY <1>1
<1>3. CASE next.done /\ job' = [job EXCEPT !.writing = 1]
  <2>1. DOMAIN job' = DOMAIN job /\ job'.task = job.task /\ job'.group = job.group /\ job'.writing = 1
    BY <1>a, <1>3
  <2>2. job' # NoJob
    BY <1>a, <2>1
  <2>3. Pipe' = Pipe /\ Group' = Group
    BY <1>1, <2>1 DEF Pipe, Task, Group
  <2>4. GroupsLeft' = GroupsLeft /\ SetsLeft' < SetsLeft
    BY <1>2, <1>b, <2>1, <2>2, <2>3 DEF GroupsLeft, SetsLeft
  <2>5. QED BY <1>1, <2>1, <2>2, <2>4, StepCloser
<1>4. ASSUME NEW new, ~ next.done, job' = [job EXCEPT !.pos = next.pos, !.accs = new] PROVE Closer
  <2>1. /\ DOMAIN job' = DOMAIN job /\ job'.task = job.task /\ job'.group = job.group /\ job'.writing = 0
        /\ job'.docs = job.docs /\ job'.pos = next.pos
    BY <1>a, <1>b, <1>4
  <2>2. job' # NoJob
    BY <1>a, <2>1
  <2>3. Pipe' = Pipe /\ Group' = Group /\ Declared' = Declared /\ Input' = Input
    BY <1>1, <2>1 DEF Pipe, Task, Group, Declared, Input
  <2>4. GroupsLeft' = GroupsLeft /\ SetsLeft' = SetsLeft
    BY <1>b, <2>1, <2>2, <2>3 DEF GroupsLeft, SetsLeft
  <2>5. next.pos \in (job.pos + 1)..(Len(Input.text) + 1) /\ job.pos \in Nat /\ Len(Input.text) \in Nat
    <3>1. Min(Declared) \in DOMAIN Pipe.sources
      BY <1>1, <1>2, NamedOne DEF Declared, TaskOK, PipelineOK, Pipe
    <3>2. IsSeq(Input.text) /\ job.pos \in 1..(Len(Input.text) + 1)
      BY <1>1, <1>2, <3>1 DEF JobOK, DocsOK, Input, Declared, Group
    <3>3. QED BY <1>4, <3>2, ScanMoves, SeqShape DEF next
  <2> HIDE DEF next
  <2>6. TextLeft' < TextLeft
    <3> DEFINE n == Len(Input.text)
           p == job.pos
    <3>1. n \in Nat /\ p \in Nat /\ job'.pos \in (p + 1)..(n + 1)
      BY <2>1, <2>5
    <3>2. TextLeft = n + 1 - p
      BY <1>1 DEF TextLeft
    <3>3. TextLeft' = n + 1 - job'.pos
      BY <1>1, <2>1, <2>2, <2>3 DEF TextLeft
    <3> HIDE DEF n, p
    <3>4. QED BY <3>1, <3>2, <3>3
  <2>7. QED BY <1>1, <2>1, <2>2, <2>4, <2>6, StepCloser
<1>5. QED BY <1>1, <1>3, <1>4

LEMMA WriteDatasetCloser ==
  ASSUME PipeInv, RankOK, RankOK', WriteDataset
  PROVE  Closer
<1>1. job # NoJob /\ job.writing > 0 /\ UNCHANGED <<config, plan, stage, tries, faults>>
  BY WriteDatasetMoves
<1>2. /\ JobOK(Pipe, job) /\ TaskOK(config, Task) /\ Len(Group.sets) \in Nat /\ Len(Groups(Pipe)) \in Nat
      /\ job.group \in 1..Len(Groups(Pipe))
  BY <1>1, TheJob
<1>3. CASE Fails(job.task, Result.err) \/ Finishes(job.task)
  <2>1. job' = NoJob /\ left' \subseteq left /\ outcome' \in {outcome, "killed"}
    BY <1>3 DEF Fails, Finishes
  <2>2. QED BY <1>1, <2>1, EndCloser
<1>4. CASE /\ job.writing < Len(Group.sets)
           /\ job' = [job EXCEPT !.writing = @ + 1] /\ UNCHANGED <<left, outcome>>
  <2>1. /\ DOMAIN job' = DOMAIN job /\ job'.task = job.task /\ job'.group = job.group
        /\ job'.writing = job.writing + 1
    BY <1>2, <1>4 DEF JobOK
  <2>2. job' # NoJob /\ job.writing \in 0..Len(Group.sets)
    BY <1>2, <2>1 DEF JobOK, NoJob, Group
  <2>3. Pipe' = Pipe /\ Group' = Group
    BY <1>1, <2>1 DEF Pipe, Task, Group
  <2>4. GroupsLeft' = GroupsLeft /\ SetsLeft' < SetsLeft
    BY <1>1, <1>2, <2>1, <2>2, <2>3 DEF GroupsLeft, SetsLeft
  <2>5. QED BY <1>1, <1>4, <2>1, <2>2, <2>4, StepCloser
<1>5. CASE /\ job.group < Len(Groups(Pipe))
           /\ job' = AtGroup(job.task, Pipe, job.docs, job.group + 1) /\ UNCHANGED <<left, outcome>>
  <2>1. job'.task = job.task /\ job'.group = job.group + 1 /\ DOMAIN job' # {"task"}
    BY <1>5 DEF AtGroup
  <2>2. job' # NoJob
    BY <2>1 DEF NoJob
  <2>3. Pipe' = Pipe
    BY <1>1, <2>1 DEF Pipe, Task
  <2>4. GroupsLeft' < GroupsLeft
    BY <1>1, <1>2, <2>1, <2>2, <2>3 DEF GroupsLeft
  <2>5. QED BY <1>1, <1>5, <2>1, <2>2, <2>4, StepCloser
<1>6. QED BY <1>3, <1>4, <1>5, WriteDatasetMoves

LEMMA StepAdvances ==
  ASSUME PipeInv, PipeInv', RankOK, RankOK', [PipeNext]_pipeVars
  PROVE  Closer \/ UNCHANGED pipeVars
<1>1. CASE Expand \/ ExpandFault \/ StageOver
  BY <1>1, DriverCloser
<1>2. CASE NeverRun
  BY <1>2, NeverRunCloser
<1>3. ASSUME NEW k \in left, Begin(k) \/ BeginFault(k) PROVE Closer
  BY <1>3, BeginCloser
<1>4. CASE UnknownSource \/ WriteFault
  <2>1. PICK err : Fails(job.task, err)
    BY <1>4 DEF UnknownSource, WriteFault
  <2>2. job # NoJob /\ UNCHANGED <<config, stage, tries>>
    BY <1>4 DEF UnknownSource, WriteFault
  <2>3. job' = NoJob /\ left' \subseteq left /\ outcome' \in {outcome, "killed"}
    BY <2>1 DEF Fails
  <2>4. QED BY <2>2, <2>3, EndCloser
<1>5. CASE ScanRecord
  BY <1>5, ScanRecordCloser
<1>6. CASE WriteDataset
  BY <1>6, WriteDatasetCloser
<1>7. QED BY <1>1, <1>2, <1>3, <1>4, <1>5, <1>6 DEF PipeNext, Works, Ended

\* Each step brings the run nearer to its end: a stage, a run of a task, a group, a
\* dataset or a record is done, and none of them is gone back to without one before it
\* in this order being used up (run_scheduled, EtlHook, RecordScanner). So every run of
\* the data path ends, whatever fails and is tried again.
THEOREM StepsAdvance == ASSUME RenderIsText PROVE PipeSpec => RunAdvances
<1>1. PipeInv /\ PipeInv' /\ [PipeNext]_pipeVars => [Advance]_pipeVars
  <2> SUFFICES ASSUME PipeInv, PipeInv', [PipeNext]_pipeVars, ~ UNCHANGED pipeVars PROVE Advance
    OBVIOUS
  <2>1. RankOK /\ RankOK'
    BY RankInNat, RankInNatNext
  <2>2. Closer
    BY <2>1, StepAdvances
  <2>3. Nearer(Rank', Rank)
    BY <2>1, <2>2, CloserIsNearer
  <2>4. QED BY <2>3 DEF Advance
<1>2. QED BY <1>1, PipeInvariance, PTL DEF PipeSpec, RunAdvances


-----------------------------------------------------------------------------
(* The tables in memory.                                                   *)

\* No temporary table is there.
Clear(st, temps) == temps \cap DOMAIN st.mem = {}

\* An error is not the absence of one.
LEMMA SomethingSaid == \A words : Says(words) # <<>>
<1>1. \A x : <<x>> # <<>>
  OBVIOUS
<1>2. QED BY <1>1 DEF Says

\* create_and_append makes the table it is told to and no other.
LEMMA AppendClear ==
  ASSUME NEW st, StoreOK(st), NEW conn, NEW t, NEW cols, NEW n
  PROVE  LET result == CreateAndAppend(st, conn, t, cols, n)
         IN /\ result.err # <<>> => result.store = st
            /\ DOMAIN result.store = DOMAIN st
            /\ DOMAIN result.store.mem \subseteq DOMAIN st.mem \cup (IF conn = "mem" THEN {t} ELSE {})
<1>a. \A table : DOMAIN PutTable(st, conn, t, table) = DOMAIN st
  BY DEF PutTable
<1>1. \A table : DOMAIN PutTable(st, conn, t, table).mem
                   \subseteq DOMAIN st.mem \cup (IF conn = "mem" THEN {t} ELSE {})
  <2>1. ASSUME NEW table
        PROVE  DOMAIN PutTable(st, conn, t, table).mem
                   \subseteq DOMAIN st.mem \cup (IF conn = "mem" THEN {t} ELSE {})
    <3>1. "mem" \in DOMAIN st
      BY DEF StoreOK
    <3>2. DOMAIN Put(st.mem, t, table) \subseteq DOMAIN st.mem \cup {t}
      BY DEF Put, Merge
    <3>3. CASE conn = "mem"
      <4>1. PutTable(st, conn, t, table).mem = Put(st.mem, t, table)
        BY <3>1, <3>3 DEF PutTable
      <4>2. QED BY <3>2, <3>3, <4>1
    <3>4. CASE conn # "mem"
      <4>1. PutTable(st, conn, t, table).mem = st.mem
        BY <3>1, <3>4 DEF PutTable
      <4>2. QED BY <3>4, <4>1
    <3>5. QED BY <3>3, <3>4
  <2>2. QED BY <2>1
<1>2. \/ CreateAndAppend(st, conn, t, cols, n) = Failed(WriteError(t, cols), st)
      \/ \E table : CreateAndAppend(st, conn, t, cols, n) = Done(PutTable(st, conn, t, table))
  BY DEF CreateAndAppend
<1>3. QED BY <1>1, <1>2, <1>a DEF Failed, Done

\* A join leaves its temporary table only if the lookup itself failed.
LEMMA JoinClear ==
  ASSUME NEW st, StoreOK(st), NEW acc, NEW ds, NEW temps, TempTable(ds) \in temps, Clear(st, temps)
  PROVE  LET joined == JoinSteps(st, acc, ds)
         IN Clear(joined.store, temps) \/ joined.err = JoinError(ds)
<1> DEFINE n == AccRows(acc, ds)
           rid == [Column("__rid", "i64") EXCEPT !.cells = [r \in 1..n |-> I64(r - 1)]]
           cols == (IF HasRoot(ds) THEN <<>> ELSE acc.cols) \o <<acc.lk[1], rid>>
           t == TempTable(ds)
           written == CreateAndAppend(st, "mem", t, cols, n)
           j == ds.join[1]
           rows == LeftJoin(written.store, t, j.target, j.rightKey, j.columns)
<1>1. JoinSteps(st, acc, ds) = JoinWritten(written, ds)
  BY DEF JoinSteps
<1>2. /\ written.err # <<>> => written.store = st
      /\ DOMAIN written.store = DOMAIN st
      /\ DOMAIN written.store.mem \subseteq DOMAIN st.mem \cup {t}
  <2> HIDE DEF n, cols, t
  <2>1. QED BY AppendClear
<1> HIDE DEF written
<1>3. CASE written.err # <<>>
  <2>1. JoinSteps(st, acc, ds) = [err |-> written.err, store |-> written.store, rows |-> <<>>]
    BY <1>1, <1>3 DEF JoinWritten
  <2>2. JoinSteps(st, acc, ds).store = st
    BY <1>2, <1>3, <2>1
  <2>3. QED BY <2>2
<1>4. CASE written.err = <<>> /\ rows = <<>>
  <2> DEFINE e == JoinError(ds)
  <2>1. JoinSteps(st, acc, ds) = [err |-> e, store |-> written.store, rows |-> <<>>]
    BY <1>1, <1>4 DEF JoinWritten, JoinDropped
  <2> HIDE DEF e
  <2>2. JoinSteps(st, acc, ds).err = e
    BY <2>1
  <2>3. QED BY <2>2 DEF e
<1>5. CASE written.err = <<>> /\ rows # <<>>
  <2>1. JoinSteps(st, acc, ds).store = DropTable(written.store, t)
    BY <1>1, <1>5 DEF JoinWritten, JoinDropped
  <2>2. "mem" \in DOMAIN written.store
    BY <1>2 DEF StoreOK
  <2>3. DOMAIN DropTable(written.store, t).mem = DOMAIN written.store.mem \ {t}
    BY <2>2 DEF DropTable
  <2>4. QED BY <1>2, <2>1, <2>3 DEF Clear
<1>6. QED BY <1>3, <1>4, <1>5

\* Writing a dataset leaves a temporary table only if that is the dataset's target.
LEMMA TargetClear ==
  ASSUME NEW st, StoreOK(st), NEW t, NEW ds, NEW cols, NEW temps, Clear(st, temps),
         LET uri == TaskUri(t, ds.to) IN Conn(uri) = "mem" => NameIn(uri, ds.name) \notin temps
  PROVE  Clear(WriteTarget(st, t, ds, cols).store, temps)
<1> DEFINE uri == TaskUri(t, ds.to)
           table == CreateAndAppend(st, Conn(uri), NameIn(uri, ds.name), cols, RowCount(cols))
<1>1. CASE uri.scheme # "file"
  <2>1. WriteTarget(st, t, ds, cols) = table
    BY <1>1 DEF WriteTarget
  <2>2. DOMAIN table.store.mem \subseteq
          DOMAIN st.mem \cup (IF Conn(uri) = "mem" THEN {NameIn(uri, ds.name)} ELSE {})
    <3> HIDE DEF uri
    <3>1. QED BY AppendClear
  <2> HIDE DEF table, uri
  <2>3. QED BY <2>1, <2>2 DEF Clear, uri
<1>2. CASE uri.scheme = "file"
  <2>1. \A files : [st EXCEPT !.files = files].mem = st.mem
    BY DEF StoreOK
  <2>2. WriteTarget(st, t, ds, cols).store.mem = st.mem
    BY <1>2, <2>1 DEF WriteTarget, WriteFiles, Done, Failed
  <2>3. QED BY <2>2 DEF Clear
<1>3. QED BY <1>1, <1>2

\* A dataset leaves a temporary table only when its join failed.
LEMMA AssembledClear ==
  ASSUME NEW st, StoreOK(st), NEW t, NEW acc, NEW ds, AccInv(acc, ds), IsSeq(ds.fields),
         NEW temps, TempTable(ds) \in temps, Clear(st, temps),
         LET uri == TaskUri(t, ds.to) IN Conn(uri) = "mem" => NameIn(uri, ds.name) \notin temps
  PROVE  LET result == Assembled(st, t, acc, ds)
         IN Clear(result.store, temps) \/ (ds.join # <<>> /\ result.err = JoinError(ds))
<1> DEFINE joined == IF ds.join # <<>> /\ AccRows(acc, ds) > 0 THEN JoinSteps(st, acc, ds)
                     ELSE [err |-> <<>>, store |-> st, rows |-> <<>>]
           cols == OutColumns(acc, ds, joined.rows, TaskValue(t))
           target == WriteTarget(joined.store, t, ds, cols)
<1>1. /\ Clear(joined.store, temps) \/ (ds.join # <<>> /\ joined.err = JoinError(ds))
      /\ StoreOK(joined.store)
  BY JoinClear, JoinKeeps
<1>2. Assembled(st, t, acc, ds) = WriteJoined(joined, t, acc, ds)
  BY DEF Assembled
<1> HIDE DEF joined
<1>3. WriteJoined(joined, t, acc, ds) = target \/ \E e : WriteJoined(joined, t, acc, ds) = Failed(e, joined.store)
  BY DEF WriteJoined
<1>4. joined.err # <<>> => WriteJoined(joined, t, acc, ds) = Failed(joined.err, joined.store)
  BY DEF WriteJoined
<1>5. CASE Clear(joined.store, temps)
  <2>1. Clear(target.store, temps)
    BY <1>1, <1>5, TargetClear
  <2> HIDE DEF target
  <2>2. Clear(WriteJoined(joined, t, acc, ds).store, temps)
    BY <1>3, <1>5, <2>1 DEF Failed
  <2>3. QED BY <1>2, <2>2
<1>6. CASE ds.join # <<>> /\ joined.err = JoinError(ds)
  <2> DEFINE e == JoinError(ds)
  <2>2. e # <<>>
    BY SomethingSaid DEF JoinError
  <2> HIDE DEF e
  <2>3. ds.join # <<>> /\ joined.err = e
    BY <1>6 DEF e
  <2>4. Assembled(st, t, acc, ds) = [err |-> e, store |-> joined.store]
    BY <1>2, <1>4, <2>2, <2>3 DEF Failed
  <2>5. Assembled(st, t, acc, ds).err = e
    BY <2>4
  <2>6. QED BY <2>3, <2>5 DEF e
<1>7. QED BY <1>1, <1>5, <1>6

-----------------------------------------------------------------------------
(* The temporary tables.                                                   *)

\* The conditions of the theorem below.
Clean == JoinErrorsAreHard(plan) /\ NoTargetIsTemporary(config, plan)

\* Until a run fails for good there is no temporary table between two steps.
GoneInv ==
  /\ stage = 0 => outcome # "ok" /\ store.mem = <<>>
  /\ Clean /\ outcome \in {"running", "ok"} => Clear(store, TempTables(config))

\* Under the two conditions a dataset leaves no temporary table, or fails for good.
LEMMA ResultClear ==
  ASSUME PipeInv, Clean, Clear(store, TempTables(config)), job # NoJob, job.writing > 0
  PROVE  \/ Clear(Result.store, TempTables(config))
         \/ Result.err # <<>> /\ ~ IsRetryable(Task, Result.err)
<1> DEFINE d == job.writing
           ds == GroupSet(d)
           acc == job.accs[d]
<1>1. /\ JobOK(Pipe, job) /\ Len(Group.sets) \in Nat /\ DOMAIN Group.sets = 1..Len(Group.sets)
      /\ \A e \in DOMAIN Group.sets : Group.sets[e] \in DOMAIN Pipe.datasets /\ DatasetOK(GroupSet(e))
                                       /\ TempTable(GroupSet(e)) \in TempTables(config)
      /\ stage # 0 /\ job.task \in DOMAIN tries
  BY TheJob
<1>2. d \in DOMAIN Group.sets /\ AccInv(acc, ds)
  <2>1. d \in 0..Len(Group.sets) /\ DOMAIN job.accs = DOMAIN Group.sets
    BY <1>1 DEF JobOK, Group
  <2>2. d \in DOMAIN Group.sets
    BY <1>1, <2>1
  <2>3. QED BY <1>1, <2>1, <2>2 DEF JobOK, Group, GroupSet
<1>3. IsSeq(ds.fields) /\ TempTable(ds) \in TempTables(config) /\ StoreOK(store)
  BY <1>1, <1>2 DEF DatasetOK, PipeInv
<1>4. stage \in DOMAIN plan /\ job.task \in DOMAIN plan[stage]
  BY <1>1, TheStage
<1>5. Group.sets[d] \in DOMAIN plan[stage][job.task].pipe.datasets
  BY <1>1, <1>2 DEF Pipe, Task
<1>6. LET uri == TaskUri(Task, ds.to) IN Conn(uri) = "mem" => NameIn(uri, ds.name) \notin TempTables(config)
  BY <1>4, <1>5 DEF Clean, NoTargetIsTemporary, GroupSet, Pipe, Task
<1>7. ds.join # <<>> => ~ IsRetryable(Task, JoinError(ds))
  BY <1>4, <1>5 DEF Clean, JoinErrorsAreHard, GroupSet, Pipe, Task
<1> DEFINE task == Task
           temps == TempTables(config)
<1> HIDE DEF d, ds, acc, task, temps
<1>8. \/ Clear(Assembled(store, task, acc, ds).store, temps)
      \/ ds.join # <<>> /\ Assembled(store, task, acc, ds).err = JoinError(ds)
  BY <1>2, <1>3, <1>6, AssembledClear DEF task, temps
<1>9. Result = Assembled(store, task, acc, ds)
  BY DEF Result, task, acc, ds, d
<1>10. JoinError(ds) # <<>>
  BY SomethingSaid DEF JoinError
<1>11. QED BY <1>7, <1>8, <1>9, <1>10 DEF task, temps

\* A step of the run that holds the store leaves no temporary table, or ends the run.
LEMMA WriteClear ==
  ASSUME PipeInv, Clean, Clear(store, TempTables(config)), WriteDataset
  PROVE  outcome' \in {"running", "ok"} => Clear(store', TempTables(config))
<1>1. job # NoJob /\ job.writing > 0 /\ store' = Result.store
  BY WriteDatasetMoves
<1>2. CASE Clear(Result.store, TempTables(config))
  BY <1>1, <1>2
<1>3. CASE ~ Clear(Result.store, TempTables(config))
  <2>1. Result.err # <<>> /\ ~ IsRetryable(Task, Result.err)
    BY <1>1, <1>3, ResultClear
  <2>2. Result.err # <<>>
    BY <2>1
  <2>3. Fails(job.task, Result.err)
    BY <2>2, WriteDatasetMoves
  <2>4. outcome' = "killed"
    BY <2>1, <2>3 DEF Fails, Task
  <2>5. QED BY <2>4
<1>4. QED BY <1>2, <1>3

LEMMA WriteFaultClear ==
  ASSUME PipeInv, Clean, Clear(store, TempTables(config)), WriteFault
  PROVE  Clear(store', TempTables(config))
<1>1. job # NoJob /\ job.writing > 0
  BY DEF WriteFault
<1>2. \E files : store' = [Result.store EXCEPT !.files = files] /\ Result.err = <<>>
  <2>1. \E result \in {Result} : \E new \in {Changed(store.files, result.store.files)} :
          \E torn \in {{}} \cup {{p} : p \in new} : \E done \in SUBSET (new \ torn) :
            /\ result.err = <<>>
            /\ store' = [result.store EXCEPT !.files = CutShort(store.files, @, done, torn)]
    BY DEF WriteFault, Result
  <2>2. QED BY <2>1
<1>3. StoreOK(Result.store)
  BY <1>1, ResultKeeps
<1>4. store'.mem = Result.store.mem /\ Result.err = <<>>
  BY <1>2, <1>3 DEF StoreOK
<1>5. Clear(Result.store, TempTables(config))
  BY <1>1, <1>4, ResultClear
<1>6. QED BY <1>4, <1>5 DEF Clear

\* Every step keeps GoneInv.
LEMMA GoneStep ==
  ASSUME PipeInv, GoneInv, [PipeNext]_pipeVars
  PROVE  GoneInv'
<1>1. stage' = 0 => outcome' # "ok" /\ store'.mem = <<>>
  <2>1. SUFFICES ASSUME stage' = 0 PROVE outcome' # "ok" /\ store'.mem = <<>>
    OBVIOUS
  <2>2. stage = 0
    <3>1. SUFFICES ASSUME stage # 0 PROVE FALSE
      OBVIOUS
    <3>2. stage' = stage \/ (stage' = stage + 1 /\ stage \in Nat)
      <4>1. stage \in Nat
        BY <3>1, TheStage
      <4>2. stage' = stage \/ stage' = stage + 1
        BY <3>1 DEF PipeNext, Works, Ended, pipeVars, Expand, ExpandFault, StageOver, EnterStage, NeverRun,
                    Begin, BeginFault, UnknownSource, ScanRecord, WriteDataset, WriteFault
      <4>3. QED BY <4>1, <4>2
    <3>3. QED BY <2>1, <3>1, <3>2
  <2>3. left = {} /\ job = NoJob /\ outcome # "ok" /\ store.mem = <<>>
    BY <2>2 DEF GoneInv, PipeInv, PlanInv
  <2>4. store' = store /\ outcome' # "ok"
    BY <2>2, <2>3 DEF PipeNext, Works, Ended, pipeVars, Expand, ExpandFault, StageOver, NeverRun,
                      UnknownSource, ScanRecord, WriteDataset, WriteFault
  <2>5. QED BY <2>3, <2>4
<1>2. ASSUME Clean', outcome' \in {"running", "ok"} PROVE Clear(store, TempTables(config))'
  <2>1. config' = config
    BY DEF PipeNext, Works, Ended, pipeVars, Expand, ExpandFault, StageOver, NeverRun,
           Begin, BeginFault, UnknownSource, ScanRecord, WriteDataset, WriteFault
  <2>2. CASE Expand
    <3>1. stage = 0 /\ store' = store
      BY <2>2 DEF Expand
    <3>2. store'.mem = <<>>
      BY <3>1 DEF GoneInv
    <3>3. DOMAIN store'.mem = {}
      BY <3>2, NoElements
    <3>4. QED BY <3>3 DEF Clear
  <2>3. CASE ~ Expand
    <3>1. plan' = plan
      BY <2>3 DEF PipeNext, Works, Ended, pipeVars, ExpandFault, StageOver, NeverRun,
                  Begin, BeginFault, UnknownSource, ScanRecord, WriteDataset, WriteFault
    <3>2. Clean
      BY <1>2, <2>1, <3>1 DEF Clean, JoinErrorsAreHard, NoTargetIsTemporary
    <3>3. outcome \in {"running", "ok"}
      BY <1>2, <2>3 DEF PipeNext, Works, Ended, pipeVars, ExpandFault, StageOver, NeverRun,
                  Begin, BeginFault, UnknownSource, ScanRecord, WriteDataset, WriteFault, Fails, Finishes
    <3>4. Clear(store, TempTables(config))
      BY <3>2, <3>3 DEF GoneInv
    <3>5. CASE WriteDataset
      BY <1>2, <2>1, <3>2, <3>4, <3>5, WriteClear
    <3>6. CASE WriteFault
      BY <2>1, <3>2, <3>4, <3>6, WriteFaultClear
    <3>7. CASE store' = store
      BY <2>1, <3>4, <3>7
    <3>8. \/ WriteDataset \/ WriteFault \/ store' = store
      BY <2>3 DEF PipeNext, Works, Ended, pipeVars, ExpandFault, StageOver, NeverRun, Begin, BeginFault,
             UnknownSource, ScanRecord
    <3>9. QED BY <3>5, <3>6, <3>7, <3>8
  <2>4. QED BY <2>2, <2>3
<1>3. QED BY <1>1, <1>2 DEF GoneInv

LEMMA GoneInit == PipeInit => GoneInv
<1> SUFFICES ASSUME PipeInit PROVE GoneInv
  OBVIOUS
<1>1. store.mem = <<>> /\ outcome = "running"
  BY DEF PipeInit
<1>2. DOMAIN store.mem = {}
  BY <1>1, NoElements
<1>3. QED BY <1>1, <1>2 DEF GoneInv, Clear

\* The datasets that are made are the configuration's.
LEMMA MakesTemps ==
  ASSUME ConfigOK(config),
         \A s \in DOMAIN Stages(config) : \A n \in DOMAIN Stages(config)[s] :
           Named(config.pipelines, Stages(config)[s][n].pipeline) # {}
  PROVE  \A m \in Range(Makes(config)) : TempTable(m.ds) \in TempTables(config)
<1> DEFINE stages == Stages(config)
           Pipeline1(s, n) == FirstNamed(config.pipelines, stages[s][n].pipeline)
           Made(s, n) == [d \in DOMAIN Pipeline1(s, n).datasets |->
                            [stage |-> s, pipe |-> Pipeline1(s, n), ds |-> Pipeline1(s, n).datasets[d],
                             node |-> stages[s][n]]]
           Inner(s) == [n \in DOMAIN stages[s] |-> Made(s, n)]
           Outer == [s \in DOMAIN stages |-> FlattenSeq(Inner(s))]
           All == UNION {UNION {Range(Made(s, n)) : n \in DOMAIN stages[s]} : s \in DOMAIN stages}
           S == {m \in All : TempTable(m.ds) \in TempTables(config)}
<1>1. Makes(config) = FlattenSeq(Outer)
  BY DEF Makes
<1>2. /\ IsSeq(stages) /\ \A s \in DOMAIN stages : IsSeq(stages[s])
  BY StagesAre
<1>3. ASSUME NEW s \in DOMAIN stages, NEW n \in DOMAIN stages[s]
      PROVE  Made(s, n) \in Seq(S)
  <2> DEFINE name == stages[s][n].pipeline
             p == Min(Named(config.pipelines, name))
  <2>1. p \in DOMAIN config.pipelines /\ IsSeq(config.pipelines)
    BY NamedOne DEF ConfigOK
  <2>2. Pipeline1(s, n) = config.pipelines[p]
    BY DEF FirstNamed
  <2> HIDE DEF p
  <2>3. PipelineOK(Pipeline1(s, n))
    BY <2>1, <2>2 DEF ConfigOK, Range
  <2>4. \A d \in DOMAIN Pipeline1(s, n).datasets : TempTable(Pipeline1(s, n).datasets[d]) \in TempTables(config)
    BY <2>1, <2>2 DEF TempTables
  <2> HIDE DEF Pipeline1
  <2>5. IsSeq(Made(s, n))
    BY <2>3, SeqShape, SeqIntro DEF PipelineOK
  <2>6. \A d \in DOMAIN Made(s, n) : TempTable(Made(s, n)[d].ds) \in TempTables(config)
    BY <2>4
  <2> HIDE DEF Made, stages
  <2>7. \A d \in DOMAIN Made(s, n) : Made(s, n)[d] \in S
    <3>1. ASSUME NEW d \in DOMAIN Made(s, n) PROVE Made(s, n)[d] \in All
      <4>1. Made(s, n)[d] \in Range(Made(s, n))
        BY DEF Range
      <4>2. Made(s, n)[d] \in UNION {Range(Made(s, r)) : r \in DOMAIN stages[s]}
        BY <4>1
      <4>3. QED BY <4>2
    <3>2. QED BY <2>6, <3>1
  <2> HIDE DEF S
  <2>8. QED BY <2>5, <2>7, SeqInSet
<1>4. \A m \in S : TempTable(m.ds) \in TempTables(config)
  OBVIOUS
<1> HIDE DEF Made, S, All, stages
<1>5. ASSUME NEW s \in DOMAIN stages PROVE FlattenSeq(Inner(s)) \in Seq(S)
  <2> DEFINE inner == Inner(s)
  <2>1. IsSeq(inner) /\ DOMAIN inner = DOMAIN stages[s]
    BY <1>2, SeqShape, SeqIntro
  <2>2. \A n \in DOMAIN inner : inner[n] \in Seq(S)
    BY <1>3, <2>1
  <2> HIDE DEF inner
  <2>3. FlattenSeq(inner) \in Seq(S)
    BY <2>1, <2>2, Flatten
  <2>4. QED BY <2>3 DEF inner
<1> HIDE DEF Inner
<1>6. FlattenSeq(Outer) \in Seq(S)
  <2>1. IsSeq(Outer) /\ DOMAIN Outer = DOMAIN stages
    BY <1>2, SeqShape, SeqIntro
  <2>2. \A s \in DOMAIN Outer : Outer[s] \in Seq(S)
    BY <1>5, <2>1
  <2> HIDE DEF Outer
  <2>3. QED BY <2>1, <2>2, Flatten
<1> HIDE DEF Outer
<1>7. Range(Makes(config)) \subseteq S
  BY <1>1, <1>6, SeqOfSet
<1>8. QED BY <1>4, <1>7

\* The temporary tables of the datasets made are temporary tables of the configuration.
LEMMA GoneIsGone == PipeInv /\ GoneInv => (Clean => NoTempTableLeft)
<1> SUFFICES ASSUME PipeInv, GoneInv, Clean PROVE NoTempTableLeft
  OBVIOUS
<1>1. SUFFICES ASSUME outcome = "ok" PROVE \A m \in Range(Makes(config)) : TempTable(m.ds) \notin DOMAIN store.mem
  BY DEF NoTempTableLeft
<1>2. stage # 0 /\ Clear(store, TempTables(config))
  BY <1>1 DEF GoneInv
<1>3. \A s \in DOMAIN Stages(config) : \A n \in DOMAIN Stages(config)[s] :
        Named(config.pipelines, Stages(config)[s][n].pipeline) # {}
  BY <1>2 DEF PipeInv, PlanInv
<1>4. ConfigOK(config)
  BY ConfigsAssumption DEF PipeInv
<1>5. QED BY <1>2, <1>3, <1>4, MakesTemps DEF Clear

\* A run that ends well leaves no temporary table of a join in the shared store
\* (assemble_and_write, drop_table), provided that the error of a join is not one the
\* worker tries again, and that no dataset is written to a table with the name of a
\* temporary one.
THEOREM TempTablesGone == ASSUME RenderIsText PROVE
  PipeSpec => [](JoinErrorsAreHard(plan) /\ NoTargetIsTemporary(config, plan) => NoTempTableLeft)
<1>1. PipeInv /\ GoneInv /\ [PipeNext]_pipeVars => GoneInv'
  BY GoneStep
<1>2. QED BY <1>1, GoneInit, GoneIsGone, PipeInvariance, PTL DEF PipeSpec, Clean

-----------------------------------------------------------------------------
(* A fan-out shares its universe out.                                      *)

\* The first a + l values are the first a and the l that follow.
LEMMA SplitMap ==
  ASSUME NEW v, NEW a \in Nat, NEW l \in Nat
  PROVE  [u \in 1..(a + l) |-> v[u]] = [u \in 1..a |-> v[u]] \o [u \in 1..l |-> v[a + u]]
<1> DEFINE x == [u \in 1..a |-> v[u]]
           y == [u \in 1..l |-> v[a + u]]
<1>1. IsSeq(x) /\ Len(x) = a /\ \A u \in 1..a : x[u] = v[u]
  BY SeqIntro
<1>2. IsSeq(y) /\ Len(y) = l /\ \A u \in 1..l : y[u] = v[a + u]
  BY SeqIntro
<1> HIDE DEF x, y
<1>3. /\ IsSeq(x \o y) /\ Len(x \o y) = a + l
      /\ \A k \in 1..(a + l) : (x \o y)[k] = IF k <= a THEN x[k] ELSE y[k - a]
  <2>1. /\ IsSeq(x \o y) /\ Len(x \o y) = Len(x) + Len(y)
        /\ \A k \in 1..(Len(x) + Len(y)) : (x \o y)[k] = IF k <= Len(x) THEN x[k] ELSE y[k - Len(x)]
    BY <1>1, <1>2, Concat
  <2>2. QED BY <1>1, <1>2, <2>1
<1>4. ASSUME NEW k \in 1..(a + l) PROVE (x \o y)[k] = v[k]
  <2>1. CASE k <= a
    BY <1>1, <1>3, <2>1
  <2>2. CASE ~ (k <= a)
    <3>1. k - a \in 1..l /\ a + (k - a) = k
      BY <2>2
    <3>2. QED BY <1>2, <1>3, <2>2, <3>1
  <2>3. QED BY <2>1, <2>2
<1>5. x \o y = [k \in 1..(a + l) |-> (x \o y)[k]]
  BY <1>3, SeqShape
<1>6. QED BY <1>4, <1>5 DEF x, y

\* The chunks that are not empty are the first ones, as many as there are values if these
\* are fewer than the chunks.
LEMMA UsedChunks ==
  ASSUME NEW n \in Nat, NEW k \in Nat \ {0}
  PROVE  LET m == IF n < k THEN n ELSE k
         IN /\ m \in 0..k /\ ChunkStart(n, k, m) = n
            /\ \A c \in 1..k : ChunkLength(n, k, c - 1) > 0 <=> c <= m
<1> DEFINE q == n \div k
           r == n % k
<1>1. /\ q \in Nat /\ r \in Nat /\ r < k /\ n = k * q + r
      /\ \A c : /\ ChunkStart(n, k, c) = c * q + (IF c < r THEN c ELSE r)
                /\ ChunkLength(n, k, c) = q + (IF c < r THEN 1 ELSE 0)
  BY Division DEF ChunkStart, ChunkLength
<1> HIDE DEF q, r
<1>2. CASE n < k
  <2>1. q = 0
    <3>1. q # 0 => k * q >= k
      <4>1. SUFFICES ASSUME q # 0 PROVE k * q >= k
        OBVIOUS
      <4>2. q - 1 \in Nat /\ q = (q - 1) + 1
        BY <1>1, <4>1
      <4>3. k * q = k * (q - 1) + k /\ k * (q - 1) \in Nat
        BY <4>2
      <4>4. QED BY <4>3
    <3>2. QED BY <1>1, <1>2, <3>1
  <2>2. r = n
    BY <1>1, <2>1
  <2>3. ChunkStart(n, k, n) = n
    BY <1>1, <2>1, <2>2
  <2>4. \A c \in 1..k : ChunkLength(n, k, c - 1) > 0 <=> c <= n
    BY <1>1, <2>1, <2>2
  <2>5. QED BY <1>2, <2>3, <2>4
<1>3. CASE ~ (n < k)
  <2>1. q > 0
    BY <1>1, <1>3
  <2>2. \A c \in 1..k : ChunkLength(n, k, c - 1) > 0 /\ c <= k
    BY <1>1, <2>1
  <2>3. ChunkStart(n, k, k) = n
    BY RunningIndex
  <2>4. QED BY <1>3, <2>2, <2>3
<1>4. QED BY <1>2, <1>3

\* Chunk c has the values after those of the chunks before it.
LEMMA ChunkIs ==
  ASSUME NEW units, IsSeq(units), NEW w \in Nat \ {0}, NEW c \in 1..w
  PROVE  LET n == Len(units)
             chunk == ChunkEvenly(units, w)[c]
         IN /\ IsSeq(chunk) /\ Len(chunk) = ChunkLength(n, w, c - 1) /\ Len(chunk) \in Nat
            /\ ChunkStart(n, w, c - 1) \in Nat
            /\ ChunkStart(n, w, c) = ChunkStart(n, w, c - 1) + Len(chunk)
            /\ \A u \in 1..Len(chunk) : chunk[u] = units[ChunkStart(n, w, c - 1) + u]
<1> DEFINE V == Range(units)
           n == Len(units)
           chunk == ChunkEvenly(units, w)[c]
<1>1. units \in Seq(V) /\ n \in Nat
  BY SeqShape
<1>2. c - 1 \in 0..(w - 1) /\ (c - 1) + 1 = c /\ c - 1 \in Nat
  OBVIOUS
<1> HIDE DEF V
<1>3. /\ chunk \in Seq(V) /\ Len(chunk) = ChunkLength(n, w, c - 1)
      /\ \A u \in 1..Len(chunk) : chunk[u] = units[ChunkStart(n, w, c - 1) + u]
  <2> DEFINE d == c - 1
  <2>1. d \in 0..(w - 1) /\ d + 1 = c
    BY <1>2
  <2> HIDE DEF d
  <2>2. LET x == ChunkEvenly(units, w)[d + 1]
        IN /\ x \in Seq(V) /\ Len(x) = ChunkLength(n, w, d)
           /\ \A u \in 1..Len(x) : x[u] = units[ChunkStart(n, w, d) + u]
    BY <1>1, <2>1, ChunkValues
  <2>3. QED BY <2>1, <2>2 DEF d
<1>4. /\ ChunkStart(n, w, c - 1) \in Nat /\ ChunkLength(n, w, c - 1) \in Nat
      /\ ChunkStart(n, w, (c - 1) + 1) = ChunkStart(n, w, c - 1) + ChunkLength(n, w, c - 1)
  <2> DEFINE d == c - 1
  <2>1. d \in Nat
    BY <1>2
  <2>2. \A e \in Nat : /\ ChunkStart(n, w, e) \in Nat /\ ChunkLength(n, w, e) \in Nat
                        /\ ChunkStart(n, w, e + 1) = ChunkStart(n, w, e) + ChunkLength(n, w, e)
    <3> HIDE DEF n
    <3>1. QED BY <1>1, RunningIndex
  <2> HIDE DEF d, n
  <2>3. /\ ChunkStart(n, w, d) \in Nat /\ ChunkLength(n, w, d) \in Nat
        /\ ChunkStart(n, w, d + 1) = ChunkStart(n, w, d) + ChunkLength(n, w, d)
    BY <2>1, <2>2
  <2>4. QED BY <2>3 DEF d
<1>5. IsSeq(chunk)
  <2> HIDE DEF chunk
  <2>1. QED BY <1>3, SeqOfSet
<1>6. QED BY <1>2, <1>3, <1>4, <1>5

\* The tasks of a fan-out have its values, in order and as evenly as can be.
LEMMA FanOutShares ==
  ASSUME NEW cf, NEW s, NEW node, NEW units, IsSeq(units),
         node.partition[1].workers \in Nat \ {0}
  PROVE  LET tasks == FanOutTasks(cf, s, node, units)
         IN /\ IsSeq(tasks) /\ \A k \in DOMAIN tasks : tasks[k].pipeline = node.pipeline
            /\ SharedOut(tasks, units, node.partition[1].workers)
<1> DEFINE part == node.partition[1]
           w == part.workers
           n == Len(units)
           m == IF n < w THEN n ELSE w
           chunks == ChunkEvenly(units, w)
           OfChunk(c) == [stage |-> s, pipeline |-> node.pipeline, index |-> c - 1,
                          ctx |-> ChunkCtx(chunks[c], c - 1, w),
                          pipe |-> Filtered(FirstNamed(cf.pipelines, node.pipeline), part.field)]
           used == Those([c \in 1..w |-> c], {c \in 1..w : chunks[c] # <<>>})
           tasks == [k \in DOMAIN used |-> OfChunk(used[k])]
           Start(i) == ChunkStart(n, w, i)
<1>1. FanOutTasks(cf, s, node, units) = tasks
  BY DEF FanOutTasks
<1>2. n \in Nat /\ w \in Nat \ {0} /\ DOMAIN units = 1..n
  BY SeqShape
<1>3. \A c \in 1..w : /\ IsSeq(chunks[c]) /\ Len(chunks[c]) = ChunkLength(n, w, c - 1)
                      /\ Len(chunks[c]) \in Nat /\ Start(c - 1) \in Nat
                      /\ Start(c) = Start(c - 1) + Len(chunks[c])
                      /\ \A u \in 1..Len(chunks[c]) : chunks[c][u] = units[Start(c - 1) + u]
  <2> HIDE DEF w, n
  <2>1. QED BY <1>2, ChunkIs DEF n
<1>4. /\ m \in 0..w /\ Start(m) = n /\ Start(0) = 0
      /\ \A c \in 1..w : ChunkLength(n, w, c - 1) > 0 <=> c <= m
  <2> HIDE DEF w, n
  <2>1. QED BY <1>2, UsedChunks, RunningIndex
<1> HIDE DEF part, w, n, m, chunks, OfChunk, Start
<1>5. used = [c \in 1..m |-> c]
  <2>1. \A c \in 1..w : chunks[c] # <<>> <=> c <= m
    BY <1>3, <1>4, EmptyLen
  <2>2. {c \in 1..w : chunks[c] # <<>>} = 1..m
    BY <1>2, <1>4, <2>1
  <2>3. QED BY <1>2, <1>4, <2>2, ThoseFirst
<1>6. tasks = [k \in 1..m |-> OfChunk(k)]
  BY <1>5
<1>7. m \in Nat /\ \A k \in 1..m : k \in 1..w
  BY <1>2, <1>4
<1> HIDE DEF used, tasks
<1>8. IsSeq(tasks) /\ Len(tasks) = m /\ DOMAIN tasks = 1..m /\ \A k \in 1..m : tasks[k] = OfChunk(k)
  BY <1>6, <1>7, SeqIntro
<1>9. ASSUME NEW k \in 1..m
      PROVE  UnitsOf(tasks[k]) = [u \in 1..Len(chunks[k]) |-> Str(units[Start(k - 1) + u])]
  <2> DEFINE c == chunks[k]
             us == [u \in DOMAIN c |-> Str(c[u])]
             ctx == [units |-> Arr(us), partition |-> Obj([index |-> I64(k - 1), of |-> I64(w)])]
  <2>1. IsSeq(c) /\ DOMAIN c = 1..Len(c) /\ Len(c) \in Nat
    BY <1>3, <1>7, SeqShape
  <2>2. IsSeq(us)
    BY <2>1, SeqIntro
  <2>3. tasks[k].ctx = Obj(ctx)
    BY <1>8 DEF OfChunk, ChunkCtx
  <2>4. \A u \in 1..Len(c) : c[u] = units[Start(k - 1) + u]
    BY <1>3, <1>7
  <2>5. us = [u \in 1..Len(c) |-> Str(units[Start(k - 1) + u])]
    BY <2>1, <2>4
  <2>6. ctx["units"] = Arr(us) /\ "units" \in DOMAIN ctx
    OBVIOUS
  <2> HIDE DEF us, ctx
  <2>7. Get(Obj(ctx), "units") = <<Arr(us)>>
    BY <2>6 DEF Get, Obj
  <2>8. Elements(Arr(us)) = us
    BY <2>2 DEF Elements, IsArr, Arr
  <2>9. UnitsOf(tasks[k]) = us
    BY <2>3, <2>7, <2>8 DEF UnitsOf
  <2>10. QED BY <2>5, <2>9
<1> DEFINE ss == [k \in DOMAIN tasks |-> UnitsOf(tasks[k])]
           v == [u \in 1..n |-> Str(units[u])]
           g == [i \in 0..m |-> [u \in 1..Start(i) |-> Str(units[u])]]
<1>10. FlattenSeq(ss) = v
  <2>1. IsSeq(ss) /\ Len(ss) = m /\ DOMAIN ss = 1..m
    BY <1>7, <1>8, SeqIntro
  <2>2. \A k \in DOMAIN ss : IsSeq(ss[k])
    <3>1. ASSUME NEW k \in 1..m PROVE IsSeq(UnitsOf(tasks[k]))
      BY <1>3, <1>7, <1>9, SeqIntro
    <3>2. QED BY <1>8, <3>1
  <2>3. g[0] = <<>>
    <3>1. [u \in 1..0 |-> Str(units[u])] = <<>>
      BY SeqIntro, EmptyLen
    <3>2. QED BY <1>4, <1>7, <3>1
  <2>4. ASSUME NEW i \in 1..m PROVE g[i] = g[i - 1] \o ss[i]
    <3> DEFINE x == [u \in Nat |-> Str(units[u])]
               a == Start(i - 1)
               l == Len(chunks[i])
    <3>1. a \in Nat /\ l \in Nat /\ Start(i) = a + l
      BY <1>3, <1>7
    <3>2. ss[i] = [u \in 1..l |-> Str(units[a + u])]
      BY <1>8, <1>9
    <3>3. g[i] = [u \in 1..(a + l) |-> Str(units[u])] /\ g[i - 1] = [u \in 1..a |-> Str(units[u])]
      BY <1>7, <3>1
    <3> HIDE DEF a, l, ss, g
    <3>4. /\ ss[i] = [u \in 1..l |-> x[a + u]] /\ g[i] = [u \in 1..(a + l) |-> x[u]]
          /\ g[i - 1] = [u \in 1..a |-> x[u]]
      BY <3>1, <3>2, <3>3
    <3> HIDE DEF x
    <3>5. QED BY <3>1, <3>4, SplitMap
  <2>5. g[m] = v
    BY <1>4, <1>7
  <2> HIDE DEF ss, g, v
  <2>6. FlattenSeq(ss) = g[Len(ss)]
    BY <2>1, <2>2, <2>3, <2>4, FlattenIs
  <2>7. QED BY <2>1, <2>5, <2>6
<1>11. Len(tasks) = Min({n, w})
  <2>1. {n, w} \in SUBSET Nat /\ {n, w} # {}
    BY <1>2
  <2>2. Min({n, w}) \in {n, w} /\ \A x \in {n, w} : Min({n, w}) <= x
    BY <2>1, MinOf
  <2>3. Min({n, w}) = m
    BY <1>2, <2>2 DEF m
  <2>4. QED BY <1>8, <2>3
<1>12. ASSUME NEW a \in DOMAIN tasks, NEW b \in DOMAIN tasks
       PROVE  Len(UnitsOf(tasks[a])) > 0 /\ Len(UnitsOf(tasks[a])) <= Len(UnitsOf(tasks[b])) + 1
  <2>1. ASSUME NEW k \in 1..m
        PROVE  Len(UnitsOf(tasks[k])) = ChunkLength(n, w, k - 1) /\ ChunkLength(n, w, k - 1) > 0
    <3>1. Len(UnitsOf(tasks[k])) = Len(chunks[k])
      BY <1>3, <1>7, <1>9, SeqIntro
    <3>2. QED BY <1>3, <1>4, <1>7, <3>1
  <2>2. \A k \in 1..m : /\ ChunkLength(n, w, k - 1) <= n \div w + 1
                        /\ ChunkLength(n, w, k - 1) >= n \div w
    BY <1>2, Division DEF ChunkLength
  <2>3. \A k \in 1..m : ChunkLength(n, w, k - 1) \in Nat /\ n \div w \in Nat
    BY <1>2, <1>3, <1>7, Division
  <2>4. a \in 1..m /\ b \in 1..m
    BY <1>8
  <2>5. QED BY <2>1, <2>2, <2>3, <2>4
<1>13. \A k \in DOMAIN tasks : tasks[k].pipeline = node.pipeline
  BY <1>8 DEF OfChunk
<1>14. SharedOut(tasks, units, w)
  BY <1>2, <1>10, <1>11, <1>12 DEF SharedOut, n
<1>15. QED BY <1>1, <1>8, <1>13, <1>14 DEF w, part

\* The plan is the expansion of the configuration against a new store.
PlanBuilt ==
  IF stage = 0 THEN store = NewStore ELSE BuildPlan(config, NewStore) = <<plan>>

\* Once made, the plan stays what it is.
LEMMA PlanLasts ==
  ASSUME PipeInv, stage # 0, [PipeNext]_pipeVars
  PROVE  stage' # 0 /\ config' = config /\ plan' = plan
<1>1. stage \in Nat
  BY TheStage
<1>2. \/ UNCHANGED <<config, plan, stage>>
      \/ UNCHANGED <<config, plan>> /\ stage' = stage + 1
  BY DEF PipeNext, Works, Ended, pipeVars, Expand, ExpandFault, StageOver, EnterStage, NeverRun, Begin,
         BeginFault, UnknownSource, ScanRecord, WriteDataset, WriteFault
<1>3. QED BY <1>1, <1>2

\* Every step keeps PlanBuilt: the store is still new when the plan is made.
LEMMA BuiltStep ==
  ASSUME PipeInv, PlanBuilt, [PipeNext]_pipeVars
  PROVE  PlanBuilt'
<1>1. CASE stage # 0
  BY <1>1, PlanLasts DEF PlanBuilt
<1>2. CASE stage = 0
  <2>1. left = {} /\ job = NoJob /\ store = NewStore
    BY <1>2 DEF PipeInv, PlanInv, PlanBuilt
  <2>2. \/ UNCHANGED <<store, stage>>
        \/ Expand
    BY <1>2, <2>1 DEF PipeNext, Works, Ended, pipeVars, ExpandFault, StageOver, NeverRun,
         UnknownSource, ScanRecord, WriteDataset, WriteFault
  <2>3. CASE UNCHANGED <<store, stage>>
    BY <1>2, <2>1, <2>3 DEF PlanBuilt, NewStore
  <2>4. CASE Expand
    <3> DEFINE built == BuildPlan(config, store)
    <3>1. config' = config /\ store' = store
      BY <2>4 DEF Expand
    <3>2. CASE UNCHANGED stage
      BY <2>3, <3>1, <3>2
    <3>3. CASE stage' # stage
      <4>1. built # <<>> /\ plan' = built[1] /\ stage' = 1
        BY <2>4, <3>3 DEF Expand, EnterStage
      <4>2. built = <<built[1]>>
        <5>1. built \in {<<>>, <<built[1]>>}
          BY DEF BuildPlan
        <5>2. QED BY <4>1, <5>1
      <4>3. NewStore' = NewStore
        BY DEF NewStore
      <4> HIDE DEF built
      <4>4. BuildPlan(config, NewStore) = built
        BY <2>1 DEF built
      <4>5. QED BY <3>1, <4>1, <4>2, <4>3, <4>4 DEF PlanBuilt
    <3>4. QED BY <3>2, <3>3
  <2>5. QED BY <2>2, <2>3, <2>4
<1>3. QED BY <1>1, <1>2

LEMMA BuiltInit == PipeInit => PlanBuilt
BY DEF PipeInit, PlanBuilt, NewStore

\* The values of a universe are a sequence.
LEMMA UnitsSeq ==
  ASSUME NEW doc, NEW field
  PROVE  IsSeq(Units(doc, field))
<1> DEFINE Unit(v) ==
             IF field = <<>> THEN <<JsonText(v)>>
             ELSE LET x == Get(v, field[1])
                  IN IF x # <<>> /\ x[1][1] = "str" /\ x[1][2] # "" THEN <<x[1][2]>> ELSE <<>>
           ss == [k \in DOMAIN Elements(doc) |-> Unit(Elements(doc)[k])]
<1>1. \A v : IsSeq(Unit(v))
  BY Singleton, NoElements
<1>2. Units(doc, field) = FlattenSeq(ss)
  BY DEF Units
<1> HIDE DEF Unit
<1>3. IsSeq(Elements(doc))
  BY ElementsSeq
<1>4. IsSeq(ss) /\ \A k \in DOMAIN ss : IsSeq(ss[k])
  BY <1>1, <1>3, SeqShape, SeqIntro
<1> HIDE DEF ss
<1>5. QED BY <1>2, <1>4, FlattenAny

\* The tasks of a node run its pipeline; those of a fan-out share its universe out.
LEMMA NodeShares ==
  ASSUME NEW s, NEW node, NodeOK(node), NodeTasks(config, NewStore, s, node) # <<>>
  PROVE  LET tasks == NodeTasks(config, NewStore, s, node)[1]
         IN /\ IsSeq(tasks) /\ \A k \in DOMAIN tasks : tasks[k].pipeline = node.pipeline
            /\ node.partition # <<>> =>
                 SharedOut(tasks, Universe(node), node.partition[1].workers)
<1> DEFINE tasks == NodeTasks(config, NewStore, s, node)[1]
           one == SingleTask(config, s, node.pipeline)
           w == node.partition[1].workers
<1>1. CASE node.partition = <<>>
  <2>1. tasks = <<one>>
    BY <1>1 DEF NodeTasks
  <2>2. one.pipeline = node.pipeline
    BY DEF SingleTask
  <2> HIDE DEF one
  <2>3. IsSeq(<<one>>) /\ DOMAIN <<one>> = 1..1 /\ <<one>>[1] = one
    BY Singleton
  <2>4. QED BY <1>1, <2>1, <2>2, <2>3
<1>2. CASE node.partition # <<>>
  <2> DEFINE units == Universe(node)
  <2>1. w \in Nat
    <3>1. 1 \in DOMAIN node.partition
      BY <1>2, SeqShape, EmptyLen DEF NodeOK
    <3>2. QED BY <3>1 DEF NodeOK, Range
  <2>2. [NewStore EXCEPT !.mem = <<>>] = NewStore
    BY DEF NewStore
  <2>3. w # 0 /\ tasks = FanOutTasks(config, s, node, units)
    BY <1>2, <2>2 DEF NodeTasks, Universe
  <2>4. IsSeq(units)
    BY UnitsSeq DEF Universe
  <2> HIDE DEF units
  <2>5. w \in Nat \ {0}
    BY <2>1, <2>3
  <2>6. LET ts == FanOutTasks(config, s, node, units)
        IN IsSeq(ts) /\ (\A k \in DOMAIN ts : ts[k].pipeline = node.pipeline) /\ SharedOut(ts, units, w)
    BY <2>4, <2>5, FanOutShares
  <2>7. QED BY <2>3, <2>6 DEF units
<1>3. QED BY <1>1, <1>2

\* In a plan, the tasks of a fan-out that stands once in its stage are those of its node.
LEMMA PlanShares ==
  ASSUME PipeInv, PlanBuilt, stage # 0, NEW s \in DOMAIN plan, NEW n \in DOMAIN Stages(config)[s],
         Alone(Stages(config)[s], n), Stages(config)[s][n].partition # <<>>
  PROVE  LET node == Stages(config)[s][n]
         IN SharedOut(TasksFor(plan[s], node.pipeline), Universe(node), node.partition[1].workers)
<1> DEFINE stages == Stages(config)
           nodes == stages[s]
           name == nodes[n].pipeline
           Tasks(m) == NodeTasks(config, NewStore, s, nodes[m])
           ss == [m \in DOMAIN nodes |-> Tasks(m)[1]]
<1>1. IsSeq(stages) /\ IsSeq(nodes) /\ s \in DOMAIN stages /\ \A m \in DOMAIN nodes : NodeOK(nodes[m])
  <2>1. ConfigOK(config) /\ IsSeq(plan) /\ Len(plan) = Len(stages)
    BY ConfigsAssumption DEF PipeInv, PlanInv
  <2>2. IsSeq(stages) /\ \A r \in DOMAIN stages :
          IsSeq(stages[r]) /\ \A m \in DOMAIN stages[r] : NodeOK(stages[r][m])
    BY <2>1, StagesAre
  <2> HIDE DEF stages
  <2>3. s \in DOMAIN stages
    BY <2>1, <2>2, SeqShape
  <2>4. QED BY <2>2, <2>3
<1>2. plan[s] = FlattenSeq(ss) /\ \A m \in DOMAIN nodes : Tasks(m) # <<>>
  <2>1. BuildPlan(config, NewStore) = <<plan>>
    BY DEF PlanBuilt
  <2>2. BuildPlan(config, NewStore) # <<>>
    BY <2>1
  <2> DEFINE All(r, m) == NodeTasks(config, NewStore, r, stages[r][m])
             p == [r \in DOMAIN stages |-> FlattenSeq([m \in DOMAIN stages[r] |-> All(r, m)[1]])]
  <2>3. /\ BuildPlan(config, NewStore) = <<p>>
        /\ \A r \in DOMAIN stages : \A m \in DOMAIN stages[r] : All(r, m) # <<>>
    BY <2>2 DEF BuildPlan
  <2>4. plan = p
    <3> HIDE DEF p
    <3>1. QED BY <2>1, <2>3
  <2>5. p[s] = FlattenSeq(ss)
    BY <1>1
  <2>6. QED BY <1>1, <2>3, <2>4, <2>5
<1>3. \A m \in DOMAIN nodes : /\ IsSeq(Tasks(m)[1])
                              /\ \A k \in DOMAIN Tasks(m)[1] : Tasks(m)[1][k].pipeline = nodes[m].pipeline
  BY <1>1, <1>2, NodeShares
<1>4. SharedOut(Tasks(n)[1], Universe(nodes[n]), nodes[n].partition[1].workers)
  BY <1>1, <1>2, NodeShares
<1>5. \A m \in DOMAIN nodes : nodes[m].pipeline = name => m = n
  BY DEF Alone
<1> HIDE DEF Tasks, stages, nodes
<1>6. IsSeq(ss) /\ DOMAIN ss = DOMAIN nodes /\ \A m \in DOMAIN ss : ss[m] = Tasks(m)[1]
  BY <1>1, SeqShape, SeqIntro
<1> HIDE DEF ss
<1> DEFINE S == UNION {Range(ss[m]) : m \in DOMAIN ss}
           T == {t \in S : t.pipeline = name}
<1>7. Those(FlattenSeq(ss), T) = ss[n]
  <2>1. n \in DOMAIN ss
    BY <1>6 DEF nodes, stages
  <2>2. \A j \in DOMAIN ss[n] : ss[n][j] \in T
    BY <1>3, <1>6, <2>1 DEF Range
  <2>3. \A m \in DOMAIN ss \ {n} : \A j \in DOMAIN ss[m] : ss[m][j] \notin T
    BY <1>3, <1>5, <1>6
  <2>4. \A m \in DOMAIN ss : IsSeq(ss[m])
    BY <1>3, <1>6
  <2> HIDE DEF T
  <2>5. QED BY <1>6, <2>1, <2>2, <2>3, <2>4, ThoseOfOne
<1>8. \A k \in DOMAIN plan[s] : plan[s][k] \in S
  <2>1. \A m \in DOMAIN ss : ss[m] \in Seq(S)
    <3>1. ASSUME NEW m \in DOMAIN ss PROVE ss[m] \in Seq(S)
      <4>1. IsSeq(ss[m]) /\ \A j \in DOMAIN ss[m] : ss[m][j] \in S
        BY <1>3, <1>6 DEF Range
      <4> HIDE DEF S
      <4>2. QED BY <4>1, SeqInSet
    <3>2. QED BY <3>1
  <2> HIDE DEF S
  <2>2. FlattenSeq(ss) \in Seq(S)
    BY <1>6, <2>1, Flatten
  <2>3. QED BY <1>2, <2>2, SeqOfSet DEF Range
<1>9. TasksFor(plan[s], name) = Those(plan[s], T)
  <2>1. \A k \in DOMAIN plan[s] : plan[s][k] \in {t \in Range(plan[s]) : t.pipeline = name} <=> plan[s][k] \in T
    BY <1>8 DEF Range
  <2> HIDE DEF T
  <2>2. QED BY <2>1, ThoseSame DEF TasksFor
<1>10. TasksFor(plan[s], name) = Tasks(n)[1]
  BY <1>2, <1>6, <1>7, <1>9 DEF nodes, stages
<1>11. QED BY <1>4, <1>10 DEF nodes, stages

\* The tasks of a fan-out share its universe out (universe_values, chunk_evenly,
\* fanout_task), for every configuration, every document and any number of workers: no
\* value is lost or given twice, none is out of order, no task is without one and none has
\* two more than another.
THEOREM UniverseShared == ASSUME RenderIsText PROVE PipeSpec => []UniverseIsShared
<1>1. PipeInv /\ PlanBuilt /\ [PipeNext]_pipeVars => PlanBuilt'
  BY BuiltStep
<1>2. PipeInv /\ PlanBuilt => UniverseIsShared
  <2> SUFFICES ASSUME PipeInv, PlanBuilt PROVE UniverseIsShared
    OBVIOUS
  <2>1. QED BY PlanShares DEF UniverseIsShared
<1>3. QED BY <1>1, <1>2, BuiltInit, PipeInvariance, PTL DEF PipeSpec
=============================================================================
