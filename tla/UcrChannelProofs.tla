-------------------------- MODULE UcrChannelProofs --------------------------
(***************************************************************************)
(* Proofs about an open channel.                                           *)
(*                                                                         *)
(* The module first proves what the model is built from: FlattenSeq (by    *)
(* induction over the length, SetInduction), the indices of a ring, and    *)
(* what the buffers between two indices hold when one is added at the end  *)
(* (JoinedGrow) or taken from the front (JoinedShrink).  With these each   *)
(* step of a half is shown to put some items behind what is held, to take  *)
(* some from its front, or to leave it alone, whatever buffers they lie    *)
(* in (CopyOut, PublishOut, TakesOut, MakesIn, FetchIn).                   *)
(*                                                                         *)
(* A copy from or to user space may sleep, between the choice of a place   *)
(* in a buffer and the move of the offset over it.  Two threads that copy  *)
(* at once each move the offset, for bytes in the same place: the offset   *)
(* may then leave the page.  The input half is a stream as long as one     *)
(* thread at a time is between the test of the ring and the end of its     *)
(* copy (OneReader), the output half as long as one is in the part of a    *)
(* call that uses the buffer to fill (OneSender): there, two that find     *)
(* out_off # 0 also both flush, and the second publishes an empty buffer,  *)
(* which the target reads as a file mark.  UCR_SYNC and UCR_CHANNEL keep   *)
(* their promises if also nobody sends while they wait (SyncAlone).        *)
(***************************************************************************)
EXTENDS UcrChannelStream, SequenceTheorems, FiniteSetTheorems, WellFoundedInduction, TLAPS

-----------------------------------------------------------------------------
(* Induction                                                               *)

\* Induction over the natural numbers, for a set.
LEMMA SetInduction ==
  ASSUME NEW S, 0 \in S, \A n \in Nat : n \in S => n + 1 \in S
  PROVE  \A n \in Nat : n \in S
<1>. DEFINE Bad == {n \in Nat : n \notin S}
            Segs == {0..n : n \in Bad}
<1>1. SUFFICES ASSUME Bad # {} PROVE FALSE
  BY DEF Bad
<1>2. Segs \subseteq FiniteSubsetsOf(Nat) /\ Segs # {}
  <2>1. \A n \in Nat : 0..n \in FiniteSubsetsOf(Nat)
    BY FS_Interval DEF FiniteSubsetsOf
  <2>. QED BY <2>1, <1>1
<1>3. PICK s \in Segs : \A r \in Segs : ~ (<<r, s>> \in StrictSubsetOrdering(Nat))
  <2>. HIDE DEF Segs
  <2>. QED BY <1>2, WFMin, FS_StrictSubsetOrderingWellFounded
<1>4. PICK n \in Bad : s = 0..n
  BY <1>3
<1>5. n # 0 /\ n - 1 \in Nat /\ n - 1 \in Bad
  OBVIOUS
<1>6. 0..(n-1) \in Segs
  BY <1>5
<1>7. 0..(n-1) \subseteq 0..n /\ 0..(n-1) # 0..n
  <2>1. n \in 0..n /\ n \notin 0..(n-1)
    OBVIOUS
  <2>. QED BY <2>1
<1>8. 0..(n-1) \in SUBSET Nat /\ s \in SUBSET Nat
  BY <1>4, <1>5
<1>9. <<0..(n-1), s>> \in StrictSubsetOrdering(Nat)
  BY <1>4, <1>7, <1>8, Zenon DEF StrictSubsetOrdering
<1>. QED BY <1>3, <1>6, <1>9

-----------------------------------------------------------------------------
(* FlattenSeq: what a sequence of sequences holds                          *)

\* f[i] is what the first i members of seqs hold.
Flattens(f, seqs, n) ==
  f = [i \in 1..n |-> IF i = 1 THEN seqs[i] ELSE f[i-1] \o seqs[i]]

\* The function by which FlattenSeq is defined exists.
LEMMA FlattenExists ==
  ASSUME NEW seqs, NEW n \in Nat
  PROVE  \E f : Flattens(f, seqs, n)
<1>. DEFINE S == {m \in Nat : \E f : Flattens(f, seqs, m)}
<1>1. 0 \in S
  <2>. DEFINE f0 == [i \in 1..0 |-> seqs]
  <2>1. Flattens(f0, seqs, 0)
    BY DEF Flattens
  <2>. QED BY <2>1
<1>2. \A m \in Nat : m \in S => m + 1 \in S
  <2>. SUFFICES ASSUME NEW m \in Nat, m \in S PROVE m + 1 \in S
    OBVIOUS
  <2>1. PICK f : Flattens(f, seqs, m)
    OBVIOUS
  <2>. DEFINE g == [i \in 1..(m + 1) |-> IF i = 1 THEN seqs[i]
                                         ELSE IF i = m + 1 THEN f[m] \o seqs[i] ELSE f[i]]
  <2>2. \A i \in 2..(m + 1) : g[i - 1] = f[i - 1]
    BY <2>1 DEF Flattens
  <2>3. \A i \in 1..(m + 1) : g[i] = IF i = 1 THEN seqs[i] ELSE g[i - 1] \o seqs[i]
    <3>. TAKE i \in 1..(m + 1)
    <3>1. CASE i = 1
      BY <3>1
    <3>2. CASE i = m + 1 /\ i # 1
      <4>1. i \in 1..(m + 1) /\ i - 1 = m /\ i \in 2..(m + 1)
        BY <3>2
      <4>2. g[i] = f[i - 1] \o seqs[i]
        BY <3>2, <4>1
      <4>. HIDE DEF g
      <4>. QED BY <3>2, <4>1, <4>2, <2>2
    <3>3. CASE i # m + 1 /\ i # 1
      <4>1. i \in 1..m /\ i \in 2..(m + 1) /\ g[i] = f[i]
        BY <3>3
      <4>2. f[i] = f[i - 1] \o seqs[i]
        BY <4>1, <2>1, <3>3 DEF Flattens
      <4>. HIDE DEF g
      <4>. QED BY <3>3, <4>1, <4>2, <2>2
    <3>. QED BY <3>1, <3>2, <3>3
  <2>4. Flattens(g, seqs, m + 1)
    <3>1. g = [i \in 1..(m + 1) |-> g[i]]
      OBVIOUS
    <3>. HIDE DEF g
    <3>. QED BY <3>1, <2>3 DEF Flattens
  <2>. QED BY <2>4
<1>. HIDE DEF S
<1>3. n \in S
  BY <1>1, <1>2, SetInduction
<1>. QED BY <1>3 DEF S

\* One member at a time.
LEMMA FlattenStep ==
  ASSUME NEW f, NEW seqs, NEW n, Flattens(f, seqs, n), NEW i \in 1..n
  PROVE  f[i] = IF i = 1 THEN seqs[i] ELSE f[i - 1] \o seqs[i]
<1>. DEFINE g == [j \in 1..n |-> IF j = 1 THEN seqs[j] ELSE f[j-1] \o seqs[j]]
<1>1. f = g
  BY DEF Flattens
<1>2. g[i] = IF i = 1 THEN seqs[i] ELSE f[i - 1] \o seqs[i]
  OBVIOUS
<1>. HIDE DEF g
<1>. QED BY <1>1, <1>2

\* It agrees with that of any sequence that begins the same way.
LEMMA FlattenPrefix ==
  ASSUME NEW s, NEW t, NEW n \in Nat, \A i \in 1..n : s[i] = t[i],
         NEW f, Flattens(f, s, n), NEW g, Flattens(g, t, n + 1)
  PROVE  n # 0 => f[n] = g[n]
<1>. DEFINE S == {k \in Nat : k \in 1..n => f[k] = g[k]}
<1>1. 0 \in S
  OBVIOUS
<1>2. \A k \in Nat : k \in S => k + 1 \in S
  <2>. SUFFICES ASSUME NEW k \in Nat, k \in S, k + 1 \in 1..n PROVE f[k + 1] = g[k + 1]
    OBVIOUS
  <2>1. f[k + 1] = IF k + 1 = 1 THEN s[k + 1] ELSE f[k + 1 - 1] \o s[k + 1]
    BY FlattenStep
  <2>2. g[k + 1] = IF k + 1 = 1 THEN t[k + 1] ELSE g[k + 1 - 1] \o t[k + 1]
    <3>1. k + 1 \in 1..(n + 1)
      OBVIOUS
    <3>. QED BY <3>1, FlattenStep
  <2>3. k + 1 - 1 = k /\ s[k + 1] = t[k + 1] /\ (k + 1 # 1 => f[k] = g[k])
    OBVIOUS
  <2>. QED BY <2>1, <2>2, <2>3
<1>. HIDE DEF S
<1>3. n \in S
  BY <1>1, <1>2, SetInduction
<1>. QED BY <1>3 DEF S

\* The last member.
LEMMA FlattenLast ==
  ASSUME NEW f, NEW seqs, NEW n \in Nat, Flattens(f, seqs, n + 1)
  PROVE  /\ n = 0 => f[n + 1] = seqs[n + 1]
         /\ n # 0 => f[n + 1] = f[n] \o seqs[n + 1]
<1>1. f[n + 1] = IF n + 1 = 1 THEN seqs[n + 1] ELSE f[n + 1 - 1] \o seqs[n + 1]
  <2>1. n + 1 \in 1..(n + 1)
    OBVIOUS
  <2>. QED BY <2>1, FlattenStep
<1>2. n + 1 - 1 = n /\ (n + 1 = 1 <=> n = 0)
  OBVIOUS
<1>. QED BY <1>1, <1>2

\* What FlattenSeq is.
LEMMA FlattenIs ==
  ASSUME NEW s, Len(s) \in Nat
  PROVE  /\ Len(s) = 0 => FlattenSeq(s) = s
         /\ Len(s) # 0 => \E f : Flattens(f, s, Len(s)) /\ FlattenSeq(s) = f[Len(s)]
<1>1. CASE Len(s) = 0
  BY <1>1 DEF FlattenSeq
<1>2. CASE Len(s) # 0
  <2>. DEFINE F == CHOOSE f : Flattens(f, s, Len(s))
  <2>1. Flattens(F, s, Len(s))
    BY FlattenExists
  <2>2. FlattenSeq(s) = F[Len(s)]
    BY <1>2 DEF FlattenSeq, Flattens
  <2>. QED BY <1>2, <2>1, <2>2
<1>. QED BY <1>1, <1>2

\* One more member adds what it holds at the end.
LEMMA FlattenMore ==
  ASSUME NEW s, NEW t, Len(s) \in Nat, Len(t) = Len(s) + 1,
         \A i \in 1..Len(s) : s[i] = t[i]
  PROVE  /\ Len(s) = 0 => FlattenSeq(t) = t[1]
         /\ Len(s) # 0 => FlattenSeq(t) = FlattenSeq(s) \o t[Len(t)]
<1>. DEFINE n == Len(s)
<1>1. PICK g : Flattens(g, t, n + 1) /\ FlattenSeq(t) = g[n + 1]
  BY FlattenIs
<1>2. PICK f : Flattens(f, s, n) /\ (n # 0 => FlattenSeq(s) = f[n])
  BY FlattenIs, FlattenExists
<1>3. n \in Nat /\ (\A i \in 1..n : s[i] = t[i]) /\ Len(t) = n + 1
  OBVIOUS
<1>. HIDE DEF n
<1>4. n # 0 => f[n] = g[n]
  BY <1>1, <1>2, <1>3, FlattenPrefix, SMTT(30)
<1>5. /\ n = 0 => g[n + 1] = t[n + 1]
      /\ n # 0 => g[n + 1] = g[n] \o t[n + 1]
  BY <1>1, <1>3, FlattenLast
<1>6. n = 0 => n + 1 = 1
  BY <1>3
<1>. QED BY <1>1, <1>2, <1>3, <1>4, <1>5, <1>6, Zenon DEF n

\* FlattenSeq of a sequence of sequences is a sequence.
LEMMA FlattenType ==
  ASSUME NEW T, NEW s, s \in Seq(Seq(T))
  PROVE  FlattenSeq(s) \in Seq(T)
<1>1. Len(s) \in Nat /\ \A i \in 1..Len(s) : s[i] \in Seq(T)
  BY LenProperties, ElementOfSeq
<1>2. CASE Len(s) = 0
  <2>1. s = <<>> /\ FlattenSeq(s) = s
    BY <1>2, <1>1, FlattenIs, EmptySeq
  <2>. QED BY <2>1, EmptySeq
<1>3. CASE Len(s) # 0
  <2>1. PICK f : Flattens(f, s, Len(s)) /\ FlattenSeq(s) = f[Len(s)]
    BY <1>1, <1>3, FlattenIs
  <2>. DEFINE P(k) == k \in 1..Len(s) => f[k] \in Seq(T)
              S == {k \in Nat : P(k)}
  <2>2. 0 \in S
    OBVIOUS
  <2>3. \A k \in Nat : k \in S => k + 1 \in S
    <3>. SUFFICES ASSUME NEW k \in Nat, P(k) PROVE P(k + 1)
      <4>. HIDE DEF P
      <4>. QED OBVIOUS
    <3>. SUFFICES ASSUME k + 1 \in 1..Len(s) PROVE f[k + 1] \in Seq(T)
      OBVIOUS
    <3>1. f[k + 1] = IF k + 1 = 1 THEN s[k + 1] ELSE f[k + 1 - 1] \o s[k + 1]
      BY <2>1, FlattenStep
    <3>2. k + 1 - 1 = k /\ s[k + 1] \in Seq(T) /\ (k + 1 # 1 => f[k] \in Seq(T))
      BY <1>1
    <3>. QED BY <3>1, <3>2, ConcatProperties
  <2>. HIDE DEF S
  <2>4. \A k \in Nat : k \in S
    BY <2>2, <2>3, SetInduction
  <2>. QED BY <1>1, <1>3, <2>1, <2>4 DEF S
<1>. QED BY <1>2, <1>3

\* FlattenSeq and Append.
LEMMA FlattenAppend ==
  ASSUME NEW T, NEW s \in Seq(Seq(T)), NEW x \in Seq(T)
  PROVE  FlattenSeq(Append(s, x)) = FlattenSeq(s) \o x
<1>. DEFINE t == Append(s, x)
<1>1. /\ Len(s) \in Nat /\ Len(t) = Len(s) + 1
      /\ \A i \in 1..Len(s) : s[i] = t[i]
      /\ t[Len(t)] = x
  BY AppendProperties, LenProperties
<1>. HIDE DEF t
<1>2. /\ Len(s) = 0 => FlattenSeq(t) = t[1]
      /\ Len(s) # 0 => FlattenSeq(t) = FlattenSeq(s) \o t[Len(t)]
  BY <1>1, FlattenMore
<1>3. CASE Len(s) = 0
  <2>1. s = <<>> /\ FlattenSeq(s) = <<>> /\ FlattenSeq(t) = x
    BY <1>1, <1>2, <1>3, FlattenIs, EmptySeq
  <2>. QED BY <2>1, ConcatEmptySeq DEF t
<1>4. CASE Len(s) # 0
  BY <1>1, <1>2, <1>4 DEF t
<1>. QED BY <1>3, <1>4

\* The first member comes first.
LEMMA FlattenHead ==
  ASSUME NEW T, NEW s \in Seq(Seq(T)), s # <<>>
  PROVE  FlattenSeq(s) = Head(s) \o FlattenSeq(Tail(s))
<1>. DEFINE P(n) == \A r \in Seq(Seq(T)) : Len(r) = n /\ r # <<>> =>
                      FlattenSeq(r) = Head(r) \o FlattenSeq(Tail(r))
            S == {n \in Nat : P(n)}
<1>1. 0 \in S
  <2>1. \A r \in Seq(Seq(T)) : r # <<>> => Len(r) # 0
    BY EmptySeq
  <2>2. P(0)
    BY <2>1
  <2>. HIDE DEF P
  <2>. QED BY <2>2
<1>2. \A n \in Nat : n \in S => n + 1 \in S
  <2>. SUFFICES ASSUME NEW n \in Nat, P(n) PROVE P(n + 1)
    <3>. HIDE DEF P
    <3>. QED OBVIOUS
  <2>. SUFFICES ASSUME NEW r \in Seq(Seq(T)), Len(r) = n + 1, r # <<>>
                PROVE  FlattenSeq(r) = Head(r) \o FlattenSeq(Tail(r))
    OBVIOUS
  <2>1. PICK q \in Seq(Seq(T)), e \in Seq(T) : r = Append(q, e)
    BY SequenceEmptyOrAppend
  <2>2. /\ FlattenSeq(r) = FlattenSeq(q) \o e
        /\ Len(q) = n
        /\ Head(r) = IF q = <<>> THEN e ELSE Head(q)
        /\ Tail(r) = IF q = <<>> THEN <<>> ELSE Append(Tail(q), e)
    <3>1. Len(r) = Len(q) + 1 /\ Len(q) \in Nat
      BY <2>1, AppendProperties, LenProperties
    <3>2. /\ Head(r) = IF q = <<>> THEN e ELSE Head(q)
          /\ Tail(r) = IF q = <<>> THEN <<>> ELSE Append(Tail(q), e)
      BY <2>1, HeadTailAppend
    <3>3. FlattenSeq(r) = FlattenSeq(q) \o e
      BY <2>1, FlattenAppend
    <3>4. Len(q) = n
      BY <3>1
    <3>. QED BY <3>2, <3>3, <3>4, Zenon
  <2>3. CASE q = <<>>
    <3>1. FlattenSeq(<<>>) = <<>>
      BY FlattenIs
    <3>. QED BY <2>2, <2>3, <3>1, ConcatEmptySeq
  <2>4. CASE q # <<>>
    <3>1. FlattenSeq(q) = Head(q) \o FlattenSeq(Tail(q))
      BY <2>2, <2>4
    <3>2. Head(q) \in Seq(T) /\ Tail(q) \in Seq(Seq(T))
      BY <2>4, HeadTailProperties
    <3>3. /\ FlattenSeq(Tail(q)) \in Seq(T)
          /\ FlattenSeq(Append(Tail(q), e)) = FlattenSeq(Tail(q)) \o e
      BY <2>1, <3>2, FlattenAppend, FlattenType
    <3>4. (Head(q) \o FlattenSeq(Tail(q))) \o e = Head(q) \o (FlattenSeq(Tail(q)) \o e)
      <4>. DEFINE h == Head(q)
                  t == FlattenSeq(Tail(q))
      <4>1. h \in Seq(T) /\ t \in Seq(T)
        BY <3>2, <3>3
      <4>. HIDE DEF h, t
      <4>2. (h \o t) \o e = h \o (t \o e)
        BY <2>1, <4>1, SMTT(30)
      <4>. QED BY <4>2 DEF h, t
    <3>. QED BY <2>2, <2>4, <3>1, <3>3, <3>4
  <2>. QED BY <2>3, <2>4
<1>. HIDE DEF S
<1>3. Len(s) \in S
  BY <1>1, <1>2, SetInduction
<1>. QED BY <1>3 DEF S

-----------------------------------------------------------------------------
(* The ring indices from one place to another                              *)

\* An index that has gone at most once around a ring.
LEMMA Wrap ==
  ASSUME NEW size \in Nat \ {0}, NEW i \in 0..(2 * size - 1)
  PROVE  i % size = IF i < size THEN i ELSE i - size
<1>1. CASE i < size
  BY <1>1, SMTT(30)
<1>2. CASE i >= size
  BY <1>2, SMTT(30)
<1>. QED BY <1>1, <1>2

\* The next index.
After(i, size) == IF i + 1 = size THEN 0 ELSE i + 1

\* The next index, without the remainder.
LEMMA AfterIs ==
  ASSUME NEW size \in Nat, size > 1, NEW i \in 0..(size - 1)
  PROVE  /\ (i + 1) % size = After(i, size)
         /\ After(i, size) \in 0..(size - 1) /\ After(i, size) # i
<1>1. (i + 1) % size = IF i + 1 < size THEN i + 1 ELSE i + 1 - size
  BY Wrap, SMTT(30)
<1>. QED BY <1>1 DEF After

\* How many indices there are from first to next.
Between(first, next, size) == IF first <= next THEN next - first ELSE next + size - first

\* The number of indices, without the remainder.
LEMMA BetweenIs ==
  ASSUME NEW size \in Nat, size > 1, NEW first \in 0..(size - 1), NEW next \in 0..(size - 1)
  PROVE  /\ (next + size - first) % size = Between(first, next, size)
         /\ Between(first, next, size) \in 0..(size - 1)
         /\ Between(first, next, size) = 0 <=> first = next
<1>. DEFINE x == next + size - first
<1>1. x \in 0..(2 * size - 1) /\ size \in Nat \ {0}
  OBVIOUS
<1>2. x % size = IF x < size THEN x ELSE x - size
  <2>. HIDE DEF x
  <2>. QED BY <1>1, Wrap
<1>. QED BY <1>2 DEF Between

\* The k-th of them.
Ring(first, k, size) == IF first + k - 1 < size THEN first + k - 1 ELSE first + k - 1 - size

\* The k-th index, without the remainder.
LEMMA RingIs ==
  ASSUME NEW size \in Nat, size > 1, NEW first \in 0..(size - 1), NEW k \in 1..(size - 1)
  PROVE  /\ (first + k - 1) % size = Ring(first, k, size)
         /\ Ring(first, k, size) \in 0..(size - 1)
<1>. DEFINE x == first + k - 1
<1>1. x \in 0..(2 * size - 1) /\ size \in Nat \ {0}
  OBVIOUS
<1>2. x % size = IF x < size THEN x ELSE x - size
  <2>. HIDE DEF x
  <2>. QED BY <1>1, Wrap
<1>. QED BY <1>2 DEF Ring

\* The indices, without remainders.
LEMMA IndicesAre ==
  ASSUME NEW size \in Nat, size > 1, NEW first \in 0..(size - 1), NEW next \in 0..(size - 1)
  PROVE  Indices(first, next, size) =
           [k \in 1..Between(first, next, size) |-> Ring(first, k, size)]
<1>1. (next + size - first) % size = Between(first, next, size)
  BY BetweenIs
<1>2. \A k \in 1..Between(first, next, size) : (first + k - 1) % size = Ring(first, k, size)
  BY BetweenIs, RingIs
<1>. QED BY <1>1, <1>2 DEF Indices

\* They are indices of the ring, and next is not one of them.
LEMMA RingOther ==
  ASSUME NEW size \in Nat, size > 1, NEW first \in 0..(size - 1), NEW next \in 0..(size - 1),
         NEW k \in 1..Between(first, next, size)
  PROVE  Ring(first, k, size) \in 0..(size - 1) /\ Ring(first, k, size) # next
BY DEF Ring, Between

-----------------------------------------------------------------------------
(* What the buffers of a ring hold, from one index to another              *)

Buffers(first, next, size, c) ==
  [k \in 1..Between(first, next, size) |-> c[Ring(first, k, size)]]

Joined(first, next, size, c) == FlattenSeq(Buffers(first, next, size, c))

\* The buffers are a sequence of sequences.
LEMMA BuffersType ==
  ASSUME NEW T, NEW size \in Nat, size > 1,
         NEW first \in 0..(size - 1), NEW next \in 0..(size - 1),
         NEW c \in [0..(size - 1) -> Seq(T)]
  PROVE  /\ Buffers(first, next, size, c) \in Seq(Seq(T))
         /\ Len(Buffers(first, next, size, c)) = Between(first, next, size)
         /\ Joined(first, next, size, c) \in Seq(T)
<1>. DEFINE n == Between(first, next, size)
            s == [k \in 1..n |-> c[Ring(first, k, size)]]
<1>1. n \in Nat
  BY BetweenIs
<1>2. \A k \in 1..n : c[Ring(first, k, size)] \in Seq(T)
  BY RingOther
<1>3. s \in Seq(Seq(T)) /\ Len(s) = n
  <2>. HIDE DEF n
  <2>. QED BY <1>1, <1>2
<1>4. FlattenSeq(s) \in Seq(T)
  <2>. HIDE DEF s
  <2>. QED BY <1>3, FlattenType
<1>. QED BY <1>3, <1>4 DEF Joined, Buffers

\* An empty ring.
LEMMA JoinedNone ==
  ASSUME NEW size \in Nat, size > 1, NEW i \in 0..(size - 1), NEW c
  PROVE  Joined(i, i, size, c) = <<>>
<1>. DEFINE s == Buffers(i, i, size, c)
<1>1. s = <<>>
  <2>1. Between(i, i, size) = 0
    BY DEF Between
  <2>2. s = [k \in 1..0 |-> c[Ring(i, k, size)]]
    BY <2>1 DEF Buffers
  <2>. QED BY <2>2
<1>2. FlattenSeq(<<>>) = <<>>
  BY FlattenIs
<1>. QED BY <1>1, <1>2 DEF Joined

\* The buffers c of a ring become d when the one at next is added to those from
\* first, and when the one at first is taken away.
Grows(T, size, first, next, c, d) ==
  /\ size \in Nat /\ size > 1 /\ first \in 0..(size - 1) /\ next \in 0..(size - 1)
  /\ After(next, size) # first
  /\ c \in [0..(size - 1) -> Seq(T)] /\ d \in [0..(size - 1) -> Seq(T)]
  /\ \A i \in 0..(size - 1) : i # next /\ i # After(next, size) => c[i] = d[i]

Shrinks(T, size, first, next, c, d) ==
  /\ size \in Nat /\ size > 1 /\ first \in 0..(size - 1) /\ next \in 0..(size - 1)
  /\ first # next
  /\ c \in [0..(size - 1) -> Seq(T)] /\ d \in [0..(size - 1) -> Seq(T)]
  /\ \A i \in 0..(size - 1) : i # first => c[i] = d[i]

Same(size, first, next, c, d) ==
  /\ size \in Nat /\ size > 1 /\ first \in 0..(size - 1) /\ next \in 0..(size - 1)
  /\ \A i \in 0..(size - 1) : i # next => c[i] = d[i]

\* Buffers of the same contents.
LEMMA JoinedSame ==
  ASSUME NEW size, NEW first, NEW next, NEW c, NEW d, Same(size, first, next, c, d)
  PROVE  Joined(first, next, size, c) = Joined(first, next, size, d)
<1>0. /\ size \in Nat /\ size > 1 /\ first \in 0..(size - 1) /\ next \in 0..(size - 1)
      /\ \A i \in 0..(size - 1) : i # next => c[i] = d[i]
  BY DEF Same
<1>1. \A k \in 1..Between(first, next, size) :
        c[Ring(first, k, size)] = d[Ring(first, k, size)]
  BY <1>0, RingOther
<1>. QED BY <1>1 DEF Joined, Buffers

\* One more buffer at the end.
LEMMA JoinedGrow ==
  ASSUME NEW T, NEW size, NEW first, NEW next, NEW c, NEW d,
         Grows(T, size, first, next, c, d)
  PROVE  Joined(first, After(next, size), size, d) = Joined(first, next, size, c) \o d[next]
<1>. DEFINE after == After(next, size)
<1>0. /\ size \in Nat /\ size > 1 /\ first \in 0..(size - 1) /\ next \in 0..(size - 1)
      /\ after # first
      /\ c \in [0..(size - 1) -> Seq(T)] /\ d \in [0..(size - 1) -> Seq(T)]
      /\ \A i \in 0..(size - 1) : i # next /\ i # after => c[i] = d[i]
  BY DEF Grows
<1>01. after \in 0..(size - 1) /\ after = After(next, size)
  BY <1>0, AfterIs
<1>. HIDE DEF after
<1>. DEFINE n == Between(first, next, size)
            m == Between(first, after, size)
            s == Buffers(first, next, size, c)
            t == Buffers(first, after, size, d)
            x == d[next]
<1>1. n \in Nat /\ m = n + 1 /\ Ring(first, m, size) = next
  <2>1. CASE first <= next
    BY <1>0, <1>01, <2>1 DEF Between, Ring, After
  <2>2. CASE next < first
    BY <1>0, <1>01, <2>2 DEF Between, Ring, After
  <2>. QED BY <1>0, <2>1, <2>2
<1>2. \A k \in 1..n : /\ Ring(first, k, size) \in 0..(size - 1)
                      /\ Ring(first, k, size) # next /\ Ring(first, k, size) # after
  <2>1. CASE first <= next
    BY <1>0, <1>01, <2>1 DEF Between, Ring, After
  <2>2. CASE next < first
    BY <1>0, <1>01, <2>2 DEF Between, Ring, After
  <2>. QED BY <1>0, <2>1, <2>2
<1>3. s \in Seq(Seq(T)) /\ Len(s) = n /\ x \in Seq(T)
  BY <1>0, <1>01, BuffersType
<1>4. t \in Seq(Seq(T)) /\ Len(t) = m
  BY <1>0, <1>01, BuffersType
<1>. HIDE DEF s, t, n, m, x
<1>5. t[n + 1] = x
  <2>1. m \in 1..m
    BY <1>1
  <2>2. t[m] = d[Ring(first, m, size)]
    BY <2>1 DEF t, m, Buffers
  <2>. QED BY <1>1, <2>2 DEF x
<1>6. \A k \in 1..n : t[k] = s[k]
  <2>. TAKE k \in 1..n
  <2>1. k \in 1..m
    BY <1>1
  <2>2. t[k] = d[Ring(first, k, size)]
    BY <2>1 DEF t, m, Buffers
  <2>3. s[k] = c[Ring(first, k, size)]
    BY DEF s, n, Buffers
  <2>. QED BY <1>0, <1>2, <2>2, <2>3
<1>7. t = Append(s, x)
  <2>1. Append(s, x) \in Seq(Seq(T)) /\ Len(Append(s, x)) = n + 1
    BY <1>3, AppendProperties
  <2>2. \A k \in 1..(n + 1) : t[k] = Append(s, x)[k]
    <3>. TAKE k \in 1..(n + 1)
    <3>1. CASE k = n + 1
      <4>1. Append(s, x)[Len(s) + 1] = x
        BY <1>3, AppendProperties
      <4>. QED BY <1>3, <1>5, <3>1, <4>1
    <3>2. CASE k # n + 1
      <4>1. k \in 1..n
        BY <1>1, <3>2
      <4>2. Append(s, x)[k] = s[k]
        BY <1>3, <4>1, AppendProperties
      <4>. QED BY <1>6, <4>1, <4>2
    <3>. QED BY <3>1, <3>2
  <2>. QED BY <1>1, <1>4, <2>1, <2>2, SeqEqual
<1>8. FlattenSeq(t) = FlattenSeq(s) \o x
  BY <1>3, <1>7, FlattenAppend
<1>. QED BY <1>01, <1>8 DEF Joined, s, t, x

\* The first buffer goes.
LEMMA JoinedShrink ==
  ASSUME NEW T, NEW size, NEW first, NEW next, NEW c, NEW d,
         Shrinks(T, size, first, next, c, d)
  PROVE  /\ Joined(first, next, size, c) = c[first] \o Joined(After(first, size), next, size, d)
         /\ Joined(After(first, size), next, size, d) \in Seq(T)
<1>. DEFINE after == After(first, size)
<1>0. /\ size \in Nat /\ size > 1 /\ first \in 0..(size - 1) /\ next \in 0..(size - 1)
      /\ first # next
      /\ c \in [0..(size - 1) -> Seq(T)] /\ d \in [0..(size - 1) -> Seq(T)]
      /\ \A i \in 0..(size - 1) : i # first => c[i] = d[i]
  BY DEF Shrinks
<1>01. after \in 0..(size - 1) /\ after = After(first, size)
  BY <1>0, AfterIs
<1>. HIDE DEF after
<1>. DEFINE n == Between(first, next, size)
            m == Between(after, next, size)
            s == Buffers(first, next, size, c)
            t == Buffers(after, next, size, d)
<1>1. m \in Nat /\ n = m + 1 /\ Ring(first, 1, size) = first
  <2>1. CASE first <= next
    BY <1>0, <1>01, <2>1 DEF Between, Ring, After
  <2>2. CASE next < first
    BY <1>0, <1>01, <2>2 DEF Between, Ring, After
  <2>. QED BY <1>0, <2>1, <2>2
<1>2. \A k \in 1..m : /\ Ring(after, k, size) = Ring(first, k + 1, size)
                      /\ Ring(first, k + 1, size) \in 0..(size - 1) \ {first}
  <2>1. CASE first <= next
    BY <1>0, <1>01, <2>1 DEF Between, Ring, After
  <2>2. CASE next < first
    BY <1>0, <1>01, <2>2 DEF Between, Ring, After
  <2>. QED BY <1>0, <2>1, <2>2
<1>3. s \in Seq(Seq(T)) /\ Len(s) = n
  BY <1>0, <1>01, BuffersType
<1>4. t \in Seq(Seq(T)) /\ Len(t) = m /\ FlattenSeq(t) \in Seq(T)
  BY <1>0, <1>01, BuffersType DEF Joined
<1>. HIDE DEF s, t, n, m
<1>5. s[1] = c[first]
  <2>1. 1 \in 1..n
    BY <1>1
  <2>2. s[1] = c[Ring(first, 1, size)]
    BY <2>1 DEF s, n, Buffers
  <2>. QED BY <1>1, <2>2
<1>6. \A k \in 1..m : t[k] = s[k + 1]
  <2>. TAKE k \in 1..m
  <2>1. k + 1 \in 1..n
    BY <1>1
  <2>2. t[k] = d[Ring(after, k, size)]
    BY DEF t, m, Buffers
  <2>3. s[k + 1] = c[Ring(first, k + 1, size)]
    BY <2>1 DEF s, n, Buffers
  <2>. QED BY <1>0, <1>2, <2>2, <2>3
<1>7. s # <<>> /\ Head(s) = c[first] /\ Tail(s) = t
  <2>1. s # <<>>
    BY <1>1, <1>3, EmptySeq
  <2>2. Head(s) = s[1]
    BY <1>3
  <2>3. /\ Tail(s) \in Seq(Seq(T)) /\ Len(Tail(s)) = m
        /\ \A k \in 1..m : Tail(s)[k] = s[k + 1]
    BY <1>1, <1>3, <2>1, HeadTailProperties
  <2>4. Tail(s) = t
    BY <1>4, <1>6, <2>3, SeqEqual
  <2>. QED BY <1>5, <2>1, <2>2, <2>4
<1>8. FlattenSeq(s) = Head(s) \o FlattenSeq(Tail(s))
  BY <1>3, <1>7, FlattenHead
<1>. QED BY <1>01, <1>4, <1>7, <1>8 DEF Joined, s, t

-----------------------------------------------------------------------------
(* Types, for any number of threads                                        *)

\* What the buffers and the history hold.
Item == {Mark, Junk} \cup (ChanIds \X Nat) \cup Nat

Places == {"idle", "copy", "copying", "flush", "flushWait", "mark", "markWait",
           "sync", "swap", "fetch", "take", "taking", "arm", "await", "wild"}

\* What a round of a loop has chosen.
Rounds == [idx : Nat, off : Nat, siz : Nat, n : 0..MaxWrite]

\* Indices, lengths and offsets, whatever the threads do to them.
BaseType ==
  /\ next_out_idx \in 0..(NOut - 1)
  /\ out_count \in [0..(NOut - 1) -> Nat] /\ out_off \in Nat
  /\ first_in_idx \in 0..(NIn - 1)
  /\ in_count \in [0..(NIn - 1) -> 1..PageSize] /\ in_off \in Nat

TimeType ==
  /\ read_timeout \in Timeouts
  /\ read_timing \in BOOLEAN /\ read_timeout_flag \in BOOLEAN

ChanType == channel \in ChanIds /\ boardChan \in ChanIds

\* Where a call may be; a read wants at least one more byte, and a copy has no
\* more to do than the call.
CallAt(at, c, n, m) ==
  /\ at \in {"copy", "copying"} => c = "write"
  /\ at \in {"flush", "flushWait"} => c \in {"write", "read", "flush", "sync", "channel", "mark"}
  /\ at \in {"mark", "markWait"} => c = "mark"
  /\ at = "sync" => c \in {"sync", "channel"}
  /\ at = "swap" => c = "channel"
  /\ at \in {"fetch", "take", "taking", "arm", "await"} => c \in {"read", "poll"}
  /\ at # "idle" /\ c \in {"read", "poll"} => n > 0
  /\ at \in {"copying", "taking"} => m <= n

Naps == {"test", "gap", "asleep"}

ThreadType ==
  /\ pc \in [Threads -> Places]
  /\ call \in [Threads -> AllCalls]
  /\ left \in [Threads -> 0..MaxWrite] /\ got \in [Threads -> 0..MaxWrite]
  /\ target \in [Threads -> ChanIds] /\ signal \in [Threads -> BOOLEAN]
  /\ forced \in SUBSET Threads
  /\ round \in [Threads -> Rounds] /\ nap \in [Threads -> Naps]
  /\ \A t \in Threads : /\ CallAt(pc[t], call[t], left[t], round[t].n)
                        /\ got[t] + left[t] <= MaxWrite

BaseInv == BaseType /\ TimeType /\ ChanType /\ ThreadType

\* The output ring; the buffer being filled has its full length.
OutType ==
  /\ first_out_idx \in 0..(NOut - 1) /\ next_out_idx \in 0..(NOut - 1)
  /\ out_count \in [0..(NOut - 1) -> 0..PageSize]
  /\ out_page \in [0..(NOut - 1) -> [1..PageSize -> Item]]
  /\ out_off \in 0..PageSize
  /\ out_count[next_out_idx] = PageSize

\* The buffer and the offset are what the thread that copies has found.
Copying ==
  \A t \in Threads :
    pc[t] = "copying" => round[t] = Round(left[t], next_out_idx, out_off, PageSize)

OutInv == OutType /\ sent \in Seq(Item) /\ taken \in Seq(Item) /\ Copying

\* The input ring; the buffer being read is never used up.
InType ==
  /\ first_in_idx \in 0..(NIn - 1) /\ next_in_idx \in 0..(NIn - 1)
  /\ in_count \in [0..(NIn - 1) -> 1..PageSize]
  /\ in_page \in [0..(NIn - 1) -> [1..PageSize -> Item]]
  /\ in_off \in 0..(PageSize - 1)
  /\ made \in 0..MaxMade
  /\ InEmpty => in_off = 0
  /\ ~InEmpty => in_off < in_count[first_in_idx]

\* There is a buffer to read, and it and the offset are what the thread that
\* copies has found.
Taking ==
  \A t \in Threads :
    /\ pc[t] \in {"take", "taking"} => ~InEmpty
    /\ pc[t] = "taking" =>
         round[t] = Round(left[t], first_in_idx, in_off, in_count[first_in_idx])

InInv == InType /\ received \in Seq(Item) /\ Taking

OutSide == BaseInv /\ OutInv
InSide == BaseInv /\ InInv

\* One thread at a time uses the buffer to fill: from the choice of a place in it
\* to the end of the flush or the mark.
SendPlaces == {"copy", "copying", "flush", "flushWait", "mark", "markWait"}
OneSender == \A t, u \in Threads : pc[t] \in SendPlaces /\ pc[u] \in SendPlaces => t = u

\* One thread at a time uses the buffer to read: from the test of the ring to the
\* end of the copy.
TakePlaces == {"take", "taking"}
OneReader == \A t, u \in Threads : pc[t] \in TakePlaces /\ pc[u] \in TakePlaces => t = u

\* What a round of a loop copies.
LEMMA FittingIs ==
  ASSUME NEW n \in Nat, NEW off \in Nat, NEW siz \in Nat
  PROVE  /\ Fitting(n, off, siz) \in 0..n
         /\ off <= siz => Fitting(n, off, siz) = IF n < siz - off THEN n ELSE siz - off
BY DEF Fitting

\* A round of a loop has its type.
LEMMA RoundIs ==
  ASSUME NEW n \in 0..MaxWrite, NEW idx \in Nat, NEW off \in Nat, NEW siz \in Nat
  PROVE  /\ Round(n, idx, off, siz) \in Rounds
         /\ Round(n, idx, off, siz).n <= n
<1>1. n \in Nat /\ MaxWrite \in Nat
  BY ConstantsAssumption
<1>2. Fitting(n, off, siz) \in 0..n
  BY <1>1, FittingIs
<1>3. Fitting(n, off, siz) \in 0..MaxWrite /\ Fitting(n, off, siz) <= n
  BY <1>1, <1>2
<1>. QED BY <1>3 DEF Round, Rounds

\* A call starts.
LEMMA StartType ==
  ASSUME ThreadType, NEW t \in Threads, NEW what, NEW at \in Places, NEW n \in 0..MaxWrite,
         NEW c \in ChanIds, Start(t, what, at, n, c), CallAt(at, what, n, round[t].n)
  PROVE  ThreadType'
<1>1. what \in AllCalls
  BY ConstantsAssumption DEF Start
<1>2. /\ pc' \in [Threads -> Places] /\ call' \in [Threads -> AllCalls]
      /\ left' \in [Threads -> 0..MaxWrite] /\ got' \in [Threads -> 0..MaxWrite]
      /\ target' \in [Threads -> ChanIds] /\ signal' \in [Threads -> BOOLEAN]
      /\ forced' \in SUBSET Threads
      /\ round' \in [Threads -> Rounds] /\ nap' \in [Threads -> Naps]
  BY <1>1, ConstantsAssumption DEF Start, ThreadType
<1>3. \A u \in Threads : /\ CallAt(pc'[u], call'[u], left'[u], round'[u].n)
                        /\ got'[u] + left'[u] <= MaxWrite
  <2>. TAKE u \in Threads
  <2>1. CASE u = t
    <3>1. /\ pc'[u] = at /\ call'[u] = what /\ left'[u] = n /\ got'[u] = 0
          /\ round'[u] = round[t]
      BY <2>1 DEF Start, ThreadType
    <3>. QED BY <3>1, ConstantsAssumption
  <2>2. CASE u # t
    <3>1. /\ pc'[u] = pc[u] /\ call'[u] = call[u] /\ left'[u] = left[u] /\ got'[u] = got[u]
          /\ round'[u] = round[u]
      BY <2>2 DEF Start, ThreadType
    <3>. QED BY <3>1 DEF ThreadType
  <2>. QED BY <2>1, <2>2
<1>. QED BY <1>2, <1>3 DEF ThreadType

\* A call goes on at another place.
LEMMA GotoType ==
  ASSUME ThreadType, NEW t \in Threads, NEW at \in Places, Goto(t, at),
         CallAt(at, call[t], left[t], round[t].n)
  PROVE  ThreadType'
<1>1. pc' \in [Threads -> Places]
  BY DEF Goto, ThreadType
<1>2. \A u \in Threads : CallAt(pc'[u], call[u], left[u], round[u].n)
  <2>. TAKE u \in Threads
  <2>1. pc'[u] = IF u = t THEN at ELSE pc[u]
    BY DEF Goto, ThreadType
  <2>. QED BY <2>1 DEF ThreadType
<1>. QED BY <1>1, <1>2 DEF Goto, ThreadType

\* A call returns.
LEMMA ReturnType ==
  ASSUME ThreadType, NEW t \in Threads, Return(t)
  PROVE  ThreadType'
<1>1. /\ pc' \in [Threads -> Places] /\ signal' \in [Threads -> BOOLEAN]
      /\ forced' \in SUBSET Threads
  BY DEF Return, ThreadType, Places
<1>2. \A u \in Threads : CallAt(pc'[u], call[u], left[u], round[u].n)
  <2>. TAKE u \in Threads
  <2>1. pc'[u] = IF u = t THEN "idle" ELSE pc[u]
    BY DEF Return, ThreadType
  <2>2. CallAt("idle", call[u], left[u], round[u].n)
    BY DEF CallAt
  <2>. QED BY <2>1, <2>2 DEF ThreadType
<1>. QED BY <1>1, <1>2 DEF Return, ThreadType

\* What follows a flush fits the call.
LEMMA AfterFlushType ==
  ASSUME ThreadType, NEW t \in Threads, pc[t] \in {"flush", "flushWait"}, NEW ok \in BOOLEAN
  PROVE  /\ AfterFlush(t, ok) \in Places
         /\ CallAt(AfterFlush(t, ok), call[t], left[t], round[t].n)
<1>1. CallAt(pc[t], call[t], left[t], round[t].n)
  BY DEF ThreadType
<1>2. call[t] \in {"write", "read", "flush", "sync", "channel", "mark"}
  BY <1>1 DEF CallAt
<1>3. CASE call[t] = "write"
  BY <1>3 DEF AfterFlush, Places, CallAt
<1>4. CASE call[t] = "read"
  <2>1. left[t] > 0
    BY <1>1, <1>4 DEF CallAt
  <2>. QED BY <1>4, <2>1 DEF AfterFlush, Places, CallAt
<1>5. CASE call[t] \in {"flush", "sync", "channel", "mark"}
  BY <1>5 DEF AfterFlush, Places, CallAt
<1>. QED BY <1>2, <1>3, <1>4, <1>5

\* Threads of which some fall asleep or wake up.
LEMMA ThreadSame ==
  ASSUME ThreadType, UNCHANGED callVars, nap' \in [Threads -> Naps]
  PROVE  ThreadType'
BY DEF ThreadType, callVars

\* A wake-up.
LEMMA WakeUpType == ThreadType /\ WakeUp => nap' \in [Threads -> Naps]
BY DEF ThreadType, WakeUp, Naps

\* A call that is started.
LEMMA StartsType ==
  ASSUME BaseInv, NEW t \in Threads,
         \/ \E n \in 1..MaxWrite : Write(t, n) \/ \E w \in {"read", "poll"} : Read(t, w, n)
         \/ FlushCall(t) \/ SyncCall(t) \/ MarkCall(t)
         \/ \E c \in ChanIds : ChannelCall(t, c)
  PROVE  ThreadType'
<1>1. channel \in ChanIds /\ MaxWrite \in Nat /\ 0 \in 0..MaxWrite /\ ThreadType
  BY ConstantsAssumption DEF BaseInv, ChanType
<1>2. CASE \E n \in 1..MaxWrite : Write(t, n)
  <2>1. PICK n \in 1..MaxWrite : Start(t, "write", "copy", n, channel)
    BY <1>2 DEF Write
  <2>2. CallAt("copy", "write", n, round[t].n) /\ n \in 0..MaxWrite /\ "copy" \in Places
    BY <1>1 DEF CallAt, Places
  <2>. QED BY <1>1, <2>1, <2>2, StartType
<1>3. CASE \E n \in 1..MaxWrite, w \in {"read", "poll"} : Read(t, w, n)
  <2>1. PICK n \in 1..MaxWrite, w \in {"read", "poll"} : Start(t, w, "fetch", n, channel)
    BY <1>3 DEF Read
  <2>2. CallAt("fetch", w, n, round[t].n) /\ n \in 0..MaxWrite /\ "fetch" \in Places
    BY <1>1 DEF CallAt, Places
  <2>. QED BY <1>1, <2>1, <2>2, StartType
<1>4. CASE FlushCall(t)
  <2>1. Start(t, "flush", "flush", 0, channel)
    BY <1>4 DEF FlushCall
  <2>2. CallAt("flush", "flush", 0, round[t].n) /\ "flush" \in Places
    BY DEF CallAt, Places
  <2>. QED BY <1>1, <2>1, <2>2, StartType
<1>5. CASE SyncCall(t)
  <2>1. Start(t, "sync", FlushOr(t, "sync"), 0, channel)
    BY <1>5 DEF SyncCall
  <2>2. CallAt(FlushOr(t, "sync"), "sync", 0, round[t].n) /\ FlushOr(t, "sync") \in Places
    BY DEF CallAt, Places, FlushOr
  <2>. QED BY <1>1, <2>1, <2>2, StartType
<1>6. CASE MarkCall(t)
  <2>1. Start(t, "mark", FlushOr(t, "mark"), 0, channel)
    BY <1>6 DEF MarkCall
  <2>2. CallAt(FlushOr(t, "mark"), "mark", 0, round[t].n) /\ FlushOr(t, "mark") \in Places
    BY DEF CallAt, Places, FlushOr
  <2>. QED BY <1>1, <2>1, <2>2, StartType
<1>7. CASE \E c \in ChanIds : ChannelCall(t, c)
  <2>1. PICK c \in ChanIds : Start(t, "channel", FlushOr(t, "sync"), 0, c)
    BY <1>7 DEF ChannelCall
  <2>2. CallAt(FlushOr(t, "sync"), "channel", 0, round[t].n) /\ FlushOr(t, "sync") \in Places
    BY DEF CallAt, Places, FlushOr
  <2>. QED BY <1>1, <2>1, <2>2, StartType
<1>. QED BY <1>2, <1>3, <1>4, <1>5, <1>6, <1>7

\* A call that goes on at another place or returns.
LEMMA MovesType ==
  ASSUME BaseInv, NEW t \in Threads,
         \/ RingSleep(t) \/ Flush(t) \/ PutMark(t) \/ Interrupted(t) \/ SyncDone(t)
         \/ SwitchDone(t) \/ FetchNone(t) \/ FetchSome(t) \/ Arm(t) \/ Wake(t)
         \/ Doze(t) \/ FallAsleep(t)
  PROVE  ThreadType'
<1>1. ThreadType /\ CallAt(pc[t], call[t], left[t], round[t].n)
  BY DEF BaseInv, ThreadType
<1>2. CASE Return(t)
  BY <1>1, <1>2, ReturnType
<1>3. CASE RingSleep(t)
  <2>1. PICK at \in {"flushWait", "markWait"} :
          Goto(t, at) /\ at = IF pc[t] = "flush" THEN "flushWait" ELSE "markWait"
    BY <1>3 DEF RingSleep
  <2>2. CallAt(at, call[t], left[t], round[t].n) /\ at \in Places
    BY <1>1, <1>3, <2>1 DEF RingSleep, CallAt, Places
  <2>. QED BY <1>1, <2>1, <2>2, GotoType
<1>4. ASSUME NEW ok \in BOOLEAN, pc[t] \in {"flush", "flushWait"},
             Continue(t, AfterFlush(t, ok))
      PROVE  ThreadType'
  <2>1. /\ AfterFlush(t, ok) \in Places
        /\ CallAt(AfterFlush(t, ok), call[t], left[t], round[t].n)
    BY <1>1, <1>4, AfterFlushType
  <2>2. Return(t) \/ Goto(t, AfterFlush(t, ok))
    BY <1>4 DEF Continue
  <2>. HIDE DEF AfterFlush
  <2>. QED BY <1>1, <1>2, <2>1, <2>2, GotoType
<1>5. CASE Flush(t)
  BY <1>4, <1>5 DEF Flush
<1>6. CASE Interrupted(t)
  BY <1>2, <1>4, <1>6 DEF Interrupted
<1>7. CASE SyncDone(t)
  <2>1. Return(t) \/ (Goto(t, "swap") /\ CallAt("swap", call[t], left[t], round[t].n))
    BY <1>7 DEF SyncDone, CallAt
  <2>2. "swap" \in Places
    BY DEF Places
  <2>. QED BY <1>1, <1>2, <2>1, <2>2, GotoType
<1>8. CASE FetchNone(t)
  <2>1. PICK at \in {"arm", "flush"} : Return(t) \/ (Goto(t, at) /\ call[t] # "poll")
    BY <1>8 DEF FetchNone, FlushOr
  <2>2. call[t] \in {"read", "poll"} /\ left[t] > 0
    BY <1>1, <1>8 DEF FetchNone, CallAt
  <2>3. at \in Places /\ (call[t] # "poll" => CallAt(at, call[t], left[t], round[t].n))
    BY <2>2 DEF Places, CallAt
  <2>. QED BY <1>1, <1>2, <2>1, <2>3, GotoType
<1>9. CASE Arm(t)
  <2>1. Goto(t, "await") /\ CallAt("await", call[t], left[t], round[t].n) /\ "await" \in Places
    BY <1>1, <1>9 DEF Arm, CallAt, Places
  <2>. QED BY <1>1, <2>1, GotoType
<1>10. CASE Wake(t)
  <2>1. Return(t) \/ Goto(t, "take")
    BY <1>10 DEF Wake
  <2>2. CallAt("take", call[t], left[t], round[t].n) /\ "take" \in Places
    BY <1>1, <1>10 DEF Wake, CallAt, Places
  <2>. QED BY <1>1, <1>2, <2>1, <2>2, GotoType
<1>11. CASE PutMark(t) \/ SwitchDone(t)
  BY <1>2, <1>11 DEF PutMark, SwitchDone
<1>12. CASE FetchSome(t)
  <2>1. Goto(t, "take") /\ CallAt("take", call[t], left[t], round[t].n) /\ "take" \in Places
    BY <1>1, <1>12 DEF FetchSome, CallAt, Places
  <2>. QED BY <1>1, <2>1, GotoType
<1>13. CASE Doze(t) \/ FallAsleep(t)
  <2>1. UNCHANGED callVars /\ nap' \in [Threads -> Naps]
    BY <1>1, <1>13 DEF Doze, FallAsleep, ThreadType, Naps
  <2>. QED BY <1>1, <2>1, ThreadSame
<1>. QED BY <1>3, <1>5, <1>6, <1>7, <1>8, <1>9, <1>10, <1>11, <1>12, <1>13

\* A round of one of the loops begins.
LEMMA BeginType ==
  ASSUME BaseInv, NEW t \in Threads, Copy(t) \/ Fetch(t)
  PROVE  ThreadType'
<1>1. /\ ThreadType /\ CallAt(pc[t], call[t], left[t], round[t].n) /\ left[t] \in 0..MaxWrite
      /\ BaseType
  BY DEF BaseInv, ThreadType
<1>2. PICK at \in {"copying", "taking", "wild"}, r \in Rounds :
        /\ pc' = [pc EXCEPT ![t] = at] /\ round' = [round EXCEPT ![t] = r]
        /\ r.n <= left[t] /\ CallAt(at, call[t], left[t], r.n)
        /\ UNCHANGED <<call, left, target, got, signal, nap, forced>>
  <2>1. CASE Copy(t)
    <3>. DEFINE siz == out_count[next_out_idx]
                r == Round(left[t], next_out_idx, out_off, siz)
                at == IF out_off > siz THEN "wild" ELSE "copying"
    <3>1. next_out_idx \in Nat /\ out_off \in Nat /\ siz \in Nat
      BY <1>1, ConstantsAssumption DEF BaseType
    <3>2. r \in Rounds /\ r.n <= left[t]
      BY <1>1, <3>1, RoundIs
    <3>3. /\ pc' = [pc EXCEPT ![t] = at] /\ round' = [round EXCEPT ![t] = r]
          /\ UNCHANGED <<call, left, target, got, signal, nap, forced>> /\ pc[t] = "copy"
      BY <2>1 DEF Copy
    <3>4. at \in {"copying", "wild"}
      OBVIOUS
    <3>. HIDE DEF r, at
    <3>5. CallAt(at, call[t], left[t], r.n)
      BY <1>1, <3>2, <3>3, <3>4 DEF CallAt
    <3>. QED BY <3>2, <3>3, <3>4, <3>5
  <2>2. CASE Fetch(t)
    <3>. DEFINE siz == in_count[first_in_idx]
                r == Round(left[t], first_in_idx, in_off, siz)
                at == IF in_off > siz THEN "wild" ELSE "taking"
    <3>1. first_in_idx \in Nat /\ in_off \in Nat /\ siz \in Nat
      BY <1>1, ConstantsAssumption DEF BaseType
    <3>2. r \in Rounds /\ r.n <= left[t]
      BY <1>1, <3>1, RoundIs
    <3>3. /\ pc' = [pc EXCEPT ![t] = at] /\ round' = [round EXCEPT ![t] = r]
          /\ UNCHANGED <<call, left, target, got, signal, nap, forced>> /\ pc[t] = "take"
      BY <2>2 DEF Fetch
    <3>4. at \in {"taking", "wild"}
      OBVIOUS
    <3>. HIDE DEF r, at
    <3>5. CallAt(at, call[t], left[t], r.n)
      BY <1>1, <3>2, <3>3, <3>4 DEF CallAt
    <3>. QED BY <3>2, <3>3, <3>4, <3>5
  <2>. QED BY <2>1, <2>2
<1>3. pc' \in [Threads -> Places] /\ round' \in [Threads -> Rounds]
  BY <1>1, <1>2 DEF ThreadType, Places
<1>4. \A u \in Threads : CallAt(pc'[u], call[u], left[u], round'[u].n)
  <2>. TAKE u \in Threads
  <2>1. CASE u = t
    <3>1. pc'[u] = at /\ round'[u] = r
      BY <1>1, <1>2, <2>1 DEF ThreadType
    <3>. QED BY <1>2, <2>1, <3>1
  <2>2. CASE u # t
    <3>1. pc'[u] = pc[u] /\ round'[u] = round[u]
      BY <1>1, <1>2, <2>2 DEF ThreadType
    <3>. QED BY <1>1, <3>1 DEF ThreadType
  <2>. QED BY <2>1, <2>2
<1>. QED BY <1>1, <1>2, <1>3, <1>4 DEF ThreadType

\* A round of one of the loops ends.
LEMMA EndType ==
  ASSUME BaseInv, NEW t \in Threads, Copied(t) \/ Fetched(t)
  PROVE  ThreadType'
<1>. DEFINE n == round[t].n
<1>1. /\ ThreadType /\ CallAt(pc[t], call[t], left[t], n) /\ left[t] \in 0..MaxWrite
      /\ got[t] \in 0..MaxWrite /\ got[t] + left[t] <= MaxWrite
      /\ n \in 0..MaxWrite /\ MaxWrite \in Nat
  BY ConstantsAssumption DEF BaseInv, ThreadType, Rounds
<1>2. n \in 0..left[t]
  <2>1. pc[t] \in {"copying", "taking"}
    BY DEF Copied, Fetched
  <2>. HIDE DEF n
  <2>. QED BY <1>1, <2>1 DEF CallAt
<1>3. PICK at \in {"idle", "flush", "copy", "fetch"} :
        /\ pc' = [pc EXCEPT ![t] = at] /\ left' = [left EXCEPT ![t] = left[t] - n]
        /\ \/ got' = got
           \/ got' = [got EXCEPT ![t] = got[t] + n]
        /\ CallAt(at, call[t], left[t] - n, n)
        /\ UNCHANGED <<call, target, round, nap>>
        /\ signal' \in [Threads -> BOOLEAN] /\ forced' \in SUBSET Threads
  <2>1. CASE Copied(t)
    <3>. DEFINE off == out_off + n
                at == CASE off = out_count[round[t].idx] -> "flush"
                        [] off # out_count[round[t].idx] /\ left[t] > n -> "copy"
                        [] OTHER -> "idle"
    <3>1. call[t] = "write"
      BY <1>1, <2>1 DEF Copied, CallAt
    <3>2. at \in {"idle", "flush", "copy"}
      OBVIOUS
    <3>3. /\ pc' = [pc EXCEPT ![t] = at] /\ left' = [left EXCEPT ![t] = left[t] - n]
          /\ UNCHANGED <<call, target, got, round, nap, forced>>
          /\ signal' = [signal EXCEPT ![t] = @ /\ at # "idle"]
      BY <2>1 DEF Copied
    <3>. HIDE DEF n, at
    <3>4. CallAt(at, call[t], left[t] - n, n)
      BY <3>1, <3>2 DEF CallAt
    <3>5. signal' \in [Threads -> BOOLEAN] /\ forced' \in SUBSET Threads
      BY <1>1, <3>3 DEF ThreadType
    <3>. QED BY <3>2, <3>3, <3>4, <3>5
  <2>2. CASE Fetched(t)
    <3>. DEFINE at == IF left[t] = n THEN "idle" ELSE "fetch"
    <3>1. call[t] \in {"read", "poll"}
      BY <1>1, <2>2 DEF Fetched, CallAt
    <3>2. at \in {"idle", "fetch"} /\ CallAt(at, call[t], left[t] - n, n)
      <4>. HIDE DEF n
      <4>. QED BY <1>1, <1>2, <3>1 DEF CallAt
    <3>3. /\ pc' = [pc EXCEPT ![t] = at] /\ left' = [left EXCEPT ![t] = left[t] - n]
          /\ got' = [got EXCEPT ![t] = got[t] + n]
          /\ UNCHANGED <<call, target, round, nap>>
      BY <2>2 DEF Fetched
    <3>4. signal' \in [Threads -> BOOLEAN] /\ forced' \in SUBSET Threads
      BY <2>2, <1>1 DEF Fetched, ThreadType
    <3>. HIDE DEF n, at
    <3>. QED BY <3>2, <3>3, <3>4
  <2>. QED BY <2>1, <2>2
<1>. HIDE DEF n
<1>4. /\ pc' \in [Threads -> Places] /\ left' \in [Threads -> 0..MaxWrite]
      /\ got' \in [Threads -> 0..MaxWrite]
  BY <1>1, <1>2, <1>3 DEF ThreadType, Places
<1>5. \A u \in Threads : /\ CallAt(pc'[u], call'[u], left'[u], round'[u].n)
                        /\ got'[u] + left'[u] <= MaxWrite
  <2>. TAKE u \in Threads
  <2>1. CASE u = t
    <3>1. /\ pc'[u] = at /\ left'[u] = left[t] - n /\ got'[u] \in {got[t], got[t] + n}
          /\ round'[u].n = n
      BY <1>1, <1>3, <2>1 DEF ThreadType, n
    <3>. QED BY <1>1, <1>2, <1>3, <2>1, <3>1
  <2>2. CASE u # t
    <3>1. /\ pc'[u] = pc[u] /\ left'[u] = left[u] /\ got'[u] = got[u] /\ call'[u] = call[u]
          /\ round'[u] = round[u]
      BY <1>1, <1>3, <2>2 DEF ThreadType
    <3>. QED BY <1>1, <3>1 DEF ThreadType
  <2>. QED BY <2>1, <2>2
<1>. QED BY <1>1, <1>3, <1>4, <1>5 DEF ThreadType

\* The threads keep their types.
LEMMA ThreadKept ==
  ASSUME BaseInv, [Next]_vars
  PROVE  ThreadType'
<1>0. ThreadType
  BY DEF BaseInv
<1>1. CASE UNCHANGED threadVars
  <2>1. UNCHANGED callVars /\ nap' \in [Threads -> Naps]
    BY <1>0, <1>1 DEF threadVars, ThreadType
  <2>. QED BY <1>0, <2>1, ThreadSame
<1>2. ASSUME NEW t \in Threads, Signal(t) PROVE ThreadType'
  BY <1>0, <1>2 DEF ThreadType, Signal, Naps
<1>3. CASE ForceTimeout
  <2>1. nap' \in [Threads -> Naps] /\ forced' \in SUBSET Threads
    BY <1>0, <1>3, WakeUpType DEF ForceTimeout
  <2>. QED BY <1>0, <1>3, <2>1 DEF ThreadType, ForceTimeout
<1>4. CASE UNCHANGED vars
  BY <1>1, <1>4 DEF vars
<1>5. CASE TimerFires \/ BoardTakes \/ (\E n \in 1..PageSize : BoardMakes(n))
  <2>1. UNCHANGED callVars /\ WakeUp
    BY <1>5 DEF TimerFires, BoardTakes, BoardMakes
  <2>. QED BY <1>0, <2>1, WakeUpType, ThreadSame
<1>6. CASE (\E v \in Timeouts : SetTimeout(v)) \/ BoardSwitches \/ Reopen
  BY <1>1, <1>6 DEF SetTimeout, BoardSwitches, Reopen
<1>. QED BY <1>2, <1>3, <1>4, <1>5, <1>6, StartsType, MovesType, BeginType, EndType
         DEF Next, Step

\* An index, a length or an offset that is changed keeps its type.
LEMMA BaseKept ==
  ASSUME BaseInv, [Next]_vars
  PROVE  BaseType'
<1>1. /\ BaseType /\ ThreadType /\ NOut \in Nat /\ NOut > 1 /\ NIn \in Nat /\ NIn > 1
      /\ PageSize \in Nat /\ PageSize > 0
  BY ConstantsAssumption DEF BaseInv
<1>2. CASE UNCHANGED <<outVars, inVars>>
  BY <1>1, <1>2 DEF outVars, inVars, BaseType
<1>3. ASSUME NEW t \in Threads, Copied(t) PROVE BaseType'
  <2>1. round[t].n \in Nat
    BY <1>1, ConstantsAssumption DEF ThreadType, Rounds
  <2>2. out_off' = out_off + round[t].n /\ UNCHANGED <<next_out_idx, out_count, inVars>>
    BY <1>3 DEF Copied
  <2>. QED BY <1>1, <2>1, <2>2 DEF BaseType, inVars
<1>4. ASSUME NEW n \in Nat, Publish(n), UNCHANGED inVars PROVE BaseType'
  <2>1. NextOut(next_out_idx) \in 0..(NOut - 1)
    BY <1>1, AfterIs DEF BaseType, NextOut
  <2>. HIDE DEF NextOut
  <2>. QED BY <1>1, <1>4, <2>1 DEF BaseType, Publish, inVars
<1>5. ASSUME NEW t \in Threads, Flush(t) \/ PutMark(t) PROVE BaseType'
  <2>1. out_off \in Nat /\ 0 \in Nat
    BY <1>1 DEF BaseType
  <2>. QED BY <1>4, <1>5, <2>1 DEF Flush, PutMark
<1>6. ASSUME NEW t \in Threads, Fetched(t) PROVE BaseType'
  <2>1. round[t].n \in Nat /\ Use(round[t].siz, round[t].n) /\ UNCHANGED outVars
    BY <1>1, <1>6, ConstantsAssumption DEF ThreadType, Rounds, Fetched
  <2>2. NextIn(first_in_idx) \in 0..(NIn - 1)
    BY <1>1, AfterIs DEF BaseType, NextIn
  <2>. HIDE DEF NextIn
  <2>3. in_off + round[t].n \in Nat /\ PageSize \in 1..PageSize /\ 0 \in Nat
    BY <1>1, <2>1 DEF BaseType
  <2>4. /\ in_off' \in Nat /\ first_in_idx' \in 0..(NIn - 1)
        /\ in_count' \in [0..(NIn - 1) -> 1..PageSize]
    <3>1. CASE in_off + round[t].n = round[t].siz
      BY <1>1, <2>1, <2>2, <2>3, <3>1 DEF BaseType, Use
    <3>2. CASE in_off + round[t].n # round[t].siz
      BY <1>1, <2>1, <2>3, <3>2 DEF BaseType, Use
    <3>. QED BY <3>1, <3>2
  <2>. QED BY <1>1, <2>1, <2>4 DEF BaseType, outVars
<1>7. CASE BoardTakes \/ (\E n \in 1..PageSize : BoardMakes(n))
  BY <1>1, <1>7 DEF BoardTakes, BoardMakes, BaseType, inVars, outVars
<1>8. CASE Reopen
  BY <1>1, <1>8 DEF Reopen, BaseType
<1>9. ASSUME NEW t \in Threads, Step(t) PROVE BaseType'
  BY <1>2, <1>3, <1>5, <1>6, <1>9
  DEF Step, Copy, Doze, FallAsleep, RingSleep, Interrupted, SyncDone, SwitchDone, FetchNone,
      FetchSome, Fetch, Arm, Wake
<1>10. ASSUME NEW t \in Threads,
              \/ \E n \in 1..MaxWrite : Write(t, n) \/ \E w \in {"read", "poll"} : Read(t, w, n)
              \/ FlushCall(t) \/ SyncCall(t) \/ MarkCall(t)
              \/ \E c \in ChanIds : ChannelCall(t, c)
              \/ Signal(t)
       PROVE  BaseType'
  BY <1>2, <1>10 DEF Write, Read, FlushCall, SyncCall, MarkCall, ChannelCall, Signal
<1>11. CASE TimerFires \/ (\E v \in Timeouts : SetTimeout(v)) \/ ForceTimeout
            \/ BoardSwitches \/ UNCHANGED vars
  BY <1>2, <1>11 DEF TimerFires, SetTimeout, ForceTimeout, BoardSwitches, vars
<1>. QED BY <1>7, <1>8, <1>9, <1>10, <1>11 DEF Next

\* The timer and the channel numbers keep their types.
LEMMA TimeChanKept ==
  ASSUME BaseInv, [Next]_vars
  PROVE  TimeType' /\ ChanType'
<1>1. TimeType /\ ChanType
  BY DEF BaseInv
<1>2. ASSUME NEW t \in Threads, Step(t) PROVE TimeType' /\ ChanType'
  <2>1. target[t] \in ChanIds
    BY DEF BaseInv, ThreadType
  <2>2. CASE SyncDone(t)
    BY <1>1, <2>1, <2>2 DEF SyncDone, timeVars, chanVars, TimeType, ChanType
  <2>3. CASE Arm(t) \/ Wake(t)
    BY <1>1, <2>3 DEF Arm, Wake, chanVars, TimeType, ChanType
  <2>4. CASE Copy(t) \/ Copied(t) \/ Doze(t) \/ FallAsleep(t) \/ RingSleep(t) \/ Flush(t)
             \/ PutMark(t) \/ Interrupted(t) \/ SwitchDone(t) \/ FetchNone(t) \/ FetchSome(t)
             \/ Fetch(t) \/ Fetched(t)
    BY <1>1, <2>4 DEF Copy, Copied, Doze, FallAsleep, RingSleep, Flush, PutMark, Interrupted,
                      SwitchDone, FetchNone, FetchSome, Fetch, Fetched, timeVars, chanVars,
                      TimeType, ChanType
  <2>. QED BY <1>2, <2>2, <2>3, <2>4 DEF Step
<1>3. ASSUME NEW t \in Threads,
             \/ \E n \in 1..MaxWrite : Write(t, n) \/ \E w \in {"read", "poll"} : Read(t, w, n)
             \/ FlushCall(t) \/ SyncCall(t) \/ MarkCall(t)
             \/ \E c \in ChanIds : ChannelCall(t, c)
             \/ Signal(t)
      PROVE  TimeType' /\ ChanType'
  BY <1>1, <1>3 DEF Write, Read, FlushCall, SyncCall, MarkCall, ChannelCall, Signal,
                    timeVars, chanVars, TimeType, ChanType
<1>4. CASE TimerFires \/ (\E v \in Timeouts : SetTimeout(v)) \/ ForceTimeout
           \/ BoardSwitches
  BY <1>1, <1>4 DEF TimerFires, SetTimeout, ForceTimeout, BoardSwitches, timeVars, chanVars,
                    TimeType, ChanType
<1>5. CASE BoardTakes \/ (\E n \in 1..PageSize : BoardMakes(n))
  BY <1>1, <1>5 DEF BoardTakes, BoardMakes, timeVars, chanVars, TimeType, ChanType
<1>6. CASE Reopen
  BY <1>6, ConstantsAssumption DEF Reopen, TimeType, ChanType, Timeouts
<1>7. CASE UNCHANGED vars
  BY <1>1, <1>7 DEF vars, timeVars, chanVars, TimeType, ChanType
<1>. QED BY <1>2, <1>3, <1>4, <1>5, <1>6, <1>7 DEF Next

\* At the start every thread is idle.
LEMMA BaseInit == Init => BaseInv
<1>. SUFFICES ASSUME Init PROVE BaseInv
  OBVIOUS
<1>1. /\ NOut \in Nat /\ NOut > 1 /\ NIn \in Nat /\ NIn > 1 /\ PageSize \in Nat /\ PageSize > 0
      /\ MaxWrite \in Nat /\ 0 \in 0..MaxWrite /\ 0 \in Nat
  BY ConstantsAssumption
<1>2. BaseType /\ TimeType /\ ChanType
  <2>1. 0 \in 0..(NOut - 1) /\ 0 \in 0..(NIn - 1) /\ PageSize \in 1..PageSize
    BY <1>1
  <2>2. BaseType
    BY <1>1, <2>1 DEF BaseType, Init
  <2>3. TimeType /\ ChanType
    BY ConstantsAssumption DEF TimeType, ChanType, Timeouts, Init
  <2>. QED BY <2>2, <2>3
<1>3. Round(0, 0, 0, 0) \in Rounds
  BY <1>1, RoundIs
<1>4. \A t \in Threads : round[t] = Round(0, 0, 0, 0)
  BY DEF Init
<1>5. round \in [Threads -> Rounds]
  BY <1>3 DEF Init
<1>6. \A t \in Threads : CallAt(pc[t], call[t], left[t], round[t].n)
  BY DEF Init, CallAt
<1>7. ThreadType
  BY <1>1, <1>5, <1>6, ConstantsAssumption DEF ThreadType, Places, AllCalls, Naps, Init
<1>. QED BY <1>2, <1>7 DEF BaseInv

\* These types hold in every reachable state.
LEMMA BaseInvariant == Spec => []BaseInv
<1>1. BaseInv /\ [Next]_vars => BaseInv'
  BY BaseKept, TimeChanKept, ThreadKept DEF BaseInv
<1>. QED BY <1>1, BaseInit, PTL DEF Spec

-----------------------------------------------------------------------------
(* The output half                                                         *)

Content(n, page) == IF n = 0 THEN <<Mark>> ELSE SubSeq(page, 1, n)

OutBuf(count, page) == [i \in 0..(NOut - 1) |-> Content(count[i], page[i])]

\* The marks, junk and bytes are items.
LEMMA Items ==
  /\ Mark \in Item /\ Junk \in Item
  /\ \A c \in ChanIds, n \in Nat : <<c, n>> \in Item
  /\ \A n \in Nat : n \in Item
BY DEF Item

\* The first items of a buffer.
LEMMA FirstItems ==
  ASSUME NEW page \in [1..PageSize -> Item], NEW n \in 0..PageSize
  PROVE  /\ SubSeq(page, 1, n) \in Seq(Item) /\ Len(SubSeq(page, 1, n)) = n
         /\ \A k \in 1..n : SubSeq(page, 1, n)[k] = page[k]
<1>1. n \in Int /\ 1 \in Int /\ \A k \in 1..n : page[k] \in Item
  BY ConstantsAssumption
<1>2. /\ SubSeq(page, 1, n) \in Seq(Item)
      /\ Len(SubSeq(page, 1, n)) = IF 1 <= n THEN n - 1 + 1 ELSE 0
      /\ \A k \in 1..(n - 1 + 1) : SubSeq(page, 1, n)[k] = page[1 + k - 1]
  BY <1>1, SubSeqProperties
<1>. QED BY <1>1, <1>2, ConstantsAssumption

\* The contents of the buffers of the output ring.
LEMMA ContentType ==
  ASSUME NEW count \in [0..(NOut - 1) -> 0..PageSize],
         NEW page \in [0..(NOut - 1) -> [1..PageSize -> Item]]
  PROVE  OutBuf(count, page) \in [0..(NOut - 1) -> Seq(Item)]
<1>. SUFFICES ASSUME NEW i \in 0..(NOut - 1) PROVE Content(count[i], page[i]) \in Seq(Item)
  BY DEF OutBuf
<1>1. <<Mark>> \in Seq(Item)
  BY Items
<1>2. SubSeq(page[i], 1, count[i]) \in Seq(Item)
  BY FirstItems
<1>. QED BY <1>1, <1>2 DEF Content

\* The published buffers as Held lists them.
Listed(first, next, count, page) ==
  LET ring == Indices(first, next, NOut)
  IN  [k \in DOMAIN ring |-> Content(count[ring[k]], page[ring[k]])]

\* The same without Indices.
LEMMA HeldIs ==
  ASSUME NEW first \in 0..(NOut - 1), NEW next \in 0..(NOut - 1), NEW count, NEW page
  PROVE  FlattenSeq(Listed(first, next, count, page))
           = Joined(first, next, NOut, OutBuf(count, page))
<1>. DEFINE ring == Indices(first, next, NOut)
<1>1. ring = [k \in 1..Between(first, next, NOut) |-> Ring(first, k, NOut)]
  BY IndicesAre, ConstantsAssumption
<1>2. \A k \in 1..Between(first, next, NOut) : Ring(first, k, NOut) \in 0..(NOut - 1)
  BY RingOther, ConstantsAssumption
<1>3. Listed(first, next, count, page)
        = Buffers(first, next, NOut, OutBuf(count, page))
  <2>1. \A k \in 1..Between(first, next, NOut) :
          OutBuf(count, page)[Ring(first, k, NOut)] = Content(count[ring[k]], page[ring[k]])
    BY <1>1, <1>2 DEF OutBuf
  <2>2. DOMAIN ring = 1..Between(first, next, NOut)
    BY <1>1
  <2>3. Listed(first, next, count, page)
          = [k \in DOMAIN ring |-> Content(count[ring[k]], page[ring[k]])]
    BY DEF Listed
  <2>. HIDE DEF ring
  <2>. QED BY <2>1, <2>2, <2>3 DEF Buffers
<1>. QED BY <1>3 DEF Joined

\* What the published buffers hold.
Published == Joined(first_out_idx, next_out_idx, NOut, OutBuf(out_count, out_page))
Filling == SubSeq(out_page[next_out_idx], 1, out_off)

\* Held is what the published buffers and the one being filled hold.
LEMMA HeldNow ==
  ASSUME OutType
  PROVE  Held = Published \o Filling /\ Published \in Seq(Item) /\ Filling \in Seq(Item)
         /\ Len(Filling) = out_off
<1>1. first_out_idx \in 0..(NOut - 1) /\ next_out_idx \in 0..(NOut - 1)
  BY DEF OutType
<1>2. Held = Published \o Filling
  <2>1. Held = FlattenSeq(Listed(first_out_idx, next_out_idx, out_count, out_page)) \o Filling
    BY DEF Held, Contents, Content, Listed, Filling
  <2>2. FlattenSeq(Listed(first_out_idx, next_out_idx, out_count, out_page)) = Published
    BY <1>1, HeldIs DEF Published
  <2>. QED BY <2>1, <2>2
<1>3. Published \in Seq(Item)
  <2>1. OutBuf(out_count, out_page) \in [0..(NOut - 1) -> Seq(Item)]
    BY ContentType DEF OutType
  <2>. QED BY <1>1, <2>1, BuffersType, ConstantsAssumption DEF Published
<1>4. Filling \in Seq(Item) /\ Len(Filling) = out_off
  BY FirstItems DEF Filling, OutType
<1>. QED BY <1>2, <1>3, <1>4

\* The same, after a step.
LEMMA HeldNext ==
  ASSUME OutType'
  PROVE  Held' = Published' \o Filling' /\ Published' \in Seq(Item) /\ Filling' \in Seq(Item)
         /\ Len(Filling') = out_off'
<1>1. first_out_idx' \in 0..(NOut - 1) /\ next_out_idx' \in 0..(NOut - 1)
  BY DEF OutType
<1>2. Held' = Published' \o Filling'
  <2>1. Held' = FlattenSeq(Listed(first_out_idx', next_out_idx', out_count', out_page')) \o Filling'
    BY DEF Held, Contents, Content, Listed, Filling
  <2>2. FlattenSeq(Listed(first_out_idx', next_out_idx', out_count', out_page')) = Published'
    BY <1>1, HeldIs DEF Published
  <2>. QED BY <2>1, <2>2
<1>3. Published' \in Seq(Item)
  <2>1. OutBuf(out_count', out_page') \in [0..(NOut - 1) -> Seq(Item)]
    BY ContentType DEF OutType
  <2>. QED BY <1>1, <2>1, BuffersType, ConstantsAssumption DEF Published
<1>4. Filling' \in Seq(Item) /\ Len(Filling') = out_off'
  BY FirstItems DEF Filling, OutType
<1>. QED BY <1>2, <1>3, <1>4

\* What two sequences put together begin and end with.
LEMMA SplitSeq ==
  ASSUME NEW T, NEW a \in Seq(T), NEW b \in Seq(T)
  PROVE  /\ a \o b \in Seq(T) /\ Len(a \o b) = Len(a) + Len(b)
         /\ SubSeq(a \o b, 1, Len(a)) = a
         /\ SubSeq(a \o b, Len(a) + 1, Len(a \o b)) = b
<1>1. /\ a \o b \in Seq(T) /\ Len(a \o b) = Len(a) + Len(b)
      /\ \A k \in 1..(Len(a) + Len(b)) :
           (a \o b)[k] = IF k <= Len(a) THEN a[k] ELSE b[k - Len(a)]
  BY ConcatProperties
<1>. DEFINE c == a \o b
<1>2. Len(a) \in Nat /\ Len(b) \in Nat /\ \A k \in 1..Len(c) : c[k] \in T
  BY <1>1, LenProperties, ElementOfSeq
<1>. HIDE DEF c
<1>3. SubSeq(c, 1, Len(a)) = a
  <2>1. \A k \in 1..Len(a) : c[k] \in T
    BY <1>1, <1>2 DEF c
  <2>2. /\ SubSeq(c, 1, Len(a)) \in Seq(T)
        /\ Len(SubSeq(c, 1, Len(a))) = IF 1 <= Len(a) THEN Len(a) - 1 + 1 ELSE 0
        /\ \A k \in 1..(Len(a) - 1 + 1) : SubSeq(c, 1, Len(a))[k] = c[1 + k - 1]
    BY <1>2, <2>1, SubSeqProperties
  <2>3. Len(SubSeq(c, 1, Len(a))) = Len(a)
    BY <1>2, <2>2
  <2>4. \A k \in 1..Len(a) : SubSeq(c, 1, Len(a))[k] = a[k]
    BY <1>1, <1>2, <2>2 DEF c
  <2>. QED BY <2>2, <2>3, <2>4, SeqEqual
<1>4. SubSeq(c, Len(a) + 1, Len(c)) = b
  <2>. DEFINE m == Len(a) + 1
              n == Len(c)
  <2>1. m \in Int /\ n \in Int /\ (\A k \in m..n : c[k] \in T) /\ n - m + 1 = Len(b)
    BY <1>1, <1>2 DEF c
  <2>2. \A k \in 1..Len(b) : c[m + k - 1] = b[k]
    BY <1>1, <1>2 DEF c
  <2>3. Len(b) = IF m <= n THEN n - m + 1 ELSE 0
    BY <1>1, <1>2 DEF c
  <2>. HIDE DEF m, n
  <2>4. /\ SubSeq(c, m, n) \in Seq(T)
        /\ Len(SubSeq(c, m, n)) = IF m <= n THEN n - m + 1 ELSE 0
        /\ \A k \in 1..(n - m + 1) : SubSeq(c, m, n)[k] = c[m + k - 1]
    BY <2>1, SubSeqProperties
  <2>5. \A k \in 1..Len(b) : SubSeq(c, m, n)[k] = b[k]
    BY <2>1, <2>2, <2>4
  <2>6. SubSeq(c, m, n) = b
    BY <2>3, <2>4, <2>5, SeqEqual
  <2>. QED BY <2>6 DEF m, n
<1>. QED BY <1>1, <1>3, <1>4 DEF c

\* Three sequences put together.
LEMMA Assoc ==
  ASSUME NEW T, NEW a \in Seq(T), NEW b \in Seq(T), NEW c \in Seq(T)
  PROVE  (a \o b) \o c = a \o (b \o c)
BY ConcatAssociative

\* The page after a copy.
Copies(page, off, end, bytes, copy) ==
  /\ page \in [1..PageSize -> Item] /\ off \in 0..PageSize
  /\ bytes \in Seq(Item) /\ end = off + Len(bytes) /\ end \in 0..PageSize
  /\ copy = [k \in 1..PageSize |-> IF k \in (off + 1)..end
                                      THEN bytes[k - off] ELSE page[k]]

Extends(page, off, end, bytes, copy) == SubSeq(copy, 1, end) = SubSeq(page, 1, off) \o bytes

\* A page that is copied to holds the bytes behind what it held.
LEMMA CopiedPage ==
  ASSUME NEW page, NEW off, NEW end, NEW bytes, NEW copy,
         Copies(page, off, end, bytes, copy)
  PROVE  /\ copy \in [1..PageSize -> Item]
         /\ Extends(page, off, end, bytes, copy)
<1>0. /\ page \in [1..PageSize -> Item] /\ off \in 0..PageSize
      /\ bytes \in Seq(Item) /\ end = off + Len(bytes) /\ end \in 0..PageSize
      /\ copy = [k \in 1..PageSize |-> IF k \in (off + 1)..end
                                          THEN bytes[k - off] ELSE page[k]]
      /\ Len(bytes) \in Nat
  BY LenProperties DEF Copies
<1>1. PageSize \in Nat
  BY <1>0, ConstantsAssumption
<1>2. copy \in [1..PageSize -> Item]
  <2>. SUFFICES ASSUME NEW k \in 1..PageSize PROVE copy[k] \in Item
    BY <1>0
  <2>1. CASE k \in (off + 1)..end
    <3>1. k - off \in 1..Len(bytes) /\ copy[k] = bytes[k - off]
      BY <1>0, <1>1, <2>1
    <3>. QED BY <1>0, <3>1, ElementOfSeq
  <2>2. CASE k \notin (off + 1)..end
    BY <1>0, <2>2
  <2>. QED BY <1>0, <2>1, <2>2
<1>. DEFINE a == SubSeq(page, 1, off)
            s == SubSeq(copy, 1, end)
<1>3. a \in Seq(Item) /\ Len(a) = off /\ \A k \in 1..off : a[k] = page[k]
  BY <1>0, FirstItems
<1>4. end \in 0..PageSize
  BY <1>0, <1>1
<1>5. s \in Seq(Item) /\ Len(s) = end /\ \A k \in 1..end : s[k] = copy[k]
  <2>. QED BY <1>0, <1>2, <1>4, FirstItems
<1>6. a \o bytes \in Seq(Item) /\ Len(a \o bytes) = end
      /\ \A k \in 1..end : (a \o bytes)[k] = IF k <= off THEN a[k] ELSE bytes[k - off]
  <2>. HIDE DEF a
  <2>1. /\ a \o bytes \in Seq(Item) /\ Len(a \o bytes) = Len(a) + Len(bytes)
        /\ \A k \in 1..(Len(a) + Len(bytes)) :
             (a \o bytes)[k] = IF k <= Len(a) THEN a[k] ELSE bytes[k - Len(a)]
    BY <1>0, <1>3, ConcatProperties
  <2>. QED BY <1>0, <1>3, <2>1
<1>7. \A k \in 1..end : s[k] = (a \o bytes)[k]
  <2>. TAKE k \in 1..end
  <2>1. copy[k] = IF k <= off THEN page[k] ELSE bytes[k - off]
    BY <1>0, <1>1, <1>4
  <2>2. k <= off => a[k] = page[k]
    BY <1>0, <1>3, <1>4
  <2>3. s[k] = copy[k] /\ (a \o bytes)[k] = IF k <= off THEN a[k] ELSE bytes[k - off]
    BY <1>0, <1>5, <1>6
  <2>. HIDE DEF s, a
  <2>. QED BY <1>0, <2>1, <2>2, <2>3
<1>. HIDE DEF s, a
<1>8. s = a \o bytes
  BY <1>0, <1>5, <1>6, <1>7, SeqEqual
<1>. QED BY <1>2, <1>8 DEF s, a, Extends

\* A round of ucr_write's loop puts its bytes behind what is held.
LEMMA CopyOut ==
  ASSUME OutSide, NEW t \in Threads, Copied(t)
  PROVE  /\ OutType'
         /\ \E bytes \in Seq(Item) :
              /\ sent' = sent \o bytes /\ Held' = Held \o bytes
              /\ \A k \in 1..Len(bytes) : bytes[k][1] = channel
<1>. DEFINE i == next_out_idx
            trans == Fitting(left[t], out_off, PageSize)
            bytes == [k \in 1..trans |-> <<channel, Len(sent) + k>>]
            off == out_off + trans
            copy == [k \in 1..PageSize |-> IF k \in (out_off + 1)..off
                                             THEN bytes[k - out_off] ELSE out_page[i][k]]
<1>1. OutType /\ ThreadType /\ sent \in Seq(Item) /\ channel \in ChanIds
  BY DEF OutSide, OutInv, BaseInv, ChanType
<1>2. /\ i \in 0..(NOut - 1) /\ out_count[i] = PageSize /\ out_off \in 0..PageSize
      /\ out_page \in [0..(NOut - 1) -> [1..PageSize -> Item]]
      /\ left[t] \in 0..MaxWrite /\ PageSize \in Nat /\ MaxWrite \in Nat
  BY <1>1, ConstantsAssumption DEF OutType, ThreadType
<1>3. trans \in 0..(PageSize - out_off)
  <2>1. left[t] \in Nat /\ out_off \in Nat /\ out_off <= PageSize /\ PageSize \in Nat
    BY <1>2
  <2>2. trans = IF left[t] < PageSize - out_off THEN left[t] ELSE PageSize - out_off
    BY <2>1, FittingIs
  <2>. HIDE DEF trans
  <2>. QED BY <2>1, <2>2
<1>4. /\ out_page' = [out_page EXCEPT ![i] = copy] /\ out_off' = off /\ sent' = sent \o bytes
      /\ UNCHANGED <<first_out_idx, next_out_idx, out_count>>
  <2>1. round[t] = Round(left[t], i, out_off, PageSize)
    BY DEF OutSide, OutInv, Copying, Copied
  <2>2. round[t].idx = i /\ round[t].off = out_off /\ round[t].n = trans
    BY <2>1 DEF Round
  <2>. HIDE DEF trans
  <2>3. /\ out_page' = [out_page EXCEPT ![i] =
                          [k \in 1..PageSize |-> IF k \in (out_off + 1)..(out_off + trans)
                                                  THEN bytes[k - out_off] ELSE @[k]]]
        /\ out_off' = off /\ sent' = sent \o bytes
        /\ UNCHANGED <<first_out_idx, next_out_idx, out_count>>
    BY <2>2 DEF Copied
  <2>. QED BY <2>3
<1>. HIDE DEF trans
<1>5. /\ bytes \in Seq(Item) /\ Len(bytes) = trans
      /\ \A k \in 1..Len(bytes) : bytes[k][1] = channel
  <2>1. trans \in Nat /\ \A k \in 1..trans : <<channel, Len(sent) + k>> \in Item
    BY <1>1, <1>2, <1>3, Items, LenProperties
  <2>. QED BY <2>1
<1>. HIDE DEF bytes
<1>6. /\ copy \in [1..PageSize -> Item]
      /\ SubSeq(copy, 1, off) = SubSeq(out_page[i], 1, out_off) \o bytes
  <2>1. out_page[i] \in [1..PageSize -> Item]
    BY <1>2
  <2>2. Copies(out_page[i], out_off, off, bytes, copy)
    BY <1>2, <1>3, <1>5, <2>1 DEF Copies
  <2>. HIDE DEF copy, i, off
  <2>3. SubSeq(copy, 1, off) = SubSeq(out_page[i], 1, out_off) \o bytes
    <3>1. Extends(out_page[i], out_off, off, bytes, copy)
      BY <2>2, CopiedPage
    <3>. QED BY <3>1 DEF Extends
  <2>4. copy \in [1..PageSize -> Item]
    BY <2>2, CopiedPage
  <2>. QED BY <2>3, <2>4
<1>7. off \in 0..PageSize
  BY <1>2, <1>3
<1>. HIDE DEF copy, off
<1>8. OutType'
  BY <1>1, <1>2, <1>4, <1>6, <1>7 DEF OutType
<1>9. Published' = Published
  <2>1. \A j \in 0..(NOut - 1) :
          j # i => OutBuf(out_count, out_page)[j] = OutBuf(out_count', out_page')[j]
    BY <1>2, <1>4 DEF OutBuf
  <2>2. first_out_idx \in 0..(NOut - 1)
    BY <1>1 DEF OutType
  <2>. DEFINE c == OutBuf(out_count, out_page)
              d == OutBuf(out_count', out_page')
  <2>3. Same(NOut, first_out_idx, next_out_idx, c, d)
    BY <1>2, <2>1, <2>2, ConstantsAssumption DEF Same
  <2>. HIDE DEF c, d
  <2>4. Joined(first_out_idx, next_out_idx, NOut, c) = Joined(first_out_idx, next_out_idx, NOut, d)
    BY <2>3, JoinedSame
  <2>. QED BY <1>4, <2>4 DEF Published, c, d
<1>10. Filling' = Filling \o bytes
  <2>1. out_page'[next_out_idx'] = copy
    BY <1>2, <1>4
  <2>. QED BY <1>4, <1>6, <2>1 DEF Filling
<1>11. Held' = Held \o bytes
  <2>1. /\ Held = Published \o Filling /\ Published \in Seq(Item) /\ Filling \in Seq(Item)
        /\ Held' = Published' \o Filling'
    BY <1>1, <1>8, HeldNow, HeldNext
  <2>2. (Published \o Filling) \o bytes = Published \o (Filling \o bytes)
    BY <1>5, <2>1, Assoc
  <2>. QED BY <1>9, <1>10, <2>1, <2>2
<1>. QED BY <1>4, <1>5, <1>8, <1>11

\* A buffer that is published goes behind what is published.
LEMMA PublishOut ==
  ASSUME OutSide, ~OutFull, NEW n \in 0..PageSize, Publish(n)
  PROVE  /\ OutType'
         /\ Published' = Published \o Content(n, out_page[next_out_idx])
         /\ Filling' = <<>>
<1>. DEFINE i == next_out_idx
            after == NextOut(i)
<1>1. OutType /\ NOut \in Nat /\ NOut > 1 /\ PageSize \in Nat
  BY ConstantsAssumption DEF OutSide, OutInv, BaseInv
<1>2. /\ i \in 0..(NOut - 1) /\ first_out_idx \in 0..(NOut - 1)
      /\ out_count \in [0..(NOut - 1) -> 0..PageSize]
      /\ out_page \in [0..(NOut - 1) -> [1..PageSize -> Item]]
  BY <1>1 DEF OutType
<1>3. after = After(i, NOut) /\ after \in 0..(NOut - 1) /\ after # i /\ after # first_out_idx
  BY <1>1, <1>2, AfterIs DEF NextOut, OutFull
<1>4. /\ out_count' = [out_count EXCEPT ![i] = n, ![after] = PageSize]
      /\ next_out_idx' = after /\ out_off' = 0
      /\ UNCHANGED <<first_out_idx, out_page>>
  BY DEF Publish
<1>. HIDE DEF i, after
<1>5. out_count' \in [0..(NOut - 1) -> 0..PageSize]
      /\ out_count'[i] = n /\ out_count'[after] = PageSize
      /\ \A j \in 0..(NOut - 1) : j # i /\ j # after => out_count'[j] = out_count[j]
  <2>1. n \in 0..PageSize /\ PageSize \in 0..PageSize
    BY <1>1
  <2>. QED BY <1>2, <1>3, <1>4, <2>1
<1>6. OutType'
  <2>1. /\ first_out_idx' \in 0..(NOut - 1) /\ next_out_idx' \in 0..(NOut - 1)
        /\ out_page' \in [0..(NOut - 1) -> [1..PageSize -> Item]]
        /\ out_count'[next_out_idx'] = PageSize
    BY <1>2, <1>3, <1>4, <1>5
  <2>2. out_off' \in 0..PageSize
    BY <1>1, <1>4
  <2>. QED BY <1>5, <2>1, <2>2 DEF OutType
<1>7. Published' = Published \o Content(n, out_page[i])
  <2>. DEFINE c == OutBuf(out_count, out_page)
              d == OutBuf(out_count', out_page')
  <2>1. c \in [0..(NOut - 1) -> Seq(Item)] /\ d \in [0..(NOut - 1) -> Seq(Item)]
    BY <1>2, <1>4, <1>5, ContentType
  <2>2. \A j \in 0..(NOut - 1) : j # i /\ j # after => c[j] = d[j]
    BY <1>4, <1>5 DEF OutBuf
  <2>3. d[i] = Content(n, out_page[i])
    BY <1>2, <1>4, <1>5 DEF OutBuf
  <2>. HIDE DEF c, d
  <2>4. Grows(Item, NOut, first_out_idx, i, c, d)
    BY <1>1, <1>2, <1>3, <2>1, <2>2 DEF Grows
  <2>5. Joined(first_out_idx, After(i, NOut), NOut, d) = Joined(first_out_idx, i, NOut, c) \o d[i]
    BY <2>4, JoinedGrow
  <2>. QED BY <1>3, <1>4, <2>3, <2>5 DEF Published, i, c, d
<1>8. Filling' = <<>>
  <2>1. SubSeq(out_page'[next_out_idx'], 1, 0) = <<>>
    BY SubSeqEmpty
  <2>. QED BY <1>4, <2>1 DEF Filling
<1>. QED BY <1>6, <1>7, <1>8 DEF i

\* flush_channel hides nothing that is held, and adds nothing.
LEMMA FlushOut ==
  ASSUME OutSide, NEW t \in Threads, Flush(t)
  PROVE  OutType' /\ (out_off > 0 => Held' = Held)
<1>1. OutType /\ ~OutFull /\ Publish(out_off) /\ out_off \in 0..PageSize
  BY DEF OutSide, OutInv, BaseInv, Flush, OutType
<1>2. /\ OutType'
      /\ Published' = Published \o Content(out_off, out_page[next_out_idx])
      /\ Filling' = <<>>
  BY <1>1, PublishOut
<1>3. ASSUME out_off > 0 PROVE Held' = Held
  <2>1. Content(out_off, out_page[next_out_idx]) = Filling
    BY <1>1, <1>3, ConstantsAssumption DEF Content, Filling
  <2>2. Held = Published \o Filling /\ Held' = Published' \o <<>> /\ Published' \in Seq(Item)
    BY <1>1, <1>2, HeldNow, HeldNext
  <2>. QED BY <1>2, <2>1, <2>2, ConcatEmptySeq
<1>. QED BY <1>2, <1>3

\* file_mark_channel adds a mark, when there is nothing left to flush.
LEMMA MarkOut ==
  ASSUME OutSide, NEW t \in Threads, PutMark(t)
  PROVE  /\ OutType'
         /\ sent' = sent \o <<Mark>>
         /\ out_off = 0 => Held' = Held \o <<Mark>>
<1>1. OutType /\ ~OutFull /\ Publish(0) /\ out_off \in 0..PageSize /\ 0 \in 0..PageSize
      /\ sent \in Seq(Item) /\ sent' = Append(sent, Mark)
  BY ConstantsAssumption DEF OutSide, OutInv, BaseInv, PutMark, OutType
<1>2. /\ OutType'
      /\ Published' = Published \o Content(0, out_page[next_out_idx])
      /\ Filling' = <<>>
  BY <1>1, PublishOut
<1>3. ASSUME out_off = 0 PROVE Held' = Held \o <<Mark>>
  <2>1. Content(0, out_page[next_out_idx]) = <<Mark>>
    BY DEF Content
  <2>2. Filling = <<>>
    BY <1>3, SubSeqEmpty DEF Filling
  <2>3. Held = Published \o <<>> /\ Published \in Seq(Item)
        /\ Held' = Published' \o <<>> /\ Published' \in Seq(Item)
    BY <1>1, <1>2, <2>2, HeldNow, HeldNext
  <2>. QED BY <1>2, <2>1, <2>3, ConcatEmptySeq
<1>4. sent' = sent \o <<Mark>>
  BY <1>1, Items, AppendIsConcat
<1>. QED BY <1>2, <1>3, <1>4

\* The board takes the oldest buffer, whole.
LEMMA TakesOut ==
  ASSUME OutSide, BoardTakes
  PROVE  /\ OutType'
         /\ \E c \in Seq(Item) :
              /\ Len(c) > 0 /\ taken' = taken \o c
              /\ Held = c \o Held' /\ Held' \in Seq(Item)
<1>. DEFINE i == first_out_idx
            after == NextOut(i)
            c == OutBuf(out_count, out_page)
<1>1. OutType /\ NOut \in Nat /\ NOut > 1 /\ PageSize \in Nat
  BY ConstantsAssumption DEF OutSide, OutInv, BaseInv
<1>2. /\ i \in 0..(NOut - 1) /\ next_out_idx \in 0..(NOut - 1)
      /\ out_count \in [0..(NOut - 1) -> 0..PageSize]
      /\ out_page \in [0..(NOut - 1) -> [1..PageSize -> Item]]
  BY <1>1 DEF OutType
<1>3. after = After(i, NOut) /\ after \in 0..(NOut - 1)
  BY <1>1, <1>2, AfterIs DEF NextOut
<1>4. /\ i # next_out_idx /\ taken' = taken \o Contents(i) /\ first_out_idx' = after
      /\ UNCHANGED <<next_out_idx, out_count, out_page, out_off>>
  BY DEF BoardTakes
<1>5. OutType'
  <2>. HIDE DEF after
  <2>. QED BY <1>1, <1>3, <1>4 DEF OutType
<1>6. c \in [0..(NOut - 1) -> Seq(Item)]
  BY <1>2, ContentType
<1>7. c[i] = Contents(i) /\ Len(c[i]) > 0
  <2>1. c[i] = Content(out_count[i], out_page[i])
    BY <1>2 DEF OutBuf
  <2>2. Content(out_count[i], out_page[i]) = Contents(i)
    BY DEF Content, Contents
  <2>3. Len(<<Mark>>) > 0
    OBVIOUS
  <2>4. Len(SubSeq(out_page[i], 1, out_count[i])) = out_count[i] /\ out_count[i] \in Nat
    BY <1>1, <1>2, FirstItems
  <2>5. Len(Content(out_count[i], out_page[i])) > 0
    BY <2>3, <2>4 DEF Content
  <2>. QED BY <2>1, <2>2, <2>5
<1>. HIDE DEF i, after, c
<1>8. Published = c[i] \o Published'
  <2>1. Shrinks(Item, NOut, i, next_out_idx, c, c)
    BY <1>1, <1>2, <1>4, <1>6 DEF Shrinks
  <2>2. Joined(i, next_out_idx, NOut, c)
          = c[i] \o Joined(After(i, NOut), next_out_idx, NOut, c)
    BY <2>1, JoinedShrink
  <2>. QED BY <1>3, <1>4, <2>2 DEF Published, c, i
<1>9. Filling' = Filling
  BY <1>4 DEF Filling
<1>10. Held = c[i] \o Held' /\ Held' \in Seq(Item)
  <2>1. /\ Held = Published \o Filling /\ Published \in Seq(Item) /\ Filling \in Seq(Item)
        /\ Held' = Published' \o Filling' /\ Published' \in Seq(Item)
    BY <1>1, <1>5, HeldNow, HeldNext
  <2>2. c[i] \in Seq(Item)
    BY <1>2, <1>6
  <2>. DEFINE x == c[i]
              y == Published'
  <2>. HIDE DEF x, y
  <2>3. (x \o y) \o Filling = x \o (y \o Filling) /\ y \o Filling \in Seq(Item)
    <3>1. x \in Seq(Item) /\ y \in Seq(Item)
      BY <2>1, <2>2 DEF x, y
    <3>. QED BY <2>1, <3>1, Assoc, ConcatProperties, SMTT(30)
  <2>4. (c[i] \o Published') \o Filling = c[i] \o (Published' \o Filling)
        /\ Published' \o Filling \in Seq(Item)
    BY <2>3 DEF x, y
  <2>. QED BY <1>8, <1>9, <2>1, <2>3, <2>4
<1>11. c[i] \in Seq(Item)
  BY <1>2, <1>6
<1>. QED BY <1>4, <1>5, <1>7, <1>10, <1>11

\* A new table holds nothing.
LEMMA FreshOut ==
  ASSUME first_out_idx' = 0, next_out_idx' = 0, out_off' = 0,
         out_count' = [i \in 0..(NOut - 1) |-> PageSize], out_page' = Empty(NOut)
  PROVE  OutType' /\ Held' = <<>>
<1>1. NOut \in Nat /\ NOut > 1 /\ PageSize \in Nat /\ 0 \in 0..(NOut - 1)
  BY ConstantsAssumption
<1>2. out_page' \in [0..(NOut - 1) -> [1..PageSize -> Item]]
  BY Items DEF Empty
<1>3. OutType'
  BY <1>1, <1>2 DEF OutType
<1>4. Published' = <<>>
  BY <1>1, JoinedNone DEF Published
<1>5. Filling' = <<>>
  BY <1>1, SubSeqEmpty DEF Filling
<1>6. Held' = <<>> \o <<>>
  BY <1>3, <1>4, <1>5, HeldNext
<1>. QED BY <1>3, <1>6

-----------------------------------------------------------------------------
(* The input half                                                          *)

\* What is left of a sequence after its first n items.
Rest(s, n) == SubSeq(s, n + 1, Len(s))

\* What is left of two sequences put together, after a part of the first.
Parts(s, n, a, b) == a \in Seq(Item) /\ b \in Seq(Item) /\ n \in 0..Len(a) /\ s = a \o b

\* The rest goes on into the second.
LEMMA RestOfTwo ==
  ASSUME NEW s, NEW n, NEW a, NEW b, Parts(s, n, a, b)
  PROVE  /\ Rest(s, n) = Rest(a, n) \o b
         /\ Rest(s, n) \in Seq(Item) /\ Rest(a, n) \in Seq(Item)
         /\ Len(Rest(a, n)) = Len(a) - n
<1>1. /\ a \in Seq(Item) /\ b \in Seq(Item) /\ n \in 0..Len(a) /\ s = a \o b
      /\ Len(a) \in Nat /\ Len(b) \in Nat
  BY LenProperties DEF Parts
<1>2. /\ s \in Seq(Item) /\ Len(s) = Len(a) + Len(b)
      /\ \A k \in 1..(Len(a) + Len(b)) : s[k] = IF k <= Len(a) THEN a[k] ELSE b[k - Len(a)]
  BY <1>1, ConcatProperties
<1>. DEFINE m == n + 1
            p == Len(a)
            q == Len(s)
            x == SubSeq(a, m, p)
            y == SubSeq(s, m, q)
<1>3. /\ x \in Seq(Item) /\ Len(x) = p - n /\ \A k \in 1..(p - n) : x[k] = a[n + k]
  <2>1. m \in Int /\ p \in Int /\ p - m + 1 = p - n /\ (m <= p => p - m + 1 = p - n)
        /\ (~(m <= p) => p - n = 0)
    BY <1>1
  <2>2. \A k \in m..p : a[k] \in Item
    <3>1. \A k \in m..p : k \in 1..Len(a)
      BY <1>1
    <3>. QED BY <1>1, <3>1, ElementOfSeq
  <2>3. \A k \in 1..(p - n) : m + k - 1 = n + k
    BY <1>1
  <2>. HIDE DEF m, p
  <2>4. /\ SubSeq(a, m, p) \in Seq(Item)
        /\ Len(SubSeq(a, m, p)) = IF m <= p THEN p - m + 1 ELSE 0
        /\ \A k \in 1..(p - m + 1) : SubSeq(a, m, p)[k] = a[m + k - 1]
    BY <2>1, <2>2, SubSeqProperties
  <2>. HIDE DEF x
  <2>5. x = SubSeq(a, m, p)
    BY DEF x
  <2>. QED BY <2>1, <2>3, <2>4, <2>5
<1>4. /\ y \in Seq(Item) /\ Len(y) = q - n /\ \A k \in 1..(q - n) : y[k] = s[n + k]
  <2>1. m \in Int /\ q \in Int /\ q - m + 1 = q - n /\ (m <= q => q - m + 1 = q - n)
        /\ (~(m <= q) => q - n = 0)
    BY <1>1, <1>2
  <2>2. \A k \in m..q : s[k] \in Item
    <3>1. \A k \in m..q : k \in 1..Len(s)
      BY <1>1, <1>2
    <3>. QED BY <1>2, <3>1, ElementOfSeq
  <2>3. \A k \in 1..(q - n) : m + k - 1 = n + k
    BY <1>1, <1>2
  <2>. HIDE DEF m, q
  <2>4. /\ SubSeq(s, m, q) \in Seq(Item)
        /\ Len(SubSeq(s, m, q)) = IF m <= q THEN q - m + 1 ELSE 0
        /\ \A k \in 1..(q - m + 1) : SubSeq(s, m, q)[k] = s[m + k - 1]
    BY <2>1, <2>2, SubSeqProperties
  <2>. HIDE DEF y
  <2>5. y = SubSeq(s, m, q)
    BY DEF y
  <2>. QED BY <2>1, <2>3, <2>4, <2>5
<1>. HIDE DEF x, y
<1>5. /\ x \o b \in Seq(Item) /\ Len(x \o b) = Len(x) + Len(b)
      /\ \A k \in 1..(Len(x) + Len(b)) :
           (x \o b)[k] = IF k <= Len(x) THEN x[k] ELSE b[k - Len(x)]
  BY <1>1, <1>3, ConcatProperties
<1>. DEFINE z == x \o b
<1>6. z \in Seq(Item) /\ Len(z) = Len(y)
  BY <1>1, <1>2, <1>3, <1>4, <1>5
<1>7. \A k \in 1..Len(y) : y[k] = z[k]
  <2>. TAKE k \in 1..Len(y)
  <2>1. k \in 1..(q - n) /\ n + k \in 1..(Len(a) + Len(b)) /\ k \in 1..(Len(x) + Len(b))
    BY <1>1, <1>2, <1>3, <1>4
  <2>2. y[k] = s[n + k]
    BY <1>4, <2>1
  <2>3. CASE k <= Len(x)
    <3>1. n + k <= Len(a) /\ k \in 1..(p - n)
      BY <1>1, <1>3, <2>1, <2>3
    <3>2. s[n + k] = a[n + k] /\ z[k] = x[k] /\ x[k] = a[n + k]
      BY <1>2, <1>3, <1>5, <2>1, <2>3, <3>1
    <3>. QED BY <2>2, <3>2
  <2>4. CASE ~(k <= Len(x))
    <3>1. ~(n + k <= Len(a)) /\ n + k - Len(a) = k - Len(x)
      BY <1>1, <1>3, <2>1, <2>4
    <3>2. z[k] = b[k - Len(x)]
      BY <1>5, <2>1, <2>4
    <3>3. \A i \in 1..(Len(a) + Len(b)) : ~(i <= Len(a)) => s[i] = b[i - Len(a)]
      BY <1>2
    <3>. DEFINE w == n + k
                v == w - Len(a)
    <3>4. w \in 1..(Len(a) + Len(b)) /\ ~(w <= Len(a)) /\ v = k - Len(x)
      BY <1>1, <1>3, <2>1, <2>4
    <3>5. y[k] = s[w]
      BY <2>2
    <3>6. s[w] = b[v]
      <4>. HIDE DEF w
      <4>. QED BY <3>3, <3>4
    <3>. HIDE DEF w, v
    <3>. QED BY <3>2, <3>4, <3>5, <3>6
  <2>. QED BY <2>3, <2>4
<1>. HIDE DEF z
<1>8. y = z
  BY <1>4, <1>6, <1>7, SeqEqual
<1>9. Rest(s, n) = y /\ Rest(a, n) = x
  BY DEF Rest, x, y
<1>. QED BY <1>3, <1>4, <1>8, <1>9 DEF z

\* What is left, when some more goes.
LEMMA RestAfter ==
  ASSUME NEW b \in Seq(Item), NEW i \in 0..Len(b), NEW j \in i..Len(b)
  PROVE  /\ Rest(b, i) = SubSeq(b, i + 1, j) \o Rest(b, j)
         /\ SubSeq(b, i + 1, j) \in Seq(Item) /\ Len(SubSeq(b, i + 1, j)) = j - i
<1>. DEFINE m == i + 1
            n == Len(b)
<1>1. /\ m \in 1..(Len(b) + 1) /\ j \in (m - 1)..Len(b) /\ n \in j..Len(b)
      /\ m \in Int /\ j \in Int /\ j - m + 1 = j - i /\ Len(b) \in Nat
      /\ (~(m <= j) => j - i = 0)
  BY LenProperties
<1>2. \A k \in m..j : b[k] \in Item
  <2>1. \A k \in m..j : k \in 1..Len(b)
    BY <1>1
  <2>. QED BY <2>1, ElementOfSeq
<1>3. Rest(b, i) = SubSeq(b, m, n) /\ Rest(b, j) = SubSeq(b, j + 1, n)
  BY DEF Rest
<1>. HIDE DEF m, n
<1>4. SubSeq(b, m, j) \o SubSeq(b, j + 1, n) = SubSeq(b, m, n)
  BY <1>1, ConcatAdjacentSubSeq
<1>5. /\ SubSeq(b, m, j) \in Seq(Item)
      /\ Len(SubSeq(b, m, j)) = IF m <= j THEN j - m + 1 ELSE 0
  BY <1>1, <1>2, SubSeqProperties
<1>6. SubSeq(b, m, j) \in Seq(Item) /\ Len(SubSeq(b, m, j)) = j - i
  BY <1>1, <1>5
<1>. QED BY <1>3, <1>4, <1>6 DEF m

\* The same part of a buffer and of its page.
LEMMA PartOfPage ==
  ASSUME NEW page \in [1..PageSize -> Item], NEW n \in 0..PageSize,
         NEW i \in 0..n, NEW j \in i..n
  PROVE  SubSeq(SubSeq(page, 1, n), i + 1, j) = SubSeq(page, i + 1, j)
<1>. DEFINE b == SubSeq(page, 1, n)
            m == i + 1
<1>1. b \in Seq(Item) /\ Len(b) = n /\ \A k \in 1..n : b[k] = page[k]
  BY FirstItems
<1>2. m \in Int /\ j \in Int /\ \A k \in m..j : k \in 1..n /\ k \in 1..PageSize
  BY ConstantsAssumption
<1>3. \A k \in 1..(j - m + 1) : m + k - 1 \in m..j
  BY <1>2
<1>. HIDE DEF b, m
<1>4. \A k \in m..j : b[k] \in Item /\ page[k] \in Item /\ b[k] = page[k]
  BY <1>1, <1>2
<1>5. /\ SubSeq(b, m, j) \in Seq(Item)
      /\ Len(SubSeq(b, m, j)) = IF m <= j THEN j - m + 1 ELSE 0
      /\ \A k \in 1..(j - m + 1) : SubSeq(b, m, j)[k] = b[m + k - 1]
  BY <1>2, <1>4, SubSeqProperties
<1>6. /\ SubSeq(page, m, j) \in Seq(Item)
      /\ Len(SubSeq(page, m, j)) = IF m <= j THEN j - m + 1 ELSE 0
      /\ \A k \in 1..(j - m + 1) : SubSeq(page, m, j)[k] = page[m + k - 1]
  BY <1>2, <1>4, SubSeqProperties
<1>. DEFINE x == SubSeq(b, m, j)
            y == SubSeq(page, m, j)
<1>7. x \in Seq(Item) /\ y \in Seq(Item) /\ Len(x) = Len(y)
  BY <1>5, <1>6
<1>8. \A k \in 1..Len(x) : x[k] = y[k]
  <2>. TAKE k \in 1..Len(x)
  <2>1. k \in 1..(j - m + 1)
    BY <1>2, <1>5
  <2>. QED BY <1>3, <1>4, <1>5, <1>6, <2>1
<1>. HIDE DEF x, y
<1>9. x = y
  BY <1>7, <1>8, SeqEqual
<1>. QED BY <1>9 DEF x, y, b, m

\* What a buffer of the input ring holds.
InBuf(count, page) == [i \in 0..(NIn - 1) |-> SubSeq(page[i], 1, count[i])]

\* The contents of the buffers of the input ring.
LEMMA InContentType ==
  ASSUME NEW count \in [0..(NIn - 1) -> 1..PageSize],
         NEW page \in [0..(NIn - 1) -> [1..PageSize -> Item]]
  PROVE  /\ InBuf(count, page) \in [0..(NIn - 1) -> Seq(Item)]
         /\ \A i \in 0..(NIn - 1) : Len(InBuf(count, page)[i]) = count[i]
<1>. SUFFICES ASSUME NEW i \in 0..(NIn - 1)
              PROVE  /\ SubSeq(page[i], 1, count[i]) \in Seq(Item)
                     /\ Len(SubSeq(page[i], 1, count[i])) = count[i]
  BY DEF InBuf
<1>1. count[i] \in 0..PageSize
  BY ConstantsAssumption
<1>. QED BY <1>1, FirstItems

\* The published buffers as Ready lists them.
Arrived(first, next, count, page) ==
  LET ring == Indices(first, next, NIn)
  IN  [k \in DOMAIN ring |-> SubSeq(page[ring[k]], 1, count[ring[k]])]

\* The same without Indices.
LEMMA ReadyIs ==
  ASSUME NEW first \in 0..(NIn - 1), NEW next \in 0..(NIn - 1), NEW count, NEW page
  PROVE  FlattenSeq(Arrived(first, next, count, page))
           = Joined(first, next, NIn, InBuf(count, page))
<1>. DEFINE ring == Indices(first, next, NIn)
<1>1. ring = [k \in 1..Between(first, next, NIn) |-> Ring(first, k, NIn)]
  BY IndicesAre, ConstantsAssumption
<1>2. \A k \in 1..Between(first, next, NIn) : Ring(first, k, NIn) \in 0..(NIn - 1)
  BY RingOther, ConstantsAssumption
<1>3. Arrived(first, next, count, page)
        = Buffers(first, next, NIn, InBuf(count, page))
  <2>1. \A k \in 1..Between(first, next, NIn) :
          InBuf(count, page)[Ring(first, k, NIn)] = SubSeq(page[ring[k]], 1, count[ring[k]])
    BY <1>1, <1>2 DEF InBuf
  <2>2. DOMAIN ring = 1..Between(first, next, NIn)
    BY <1>1
  <2>3. Arrived(first, next, count, page)
          = [k \in DOMAIN ring |-> SubSeq(page[ring[k]], 1, count[ring[k]])]
    BY DEF Arrived
  <2>. HIDE DEF ring
  <2>. QED BY <2>1, <2>2, <2>3 DEF Buffers
<1>. QED BY <1>3 DEF Joined

\* What the board has published.
Unread == Joined(first_in_idx, next_in_idx, NIn, InBuf(in_count, in_page))

\* Ready is what is published and not yet read.
LEMMA ReadyNow ==
  ASSUME InType
  PROVE  Ready = Rest(Unread, in_off) /\ Unread \in Seq(Item)
<1>1. first_in_idx \in 0..(NIn - 1) /\ next_in_idx \in 0..(NIn - 1)
  BY DEF InType
<1>2. Ready = Rest(Unread, in_off)
  <2>1. Ready = Rest(FlattenSeq(Arrived(first_in_idx, next_in_idx, in_count, in_page)), in_off)
    BY DEF Ready, Arrived, Rest
  <2>2. FlattenSeq(Arrived(first_in_idx, next_in_idx, in_count, in_page)) = Unread
    BY <1>1, ReadyIs DEF Unread
  <2>. QED BY <2>1, <2>2
<1>3. Unread \in Seq(Item)
  <2>1. InBuf(in_count, in_page) \in [0..(NIn - 1) -> Seq(Item)]
    BY InContentType DEF InType
  <2>. QED BY <1>1, <2>1, BuffersType, ConstantsAssumption DEF Unread
<1>. QED BY <1>2, <1>3

\* The same, after a step.
LEMMA ReadyNext ==
  ASSUME InType'
  PROVE  Ready' = Rest(Unread', in_off') /\ Unread' \in Seq(Item)
<1>1. first_in_idx' \in 0..(NIn - 1) /\ next_in_idx' \in 0..(NIn - 1)
  BY DEF InType
<1>2. Ready' = Rest(Unread', in_off')
  <2>1. Ready' = Rest(FlattenSeq(Arrived(first_in_idx', next_in_idx', in_count', in_page')),
                      in_off')
    BY DEF Ready, Arrived, Rest
  <2>2. FlattenSeq(Arrived(first_in_idx', next_in_idx', in_count', in_page')) = Unread'
    BY <1>1, ReadyIs DEF Unread
  <2>. QED BY <2>1, <2>2
<1>3. Unread' \in Seq(Item)
  <2>1. InBuf(in_count', in_page') \in [0..(NIn - 1) -> Seq(Item)]
    BY InContentType DEF InType
  <2>. QED BY <1>1, <2>1, BuffersType, ConstantsAssumption DEF Unread
<1>. QED BY <1>2, <1>3

\* The buffer that is read, and those behind it.
LEMMA FirstUnread ==
  ASSUME InType, ~InEmpty, NEW d, d \in [0..(NIn - 1) -> Seq(Item)],
         \A i \in 0..(NIn - 1) : i # first_in_idx => InBuf(in_count, in_page)[i] = d[i]
  PROVE  /\ Unread = SubSeq(in_page[first_in_idx], 1, in_count[first_in_idx])
                       \o Joined(NextIn(first_in_idx), next_in_idx, NIn, d)
         /\ Joined(NextIn(first_in_idx), next_in_idx, NIn, d) \in Seq(Item)
<1>. DEFINE i == first_in_idx
            c == InBuf(in_count, in_page)
<1>1. /\ i \in 0..(NIn - 1) /\ next_in_idx \in 0..(NIn - 1) /\ i # next_in_idx
      /\ NIn \in Nat /\ NIn > 1
  BY ConstantsAssumption DEF InType, InEmpty
<1>2. NextIn(i) = After(i, NIn)
  BY <1>1, AfterIs DEF NextIn
<1>3. c \in [0..(NIn - 1) -> Seq(Item)]
  BY InContentType DEF InType
<1>4. c[i] = SubSeq(in_page[i], 1, in_count[i])
  BY <1>1 DEF InBuf
<1>. HIDE DEF i, c
<1>5. Shrinks(Item, NIn, i, next_in_idx, c, d)
  <2>1. \A k \in 0..(NIn - 1) : k # i => c[k] = d[k]
    BY DEF i, c
  <2>. QED BY <1>1, <1>3, <2>1 DEF Shrinks
<1>6. /\ Joined(i, next_in_idx, NIn, c) = c[i] \o Joined(After(i, NIn), next_in_idx, NIn, d)
      /\ Joined(After(i, NIn), next_in_idx, NIn, d) \in Seq(Item)
  BY <1>5, JoinedShrink
<1>. QED BY <1>2, <1>4, <1>6 DEF Unread, i, c

\* The bytes after the first m.
Chunk(m, n) == [k \in 1..n |-> m + k]

\* They are items.
LEMMA ChunkType ==
  ASSUME NEW m \in Nat, NEW n \in Nat
  PROVE  Chunk(m, n) \in Seq(Item) /\ Len(Chunk(m, n)) = n
<1>1. \A k \in 1..n : m + k \in Item
  BY Items
<1>. QED BY <1>1 DEF Chunk

\* A buffer the board has filled.
FilledPage(m, n, page, filled) ==
  filled = [k \in 1..PageSize |-> IF k <= n THEN m + k ELSE page[k]]

\* It holds the bytes the board has made.
LEMMA FilledIs ==
  ASSUME NEW m \in Nat, NEW n \in 1..PageSize, NEW page \in [1..PageSize -> Item],
         NEW filled, FilledPage(m, n, page, filled)
  PROVE  filled \in [1..PageSize -> Item] /\ SubSeq(filled, 1, n) = Chunk(m, n)
<1>1. /\ filled = [k \in 1..PageSize |-> IF k <= n THEN m + k ELSE page[k]]
      /\ PageSize \in Nat /\ n \in 0..PageSize /\ n \in Nat
  BY ConstantsAssumption DEF FilledPage
<1>2. filled \in [1..PageSize -> Item]
  <2>. SUFFICES ASSUME NEW k \in 1..PageSize PROVE filled[k] \in Item
    BY <1>1
  <2>1. m + k \in Item
    BY <1>1, Items
  <2>2. filled[k] = IF k <= n THEN m + k ELSE page[k]
    BY <1>1
  <2>. QED BY <2>1, <2>2
<1>. DEFINE x == SubSeq(filled, 1, n)
            y == Chunk(m, n)
<1>3. x \in Seq(Item) /\ Len(x) = n /\ \A k \in 1..n : x[k] = filled[k]
  BY <1>1, <1>2, FirstItems
<1>4. y \in Seq(Item) /\ Len(y) = n /\ \A k \in 1..n : y[k] = m + k
  BY <1>1, ChunkType DEF Chunk
<1>5. \A k \in 1..n : filled[k] = m + k
  BY <1>1
<1>. HIDE DEF x, y
<1>6. x = y
  BY <1>3, <1>4, <1>5, SeqEqual
<1>. QED BY <1>2, <1>6 DEF x, y

\* A buffer the board publishes goes behind what is to be read.
LEMMA MakesIn ==
  ASSUME InSide, NEW n \in 1..PageSize, BoardMakes(n)
  PROVE  /\ InType'
         /\ made' = made + n /\ received' = received
         /\ Ready \in Seq(Item) /\ Ready' = Ready \o Chunk(made, n)
<1>. DEFINE i == next_in_idx
            after == NextIn(i)
            filled == [k \in 1..PageSize |-> IF k <= n THEN made + k ELSE in_page[i][k]]
<1>1. /\ InType /\ NIn \in Nat /\ NIn > 1 /\ PageSize \in Nat /\ MaxMade \in Nat
      /\ n \in Nat /\ n > 0
  BY ConstantsAssumption DEF InSide, InInv, BaseInv
<1>2. /\ i \in 0..(NIn - 1) /\ first_in_idx \in 0..(NIn - 1)
      /\ in_count \in [0..(NIn - 1) -> 1..PageSize]
      /\ in_page \in [0..(NIn - 1) -> [1..PageSize -> Item]]
      /\ in_page[i] \in [1..PageSize -> Item]
      /\ made \in 0..MaxMade /\ made \in Nat /\ in_off \in 0..(PageSize - 1) /\ in_off \in Nat
  BY <1>1 DEF InType
<1>3. after = After(i, NIn) /\ after \in 0..(NIn - 1) /\ after # i /\ after # first_in_idx
  BY <1>1, <1>2, AfterIs, SMTT(30) DEF NextIn, BoardMakes
<1>4. /\ in_page' = [in_page EXCEPT ![i] = filled] /\ in_count' = [in_count EXCEPT ![i] = n]
      /\ next_in_idx' = after /\ made' = made + n /\ made + n <= MaxMade
      /\ UNCHANGED <<first_in_idx, in_off, received>>
  BY DEF BoardMakes, histVars
<1>5. filled \in [1..PageSize -> Item] /\ SubSeq(filled, 1, n) = Chunk(made, n)
  <2>1. FilledPage(made, n, in_page[i], filled)
    BY DEF FilledPage
  <2>. HIDE DEF filled, i
  <2>. QED BY <1>2, <2>1, FilledIs
<1>. HIDE DEF i, after, filled
<1>6. /\ in_count' \in [0..(NIn - 1) -> 1..PageSize]
      /\ in_page' \in [0..(NIn - 1) -> [1..PageSize -> Item]]
      /\ in_count'[i] = n /\ in_page'[i] = filled
      /\ \A j \in 0..(NIn - 1) :
           j # i => in_count'[j] = in_count[j] /\ in_page'[j] = in_page[j]
  BY <1>1, <1>2, <1>4, <1>5
<1>7. InType'
  <2>1. /\ first_in_idx' \in 0..(NIn - 1) /\ next_in_idx' \in 0..(NIn - 1)
        /\ in_off' \in 0..(PageSize - 1) /\ made' \in 0..MaxMade
    BY <1>1, <1>2, <1>3, <1>4
  <2>2. first_in_idx' # next_in_idx'
    BY <1>3, <1>4
  <2>3. in_off' < in_count'[first_in_idx']
    <3>1. CASE first_in_idx = i
      <4>1. in_off = 0
        BY <1>1, <3>1 DEF InType, InEmpty, i
      <4>. QED BY <1>1, <1>4, <1>6, <3>1, <4>1
    <3>2. CASE first_in_idx # i
      <4>1. in_off < in_count[first_in_idx]
        BY <1>1, <3>2 DEF InType, InEmpty, i
      <4>. QED BY <1>2, <1>4, <1>6, <3>2, <4>1
    <3>. QED BY <3>1, <3>2
  <2>. QED BY <1>6, <2>1, <2>2, <2>3 DEF InType, InEmpty
<1>8. Unread' = Unread \o Chunk(made, n)
  <2>. DEFINE c == InBuf(in_count, in_page)
              d == InBuf(in_count', in_page')
  <2>1. c \in [0..(NIn - 1) -> Seq(Item)] /\ d \in [0..(NIn - 1) -> Seq(Item)]
    BY <1>2, <1>6, InContentType
  <2>2. \A j \in 0..(NIn - 1) : j # i => c[j] = d[j]
    BY <1>6 DEF InBuf
  <2>3. d[i] = Chunk(made, n)
    BY <1>2, <1>5, <1>6 DEF InBuf
  <2>. HIDE DEF c, d
  <2>4. Grows(Item, NIn, first_in_idx, i, c, d)
    BY <1>1, <1>2, <1>3, <2>1, <2>2 DEF Grows
  <2>5. Joined(first_in_idx, After(i, NIn), NIn, d) = Joined(first_in_idx, i, NIn, c) \o d[i]
    BY <2>4, JoinedGrow
  <2>. QED BY <1>3, <1>4, <2>3, <2>5 DEF Unread, i, c, d
<1>9. Unread \in Seq(Item) /\ Ready = Rest(Unread, in_off) /\ Ready' = Rest(Unread', in_off)
  BY <1>1, <1>4, <1>7, ReadyNow, ReadyNext
<1>10. in_off \in 0..Len(Unread)
  <2>1. Len(Unread) \in Nat
    BY <1>9, LenProperties
  <2>2. CASE InEmpty
    BY <1>1, <2>1, <2>2 DEF InType
  <2>3. CASE ~InEmpty
    <3>. DEFINE c == InBuf(in_count, in_page)
                b == SubSeq(in_page[first_in_idx], 1, in_count[first_in_idx])
                J == Joined(NextIn(first_in_idx), next_in_idx, NIn, c)
    <3>1. c \in [0..(NIn - 1) -> Seq(Item)]
      BY <1>2, InContentType
    <3>2. Unread = b \o J /\ J \in Seq(Item)
      <4>. HIDE DEF c
      <4>1. \A j \in 0..(NIn - 1) : j # first_in_idx => InBuf(in_count, in_page)[j] = c[j]
        BY DEF c
      <4>. QED BY <1>1, <2>3, <3>1, <4>1, FirstUnread
    <3>3. b \in Seq(Item) /\ Len(b) = in_count[first_in_idx]
      BY <1>1, <1>2, FirstItems
    <3>4. in_off < in_count[first_in_idx]
      BY <1>1, <2>3 DEF InType
    <3>. HIDE DEF b, J
    <3>5. Len(Unread) = Len(b) + Len(J) /\ Len(b) \in Nat /\ Len(J) \in Nat
      BY <3>2, <3>3, ConcatProperties, LenProperties
    <3>. QED BY <1>2, <2>1, <3>3, <3>4, <3>5
  <2>. QED BY <2>2, <2>3
<1>11. Parts(Unread', in_off, Unread, Chunk(made, n))
  BY <1>1, <1>2, <1>8, <1>9, <1>10, ChunkType DEF Parts
<1>12. Rest(Unread', in_off) = Rest(Unread, in_off) \o Chunk(made, n)
  BY <1>11, RestOfTwo
<1>13. Ready \in Seq(Item)
  <2>1. Parts(Unread', in_off, Unread, Chunk(made, n)) => Rest(Unread, in_off) \in Seq(Item)
    BY RestOfTwo
  <2>. QED BY <1>9, <1>11, <2>1
<1>. QED BY <1>4, <1>7, <1>9, <1>12, <1>13

\* All of a sequence.
LEMMA RestAll ==
  ASSUME NEW s \in Seq(Item)
  PROVE  Rest(s, 0) = s /\ Rest(s, Len(s)) = <<>>
<1>1. SubSeq(s, 1, Len(s)) = s
  BY SubSeqFull
<1>2. Len(s) \in Int /\ Len(s) + 1 \in Int /\ Len(s) < Len(s) + 1
  BY LenProperties
<1>3. SubSeq(s, Len(s) + 1, Len(s)) = <<>>
  BY <1>2, SubSeqEmpty
<1>4. 0 + 1 = 1
  OBVIOUS
<1>. QED BY <1>1, <1>3, <1>4 DEF Rest

\* A round of ucr_read's loop takes the oldest bytes.
LEMMA FetchIn ==
  ASSUME InSide, NEW t \in Threads, Fetched(t)
  PROVE  /\ InType' /\ made' = made
         /\ \E x \in Seq(Item) :
              /\ Len(x) > 0 /\ received' = received \o x
              /\ Ready = x \o Ready' /\ Ready' \in Seq(Item)
<1>. DEFINE i == first_in_idx
            after == NextIn(i)
            siz == in_count[i]
            n == Fitting(left[t], in_off, siz)
            off == in_off + n
            b == SubSeq(in_page[i], 1, siz)
            x == SubSeq(b, in_off + 1, off)
<1>1. InType /\ NIn \in Nat /\ NIn > 1 /\ PageSize \in Nat /\ PageSize > 0 /\ ~InEmpty
  BY ConstantsAssumption DEF InSide, InInv, Taking, Fetched
<1>2. /\ i \in 0..(NIn - 1) /\ next_in_idx \in 0..(NIn - 1) /\ i # next_in_idx
      /\ in_count \in [0..(NIn - 1) -> 1..PageSize] /\ siz \in 1..PageSize /\ siz \in 0..PageSize
      /\ in_page \in [0..(NIn - 1) -> [1..PageSize -> Item]]
      /\ in_page[i] \in [1..PageSize -> Item]
      /\ in_off \in Nat /\ in_off < siz /\ made \in 0..MaxMade
  BY <1>1 DEF InType, InEmpty
<1>3. after = After(i, NIn) /\ after \in 0..(NIn - 1)
  BY <1>1, <1>2, AfterIs DEF NextIn
<1>4. n \in Nat /\ n > 0 /\ n <= siz - in_off
  <2>1. left[t] \in Nat /\ left[t] > 0
    <3>1. /\ left[t] \in 0..MaxWrite /\ CallAt(pc[t], call[t], left[t], round[t].n)
          /\ pc[t] = "taking"
      BY DEF Fetched, InSide, BaseInv, ThreadType
    <3>. QED BY <3>1, ConstantsAssumption DEF CallAt
  <2>2. n = IF left[t] < siz - in_off THEN left[t] ELSE siz - in_off
    <3>1. siz \in Nat /\ in_off \in Nat /\ in_off <= siz
      BY <1>1, <1>2
    <3>. HIDE DEF siz
    <3>. QED BY <2>1, <3>1, FittingIs
  <2>. HIDE DEF n
  <2>. QED BY <1>1, <1>2, <2>1, <2>2
<1>5. /\ received' = received \o SubSeq(in_page[i], in_off + 1, off)
      /\ Use(siz, n) /\ UNCHANGED <<next_in_idx, in_page, made>>
  <2>1. round[t] = Round(left[t], i, in_off, siz)
    BY DEF InSide, InInv, Taking, Fetched
  <2>2. round[t].idx = i /\ round[t].off = in_off /\ round[t].siz = siz /\ round[t].n = n
    BY <2>1 DEF Round
  <2>. HIDE DEF i, siz, n
  <2>. QED BY <2>2 DEF Fetched
<1>. HIDE DEF n
<1>6. off \in in_off..siz /\ in_off \in 0..siz /\ off \in Nat /\ off - in_off = n
  BY <1>1, <1>2, <1>4
<1>7. b \in Seq(Item) /\ Len(b) = siz
  BY <1>2, FirstItems
<1>8. x = SubSeq(in_page[i], in_off + 1, off)
  <2>. HIDE DEF off, siz, i
  <2>. QED BY <1>2, <1>6, PartOfPage
<1>9. /\ Rest(b, in_off) = x \o Rest(b, off)
      /\ x \in Seq(Item) /\ Len(x) = n
  <2>. HIDE DEF b, off
  <2>1. in_off \in 0..Len(b) /\ off \in in_off..Len(b)
    BY <1>6, <1>7
  <2>. QED BY <1>6, <1>7, <2>1, RestAfter
<1>. HIDE DEF x, b, off, after, siz, i
<1>10. received' = received \o x
  BY <1>5, <1>8
<1>11. CASE off = siz
  <2>1. /\ in_off' = 0 /\ in_count' = [in_count EXCEPT ![i] = PageSize]
        /\ first_in_idx' = after
    BY <1>5, <1>11 DEF Use, i, after, off
  <2>. DEFINE d == InBuf(in_count', in_page')
              J == Joined(after, next_in_idx, NIn, d)
  <2>2. /\ in_count' \in [0..(NIn - 1) -> 1..PageSize]
        /\ \A j \in 0..(NIn - 1) : j # i => in_count'[j] = in_count[j]
    <3>1. PageSize \in 1..PageSize
      BY <1>1
    <3>. QED BY <1>2, <2>1, <3>1
  <2>3. InType'
    <3>1. /\ first_in_idx' \in 0..(NIn - 1) /\ next_in_idx' \in 0..(NIn - 1)
          /\ in_page' \in [0..(NIn - 1) -> [1..PageSize -> Item]] /\ made' \in 0..MaxMade
      BY <1>2, <1>3, <1>5, <2>1
    <3>2. in_off' \in 0..(PageSize - 1)
      BY <1>1, <2>1
    <3>3. in_off' < in_count'[first_in_idx']
      BY <1>1, <2>1, <2>2, <3>1
    <3>. QED BY <2>1, <2>2, <3>1, <3>2, <3>3 DEF InType
  <2>4. d \in [0..(NIn - 1) -> Seq(Item)]
    BY <1>2, <1>5, <2>2, InContentType
  <2>5. \A j \in 0..(NIn - 1) : j # first_in_idx => InBuf(in_count, in_page)[j] = d[j]
    BY <1>5, <2>2 DEF InBuf, i
  <2>. HIDE DEF d
  <2>6. Unread = b \o J /\ J \in Seq(Item)
    <3>1. /\ Unread = SubSeq(in_page[first_in_idx], 1, in_count[first_in_idx])
                        \o Joined(NextIn(first_in_idx), next_in_idx, NIn, d)
          /\ Joined(NextIn(first_in_idx), next_in_idx, NIn, d) \in Seq(Item)
      BY <1>1, <2>4, <2>5, FirstUnread
    <3>. QED BY <3>1 DEF b, siz, i, after
  <2>7. Unread' = J
    BY <1>5, <2>1 DEF Unread, d
  <2>. HIDE DEF J
  <2>8. Ready' = J
    BY <2>1, <2>3, <2>6, <2>7, ReadyNext, RestAll
  <2>9. Ready = Rest(b, in_off) \o J
    <3>1. Parts(Unread, in_off, b, J)
      BY <1>6, <1>7, <2>6 DEF Parts
    <3>. QED BY <1>1, <3>1, RestOfTwo, ReadyNow
  <2>10. Rest(b, off) = <<>>
    BY <1>7, <1>11, RestAll
  <2>11. Rest(b, in_off) = x
    BY <1>9, <2>10, ConcatEmptySeq
  <2>. QED BY <1>4, <1>5, <1>9, <1>10, <2>3, <2>6, <2>8, <2>9, <2>11
<1>12. CASE off # siz
  <2>1. in_off' = off /\ UNCHANGED <<in_count, first_in_idx>>
    BY <1>5, <1>12 DEF Use, i, off
  <2>2. off \in 0..(PageSize - 1) /\ off < siz
    BY <1>1, <1>2, <1>6, <1>12
  <2>3. InType'
    BY <1>1, <1>5, <2>1, <2>2 DEF InType, InEmpty, siz, i
  <2>. DEFINE d == InBuf(in_count, in_page)
              J == Joined(after, next_in_idx, NIn, d)
  <2>4. d \in [0..(NIn - 1) -> Seq(Item)]
    BY <1>2, InContentType
  <2>5. \A j \in 0..(NIn - 1) : j # first_in_idx => InBuf(in_count, in_page)[j] = d[j]
    OBVIOUS
  <2>. HIDE DEF d
  <2>6. Unread = b \o J /\ J \in Seq(Item)
    <3>1. /\ Unread = SubSeq(in_page[first_in_idx], 1, in_count[first_in_idx])
                        \o Joined(NextIn(first_in_idx), next_in_idx, NIn, d)
          /\ Joined(NextIn(first_in_idx), next_in_idx, NIn, d) \in Seq(Item)
      BY <1>1, <2>4, <2>5, FirstUnread
    <3>. QED BY <3>1 DEF b, siz, i, after
  <2>7. Unread' = Unread
    BY <1>5, <2>1 DEF Unread
  <2>. HIDE DEF J
  <2>8. Ready' = Rest(Unread, off) /\ Ready = Rest(Unread, in_off)
    BY <1>1, <2>1, <2>3, <2>7, ReadyNow, ReadyNext
  <2>9. Parts(Unread, in_off, b, J) /\ Parts(Unread, off, b, J)
    BY <1>6, <1>7, <2>2, <2>6 DEF Parts
  <2>10. /\ Rest(Unread, in_off) = Rest(b, in_off) \o J
         /\ Rest(Unread, off) = Rest(b, off) \o J
         /\ Rest(Unread, off) \in Seq(Item) /\ Rest(b, off) \in Seq(Item)
    BY <2>9, RestOfTwo
  <2>. DEFINE r == Rest(b, off)
  <2>. HIDE DEF r
  <2>11. (x \o r) \o J = x \o (r \o J)
    <3>1. r \in Seq(Item)
      BY <2>10 DEF r
    <3>. QED BY <1>9, <2>6, <3>1, Assoc
  <2>12. Ready = x \o Ready'
    BY <1>9, <2>8, <2>10, <2>11 DEF r
  <2>. QED BY <1>4, <1>5, <1>9, <1>10, <2>3, <2>8, <2>10, <2>12
<1>. QED BY <1>11, <1>12

\* A new table has nothing to read.
LEMMA FreshIn ==
  ASSUME first_in_idx' = 0, next_in_idx' = 0, in_off' = 0, made' = 0,
         in_count' = [i \in 0..(NIn - 1) |-> PageSize], in_page' = Empty(NIn)
  PROVE  InType' /\ Ready' = <<>>
<1>1. /\ NIn \in Nat /\ NIn > 1 /\ PageSize \in Nat /\ PageSize > 0 /\ 0 \in 0..(NIn - 1)
      /\ MaxMade \in Nat
  BY ConstantsAssumption
<1>2. in_page' \in [0..(NIn - 1) -> [1..PageSize -> Item]]
  BY Items DEF Empty
<1>3. InType'
  BY <1>1, <1>2 DEF InType, InEmpty
<1>4. Unread' = <<>>
  BY <1>1, JoinedNone DEF Unread
<1>5. Ready' = Rest(<<>>, 0) /\ <<>> \in Seq(Item)
  BY <1>3, <1>4, ReadyNext
<1>. QED BY <1>3, <1>5, RestAll

-----------------------------------------------------------------------------
(* The steps of a stream                                                   *)

\* x is added to what is sent and to what is held.
Puts(sent0, queue0, taken0, sent1, queue1, taken1, x) ==
  /\ sent0 \in Seq(Item) /\ x \in Seq(Item) /\ Len(x) > 0
  /\ sent1 = sent0 \o x /\ queue1 = queue0 \o x /\ taken1 = taken0

\* x is the oldest of what is held, and is taken.
Takes(sent0, queue0, taken0, sent1, queue1, taken1, x) ==
  /\ x \in Seq(Item) /\ queue1 \in Seq(Item) /\ Len(x) > 0
  /\ sent1 = sent0 /\ queue0 = x \o queue1 /\ taken1 = taken0 \o x

\* ByteStream's own words for the first.
PutStep(sent0, queue0, taken0, sent1, queue1, taken1) ==
  /\ Len(sent1) > Len(sent0)
  /\ SubSeq(sent1, 1, Len(sent0)) = sent0
  /\ queue1 = queue0 \o SubSeq(sent1, Len(sent0) + 1, Len(sent1))
  /\ taken1 = taken0

\* What is added is a step of ByteStream.
LEMMA PutsIs ==
  ASSUME NEW s, NEW q, NEW k, NEW s1, NEW q1, NEW k1, NEW x, Puts(s, q, k, s1, q1, k1, x)
  PROVE  PutStep(s, q, k, s1, q1, k1)
<1>1. /\ s \in Seq(Item) /\ x \in Seq(Item) /\ Len(x) > 0
      /\ s1 = s \o x /\ q1 = q \o x /\ k1 = k
  BY DEF Puts
<1>2. /\ Len(s1) = Len(s) + Len(x) /\ SubSeq(s1, 1, Len(s)) = s
      /\ SubSeq(s1, Len(s) + 1, Len(s1)) = x
  BY <1>1, SplitSeq
<1>3. Len(s) \in Nat /\ Len(x) \in Nat
  BY <1>1, LenProperties
<1>4. Len(s1) > Len(s)
  BY <1>1, <1>2, <1>3
<1>. QED BY <1>1, <1>2, <1>4 DEF PutStep

\* What is taken is a step of ByteStream.
LEMMA TakesIs ==
  ASSUME NEW s, NEW q, NEW k, NEW s1, NEW q1, NEW k1, NEW x, Takes(s, q, k, s1, q1, k1, x)
  PROVE  /\ \E n \in 1..Len(q) :
              /\ k1 = k \o SubSeq(q, 1, n)
              /\ q1 = SubSeq(q, n + 1, Len(q))
         /\ s1 = s
<1>1. /\ x \in Seq(Item) /\ q1 \in Seq(Item) /\ Len(x) > 0
      /\ s1 = s /\ q = x \o q1 /\ k1 = k \o x
  BY DEF Takes
<1>2. /\ Len(q) = Len(x) + Len(q1) /\ SubSeq(q, 1, Len(x)) = x
      /\ SubSeq(q, Len(x) + 1, Len(q)) = q1
  BY <1>1, SplitSeq
<1>3. Len(q1) \in Nat /\ Len(x) \in Nat
  BY <1>1, LenProperties
<1>. DEFINE n == Len(x)
<1>4. n \in 1..Len(q)
  BY <1>1, <1>2, <1>3
<1>5. k1 = k \o SubSeq(q, 1, n) /\ q1 = SubSeq(q, n + 1, Len(q))
  BY <1>1, <1>2
<1>. QED BY <1>1, <1>4, <1>5

-----------------------------------------------------------------------------
(* The threads that copy *)

\* A step of a call moves one thread.
LEMMA StepPlace ==
  ASSUME BaseInv, NEW t \in Threads, Step(t)
  PROVE  \E at, n, r : /\ pc' = [pc EXCEPT ![t] = at] /\ left' = [left EXCEPT ![t] = n]
                       /\ round' = [round EXCEPT ![t] = r]
<1>1. /\ pc = [pc EXCEPT ![t] = pc[t]] /\ left = [left EXCEPT ![t] = left[t]]
      /\ round = [round EXCEPT ![t] = round[t]]
  BY DEF BaseInv, ThreadType
<1>2. \E at : pc' = [pc EXCEPT ![t] = at]
  <2>1. CASE Doze(t) \/ FallAsleep(t)
    <3>1. pc' = pc
      BY <2>1 DEF Doze, FallAsleep, callVars
    <3>. QED BY <1>1, <3>1, Zenon
  <2>2. CASE ~(Doze(t) \/ FallAsleep(t))
    BY <2>2 DEF Step, Copy, Copied, RingSleep, Flush, PutMark, Interrupted, SyncDone, SwitchDone,
                FetchNone, FetchSome, Fetch, Fetched, Arm, Wake, Continue, Goto, Return
  <2>. QED BY <2>1, <2>2
<1>3. \E n : left' = [left EXCEPT ![t] = n]
  <2>1. CASE Copied(t) \/ Fetched(t)
    BY <2>1 DEF Copied, Fetched
  <2>2. CASE ~(Copied(t) \/ Fetched(t))
    <3>1. left' = left
      BY <2>2 DEF Step, Copy, RingSleep, Flush, PutMark, Interrupted, SyncDone, SwitchDone,
                  FetchNone, FetchSome, Fetch, Arm, Wake, Doze, FallAsleep, callVars,
                  Continue, Goto, Return
    <3>. QED BY <1>1, <3>1, Zenon
  <2>. QED BY <2>1, <2>2
<1>4. \E r : round' = [round EXCEPT ![t] = r]
  <2>1. CASE Copy(t) \/ Fetch(t)
    BY <2>1 DEF Copy, Fetch
  <2>2. CASE ~(Copy(t) \/ Fetch(t))
    <3>1. round' = round
      BY <2>2 DEF Step, Copied, RingSleep, Flush, PutMark, Interrupted, SyncDone, SwitchDone,
                  FetchNone, FetchSome, Fetched, Arm, Wake, Doze, FallAsleep, callVars,
                  Continue, Goto, Return
    <3>. QED BY <1>1, <3>1, Zenon
  <2>. QED BY <2>1, <2>2
<1>. QED BY <1>2, <1>3, <1>4, Zenon

\* The other threads stay where they are.
LEMMA OthersStay ==
  ASSUME BaseInv, NEW t \in Threads, NEW u \in Threads, u # t,
         \/ Step(u) \/ FlushCall(u) \/ SyncCall(u) \/ MarkCall(u) \/ Signal(u)
         \/ \E n \in 1..MaxWrite : Write(u, n) \/ \E w \in {"read", "poll"} : Read(u, w, n)
         \/ \E c \in ChanIds : ChannelCall(u, c)
  PROVE  pc'[t] = pc[t] /\ left'[t] = left[t] /\ round'[t] = round[t]
<1>1. /\ pc \in [Threads -> Places] /\ left \in [Threads -> 0..MaxWrite]
      /\ round \in [Threads -> Rounds]
  BY DEF BaseInv, ThreadType
<1>2. CASE Step(u)
  BY <1>1, <1>2, StepPlace
<1>3. CASE Signal(u)
  BY <1>3 DEF Signal
<1>4. CASE FlushCall(u) \/ SyncCall(u) \/ MarkCall(u) \/ \E c \in ChanIds : ChannelCall(u, c)
  BY <1>1, <1>4 DEF FlushCall, SyncCall, MarkCall, ChannelCall, Start
<1>5. CASE \E n \in 1..MaxWrite : Write(u, n) \/ \E w \in {"read", "poll"} : Read(u, w, n)
  BY <1>1, <1>5 DEF Write, Read, Start
<1>. QED BY <1>2, <1>3, <1>4, <1>5

\* Where a thread has found what it copies, or is about to.
RoundPlaces == {"copying", "take", "taking", "wild"}

\* A thread comes there by the choice of a round, or from the test of the ring.
LEMMA RoundStays ==
  ASSUME BaseInv, [Next]_vars, NEW t \in Threads, pc'[t] \in RoundPlaces
  PROVE  \/ Copy(t) \/ Fetch(t) \/ FetchSome(t) \/ Wake(t)
         \/ pc'[t] = pc[t] /\ left'[t] = left[t] /\ round'[t] = round[t]
<1>1. pc \in [Threads -> Places] /\ CallAt(pc[t], call[t], left[t], round[t].n)
  BY DEF BaseInv, ThreadType
<1>2. ASSUME NEW u \in Threads,
             \/ Step(u) \/ FlushCall(u) \/ SyncCall(u) \/ MarkCall(u) \/ Signal(u)
             \/ \E n \in 1..MaxWrite : Write(u, n) \/ \E w \in {"read", "poll"} : Read(u, w, n)
             \/ \E c \in ChanIds : ChannelCall(u, c),
             u # t
      PROVE  pc'[t] = pc[t] /\ left'[t] = left[t] /\ round'[t] = round[t]
  BY <1>2, OthersStay
<1>3. ASSUME NEW ok \in BOOLEAN, pc[t] \in {"flush", "flushWait"},
             Continue(t, AfterFlush(t, ok))
      PROVE  FALSE
  <2>1. call[t] \in {"write", "read", "flush", "sync", "channel", "mark"}
    BY <1>1, <1>3 DEF CallAt
  <2>2. AfterFlush(t, ok) \in {"copy", "arm", "idle", "sync", "mark"}
    BY <2>1 DEF AfterFlush
  <2>. HIDE DEF AfterFlush
  <2>. QED BY <1>1, <1>3, <2>2 DEF Continue, Return, Goto, RoundPlaces
<1>4. CASE Doze(t) \/ FallAsleep(t)
  BY <1>4 DEF Doze, FallAsleep, callVars
<1>5. ASSUME \/ Copied(t) \/ Fetched(t) \/ RingSleep(t) \/ PutMark(t) \/ SyncDone(t)
             \/ SwitchDone(t) \/ FetchNone(t) \/ Arm(t)
      PROVE  FALSE
  <2>1. pc'[t] \in {"idle", "copy", "flush", "fetch", "flushWait", "markWait", "swap", "arm",
                    "await"}
    BY <1>1, <1>5 DEF Copied, Fetched, RingSleep, PutMark, SyncDone, SwitchDone, FetchNone, Arm,
                      FlushOr, Return, Goto
  <2>. QED BY <2>1 DEF RoundPlaces
<1>6. ASSUME Flush(t) \/ Interrupted(t) PROVE FALSE
  <2>1. CASE Flush(t)
    BY <1>3, <2>1 DEF Flush
  <2>2. CASE pc[t] = "flushWait" /\ Continue(t, AfterFlush(t, FALSE))
    BY <1>3, <2>2
  <2>3. CASE Return(t)
    BY <1>1, <2>3 DEF Return, RoundPlaces
  <2>. QED BY <1>6, <2>1, <2>2, <2>3 DEF Interrupted
<1>7. ASSUME \/ \E n \in 1..MaxWrite : Write(t, n) \/ \E w \in {"read", "poll"} : Read(t, w, n)
             \/ FlushCall(t) \/ SyncCall(t) \/ MarkCall(t)
             \/ \E c \in ChanIds : ChannelCall(t, c)
      PROVE  FALSE
  <2>1. pc'[t] \in {"copy", "fetch", "flush", "sync", "mark"}
    BY <1>1, <1>7 DEF Write, Read, FlushCall, SyncCall, MarkCall, ChannelCall, Start, FlushOr
  <2>. QED BY <2>1 DEF RoundPlaces
<1>8. CASE \/ TimerFires \/ (\E v \in Timeouts : SetTimeout(v)) \/ ForceTimeout
           \/ BoardTakes \/ (\E n \in 1..PageSize : BoardMakes(n)) \/ BoardSwitches \/ Reopen
           \/ Signal(t) \/ UNCHANGED vars
  BY <1>8 DEF TimerFires, SetTimeout, ForceTimeout, BoardTakes, BoardMakes, BoardSwitches,
              Reopen, Signal, threadVars, callVars, vars
<1>9. CASE Step(t)
  BY <1>4, <1>5, <1>6, <1>9 DEF Step
<1>. QED BY <1>2, <1>7, <1>8, <1>9 DEF Next

-----------------------------------------------------------------------------
(* Types *)

\* Steps that touch neither ring.
OutSame == UNCHANGED <<outVars, sent, taken>>
InSame == UNCHANGED <<inVars, received>>

\* A step moves something through the output ring, or leaves it alone.
OutMoves ==
  \/ \E t \in Threads : Copied(t) \/ Flush(t) \/ PutMark(t)
  \/ BoardTakes
  \/ Reopen

InMoves ==
  \/ \E t \in Threads : Fetched(t)
  \/ \E n \in 1..PageSize : BoardMakes(n)
  \/ Reopen

\* Every other step leaves the rings alone.
LEMMA Touches ==
  ASSUME [Next]_vars
  PROVE  (OutMoves \/ OutSame) /\ (InMoves \/ InSame)
<1>. USE DEF OutSame, InSame
<1>1. CASE UNCHANGED vars
  BY <1>1 DEF vars, outVars, inVars, histVars
<1>2. ASSUME NEW t \in Threads, Step(t)
      PROVE  (OutMoves \/ OutSame) /\ (InMoves \/ InSame)
  <2>1. CASE Copied(t)
    BY <2>1 DEF OutMoves, Copied, inVars
  <2>2. CASE Flush(t)
    BY <2>2 DEF OutMoves, Flush, inVars, histVars
  <2>3. CASE PutMark(t)
    BY <2>3 DEF OutMoves, PutMark, inVars
  <2>4. CASE Fetched(t)
    BY <2>4 DEF InMoves, Fetched, outVars
  <2>5. CASE RingSleep(t) \/ Interrupted(t) \/ SyncDone(t) \/ SwitchDone(t) \/ FetchNone(t)
             \/ FetchSome(t) \/ Arm(t) \/ Wake(t) \/ Copy(t) \/ Fetch(t) \/ Doze(t)
             \/ FallAsleep(t)
    BY <2>5 DEF RingSleep, Interrupted, SyncDone, SwitchDone, FetchNone, FetchSome, Arm, Wake,
                Copy, Fetch, Doze, FallAsleep, histVars
  <2>. QED BY <1>2, <2>1, <2>2, <2>3, <2>4, <2>5 DEF Step
<1>3. ASSUME NEW t \in Threads,
             \/ \E n \in 1..MaxWrite : Write(t, n) \/ \E w \in {"read", "poll"} : Read(t, w, n)
             \/ FlushCall(t) \/ SyncCall(t) \/ MarkCall(t)
             \/ \E c \in ChanIds : ChannelCall(t, c)
             \/ Signal(t)
      PROVE  OutSame /\ InSame
  BY <1>3 DEF Write, Read, FlushCall, SyncCall, MarkCall, ChannelCall, Signal, histVars
<1>4. CASE TimerFires \/ (\E v \in Timeouts : SetTimeout(v)) \/ ForceTimeout
           \/ BoardSwitches
  BY <1>4 DEF TimerFires, SetTimeout, ForceTimeout, BoardSwitches, histVars
<1>5. CASE BoardTakes
  BY <1>5 DEF OutMoves, BoardTakes
<1>6. ASSUME NEW n \in 1..PageSize, BoardMakes(n)
      PROVE  (OutMoves \/ OutSame) /\ (InMoves \/ InSame)
  BY <1>6 DEF InMoves, BoardMakes, histVars
<1>7. CASE Reopen
  BY <1>7 DEF OutMoves, InMoves
<1>. QED BY <1>1, <1>2, <1>3, <1>4, <1>5, <1>6, <1>7 DEF Next

\* The output ring keeps its types.
LEMMA OutTypeKept ==
  ASSUME OutSide, [Next]_vars
  PROVE  OutType' /\ sent' \in Seq(Item) /\ taken' \in Seq(Item)
<1>1. OutType /\ sent \in Seq(Item) /\ taken \in Seq(Item)
  BY DEF OutSide, OutInv
<1>2. CASE OutSame
  BY <1>1, <1>2 DEF OutSame, outVars, OutType
<1>3. ASSUME NEW t \in Threads, Copied(t)
      PROVE  OutType' /\ sent' \in Seq(Item) /\ taken' \in Seq(Item)
  <2>1. PICK bytes \in Seq(Item) : sent' = sent \o bytes
    BY <1>3, CopyOut
  <2>2. OutType' /\ taken' = taken
    BY <1>3, CopyOut DEF Copied
  <2>. QED BY <1>1, <2>1, <2>2, ConcatProperties
<1>4. ASSUME NEW t \in Threads, Flush(t)
      PROVE  OutType' /\ sent' \in Seq(Item) /\ taken' \in Seq(Item)
  BY <1>1, <1>4, FlushOut DEF Flush, histVars
<1>5. ASSUME NEW t \in Threads, PutMark(t)
      PROVE  OutType' /\ sent' \in Seq(Item) /\ taken' \in Seq(Item)
  <2>1. OutType' /\ sent' = sent \o <<Mark>> /\ taken' = taken /\ <<Mark>> \in Seq(Item)
    BY <1>5, MarkOut, Items DEF PutMark
  <2>. QED BY <1>1, <2>1, ConcatProperties
<1>6. CASE BoardTakes
  <2>1. PICK c \in Seq(Item) : taken' = taken \o c
    BY <1>6, TakesOut
  <2>2. OutType' /\ sent' = sent
    BY <1>6, TakesOut DEF BoardTakes
  <2>. QED BY <1>1, <2>1, <2>2, ConcatProperties
<1>7. CASE Reopen
  <2>1. OutType'
    BY <1>7, FreshOut DEF Reopen
  <2>2. sent' = <<>> /\ taken' = <<>>
    BY <1>7 DEF Reopen
  <2>. QED BY <2>1, <2>2, EmptySeq
<1>. QED BY <1>2, <1>3, <1>4, <1>5, <1>6, <1>7, Touches DEF OutMoves

\* Nobody moves the offset under a thread that copies, as long as it is alone.
LEMMA CopyingKept ==
  ASSUME OutSide, OneSender, [Next]_vars
  PROVE  Copying'
<1>. SUFFICES ASSUME NEW t \in Threads, pc'[t] = "copying"
              PROVE  round'[t] = Round(left'[t], next_out_idx', out_off', PageSize)
  BY DEF Copying
<1>1. /\ BaseInv /\ OutType /\ pc \in [Threads -> Places] /\ round \in [Threads -> Rounds]
      /\ pc'[t] \in RoundPlaces
  BY DEF OutSide, OutInv, BaseInv, ThreadType, RoundPlaces
<1>2. CASE Copy(t)
  <2>1. /\ round'[t] = Round(left[t], next_out_idx, out_off, out_count[next_out_idx])
        /\ UNCHANGED <<next_out_idx, out_off, left>>
    BY <1>1, <1>2 DEF Copy, outVars
  <2>2. out_count[next_out_idx] = PageSize
    BY <1>1 DEF OutType
  <2>. QED BY <2>1, <2>2
<1>3. CASE pc'[t] = pc[t] /\ left'[t] = left[t] /\ round'[t] = round[t]
  <2>1. pc[t] = "copying" /\ round[t] = Round(left[t], next_out_idx, out_off, PageSize)
    BY <1>3 DEF OutSide, OutInv, Copying
  <2>2. ASSUME NEW u \in Threads, Copied(u) \/ Flush(u) \/ PutMark(u) PROVE FALSE
    <3>1. pc[t] \in SendPlaces /\ pc[u] \in SendPlaces
      BY <2>1, <2>2 DEF Copied, Flush, PutMark, SendPlaces
    <3>2. u = t
      BY <3>1 DEF OneSender
    <3>3. Copied(t)
      BY <2>1, <2>2, <3>2 DEF Flush, PutMark
    <3>. QED BY <1>1, <1>3, <2>1, <3>3 DEF Copied
  <2>3. CASE Reopen
    BY <2>1, <2>3 DEF Reopen, Idle
  <2>4. CASE OutSame \/ BoardTakes
    <3>1. UNCHANGED <<next_out_idx, out_off>>
      BY <2>4 DEF OutSame, BoardTakes, outVars
    <3>. QED BY <1>3, <2>1, <3>1
  <2>. QED BY <2>2, <2>3, <2>4, Touches DEF OutMoves
<1>4. CASE Fetch(t) \/ FetchSome(t) \/ Wake(t)
  <2>1. pc'[t] \in {"wild", "taking", "take", "idle"}
    BY <1>1, <1>4 DEF Fetch, FetchSome, Wake, Goto, Return
  <2>. QED BY <2>1
<1>. QED BY <1>1, <1>2, <1>3, <1>4, RoundStays

\* The input ring keeps its types.
LEMMA InTypeKept ==
  ASSUME InSide, [Next]_vars
  PROVE  InType' /\ received' \in Seq(Item)
<1>1. InType /\ received \in Seq(Item)
  BY DEF InSide, InInv
<1>2. CASE InSame
  BY <1>1, <1>2 DEF InSame, inVars, InType, InEmpty
<1>3. ASSUME NEW t \in Threads, Fetched(t) PROVE InType' /\ received' \in Seq(Item)
  <2>1. PICK x \in Seq(Item) : received' = received \o x
    BY <1>3, FetchIn
  <2>2. InType'
    BY <1>3, FetchIn
  <2>. QED BY <1>1, <2>1, <2>2, ConcatProperties
<1>4. ASSUME NEW n \in 1..PageSize, BoardMakes(n) PROVE InType' /\ received' \in Seq(Item)
  <2>1. InType' /\ received' = received
    BY <1>4, MakesIn
  <2>. QED BY <1>1, <2>1
<1>5. CASE Reopen
  <2>1. InType'
    BY <1>5, FreshIn DEF Reopen
  <2>2. received' = <<>>
    BY <1>5 DEF Reopen
  <2>. QED BY <2>1, <2>2, EmptySeq
<1>. QED BY <1>2, <1>3, <1>4, <1>5, Touches DEF InMoves

\* Nobody moves the offset under a thread that reads, as long as it is alone.
LEMMA TakingKept ==
  ASSUME InSide, OneReader, [Next]_vars
  PROVE  Taking'
<1>. SUFFICES ASSUME NEW t \in Threads, pc'[t] \in TakePlaces
              PROVE  /\ ~InEmpty'
                     /\ pc'[t] = "taking" =>
                          round'[t] = Round(left'[t], first_in_idx', in_off',
                                            in_count'[first_in_idx'])
  BY DEF Taking, TakePlaces
<1>1. /\ BaseInv /\ InType /\ pc \in [Threads -> Places] /\ round \in [Threads -> Rounds]
      /\ pc'[t] \in RoundPlaces
  BY DEF InSide, InInv, BaseInv, ThreadType, TakePlaces, RoundPlaces
<1>2. ASSUME pc[t] \in TakePlaces
      PROVE  /\ ~InEmpty
             /\ pc[t] = "taking" =>
                  round[t] = Round(left[t], first_in_idx, in_off, in_count[first_in_idx])
  BY <1>2 DEF InSide, InInv, Taking, TakePlaces
<1>3. ASSUME NEW u \in Threads, Fetched(u) PROVE FALSE
  <2>1. CASE u = t
    <3>1. pc'[t] \in {"idle", "fetch"}
      BY <1>1, <1>3, <2>1 DEF Fetched
    <3>. QED BY <3>1 DEF TakePlaces
  <2>2. CASE u # t
    <3>1. pc'[t] = pc[t]
      BY <1>1, <1>3, <2>2, OthersStay DEF Step
    <3>2. pc[t] \in TakePlaces /\ pc[u] \in TakePlaces
      BY <1>3, <3>1 DEF Fetched, TakePlaces
    <3>. QED BY <2>2, <3>2 DEF OneReader
  <2>. QED BY <2>1, <2>2
<1>4. CASE Reopen
  BY <1>4 DEF Reopen, Idle, threadVars, callVars, TakePlaces
<1>5. ASSUME NEW n \in 1..PageSize, BoardMakes(n)
      PROVE  /\ ~InEmpty'
             /\ pc'[t] = "taking" =>
                  round'[t] = Round(left'[t], first_in_idx', in_off', in_count'[first_in_idx'])
  <2>1. UNCHANGED <<pc, left, round, first_in_idx, in_off>>
    BY <1>5 DEF BoardMakes, callVars
  <2>2. ~InEmpty /\ first_in_idx' # next_in_idx'
    BY <1>2, <1>5, <2>1 DEF BoardMakes
  <2>3. in_count'[first_in_idx] = in_count[first_in_idx]
    BY <1>1, <1>5, <2>2 DEF BoardMakes, InType, InEmpty
  <2>. QED BY <1>2, <2>1, <2>2, <2>3 DEF InEmpty
<1>6. CASE InSame
  <2>1. UNCHANGED <<first_in_idx, next_in_idx, in_off, in_count>>
    BY <1>6 DEF InSame, inVars
  <2>2. CASE Fetch(t)
    <3>1. /\ pc[t] \in TakePlaces /\ left' = left
          /\ round'[t] = Round(left[t], first_in_idx, in_off, in_count[first_in_idx])
      BY <1>1, <2>2 DEF Fetch, TakePlaces
    <3>. QED BY <1>2, <2>1, <3>1 DEF InEmpty
  <2>3. CASE FetchSome(t) \/ Wake(t)
    <3>1. pc'[t] = "take" /\ ~InEmpty
      BY <1>1, <2>3 DEF FetchSome, Wake, Waits, Goto, Return, TakePlaces
    <3>. QED BY <2>1, <3>1 DEF InEmpty
  <2>4. CASE pc'[t] = pc[t] /\ left'[t] = left[t] /\ round'[t] = round[t]
    BY <1>2, <2>1, <2>4 DEF InEmpty
  <2>5. CASE Copy(t)
    <3>1. pc'[t] \in {"copying", "wild"}
      BY <1>1, <2>5 DEF Copy
    <3>. QED BY <3>1 DEF TakePlaces
  <2>. QED BY <1>1, <2>2, <2>3, <2>4, <2>5, RoundStays
<1>. QED BY <1>3, <1>4, <1>5, <1>6, Touches DEF InMoves

\* At the start there are no bytes anywhere and every thread is idle.
LEMMA TypeInit == Init => OutSide /\ InSide /\ Held = <<>> /\ Ready = <<>>
<1>. SUFFICES ASSUME Init PROVE OutSide /\ InSide /\ Held = <<>> /\ Ready = <<>>
  OBVIOUS
<1>1. /\ NOut \in Nat /\ NOut > 1 /\ NIn \in Nat /\ NIn > 1 /\ PageSize \in Nat /\ PageSize > 0
      /\ MaxMade \in Nat /\ MaxWrite \in Nat /\ 0 \in 0..(NOut - 1) /\ 0 \in 0..(NIn - 1)
  BY ConstantsAssumption
<1>2. OutType
  <2>1. out_page \in [0..(NOut - 1) -> [1..PageSize -> Item]]
    BY Items DEF Empty, Init
  <2>. QED BY <1>1, <2>1 DEF OutType, Init
<1>3. InType
  <2>1. in_page \in [0..(NIn - 1) -> [1..PageSize -> Item]]
    BY Items DEF Empty, Init
  <2>. QED BY <1>1, <2>1 DEF InType, InEmpty, Init
<1>4. sent \in Seq(Item) /\ taken \in Seq(Item) /\ received \in Seq(Item)
  BY EmptySeq DEF Init
<1>5. Copying /\ Taking
  BY DEF Copying, Taking, Init
<1>6. Held = <<>>
  <2>1. Published = <<>>
    BY <1>1, JoinedNone DEF Published, Init
  <2>2. Filling = <<>>
    BY <1>1, SubSeqEmpty DEF Filling, Init
  <2>3. Held = <<>> \o <<>>
    BY <1>2, <2>1, <2>2, HeldNow
  <2>. QED BY <2>3
<1>7. Ready = <<>>
  <2>1. Unread = <<>>
    BY <1>1, JoinedNone DEF Unread, Init
  <2>2. Ready = Rest(<<>>, 0) /\ <<>> \in Seq(Item)
    BY <1>3, <2>1, ReadyNow DEF Init
  <2>. QED BY <2>2, RestAll
<1>. QED BY <1>2, <1>3, <1>4, <1>5, <1>6, <1>7, BaseInit DEF OutSide, InSide, OutInv, InInv

\* Every step keeps the output half, ...
LEMMA OutSideStep == OutSide /\ OneSender /\ [Next]_vars => OutSide'
BY OutTypeKept, CopyingKept, BaseKept, TimeChanKept, ThreadKept DEF OutSide, OutInv, BaseInv

\* ... and the input half.
LEMMA InSideStep == InSide /\ OneReader /\ [Next]_vars => InSide'
BY InTypeKept, TakingKept, BaseKept, TimeChanKept, ThreadKept DEF InSide, InInv, BaseInv

\* The output half, as long as one thread at a time sends.
LEMMA OutInvariant == Spec /\ []OneSender => []OutSide
<1>1. Init => OutSide
  BY TypeInit
<1>. QED BY <1>1, OutSideStep, PTL DEF Spec

\* The input half, as long as one thread at a time reads.
LEMMA InInvariant == Spec /\ []OneReader => []InSide
<1>1. Init => InSide
  BY TypeInit
<1>. QED BY <1>1, InSideStep, PTL DEF Spec

\* No copy runs behind the end of a buffer.
NoWild == \A t \in Threads : pc[t] # "wild"

\* Offsets that stay in their pages are never behind the end.
LEMMA NoWildStep == OutSide /\ InSide /\ NoWild /\ [Next]_vars => NoWild'
<1>. SUFFICES ASSUME OutSide, InSide, NoWild, [Next]_vars,
                     NEW t \in Threads, pc'[t] = "wild"
              PROVE  FALSE
  BY DEF NoWild
<1>1. BaseInv /\ pc \in [Threads -> Places] /\ pc'[t] \in RoundPlaces
  BY DEF OutSide, BaseInv, ThreadType, RoundPlaces
<1>2. ASSUME Copy(t) PROVE FALSE
  <2>1. out_off > out_count[next_out_idx]
    BY <1>1, <1>2 DEF Copy
  <2>2. out_off \in 0..PageSize /\ out_count[next_out_idx] = PageSize
    BY DEF OutSide, OutInv, OutType
  <2>. QED BY <2>1, <2>2, ConstantsAssumption
<1>3. ASSUME Fetch(t) PROVE FALSE
  <2>1. in_off > in_count[first_in_idx] /\ pc[t] = "take"
    BY <1>1, <1>3 DEF Fetch
  <2>2. ~InEmpty
    BY <2>1 DEF InSide, InInv, Taking
  <2>3. in_off < in_count[first_in_idx] /\ in_off \in Nat /\ in_count[first_in_idx] \in Nat
    BY <2>2, ConstantsAssumption DEF InSide, InInv, InType
  <2>. QED BY <2>1, <2>3
<1>4. ASSUME FetchSome(t) \/ Wake(t) PROVE FALSE
  BY <1>1, <1>4 DEF FetchSome, Wake, Goto, Return
<1>5. ASSUME pc'[t] = pc[t] PROVE FALSE
  BY <1>5 DEF NoWild
<1>. QED BY <1>1, <1>2, <1>3, <1>4, <1>5, RoundStays

\* TypeOK: every part of the channel keeps its type, and no index or offset leaves
\* its ring or its page, as long as one thread at a time reads and one sends.
THEOREM TypeKept == Spec /\ []OneReader /\ []OneSender => []TypeOK
<1>1. OutSide /\ InSide /\ NoWild => TypeOK
  <2>. SUFFICES ASSUME OutSide, InSide, NoWild PROVE TypeOK
    OBVIOUS
  <2>1. /\ \A i \in 0..(NOut - 1) : DOMAIN out_page[i] = 1..PageSize
        /\ \A i \in 0..(NIn - 1) : DOMAIN in_page[i] = 1..PageSize
    BY DEF OutSide, OutInv, OutType, InSide, InInv, InType
  <2>2. \A t \in Threads : round[t].n \in 0..MaxWrite
    BY DEF OutSide, BaseInv, ThreadType, Rounds
  <2>3. pc \in [Threads -> Places \ {"wild"}]
    BY DEF OutSide, BaseInv, ThreadType, NoWild
  <2>4. Places \ {"wild"} = {"idle", "copy", "copying", "flush", "flushWait", "mark",
                             "markWait", "sync", "swap", "fetch", "take", "taking", "arm",
                             "await"}
    BY DEF Places
  <2>. QED BY <2>1, <2>2, <2>3, <2>4
           DEF OutSide, OutInv, OutType, InSide, InInv, InType, BaseInv, TimeType, ChanType,
               ThreadType, Naps, TypeOK
<1>2. Init => NoWild
  BY DEF Init, NoWild
<1>. QED BY <1>1, <1>2, NoWildStep, OutInvariant, InInvariant, PTL DEF Spec

-----------------------------------------------------------------------------
(* The input half is a stream, for any number of threads of which one at a *)
(* time reads                                                              *)

\* A step of the input half is one of ByteStream's.
LEMMA ReadStep ==
  ASSUME InSide, [Next]_vars
  PROVE  [In!Next]_(In!vars)
<1>. DEFINE s == [k \in 1..made |-> k]
<1>0. s = Chunk(0, made) /\ made \in Nat /\ InType
  BY ConstantsAssumption DEF Chunk, InSide, InInv, InType
<1>1. CASE InSame
  <2>1. made' = made /\ received' = received /\ Ready' = Ready
    BY <1>1 DEF InSame, inVars, Ready, Indices
  <2>. QED BY <2>1 DEF In!vars
<1>2. ASSUME NEW t \in Threads, Fetched(t) PROVE In!Take
  <2>1. PICK x \in Seq(Item) :
          /\ Len(x) > 0 /\ received' = received \o x
          /\ Ready = x \o Ready' /\ Ready' \in Seq(Item)
    BY <1>2, FetchIn
  <2>2. s' = s
    BY <1>2, FetchIn
  <2>3. Takes(s, Ready, received, s', Ready', received', x)
    BY <2>1, <2>2 DEF Takes
  <2>. HIDE DEF s
  <2>4. /\ \E n \in 1..Len(Ready) :
             /\ received' = received \o SubSeq(Ready, 1, n)
             /\ Ready' = SubSeq(Ready, n + 1, Len(Ready))
        /\ s' = s
    BY <2>3, TakesIs
  <2>. QED BY <2>4 DEF In!Take, s
<1>3. ASSUME NEW n \in 1..PageSize, BoardMakes(n) PROVE In!Put
  <2>1. /\ made' = made + n /\ received' = received
        /\ Ready \in Seq(Item) /\ Ready' = Ready \o Chunk(made, n)
    BY <1>3, MakesIn
  <2>2. n \in Nat /\ n > 0
    BY ConstantsAssumption
  <2>3. s' = s \o Chunk(made, n)
    <3>. DEFINE x == Chunk(made, n)
                y == s \o x
                z == Chunk(0, made + n)
    <3>1. s' = z
      BY <2>1 DEF Chunk
    <3>2. /\ s \in Seq(Item) /\ Len(s) = made /\ x \in Seq(Item) /\ Len(x) = n
          /\ z \in Seq(Item) /\ Len(z) = made + n
      <4>1. made \in Nat /\ n \in Nat /\ 0 \in Nat /\ made + n \in Nat
        BY <1>0, <2>2
      <4>2. Chunk(0, made) \in Seq(Item) /\ Len(Chunk(0, made)) = made
        BY <4>1, ChunkType
      <4>. HIDE DEF s
      <4>. QED BY <1>0, <4>1, <4>2, ChunkType
    <3>3. /\ \A k \in 1..made : s[k] = k
          /\ \A k \in 1..n : x[k] = made + k
          /\ \A k \in 1..(made + n) : z[k] = k
      BY <1>0, <2>2 DEF Chunk
    <3>. HIDE DEF s, x, z
    <3>4. /\ y \in Seq(Item) /\ Len(y) = Len(s) + Len(x)
          /\ \A k \in 1..(Len(s) + Len(x)) :
               y[k] = IF k <= Len(s) THEN s[k] ELSE x[k - Len(s)]
      BY <3>2, ConcatProperties
    <3>. HIDE DEF y
    <3>5. \A k \in 1..Len(z) : z[k] = y[k]
      <4>. TAKE k \in 1..Len(z)
      <4>1. k \in 1..(made + n) /\ k \in 1..(Len(s) + Len(x))
        BY <3>2
      <4>2. CASE k <= made
        <5>1. k \in 1..made
          BY <1>0, <4>1, <4>2
        <5>. QED BY <3>2, <3>3, <3>4, <4>1, <4>2, <5>1
      <4>3. CASE ~(k <= made)
        <5>. DEFINE j == k - made
        <5>1. j \in 1..n /\ made + j = k
          BY <1>0, <2>2, <4>1, <4>3
        <5>2. y[k] = x[j]
          BY <3>2, <3>4, <4>1, <4>3
        <5>. HIDE DEF j
        <5>. QED BY <3>3, <4>1, <5>1, <5>2
      <4>. QED BY <4>2, <4>3
    <3>6. z = y
      BY <3>2, <3>4, <3>5, SeqEqual
    <3>. QED BY <3>1, <3>6 DEF y, x
  <2>. DEFINE x == Chunk(made, n)
  <2>4. x \in Seq(Item) /\ Len(x) > 0 /\ s \in Seq(Item)
    BY <1>0, <2>2, ChunkType
  <2>5. Puts(s, Ready, received, s', Ready', received', x)
    <3>. HIDE DEF s
    <3>. QED BY <2>1, <2>3, <2>4 DEF Puts
  <2>. HIDE DEF s, x
  <2>6. PutStep(s, Ready, received, s', Ready', received')
    BY <2>5, PutsIs
  <2>. QED BY <2>6 DEF In!Put, PutStep, s
<1>4. CASE Reopen
  <2>1. Ready' = <<>>
    BY <1>4, FreshIn DEF Reopen
  <2>2. made' = 0 /\ received' = <<>>
    BY <1>4 DEF Reopen
  <2>3. s' = <<>>
    BY <2>2
  <2>. QED BY <2>1, <2>2, <2>3 DEF In!Next, In!Reopen
<1>. QED BY <1>1, <1>2, <1>3, <1>4, Touches DEF InMoves, In!Next

\* ReadsAreAStream: the bytes the board makes reach the readers in order, each
\* once, however buffers and calls cut them, as long as one thread at a time
\* copies them.
THEOREM ReadsStream == Spec /\ []OneReader => ReadsAreAStream
<1>1. Init => In!Init
  <2>. SUFFICES ASSUME Init PROVE In!Init
    OBVIOUS
  <2>1. made = 0 /\ received = <<>> /\ Ready = <<>>
    BY TypeInit DEF Init
  <2>2. [k \in 1..made |-> k] = <<>>
    BY <2>1
  <2>. QED BY <2>1, <2>2 DEF In!Init
<1>. QED BY <1>1, ReadStep, InInvariant, PTL DEF Spec, ReadsAreAStream, In!Spec

-----------------------------------------------------------------------------
(* The output half is a stream, for any number of threads of which one at  *)
(* a time fills or publishes buffers, as long as no signal interrupts a    *)
(* file mark                                                               *)

\* No signal finds a thread that waits to put a file mark.
MarksSafe == Signals => "mark" \notin Calls

\* A call flushes only what there is, and marks when all is flushed.
FlowAt(at, off) ==
  /\ at \in {"flush", "flushWait"} => off > 0
  /\ at \in {"mark", "markWait"} => off = 0

FlowInv ==
  /\ MarksSafe
  /\ \A t \in Threads :
       /\ FlowAt(pc[t], out_off)
       /\ pc[t] # "idle" => call[t] \in Calls
       /\ signal[t] => Signals

\* The threads that take no part in a step are not disturbed by it.
LEMMA FlowOthers ==
  ASSUME FlowInv, OneSender, NEW t \in Threads, pc[t] \in SendPlaces \/ out_off' = out_off,
         NEW u \in Threads, u # t, pc'[u] = pc[u], call'[u] = call[u], signal'[u] = signal[u]
  PROVE  /\ FlowAt(pc'[u], out_off')
         /\ pc'[u] # "idle" => call'[u] \in Calls
         /\ signal'[u] => Signals
BY DEF FlowInv, FlowAt, OneSender, SendPlaces

\* A call starts.
LEMMA FlowStart ==
  ASSUME OutSide, FlowInv, NEW t \in Threads, NEW what, NEW at, NEW n, NEW c,
         Start(t, what, at, n, c), FlowAt(at, out_off'), OneSender, out_off' = out_off
  PROVE  FlowInv'
<1>1. pc \in [Threads -> Places] /\ call \in [Threads -> AllCalls]
  BY DEF OutSide, BaseInv, ThreadType
<1>2. /\ what \in Calls /\ pc' = [pc EXCEPT ![t] = at] /\ call' = [call EXCEPT ![t] = what]
      /\ signal' = signal
  BY DEF Start
<1>3. pc'[t] = at /\ call'[t] = what /\ signal'[t] = signal[t]
  BY <1>1, <1>2
<1>4. \A u \in Threads : u # t => pc'[u] = pc[u] /\ call'[u] = call[u] /\ signal'[u] = signal[u]
  BY <1>1, <1>2
<1>. QED BY <1>2, <1>3, <1>4, FlowOthers DEF FlowInv, MarksSafe

\* A call goes on.
LEMMA FlowGoto ==
  ASSUME OutSide, FlowInv, NEW t \in Threads, pc[t] # "idle", NEW at,
         Goto(t, at), FlowAt(at, out_off'), OneSender,
         pc[t] \in SendPlaces \/ out_off' = out_off
  PROVE  FlowInv'
<1>1. pc \in [Threads -> Places]
  BY DEF OutSide, BaseInv, ThreadType
<1>2. pc' = [pc EXCEPT ![t] = at] /\ call' = call /\ signal' = signal
  BY DEF Goto
<1>3. pc'[t] = at
  BY <1>1, <1>2
<1>4. \A u \in Threads : u # t => pc'[u] = pc[u] /\ call'[u] = call[u] /\ signal'[u] = signal[u]
  BY <1>1, <1>2
<1>. QED BY <1>2, <1>3, <1>4, FlowOthers DEF FlowInv, MarksSafe

\* A call returns.
LEMMA FlowReturn ==
  ASSUME OutSide, FlowInv, NEW t \in Threads, Return(t), OneSender,
         pc[t] \in SendPlaces \/ out_off' = out_off
  PROVE  FlowInv'
<1>1. pc \in [Threads -> Places] /\ signal \in [Threads -> BOOLEAN]
  BY DEF OutSide, BaseInv, ThreadType
<1>2. pc'[t] = "idle" /\ signal'[t] = FALSE
  BY <1>1 DEF Return
<1>3. FlowAt("idle", out_off')
  BY DEF FlowAt
<1>4. \A u \in Threads : u # t => pc'[u] = pc[u] /\ call'[u] = call[u] /\ signal'[u] = signal[u]
  BY <1>1 DEF Return
<1>. QED BY <1>2, <1>3, <1>4, FlowOthers DEF FlowInv, MarksSafe

\* A round of one of the loops begins or ends.
LEMMA FlowRound ==
  ASSUME OutSide, FlowInv, OneSender, NEW t \in Threads,
         Copy(t) \/ Copied(t) \/ Fetch(t) \/ Fetched(t)
  PROVE  FlowInv'
<1>1. /\ pc \in [Threads -> Places] /\ signal \in [Threads -> BOOLEAN]
      /\ pc[t] # "idle" /\ call' = call
  BY DEF OutSide, BaseInv, ThreadType, Copy, Copied, Fetch, Fetched
<1>2. \A u \in Threads : u # t => pc'[u] = pc[u] /\ call'[u] = call[u] /\ signal'[u] = signal[u]
  BY <1>1 DEF Copy, Copied, Fetch, Fetched
<1>3. signal'[t] => signal[t]
  BY <1>1 DEF Copy, Copied, Fetch, Fetched
<1>4. FlowAt(pc'[t], out_off')
  <2>1. CASE Copied(t)
    <3>1. round[t] = Round(left[t], next_out_idx, out_off, PageSize)
      BY <2>1 DEF Copied, OutSide, OutInv, Copying
    <3>2. round[t].idx = next_out_idx /\ out_count[next_out_idx] = PageSize /\ PageSize > 0
      BY <3>1, ConstantsAssumption DEF Round, OutSide, OutInv, OutType
    <3>3. /\ pc'[t] \in {"flush", "copy", "idle"}
          /\ pc'[t] = "flush" => out_off' = out_count[round[t].idx]
      BY <1>1, <2>1 DEF Copied
    <3>. QED BY <3>2, <3>3 DEF FlowAt
  <2>2. CASE Copy(t) \/ Fetch(t) \/ Fetched(t)
    <3>1. pc'[t] \in {"idle", "fetch", "copying", "taking", "wild"}
      BY <1>1, <2>2 DEF Copy, Fetch, Fetched
    <3>. QED BY <3>1 DEF FlowAt
  <2>. QED BY <2>1, <2>2
<1>5. pc[t] \in SendPlaces \/ out_off' = out_off
  BY DEF Copy, Copied, Fetch, Fetched, SendPlaces, outVars
<1>. QED BY <1>1, <1>2, <1>3, <1>4, <1>5, FlowOthers DEF FlowInv, MarksSafe

\* The other steps of a call.
LEMMA FlowMoves ==
  ASSUME OutSide, FlowInv, OneSender, NEW t \in Threads,
         \/ RingSleep(t) \/ Flush(t) \/ PutMark(t) \/ Interrupted(t) \/ SyncDone(t)
         \/ SwitchDone(t) \/ FetchNone(t) \/ FetchSome(t) \/ Arm(t) \/ Wake(t)
  PROVE  FlowInv'
<1>1. /\ FlowAt(pc[t], out_off) /\ CallAt(pc[t], call[t], left[t], round[t].n)
      /\ pc[t] # "idle" => call[t] \in Calls
      /\ signal[t] => Signals
      /\ out_off \in Nat
  BY DEF FlowInv, OutSide, BaseInv, BaseType, ThreadType
<1>0. pc[t] \in SendPlaces \/ out_off' = out_off
  BY DEF RingSleep, Flush, PutMark, Interrupted, SyncDone, SwitchDone, FetchNone,
         FetchSome, Arm, Wake, SendPlaces, outVars
<1>2. CASE Return(t)
  BY <1>0, <1>2, FlowReturn
<1>3. CASE RingSleep(t)
  <2>1. PICK at \in {"flushWait", "markWait"} :
          Goto(t, at) /\ at = IF pc[t] = "flush" THEN "flushWait" ELSE "markWait"
    BY <1>3 DEF RingSleep
  <2>2. pc[t] \in {"flush", "mark"} /\ out_off' = out_off
    BY <1>3 DEF RingSleep, outVars
  <2>3. FlowAt(at, out_off')
    BY <1>1, <2>1, <2>2 DEF FlowAt
  <2>. QED BY <2>1, <2>2, <2>3, <1>0, FlowGoto
<1>4. CASE Flush(t)
  <2>1. out_off' = 0 /\ pc[t] \in {"flush", "flushWait"} /\ Continue(t, AfterFlush(t, TRUE))
    BY <1>4 DEF Flush, Publish
  <2>2. FlowAt(AfterFlush(t, TRUE), out_off')
    BY <1>1, <2>1 DEF AfterFlush, FlowAt, CallAt
  <2>3. Return(t) \/ Goto(t, AfterFlush(t, TRUE))
    BY <2>1 DEF Continue
  <2>. HIDE DEF AfterFlush
  <2>. QED BY <1>2, <2>1, <2>2, <2>3, <1>0, FlowGoto
<1>5. CASE Interrupted(t)
  <2>1. CASE pc[t] = "flushWait" /\ Continue(t, AfterFlush(t, FALSE))
    <3>1. signal[t] /\ "mark" \notin Calls /\ call[t] \in Calls
      BY <1>1, <1>5, <2>1 DEF Interrupted, FlowInv, MarksSafe
    <3>2. FlowAt(AfterFlush(t, FALSE), out_off')
      BY <1>1, <2>1, <3>1 DEF AfterFlush, FlowAt, CallAt
    <3>3. Return(t) \/ Goto(t, AfterFlush(t, FALSE))
      BY <2>1 DEF Continue
    <3>. HIDE DEF AfterFlush
    <3>. QED BY <1>2, <2>1, <3>2, <3>3, <1>0, FlowGoto
  <2>. QED BY <1>2, <1>5, <2>1 DEF Interrupted
<1>6. CASE SyncDone(t)
  <2>1. Return(t) \/ Goto(t, "swap")
    BY <1>6 DEF SyncDone
  <2>2. FlowAt("swap", out_off') /\ pc[t] # "idle"
    BY <1>6 DEF FlowAt, SyncDone
  <2>. QED BY <1>2, <2>1, <2>2, <1>0, FlowGoto
<1>7. CASE FetchNone(t)
  <2>1. (Return(t) \/ Goto(t, FlushOr(t, "arm"))) /\ pc[t] # "idle" /\ out_off' = out_off
    BY <1>7 DEF FetchNone, outVars
  <2>2. FlowAt(FlushOr(t, "arm"), out_off')
    BY <1>1, <2>1 DEF FlushOr, FlowAt
  <2>. QED BY <1>2, <2>1, <2>2, <1>0, FlowGoto
<1>8. CASE Arm(t)
  <2>1. Goto(t, "await") /\ pc[t] # "idle" /\ FlowAt("await", out_off')
    BY <1>8 DEF Arm, FlowAt
  <2>. QED BY <2>1, <1>0, FlowGoto
<1>9. CASE Wake(t)
  <2>1. (Return(t) \/ Goto(t, "take")) /\ pc[t] # "idle" /\ FlowAt("take", out_off')
    BY <1>9 DEF Wake, FlowAt
  <2>. QED BY <1>2, <2>1, <1>0, FlowGoto
<1>10. CASE PutMark(t) \/ SwitchDone(t)
  BY <1>2, <1>10 DEF PutMark, SwitchDone
<1>11. CASE FetchSome(t)
  <2>1. Goto(t, "take") /\ pc[t] # "idle" /\ FlowAt("take", out_off')
    BY <1>11 DEF FetchSome, FlowAt
  <2>. QED BY <2>1, <1>0, FlowGoto
<1>. QED BY <1>3, <1>4, <1>5, <1>6, <1>7, <1>8, <1>9, <1>10, <1>11

\* A call that starts.
LEMMA FlowStarts ==
  ASSUME OutSide, FlowInv, OneSender, NEW t \in Threads,
         \/ \E n \in 1..MaxWrite : Write(t, n) \/ \E w \in {"read", "poll"} : Read(t, w, n)
         \/ FlushCall(t) \/ SyncCall(t) \/ MarkCall(t)
         \/ \E c \in ChanIds : ChannelCall(t, c)
  PROVE  FlowInv'
<1>1. out_off \in Nat
  BY DEF OutSide, BaseInv, BaseType
<1>2. out_off' = out_off
  BY DEF Write, Read, FlushCall, SyncCall, MarkCall, ChannelCall, outVars
<1>3. CASE \E n \in 1..MaxWrite : Write(t, n)
  <2>1. PICK n \in 1..MaxWrite : Start(t, "write", "copy", n, channel)
    BY <1>3 DEF Write
  <2>2. FlowAt("copy", out_off')
    BY DEF FlowAt
  <2>. QED BY <2>1, <2>2, <1>2, FlowStart
<1>4. CASE \E n \in 1..MaxWrite, w \in {"read", "poll"} : Read(t, w, n)
  <2>1. PICK n \in 1..MaxWrite, w \in {"read", "poll"} : Start(t, w, "fetch", n, channel)
    BY <1>4 DEF Read
  <2>2. FlowAt("fetch", out_off')
    BY DEF FlowAt
  <2>. QED BY <2>1, <2>2, <1>2, FlowStart
<1>5. CASE FlushCall(t)
  <2>1. Start(t, "flush", "flush", 0, channel) /\ out_off # 0
    BY <1>5 DEF FlushCall
  <2>2. FlowAt("flush", out_off')
    BY <1>1, <1>2, <2>1 DEF FlowAt
  <2>. QED BY <2>1, <2>2, <1>2, FlowStart
<1>6. CASE SyncCall(t)
  <2>1. Start(t, "sync", FlushOr(t, "sync"), 0, channel)
    BY <1>6 DEF SyncCall
  <2>2. FlowAt(FlushOr(t, "sync"), out_off')
    BY <1>1, <1>2 DEF FlowAt, FlushOr
  <2>. QED BY <2>1, <2>2, <1>2, FlowStart
<1>7. CASE MarkCall(t)
  <2>1. Start(t, "mark", FlushOr(t, "mark"), 0, channel)
    BY <1>7 DEF MarkCall
  <2>2. FlowAt(FlushOr(t, "mark"), out_off')
    BY <1>1, <1>2 DEF FlowAt, FlushOr
  <2>. QED BY <2>1, <2>2, <1>2, FlowStart
<1>8. CASE \E c \in ChanIds : ChannelCall(t, c)
  <2>1. PICK c : Start(t, "channel", FlushOr(t, "sync"), 0, c)
    BY <1>8 DEF ChannelCall
  <2>2. FlowAt(FlushOr(t, "sync"), out_off')
    BY <1>1, <1>2 DEF FlowAt, FlushOr
  <2>. QED BY <2>1, <2>2, <1>2, FlowStart
<1>. QED BY <1>3, <1>4, <1>5, <1>6, <1>7, <1>8

\* Every step keeps FlowInv.
LEMMA FlowStep == OutSide /\ FlowInv /\ OneSender /\ [Next]_vars => FlowInv'
<1>. SUFFICES ASSUME OutSide, FlowInv, OneSender, [Next]_vars PROVE FlowInv'
  OBVIOUS
<1>1. CASE UNCHANGED <<pc, call, signal, out_off>>
  BY <1>1 DEF FlowInv, MarksSafe
<1>2. ASSUME NEW t \in Threads, Signal(t) PROVE FlowInv'
  <2>. QED BY <1>2 DEF Signal, outVars, FlowInv, MarksSafe
<1>3. CASE Reopen
  <2>1. out_off' = 0 /\ UNCHANGED <<pc, call, signal>> /\ Idle
    BY <1>3 DEF Reopen, threadVars, callVars
  <2>2. \A t \in Threads : pc[t] = "idle"
    BY <2>1 DEF Idle
  <2>3. FlowAt("idle", 0)
    BY DEF FlowAt
  <2>. QED BY <2>1, <2>2, <2>3 DEF FlowInv, MarksSafe
<1>4. CASE TimerFires \/ (\E v \in Timeouts : SetTimeout(v)) \/ ForceTimeout \/ BoardTakes
           \/ (\E n \in 1..PageSize : BoardMakes(n)) \/ BoardSwitches
  BY <1>1, <1>4 DEF TimerFires, SetTimeout, ForceTimeout, BoardTakes, BoardMakes, BoardSwitches,
                    outVars, threadVars, callVars
<1>5. CASE UNCHANGED vars
  BY <1>1, <1>5 DEF vars, outVars, threadVars, callVars
<1>6. ASSUME NEW t \in Threads, Doze(t) \/ FallAsleep(t) PROVE FlowInv'
  BY <1>1, <1>6 DEF Doze, FallAsleep, outVars, callVars
<1>. QED BY <1>2, <1>3, <1>4, <1>5, <1>6, FlowStarts, FlowMoves, FlowRound DEF Next, Step

\* What is sent is what the board has taken and what the driver holds.
Stream == sent = taken \o Held

FlowAll == OutSide /\ FlowInv /\ Stream

\* A step of the output half is one of ByteStream's.
LEMMA WriteStep ==
  ASSUME FlowAll, [Next]_vars
  PROVE  [Out!Next]_(Out!vars) /\ Stream'
<1>1. /\ OutSide /\ FlowInv /\ OutType /\ sent = taken \o Held
      /\ sent \in Seq(Item) /\ taken \in Seq(Item)
  BY DEF FlowAll, Stream, OutSide, OutInv
<1>2. Held \in Seq(Item)
  <2>1. /\ Held = Published \o Filling /\ Published \in Seq(Item) /\ Filling \in Seq(Item)
    BY <1>1, HeldNow
  <2>. HIDE DEF Published, Filling
  <2>. QED BY <2>1, ConcatProperties
<1>. DEFINE q == Held
<1>3. ASSUME NEW x \in Seq(Item), sent' = sent \o x, Held' = Held \o x, taken' = taken
      PROVE  [Out!Next]_(Out!vars) /\ Stream'
  <2>. HIDE DEF q
  <2>1. sent' = taken' \o Held'
    <3>1. (taken \o q) \o x = taken \o (q \o x)
      BY <1>1, <1>2, <1>3, Assoc DEF q
    <3>. QED BY <1>1, <1>3, <3>1 DEF q
  <2>2. CASE Len(x) > 0
    <3>1. Puts(sent, Held, taken, sent', Held', taken', x)
      BY <1>1, <1>3, <2>2 DEF Puts
    <3>2. PutStep(sent, Held, taken, sent', Held', taken')
      BY <3>1, PutsIs
    <3>. QED BY <2>1, <3>2 DEF PutStep, Stream, Out!Put, Out!Next
  <2>3. CASE ~(Len(x) > 0)
    <3>1. x = <<>>
      BY <1>3, <2>3, EmptySeq
    <3>2. sent' = sent /\ Held' = Held
      BY <1>1, <1>2, <1>3, <3>1, ConcatEmptySeq
    <3>. QED BY <1>3, <2>1, <3>2 DEF Stream, Out!vars
  <2>. QED BY <2>2, <2>3
<1>4. ASSUME sent' = sent, taken' = taken, Held' = Held
      PROVE  [Out!Next]_(Out!vars) /\ Stream'
  BY <1>1, <1>4 DEF Stream, Out!vars
<1>5. CASE OutSame
  <2>1. Held' = Held /\ sent' = sent /\ taken' = taken
    BY <1>5 DEF OutSame, outVars, Held, Indices, Contents
  <2>. QED BY <1>4, <2>1
<1>6. ASSUME NEW t \in Threads, Copied(t) PROVE [Out!Next]_(Out!vars) /\ Stream'
  <2>1. PICK x \in Seq(Item) : sent' = sent \o x /\ Held' = Held \o x
    BY <1>1, <1>6, CopyOut
  <2>2. taken' = taken
    BY <1>6 DEF Copied
  <2>. QED BY <1>3, <2>1, <2>2
<1>7. ASSUME NEW t \in Threads, Flush(t) PROVE [Out!Next]_(Out!vars) /\ Stream'
  <2>1. out_off > 0
    BY <1>1, <1>7 DEF Flush, FlowInv, FlowAt
  <2>2. Held' = Held
    BY <1>1, <1>7, <2>1, FlushOut
  <2>3. sent' = sent /\ taken' = taken
    BY <1>7 DEF Flush, histVars
  <2>. QED BY <1>4, <2>2, <2>3
<1>8. ASSUME NEW t \in Threads, PutMark(t) PROVE [Out!Next]_(Out!vars) /\ Stream'
  <2>1. out_off = 0
    BY <1>1, <1>8 DEF PutMark, FlowInv, FlowAt
  <2>2. sent' = sent \o <<Mark>> /\ Held' = Held \o <<Mark>>
    BY <1>1, <1>8, <2>1, MarkOut
  <2>3. taken' = taken /\ <<Mark>> \in Seq(Item)
    BY <1>8, Items DEF PutMark
  <2>. QED BY <1>3, <2>2, <2>3
<1>9. CASE BoardTakes
  <2>1. PICK x \in Seq(Item) :
          /\ Len(x) > 0 /\ taken' = taken \o x
          /\ Held = x \o Held' /\ Held' \in Seq(Item)
    BY <1>1, <1>9, TakesOut
  <2>2. sent' = sent
    BY <1>9 DEF BoardTakes
  <2>3. Takes(sent, Held, taken, sent', Held', taken', x)
    BY <2>1, <2>2 DEF Takes
  <2>4. /\ \E n \in 1..Len(Held) :
             /\ taken' = taken \o SubSeq(Held, 1, n)
             /\ Held' = SubSeq(Held, n + 1, Len(Held))
        /\ sent' = sent
    BY <2>3, TakesIs
  <2>5. Out!Take
    BY <2>4 DEF Out!Take
  <2>6. sent' = taken' \o Held'
    <3>. DEFINE r == Held'
    <3>. HIDE DEF r
    <3>1. (taken \o x) \o r = taken \o (x \o r)
      BY <1>1, <2>1, Assoc DEF r
    <3>. QED BY <1>1, <2>1, <2>2, <3>1 DEF r
  <2>. QED BY <2>5, <2>6 DEF Stream, Out!Next
<1>10. CASE Reopen
  <2>1. Held' = <<>>
    BY <1>10, FreshOut DEF Reopen
  <2>2. sent' = <<>> /\ taken' = <<>>
    BY <1>10 DEF Reopen
  <2>3. <<>> \o <<>> = <<>>
    OBVIOUS
  <2>. QED BY <2>1, <2>2, <2>3 DEF Stream, Out!Next, Out!Reopen
<1>. QED BY <1>5, <1>6, <1>7, <1>8, <1>9, <1>10, Touches DEF OutMoves

\* The invariant holds at the start.
LEMMA FlowInit == MarksSafe /\ Init => FlowAll
<1>. SUFFICES ASSUME MarksSafe, Init PROVE FlowAll
  OBVIOUS
<1>1. OutSide /\ Held = <<>> /\ sent = <<>> /\ taken = <<>>
  BY TypeInit DEF Init
<1>2. <<>> \o <<>> = <<>>
  OBVIOUS
<1>3. FlowInv
  <2>. SUFFICES ASSUME NEW t \in Threads
                PROVE  /\ FlowAt(pc[t], out_off)
                       /\ pc[t] # "idle" => call[t] \in Calls
                       /\ signal[t] => Signals
    BY DEF FlowInv
  <2>1. pc[t] = "idle" /\ signal[t] = FALSE
    BY DEF Init
  <2>. QED BY <2>1 DEF FlowAt
<1>. QED BY <1>1, <1>2, <1>3 DEF FlowAll, Stream

\* The invariant holds in every reachable state.
LEMMA FlowInvariant == MarksSafe /\ Spec /\ []OneSender => []FlowAll
<1>1. FlowAll /\ OneSender /\ [Next]_vars => FlowAll'
  BY OutSideStep, FlowStep, WriteStep DEF FlowAll
<1>. QED BY <1>1, FlowInit, PTL DEF Spec

\* WritesAreAStream: what threads send one after the other, while others read,
\* reaches the board in order, each byte and file mark once.
THEOREM WritesStream == MarksSafe /\ Spec /\ []OneSender => WritesAreAStream
<1>1. Init => Out!Init
  <2>1. Init => sent = <<>> /\ taken = <<>> /\ Held = <<>>
    BY TypeInit DEF Init
  <2>. QED BY <2>1 DEF Out!Init
<1>2. FlowAll /\ [Next]_vars => [Out!Next]_(Out!vars)
  BY WriteStep
<1>. QED BY <1>1, <1>2, FlowInvariant, PTL DEF Spec, WritesAreAStream, Out!Spec

-----------------------------------------------------------------------------
(* UCR_SYNC and UCR_CHANNEL wait until nothing is held                     *)

\* Nothing is held when the ring is empty and the buffer to fill as well.
LEMMA NothingHeld ==
  ASSUME OutSide, first_out_idx = next_out_idx, out_off = 0
  PROVE  Held = <<>>
<1>1. OutType /\ NOut \in Nat /\ NOut > 1 /\ first_out_idx \in 0..(NOut - 1)
  BY ConstantsAssumption DEF OutSide, OutInv, OutType
<1>2. Published = <<>>
  BY <1>1, JoinedNone DEF Published
<1>3. Filling = <<>>
  BY <1>1, SubSeqEmpty DEF Filling
<1>4. Held = <<>> \o <<>>
  BY <1>1, <1>2, <1>3, HeldNow
<1>. QED BY <1>4

\* Nobody sends while a thread waits for the board to catch up, or to take the
\* new number of the channel.
SyncAlone ==
  \A t, u \in Threads : pc[t] \in {"sync", "swap"} => pc[u] \notin SendPlaces

\* A thread that waits for the board to catch up has flushed, or a signal kept
\* it from that.
SyncInv == \A t \in Threads : pc[t] = "sync" => out_off = 0 \/ signal[t]

\* Steps of a thread that does not send, and does not come to the wait unflushed.
LEMMA SyncOthers ==
  ASSUME BaseInv, SyncInv, NEW t \in Threads, out_off' = out_off, NEW at,
         pc' = [pc EXCEPT ![t] = at], at = "sync" => out_off = 0,
         \A u \in Threads : u # t => (signal[u] => signal'[u])
  PROVE  SyncInv'
<1>1. pc \in [Threads -> Places]
  BY DEF BaseInv, ThreadType
<1>2. \A u \in Threads : pc'[u] = IF u = t THEN at ELSE pc[u]
  BY <1>1
<1>. QED BY <1>2 DEF SyncInv

\* Steps that do not come to the wait.
LEMMA SyncSame ==
  ASSUME SyncInv, out_off' = out_off \/ out_off' = 0,
         \A u \in Threads : (pc'[u] = "sync" => pc[u] = "sync") /\ (signal[u] => signal'[u])
  PROVE  SyncInv'
BY DEF SyncInv

\* Every step keeps SyncInv.
LEMMA SyncStep == BaseInv /\ SyncInv /\ SyncAlone /\ [Next]_vars => SyncInv'
<1>. SUFFICES ASSUME BaseInv, SyncInv, SyncAlone, [Next]_vars PROVE SyncInv'
  OBVIOUS
<1>1. /\ pc \in [Threads -> Places] /\ signal \in [Threads -> BOOLEAN] /\ out_off \in Nat
  BY DEF BaseInv, BaseType, ThreadType
<1>2. ASSUME NEW t \in Threads, Return(t), out_off' = out_off PROVE SyncInv'
  BY <1>1, <1>2, SyncOthers DEF Return
<1>3. ASSUME NEW t \in Threads, NEW at, Goto(t, at), out_off' = out_off, at # "sync"
      PROVE  SyncInv'
  BY <1>3, SyncOthers DEF Goto
<1>4. ASSUME NEW t \in Threads, NEW what, NEW at, NEW n, NEW c, Start(t, what, at, n, c),
             out_off' = out_off, at = "sync" => out_off = 0
      PROVE  SyncInv'
  BY <1>4, SyncOthers DEF Start
\* Whoever sends finds nobody waiting.
<1>5. ASSUME NEW t \in Threads, Copied(t) \/ Flush(t) \/ PutMark(t) \/ Interrupted(t)
      PROVE  SyncInv'
  <2>1. pc[t] \in SendPlaces
    BY <1>5 DEF Copied, Flush, PutMark, Interrupted, SendPlaces
  <2>2. \A u \in Threads : pc[u] # "sync"
    BY <2>1 DEF SyncAlone
  <2>3. \A u \in Threads : u # t => pc'[u] = pc[u]
    BY <1>1, <1>5 DEF Copied, Flush, PutMark, Interrupted, Continue, Return, Goto
  <2>4. pc'[t] = "sync" => out_off' = 0 \/ signal'[t]
    <3>1. CASE Copied(t)
      BY <1>1, <3>1 DEF Copied
    <3>2. CASE Flush(t)
      BY <3>2 DEF Flush, Publish
    <3>3. CASE PutMark(t)
      BY <3>3 DEF PutMark, Publish
    <3>4. CASE Interrupted(t)
      <4>1. signal[t] /\ (Return(t) \/ \E at : Goto(t, at))
        BY <3>4 DEF Interrupted, Continue
      <4>2. CASE Return(t)
        BY <1>1, <4>2 DEF Return
      <4>3. CASE \E at : Goto(t, at)
        BY <4>1, <4>3 DEF Goto
      <4>. QED BY <4>1, <4>2, <4>3
    <3>. QED BY <1>5, <3>1, <3>2, <3>3, <3>4
  <2>. QED BY <2>2, <2>3, <2>4 DEF SyncInv
<1>6. ASSUME NEW t \in Threads,
             \/ RingSleep(t) \/ SyncDone(t) \/ SwitchDone(t) \/ FetchNone(t) \/ FetchSome(t)
             \/ Copy(t) \/ Fetch(t) \/ Fetched(t) \/ Arm(t) \/ Wake(t)
             \/ Doze(t) \/ FallAsleep(t)
      PROVE  SyncInv'
  <2>1. out_off' = out_off
    BY <1>6 DEF RingSleep, SyncDone, SwitchDone, FetchNone, FetchSome, Copy, Fetch, Fetched,
                Arm, Wake, Doze, FallAsleep, outVars
  <2>2. CASE Fetched(t)
    <3>. DEFINE done == left[t] = round[t].n
                at == IF done THEN "idle" ELSE "fetch"
    <3>1. pc' = [pc EXCEPT ![t] = at] /\ signal' = [signal EXCEPT ![t] = @ /\ ~done]
      BY <2>2 DEF Fetched
    <3>2. at # "sync"
      OBVIOUS
    <3>. HIDE DEF done, at
    <3>. QED BY <1>1, <2>1, <3>1, <3>2, SyncOthers
  <2>3. CASE Copy(t) \/ Fetch(t)
    <3>1. PICK at \in {"copying", "taking", "wild"} : pc' = [pc EXCEPT ![t] = at]
      BY <2>3 DEF Copy, Fetch
    <3>2. signal' = signal /\ at # "sync"
      BY <2>3 DEF Copy, Fetch
    <3>. QED BY <2>1, <3>1, <3>2, SyncOthers
  <2>4. CASE Doze(t) \/ FallAsleep(t)
    <3>1. UNCHANGED <<pc, signal>>
      BY <2>4 DEF Doze, FallAsleep, callVars
    <3>. QED BY <2>1, <3>1, SyncSame
  <2>5. CASE ~(Fetched(t) \/ Copy(t) \/ Fetch(t) \/ Doze(t) \/ FallAsleep(t))
    <3>1. \/ Return(t)
          \/ \E at \in {"flushWait", "markWait", "swap", "flush", "arm", "await", "take"} :
               Goto(t, at)
      BY <1>6, <2>5 DEF RingSleep, SyncDone, SwitchDone, FetchNone, FetchSome, Arm, Wake, FlushOr
    <3>. QED BY <1>2, <1>3, <2>1, <3>1
  <2>. QED BY <2>2, <2>3, <2>4, <2>5
<1>7. ASSUME NEW t \in Threads,
             \/ \E n \in 1..MaxWrite : Write(t, n) \/ \E w \in {"read", "poll"} : Read(t, w, n)
             \/ FlushCall(t) \/ SyncCall(t) \/ MarkCall(t)
             \/ \E c \in ChanIds : ChannelCall(t, c)
      PROVE  SyncInv'
  <2>1. out_off' = out_off
    BY <1>7 DEF Write, Read, FlushCall, SyncCall, MarkCall, ChannelCall, outVars
  <2>2. FlushOr(t, "sync") = "sync" => out_off = 0
    BY DEF FlushOr
  <2>3. FlushOr(t, "mark") # "sync"
    BY DEF FlushOr
  <2>4. \E what, at, n, c : Start(t, what, at, n, c) /\ (at = "sync" => out_off = 0)
    <3>1. CASE SyncCall(t) \/ \E c \in ChanIds : ChannelCall(t, c)
      BY <2>2, <3>1 DEF SyncCall, ChannelCall
    <3>2. CASE MarkCall(t)
      BY <2>3, <3>2 DEF MarkCall
    <3>3. CASE FlushCall(t)
      BY <3>3 DEF FlushCall
    <3>4. CASE \E n \in 1..MaxWrite : Write(t, n) \/ \E w \in {"read", "poll"} : Read(t, w, n)
      BY <3>4 DEF Write, Read
    <3>. QED BY <1>7, <3>1, <3>2, <3>3, <3>4
  <2>. QED BY <1>4, <2>1, <2>4
<1>8. ASSUME NEW t \in Threads, Signal(t) PROVE SyncInv'
  BY <1>1, <1>8, SyncSame DEF Signal, outVars
<1>9. CASE \/ TimerFires \/ (\E v \in Timeouts : SetTimeout(v)) \/ ForceTimeout
           \/ BoardTakes \/ (\E n \in 1..PageSize : BoardMakes(n)) \/ BoardSwitches \/ Reopen
           \/ UNCHANGED vars
  <2>1. UNCHANGED <<pc, signal>> /\ (out_off' = out_off \/ out_off' = 0)
    BY <1>9 DEF TimerFires, SetTimeout, ForceTimeout, BoardTakes, BoardMakes, BoardSwitches,
                Reopen, threadVars, callVars, vars, outVars
  <2>. QED BY <2>1, SyncSame
<1>. QED BY <1>5, <1>6, <1>7, <1>8, <1>9 DEF Next, Step

\* The invariant of waits for the board to catch up.
LEMMA SyncInvariant == Spec /\ []SyncAlone => []SyncInv
<1>1. Init => SyncInv
  BY DEF Init, SyncInv
<1>. QED BY <1>1, SyncStep, BaseInvariant, PTL DEF Spec

\* Only sync_channel ends a wait for the board to catch up.
LEMMA SyncEnds ==
  ASSUME BaseInv, [Next]_vars, NEW t \in Threads, pc[t] = "sync", pc'[t] # "sync"
  PROVE  SyncDone(t)
<1>1. pc \in [Threads -> Places]
  BY DEF BaseInv, ThreadType
<1>2. ASSUME NEW u \in Threads, u # t,
             \/ Step(u) \/ FlushCall(u) \/ SyncCall(u) \/ MarkCall(u) \/ Signal(u)
             \/ \E n \in 1..MaxWrite : Write(u, n) \/ \E w \in {"read", "poll"} : Read(u, w, n)
             \/ \E c \in ChanIds : ChannelCall(u, c)
      PROVE  FALSE
  BY <1>2, OthersStay
<1>3. CASE Step(t)
  BY <1>3 DEF Step, Copy, Copied, Doze, FallAsleep, RingSleep, Flush, PutMark, Interrupted,
              SwitchDone, FetchNone, FetchSome, Fetch, Fetched, Arm, Wake, callVars
<1>4. CASE \/ \E n \in 1..MaxWrite : Write(t, n) \/ \E w \in {"read", "poll"} : Read(t, w, n)
           \/ FlushCall(t) \/ SyncCall(t) \/ MarkCall(t)
           \/ \E c \in ChanIds : ChannelCall(t, c)
           \/ Signal(t)
  BY <1>4 DEF Write, Read, FlushCall, SyncCall, MarkCall, ChannelCall, Signal, Start
<1>5. CASE \/ TimerFires \/ (\E v \in Timeouts : SetTimeout(v)) \/ ForceTimeout
           \/ BoardTakes \/ (\E n \in 1..PageSize : BoardMakes(n)) \/ BoardSwitches \/ Reopen
  BY <1>5 DEF TimerFires, SetTimeout, ForceTimeout, BoardTakes, BoardMakes, BoardSwitches,
              Reopen, threadVars, callVars
<1>6. CASE UNCHANGED vars
  BY <1>6 DEF vars, threadVars, callVars
<1>. QED BY <1>2, <1>3, <1>4, <1>5, <1>6 DEF Next

\* The wait ends without a signal only when nothing is held, ...
LEMMA SyncHoldsNone ==
  ASSUME OutSide, SyncInv, NEW t \in Threads, SyncDone(t), ~signal[t]
  PROVE  Held = <<>>
<1>1. first_out_idx = next_out_idx /\ out_off = 0
  BY DEF SyncDone, SyncInv
<1>. QED BY <1>1, NothingHeld

\* ... and then the board has taken what was sent.
LEMMA SyncEmpties ==
  ASSUME FlowAll, SyncInv, NEW t \in Threads, SyncDone(t), ~signal[t]
  PROVE  taken = sent
<1>1. OutSide /\ sent = taken \o Held /\ taken \in Seq(Item)
  BY DEF FlowAll, Stream, OutSide, OutInv
<1>2. Held = <<>>
  BY <1>1, SyncHoldsNone
<1>. QED BY <1>1, <1>2, ConcatEmptySeq

\* SyncedMeansTaken: UCR_SYNC succeeds only when the board has read all that
\* was written, if nobody sends while it waits.
THEOREM SyncKept == MarksSafe /\ Spec /\ []OneSender /\ []SyncAlone => SyncedMeansTaken
<1>1. ASSUME FlowAll, SyncInv, [Next]_vars
      PROVE  [\A t \in Threads :
                pc[t] = "sync" /\ call[t] = "sync" /\ pc'[t] = "idle" /\ ~signal[t]
                  => taken = sent]_vars
  <2>. SUFFICES ASSUME NEW t \in Threads, pc[t] = "sync", pc'[t] = "idle", ~signal[t]
                PROVE  taken = sent
    OBVIOUS
  <2>1. SyncDone(t)
    BY <1>1, SyncEnds DEF FlowAll, OutSide
  <2>. QED BY <1>1, <2>1, SyncEmpties
<1>. QED BY <1>1, FlowInvariant, SyncInvariant, PTL DEF Spec, SyncedMeansTaken

\* An item the board may take under the number c: a mark, or a byte written
\* under that number.
Under(x, c) == x = Mark \/ x[1] = c
AllUnder(s, c) == \A i \in 1..Len(s) : Under(s[i], c)

\* The board has the channel's number, or UCR_CHANNEL waits for it to take the
\* new one and nothing is held; what is held was written under the board's.
ChanInv ==
  /\ ~Signals
  /\ (\A t \in Threads : pc[t] # "swap") => channel = boardChan
  /\ channel # boardChan => Held = <<>>
  /\ AllUnder(Held, boardChan)

\* The items of two sequences put together.
LEMMA UnderParts ==
  ASSUME NEW a \in Seq(Item), NEW b \in Seq(Item), NEW c
  PROVE  AllUnder(a \o b, c) <=> AllUnder(a, c) /\ AllUnder(b, c)
<1>. DEFINE s == a \o b
<1>1. /\ s \in Seq(Item) /\ Len(s) = Len(a) + Len(b)
      /\ \A k \in 1..(Len(a) + Len(b)) : s[k] = IF k <= Len(a) THEN a[k] ELSE b[k - Len(a)]
      /\ Len(a) \in Nat /\ Len(b) \in Nat
  BY ConcatProperties, LenProperties
<1>. HIDE DEF s
<1>2. ASSUME AllUnder(s, c) PROVE AllUnder(a, c) /\ AllUnder(b, c)
  <2>1. \A k \in 1..Len(a) : k \in 1..Len(s) /\ s[k] = a[k]
    BY <1>1
  <2>2. ASSUME NEW k \in 1..Len(b) PROVE Under(b[k], c)
    <3>. DEFINE j == k + Len(a)
    <3>1. j \in 1..(Len(a) + Len(b)) /\ ~(j <= Len(a)) /\ j - Len(a) = k
      BY <1>1
    <3>. HIDE DEF j
    <3>2. s[j] = b[k] /\ j \in 1..Len(s)
      BY <1>1, <3>1
    <3>. QED BY <1>2, <3>2 DEF AllUnder
  <2>. QED BY <1>2, <2>1, <2>2 DEF AllUnder
<1>3. ASSUME AllUnder(a, c), AllUnder(b, c), NEW k \in 1..Len(s) PROVE Under(s[k], c)
  <2>1. k \in 1..(Len(a) + Len(b))
    BY <1>1
  <2>2. CASE k <= Len(a)
    <3>1. k \in 1..Len(a) /\ s[k] = a[k]
      BY <1>1, <2>1, <2>2
    <3>. QED BY <1>3, <3>1 DEF AllUnder
  <2>3. CASE ~(k <= Len(a))
    <3>. DEFINE j == k - Len(a)
    <3>1. j \in 1..Len(b) /\ s[k] = b[j]
      BY <1>1, <2>1, <2>3
    <3>. HIDE DEF j
    <3>. QED BY <1>3, <3>1 DEF AllUnder
  <2>. QED BY <2>2, <2>3
<1>. QED BY <1>2, <1>3 DEF s, AllUnder

\* A buffer that is published, full or empty, and a file mark are under the number
\* of what is held before.
LEMMA PublishUnder ==
  ASSUME OutSide, NEW c, AllUnder(Held, c), ~OutFull, NEW n \in {0, out_off}, Publish(n)
  PROVE  AllUnder(Held', c)
<1>1. OutType /\ n \in 0..PageSize
  BY ConstantsAssumption DEF OutSide, OutInv, OutType
<1>2. /\ OutType' /\ Filling' = <<>>
      /\ Published' = Published \o Content(n, out_page[next_out_idx])
  BY <1>1, PublishOut
<1>. DEFINE p == Published
            f == Filling
            x == Content(n, out_page[next_out_idx])
<1>3. Held = p \o f /\ p \in Seq(Item) /\ f \in Seq(Item)
  BY <1>1, HeldNow
<1>4. Held' = Published' \o <<>> /\ Published' \in Seq(Item)
  BY <1>2, HeldNext
<1>5. x \in Seq(Item) /\ AllUnder(x, c)
  <2>1. CASE n = 0
    <3>1. x = <<Mark>> /\ <<Mark>> \in Seq(Item)
      BY <2>1, Items DEF Content
    <3>. QED BY <3>1 DEF AllUnder, Under
  <2>2. CASE n # 0
    <3>1. x = f
      BY <2>2, ConstantsAssumption DEF Content, Filling
    <3>. HIDE DEF p, f, x
    <3>2. AllUnder(f, c)
      BY <1>3, UnderParts
    <3>. QED BY <1>3, <3>1, <3>2
  <2>. QED BY <2>1, <2>2
<1>. HIDE DEF p, f, x
<1>6. AllUnder(p \o x, c)
  BY <1>3, <1>5, UnderParts
<1>7. Held' = p \o x
  BY <1>2, <1>4, ConcatEmptySeq DEF p, x
<1>. QED BY <1>6, <1>7

\* No items.
LEMMA EmptyUnder == \A c : AllUnder(<<>>, c)
BY DEF AllUnder

\* What is held does not change when the output ring does not.
LEMMA HeldSame == OutSame => Held' = Held
BY DEF OutSame, outVars, Held, Indices, Contents

\* While a thread sends, the board has the channel's number.
LEMMA ChanAgree ==
  ASSUME SyncAlone, ChanInv, NEW t \in Threads, pc[t] \in SendPlaces
  PROVE  channel = boardChan
BY DEF ChanInv, SyncAlone

\* Without signals no thread has one.
NoSignal == ~Signals /\ \A t \in Threads : ~signal[t]

\* No step makes one.
LEMMA NoSignalInvariant == ~Signals /\ Spec => []NoSignal
<1>1. ~Signals /\ Init => NoSignal
  BY DEF Init, NoSignal
<1>2. BaseInv /\ NoSignal /\ [Next]_vars => NoSignal'
  <2>. SUFFICES ASSUME BaseInv, NoSignal, [Next]_vars PROVE NoSignal'
    OBVIOUS
  <2>1. signal \in [Threads -> BOOLEAN] /\ ~Signals
    BY DEF BaseInv, ThreadType, NoSignal
  <2>2. ASSUME NEW t \in Threads, Step(t) PROVE NoSignal'
    <3>1. \/ signal' = signal \/ signal' = [signal EXCEPT ![t] = FALSE]
          \/ \E b \in BOOLEAN : signal' = [signal EXCEPT ![t] = @ /\ b]
      BY <2>2 DEF Step, Copy, Copied, Doze, FallAsleep, RingSleep, Flush, PutMark, Interrupted,
                  SyncDone, SwitchDone, FetchNone, FetchSome, Fetch, Fetched, Arm, Wake,
                  Continue, Goto, Return, callVars
    <3>. QED BY <2>1, <3>1 DEF NoSignal
  <2>3. ASSUME NEW t \in Threads,
               \/ FlushCall(t) \/ SyncCall(t) \/ MarkCall(t) \/ Signal(t)
               \/ \E n \in 1..MaxWrite : Write(t, n) \/ \E w \in {"read", "poll"} : Read(t, w, n)
               \/ \E c \in ChanIds : ChannelCall(t, c)
        PROVE  NoSignal'
    BY <2>1, <2>3 DEF FlushCall, SyncCall, MarkCall, Signal, Write, Read, ChannelCall, Start,
                      NoSignal
  <2>4. CASE \/ TimerFires \/ (\E v \in Timeouts : SetTimeout(v)) \/ ForceTimeout
             \/ BoardTakes \/ (\E n \in 1..PageSize : BoardMakes(n)) \/ BoardSwitches \/ Reopen
             \/ UNCHANGED vars
    BY <2>4 DEF TimerFires, SetTimeout, ForceTimeout, BoardTakes, BoardMakes, BoardSwitches,
                Reopen, threadVars, callVars, vars, NoSignal
  <2>. QED BY <2>2, <2>3, <2>4 DEF Next
<1>. QED BY <1>1, <1>2, BaseInvariant, PTL DEF Spec

\* Every step keeps ChanInv.
LEMMA ChanStep == OutSide /\ NoSignal /\ SyncInv /\ SyncAlone /\ ChanInv /\ [Next]_vars => ChanInv'
<1>. SUFFICES ASSUME OutSide, NoSignal, SyncInv, SyncAlone, ChanInv, [Next]_vars PROVE ChanInv'
  OBVIOUS
<1>1. /\ OutSide /\ BaseInv /\ ~Signals /\ AllUnder(Held, boardChan)
      /\ \A t \in Threads : ~signal[t]
      /\ OutType /\ pc \in [Threads -> Places]
  BY DEF NoSignal, ChanInv, OutSide, OutInv, BaseInv, ThreadType
<1>2. Held \in Seq(Item)
  <2>1. /\ Held = Published \o Filling /\ Published \in Seq(Item) /\ Filling \in Seq(Item)
    BY <1>1, HeldNow
  <2>. HIDE DEF Published, Filling
  <2>. QED BY <2>1, ConcatProperties
\* Steps that hold nothing new.
<1>3. ASSUME UNCHANGED <<channel, boardChan>>, Held' = Held,
             \/ channel = boardChan
             \/ (\A u \in Threads : pc'[u] # "swap") => (\A u \in Threads : pc[u] # "swap")
      PROVE  ChanInv'
  <2>1. AllUnder(Held', boardChan) /\ (channel # boardChan => Held' = <<>>)
    BY <1>1, <1>3 DEF ChanInv
  <2>2. AllUnder(Held', boardChan')
    BY <1>3, <2>1
  <2>3. (\A t \in Threads : pc'[t] # "swap") => channel' = boardChan'
    BY <1>3 DEF ChanInv
  <2>. QED BY <1>1, <1>3, <2>1, <2>2, <2>3 DEF ChanInv
\* Steps that hold x as well.
<1>4. ASSUME NEW x \in Seq(Item), UNCHANGED <<channel, boardChan>>, channel = boardChan,
             Held' = Held \o x, AllUnder(x, channel)
      PROVE  ChanInv'
  <2>. DEFINE q == Held
  <2>. HIDE DEF q
  <2>1. AllUnder(q \o x, boardChan)
    BY <1>1, <1>2, <1>4, UnderParts DEF q
  <2>2. AllUnder(Held', boardChan')
    BY <1>4, <2>1 DEF q
  <2>. QED BY <1>1, <1>4, <2>2 DEF ChanInv
\* A thread that was not in the switch leaves it to the others whether one is.
<1>0. ASSUME NEW t \in Threads, Step(t), pc[t] # "swap"
      PROVE  (\A u \in Threads : pc'[u] # "swap") => (\A u \in Threads : pc[u] # "swap")
  <2>1. \E at : pc' = [pc EXCEPT ![t] = at]
    BY <1>0, <1>1, StepPlace
  <2>. QED BY <1>0, <1>1, <2>1
<1>5. ASSUME NEW t \in Threads, Step(t) PROVE ChanInv'
  <2>1. CASE Copied(t)
    <3>1. PICK x \in Seq(Item) :
            Held' = Held \o x /\ \A k \in 1..Len(x) : x[k][1] = channel
      BY <1>1, <2>1, CopyOut
    <3>2. pc[t] \in SendPlaces /\ UNCHANGED <<channel, boardChan>>
      BY <2>1 DEF Copied, chanVars, SendPlaces
    <3>3. AllUnder(x, channel)
      BY <3>1 DEF AllUnder, Under
    <3>4. channel = boardChan
      BY <3>2, ChanAgree
    <3>. QED BY <1>4, <3>1, <3>2, <3>3, <3>4
  <2>2. CASE Flush(t) \/ PutMark(t)
    <3>1. /\ pc[t] \in SendPlaces /\ UNCHANGED <<channel, boardChan>> /\ ~OutFull
          /\ Publish(out_off) \/ Publish(0)
      BY <2>2 DEF Flush, PutMark, chanVars, SendPlaces
    <3>2. AllUnder(Held', boardChan)
      BY <1>1, <3>1, PublishUnder
    <3>3. channel = boardChan
      BY <3>1, ChanAgree
    <3>4. AllUnder(Held', boardChan')
      BY <3>1, <3>2
    <3>. QED BY <1>1, <3>1, <3>3, <3>4 DEF ChanInv
  <2>4. CASE SyncDone(t)
    <3>1. Held = <<>>
      BY <1>1, <2>4, SyncHoldsNone
    <3>2. Held' = Held
      BY <2>4, HeldSame DEF SyncDone, OutSame, histVars
    <3>3. CASE call[t] = "channel"
      <4>1. pc'[t] = "swap" /\ boardChan' = boardChan
        BY <1>1, <2>4, <3>3 DEF SyncDone, Goto
      <4>2. AllUnder(Held', boardChan')
        BY <3>1, <3>2, EmptyUnder
      <4>. QED BY <1>1, <3>1, <3>2, <4>1, <4>2 DEF ChanInv
    <3>4. CASE call[t] # "channel"
      <4>1. UNCHANGED <<channel, boardChan>> /\ pc[t] # "swap"
        BY <2>4, <3>4 DEF SyncDone, chanVars
      <4>. QED BY <1>0, <1>3, <1>5, <3>2, <4>1
    <3>. QED BY <3>3, <3>4
  <2>5. CASE SwitchDone(t)
    <3>1. channel = boardChan /\ UNCHANGED <<channel, boardChan>> /\ Held' = Held
      BY <2>5, HeldSame DEF SwitchDone, OutSame, histVars, chanVars
    <3>. QED BY <1>3, <3>1
  <2>6. CASE \/ RingSleep(t) \/ Interrupted(t) \/ FetchNone(t) \/ FetchSome(t) \/ Copy(t)
             \/ Fetch(t) \/ Fetched(t) \/ Arm(t) \/ Wake(t)
    <3>1. UNCHANGED <<channel, boardChan>> /\ pc[t] # "swap" /\ OutSame
      BY <2>6 DEF RingSleep, Interrupted, FetchNone, FetchSome, Copy, Fetch, Fetched, Arm, Wake,
                  OutSame, histVars, chanVars
    <3>. QED BY <1>0, <1>3, <1>5, <3>1, HeldSame
  <2>7. CASE Doze(t) \/ FallAsleep(t)
    <3>1. UNCHANGED <<channel, boardChan, pc>> /\ OutSame
      BY <2>7 DEF Doze, FallAsleep, callVars, OutSame, histVars, chanVars
    <3>. QED BY <1>3, <3>1, HeldSame
  <2>. QED BY <1>5, <2>1, <2>2, <2>4, <2>5, <2>6, <2>7 DEF Step
<1>6. ASSUME NEW t \in Threads,
             \/ \E n \in 1..MaxWrite : Write(t, n) \/ \E w \in {"read", "poll"} : Read(t, w, n)
             \/ FlushCall(t) \/ SyncCall(t) \/ MarkCall(t)
             \/ \E c \in ChanIds : ChannelCall(t, c)
      PROVE  ChanInv'
  <2>1. UNCHANGED <<channel, boardChan>> /\ pc[t] # "swap" /\ OutSame
    BY <1>6 DEF Write, Read, FlushCall, SyncCall, MarkCall, ChannelCall, Start, OutSame,
                histVars, chanVars
  <2>2. \A u \in Threads : u # t => pc'[u] = pc[u]
    BY <1>1, <1>6 DEF Write, Read, FlushCall, SyncCall, MarkCall, ChannelCall, Start
  <2>. QED BY <1>3, <2>1, <2>2, HeldSame
<1>7. ASSUME NEW t \in Threads, Signal(t) PROVE ChanInv'
  BY <1>1, <1>7 DEF Signal
<1>8. CASE BoardTakes
  <2>1. PICK x \in Seq(Item) :
          Len(x) > 0 /\ Held = x \o Held' /\ Held' \in Seq(Item)
    BY <1>1, <1>8, TakesOut
  <2>2. UNCHANGED <<channel, boardChan, pc>>
    BY <1>8 DEF BoardTakes, callVars, chanVars
  <2>. DEFINE r == Held'
  <2>. HIDE DEF r
  <2>3. AllUnder(r, boardChan)
    BY <1>1, <2>1, UnderParts DEF r
  <2>4. Held # <<>>
    <3>1. Len(x \o r) = Len(x) + Len(r) /\ Len(r) \in Nat /\ Len(x) \in Nat
      BY <2>1, ConcatProperties, LenProperties DEF r
    <3>2. Len(x \o r) # 0
      BY <2>1, <3>1
    <3>. QED BY <2>1, <3>2, EmptySeq DEF r
  <2>5. AllUnder(Held', boardChan') /\ channel = boardChan
    BY <2>2, <2>3, <2>4 DEF r, ChanInv
  <2>. QED BY <1>1, <2>2, <2>5 DEF ChanInv
<1>9. CASE BoardSwitches
  <2>1. Held = <<>> /\ boardChan' = channel /\ channel' = channel /\ OutSame
    BY <1>9 DEF BoardSwitches, ChanInv, OutSame, histVars
  <2>2. AllUnder(Held', boardChan')
    BY <2>1, HeldSame, EmptyUnder
  <2>. QED BY <1>1, <2>1, <2>2 DEF ChanInv
<1>10. CASE Reopen
  <2>1. Held' = <<>> /\ channel' = 0 /\ boardChan' = 0
    BY <1>10, FreshOut DEF Reopen
  <2>2. AllUnder(Held', boardChan')
    BY <2>1, EmptyUnder
  <2>. QED BY <1>1, <2>1, <2>2 DEF ChanInv
<1>11. CASE \/ TimerFires \/ (\E v \in Timeouts : SetTimeout(v)) \/ ForceTimeout
            \/ (\E n \in 1..PageSize : BoardMakes(n))
  <2>1. UNCHANGED <<channel, boardChan, pc>> /\ OutSame
    BY <1>11 DEF TimerFires, SetTimeout, ForceTimeout, BoardMakes, threadVars, callVars,
                 chanVars, OutSame, histVars
  <2>. QED BY <1>3, <2>1, HeldSame
<1>12. CASE UNCHANGED vars
  <2>1. UNCHANGED <<channel, boardChan, pc>> /\ OutSame
    BY <1>12 DEF vars, threadVars, callVars, chanVars, OutSame, histVars
  <2>. QED BY <1>3, <2>1, HeldSame
<1>. QED BY <1>5, <1>6, <1>7, <1>8, <1>9, <1>10, <1>11, <1>12 DEF Next

\* OnItsChannel: the board takes each byte under the number of the channel it
\* was written to, when no signal disturbs, one thread at a time sends, and
\* nobody sends while the channel is switched.
THEOREM ChannelKept == ~Signals /\ Spec /\ []OneSender /\ []SyncAlone => OnItsChannel
<1>2. ~Signals /\ Init => ChanInv
  <2>. SUFFICES ASSUME ~Signals, Init PROVE ChanInv
    OBVIOUS
  <2>1. Held = <<>> /\ channel = 0 /\ boardChan = 0
    BY TypeInit DEF Init
  <2>2. AllUnder(Held, boardChan)
    BY <2>1, EmptyUnder
  <2>. QED BY <2>1, <2>2 DEF ChanInv
<1>3. ASSUME OutSide, ChanInv, [Next]_vars
      PROVE  [\A i \in (Len(taken) + 1)..Len(taken') :
                taken'[i] = Mark \/ taken'[i][1] = boardChan]_vars
  <2>1. OutSide /\ taken \in Seq(Item) /\ Len(taken) \in Nat
    BY <1>3, LenProperties DEF OutSide, OutInv
  <2>. SUFFICES ASSUME NEW i \in (Len(taken) + 1)..Len(taken') PROVE Under(taken'[i], boardChan)
    BY DEF Under
  <2>2. CASE BoardTakes
    <3>1. PICK x \in Seq(Item) :
            taken' = taken \o x /\ Held = x \o Held' /\ Held' \in Seq(Item)
      BY <2>1, <2>2, TakesOut
    <3>. DEFINE r == Held'
    <3>. HIDE DEF r
    <3>2. AllUnder(x \o r, boardChan) /\ r \in Seq(Item)
      BY <1>3, <3>1 DEF ChanInv, r
    <3>3. AllUnder(x, boardChan)
      BY <3>2, UnderParts
    <3>. DEFINE j == i - Len(taken)
                s == taken \o x
    <3>4. /\ s \in Seq(Item) /\ Len(s) = Len(taken) + Len(x)
          /\ \A k \in 1..(Len(taken) + Len(x)) :
               s[k] = IF k <= Len(taken) THEN taken[k] ELSE x[k - Len(taken)]
          /\ Len(x) \in Nat
      BY <2>1, ConcatProperties, LenProperties
    <3>. HIDE DEF s
    <3>5. j \in 1..Len(x) /\ i \in 1..(Len(taken) + Len(x)) /\ ~(i <= Len(taken))
      BY <2>1, <3>1, <3>4 DEF s
    <3>6. s[i] = x[j]
      BY <3>4, <3>5
    <3>. HIDE DEF j
    <3>7. Under(x[j], boardChan)
      BY <3>3, <3>5 DEF AllUnder
    <3>. QED BY <3>1, <3>6, <3>7 DEF s
  <2>3. CASE taken' \in {taken, <<>>}
    <3>1. Len(taken') \in {Len(taken), 0}
      BY <2>3
    <3>. QED BY <2>1, <3>1
  <2>4. BoardTakes \/ taken' \in {taken, <<>>}
    BY <1>3, Touches DEF OutMoves, OutSame, Copied, Flush, PutMark, Reopen, histVars
  <2>. QED BY <2>2, <2>3, <2>4
<1>. QED
  BY <1>2, <1>3, ChanStep, OutInvariant, NoSignalInvariant, SyncInvariant, PTL
  DEF Spec, OnItsChannel
=============================================================================
