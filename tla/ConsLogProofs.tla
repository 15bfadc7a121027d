--------------------------- MODULE ConsLogProofs ---------------------------
(***************************************************************************)
(* The console log, for every size of the ring and of the static buffers   *)
(* and whatever is logged, read and written.  The ring always holds the    *)
(* newest text, in order: it changes in isecons_log and isecons_read only. *)
(* While the static buffers have one user at a time, every character is in *)
(* exactly one place and a command is run as it was written.               *)
(***************************************************************************)
EXTENDS ConsLog, FiniteSetTheorems, SequenceTheorems, TLAPS

\* An index that has gone at most once around the ring.
LEMMA Wrap ==
  \A x \in 0 .. 2 * LOG_BUF_SIZE - 1 :
    Wrapped(x) = IF x < LOG_BUF_SIZE THEN x ELSE x - LOG_BUF_SIZE
<1>. SUFFICES ASSUME NEW x \in 0 .. 2 * LOG_BUF_SIZE - 1
              PROVE  x % LOG_BUF_SIZE = IF x < LOG_BUF_SIZE THEN x ELSE x - LOG_BUF_SIZE
  BY DEF Wrapped
<1>1. CASE x < LOG_BUF_SIZE
  BY <1>1, SizeAssumption, SMTT(30)
<1>2. CASE x >= LOG_BUF_SIZE
  BY <1>2, SizeAssumption, SMTT(30)
<1>. QED BY <1>1, <1>2, SizeAssumption

\* isecons_log puts its text behind what stays of the old.
LEMMA LogKeeps ==
  ASSUME RingType, NewestText, NEW ndata \in Nat, isecons_log(ndata)
  PROVE  RingType' /\ NewestText'
<1> DEFINE S == LOG_BUF_SIZE
           n == Smaller(ndata, S)
           remove == Removed(n)
           front == IF remove = 0 THEN ptr ELSE Wrapped(ptr + remove)
           f == fill - remove
           cur == Wrapped(front + f)
           first == Piece(cur, n)
           last == logged + ndata
<1>1. S \in Nat \ {0} /\ ptr \in 0 .. S - 1 /\ fill \in 0 .. S /\ logged \in Nat /\ fill <= logged
  BY SizeAssumption DEF RingType, Places
<1>2. n \in 0 .. S /\ n <= ndata /\ (n < S => n = ndata)
  BY <1>1 DEF Smaller
<1>3. remove \in 0 .. fill /\ f \in 0 .. S /\ f + n <= S /\ (f > 0 => n = ndata)
  BY <1>1, <1>2 DEF Removed
<1>4. front \in 0 .. S - 1 /\ front = IF ptr + remove < S THEN ptr + remove ELSE ptr + remove - S
  <2>1. ptr + remove \in 0 .. 2 * S - 1
    BY <1>1, <1>3
  <2>2. Wrapped(ptr + remove) = IF ptr + remove < S THEN ptr + remove ELSE ptr + remove - S
    BY <1>1, <1>3, <2>1, Wrap, SizeAssumption DEF S
  <2>. QED BY <1>1, <1>3, <2>1, <2>2
<1>5. cur \in 0 .. S - 1 /\ cur = IF front + f < S THEN front + f ELSE front + f - S
  <2>1. front + f \in 0 .. 2 * S - 1
    BY <1>1, <1>3, <1>4
  <2>2. Wrapped(front + f) = IF front + f < S THEN front + f ELSE front + f - S
    BY <1>1, <1>3, <1>4, <2>1, Wrap, SizeAssumption, SMTT(30) DEF S
  <2>. QED BY <1>1, <1>3, <1>4, <2>1, <2>2
<1>6. first = IF cur + n > S THEN S - cur ELSE n
  BY DEF Piece
<1>7. /\ ptr' = front /\ fill' = f + n /\ logged' = last
      /\ log_buf' = [i \in 0 .. S - 1 |->
                       IF cur <= i /\ i < cur + first THEN last - n + 1 + (i - cur)
                       ELSE IF i < n - first THEN last - n + first + 1 + i
                       ELSE log_buf[i]]
  BY DEF isecons_log, Copied, Places
<1> HIDE DEF S, n, remove, front, f, cur, first, last
<1>8. last = logged + ndata
  BY DEF last
<1>9. RingType'
  <2>1. log_buf' \in [0 .. S - 1 -> Nat]
    <3>1. \A i \in 0 .. S - 1 : log_buf[i] \in Nat
      BY DEF RingType, Places, S
    <3>2. ASSUME NEW i \in 0 .. S - 1 PROVE log_buf'[i] \in Nat
      <4>1. CASE cur <= i /\ i < cur + first
        <5>1. log_buf'[i] = last - n + 1 + (i - cur)
          BY <1>7, <4>1
        <5>. QED BY <1>1, <1>2, <1>5, <1>8, <4>1, <5>1
      <4>2. CASE ~(cur <= i /\ i < cur + first) /\ i < n - first
        <5>1. log_buf'[i] = last - n + first + 1 + i
          BY <1>7, <4>2
        <5>. QED BY <1>1, <1>2, <1>5, <1>6, <1>8, <4>2, <5>1
      <4>3. CASE ~(cur <= i /\ i < cur + first) /\ ~(i < n - first)
        BY <1>7, <3>1, <4>3
      <4>. QED BY <4>1, <4>2, <4>3
    <3>. QED BY <1>7, <3>2
  <2>2. ptr' \in 0 .. S - 1 /\ fill' \in 0 .. S /\ logged' \in Nat /\ fill' <= logged'
    <3>1. f = fill - remove
      BY DEF f
    <3>. QED BY <1>1, <1>2, <1>3, <1>4, <1>7, <1>8, <3>1
  <2>. QED BY <2>1, <2>2 DEF RingType, Places, S
<1>10. ASSUME NEW i \in 0 .. fill' - 1
       PROVE  log_buf'[Wrapped(ptr' + i)] = logged' - fill' + 1 + i
  <2>1. i \in 0 .. f + n - 1 /\ f + n <= S
    BY <1>2, <1>3, <1>7, <1>10
  <2>2. front + i \in 0 .. 2 * S - 1
    BY <1>1, <1>2, <1>3, <1>4, <2>1
  <2> DEFINE k == Wrapped(front + i)
  <2>3. k = IF front + i < S THEN front + i ELSE front + i - S
    BY <1>1, <1>3, <1>4, <2>1, <2>2, Wrap, SizeAssumption DEF S
  <2>4. k \in 0 .. S - 1
    BY <1>1, <1>3, <1>4, <2>1, <2>2, <2>3
  <2> HIDE DEF k
  <2>5. CASE i >= f
    <3>1. \/ k = cur + (i - f) /\ k < cur + first
          \/ k = i - f - first /\ k < n - first /\ k < cur
      BY <1>1, <1>2, <1>3, <1>4, <1>5, <1>6, <2>1, <2>3, <2>5
    <3>2. log_buf'[k] = last - n + 1 + (i - f)
      <4>1. CASE k = cur + (i - f) /\ k < cur + first
        <5>1. cur <= k /\ i - f = k - cur
          BY <1>1, <1>3, <1>5, <2>1, <2>5, <4>1
        <5>. QED BY <1>7, <2>4, <4>1, <5>1
      <4>2. CASE k = i - f - first /\ k < n - first /\ k < cur
        <5>1. log_buf'[k] = last - n + first + 1 + k
          BY <1>1, <1>5, <1>7, <2>4, <4>2
        <5>. QED BY <1>1, <1>2, <1>3, <1>5, <1>6, <1>8, <2>1, <4>2, <5>1
      <4>. QED BY <3>1, <4>1, <4>2
    <3>3. logged' - fill' + 1 + i = last - n + 1 + (i - f)
      BY <1>1, <1>2, <1>3, <1>7, <1>8, <2>1
    <3>. QED BY <3>2, <3>3, <1>7 DEF k
  <2>6. CASE i < f
    <3>1. ~(cur <= k /\ k < cur + first) /\ ~(k < n - first)
      BY <1>1, <1>2, <1>3, <1>4, <1>5, <1>6, <2>1, <2>3, <2>6
    <3>2. log_buf'[k] = log_buf[k]
      BY <1>7, <2>4, <3>1
    <3>3. remove + i \in 0 .. fill - 1
      <4>1. f = fill - remove
        BY DEF f
      <4>. QED BY <1>1, <1>3, <2>1, <2>6, <4>1
    <3>4. Wrapped(ptr + (remove + i)) = k
      <4>1. ptr + (remove + i) \in 0 .. 2 * S - 1
        BY <1>1, <3>3
      <4>2. Wrapped(ptr + (remove + i)) = IF ptr + (remove + i) < S THEN ptr + (remove + i)
                                       ELSE ptr + (remove + i) - S
        BY <1>1, <1>3, <2>1, <4>1, Wrap, SizeAssumption DEF S
      <4>. QED BY <1>1, <1>3, <1>4, <2>1, <2>3, <3>3, <4>1, <4>2
    <3>5. log_buf[k] = logged - fill + 1 + (remove + i)
      BY <3>3, <3>4 DEF NewestText, S
    <3>6. logged' - fill' + 1 + i = logged - fill + 1 + (remove + i)
      <4>1. f = fill - remove /\ n = ndata
        BY <1>1, <1>3, <2>1, <2>6 DEF f
      <4>. QED BY <1>1, <1>2, <1>3, <1>7, <1>8, <2>1, <4>1
    <3>. QED BY <3>2, <3>5, <3>6, <1>7 DEF k
  <2>. QED BY <1>1, <1>3, <2>1, <2>5, <2>6
<1>. QED BY <1>9, <1>10 DEF NewestText, S

\* isecons_read takes text from the front.
LEMMA ReadKeeps ==
  ASSUME RingType, NewestText, NEW p \in Procs, count[p] \in Nat, isecons_read(p)
  PROVE  RingType' /\ NewestText'
<1> DEFINE S == LOG_BUF_SIZE
           n == Trans(Smaller(count[p], PAGE_SIZE))
<1>1. S \in Nat \ {0} /\ ptr \in 0 .. S - 1 /\ fill \in 0 .. S /\ logged \in Nat /\ fill <= logged
  BY SizeAssumption DEF RingType, Places
<1>2. n \in 0 .. fill /\ ptr + n <= S
  BY <1>1, SizeAssumption DEF Trans, Smaller
<1>3. /\ ptr' = IF ptr + n = S THEN 0 ELSE ptr + n
      /\ fill' = fill - n /\ logged' = logged /\ log_buf' = log_buf
  BY DEF isecons_read
<1> HIDE DEF S, n
<1>4. RingType'
  <2>1. ptr' \in 0 .. S - 1 /\ fill' \in 0 .. S /\ logged' \in Nat /\ fill' <= logged'
    BY <1>1, <1>2, <1>3
  <2>. QED BY <1>3, <2>1 DEF RingType, Places, S
<1>5. ASSUME NEW i \in 0 .. fill' - 1
      PROVE  log_buf'[Wrapped(ptr' + i)] = logged' - fill' + 1 + i
  <2>1. n + i \in 0 .. fill - 1
    BY <1>1, <1>2, <1>3, <1>5
  <2>2. log_buf[Wrapped(ptr + (n + i))] = logged - fill + 1 + (n + i)
    BY <1>1, <2>1 DEF NewestText, S
  <2>3. Wrapped(ptr + (n + i)) = Wrapped(ptr' + i)
    <3>1. ptr + (n + i) \in 0 .. 2 * S - 1 /\ ptr' + i \in 0 .. 2 * S - 1
      BY <1>1, <1>2, <1>3, <1>5, <2>1
    <3>2. Wrapped(ptr + (n + i)) = IF ptr + (n + i) < S THEN ptr + (n + i)
                                ELSE ptr + (n + i) - S
      BY <1>1, <1>2, <1>5, <2>1, <3>1, Wrap, SizeAssumption DEF S
    <3>3. Wrapped(ptr' + i) = IF ptr' + i < S THEN ptr' + i ELSE ptr' + i - S
      BY <1>1, <1>2, <1>3, <1>5, <3>1, Wrap, SizeAssumption DEF S
    <3>. QED BY <1>1, <1>2, <1>3, <1>5, <2>1, <3>2, <3>3
  <2>. QED BY <1>1, <1>2, <1>3, <1>5, <2>2, <2>3
<1>. QED BY <1>4, <1>5 DEF NewestText, S

-----------------------------------------------------------------------------
(* What the processes hold.                                                 *)

\* A read takes no more than is wanted and than its buffer holds, so that what
\* is wanted stays a number.
CountsOK ==
  /\ count \in [Procs -> Nat] /\ rc \in [Procs -> Nat] /\ rbuf \in [1 .. PAGE_SIZE -> Nat]
  /\ pc \in [Procs -> {"idle", "read", "copy", "fetch"}]
  /\ \A p \in Procs : rc[p] <= count[p] /\ rc[p] <= PAGE_SIZE /\ (pc[p] = "copy" <=> rc[p] > 0)

LEMMA ReadTakes ==
  ASSUME RingType, CountsOK, NEW p \in Procs, isecons_read(p)
  PROVE  LET n == Trans(Smaller(count[p], PAGE_SIZE))
         IN  n \in 0 .. fill /\ n <= count[p] /\ n <= PAGE_SIZE /\ ptr + n <= LOG_BUF_SIZE
BY SizeAssumption, SMTT(30) DEF Trans, Smaller, RingType, Places, CountsOK

LEMMA StepCounts ==
  ASSUME RingType, CountsOK, [Next]_vars
  PROVE  CountsOK'
<1>1. CASE UNCHANGED vars \/ DriverLogs
  BY <1>1 DEF vars, readVars, DriverLogs, CountsOK
<1>2. ASSUME NEW p \in Procs, isecons_read(p) PROVE CountsOK'
  <2> DEFINE n == Trans(Smaller(count[p], PAGE_SIZE))
  <2>1. n \in 0 .. fill /\ n <= count[p] /\ n <= PAGE_SIZE /\ n \in Nat
    BY <1>2, ReadTakes DEF RingType
  <2>2. /\ rc' = [rc EXCEPT ![p] = n] /\ count' = count
        /\ pc' = [pc EXCEPT ![p] = IF n > 0 THEN "copy" ELSE "read"]
        /\ rbuf' = [i \in 1 .. PAGE_SIZE |->
                      IF i <= n THEN log_buf[Wrapped(ptr + i - 1)] ELSE rbuf[i]]
    BY <1>2 DEF isecons_read
  <2>3. rbuf' \in [1 .. PAGE_SIZE -> Nat]
    <3>1. \A i \in 1 .. n : Wrapped(ptr + i - 1) \in Places
      <4>1. \A i \in 1 .. n : ptr + i - 1 \in 0 .. 2 * LOG_BUF_SIZE - 1
        BY <2>1, SizeAssumption DEF RingType, Places
      <4>. QED BY <2>1, <4>1, Wrap, SizeAssumption DEF RingType, Places
    <3>. HIDE DEF n
    <3>2. \A i \in 1 .. PAGE_SIZE : i <= n => i \in 1 .. n
      BY SizeAssumption, <2>1
    <3>3. \A i \in 1 .. PAGE_SIZE : (IF i <= n THEN log_buf[Wrapped(ptr + i - 1)] ELSE rbuf[i]) \in Nat
      BY <3>1, <3>2 DEF RingType, CountsOK
    <3>. QED BY <2>2, <3>3
  <2>. HIDE DEF n
  <2>. QED BY <2>1, <2>2, <2>3 DEF CountsOK
<1>3. ASSUME NEW p \in Procs, Read(p) PROVE CountsOK'
  BY <1>3, SizeAssumption DEF Read, CountsOK
<1>4. ASSUME NEW p \in Procs, CopyOut(p) PROVE CountsOK'
  <2>1. /\ count' = [count EXCEPT ![p] = @ - rc[p]] /\ rc' = [rc EXCEPT ![p] = 0]
        /\ pc' = [pc EXCEPT ![p] = "read"] /\ rbuf' = rbuf
    BY <1>4 DEF CopyOut
  <2>2. count[p] - rc[p] \in Nat
    BY DEF CountsOK
  <2>. QED BY <2>1, <2>2, SizeAssumption DEF CountsOK
<1>5. ASSUME NEW p \in Procs, CopyOutFails(p) \/ ReadReturns(p) PROVE CountsOK'
  <2>1. /\ count' = [count EXCEPT ![p] = 0] /\ rc' = [rc EXCEPT ![p] = 0]
        /\ pc' = [pc EXCEPT ![p] = "idle"] /\ rbuf' = rbuf
    BY <1>5 DEF CopyOutFails, ReadReturns, ReadDone
  <2>. QED BY <2>1, SizeAssumption DEF CountsOK
<1>6. ASSUME NEW p \in Procs, isecons_write(p) PROVE CountsOK'
  BY <1>6 DEF isecons_write, readVars, CountsOK
<1>7. ASSUME NEW p \in Procs, Write(p) \/ Fetch(p) \/ FetchFails(p) \/ WriteReturns(p)
      PROVE  CountsOK'
  <2>1. UNCHANGED <<count, rc, rbuf>>
    BY <1>7 DEF Write, Fetch, FetchFails, WriteReturns, readVars
  <2>2. pc[p] # "copy" /\ (pc' = pc \/ \E place \in {"fetch", "idle"} : pc' = [pc EXCEPT ![p] = place])
    BY <1>7 DEF Write, Fetch, FetchFails, WriteReturns
  <2>. QED BY <2>1, <2>2 DEF CountsOK
<1>. QED
  BY <1>1, <1>2, <1>3, <1>4, <1>5, <1>6, <1>7 DEF Next, Step

\* Every step leaves the ring alone or is one of the two functions.
LEMMA StepRing ==
  ASSUME RingType, NewestText, CountsOK, [Next]_vars
  PROVE  RingType' /\ NewestText'
<1>1. ASSUME UNCHANGED ringVars PROVE RingType' /\ NewestText'
  BY <1>1 DEF ringVars, RingType, NewestText
<1>2. CASE DriverLogs
  <2>1. PICK m \in LogSizes : isecons_log(m)
    BY <1>2 DEF DriverLogs
  <2>. QED BY <2>1, LogKeeps, SizeAssumption
<1>3. ASSUME NEW p \in Procs, isecons_read(p) PROVE RingType' /\ NewestText'
  BY <1>3, ReadKeeps DEF CountsOK
<1>4. ASSUME NEW p \in Procs, isecons_write(p) PROVE RingType' /\ NewestText'
  <2>1. isecons_log(1) \/ UNCHANGED ringVars
    BY <1>4 DEF isecons_write
  <2>. QED BY <1>1, <2>1, LogKeeps
<1>5. ASSUME NEW p \in Procs,
             \/ Read(p) \/ CopyOut(p) \/ CopyOutFails(p) \/ ReadReturns(p)
             \/ Write(p) \/ Fetch(p) \/ FetchFails(p) \/ WriteReturns(p)
      PROVE  UNCHANGED ringVars
  BY <1>5 DEF Read, CopyOut, CopyOutFails, ReadReturns, Write, Fetch, FetchFails, WriteReturns
<1>6. UNCHANGED vars => UNCHANGED ringVars
  BY DEF vars
<1>. QED
  BY <1>1, <1>2, <1>3, <1>4, <1>5, <1>6 DEF Next, Step

\* The initial state.
LEMMA InitRing == Init => RingType /\ NewestText /\ CountsOK
BY SizeAssumption DEF Init, RingType, NewestText, Places, CountsOK

\* The ring of isecons_log and isecons_read holds the newest text in order,
\* and its indices are in it.
THEOREM NewestKept == Spec => [](RingType /\ NewestText)
<1>1. Init => RingType /\ NewestText /\ CountsOK
  BY InitRing
<1>2. RingType /\ NewestText /\ CountsOK /\ [Next]_vars => (RingType /\ NewestText /\ CountsOK)'
  BY StepRing, StepCounts
<1>. QED
  BY <1>1, <1>2, PTL DEF Spec

-----------------------------------------------------------------------------
(* Where the characters are.                                                *)

\* Characters up to this one have left the ring.
Gone == logged - fill
Copying == {p \in Procs : pc[p] = "copy"}

\* What users and failed copies have, and what was pushed out, is gone from
\* the ring; users have theirs in order.
GotInv ==
  /\ got \in Seq(Nat)
  /\ Text(got) \subseteq 1 .. Gone /\ faulted \subseteq 1 .. Gone /\ dropped \subseteq 1 .. Gone
  /\ \A i, j \in DOMAIN got : i < j => got[i] < got[j]

\* The static buffer belongs to the one process that copies; it holds a piece of the
\* text that comes after all that was copied before.
CopyInv ==
  /\ \A p, q \in Copying : p = q
  /\ \A p \in Copying :
       /\ rbuf[1] >= 1 /\ rbuf[1] + rc[p] - 1 <= Gone
       /\ \A i \in 1 .. rc[p] : rbuf[i] = rbuf[1] + i - 1
       /\ \A x \in Text(got) \cup faulted : x < rbuf[1]

TextInv == (~crossed => GotInv /\ CopyInv) /\ EachCharacterOnce

\* The characters of a piece.
Characters(r, n) == {r[i] : i \in 1 .. n}
InOrder(r, n, x) == \A i \in 1 .. n : r[i] = x + i - 1

LEMMA PieceOfText ==
  ASSUME NEW r, NEW n \in Nat \ {0}, NEW x \in Nat, InOrder(r, n, x)
  PROVE  Characters(r, n) = x .. x + n - 1 /\ Cardinality(Characters(r, n)) = n
<1> DEFINE T == {r[i] : i \in 1 .. n}
<1>1. ASSUME NEW y \in x .. x + n - 1 PROVE y \in T
  <2>1. y - x + 1 \in 1 .. n /\ r[y - x + 1] = x + (y - x + 1) - 1
    BY DEF InOrder
  <2>2. r[y - x + 1] = y
    BY <2>1
  <2>. QED BY <2>1, <2>2
<1>2. ASSUME NEW y \in T PROVE y \in x .. x + n - 1
  <2>1. PICK i \in 1 .. n : y = r[i]
    OBVIOUS
  <2>. QED BY <2>1 DEF InOrder
<1>3. T = x .. x + n - 1
  BY <1>1, <1>2
<1>4. Cardinality(x .. x + n - 1) = n
  <2>1. \A a, b \in Int : Cardinality(a .. b) = IF a > b THEN 0 ELSE b - a + 1
    BY FS_Interval
  <2>2. x \in Int /\ x + n - 1 \in Int /\ ~(x > x + n - 1) /\ (x + n - 1) - x + 1 = n
    OBVIOUS
  <2>. QED BY <2>1, <2>2
<1>. QED BY <1>3, <1>4 DEF Characters

\* The characters on their way to a user.
LEMMA Flight ==
  ASSUME CountsOK, CopyInv
  PROVE  /\ Copying = {} => InFlight = {} /\ Cardinality(InFlight) = 0
         /\ \A p \in Copying : /\ InFlight = rbuf[1] .. rbuf[1] + rc[p] - 1
                               /\ Cardinality(InFlight) = rc[p]
<1>1. ASSUME Copying = {} PROVE InFlight = {} /\ Cardinality(InFlight) = 0
  BY <1>1, FS_EmptySet DEF InFlight, Copying
<1>2. ASSUME NEW p \in Copying
      PROVE  InFlight = rbuf[1] .. rbuf[1] + rc[p] - 1 /\ Cardinality(InFlight) = rc[p]
  <2>1. Copying = {p} /\ p \in Procs /\ rc[p] \in Nat \ {0} /\ rbuf[1] \in Nat
    BY <1>2, SizeAssumption DEF CopyInv, Copying, CountsOK
  <2>2. InFlight = Characters(rbuf, rc[p])
    BY <2>1 DEF InFlight, Copying, Characters
  <2>3. InOrder(rbuf, rc[p], rbuf[1])
    BY <1>2 DEF CopyInv, InOrder
  <2>. QED BY <2>1, <2>2, <2>3, PieceOfText
<1>. QED BY <1>1, <1>2

\* The characters that are held somewhere can be counted.
LEMMA HeldFinite ==
  ASSUME RingType, GotInv
  PROVE  /\ IsFiniteSet(dropped) /\ Cardinality(dropped) \in Nat
         /\ IsFiniteSet(faulted) /\ Cardinality(faulted) \in Nat
         /\ Len(got) \in Nat /\ DOMAIN got = 1 .. Len(got)
<1>1. Gone \in Nat /\ IsFiniteSet(1 .. Gone)
  BY FS_Interval DEF RingType, Gone
<1>. QED BY <1>1, FS_Subset, FS_CardinalityType, LenProperties DEF GotInv

\* Nothing that text depends on changes.
LEMMA OtherText ==
  ASSUME TextInv, UNCHANGED <<ringVars, rbuf, got, faulted>>, crossed => crossed',
         Copying' = Copying, \A p \in Copying : rc'[p] = rc[p]
  PROVE  TextInv'
<1>1. InFlight' = InFlight
  BY DEF InFlight, Copying
<1>2. Gone' = Gone /\ InRing' = InRing /\ Text(got)' = Text(got)
  BY DEF ringVars, Gone, InRing, Text
<1>3. EachCharacterOnce'
  BY <1>1, <1>2 DEF TextInv, EachCharacterOnce, ringVars
<1>4. ~crossed => GotInv' /\ CopyInv'
  BY <1>2 DEF TextInv, GotInv, CopyInv, ringVars
<1>. QED BY <1>3, <1>4 DEF TextInv

\* isecons_log: what it pushes out of the ring, and what it does not even put
\* into it, is dropped.
LEMMA LogText ==
  ASSUME RingType, RingType', CountsOK, TextInv, NEW ndata \in Nat, isecons_log(ndata),
         UNCHANGED <<pc, rc, rbuf, got, faulted, crossed>>
  PROVE  TextInv'
<1> DEFINE S == LOG_BUF_SIZE
           n == Smaller(ndata, S)
           remove == Removed(n)
           out == logged + 1 - fill .. logged - fill + remove
           lost == logged + 1 .. logged + ndata - n
<1>1. S \in Nat \ {0} /\ fill \in 0 .. S /\ logged \in Nat /\ fill <= logged
  BY SizeAssumption DEF RingType, Places
<1>2. n \in 0 .. S /\ n <= ndata /\ (n < S => n = ndata)
  BY <1>1 DEF Smaller
<1>3. remove \in 0 .. fill /\ (n < ndata => remove = fill)
  BY <1>1, <1>2 DEF Removed
<1>4. /\ logged' = logged + ndata /\ fill' = (fill - remove) + n
      /\ dropped' = dropped \cup out \cup lost
  BY DEF isecons_log
<1> HIDE DEF S, n, remove
<1>5. SUFFICES ASSUME ~crossed PROVE GotInv' /\ CopyInv' /\ EachCharacterOnce'
  BY DEF TextInv, EachCharacterOnce
<1>6. GotInv /\ CopyInv /\ ~crossed'
  BY <1>5 DEF TextInv
<1>7. Gone' = Gone + remove + (ndata - n) /\ Gone' >= Gone /\ Gone \in Nat /\ Gone' \in Nat
  BY <1>1, <1>2, <1>3, <1>4 DEF Gone
<1>8. Copying' = Copying /\ Text(got)' = Text(got) /\ InFlight' = InFlight
  BY DEF Copying, Text, InFlight
<1>9. CopyInv'
  <2>1. \A p \in Copying : rbuf[1] + rc[p] - 1 <= Gone'
    <3>1. \A p \in Copying : rc[p] \in Nat /\ rbuf[1] \in Nat
      BY SizeAssumption DEF Copying, CountsOK
    <3>. QED BY <1>6, <1>7, <3>1 DEF CopyInv
  <2>. QED BY <1>6, <1>8, <2>1 DEF CopyInv
<1>10. GotInv'
  <2>1. out \subseteq 1 .. Gone'
    BY <1>1, <1>2, <1>3, <1>7 DEF Gone
  <2>2. lost \subseteq 1 .. Gone'
    <3>1. CASE n = ndata
      BY <1>1, <3>1
    <3>2. CASE n # ndata
      BY <1>1, <1>2, <1>3, <1>7, <3>2 DEF Gone
    <3>. QED BY <3>1, <3>2
  <2>3. 1 .. Gone \subseteq 1 .. Gone'
    BY <1>7
  <2>4. dropped' \subseteq 1 .. Gone'
    BY <1>4, <1>6, <2>1, <2>2, <2>3 DEF GotInv
  <2>. QED BY <1>6, <1>8, <2>3, <2>4 DEF GotInv
<1>11. 1 .. logged' = Text(got) \cup InFlight \cup InRing' \cup dropped' \cup faulted
  <2>1. 1 .. logged = Text(got) \cup InFlight \cup InRing \cup dropped \cup faulted
    BY <1>5 DEF TextInv, EachCharacterOnce
  <2>2. InRing \subseteq out \cup InRing'
    BY <1>1, <1>2, <1>3, <1>4 DEF InRing
  <2>3. logged + 1 .. logged' \subseteq lost \cup InRing'
    BY <1>1, <1>2, <1>3, <1>4 DEF InRing
  <2>4. InRing' \subseteq 1 .. logged' /\ lost \subseteq 1 .. logged' /\ out \subseteq 1 .. logged'
    BY <1>1, <1>2, <1>3, <1>4 DEF InRing
  <2>5. 1 .. logged' = (1 .. logged) \cup (logged + 1 .. logged')
    BY <1>1, <1>4
  <2>6. 1 .. logged' \subseteq Text(got) \cup InFlight \cup InRing' \cup dropped' \cup faulted
    BY <1>4, <2>1, <2>2, <2>3, <2>5
  <2>7. Text(got) \cup InFlight \cup InRing' \cup dropped' \cup faulted \subseteq 1 .. logged'
    BY <1>4, <2>1, <2>4, <2>5
  <2>. QED BY <2>6, <2>7
<1>12. logged' = Len(got) + Cardinality(InFlight) + fill' + Cardinality(dropped') + Cardinality(faulted)
  <2>1. logged = Len(got) + Cardinality(InFlight) + fill + Cardinality(dropped) + Cardinality(faulted)
    BY <1>5 DEF TextInv, EachCharacterOnce
  <2>2. IsFiniteSet(out) /\ Cardinality(out) = remove
    <3>1. \A a, b \in Int : IsFiniteSet(a .. b) /\ Cardinality(a .. b) = IF a > b THEN 0 ELSE b - a + 1
      BY FS_Interval
    <3>2. /\ logged + 1 - fill \in Int /\ logged - fill + remove \in Int
          /\ (IF logged + 1 - fill > logged - fill + remove THEN 0
              ELSE (logged - fill + remove) - (logged + 1 - fill) + 1) = remove
      BY <1>1, <1>3
    <3>. QED BY <3>1, <3>2
  <2>3. IsFiniteSet(lost) /\ Cardinality(lost) = ndata - n
    <3>1. \A a, b \in Int : IsFiniteSet(a .. b) /\ Cardinality(a .. b) = IF a > b THEN 0 ELSE b - a + 1
      BY FS_Interval
    <3>2. /\ logged + 1 \in Int /\ logged + ndata - n \in Int
          /\ (IF logged + 1 > logged + ndata - n THEN 0
              ELSE (logged + ndata - n) - (logged + 1) + 1) = ndata - n
      BY <1>1, <1>2
    <3>. QED BY <3>1, <3>2
  <2>4. IsFiniteSet(dropped) /\ dropped \subseteq 1 .. Gone
    BY <1>6, HeldFinite DEF GotInv
  <2>5. dropped \cap out = {} /\ (dropped \cup out) \cap lost = {}
    BY <1>1, <1>3, <2>4 DEF Gone
  <2>6. Cardinality(dropped') = Cardinality(dropped) + remove + (ndata - n)
    <3>1. IsFiniteSet(dropped \cup out) /\ Cardinality(dropped \cup out) = Cardinality(dropped) + remove
      <4>1. Cardinality(dropped \cap out) = 0
        BY <2>5, FS_EmptySet
      <4>2. Cardinality(dropped \cup out) = Cardinality(dropped) + Cardinality(out) - Cardinality(dropped \cap out)
        BY <2>2, <2>4, FS_Union
      <4>3. Cardinality(dropped) \in Nat
        BY <2>4, FS_CardinalityType
      <4>. QED BY <1>3, <1>1, <2>2, <2>4, <4>1, <4>2, <4>3, FS_Union
    <3>2. Cardinality((dropped \cup out) \cap lost) = 0
      BY <2>5, FS_EmptySet
    <3>3. Cardinality((dropped \cup out) \cup lost)
            = Cardinality(dropped \cup out) + Cardinality(lost) - Cardinality((dropped \cup out) \cap lost)
      BY <2>3, <3>1, FS_Union
    <3>4. Cardinality(dropped) \in Nat
      BY <2>4, FS_CardinalityType
    <3>. QED BY <1>1, <1>2, <1>3, <1>4, <2>3, <3>1, <3>2, <3>3, <3>4
  <2>7. Cardinality(InFlight) \in Nat
    <3>1. CASE Copying = {}
      BY <1>6, <3>1, Flight
    <3>2. CASE Copying # {}
      BY <1>6, <3>2, Flight DEF Copying, CountsOK
    <3>. QED BY <3>1, <3>2
  <2>8. Len(got) \in Nat /\ Cardinality(faulted) \in Nat /\ Cardinality(dropped) \in Nat
    BY <1>6, HeldFinite
  <2>. QED BY <1>1, <1>2, <1>3, <1>4, <2>1, <2>6, <2>7, <2>8, SMTT(30)
<1>13. EachCharacterOnce'
  BY <1>6, <1>8, <1>10, <1>11, <1>12 DEF EachCharacterOnce, GotInv
<1>. QED BY <1>9, <1>10, <1>13

\* isecons_read: the piece it takes is the oldest of the ring.
LEMMA ReadText ==
  ASSUME RingType, NewestText, RingType', CountsOK, CountsOK', TextInv,
         NEW p \in Procs, isecons_read(p)
  PROVE  TextInv'
<1> DEFINE n == Trans(Smaller(count[p], PAGE_SIZE))
<1>1. n \in 0 .. fill /\ n <= PAGE_SIZE /\ ptr + n <= LOG_BUF_SIZE /\ n \in Nat
  BY ReadTakes DEF RingType
<1>2. /\ rbuf' = [i \in 1 .. PAGE_SIZE |->
                    IF i <= n THEN log_buf[Wrapped(ptr + i - 1)] ELSE rbuf[i]]
      /\ ptr' = IF ptr + n = LOG_BUF_SIZE THEN 0 ELSE ptr + n
      /\ fill' = fill - n
      /\ rc' = [rc EXCEPT ![p] = n]
      /\ pc[p] = "read" /\ pc' = [pc EXCEPT ![p] = IF n > 0 THEN "copy" ELSE "read"]
      /\ crossed' = (crossed \/ (n > 0 /\ \E q \in Procs : pc[q] = "copy"))
      /\ UNCHANGED <<log_buf, logged, dropped, count, got, faulted>>
  BY DEF isecons_read
<1> HIDE DEF n
<1>3. CASE n = 0
  <2>1. rbuf' = rbuf
    BY <1>2, <1>3 DEF CountsOK
  <2>2. UNCHANGED ringVars
    BY <1>2, <1>3, SizeAssumption DEF RingType, Places, ringVars
  <2>3. Copying' = Copying /\ \A q \in Copying : rc'[q] = rc[q]
    BY <1>2, <1>3 DEF Copying, CountsOK
  <2>4. UNCHANGED <<ringVars, rbuf, got, faulted>> /\ (crossed => crossed')
    BY <1>2, <2>1, <2>2
  <2>. QED BY <2>3, <2>4, OtherText
<1>4. CASE n > 0
  <2>1. SUFFICES ASSUME ~crossed' PROVE GotInv' /\ CopyInv' /\ EachCharacterOnce'
    BY DEF TextInv, EachCharacterOnce
  <2>2. ~crossed /\ Copying = {} /\ Copying' = {p} /\ rc'[p] = n
    <3>1. ~crossed /\ \A q \in Procs : pc[q] # "copy"
      BY <1>2, <1>4, <2>1
    <3>2. pc' = [pc EXCEPT ![p] = "copy"] /\ rc'[p] = n
      BY <1>2, <1>4 DEF CountsOK
    <3>. QED BY <3>1, <3>2 DEF Copying, CountsOK
  <2>3. GotInv /\ CopyInv
    BY <2>2 DEF TextInv
  <2>4. Gone \in Nat /\ Gone' = Gone + n /\ logged \in Nat /\ fill \in Nat /\ fill <= logged
    BY <1>1, <1>2 DEF Gone, RingType, Places
  <2>5. ASSUME NEW i \in 1 .. n PROVE rbuf'[i] = Gone + i
    <3>1. i - 1 \in 0 .. fill - 1 /\ i \in 1 .. PAGE_SIZE
      BY <1>1, <2>4, SizeAssumption
    <3>2. log_buf[Wrapped(ptr + (i - 1))] = logged - fill + 1 + (i - 1)
      BY <3>1 DEF NewestText
    <3>3. ptr + (i - 1) = ptr + i - 1 /\ logged - fill + 1 + (i - 1) = Gone + i
      BY <2>4 DEF Gone, RingType, Places
    <3>. QED BY <1>2, <3>1, <3>2, <3>3
  <2>6. rbuf'[1] = Gone + 1 /\ \A i \in 1 .. n : rbuf'[i] = rbuf'[1] + i - 1
    BY <1>1, <1>4, <2>4, <2>5
  <2>7. Text(got)' = Text(got) /\ \A x \in Text(got) \cup faulted : x \in Nat /\ x <= Gone
    <3>1. Text(got)' = Text(got)
      BY <1>2 DEF Text
    <3>2. Text(got) \cup faulted \subseteq 1 .. Gone
      BY <2>3 DEF GotInv
    <3>. QED BY <2>4, <3>1, <3>2
  <2>8. CopyInv'
    <3>1. \A q \in Copying' : q = p
      BY <2>2
    <3>2. rbuf'[1] >= 1 /\ rbuf'[1] + rc'[p] - 1 <= Gone'
      BY <1>1, <2>2, <2>4, <2>6
    <3>3. \A x \in Text(got)' \cup faulted' : x < rbuf'[1]
      BY <1>2, <2>4, <2>6, <2>7
    <3>4. \A i \in 1 .. rc'[p] : rbuf'[i] = rbuf'[1] + i - 1
      BY <2>2, <2>6
    <3>. QED BY <3>1, <3>2, <3>3, <3>4 DEF CopyInv
  <2>9. GotInv'
    <3>1. 1 .. Gone \subseteq 1 .. Gone'
      BY <1>1, <2>4
    <3>. QED BY <1>2, <2>3, <2>7, <3>1 DEF GotInv
  <2>10. InFlight' = Gone + 1 .. Gone + n /\ Cardinality(InFlight') = n
    <3>1. InFlight' = Characters(rbuf', n)
      BY <2>2 DEF InFlight, Copying, Characters
    <3>2. /\ Characters(rbuf', n) = Gone + 1 .. Gone + 1 + n - 1
          /\ Cardinality(Characters(rbuf', n)) = n
      <4>1. InOrder(rbuf', n, Gone + 1) /\ n \in Nat \ {0} /\ Gone + 1 \in Nat
        BY <1>1, <1>4, <2>4, <2>6 DEF InOrder
      <4>. QED BY <4>1, PieceOfText
    <3>3. Gone + 1 + n - 1 = Gone + n
      BY <1>1, <2>4
    <3>. QED BY <3>1, <3>2, <3>3
  <2>11. InFlight = {} /\ Cardinality(InFlight) = 0
    BY <2>2, <2>3, Flight
  <2>12. InRing = InFlight' \cup InRing'
    <3>1. InRing = Gone + 1 .. logged /\ InRing' = Gone + n + 1 .. logged
      <4>1. logged' = logged /\ logged' - fill' + 1 = Gone + n + 1 /\ logged - fill + 1 = Gone + 1
        BY <1>1, <1>2, <2>4 DEF Gone
      <4>. QED BY <4>1 DEF InRing
    <3>2. Gone + n <= logged
      BY <1>1, <2>4 DEF Gone
    <3>. QED BY <1>1, <2>4, <2>10, <3>1, <3>2
  <2>13. 1 .. logged' = Text(got)' \cup InFlight' \cup InRing' \cup dropped' \cup faulted'
    BY <1>2, <2>2, <2>7, <2>11, <2>12 DEF TextInv, EachCharacterOnce
  <2>14. logged' = Len(got') + Cardinality(InFlight') + fill' + Cardinality(dropped') + Cardinality(faulted')
    <3>1. logged = Len(got) + Cardinality(InFlight) + fill + Cardinality(dropped) + Cardinality(faulted)
      BY <2>2 DEF TextInv, EachCharacterOnce
    <3>2. Len(got) \in Nat /\ Cardinality(faulted) \in Nat /\ Cardinality(dropped) \in Nat
      BY <2>3, HeldFinite
    <3>. QED BY <1>1, <1>2, <2>4, <2>10, <2>11, <3>1, <3>2
  <2>. QED BY <2>8, <2>9, <2>13, <2>14 DEF EachCharacterOnce, GotInv
<1>. QED BY <1>1, <1>3, <1>4

\* A piece ends with its user or is lost in a failed copy: nothing is left on
\* the way.
LEMMA PieceText ==
  ASSUME RingType, CountsOK, TextInv, ~crossed, NEW p \in Copying,
         pc' = [pc EXCEPT ![p] = "read"] \/ pc' = [pc EXCEPT ![p] = "idle"],
         UNCHANGED <<ringVars, rbuf, crossed>>
  PROVE  /\ p \in Procs /\ rc[p] \in Nat \ {0} /\ rc[p] <= PAGE_SIZE /\ rbuf[1] \in Nat
         /\ Gone' = Gone /\ InRing' = InRing /\ InFlight' = {} /\ Cardinality(InFlight') = 0
         /\ CopyInv'
         /\ InFlight = rbuf[1] .. rbuf[1] + rc[p] - 1 /\ Cardinality(InFlight) = rc[p]
         /\ rbuf[1] >= 1 /\ rbuf[1] + rc[p] - 1 <= Gone
         /\ \A i \in 1 .. rc[p] : rbuf[i] = rbuf[1] + i - 1
<1>1. p \in Procs /\ rc[p] \in Nat \ {0} /\ rc[p] <= PAGE_SIZE /\ rbuf[1] \in Nat
  BY SizeAssumption DEF Copying, CountsOK
<1>2. GotInv /\ CopyInv
  BY DEF TextInv
<1>3. Copying = {p} /\ Copying' = {}
  BY <1>1, <1>2 DEF CopyInv, Copying, CountsOK
<1>4. Gone' = Gone /\ InRing' = InRing
  BY DEF Gone, InRing, ringVars
<1>5. InFlight' = {} /\ Cardinality(InFlight') = 0
  BY <1>3, FS_EmptySet DEF InFlight, Copying
<1>. QED BY <1>1, <1>2, <1>3, <1>4, <1>5, Flight DEF CopyInv

LEMMA CopyOutText ==
  ASSUME RingType, CountsOK, TextInv, NEW p \in Procs, CopyOut(p)
  PROVE  TextInv'
<1>1. SUFFICES ASSUME ~crossed' PROVE GotInv' /\ CopyInv' /\ EachCharacterOnce'
  BY DEF TextInv, EachCharacterOnce
<1>2. /\ p \in Copying /\ ~crossed /\ pc' = [pc EXCEPT ![p] = "read"]
      /\ UNCHANGED <<ringVars, rbuf, crossed, faulted>>
      /\ got' = got \o SubSeq(rbuf, 1, rc[p])
  BY <1>1 DEF CopyOut, Copying
<1> DEFINE piece == SubSeq(rbuf, 1, rc[p])
           m == Len(got)
<1>3. GotInv /\ CopyInv
  BY <1>2 DEF TextInv
<1>4. /\ rc[p] \in Nat \ {0} /\ rc[p] <= PAGE_SIZE /\ rbuf[1] \in Nat
      /\ Gone' = Gone /\ InRing' = InRing /\ InFlight' = {} /\ Cardinality(InFlight') = 0
      /\ CopyInv'
      /\ InFlight = rbuf[1] .. rbuf[1] + rc[p] - 1 /\ Cardinality(InFlight) = rc[p]
      /\ rbuf[1] >= 1 /\ rbuf[1] + rc[p] - 1 <= Gone
      /\ \A i \in 1 .. rc[p] : rbuf[i] = rbuf[1] + i - 1
  BY <1>2, PieceText
<1>5. piece \in Seq(Nat) /\ Len(piece) = rc[p] /\ \A i \in 1 .. rc[p] : piece[i] = rbuf[i]
  <2>1. \A i \in 1 .. rc[p] : rbuf[i] \in Nat
    BY <1>4, SizeAssumption DEF CountsOK
  <2>. QED BY <1>4, <2>1, SubSeqProperties
<1>6. /\ got' \in Seq(Nat) /\ m \in Nat /\ Len(got') = m + rc[p] /\ DOMAIN got' = 1 .. m + rc[p]
      /\ DOMAIN got = 1 .. m
      /\ \A i \in 1 .. m : got'[i] = got[i]
      /\ \A i \in m + 1 .. m + rc[p] : got'[i] = rbuf[i - m]
  <2>1. got \in Seq(Nat) /\ m \in Nat /\ DOMAIN got = 1 .. m
    BY <1>3, LenProperties DEF GotInv
  <2>2. /\ got' \in Seq(Nat) /\ Len(got') = m + Len(piece)
        /\ \A i \in 1 .. m + Len(piece) : got'[i] = IF i <= m THEN got[i] ELSE piece[i - m]
    BY <1>2, <1>5, <2>1, ConcatProperties
  <2>3. DOMAIN got' = 1 .. m + rc[p]
    BY <1>5, <2>2, LenProperties
  <2> HIDE DEF piece, m
  <2>4. \A i \in 1 .. m : i \in 1 .. m + Len(piece) /\ i <= m
    BY <1>4, <1>5, <2>1
  <2>5. \A i \in m + 1 .. m + rc[p] : i \in 1 .. m + Len(piece) /\ ~(i <= m) /\ i - m \in 1 .. rc[p]
    BY <1>4, <1>5, <2>1
  <2>. QED BY <1>5, <2>1, <2>2, <2>3, <2>4, <2>5
<1> HIDE DEF piece, m
<1>7. Text(got') = Text(got) \cup InFlight
  <2>1. InFlight = {rbuf[i] : i \in 1 .. rc[p]}
    <3>1. InOrder(rbuf, rc[p], rbuf[1])
      BY <1>4 DEF InOrder
    <3>2. rc[p] \in Nat \ {0} /\ rbuf[1] \in Nat /\ InFlight = rbuf[1] .. rbuf[1] + rc[p] - 1
      BY <1>4
    <3>3. Characters(rbuf, rc[p]) = rbuf[1] .. rbuf[1] + rc[p] - 1
      BY <3>1, <3>2, PieceOfText
    <3>. QED BY <3>2, <3>3 DEF Characters
  <2>2. ASSUME NEW x \in Text(got') PROVE x \in Text(got) \cup InFlight
    <3>1. PICK i \in 1 .. m + rc[p] : x = got'[i]
      BY <1>6 DEF Text
    <3>2. CASE i <= m
      <4>1. i \in 1 .. m
        BY <1>4, <1>6, <3>2
      <4>. QED BY <1>6, <3>1, <4>1 DEF Text
    <3>3. CASE ~(i <= m)
      <4>1. i \in m + 1 .. m + rc[p] /\ i - m \in 1 .. rc[p]
        BY <1>4, <1>6, <3>3
      <4>. QED BY <1>6, <2>1, <3>1, <4>1
    <3>. QED BY <3>2, <3>3
  <2>3. ASSUME NEW x \in Text(got) PROVE x \in Text(got')
    <3>1. PICK i \in 1 .. m : x = got[i]
      BY <1>6 DEF Text
    <3>2. i \in 1 .. m + rc[p]
      BY <1>4, <1>6
    <3>. QED BY <1>6, <3>1, <3>2 DEF Text
  <2>4. ASSUME NEW x \in InFlight PROVE x \in Text(got')
    <3>1. PICK i \in 1 .. rc[p] : x = rbuf[i]
      BY <2>1
    <3>2. m + i \in m + 1 .. m + rc[p] /\ m + i \in 1 .. m + rc[p] /\ (m + i) - m = i
      BY <1>4, <1>6
    <3>. QED BY <1>6, <3>1, <3>2 DEF Text
  <2>. QED BY <2>2, <2>3, <2>4
<1>8. \A i, j \in DOMAIN got' : i < j => got'[i] < got'[j]
  <2>1. SUFFICES ASSUME NEW i \in 1 .. m + rc[p], NEW j \in 1 .. m + rc[p], i < j
                 PROVE  got'[i] < got'[j]
    BY <1>6
  <2>2. CASE j <= m
    <3>1. i \in DOMAIN got /\ j \in DOMAIN got /\ got'[i] = got[i] /\ got'[j] = got[j]
      BY <1>4, <1>6, <2>1, <2>2
    <3>. QED BY <1>3, <2>1, <3>1 DEF GotInv
  <2>3. CASE ~(j <= m)
    <3>1. j - m \in 1 .. rc[p] /\ got'[j] = rbuf[1] + (j - m) - 1
      <4>1. j \in m + 1 .. m + rc[p] /\ j - m \in 1 .. rc[p]
        BY <1>4, <1>6, <2>3
      <4>. QED BY <1>4, <1>6, <4>1
    <3>2. CASE i <= m
      <4>1. i \in DOMAIN got /\ got'[i] = got[i] /\ got[i] \in Text(got)
        BY <1>4, <1>6, <3>2 DEF Text
      <4>2. got[i] \in Nat /\ got[i] < rbuf[1]
        BY <1>2, <1>3, <1>6, <4>1 DEF CopyInv, GotInv
      <4>. QED BY <1>4, <1>6, <3>1, <4>1, <4>2
    <3>3. CASE ~(i <= m)
      <4>1. i \in m + 1 .. m + rc[p] /\ i - m \in 1 .. rc[p]
        BY <1>4, <1>6, <3>3
      <4>2. got'[i] = rbuf[1] + (i - m) - 1
        BY <1>4, <1>6, <4>1
      <4>. QED BY <1>4, <1>6, <2>1, <3>1, <4>1, <4>2, SMTT(30)
    <3>. QED BY <3>2, <3>3
  <2>. QED BY <2>2, <2>3
<1>9. GotInv'
  <2>1. dropped' = dropped
    BY <1>2 DEF ringVars
  <2>2. InFlight \subseteq 1 .. Gone
    <3>1. Gone \in Nat
      BY DEF RingType, Gone
    <3>2. \A x \in InFlight : x \in Nat /\ 1 <= x /\ x <= Gone
      BY <1>4, <3>1
    <3>. QED BY <3>1, <3>2
  <2>3. Text(got') \subseteq 1 .. Gone'
    BY <1>3, <1>4, <1>7, <2>2 DEF GotInv
  <2>. QED BY <1>2, <1>3, <1>4, <1>6, <1>8, <2>1, <2>3 DEF GotInv
<1>10. EachCharacterOnce'
  <2>1. /\ 1 .. logged = Text(got) \cup InFlight \cup InRing \cup dropped \cup faulted
        /\ logged = Len(got) + Cardinality(InFlight) + fill + Cardinality(dropped) + Cardinality(faulted)
    BY <1>2 DEF TextInv, EachCharacterOnce
  <2>2. Len(got) \in Nat /\ Cardinality(faulted) \in Nat /\ Cardinality(dropped) \in Nat
    BY <1>3, HeldFinite
  <2>3. UNCHANGED <<logged, fill, dropped, faulted>>
    BY <1>2 DEF ringVars
  <2>4. logged' = Len(got') + Cardinality(InFlight') + fill' + Cardinality(dropped') + Cardinality(faulted')
    BY <1>4, <1>6, <2>1, <2>2, <2>3 DEF m, RingType
  <2>. QED BY <1>4, <1>7, <1>8, <2>1, <2>3, <2>4 DEF EachCharacterOnce
<1>. QED BY <1>4, <1>9, <1>10

LEMMA CopyFailsText ==
  ASSUME RingType, CountsOK, TextInv, NEW p \in Procs, CopyOutFails(p)
  PROVE  TextInv'
<1>1. SUFFICES ASSUME ~crossed' PROVE GotInv' /\ CopyInv' /\ EachCharacterOnce'
  BY DEF TextInv, EachCharacterOnce
<1>2. /\ p \in Copying /\ ~crossed /\ pc' = [pc EXCEPT ![p] = "idle"]
      /\ UNCHANGED <<ringVars, rbuf, crossed, got>>
      /\ faulted' = faulted \cup {rbuf[i] : i \in 1 .. rc[p]}
  BY <1>1 DEF CopyOutFails, ReadDone, Copying
<1>3. GotInv /\ CopyInv
  BY <1>2 DEF TextInv
<1>4. /\ rc[p] \in Nat \ {0} /\ rbuf[1] \in Nat
      /\ Gone' = Gone /\ InRing' = InRing /\ InFlight' = {} /\ Cardinality(InFlight') = 0
      /\ CopyInv'
      /\ InFlight = rbuf[1] .. rbuf[1] + rc[p] - 1 /\ Cardinality(InFlight) = rc[p]
      /\ rbuf[1] >= 1 /\ rbuf[1] + rc[p] - 1 <= Gone
      /\ \A i \in 1 .. rc[p] : rbuf[i] = rbuf[1] + i - 1
  BY <1>2, PieceText
<1>5. faulted' = faulted \cup InFlight
  <2>1. InOrder(rbuf, rc[p], rbuf[1])
    BY <1>4 DEF InOrder
  <2>2. Characters(rbuf, rc[p]) = InFlight
    BY <1>4, <2>1, PieceOfText, SMTT(30)
  <2>. QED BY <1>2, <2>2 DEF Characters
<1>6. UNCHANGED <<logged, fill, dropped, got>> /\ Text(got)' = Text(got)
  BY <1>2 DEF ringVars, Text
<1>7. GotInv'
  <2>1. InFlight \subseteq 1 .. Gone
    <3>1. Gone \in Nat
      BY DEF RingType, Gone
    <3>2. \A x \in InFlight : x \in Nat /\ 1 <= x /\ x <= Gone
      BY <1>4, <3>1
    <3>. QED BY <3>1, <3>2
  <2>. QED BY <1>3, <1>4, <1>5, <1>6, <2>1 DEF GotInv
<1>8. Cardinality(faulted') = Cardinality(faulted) + rc[p]
  <2>1. IsFiniteSet(faulted) /\ Cardinality(faulted) \in Nat
    BY <1>3, HeldFinite
  <2>2. IsFiniteSet(InFlight)
    BY <1>4, FS_Interval, SMTT(30)
  <2>3. faulted \cap InFlight = {}
    <3>1. \A x \in faulted : x \in Nat /\ x < rbuf[1]
      BY <1>2, <1>3 DEF GotInv, CopyInv
    <3>. QED BY <1>4, <3>1
  <2>4. Cardinality(faulted \cup InFlight)
          = Cardinality(faulted) + Cardinality(InFlight) - Cardinality(faulted \cap InFlight)
    BY <2>1, <2>2, FS_Union
  <2>5. Cardinality(faulted \cap InFlight) = 0
    BY <2>3, FS_EmptySet
  <2>. QED BY <1>4, <1>5, <2>1, <2>4, <2>5
<1>9. EachCharacterOnce'
  <2>1. /\ 1 .. logged = Text(got) \cup InFlight \cup InRing \cup dropped \cup faulted
        /\ logged = Len(got) + Cardinality(InFlight) + fill + Cardinality(dropped) + Cardinality(faulted)
    BY <1>2 DEF TextInv, EachCharacterOnce
  <2>2. Len(got) \in Nat /\ Cardinality(faulted) \in Nat /\ Cardinality(dropped) \in Nat
    BY <1>3, HeldFinite
  <2>3. logged' = Len(got') + Cardinality(InFlight') + fill' + Cardinality(dropped') + Cardinality(faulted')
    BY <1>4, <1>6, <1>8, <2>1, <2>2 DEF RingType
  <2>. QED BY <1>4, <1>5, <1>6, <1>7, <2>1, <2>3 DEF EachCharacterOnce, GotInv
<1>. QED BY <1>4, <1>7, <1>9

\* Every step keeps the characters where they belong.
LEMMA StepText ==
  ASSUME RingType, NewestText, CountsOK, TextInv, [Next]_vars
  PROVE  TextInv'
<1>1. RingType' /\ NewestText' /\ CountsOK'
  BY StepRing, StepCounts
<1>2. CASE UNCHANGED vars
  <2>1. UNCHANGED <<ringVars, rbuf, got, faulted>> /\ (crossed => crossed')
    BY <1>2 DEF vars, readVars
  <2>2. Copying' = Copying /\ \A p \in Copying : rc'[p] = rc[p]
    BY <1>2 DEF vars, readVars, Copying
  <2>. QED BY <2>1, <2>2, OtherText
<1>3. CASE DriverLogs
  <2>1. PICK m \in LogSizes : isecons_log(m)
    BY <1>3 DEF DriverLogs
  <2>2. m \in Nat /\ UNCHANGED <<pc, rc, rbuf, got, faulted, crossed>>
    BY <1>3, SizeAssumption DEF DriverLogs, readVars
  <2>. QED BY <1>1, <2>1, <2>2, LogText
<1>4. ASSUME NEW p \in Procs, isecons_read(p) PROVE TextInv'
  BY <1>1, <1>4, ReadText
<1>5. ASSUME NEW p \in Procs, CopyOut(p) PROVE TextInv'
  BY <1>5, CopyOutText
<1>6. ASSUME NEW p \in Procs, CopyOutFails(p) PROVE TextInv'
  BY <1>6, CopyFailsText
<1>7. ASSUME NEW p \in Procs, isecons_write(p) PROVE TextInv'
  <2>1. UNCHANGED <<pc, rc, rbuf, got, faulted, crossed>> /\ (isecons_log(1) \/ UNCHANGED ringVars)
    BY <1>7 DEF isecons_write, readVars
  <2>2. CASE UNCHANGED ringVars
    BY <2>1, <2>2, OtherText DEF Copying
  <2>. QED BY <1>1, <2>1, <2>2, LogText
<1>8. ASSUME NEW p \in Procs,
             \/ Read(p) \/ ReadReturns(p)
             \/ Write(p) \/ Fetch(p) \/ FetchFails(p) \/ WriteReturns(p)
      PROVE  TextInv'
  <2>1. UNCHANGED <<ringVars, rbuf, got, faulted>> /\ (crossed => crossed')
    <3>1. CASE Fetch(p)
      BY <3>1 DEF Fetch, readVars
    <3>2. CASE ~Fetch(p)
      BY <1>8, <3>2 DEF Read, ReadReturns, Write, FetchFails, WriteReturns, readVars
    <3>. QED BY <3>1, <3>2
  <2>2. /\ pc[p] # "copy" /\ \A q \in Procs : q # p => rc'[q] = rc[q]
        /\ pc' = pc \/ \E place \in {"read", "fetch", "idle"} : pc' = [pc EXCEPT ![p] = place]
    BY <1>8 DEF Read, ReadReturns, ReadDone, Write, Fetch, FetchFails, WriteReturns, readVars, CountsOK
  <2>3. Copying' = Copying /\ \A q \in Copying : rc'[q] = rc[q]
    BY <2>2 DEF Copying, CountsOK
  <2>. QED BY <2>1, <2>3, OtherText
<1>. QED
  BY <1>2, <1>3, <1>4, <1>5, <1>6, <1>7, <1>8 DEF Next, Step

-----------------------------------------------------------------------------
(* The commands.                                                            *)

\* A chunk is in the static buffer of conswrite as long as nobody else's is.
ChunkInv ==
  /\ todo \in [Procs -> Seq(STRING)] /\ chunk \in [Procs -> Seq(STRING)]
  /\ DOMAIN wbuf = 1 .. PAGE_SIZE
  /\ \A p \in Procs : Len(chunk[p]) <= ChunkSize(p) /\ (chunk[p] # <<>> => pc[p] = "fetch")
  /\ ~crossed =>
       /\ \A p, q \in Procs : chunk[p] # <<>> /\ chunk[q] # <<>> => p = q
       /\ \A p \in Procs : \A i \in 1 .. Len(chunk[p]) : wbuf[i] = chunk[p][i]
  /\ OwnCommand

\* A set of numbers has a least.
LEMMA LeastOf ==
  ASSUME NEW T, T \subseteq Nat, T # {}
  PROVE  \E i \in T : \A j \in T : i <= j
<1> DEFINE less == {ss \in Nat \X Nat : ss[1] < ss[2]}
<1>1. IsWellFoundedOn(less, Nat)
  BY NatLessThanWellFounded DEF OpToRel
<1>2. PICK i \in T : \A j \in T : ~ (<<j, i>> \in less)
  <2> HIDE DEF less
  <2>. QED BY <1>1, WFMin
<1>3. ASSUME NEW j \in T PROVE i <= j
  <2>1. i \in Nat /\ j \in Nat /\ ~ (<<j, i>> \in less)
    BY <1>2
  <2>2. ~(j < i)
    BY <2>1
  <2>. QED BY <2>1, <2>2
<1>. QED BY <1>3

\* Two buffers with the same cells have the same first command.
LEMMA SameFirst ==
  ASSUME NEW s, NEW t, NEW n \in Nat, \A i \in 1 .. n : s[i] = t[i]
  PROVE  First(s, n) = First(t, n)
<1> DEFINE at(r) == {i \in 1 .. n : r[i] # "text"}
           least(i) == i \in at(s) /\ \A j \in at(s) : i <= j
<1>1. at(s) = at(t)
  OBVIOUS
<1>2. CASE at(s) = {}
  BY <1>1, <1>2 DEF First
<1>3. CASE at(s) # {}
  <2>1. at(s) \in SUBSET Nat
    OBVIOUS
  <2>2. \E i \in at(s) : \A j \in at(s) : i <= j
    <3> DEFINE T == at(s)
    <3>1. T \subseteq Nat /\ T # {}
      BY <1>3, <2>1
    <3> HIDE DEF T
    <3>2. \E i \in T : \A j \in T : i <= j
      BY <3>1, LeastOf
    <3>. QED BY <3>2 DEF T
  <2> DEFINE c == CHOOSE i \in at(s) : \A j \in at(s) : i <= j
  <2>3. c \in at(s)
    BY <2>2
  <2>4. s[c] = t[c]
    BY <2>3
  <2>5. First(s, n) = s[c]
    BY <1>3 DEF First
  <2>6. First(t, n) = t[c]
    BY <1>1, <1>3 DEF First
  <2>. QED BY <2>4, <2>5, <2>6
<1>. QED BY <1>2, <1>3

\* One isecons_write: the command that is run was found in the static buffer.
LEMMA WriteOwn ==
  ASSUME ChunkInv, NEW p \in Procs, isecons_write(p)
  PROVE  OwnCommand'
<1>1. SUFFICES ASSUME ~crossed' PROVE rung'[1] = rung'[2]
  BY DEF OwnCommand
<1>2. ~crossed /\ Len(chunk[p]) = ChunkSize(p) /\ rung' = <<First(chunk[p], ChunkSize(p)), Command(ChunkSize(p))>>
  BY <1>1 DEF isecons_write
<1>3. ChunkSize(p) \in Nat
  BY <1>2 DEF ChunkInv
<1>4. \A i \in 1 .. ChunkSize(p) : chunk[p][i] = wbuf[i]
  BY <1>2 DEF ChunkInv
<1>5. First(chunk[p], ChunkSize(p)) = First(wbuf, ChunkSize(p))
  BY <1>3, <1>4, SameFirst
<1>. QED BY <1>2, <1>5 DEF Command

LEMMA ChunkSizes ==
  ASSUME ChunkInv
  PROVE  \A p \in Procs :
           /\ todo[p] \in Seq(STRING) /\ Len(todo[p]) \in Nat
           /\ chunk[p] \in Seq(STRING) /\ Len(chunk[p]) \in Nat
           /\ ChunkSize(p) \in Nat /\ ChunkSize(p) <= Len(todo[p]) /\ ChunkSize(p) <= PAGE_SIZE
           /\ (todo[p] = <<>> => chunk[p] = <<>>)
<1>1. SUFFICES ASSUME NEW p \in Procs
               PROVE  /\ todo[p] \in Seq(STRING) /\ Len(todo[p]) \in Nat
                      /\ chunk[p] \in Seq(STRING) /\ Len(chunk[p]) \in Nat
                      /\ ChunkSize(p) \in Nat /\ ChunkSize(p) <= Len(todo[p])
                      /\ ChunkSize(p) <= PAGE_SIZE
                      /\ (todo[p] = <<>> => chunk[p] = <<>>)
  OBVIOUS
<1>2. todo[p] \in Seq(STRING) /\ Len(todo[p]) \in Nat /\ chunk[p] \in Seq(STRING) /\ Len(chunk[p]) \in Nat
  BY DEF ChunkInv
<1>3. ChunkSize(p) \in Nat /\ ChunkSize(p) <= Len(todo[p]) /\ ChunkSize(p) <= PAGE_SIZE
  BY <1>2, SizeAssumption DEF ChunkSize, Smaller
<1>4. ASSUME todo[p] = <<>> PROVE chunk[p] = <<>>
  <2>1. Len(todo[p]) = 0
    BY <1>4
  <2>2. Len(chunk[p]) <= ChunkSize(p)
    BY DEF ChunkInv
  <2>3. Len(chunk[p]) = 0
    BY <1>2, <1>3, <2>1, <2>2
  <2>. QED BY <1>2, <2>3
<1>. QED BY <1>2, <1>3, <1>4

LEMMA StepChunks ==
  ASSUME CountsOK, ChunkInv, [Next]_vars
  PROVE  ChunkInv'
<1>1. ASSUME UNCHANGED <<todo, chunk, wbuf, rung>>, crossed => crossed',
             \A p \in Procs : pc[p] = "fetch" => pc'[p] = "fetch" \/ chunk[p] = <<>>
      PROVE  ChunkInv'
  BY <1>1 DEF ChunkInv, ChunkSize, OwnCommand
<1>2. CASE UNCHANGED vars \/ DriverLogs
  BY <1>1, <1>2 DEF vars, writeVars, DriverLogs
<1>3. ASSUME NEW p \in Procs,
             Read(p) \/ isecons_read(p) \/ CopyOut(p) \/ CopyOutFails(p) \/ ReadReturns(p)
      PROVE  ChunkInv'
  <2>1. UNCHANGED <<todo, chunk, wbuf, rung>> /\ (crossed => crossed')
    <3>1. CASE isecons_read(p)
      BY <3>1 DEF isecons_read, writeVars
    <3>2. CASE ~isecons_read(p)
      BY <1>3, <3>2 DEF Read, CopyOut, CopyOutFails, ReadReturns, writeVars
    <3>. QED BY <3>1, <3>2
  <2>2. pc[p] # "fetch" /\ \A q \in Procs : q # p => pc'[q] = pc[q]
    BY <1>3 DEF Read, isecons_read, CopyOut, CopyOutFails, ReadReturns, ReadDone, CountsOK
  <2>. QED BY <1>1, <2>1, <2>2
<1>4. ASSUME NEW p \in Procs, WriteReturns(p) PROVE ChunkInv'
  <2>1. /\ UNCHANGED <<todo, chunk, wbuf, rung, crossed>> /\ todo[p] = <<>>
        /\ pc' = [pc EXCEPT ![p] = "idle"]
    BY <1>4 DEF WriteReturns, writeVars
  <2>2. \A q \in Procs : pc[q] = "fetch" => pc'[q] = "fetch" \/ chunk[q] = <<>>
    BY <2>1, ChunkSizes DEF CountsOK
  <2>. QED BY <1>1, <2>1, <2>2
<1>5. ASSUME NEW p \in Procs, Write(p) PROVE ChunkInv'
  <2>1. PICK s \in Inputs : todo' = [todo EXCEPT ![p] = s]
    BY <1>5 DEF Write
  <2>2. /\ pc' = [pc EXCEPT ![p] = "fetch"] /\ chunk' = [chunk EXCEPT ![p] = <<>>]
        /\ UNCHANGED <<wbuf, rung, crossed>>
    BY <1>5 DEF Write
  <2>3. s \in Seq(STRING) /\ <<>> \in Seq(STRING) /\ Len(<<>>) = 0
    BY <2>1, SizeAssumption
  <2>4. todo' \in [Procs -> Seq(STRING)] /\ chunk' \in [Procs -> Seq(STRING)]
    BY <2>1, <2>2, <2>3 DEF ChunkInv
  <2>5. \A q \in Procs : Len(chunk'[q]) <= ChunkSize(q)'
    <3>1. \A q \in Procs : q # p => chunk'[q] = chunk[q] /\ ChunkSize(q)' = ChunkSize(q)
      BY <2>1, <2>2 DEF ChunkInv, ChunkSize
    <3>2. Len(chunk'[p]) = 0 /\ ChunkSize(p)' \in Nat
      <4>1. todo'[p] \in Seq(STRING) /\ Len(todo'[p]) \in Nat
        BY <2>4
      <4>. QED BY <2>2, <2>3, <4>1, SizeAssumption DEF ChunkInv, ChunkSize, Smaller
    <3>. QED BY <3>1, <3>2, SMTT(30) DEF ChunkInv
  <2>6. \A q \in Procs : chunk'[q] # <<>> => q # p /\ chunk'[q] = chunk[q] /\ pc'[q] = pc[q]
    BY <2>2 DEF ChunkInv, CountsOK
  <2>. QED BY <2>2, <2>4, <2>5, <2>6 DEF ChunkInv, OwnCommand
<1>6. ASSUME NEW p \in Procs, FetchFails(p) PROVE ChunkInv'
  <2>2. /\ pc' = [pc EXCEPT ![p] = "idle"] /\ chunk' = [chunk EXCEPT ![p] = <<>>]
        /\ todo' = [todo EXCEPT ![p] = <<>>] /\ UNCHANGED <<wbuf, rung, crossed>>
    BY <1>6 DEF FetchFails
  <2>3. <<>> \in Seq(STRING) /\ Len(<<>>) = 0
    OBVIOUS
  <2>4. todo' \in [Procs -> Seq(STRING)] /\ chunk' \in [Procs -> Seq(STRING)]
    BY <2>2, <2>3 DEF ChunkInv
  <2>5. \A q \in Procs : Len(chunk'[q]) <= ChunkSize(q)'
    <3>1. \A q \in Procs : q # p => chunk'[q] = chunk[q] /\ ChunkSize(q)' = ChunkSize(q)
      BY <2>2 DEF ChunkInv, ChunkSize
    <3>2. Len(chunk'[p]) = 0 /\ ChunkSize(p)' \in Nat
      <4>1. todo'[p] \in Seq(STRING) /\ Len(todo'[p]) \in Nat
        BY <2>4
      <4>. QED BY <2>2, <2>3, <4>1, SizeAssumption DEF ChunkInv, ChunkSize, Smaller
    <3>. QED BY <3>1, <3>2 DEF ChunkInv
  <2>6. \A q \in Procs : chunk'[q] # <<>> => q # p /\ chunk'[q] = chunk[q] /\ pc'[q] = pc[q]
    BY <2>2 DEF ChunkInv, CountsOK
  <2>. QED BY <2>2, <2>4, <2>5, <2>6 DEF ChunkInv, OwnCommand
<1>7. ASSUME NEW p \in Procs, Fetch(p) PROVE ChunkInv'
  <2> DEFINE i == Len(chunk[p]) + 1
             c == todo[p][i]
  <2>1. /\ pc[p] = "fetch" /\ i <= ChunkSize(p) /\ UNCHANGED <<pc, todo, rung>>
        /\ chunk' = [chunk EXCEPT ![p] = Append(@, c)]
        /\ wbuf' = [wbuf EXCEPT ![i] = c]
    <3>1. Len(chunk[p]) < ChunkSize(p) /\ Len(chunk[p]) \in Nat /\ ChunkSize(p) \in Nat
      BY <1>7, ChunkSizes DEF Fetch
    <3>2. i <= ChunkSize(p)
      BY <3>1
    <3>. QED BY <1>7, <3>2 DEF Fetch
  <2>2. ~crossed' => ~crossed /\ \A q \in Procs \ {p} : chunk[q] = <<>>
    BY <1>7 DEF Fetch, ChunkInv
  <2>3. i \in 1 .. Len(todo[p]) /\ i \in 1 .. PAGE_SIZE /\ c \in STRING
    BY <2>1, SizeAssumption DEF ChunkSize, Smaller, ChunkInv
  <2>4. /\ Append(chunk[p], c) \in Seq(STRING) /\ Len(Append(chunk[p], c)) = i
        /\ Append(chunk[p], c) # <<>> /\ Append(chunk[p], c)[i] = c
        /\ \A j \in 1 .. Len(chunk[p]) : Append(chunk[p], c)[j] = chunk[p][j]
    BY <2>3, AppendProperties DEF ChunkInv
  <2> HIDE DEF c
  <2>5. /\ todo' \in [Procs -> Seq(STRING)] /\ chunk' \in [Procs -> Seq(STRING)]
        /\ DOMAIN wbuf' = 1 .. PAGE_SIZE
    BY <2>1, <2>3, <2>4 DEF ChunkInv
  <2>6. \A q \in Procs : ChunkSize(q)' = ChunkSize(q)
    BY <2>1 DEF ChunkSize
  <2>7. \A q \in Procs : Len(chunk'[q]) <= ChunkSize(q) /\ (chunk'[q] # <<>> => pc'[q] = "fetch")
    BY <2>1, <2>4 DEF ChunkInv
  <2>8. ASSUME ~crossed', NEW q \in Procs, NEW j \in 1 .. Len(chunk'[q])
        PROVE  wbuf'[j] = chunk'[q][j]
    <3>1. CASE q # p
      BY <2>1, <2>2, <2>8, <3>1 DEF ChunkInv
    <3>2. CASE q = p
      <4>1. chunk'[q] = Append(chunk[p], c) /\ j \in 1 .. i
        BY <2>1, <2>4, <2>8, <3>2 DEF ChunkInv
      <4>2. CASE j = i
        BY <2>1, <2>3, <2>4, <4>1, <4>2 DEF ChunkInv
      <4>3. CASE j # i
        <5>1. j \in 1 .. Len(chunk[p]) /\ j \in 1 .. PAGE_SIZE
          <6>1. Len(chunk[p]) \in Nat
            BY ChunkSizes
          <6>2. j \in 1 .. Len(chunk[p]) + 1 /\ j # Len(chunk[p]) + 1
            BY <4>1, <4>3
          <6>3. j \in 1 .. Len(chunk[p])
            BY <6>1, <6>2
          <6>. QED BY <2>3, <6>1, <6>3, SizeAssumption
        <5>2. wbuf[j] = chunk[p][j]
          BY <2>2, <2>8, <5>1 DEF ChunkInv
        <5>. QED BY <2>1, <2>4, <4>1, <4>3, <5>1, <5>2 DEF ChunkInv
      <4>. QED BY <4>2, <4>3
    <3>. QED BY <3>1, <3>2
  <2>9. ASSUME ~crossed', NEW q \in Procs, NEW r \in Procs, chunk'[q] # <<>>, chunk'[r] # <<>>
        PROVE  q = r
    BY <2>1, <2>2, <2>9 DEF ChunkInv
  <2>10. OwnCommand'
    BY <2>1, <2>2 DEF OwnCommand, ChunkInv
  <2>. QED BY <2>5, <2>6, <2>7, <2>8, <2>9, <2>10 DEF ChunkInv
<1>8. ASSUME NEW p \in Procs, isecons_write(p) PROVE ChunkInv'
  <2> DEFINE n == ChunkSize(p)
  <2>1. /\ todo' = [todo EXCEPT ![p] = SubSeq(@, n + 1, Len(@))]
        /\ chunk' = [chunk EXCEPT ![p] = <<>>]
        /\ UNCHANGED <<pc, wbuf, crossed>>
    BY <1>8 DEF isecons_write
  <2>2. OwnCommand'
    BY <1>8, WriteOwn
  <2>3. n \in 0 .. Len(todo[p]) /\ Len(todo[p]) \in Nat
    BY SizeAssumption DEF ChunkSize, Smaller, ChunkInv
  <2>4. SubSeq(todo[p], n + 1, Len(todo[p])) \in Seq(STRING)
    <3>1. \A j \in n + 1 .. Len(todo[p]) : todo[p][j] \in STRING
      BY <2>3 DEF ChunkInv
    <3> HIDE DEF n
    <3>. QED BY <2>3, <3>1, SubSeqProperties
  <2> HIDE DEF n
  <2>5. <<>> \in Seq(STRING) /\ Len(<<>>) = 0
    OBVIOUS
  <2>6. \A q \in Procs : Len(chunk'[q]) <= ChunkSize(q)' /\ (chunk'[q] # <<>> => pc'[q] = "fetch")
    <3>1. ASSUME NEW q \in Procs, q # p PROVE ChunkSize(q)' = ChunkSize(q)
      BY <2>1, <3>1 DEF ChunkSize, ChunkInv
    <3>2. ChunkSize(p)' \in Nat
      BY <2>1, <2>4, SizeAssumption DEF ChunkSize, Smaller, ChunkInv
    <3>. QED BY <2>1, <2>5, <3>1, <3>2 DEF ChunkInv
  <2>7. todo' \in [Procs -> Seq(STRING)] /\ chunk' \in [Procs -> Seq(STRING)]
    BY <2>1, <2>4, <2>5 DEF ChunkInv
  <2>. QED BY <2>1, <2>2, <2>5, <2>6, <2>7 DEF ChunkInv
<1>. QED
  BY <1>2, <1>3, <1>4, <1>5, <1>6, <1>7, <1>8 DEF Next, Step

-----------------------------------------------------------------------------
LEMMA InitText == Init => TextInv /\ ChunkInv
<1>1. SUFFICES ASSUME Init PROVE TextInv /\ ChunkInv
  OBVIOUS
<1>2. InFlight = {} /\ InRing = {} /\ Text(got) = {} /\ Copying = {} /\ Gone = 0
  BY <1>1 DEF Init, InFlight, InRing, Text, Copying, Gone
<1>3. Cardinality({}) = 0
  BY FS_EmptySet
<1>4. EachCharacterOnce
  BY <1>1, <1>2, <1>3 DEF Init, EachCharacterOnce
<1>5. GotInv /\ CopyInv
  BY <1>1, <1>2 DEF Init, GotInv, CopyInv
<1>6. ChunkInv
  <2>1. /\ todo \in [Procs -> Seq(STRING)] /\ chunk \in [Procs -> Seq(STRING)]
        /\ DOMAIN wbuf = 1 .. PAGE_SIZE
    <3>1. <<>> \in Seq(STRING)
      OBVIOUS
    <3>2. todo = [p \in Procs |-> <<>>] /\ chunk = [p \in Procs |-> <<>>]
      BY <1>1 DEF Init
    <3>3. wbuf = [i \in 1 .. PAGE_SIZE |-> "text"]
      BY <1>1 DEF Init
    <3>4. todo \in [Procs -> Seq(STRING)] /\ chunk \in [Procs -> Seq(STRING)]
      BY <3>1, <3>2
    <3>. QED BY <3>3, <3>4
  <2>2. \A p \in Procs : chunk[p] = <<>> /\ Len(chunk[p]) = 0 /\ Len(chunk[p]) <= ChunkSize(p)
    BY <1>1, SizeAssumption DEF Init, ChunkSize, Smaller
  <2>3. rung[1] = rung[2]
    BY <1>1 DEF Init
  <2>4. \A p \in Procs : \A i \in 1 .. Len(chunk[p]) : wbuf[i] = chunk[p][i]
    BY <2>2
  <2>. QED BY <2>1, <2>2, <2>3, <2>4 DEF ChunkInv, OwnCommand
<1>. QED BY <1>4, <1>5, <1>6 DEF TextInv

\* Unless two processes were in the static buffers at once, every character of
\* the log is in exactly one place, users have theirs in order, and the command
\* that is run is the one that its process wrote: for every size of the ring and of the
\* buffers, whatever is logged, read and written.
THEOREM TextKept == Spec => []OwnText
<1> DEFINE Inv == RingType /\ NewestText /\ CountsOK /\ TextInv /\ ChunkInv
<1>1. Init => Inv
  BY InitRing, InitText
<1>2. Inv /\ [Next]_vars => Inv'
  BY StepRing, StepCounts, StepText, StepChunks
<1>3. Inv => OwnText
  BY DEF OwnText, TextInv, ChunkInv
<1>. QED
  BY <1>1, <1>2, <1>3, PTL DEF Spec

\* Indices and counts stay in their ranges, and no piece is longer than the
\* static buffer it is in.
THEOREM TypesKept == Spec => []TypeOK
<1> DEFINE EofOK == eof \in [Procs -> BOOLEAN]
           Inv == RingType /\ NewestText /\ CountsOK /\ ChunkInv /\ EofOK
<1>1. Init => Inv
  <2>1. Init => EofOK
    BY DEF Init
  <2>. QED BY <2>1, InitRing, InitText
<1>2. Inv /\ [Next]_vars => Inv'
  <2>1. SUFFICES ASSUME EofOK, [Next]_vars PROVE EofOK'
    BY StepRing, StepCounts, StepChunks
  <2>2. ASSUME NEW p \in Procs, isecons_read(p) PROVE EofOK'
    <3>1. PICK b \in BOOLEAN : eof' = [eof EXCEPT ![p] = b]
      BY <2>2 DEF isecons_read, End
    <3>. QED BY <2>1, <3>1
  <2>3. ASSUME NEW p \in Procs, Read(p) \/ CopyOutFails(p) \/ ReadReturns(p) PROVE EofOK'
    <3>1. eof' = [eof EXCEPT ![p] = FALSE]
      BY <2>3 DEF Read, CopyOutFails, ReadReturns, ReadDone
    <3>. QED BY <2>1, <3>1
  <2>4. ASSUME NEW p \in Procs,
               \/ CopyOut(p) \/ isecons_write(p)
               \/ Write(p) \/ Fetch(p) \/ FetchFails(p) \/ WriteReturns(p)
        PROVE  EofOK'
    <3>1. eof' = eof
      BY <2>4 DEF CopyOut, isecons_write, Write, Fetch, FetchFails, WriteReturns, readVars
    <3>. QED BY <2>1, <3>1
  <2>5. CASE UNCHANGED vars \/ DriverLogs
    BY <2>1, <2>5 DEF vars, readVars, DriverLogs
  <2>. QED BY <2>1, <2>2, <2>3, <2>4, <2>5 DEF Next, Step
<1>3. Inv => TypeOK
  <2>1. SUFFICES ASSUME Inv PROVE TypeOK
    OBVIOUS
  <2>2. \A p \in Procs : Len(chunk[p]) <= PAGE_SIZE
    <3>1. ASSUME NEW p \in Procs PROVE Len(chunk[p]) <= PAGE_SIZE
      <4>1. Len(chunk[p]) \in Nat /\ ChunkSize(p) \in Nat /\ ChunkSize(p) <= PAGE_SIZE
        BY <2>1, ChunkSizes
      <4>2. Len(chunk[p]) <= ChunkSize(p)
        BY <2>1 DEF ChunkInv
      <4>. QED BY <4>1, <4>2, SizeAssumption
    <3>. QED BY <3>1
  <2>3. rc \in [Procs -> 0 .. PAGE_SIZE]
    BY <2>1, SizeAssumption DEF CountsOK
  <2>. QED BY <2>1, <2>2, <2>3 DEF TypeOK, CountsOK
<1>. QED
  BY <1>1, <1>2, <1>3, PTL DEF Spec
=============================================================================
