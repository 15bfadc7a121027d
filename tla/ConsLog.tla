------------------------------ MODULE ConsLog ------------------------------
(***************************************************************************)
(* The console of the driver, /proc/driver/isecons                         *)
(* (sys-linux2.4/isecons.c): a ring of text that the driver logs into,     *)
(* that processes read and empty, and that takes commands.                 *)
(*                                                                         *)
(* The characters of the log are numbered in the order in which they were  *)
(* logged, so a place in the ring tells which character it holds.  A       *)
(* function of the driver that does not sleep is one step: isecons_log,    *)
(* isecons_read, isecons_write.  Between two of them a process copies      *)
(* text to or from its user, and sleeps when a page of the user is not     *)
(* there.  The buffers it copies from and to are static: all processes     *)
(* share them.                                                             *)
(***************************************************************************)
EXTENDS Naturals, Sequences, FiniteSets

CONSTANTS
  LOG_BUF_SIZE, \* size of the ring
  PAGE_SIZE,    \* size of the static buffers
  Procs,        \* processes with the console open
  Counts,       \* what they ask for in a read
  Inputs,       \* what they write: sequences of "text" and commands
  LogSizes,     \* lengths of messages of the driver
  MaxText       \* bound: no call starts that logs beyond it

ASSUME SizeAssumption ==
  /\ LOG_BUF_SIZE \in Nat \ {0}
  /\ PAGE_SIZE \in Nat \ {0}
  /\ LogSizes \subseteq Nat
  /\ Counts \subseteq Nat
  /\ Inputs \subseteq Seq(STRING)
  /\ MaxText \in Nat

VARIABLES
  log_buf, ptr, fill, \* the ring
  logged,             \* characters logged so far: the next one is logged + 1
  pc,                 \* "idle", "read", "copy", "fetch"
  count, eof, rc,     \* of consread: still wanted, end reached, taken now
  rbuf,               \* static buffer of consread
  todo, chunk, wbuf,  \* of conswrite: to do, cells of the chunk, static buffer
  rung,               \* the last command that was meant, and that was run
  got,                \* text that reached the users, in the order it did
  dropped, faulted,   \* characters lost by overflow, by failed copies
  crossed             \* a static buffer was filled while another used it

ringVars  == <<log_buf, ptr, fill, logged, dropped>>
readVars  == <<count, eof, rc, rbuf, got, faulted>>
writeVars == <<todo, chunk, wbuf, rung>>
vars == <<ringVars, pc, readVars, writeVars, crossed>>

Smaller(a, b) == IF a < b THEN a ELSE b
Places == 0 .. LOG_BUF_SIZE - 1
Wrapped(i) == i % LOG_BUF_SIZE

-----------------------------------------------------------------------------
(* isecons_log *)

\* Wrong: the copy does not wrap.
PieceToEnd(cur, n) == n

\* "Watch for wrapping"
Piece(cur, n) == IF cur + n > LOG_BUF_SIZE THEN LOG_BUF_SIZE - cur ELSE n

\* The copy of the last n of the characters up to `last` behind the text that
\* is there: at most two pieces.
Copied(n, start, last) ==
  LET cur   == Wrapped(start)
      first == Piece(cur, n)
  IN  [i \in Places |->
         IF cur <= i /\ i < cur + first THEN last - n + 1 + (i - cur)
         ELSE IF i < n - first THEN last - n + first + 1 + i
         ELSE log_buf[i]]

\* What has to go from the front of the text for n characters to fit.
Removed(n) == IF fill + n > LOG_BUF_SIZE THEN fill + n - LOG_BUF_SIZE ELSE 0

isecons_log(ndata) ==
  LET n      == Smaller(ndata, LOG_BUF_SIZE)
      remove == Removed(n)
      front  == IF remove = 0 THEN ptr ELSE Wrapped(ptr + remove)
  IN  /\ logged' = logged + ndata
      /\ log_buf' = Copied(n, front + (fill - remove), logged + ndata)
      /\ ptr' = front
      /\ fill' = (fill - remove) + n
      /\ dropped' = dropped \cup (logged + 1 - fill .. logged - fill + remove)
                            \cup (logged + 1 .. logged + ndata - n)

\* Any function of the driver.
DriverLogs ==
  /\ \E n \in LogSizes : logged + n <= MaxText /\ isecons_log(n)
  /\ UNCHANGED <<pc, readVars, writeVars, crossed>>

-----------------------------------------------------------------------------
(* consread *)

Read(p) ==
  /\ pc[p] = "idle"
  /\ pc' = [pc EXCEPT ![p] = "read"]
  /\ \E n \in Counts : count' = [count EXCEPT ![p] = n]
  /\ eof' = [eof EXCEPT ![p] = FALSE]
  /\ UNCHANGED <<ringVars, rc, rbuf, got, faulted, writeVars, crossed>>

\* As much as was asked for and is there, up to the end of the ring.
Trans(n) == Smaller(Smaller(n, fill), LOG_BUF_SIZE - ptr)

\* *eof
End(n) == fill = n

\* One isecons_read of the loop of consread.
isecons_read(p) ==
  /\ pc[p] = "read" /\ count[p] > 0 /\ ~eof[p]
  /\ LET n == Trans(Smaller(count[p], PAGE_SIZE))
     IN  /\ rbuf' = [i \in 1 .. PAGE_SIZE |->
                       IF i <= n THEN log_buf[Wrapped(ptr + i - 1)] ELSE rbuf[i]]
         /\ ptr' = IF ptr + n = LOG_BUF_SIZE THEN 0 ELSE ptr + n
         /\ fill' = fill - n
         /\ eof' = [eof EXCEPT ![p] = End(n)]
         /\ rc' = [rc EXCEPT ![p] = n]
         /\ pc' = [pc EXCEPT ![p] = IF n > 0 THEN "copy" ELSE "read"]
         /\ crossed' = (crossed \/ (n > 0 /\ \E q \in Procs : pc[q] = "copy"))
  /\ UNCHANGED <<log_buf, logged, dropped, count, got, faulted, writeVars>>

\* The variables of consread are gone.
ReadDone(p) ==
  /\ pc' = [pc EXCEPT ![p] = "idle"]
  /\ count' = [count EXCEPT ![p] = 0]
  /\ eof' = [eof EXCEPT ![p] = FALSE]
  /\ rc' = [rc EXCEPT ![p] = 0]

\* Wrong: copies what was asked for.
CopyOutAsked(p) ==
  /\ pc[p] = "copy"
  /\ got' = got \o SubSeq(rbuf, 1, Smaller(count[p], PAGE_SIZE))
  /\ count' = [count EXCEPT ![p] = @ - rc[p]]
  /\ rc' = [rc EXCEPT ![p] = 0]
  /\ pc' = [pc EXCEPT ![p] = "read"]
  /\ UNCHANGED <<ringVars, eof, rbuf, faulted, writeVars, crossed>>

\* copy_to_user
CopyOut(p) ==
  /\ pc[p] = "copy"
  /\ got' = got \o SubSeq(rbuf, 1, rc[p])
  /\ count' = [count EXCEPT ![p] = @ - rc[p]]
  /\ rc' = [rc EXCEPT ![p] = 0]
  /\ pc' = [pc EXCEPT ![p] = "read"]
  /\ UNCHANGED <<ringVars, eof, rbuf, faulted, writeVars, crossed>>

\* -EFAULT: what isecons_read took is gone.
CopyOutFails(p) ==
  /\ pc[p] = "copy"
  /\ faulted' = faulted \cup {rbuf[i] : i \in 1 .. rc[p]}
  /\ ReadDone(p)
  /\ UNCHANGED <<ringVars, rbuf, got, writeVars, crossed>>

ReadReturns(p) ==
  /\ pc[p] = "read" /\ (count[p] = 0 \/ eof[p])
  /\ ReadDone(p)
  /\ UNCHANGED <<ringVars, rbuf, got, faulted, writeVars, crossed>>

-----------------------------------------------------------------------------
(* conswrite.  A cell of a write is a command, or text without one.         *)

Write(p) ==
  /\ pc[p] = "idle" /\ logged < MaxText
  /\ pc' = [pc EXCEPT ![p] = "fetch"]
  /\ \E s \in Inputs : todo' = [todo EXCEPT ![p] = s]
  /\ chunk' = [chunk EXCEPT ![p] = <<>>]
  /\ UNCHANGED <<ringVars, readVars, wbuf, rung, crossed>>

ChunkSize(p) == Smaller(Len(todo[p]), PAGE_SIZE)

\* copy_from_user may sleep before any cell.
Fetch(p) ==
  /\ pc[p] = "fetch" /\ Len(chunk[p]) < ChunkSize(p)
  /\ LET i == Len(chunk[p]) + 1
     IN  /\ chunk' = [chunk EXCEPT ![p] = Append(@, todo[p][i])]
         /\ wbuf' = [wbuf EXCEPT ![i] = todo[p][i]]
  /\ crossed' = (crossed \/ \E q \in Procs \ {p} : pc[q] = "fetch" /\ chunk[q] # <<>>)
  /\ UNCHANGED <<ringVars, pc, readVars, todo, rung>>

FetchFails(p) ==
  /\ pc[p] = "fetch" /\ Len(chunk[p]) < ChunkSize(p)
  /\ pc' = [pc EXCEPT ![p] = "idle"]
  /\ todo' = [todo EXCEPT ![p] = <<>>]
  /\ chunk' = [chunk EXCEPT ![p] = <<>>]
  /\ UNCHANGED <<ringVars, readVars, wbuf, rung, crossed>>

\* The first command of n cells of s.
First(s, n) ==
  LET at == {i \in 1 .. n : s[i] # "text"}
  IN  IF at = {} THEN "text" ELSE s[CHOOSE i \in at : \A j \in at : i <= j]

\* "Look in the string for the beginning of the next command."
Command(n) == First(wbuf, n)

\* One isecons_write of the loop of conswrite: one command, the rest of the
\* chunk is skipped.  "<bell0>" and "<dump-root>" log what they do; for the
\* second there must be a board.
isecons_write(p) ==
  /\ pc[p] = "fetch" /\ todo[p] # <<>> /\ Len(chunk[p]) = ChunkSize(p)
  /\ LET n == ChunkSize(p) IN
     /\ IF Command(n) # "text" THEN isecons_log(1) ELSE UNCHANGED ringVars
     /\ rung' = <<First(chunk[p], n), Command(n)>>
     /\ todo' = [todo EXCEPT ![p] = SubSeq(@, n + 1, Len(@))]
  /\ chunk' = [chunk EXCEPT ![p] = <<>>]
  /\ UNCHANGED <<pc, readVars, wbuf, crossed>>

WriteReturns(p) ==
  /\ pc[p] = "fetch" /\ todo[p] = <<>>
  /\ pc' = [pc EXCEPT ![p] = "idle"]
  /\ UNCHANGED <<ringVars, readVars, writeVars, crossed>>

-----------------------------------------------------------------------------
\* isecons_init
Init ==
  /\ log_buf = [i \in Places |-> 0] /\ ptr = 0 /\ fill = 0
  /\ logged = 0 /\ dropped = {}
  /\ pc = [p \in Procs |-> "idle"]
  /\ count = [p \in Procs |-> 0] /\ eof = [p \in Procs |-> FALSE] /\ rc = [p \in Procs |-> 0]
  /\ rbuf = [i \in 1 .. PAGE_SIZE |-> 0]
  /\ got = <<>> /\ faulted = {}
  /\ todo = [p \in Procs |-> <<>>] /\ chunk = [p \in Procs |-> <<>>]
  /\ wbuf = [i \in 1 .. PAGE_SIZE |-> "text"]
  /\ rung = <<"text", "text">>
  /\ crossed = FALSE

Step(p) ==
  \/ isecons_read(p) \/ CopyOut(p) \/ CopyOutFails(p) \/ ReadReturns(p)
  \/ Fetch(p) \/ FetchFails(p) \/ isecons_write(p) \/ WriteReturns(p)

Next ==
  \/ \E p \in Procs : Read(p) \/ Write(p) \/ Step(p)
  \/ DriverLogs

Spec == Init /\ [][Next]_vars

-----------------------------------------------------------------------------
RingType ==
  /\ log_buf \in [Places -> Nat]
  /\ ptr \in Places /\ fill \in 0 .. LOG_BUF_SIZE
  /\ logged \in Nat /\ fill <= logged

TypeOK ==
  /\ RingType
  /\ pc \in [Procs -> {"idle", "read", "copy", "fetch"}]
  /\ count \in [Procs -> Nat] /\ eof \in [Procs -> BOOLEAN]
  /\ rc \in [Procs -> 0 .. PAGE_SIZE] /\ rbuf \in [1 .. PAGE_SIZE -> Nat]
  /\ \A p \in Procs : Len(chunk[p]) <= PAGE_SIZE

\* The ring holds the newest text, in order, whatever was logged and read.
NewestText ==
  \A i \in 0 .. fill - 1 : log_buf[Wrapped(ptr + i)] = logged - fill + 1 + i

Text(s) == {s[i] : i \in DOMAIN s}
InFlight == UNION {{rbuf[i] : i \in 1 .. rc[p]} : p \in {q \in Procs : pc[q] = "copy"}}
InRing == logged - fill + 1 .. logged

\* While no read fills the static buffer before another has copied it, the text that users read is
\* in order, and each character is in exactly one place: with a user, on its
\* way to one, in the ring, pushed out of it, or lost by a failed copy.
EachCharacterOnce ==
  ~crossed =>
    /\ \A i, j \in DOMAIN got : i < j => got[i] < got[j]
    /\ 1 .. logged = Text(got) \cup InFlight \cup InRing \cup dropped \cup faulted
    /\ logged = Len(got) + Cardinality(InFlight) + fill + Cardinality(dropped)
                  + Cardinality(faulted)

\* While no write fills the static buffer amid the chunk of another, the command that is run is
\* the first of the chunk its process wrote.
OwnCommand == ~crossed => rung[1] = rung[2]

\* Between a process and the log nothing is lost, repeated or mixed up, unless
\* two processes use the static buffers at once.
OwnText == EachCharacterOnce /\ OwnCommand

=============================================================================
