----------------------------- MODULE UcrChannel -----------------------------
(***************************************************************************)
(* One open channel: ucr_read, ucr_write and the ioctls that move data     *)
(* (sys-linux2.4/ucr.c), with the target on the other side of the rings.   *)
(*                                                                         *)
(* The channel table holds two rings of buffers.  The driver fills the     *)
(* buffer at next_out_idx and publishes it by moving the index; the board  *)
(* consumes at first_out_idx.  The board fills and publishes at            *)
(* next_in_idx; the driver consumes at first_in_idx.  A buffer of length 0 *)
(* in the output ring is a file mark.                                      *)
(*                                                                         *)
(* An action of a thread is the choice of what to copy from or to user     *)
(* space, the end of that copy, one test of a ring with what follows it,   *)
(* or one step of a wait.  Several threads may use the file at the same    *)
(* time (a process with threads, or one that forked): read and write take  *)
(* no lock and a copy may sleep, so their actions interleave.              *)
(*                                                                         *)
(* A wait for a ring tests first and marks itself asleep afterwards: a     *)
(* change between the two wakes nobody.  The board's change and its bell   *)
(* are one step here, with the bells unmasked; UcrWait has the steps of    *)
(* the interrupt and the mask, and the waits of sync_channel and           *)
(* root_to_board, which test while they are marked.  The root table is the *)
(* subject of UcrRoot: here a channel switch is the moment the board takes *)
(* the new number.                                                         *)
(***************************************************************************)
EXTENDS Naturals, Sequences

CONSTANTS
  Threads,   \* threads that use the file
  Calls,     \* the calls they make
  NOut, NIn, \* CHANNEL_OBUFS, CHANNEL_IBUFS
  PageSize,  \* bytes in a buffer
  MaxWrite,  \* bytes in one ucr_write or ucr_read
  MaxSent,   \* bound on the bytes and marks sent
  MaxMade,   \* bound on the bytes the board makes
  ChanIds,   \* channel numbers, 0 among them
  Signals    \* may signals arrive?

AllCalls == {"write", "read", "poll", "flush", "sync", "mark", "channel", "close",
             "timeout", "force"}

Timeouts == {"off", "zero", "set"}

ASSUME ConstantsAssumption ==
  /\ Calls \subseteq AllCalls
  /\ NOut \in Nat /\ NOut > 1 /\ NIn \in Nat /\ NIn > 1
  /\ PageSize \in Nat \ {0} /\ MaxWrite \in Nat \ {0}
  /\ MaxSent \in Nat /\ MaxMade \in Nat
  /\ 0 \in ChanIds
  /\ Signals \in BOOLEAN

VARIABLES
  \* the channel table, shared with the board
  first_out_idx, next_out_idx, first_in_idx, next_in_idx,
  out_count, in_count,      \* ring index -> count
  out_page, in_page,        \* ring index -> contents of the buffer
  \* struct ChannelData
  channel, out_off, in_off,
  read_timeout,             \* "off" (-1), "zero" (0) or "set" (more)
  read_timing, read_timeout_flag,
  \* the threads
  pc, call, left, target, got, signal,
  round,  \* idx, buf + offset, siz and trans of the round of its loop
  nap,    \* in a wait for a ring: "test", "gap" before set_current_state, or "asleep"
  \* the board
  boardChan,                \* number the board knows the channel by
  made,                     \* bytes the board has made
  \* history
  sent,                     \* bytes and marks the process has sent
  taken,                    \* bytes and marks the board has taken
  received,                 \* bytes the process has read
  forced                    \* threads whose blocked read was forced to time out

outVars   == <<first_out_idx, next_out_idx, out_count, out_page, out_off>>
inVars    == <<first_in_idx, next_in_idx, in_count, in_page, in_off, made>>
timeVars  == <<read_timeout, read_timing, read_timeout_flag>>
callVars  == <<pc, call, left, target, got, signal, round, forced>>
threadVars == <<callVars, nap>>
chanVars  == <<channel, boardChan>>
histVars  == <<sent, taken, received>>
vars == <<outVars, inVars, timeVars, threadVars, chanVars, histVars>>

Mark == <<"mark">>
Junk == <<"junk">>
\* Wrong: the ring does not wrap.
NextOutUnwrapped(i) == i + 1

NextOut(i) == (i + 1) % NOut
NextIn(i)  == (i + 1) % NIn

\* Wrong: full is tested without the wrap, or mistaken at the end of the ring.
OutFullUnwrapped == next_out_idx + 1 = first_out_idx
OutFullAtEnd == NextOut(next_out_idx) \in {first_out_idx, 0}

OutFull == NextOut(next_out_idx) = first_out_idx
InEmpty == first_in_idx = next_in_idx

\* What is copied of n bytes between an offset and the end of a buffer.  Behind
\* the end the unsigned difference wraps, and the copy runs through the memory.
Fitting(n, off, siz) == IF off > siz THEN 0 ELSE IF n < siz - off THEN n ELSE siz - off
Round(n, idx, off, siz) == [idx |-> idx, off |-> off, siz |-> siz, n |-> Fitting(n, off, siz)]

Idle == \A t \in Threads : pc[t] = "idle"

-----------------------------------------------------------------------------
(* A call starts, goes on at another place, or returns.                    *)

Start(t, what, at, n, c) ==
  /\ what \in Calls
  /\ pc[t] = "idle"
  /\ pc' = [pc EXCEPT ![t] = at]
  /\ call' = [call EXCEPT ![t] = what]
  /\ left' = [left EXCEPT ![t] = n]
  /\ target' = [target EXCEPT ![t] = c]
  /\ got' = [got EXCEPT ![t] = 0]
  /\ UNCHANGED <<signal, round, nap, forced>>

Goto(t, at) ==
  /\ pc' = [pc EXCEPT ![t] = at]
  /\ UNCHANGED <<call, left, target, got, signal, round, nap, forced>>

\* Back to user space, where a pending signal is delivered.
Return(t) ==
  /\ pc' = [pc EXCEPT ![t] = "idle"]
  /\ signal' = [signal EXCEPT ![t] = FALSE]
  /\ forced' = forced \ {t}
  /\ UNCHANGED <<call, left, target, got, round, nap>>

\* Wrong: what comes after a flush is done without it.
SkipFlush(t, at) == at

\* flush_channel returns 0 at once when there is nothing to flush.
FlushOr(t, at) == IF out_off = 0 THEN at ELSE "flush"

\* Where a call goes when its flush_channel, sync_channel or the wait for a
\* file mark's buffer ends.  Only ucr_read, ucr_write and UCR_FLUSH look at an
\* error: do_sync and file_mark_channel test for -EINTR but flush_channel
\* returns -ERESTARTSYS, and UCR_CHANNEL tests nothing.
AfterFlush(t, ok) ==
  CASE call[t] = "write" -> IF ok /\ left[t] > 0 THEN "copy" ELSE "idle"
    [] call[t] = "read" -> IF ok THEN "arm" ELSE "idle"
    [] call[t] = "flush" -> "idle"
    [] call[t] \in {"sync", "channel"} -> "sync"
    [] call[t] = "mark" -> "mark"

Continue(t, at) == IF at = "idle" THEN Return(t) ELSE Goto(t, at)

-----------------------------------------------------------------------------
(* ucr_write *)

Write(t, n) ==
  /\ Len(sent) + n <= MaxSent
  /\ Start(t, "write", "copy", n, channel)
  /\ UNCHANGED <<outVars, inVars, timeVars, chanVars, histVars>>

\* A round of the loop chooses the place and what fits in it; copy_from_user
\* may sleep.
Copy(t) ==
  LET siz == out_count[next_out_idx]
  IN
  /\ pc[t] = "copy"
  /\ round' = [round EXCEPT ![t] = Round(left[t], next_out_idx, out_off, siz)]
  /\ pc' = [pc EXCEPT ![t] = IF out_off > siz THEN "wild" ELSE "copying"]
  /\ UNCHANGED <<outVars, inVars, timeVars, chanVars, histVars,
                 call, left, target, got, signal, nap, forced>>

\* The copy has ended: the offset moves, and a full buffer is flushed.
Copied(t) ==
  LET r == round[t]
      bytes == [k \in 1..r.n |-> <<channel, Len(sent) + k>>]
      off == out_off + r.n
      at == CASE off = out_count[r.idx] -> "flush"
              [] off # out_count[r.idx] /\ left[t] > r.n -> "copy"
              [] OTHER -> "idle"
  IN
  /\ pc[t] = "copying"
  /\ out_page' = [out_page EXCEPT ![r.idx] =
                    [k \in 1..PageSize |-> IF k \in (r.off + 1)..(r.off + r.n)
                                           THEN bytes[k - r.off] ELSE @[k]]]
  /\ out_off' = off
  /\ sent' = sent \o bytes
  /\ left' = [left EXCEPT ![t] = @ - r.n]
  /\ pc' = [pc EXCEPT ![t] = at]
  /\ signal' = [signal EXCEPT ![t] = @ /\ at # "idle"]
  /\ UNCHANGED <<first_out_idx, next_out_idx, out_count, inVars, timeVars, chanVars,
                 call, target, got, round, nap, forced, taken, received>>

-----------------------------------------------------------------------------
(* wait_for_write_ring and wait_for_read_data                              *)

WaitPlaces == {"flushWait", "markWait", "await"}

\* What keeps a thread in its loop, besides the lack of a signal.
Waits(t) == IF pc[t] = "await" THEN InEmpty /\ ~read_timeout_flag ELSE OutFull

\* The test of the loop fails.
Doze(t) ==
  /\ pc[t] \in WaitPlaces
  /\ nap[t] = "test"
  /\ Waits(t) /\ ~signal[t]
  /\ nap' = [nap EXCEPT ![t] = "gap"]
  /\ UNCHANGED <<callVars, outVars, inVars, timeVars, chanVars, histVars>>

\* set_current_state and schedule, which keeps a thread with a signal running.
FallAsleep(t) ==
  /\ nap[t] = "gap"
  /\ nap' = [nap EXCEPT ![t] = IF signal[t] THEN "test" ELSE "asleep"]
  /\ UNCHANGED <<callVars, outVars, inVars, timeVars, chanVars, histVars>>

\* wake_up(&xsp->dispatch_sync)
WakeUp == nap' = [t \in Threads |-> IF nap[t] = "asleep" THEN "test" ELSE nap[t]]

-----------------------------------------------------------------------------
(* What flush_channel and file_mark_channel do after the wait.  Without a  *)
(* wait a pending signal goes unnoticed; after one it wins over room in    *)
(* the ring.                                                               *)

\* Wrong: the offset is not reset.
PublishKeepsOffset(n) ==
  /\ out_count' = [out_count EXCEPT ![next_out_idx] = n,
                                    ![NextOut(next_out_idx)] = PageSize]
  /\ next_out_idx' = NextOut(next_out_idx)
  /\ UNCHANGED <<out_off, first_out_idx, out_page>>

\* Publish the current buffer with count n and go on to the next.
Publish(n) ==
  /\ out_count' = [out_count EXCEPT ![next_out_idx] = n,
                                    ![NextOut(next_out_idx)] = PageSize]
  /\ next_out_idx' = NextOut(next_out_idx)
  /\ out_off' = 0
  /\ UNCHANGED <<first_out_idx, out_page>>

RingSleep(t) ==
  /\ pc[t] \in {"flush", "mark"}
  /\ OutFull
  /\ Goto(t, IF pc[t] = "flush" THEN "flushWait" ELSE "markWait")
  /\ UNCHANGED <<outVars, inVars, timeVars, chanVars, histVars>>

Flush(t) ==
  /\ \/ pc[t] = "flush"
     \/ pc[t] = "flushWait" /\ nap[t] = "test" /\ ~signal[t]
  /\ ~OutFull
  /\ Publish(out_off)
  /\ Continue(t, AfterFlush(t, TRUE))
  /\ UNCHANGED <<inVars, timeVars, chanVars, histVars>>

PutMark(t) ==
  /\ \/ pc[t] = "mark"
     \/ pc[t] = "markWait" /\ nap[t] = "test" /\ ~signal[t]
  /\ ~OutFull
  /\ Publish(0)
  /\ sent' = Append(sent, Mark)
  /\ Return(t)
  /\ UNCHANGED <<inVars, timeVars, chanVars, taken, received>>

Interrupted(t) ==
  /\ signal[t] /\ nap[t] = "test"
  /\ \/ pc[t] = "flushWait" /\ Continue(t, AfterFlush(t, FALSE))
     \/ pc[t] = "markWait" /\ Return(t)
  /\ UNCHANGED <<outVars, inVars, timeVars, chanVars, histVars>>

-----------------------------------------------------------------------------
(* The ioctls *)

FlushCall(t) ==
  /\ out_off # 0
  /\ Start(t, "flush", "flush", 0, channel)
  /\ UNCHANGED <<outVars, inVars, timeVars, chanVars, histVars>>

SyncCall(t) ==
  /\ Start(t, "sync", FlushOr(t, "sync"), 0, channel)
  /\ UNCHANGED <<outVars, inVars, timeVars, chanVars, histVars>>

MarkCall(t) ==
  /\ Len(sent) < MaxSent
  /\ Start(t, "mark", FlushOr(t, "mark"), 0, channel)
  /\ UNCHANGED <<outVars, inVars, timeVars, chanVars, histVars>>

ChannelCall(t, c) ==
  /\ c # channel
  /\ Start(t, "channel", FlushOr(t, "sync"), 0, c)
  /\ UNCHANGED <<outVars, inVars, timeVars, chanVars, histVars>>

\* sync_channel: the board has consumed the ring, or a signal is pending.
SyncDone(t) ==
  /\ pc[t] = "sync"
  /\ first_out_idx = next_out_idx \/ signal[t]
  /\ IF call[t] = "channel"
       THEN Goto(t, "swap") /\ channel' = target[t] /\ UNCHANGED boardChan
       ELSE Return(t) /\ UNCHANGED chanVars
  /\ UNCHANGED <<outVars, inVars, timeVars, histVars>>

\* root_to_board in switch_channel returns: the board has the new table.
SwitchDone(t) ==
  /\ pc[t] = "swap"
  /\ boardChan = channel
  /\ Return(t)
  /\ UNCHANGED <<outVars, inVars, timeVars, chanVars, histVars>>

-----------------------------------------------------------------------------
(* ucr_read; "poll" is a read of a file in non-blocking mode               *)

Read(t, what, n) ==
  /\ what \in {"read", "poll"}
  /\ Start(t, what, "fetch", n, channel)
  /\ UNCHANGED <<outVars, inVars, timeVars, chanVars, histVars>>

\* Nothing (more) to read.
FetchNone(t) ==
  /\ pc[t] = "fetch"
  /\ InEmpty
  /\ IF got[t] > 0 \/ call[t] = "poll" THEN Return(t) ELSE Goto(t, FlushOr(t, "arm"))
  /\ UNCHANGED <<outVars, inVars, timeVars, chanVars, histVars>>

\* Wrong: the offset into the next buffer is not reset.
UseKeepsOffset(siz, n) ==
  /\ in_off' = in_off + n
  /\ IF in_off + n = siz
       THEN /\ in_count' = [in_count EXCEPT ![first_in_idx] = PageSize]
            /\ first_in_idx' = NextIn(first_in_idx)
       ELSE UNCHANGED <<in_count, first_in_idx>>

\* n more bytes of the first buffer are read; a buffer that is used up goes
\* back to the board.
Use(siz, n) ==
  IF in_off + n = siz
    THEN /\ in_off' = 0
         /\ in_count' = [in_count EXCEPT ![first_in_idx] = PageSize]
         /\ first_in_idx' = NextIn(first_in_idx)
    ELSE /\ in_off' = in_off + n
         /\ UNCHANGED <<in_count, first_in_idx>>

\* There is something to read.
FetchSome(t) ==
  /\ pc[t] = "fetch"
  /\ ~InEmpty
  /\ Goto(t, "take")
  /\ UNCHANGED <<outVars, inVars, timeVars, chanVars, histVars>>

\* The rest of the round chooses what to copy; copy_to_user may sleep.
Fetch(t) ==
  LET siz == in_count[first_in_idx]
  IN
  /\ pc[t] = "take"
  /\ round' = [round EXCEPT ![t] = Round(left[t], first_in_idx, in_off, siz)]
  /\ pc' = [pc EXCEPT ![t] = IF in_off > siz THEN "wild" ELSE "taking"]
  /\ UNCHANGED <<outVars, inVars, timeVars, chanVars, histVars,
                 call, left, target, got, signal, nap, forced>>

\* The copy has ended: the offset moves on.
Fetched(t) ==
  LET r == round[t]
      done == left[t] = r.n
  IN
  /\ pc[t] = "taking"
  /\ received' = received \o SubSeq(in_page[r.idx], r.off + 1, r.off + r.n)
  /\ Use(r.siz, r.n)
  /\ left' = [left EXCEPT ![t] = @ - r.n]
  /\ got' = [got EXCEPT ![t] = @ + r.n]
  /\ pc' = [pc EXCEPT ![t] = IF done THEN "idle" ELSE "fetch"]
  /\ signal' = [signal EXCEPT ![t] = @ /\ ~done]
  /\ forced' = IF done THEN forced \ {t} ELSE forced
  /\ UNCHANGED <<outVars, next_in_idx, in_page, made, timeVars, chanVars, call, target,
                 round, nap, sent, taken>>

\* The read clears the flag and wait_for_read_data starts the timer.
Arm(t) ==
  /\ pc[t] = "arm"
  /\ read_timeout_flag' = FALSE
  /\ read_timing' = (read_timing \/ read_timeout = "set")
  /\ Goto(t, "await")
  /\ UNCHANGED <<outVars, inVars, read_timeout, chanVars, histVars>>

\* The wait ends: a signal, the timeout flag, or data, in that order.  The ring
\* is not tested again.
Wake(t) ==
  /\ pc[t] = "await" /\ nap[t] = "test"
  /\ signal[t] \/ ~Waits(t)
  /\ IF signal[t] \/ read_timeout_flag THEN Return(t) ELSE Goto(t, "take")
  /\ read_timing' = FALSE
  /\ UNCHANGED <<outVars, inVars, read_timeout, read_timeout_flag, chanVars, histVars>>

\* Wrong: the handler only stops the timer and wakes the reader.
TimerForgets ==
  /\ read_timing
  /\ read_timing' = FALSE
  /\ WakeUp
  /\ UNCHANGED <<outVars, inVars, read_timeout, read_timeout_flag, callVars, chanVars,
                 histVars>>

\* read_timeout
TimerFires ==
  /\ read_timing
  /\ read_timeout_flag' = TRUE
  /\ read_timing' = FALSE
  /\ WakeUp
  /\ UNCHANGED <<outVars, inVars, read_timeout, callVars, chanVars, histVars>>

\* UCRX_TIMEOUT through the control device.
SetTimeout(v) ==
  /\ "timeout" \in Calls
  /\ read_timeout # v
  /\ read_timeout' = v
  /\ UNCHANGED <<outVars, inVars, read_timing, read_timeout_flag, threadVars, chanVars,
                 histVars>>

\* UCRX_TIMEOUT_FORCE.  `forced` notes the reads that wait for data at this
\* time; a read that is blocked in its flush clears the flag in Arm.
ForceTimeout ==
  /\ "force" \in Calls
  /\ read_timeout_flag' = TRUE
  /\ read_timing' = FALSE
  /\ forced' = {t \in Threads : pc[t] = "await"}
  /\ WakeUp
  /\ UNCHANGED <<outVars, inVars, read_timeout, pc, call, left, target, got, signal, round,
                 chanVars, histVars>>

-----------------------------------------------------------------------------
(* Signals and the board *)

Signal(t) ==
  /\ Signals
  /\ pc[t] # "idle" /\ ~signal[t]
  /\ signal' = [signal EXCEPT ![t] = TRUE]
  /\ nap' = [nap EXCEPT ![t] = IF @ = "asleep" THEN "test" ELSE @]
  /\ UNCHANGED <<outVars, inVars, timeVars, pc, call, left, target, got, round, forced,
                 chanVars, histVars>>

\* What the target reads from the buffer at ring index i.
Contents(i) == IF out_count[i] = 0 THEN <<Mark>> ELSE SubSeq(out_page[i], 1, out_count[i])

BoardTakes ==
  /\ first_out_idx # next_out_idx
  /\ taken' = taken \o Contents(first_out_idx)
  /\ first_out_idx' = NextOut(first_out_idx)
  /\ WakeUp
  /\ UNCHANGED <<next_out_idx, out_count, out_page, out_off, inVars, timeVars, callVars,
                 chanVars, sent, received>>

BoardMakes(n) ==
  /\ NextIn(next_in_idx) # first_in_idx
  /\ made + n <= MaxMade
  /\ in_page' = [in_page EXCEPT ![next_in_idx] =
                   [k \in 1..PageSize |-> IF k <= n THEN made + k ELSE @[k]]]
  /\ in_count' = [in_count EXCEPT ![next_in_idx] = n]
  /\ next_in_idx' = NextIn(next_in_idx)
  /\ made' = made + n
  /\ WakeUp
  /\ UNCHANGED <<first_in_idx, in_off, outVars, timeVars, callVars, chanVars, histVars>>

BoardSwitches ==
  /\ boardChan # channel
  /\ boardChan' = channel
  /\ UNCHANGED <<outVars, inVars, timeVars, threadVars, channel, histVars>>

-----------------------------------------------------------------------------
Empty(n) == [i \in 0..(n - 1) |-> [k \in 1..PageSize |-> Junk]]

Init ==
  /\ first_out_idx = 0 /\ next_out_idx = 0 /\ first_in_idx = 0 /\ next_in_idx = 0
  /\ out_count = [i \in 0..(NOut - 1) |-> PageSize] /\ out_page = Empty(NOut)
  /\ in_count = [i \in 0..(NIn - 1) |-> PageSize] /\ in_page = Empty(NIn)
  /\ channel = 0 /\ boardChan = 0 /\ out_off = 0 /\ in_off = 0
  /\ read_timeout = "off" /\ read_timing = FALSE /\ read_timeout_flag = FALSE
  /\ pc = [t \in Threads |-> "idle"] /\ call = [t \in Threads |-> "flush"]
  /\ left = [t \in Threads |-> 0] /\ got = [t \in Threads |-> 0]
  /\ target = [t \in Threads |-> 0] /\ signal = [t \in Threads |-> FALSE]
  /\ round = [t \in Threads |-> Round(0, 0, 0, 0)] /\ nap = [t \in Threads |-> "test"]
  /\ made = 0 /\ sent = <<>> /\ taken = <<>> /\ received = <<>> /\ forced = {}

\* ucr_release and the next ucr_open: a new table, and what was in the old one
\* is gone.
Reopen ==
  /\ "close" \in Calls
  /\ Idle
  /\ first_out_idx' = 0 /\ next_out_idx' = 0 /\ first_in_idx' = 0 /\ next_in_idx' = 0
  /\ out_count' = [i \in 0..(NOut - 1) |-> PageSize] /\ out_page' = Empty(NOut)
  /\ in_count' = [i \in 0..(NIn - 1) |-> PageSize] /\ in_page' = Empty(NIn)
  /\ channel' = 0 /\ boardChan' = 0 /\ out_off' = 0 /\ in_off' = 0
  /\ read_timeout' = "off" /\ read_timing' = FALSE /\ read_timeout_flag' = FALSE
  /\ made' = 0 /\ sent' = <<>> /\ taken' = <<>> /\ received' = <<>>
  /\ UNCHANGED threadVars

\* The next step of a call that is in progress.
Step(t) ==
  \/ Copy(t)
  \/ Copied(t)
  \/ Doze(t)
  \/ FallAsleep(t)
  \/ RingSleep(t)
  \/ Flush(t)
  \/ PutMark(t)
  \/ Interrupted(t)
  \/ SyncDone(t)
  \/ SwitchDone(t)
  \/ FetchNone(t)
  \/ FetchSome(t)
  \/ Fetch(t)
  \/ Fetched(t)
  \/ Arm(t)
  \/ Wake(t)

Next ==
  \/ \E t \in Threads :
       \/ Step(t)
       \/ \E n \in 1..MaxWrite : Write(t, n) \/ \E w \in {"read", "poll"} : Read(t, w, n)
       \/ FlushCall(t)
       \/ SyncCall(t)
       \/ MarkCall(t)
       \/ \E c \in ChanIds : ChannelCall(t, c)
       \/ Signal(t)
  \/ TimerFires
  \/ \E v \in Timeouts : SetTimeout(v)
  \/ ForceTimeout
  \/ BoardTakes
  \/ \E n \in 1..PageSize : BoardMakes(n)
  \/ BoardSwitches
  \/ Reopen

Spec == Init /\ [][Next]_vars

\* Threads that are not asleep run, an armed timer expires, and the board goes
\* on reading what is in its ring and takes a new root table; it need not write
\* anything.  Nothing wakes a thread but a bell, the timer, a forced timeout and
\* a signal.
Fairness ==
  /\ \A t \in Threads : WF_vars(Step(t))
  /\ WF_vars(TimerFires) /\ WF_vars(BoardTakes) /\ WF_vars(BoardSwitches)

FairSpec == Spec /\ Fairness

-----------------------------------------------------------------------------
(* Properties *)

\* Type invariant.
TypeOK ==
  /\ first_out_idx \in 0..(NOut - 1) /\ next_out_idx \in 0..(NOut - 1)
  /\ first_in_idx \in 0..(NIn - 1) /\ next_in_idx \in 0..(NIn - 1)
  /\ out_count \in [0..(NOut - 1) -> 0..PageSize]
  /\ in_count \in [0..(NIn - 1) -> 1..PageSize]
  /\ \A i \in 0..(NOut - 1) : DOMAIN out_page[i] = 1..PageSize
  /\ \A i \in 0..(NIn - 1) : DOMAIN in_page[i] = 1..PageSize
  /\ channel \in ChanIds /\ boardChan \in ChanIds
  /\ out_off \in 0..PageSize /\ in_off \in 0..(PageSize - 1)
  /\ read_timeout \in Timeouts
  /\ read_timing \in BOOLEAN /\ read_timeout_flag \in BOOLEAN
  /\ pc \in [Threads -> {"idle", "copy", "copying", "flush", "flushWait", "mark", "markWait",
                         "sync", "swap", "fetch", "take", "taking", "arm", "await"}]
  /\ call \in [Threads -> AllCalls]
  /\ left \in [Threads -> 0..MaxWrite] /\ got \in [Threads -> 0..MaxWrite]
  /\ target \in [Threads -> ChanIds] /\ signal \in [Threads -> BOOLEAN]
  /\ nap \in [Threads -> {"test", "gap", "asleep"}]
  /\ \A t \in Threads : round[t].n \in 0..MaxWrite
  /\ forced \in SUBSET Threads
  /\ made \in 0..MaxMade

\* The board takes each byte under the number of the channel it was written
\* to: UCR_CHANNEL moves nothing that was written before it.
OnItsChannel ==
  [][\A i \in (Len(taken) + 1)..Len(taken') :
       taken'[i] = Mark \/ taken'[i][1] = boardChan]_vars

\* When UCR_SYNC succeeds, the board has read all that was written.
SyncedMeansTaken ==
  [][\A t \in Threads :
       pc[t] = "sync" /\ call[t] = "sync" /\ pc'[t] = "idle" /\ ~signal[t]
         => taken = sent]_vars

\* The thread sleeps for what has happened: it missed its wake-up.
Oversleeps(t) == nap[t] = "asleep" /\ ~Waits(t)

\* A call that sends returns, as long as the board goes on reading, unless it
\* misses the wake-up for room in the ring and nothing ever wakes it again.
SendersReturn ==
  \A t \in Threads :
    pc[t] # "idle" /\ call[t] # "read" ~> pc[t] = "idle" \/ []Oversleeps(t)

\* What was written before a read blocks reaches the board: a program that
\* writes a request and waits for the reply is not left waiting for itself.
RequestsArrive ==
  \A n \in 1..MaxSent : \A t \in Threads :
    pc[t] = "await" /\ Len(sent) = n ~> Len(taken) >= n \/ sent = <<>>

\* A read that waited for data when UCRX_TIMEOUT_FORCE came returns, unless it
\* was about to go to sleep and never wakes.
ForceEnds == \A t \in Threads : t \in forced ~> t \notin forced \/ []Oversleeps(t)

\* A timer that runs out ends the read it was started for, unless the read was
\* about to go to sleep and never wakes.
TimeoutEnds ==
  \A t \in Threads :
    pc[t] = "await" /\ read_timing ~> pc[t] # "await" \/ []Oversleeps(t)

\* A wait for data ends by its own timeout and by a forced one.
ReadsReturn == TimeoutEnds /\ ForceEnds

\* ucrif.h: "If 0, then reads do not block at all (polling read)."
PollingReads ==
  \A t \in Threads :
    pc[t] = "fetch" /\ read_timeout = "zero" ~> pc[t] = "idle" \/ read_timeout # "zero"
=============================================================================
