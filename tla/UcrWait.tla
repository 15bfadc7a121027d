------------------------------ MODULE UcrWait ------------------------------
(***************************************************************************)
(* How threads sleep in the driver and how the board's interrupt wakes     *)
(* them (sys-linux2.4/ucr.c, linux.c and dev_ise.c).                       *)
(*                                                                         *)
(* The board changes a register or a ring index and rings an outbound      *)
(* bell; the interrupt handler clears the bells and wakes everyone on the  *)
(* wait queue of each.  A thread goes to sleep in one of two ways:         *)
(*                                                                         *)
(*  - root_to_board and sync_channel mask the bells, mark themselves       *)
(*    asleep, test, unmask with the mask they found, and give up the CPU;  *)
(*                                                                         *)
(*  - wait_for_write_ring and wait_for_read_data test first, then mark     *)
(*    themselves asleep and give up the CPU.                               *)
(*                                                                         *)
(* `done` stands for the condition of a thread's loop: the acknowledge     *)
(* register, a ring index, or the flag a timer sets.  Threads, handler and *)
(* board run in parallel.  UcrRoot takes for granted that a thread whose   *)
(* condition holds goes on, UcrChannel that the bells are unmasked; here   *)
(* is when that is so.                                                     *)
(***************************************************************************)
EXTENDS Naturals

CONSTANTS
  RootWaiters, \* threads in root_to_board, on root_sync
  SyncWaiters, \* threads in sync_channel, on dispatch_sync
  RingWaiters, \* threads that wait for a ring, on dispatch_sync
  TimedReads   \* do the threads that wait for a ring have a read timeout?

Maskers == RootWaiters \cup SyncWaiters
Threads == Maskers \cup RingWaiters

ASSUME ConstantsAssumption ==
  /\ RootWaiters \cap SyncWaiters = {} /\ Maskers \cap RingWaiters = {}
  /\ TimedReads \in BOOLEAN

VARIABLES
  pc,      \* thread -> place in its loop
  done,    \* thread -> what it waits for has happened
  asleep,  \* threads in state TASK_INTERRUPTIBLE
  queued,  \* threads on their wait queue
  oimr,    \* are the outbound bells masked?
  mask,    \* thread -> result of its last dev_mask_irqs
  armed,   \* threads whose timer is running
  owed,    \* bells the board is about to ring
  bells,   \* outbound bells that are ringing
  handling, \* bells the interrupt handler has taken
  \* history, of the properties only
  torn     \* the bells were opened inside another thread's masked section

threadVars == <<pc, done, asleep, queued, armed>>
irqVars    == <<owed, bells, handling>>
vars == <<threadVars, oimr, mask, irqVars, torn>>

Bells == {"root", "change"}
Bell(t) == IF t \in RootWaiters THEN "root" ELSE "change"

\* Thread t is between its mask and its unmask.
Masking(t) == pc[t] \in {"test", "unmask", "leave"}

\* Wrong: nobody is woken.
WakeNobody(S) == UNCHANGED asleep

\* wake_up on the wait queues of bells S.
WakeUp(S) == asleep' = asleep \ {t \in queued : Bell(t) \in S}

-----------------------------------------------------------------------------
(* root_to_board and sync_channel *)

\* dev_mask_irqs, then set_current_state.
Mask(t) ==
  /\ mask' = [mask EXCEPT ![t] = oimr]
  /\ oimr' = TRUE
  /\ asleep' = asleep \cup {t}

\* Wrong: the bells stay masked.
UnmaskNot(t) == UNCHANGED <<oimr, mask, torn>>

\* dev_unmask_irqs.  The mask is not read again before the next dev_mask_irqs.
Unmask(t) ==
  /\ oimr' = mask[t]
  /\ mask' = [mask EXCEPT ![t] = FALSE]
  /\ torn' = (torn \/ (~mask[t] /\ \E u \in Maskers \ {t} : Masking(u)))

EnterMasked(t) ==
  /\ t \in Maskers
  /\ pc[t] = "idle"
  /\ pc' = [pc EXCEPT ![t] = "test"]
  /\ done' = IF t \in RootWaiters THEN [done EXCEPT ![t] = FALSE] ELSE done
  /\ queued' = queued \cup {t}
  /\ armed' = IF t \in RootWaiters THEN armed \cup {t} ELSE armed
  /\ Mask(t)
  /\ UNCHANGED <<irqVars, torn>>

Test(t) ==
  /\ pc[t] = "test"
  /\ pc' = [pc EXCEPT ![t] = IF done[t] THEN "leave" ELSE "unmask"]
  /\ UNCHANGED <<done, asleep, queued, armed, oimr, mask, irqVars, torn>>

\* Wrong: the state is set only after the test.
SleepMarksLate(t) ==
  /\ pc[t] = "unmask"
  /\ pc' = [pc EXCEPT ![t] = "masked sleep"]
  /\ asleep' = asleep \cup {t}
  /\ Unmask(t)
  /\ UNCHANGED <<done, queued, armed, irqVars>>

Sleep(t) ==
  /\ pc[t] = "unmask"
  /\ pc' = [pc EXCEPT ![t] = "masked sleep"]
  /\ Unmask(t)
  /\ UNCHANGED <<done, asleep, queued, armed, irqVars>>

\* schedule returns.
Woken(t) ==
  /\ pc[t] = "masked sleep"
  /\ t \notin asleep
  /\ pc' = [pc EXCEPT ![t] = "test"]
  /\ Mask(t)
  /\ UNCHANGED <<done, queued, armed, irqVars, torn>>

LeaveMasked(t) ==
  /\ pc[t] = "leave"
  /\ pc' = [pc EXCEPT ![t] = "idle"]
  /\ done' = [done EXCEPT ![t] = FALSE]
  /\ asleep' = asleep \ {t}
  /\ queued' = queued \ {t}
  /\ armed' = armed \ {t}
  /\ Unmask(t)
  /\ UNCHANGED irqVars

-----------------------------------------------------------------------------
(* wait_for_write_ring and wait_for_read_data *)

EnterRing(t) ==
  /\ t \in RingWaiters
  /\ pc[t] = "idle"
  /\ pc' = [pc EXCEPT ![t] = "look"]
  /\ queued' = queued \cup {t}
  /\ armed' = IF TimedReads THEN armed \cup {t} ELSE armed
  /\ UNCHANGED <<done, asleep, oimr, mask, irqVars, torn>>

Look(t) ==
  /\ pc[t] = "look"
  /\ IF done[t]
       THEN /\ pc' = [pc EXCEPT ![t] = "idle"]
            /\ done' = [done EXCEPT ![t] = FALSE]
            /\ queued' = queued \ {t}
            /\ armed' = armed \ {t}
       ELSE /\ pc' = [pc EXCEPT ![t] = "doze"]
            /\ UNCHANGED <<done, queued, armed>>
  /\ UNCHANGED <<asleep, oimr, mask, irqVars, torn>>

Doze(t) ==
  /\ pc[t] = "doze"
  /\ pc' = [pc EXCEPT ![t] = "sleep"]
  /\ asleep' = asleep \cup {t}
  /\ UNCHANGED <<done, queued, armed, oimr, mask, irqVars, torn>>

Rouse(t) ==
  /\ pc[t] = "sleep"
  /\ t \notin asleep
  /\ pc' = [pc EXCEPT ![t] = "look"]
  /\ UNCHANGED <<done, asleep, queued, armed, oimr, mask, irqVars, torn>>

-----------------------------------------------------------------------------
(* The timers: root_timeout and read_timeout set a flag and wake the queue. *)

TimerFires(t) ==
  /\ t \in armed
  /\ armed' = armed \ {t}
  /\ done' = [done EXCEPT ![t] = TRUE]
  /\ WakeUp({Bell(t)})
  /\ UNCHANGED <<pc, queued, oimr, mask, irqVars, torn>>

-----------------------------------------------------------------------------
(* The board and the interrupt *)

\* The board answers a root table, or moves a ring index ...
BoardPosts(t) ==
  /\ ~done[t]
  /\ t \in RootWaiters => pc[t] # "idle"
  /\ done' = [done EXCEPT ![t] = TRUE]
  /\ owed' = owed \cup {Bell(t)}
  /\ UNCHANGED <<pc, asleep, queued, armed, oimr, mask, bells, handling, torn>>

\* ... and then rings the bell for it.
BoardRings ==
  /\ owed # {}
  /\ bells' = bells \cup owed
  /\ owed' = {}
  /\ UNCHANGED <<threadVars, oimr, mask, handling, torn>>

\* ise_get_bells: no bells while they are masked.
TakeBells ==
  /\ ~oimr
  /\ bells # {} /\ handling = {}
  /\ handling' = bells
  /\ bells' = {}
  /\ UNCHANGED <<threadVars, oimr, mask, owed, torn>>

\* ucr_irq
Dispatch ==
  /\ handling # {}
  /\ WakeUp(handling)
  /\ handling' = {}
  /\ UNCHANGED <<pc, done, queued, armed, oimr, mask, owed, bells, torn>>

-----------------------------------------------------------------------------
Init ==
  /\ pc = [t \in Threads |-> "idle"] /\ done = [t \in Threads |-> FALSE]
  /\ asleep = {} /\ queued = {} /\ armed = {}
  /\ oimr = FALSE /\ mask = [t \in Threads |-> FALSE]
  /\ owed = {} /\ bells = {} /\ handling = {}
  /\ torn = FALSE

\* A thread goes on in its loop.
Step(t) ==
  \/ Test(t)
  \/ Sleep(t)
  \/ Woken(t)
  \/ LeaveMasked(t)
  \/ Look(t)
  \/ Doze(t)
  \/ Rouse(t)

Irq == TakeBells \/ Dispatch

Next ==
  \/ \E t \in Threads :
       EnterMasked(t) \/ EnterRing(t) \/ Step(t) \/ TimerFires(t) \/ BoardPosts(t)
  \/ BoardRings
  \/ Irq

Spec == Init /\ [][Next]_vars

\* The kernel runs threads that are not asleep; the board does what each
\* thread waits for, and rings; timers run out.  A bell interrupts at once
\* when the mask opens (strong fairness: it may be masked again later).
Fairness ==
  /\ \A t \in Threads : WF_vars(Step(t)) /\ WF_vars(TimerFires(t))
                        /\ WF_vars(BoardPosts(t))
  /\ WF_vars(BoardRings) /\ SF_vars(TakeBells) /\ WF_vars(Dispatch)

FairSpec == Spec /\ Fairness

-----------------------------------------------------------------------------
(* Properties *)

\* Type invariant.
TypeOK ==
  /\ pc \in [Threads -> {"idle", "test", "unmask", "masked sleep", "leave",
                         "look", "doze", "sleep"}]
  /\ done \in [Threads -> BOOLEAN] /\ mask \in [Threads -> BOOLEAN]
  /\ asleep \in SUBSET Threads /\ queued \in SUBSET Threads
  /\ armed \in SUBSET Threads
  /\ oimr \in BOOLEAN /\ torn \in BOOLEAN
  /\ owed \in SUBSET Bells /\ bells \in SUBSET Bells /\ handling \in SUBSET Bells

\* A bell that will wake thread t has been, or is about to be, rung.
Coming(t) == Bell(t) \in owed \cup bells \cup handling

\* A thread that sleeps in root_to_board or sync_channel although what it
\* waits for has happened is about to be woken.
NoLostWakeup ==
  \A t \in Maskers : pc[t] = "masked sleep" /\ t \in asleep /\ done[t] => Coming(t)

\* The bells are left masked with nobody between mask and unmask.  Whoever
\* masks them from now on finds them masked and restores them so.
LeftMasked == oimr /\ ~\E t \in Maskers : Masking(t)

\* Masked sections that nest restore the bells (dev_ise.c:172-176).  They are
\* left masked only after a thread that had found them open opened them
\* inside the section of another one: nothing in the driver prevents that.
MaskRestored == LeftMasked => torn

\* Every wait of root_to_board ends, by its timer if need be, even when the
\* bells have been left masked; a wait of sync_channel, which has no timer,
\* ends unless they have been.
MaskedWaitsEnd ==
  /\ \A t \in RootWaiters : pc[t] # "idle" ~> pc[t] = "idle"
  /\ \A t \in SyncWaiters : pc[t] # "idle" ~> pc[t] = "idle" \/ LeftMasked

\* Every wait for a ring ends.
RingWaitsEnd == \A t \in RingWaiters : pc[t] # "idle" ~> pc[t] = "idle"
=============================================================================
