--------------------------- MODULE UcrWaitProofs ---------------------------
(***************************************************************************)
(* Proofs about UcrWait, for every number of threads.  No wake-up of a     *)
(* thread in root_to_board or sync_channel is lost, however many there     *)
(* are; and the bells are left masked only after one thread has opened     *)
(* them inside another one's masked section.                               *)
(***************************************************************************)
EXTENDS UcrWait, TLAPS

\* Every variable keeps its type.
LEMMA StepType ==
  ASSUME TypeOK, [Next]_vars
  PROVE  TypeOK'
<1> USE DEF TypeOK, threadVars, irqVars, Threads, Bells, Bell, WakeUp
<1>1. ASSUME NEW t \in Threads, EnterMasked(t) PROVE TypeOK'
  BY <1>1 DEF EnterMasked, Mask
<1>2. ASSUME NEW t \in Threads, EnterRing(t) PROVE TypeOK'
  BY <1>2 DEF EnterRing
<1>3. ASSUME NEW t \in Threads, Test(t) \/ Sleep(t) \/ Woken(t) \/ LeaveMasked(t)
      PROVE  TypeOK'
  BY <1>3 DEF Test, Sleep, Woken, LeaveMasked, Mask, Unmask
<1>4. ASSUME NEW t \in Threads, Look(t) \/ Doze(t) \/ Rouse(t) PROVE TypeOK'
  BY <1>4 DEF Look, Doze, Rouse
<1>5. ASSUME NEW t \in Threads, TimerFires(t) \/ BoardPosts(t) PROVE TypeOK'
  BY <1>5 DEF TimerFires, BoardPosts
<1>6. ASSUME BoardRings \/ TakeBells \/ Dispatch PROVE TypeOK'
  BY <1>6 DEF BoardRings, TakeBells, Dispatch
<1>7. ASSUME UNCHANGED vars PROVE TypeOK'
  BY <1>7 DEF vars
<1> QED
  BY <1>1, <1>2, <1>3, <1>4, <1>5, <1>6, <1>7 DEF Next, Step, Irq

\* The initial values have their types.
LEMMA InitType == Init => TypeOK
BY DEF Init, TypeOK

(* Type correctness of the wait protocol.                                   *)
THEOREM WaitTypeCorrect == Spec => []TypeOK
BY InitType, StepType, PTL DEF Spec

-----------------------------------------------------------------------------
(* Lost wake-ups *)

\* If what a thread past the test of its loop waits for has happened since the
\* test, the thread has been woken or soon will be.  The test comes after the
\* thread has marked itself asleep, so no wake-up falls between the two.
WakeInv ==
  \A t \in Maskers :
    pc[t] \in {"unmask", "masked sleep"} /\ t \in asleep /\ done[t] => Coming(t)

\* A thread is on its wait queue throughout its loop.
QueueInv == \A t \in Maskers : pc[t] # "idle" => t \in queued

\* Only the thread itself leaves its wait queue, at the end of its loop.
LEMMA StepQueue ==
  ASSUME TypeOK, QueueInv, [Next]_vars
  PROVE  QueueInv'
<1> USE ConstantsAssumption DEF TypeOK, threadVars, irqVars, Threads, QueueInv
<1>1. ASSUME NEW t \in Threads, EnterMasked(t) \/ Step(t) PROVE QueueInv'
  BY <1>1 DEF EnterMasked, Step, Test, Sleep, Woken, LeaveMasked, Look, Doze, Rouse, Maskers
<1>2. ASSUME NEW t \in Threads, EnterRing(t) PROVE QueueInv'
  BY <1>2 DEF EnterRing, Maskers
<1>3. ASSUME UNCHANGED <<pc, queued>> PROVE QueueInv'
  BY <1>3
<1> QED
  BY <1>1, <1>2, <1>3 DEF Next, TimerFires, BoardPosts, BoardRings, Irq, TakeBells,
                          Dispatch, vars

\* Every way to make the condition of a sleeping thread true rings its bell
\* or wakes it, and a bell is given up only by waking its queue.
LEMMA StepWake ==
  ASSUME TypeOK, QueueInv, WakeInv, [Next]_vars
  PROVE  WakeInv'
<1> USE ConstantsAssumption DEF TypeOK, threadVars, irqVars, Threads, WakeInv, Coming
<1>1. ASSUME NEW t \in Threads, EnterMasked(t) \/ Woken(t) PROVE WakeInv'
  BY <1>1 DEF EnterMasked, Woken, Mask
<1>2. ASSUME NEW t \in Threads, Test(t) \/ Sleep(t) \/ LeaveMasked(t) PROVE WakeInv'
  BY <1>2 DEF Test, Sleep, LeaveMasked
<1>3. ASSUME NEW t \in Threads, EnterRing(t) \/ Look(t) \/ Doze(t) \/ Rouse(t)
      PROVE  WakeInv'
  BY <1>3 DEF EnterRing, Look, Doze, Rouse
<1>4. ASSUME NEW t \in Threads, TimerFires(t) PROVE WakeInv'
  BY <1>4 DEF TimerFires, WakeUp, QueueInv
<1>5. ASSUME NEW t \in Threads, BoardPosts(t) PROVE WakeInv'
  BY <1>5 DEF BoardPosts
<1>6. ASSUME BoardRings \/ TakeBells PROVE WakeInv'
  BY <1>6 DEF BoardRings, TakeBells
<1>7. ASSUME Dispatch PROVE WakeInv'
  BY <1>7 DEF Dispatch, WakeUp, QueueInv
<1>8. ASSUME UNCHANGED vars PROVE WakeInv'
  BY <1>8 DEF vars
<1> QED
  BY <1>1, <1>2, <1>3, <1>4, <1>5, <1>6, <1>7, <1>8 DEF Next, Step, Irq

(* No thread in root_to_board or sync_channel is left asleep when what it   *)
(* waits for has happened, with any number of threads of every kind.        *)
THEOREM NoneLeftAsleep == Spec => []NoLostWakeup
<1>1. Init => QueueInv /\ WakeInv
  BY DEF Init, QueueInv, WakeInv, Threads
<1>2. TypeOK /\ QueueInv /\ WakeInv /\ [Next]_vars => (QueueInv /\ WakeInv)'
  BY StepQueue, StepWake
<1>3. WakeInv => NoLostWakeup
  BY DEF WakeInv, NoLostWakeup
<1> QED
  BY <1>1, <1>2, <1>3, WaitTypeCorrect, PTL DEF Spec

-----------------------------------------------------------------------------
(* The mask *)

\* As long as no thread has opened the bells inside another's section, they
\* are masked while a thread is between its mask and its unmask, and one
\* thread that is there will restore the open mask; the others found them
\* masked.
MaskInv ==
  ~torn =>
    /\ \A t \in Maskers : Masking(t) => oimr
    /\ oimr => \E t \in Maskers : Masking(t) /\ ~mask[t]
    /\ \A s, t \in Maskers : Masking(s) /\ Masking(t) /\ ~mask[s] /\ ~mask[t] => s = t

\* Threads stay in their own kind of loop.
LoopInv ==
  /\ \A t \in Maskers : pc[t] \notin {"look", "doze", "sleep"}
  /\ \A t \in RingWaiters : pc[t] \in {"idle", "look", "doze", "sleep"}

\* No step leads from one kind of loop into the other.
LEMMA StepLoop ==
  ASSUME TypeOK, LoopInv, [Next]_vars
  PROVE  LoopInv'
<1> USE ConstantsAssumption DEF TypeOK, threadVars, irqVars, Threads, LoopInv, Maskers
<1>1. ASSUME NEW t \in Threads, EnterMasked(t) \/ EnterRing(t) PROVE LoopInv'
  BY <1>1 DEF EnterMasked, EnterRing
<1>2. ASSUME NEW t \in Threads, Step(t) PROVE LoopInv'
  BY <1>2 DEF Step, Test, Sleep, Woken, LeaveMasked, Look, Doze, Rouse
<1>3. ASSUME UNCHANGED pc PROVE LoopInv'
  BY <1>3
<1> QED
  BY <1>1, <1>2, <1>3 DEF Next, TimerFires, BoardPosts, BoardRings, Irq, TakeBells,
                          Dispatch, vars

\* A thread that masks open bells is the first one in; it restores them when
\* the others have left.
LEMMA StepMask ==
  ASSUME TypeOK, LoopInv, MaskInv, [Next]_vars
  PROVE  MaskInv'
<1> USE ConstantsAssumption DEF TypeOK, threadVars, irqVars, Threads, LoopInv, Masking
<1>1. ASSUME NEW t \in Maskers, EnterMasked(t) \/ Woken(t) PROVE MaskInv'
  <2>1. /\ pc' = [pc EXCEPT ![t] = "test"] /\ pc[t] \in {"idle", "masked sleep"}
        /\ mask' = [mask EXCEPT ![t] = oimr] /\ oimr' = TRUE /\ torn' = torn
    BY <1>1 DEF EnterMasked, Woken, Mask
  <2>2. CASE oimr
    BY <2>1, <2>2 DEF MaskInv
  <2>3. CASE ~oimr /\ ~torn
    <3>1. \A s \in Maskers : ~Masking(s)
      BY <2>3 DEF MaskInv
    <3> QED
      BY <2>1, <3>1 DEF MaskInv
  <2> QED
    BY <2>1, <2>2, <2>3 DEF MaskInv
<1>2. ASSUME NEW t \in Maskers, Test(t) PROVE MaskInv'
  BY <1>2 DEF Test, MaskInv
<1>3. ASSUME NEW t \in Maskers, Sleep(t) \/ LeaveMasked(t) PROVE MaskInv'
  <2>1. /\ Masking(t) /\ oimr' = mask[t] /\ mask' = [mask EXCEPT ![t] = FALSE]
        /\ torn' = (torn \/ (~mask[t] /\ \E u \in Maskers \ {t} : Masking(u)))
        /\ ~Masking(t)' /\ \A u \in Maskers \ {t} : pc'[u] = pc[u]
    BY <1>3 DEF Sleep, LeaveMasked, Unmask
  <2>2. CASE torn'
    BY <2>2 DEF MaskInv
  <2>3. CASE ~torn' /\ mask[t]
    BY <2>1, <2>3 DEF MaskInv
  <2>4. CASE ~torn' /\ ~mask[t]
    BY <2>1, <2>4 DEF MaskInv
  <2> QED
    BY <2>2, <2>3, <2>4
<1>4. ASSUME NEW t \in RingWaiters, EnterRing(t) \/ Look(t) \/ Doze(t) \/ Rouse(t)
      PROVE  MaskInv'
  <2>1. t \notin Maskers /\ \E at : pc' = [pc EXCEPT ![t] = at]
    BY <1>4 DEF EnterRing, Look, Doze, Rouse, Maskers
  <2>2. UNCHANGED <<oimr, mask, torn>>
    BY <1>4 DEF EnterRing, Look, Doze, Rouse
  <2> QED
    BY <2>1, <2>2 DEF MaskInv
<1>5. ASSUME UNCHANGED <<pc, oimr, mask, torn>> PROVE MaskInv'
  BY <1>5 DEF MaskInv
<1>6. ASSUME NEW t \in Threads, EnterMasked(t) \/ EnterRing(t) \/ Step(t) PROVE MaskInv'
  <2>1. CASE t \in Maskers
    BY <1>1, <1>2, <1>3, <1>6, <2>1 DEF EnterRing, Step, Look, Doze, Rouse
  <2>2. CASE t \in RingWaiters
    BY <1>4, <1>6, <2>2 DEF EnterMasked, Step, Test, Sleep, Woken, LeaveMasked
  <2> QED
    BY <2>1, <2>2
<1> QED
  BY <1>5, <1>6 DEF Next, TimerFires, BoardPosts, BoardRings, Irq, TakeBells, Dispatch,
                    vars

(* However many threads mask the bells, and however their sections overlap, *)
(* the bells are left masked only if one thread opened them inside another  *)
(* one's section: sections that nest, or follow each other, restore them.   *)
THEOREM BellsUnmasked == Spec => []MaskRestored
<1>1. Init => LoopInv /\ MaskInv
  BY DEF Init, LoopInv, MaskInv, Masking, Threads, Maskers
<1>2. TypeOK /\ LoopInv /\ MaskInv /\ [Next]_vars => (LoopInv /\ MaskInv)'
  BY StepLoop, StepMask
<1>3. MaskInv => MaskRestored
  BY DEF MaskInv, MaskRestored, LeftMasked
<1> QED
  BY <1>1, <1>2, <1>3, WaitTypeCorrect, PTL DEF Spec
=============================================================================
