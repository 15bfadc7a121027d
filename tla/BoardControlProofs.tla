------------------------- MODULE BoardControlProofs -------------------------
(***************************************************************************)
(* Theorems about BoardControl, for any number of callers.  Its type       *)
(* invariant, and that a board which is out of reach -- removed, powered   *)
(* off, or only half configured -- never claims an interrupt that another  *)
(* device raised, hold whatever the callers do.  The second is about the   *)
(* all-ones such a board answers with and holds for ISE and JSE boards; an *)
(* EJSE takes them for bells.                                              *)
(*                                                                         *)
(* That accesses reach the board, that every call leaves it in service,    *)
(* and that the processor is held when it must be, hold for ISE and JSE    *)
(* boards while no two calls overlap: nothing in the driver keeps a second *)
(* caller off a board that is half reset.  Their invariant says where each *)
(* call is in its list of steps, and what holds of the board there; with   *)
(* it every step of every call is checked to find what it needs.           *)
(***************************************************************************)
EXTENDS BoardControl, Integers, TLAPS

\* The bells the handler finds and the masks it is given are bells.
LEMMA BellTypes ==
  ASSUME TypeOK
  PROVE  /\ get_bells \subseteq Bells
         /\ ise_mask_irqs \subseteq Bells
         /\ jse_mask_irqs \subseteq Bells
         /\ ejse_mask_irqs \subseteq Bells
         /\ ReadDevice \subseteq Parts
  BY BoardAssumption
  DEF TypeOK, BoardType, RegisterType, get_bells, ops_table, ise_get_bells, jse_get_bells,
      ejse_get_bells, ReadBells, ise_mask_irqs, jse_mask_irqs, ejse_mask_irqs, ReadDevice

\* The steps of a call keep the types: of the board, ...
LEMMA StepBoardType ==
  ASSUME TypeOK, NEW c \in Callers, Step(c)
  PROVE  BoardType'
<1>1. CASE Config(c)
  <2>1. \/ device' = device
        \/ device' = device \ {"command"}
        \/ device' = kept[c]
        \/ device' = saved.device
        \/ device' = device \cup (saved.device \cap {"regions"})
        \/ device' = device \cup (saved.device \cap {"command"})
    BY <1>1 DEF Config, configVars
  <2>2. \/ bridge' = bridge
        \/ bridge' = bridge \ {"command"}
        \/ bridge' = bridge \cup (saved.bridge \cap {"regions"})
        \/ bridge' = bridge \cup (saved.bridge \cap {"command"})
    BY <1>1 DEF Config, configVars
  <2>3. /\ bridge \subseteq Parts /\ device \subseteq Parts /\ kept[c] \subseteq Parts
        /\ saved.device \subseteq Parts /\ saved.bridge \subseteq Parts
    BY DEF TypeOK, BoardType, RegisterType, DriverType
  <2>4. bridge' \subseteq Parts
    BY <2>2, <2>3
  <2>5. device' \subseteq Parts
    BY <2>1, <2>3
  <2>. QED BY <1>1, <2>4, <2>5 DEF Config, Do, TypeOK, BoardType, boardVars
<1>2. CASE Suspend(c)
  BY <1>2 DEF Suspend, Do, TypeOK, BoardType, configVars, boardVars, regVars, driverVars
<1>3. CASE NoMemory(c)
  BY <1>3 DEF NoMemory, Do, TypeOK, BoardType, configVars, boardVars, regVars, driverVars
<1>4. CASE Save(c)
  BY <1>4 DEF Save, Do, TypeOK, BoardType, configVars, boardVars, regVars, driverVars
<1>5. CASE Resumed(c)
  BY <1>5 DEF Resumed, Do, TypeOK, BoardType, configVars, boardVars, regVars, driverVars
<1>6. CASE Hold(c)
  BY <1>6 DEF Hold, Do, TypeOK, BoardType, Anything, configVars, boardVars, regVars, driverVars
<1>7. CASE Release(c)
  BY <1>7 DEF Release, Do, TypeOK, BoardType, configVars, boardVars, regVars, driverVars
<1>8. CASE WriteRegister(c)
  BY <1>8 DEF WriteRegister, Do, TypeOK, BoardType, Written, configVars, boardVars, regVars,
     driverVars
<1>9. CASE RingRestart(c)
  BY <1>9 DEF RingRestart, Do, TypeOK, BoardType, configVars, boardVars, regVars, driverVars
<1>10. CASE GetStatus(c)
  BY <1>10 DEF GetStatus, Do, TypeOK, BoardType, configVars, boardVars, regVars, driverVars
<1>11. CASE RunProgram(c)
  BY <1>11 DEF RunProgram, Do, TypeOK, BoardType, configVars, boardVars, regVars, driverVars
<1>12. CASE FreeFrames(c)
  BY <1>12 DEF FreeFrames, Do, TypeOK, BoardType, configVars, boardVars, regVars, driverVars
<1>13. CASE SetUp(c)
  BY <1>13 DEF SetUp, Do, TypeOK, BoardType, configVars, boardVars, regVars, driverVars
<1>14. CASE MaskIrqs(c)
  BY <1>14 DEF MaskIrqs, Do, TypeOK, BoardType, Written, configVars, boardVars, regVars,
     driverVars
<1>15. CASE Channels(c)
  BY <1>15 DEF Channels, Do, TypeOK, BoardType, configVars, boardVars, regVars, driverVars
<1>. QED
  BY <1>1, <1>2, <1>3, <1>4, <1>5, <1>6, <1>7, <1>8, <1>9, <1>10, <1>11, <1>12, <1>13, <1>14,
     <1>15 DEF Step

\* ... of its registers and what the driver keeps of them, ...
LEMMA StepRegisterType ==
  ASSUME TypeOK, NEW c \in Callers, Step(c)
  PROVE  RegisterType'
<1>1. CASE Config(c)
  <2>1. ReadDevice \subseteq Parts
    BY BellTypes
  <2>2. kept' \in [Callers -> SUBSET Parts] /\ old' \in [Callers -> SUBSET Bells]
    BY <1>1, <2>1 DEF Config, Do, TypeOK, RegisterType, tmp
  <2>. QED BY <1>1, <2>2 DEF Config, Do, TypeOK, RegisterType, tmp, regVars
<1>2. CASE Suspend(c)
  BY <1>2 DEF Suspend, Do, TypeOK, RegisterType, tmp, configVars, boardVars, regVars, driverVars
<1>3. CASE NoMemory(c)
  BY <1>3 DEF NoMemory, Do, TypeOK, RegisterType, tmp, configVars, boardVars, regVars, driverVars
<1>4. CASE Save(c)
  BY <1>4 DEF Save, Do, TypeOK, RegisterType, tmp, configVars, boardVars, regVars, driverVars
<1>5. CASE Resumed(c)
  BY <1>5 DEF Resumed, Do, TypeOK, RegisterType, tmp, configVars, boardVars, regVars, driverVars
<1>6. CASE Hold(c)
  BY <1>6 DEF Hold, Do, TypeOK, RegisterType, tmp, Anything, configVars, boardVars, regVars, driverVars
<1>7. CASE Release(c)
  BY <1>7 DEF Release, Do, TypeOK, RegisterType, tmp, configVars, boardVars, regVars, driverVars
<1>8. CASE WriteRegister(c)
  BY <1>8 DEF WriteRegister, Do, TypeOK, RegisterType, tmp, Written, configVars, boardVars, regVars,
     driverVars
<1>9. CASE RingRestart(c)
  BY <1>9 DEF RingRestart, Do, TypeOK, RegisterType, tmp, configVars, boardVars, regVars, driverVars
<1>10. CASE GetStatus(c)
  BY <1>10 DEF GetStatus, Do, TypeOK, RegisterType, tmp, configVars, boardVars, regVars, driverVars
<1>11. CASE RunProgram(c)
  BY <1>11 DEF RunProgram, Do, TypeOK, RegisterType, tmp, configVars, boardVars, regVars, driverVars
<1>12. CASE FreeFrames(c)
  BY <1>12 DEF FreeFrames, Do, TypeOK, RegisterType, tmp, configVars, boardVars, regVars, driverVars
<1>13. CASE SetUp(c)
  BY <1>13 DEF SetUp, Do, TypeOK, RegisterType, tmp, configVars, boardVars, regVars, driverVars
<1>14. CASE MaskIrqs(c)
  <2>0. kind \in {"ise", "jse", "ejse"}
    BY BoardAssumption DEF TypeOK, BoardType
  <2>1. old' \in [Callers -> SUBSET Bells]
    BY <1>14, <2>0, BellTypes DEF MaskIrqs, ops_table, TypeOK, RegisterType, tmp
  <2>2. mask' \subseteq Bells
    <3>1. CASE Do(c, "mask_irqs")
      BY <1>14, <3>1 DEF MaskIrqs, Written, Do, TypeOK, RegisterType, tmp
    <3>2. CASE Do(c, "unmask_irqs") /\ ~Do(c, "mask_irqs")
      <4>1. mask' = mask \/ mask' = ops_table(ise_unmask_irqs(old[c]), jse_unmask_irqs(old[c]),
                                             ejse_unmask_irqs(old[c]))
        BY <1>14, <3>2 DEF MaskIrqs, Written
      <4>2. old[c] \subseteq Bells
        BY DEF TypeOK, RegisterType, tmp
      <4>. QED
        BY <4>1, <4>2, <2>0 DEF TypeOK, RegisterType, ops_table, ise_unmask_irqs,
           jse_unmask_irqs, ejse_unmask_irqs
    <3>. QED BY <1>14, <3>1, <3>2 DEF MaskIrqs
  <2>. QED
    BY <1>14, <2>1, <2>2 DEF MaskIrqs, Do, TypeOK, RegisterType, tmp
<1>15. CASE Channels(c)
  BY <1>15 DEF Channels, Do, TypeOK, RegisterType, tmp, configVars, boardVars, regVars, driverVars
<1>. QED
  BY <1>1, <1>2, <1>3, <1>4, <1>5, <1>6, <1>7, <1>8, <1>9, <1>10, <1>11, <1>12, <1>13, <1>14,
     <1>15 DEF Step

\* ... and of the driver.
LEMMA StepDriverType ==
  ASSUME TypeOK, NEW c \in Callers, Step(c)
  PROVE  DriverType'
<1>1. CASE Config(c)
  BY <1>1 DEF Config, Do, TypeOK, DriverType, configVars, boardVars, regVars, driverVars
<1>2. CASE Suspend(c)
  BY <1>2 DEF Suspend, Do, TypeOK, DriverType, configVars, boardVars, regVars, driverVars
<1>3. CASE NoMemory(c)
  BY <1>3 DEF NoMemory, Do, TypeOK, DriverType, configVars, boardVars, regVars, driverVars
<1>4. CASE Save(c)
  <2>1. saved' \in [device : SUBSET Parts, bridge : SUBSET Parts]
    <3>1. ReadDevice \subseteq Parts /\ bridge \subseteq Parts
          /\ saved.device \subseteq Parts /\ saved.bridge \subseteq Parts
      BY BellTypes DEF TypeOK, BoardType, DriverType
    <3>2. \/ saved' = [device |-> ReadDevice, bridge |-> saved.bridge]
          \/ saved' = [device |-> saved.device, bridge |-> bridge]
      BY <1>4 DEF Save
    <3>3. [device |-> ReadDevice, bridge |-> saved.bridge]
            \in [device : SUBSET Parts, bridge : SUBSET Parts]
      BY <3>1
    <3>4. [device |-> saved.device, bridge |-> bridge]
            \in [device : SUBSET Parts, bridge : SUBSET Parts]
      BY <3>1
    <3>. QED BY <3>2, <3>3, <3>4
  <2>. QED BY <1>4, <2>1 DEF Save, TypeOK, DriverType
<1>5. CASE Resumed(c)
  BY <1>5 DEF Resumed, Do, TypeOK, DriverType, configVars, boardVars, regVars, driverVars
<1>6. CASE Hold(c)
  BY <1>6 DEF Hold, Do, TypeOK, DriverType, Anything, configVars, boardVars, regVars, driverVars
<1>7. CASE Release(c)
  BY <1>7 DEF Release, Do, TypeOK, DriverType, configVars, boardVars, regVars, driverVars
<1>8. CASE WriteRegister(c)
  BY <1>8 DEF WriteRegister, Do, TypeOK, DriverType, Written, configVars, boardVars, regVars,
     driverVars
<1>9. CASE RingRestart(c)
  BY <1>9 DEF RingRestart, Do, TypeOK, DriverType, configVars, boardVars, regVars, driverVars
<1>10. CASE GetStatus(c)
  BY <1>10 DEF GetStatus, Do, TypeOK, DriverType, configVars, boardVars, regVars, driverVars
<1>11. CASE RunProgram(c)
  BY <1>11 DEF RunProgram, Do, TypeOK, DriverType, configVars, boardVars, regVars, driverVars
<1>12. CASE FreeFrames(c)
  BY <1>12 DEF FreeFrames, Do, TypeOK, DriverType, configVars, boardVars, regVars, driverVars
<1>13. CASE SetUp(c)
  BY <1>13 DEF SetUp, Do, TypeOK, DriverType, configVars, boardVars, regVars, driverVars
<1>14. CASE MaskIrqs(c)
  BY <1>14 DEF MaskIrqs, Do, TypeOK, DriverType, Written, configVars, boardVars, regVars,
     driverVars
<1>15. CASE Channels(c)
  BY <1>15 DEF Channels, Do, TypeOK, DriverType, configVars, boardVars, regVars, driverVars
<1>. QED
  BY <1>1, <1>2, <1>3, <1>4, <1>5, <1>6, <1>7, <1>8, <1>9, <1>10, <1>11, <1>12, <1>13, <1>14,
     <1>15 DEF Step

\* Type correctness of board control, for any number of callers.
THEOREM TypeCorrect == Spec => []TypeOK
<1>1. Init => TypeOK
  <2>. SUFFICES ASSUME Init PROVE TypeOK
    OBVIOUS
  <2>1. BoardType
    BY DEF Init, BoardType
  <2>2. base \in {"zero", "table", "junk"} /\ resp \in {"zero", "table", "junk"}
    BY DEF Init
  <2>3. mask \subseteq Bells /\ bells \subseteq Bells /\ woken \subseteq Bells
    BY DEF Init
  <2>4. kept \in [Callers -> SUBSET Parts] /\ old \in [Callers -> SUBSET Bells]
    BY DEF Init
  <2>5. DriverType
    BY DEF Init, DriverType
  <2>. QED BY <2>1, <2>2, <2>3, <2>4, <2>5 DEF TypeOK, RegisterType
<1>2. TypeOK /\ [Next]_vars => TypeOK'
  <2>. SUFFICES ASSUME TypeOK, [Next]_vars PROVE TypeOK'
    OBVIOUS
  <2>1. CASE UNCHANGED <<kind, configVars, boardVars, regVars, driverVars, woken, tmp>>
    BY <2>1 DEF TypeOK, BoardType, RegisterType, DriverType, configVars, boardVars, regVars,
       driverVars, tmp
  <2>2. ASSUME NEW c \in Callers, Step(c) PROVE TypeOK'
    BY <2>2, StepBoardType, StepRegisterType, StepDriverType DEF TypeOK
  <2>3. ASSUME NEW c \in Callers,
               \/ Reset(c) \/ Restart(c) \/ Run(c) \/ Remove(c) \/ Replace(c)
               \/ Diagnose(c) \/ Probe(c) \/ Unload(c) \/ Open(c) \/ Close(c)
        PROVE  TypeOK'
    BY <2>1, <2>3 DEF Reset, Restart, Run, Remove, Replace, Diagnose, Probe, Unload, Open,
       Close, Start
  <2>4. ASSUME NEW c \in Callers, MakeFrame(c) PROVE TypeOK'
    <3>1. BoardType' /\ RegisterType'
      BY <2>4 DEF MakeFrame, TypeOK, BoardType, RegisterType, configVars, boardVars, regVars,
         tmp
    <3>2. DriverType'
      BY <2>4 DEF MakeFrame, TypeOK, DriverType
    <3>. QED BY <3>1, <3>2 DEF TypeOK
  <2>5. CASE Interrupt
    <3>1. BoardType' /\ DriverType'
      BY <2>5 DEF Interrupt, TypeOK, BoardType, DriverType, configVars, boardVars, driverVars
    <3>2. bells' \subseteq Bells /\ woken' \subseteq Bells
      BY <2>5, BellTypes DEF Interrupt, Written, TypeOK, RegisterType
    <3>. QED BY <2>5, <3>1, <3>2 DEF Interrupt, TypeOK, RegisterType, tmp
  <2>6. CASE BoardRings
    <3>1. BoardType'
      BY <2>6 DEF BoardRings, TypeOK, BoardType, configVars, boardVars
    <3>2. RegisterType'
      BY <2>6 DEF BoardRings, TypeOK, RegisterType, regVars, tmp
    <3>3. DriverType'
      BY <2>6 DEF BoardRings, TypeOK, DriverType, driverVars
    <3>. QED BY <3>1, <3>2, <3>3 DEF TypeOK
  <2>7. CASE BoardBoots
    <3>1. BoardType'
      BY <2>7 DEF BoardBoots, TypeOK, BoardType, configVars
    <3>2. RegisterType'
      BY <2>7 DEF BoardBoots, TypeOK, RegisterType, regVars, tmp
    <3>3. DriverType'
      BY <2>7 DEF BoardBoots, TypeOK, DriverType, driverVars
    <3>. QED BY <3>1, <3>2, <3>3 DEF TypeOK
  <2>8. CASE PowerOff
    <3>1. BoardType'
      BY <2>8 DEF PowerOff, TypeOK, BoardType, configVars
    <3>2. RegisterType'
      BY <2>8 DEF PowerOff, TypeOK, RegisterType, regVars, tmp
    <3>3. DriverType'
      BY <2>8 DEF PowerOff, TypeOK, DriverType, driverVars
    <3>. QED BY <3>1, <3>2, <3>3 DEF TypeOK
  <2>9. CASE PowerOn
    <3>1. BoardType'
      BY <2>9 DEF PowerOn, Anything, TypeOK, BoardType, configVars
    <3>2. RegisterType'
      BY <2>9 DEF PowerOn, Anything, TypeOK, RegisterType, regVars, tmp
    <3>3. DriverType'
      BY <2>9 DEF PowerOn, Anything, TypeOK, DriverType, driverVars
    <3>. QED BY <3>1, <3>2, <3>3 DEF TypeOK
  <2>. QED
    BY <2>1, <2>2, <2>3, <2>4, <2>5, <2>6, <2>7, <2>8, <2>9 DEF Next, vars
<1>. QED
  BY <1>1, <1>2, PTL DEF Spec

\* The all-ones of a board out of reach read as masked (ISE), or as pending
\* and masked at once (JSE): the handler of either finds no bell in them.
LEMMA OnesAreSilent ==
  ASSUME kind \in {"ise", "jse"}, ~RegistersReached
  PROVE  get_bells = {}
BY DEF get_bells, ops_table, ise_get_bells, jse_get_bells, ReadBells, Bells

\* Only the interrupt handler finds bells; no step of a call does.
LEMMA StepWakesNone ==
  ASSUME NEW c \in Callers, Step(c)
  PROVE  woken' = woken
<1>1. CASE Config(c)
  BY <1>1 DEF Config, Do
<1>2. CASE Suspend(c)
  BY <1>2 DEF Suspend, Do
<1>3. CASE NoMemory(c)
  BY <1>3 DEF NoMemory, Do
<1>4. CASE Save(c)
  BY <1>4 DEF Save, Do
<1>5. CASE Resumed(c)
  BY <1>5 DEF Resumed, Do
<1>6. CASE Hold(c)
  BY <1>6 DEF Hold, Do
<1>7. CASE Release(c)
  BY <1>7 DEF Release, Do
<1>8. CASE WriteRegister(c)
  BY <1>8 DEF WriteRegister, Do
<1>9. CASE RingRestart(c)
  BY <1>9 DEF RingRestart, Do
<1>10. CASE GetStatus(c)
  BY <1>10 DEF GetStatus, Do
<1>11. CASE RunProgram(c)
  BY <1>11 DEF RunProgram, Do
<1>12. CASE FreeFrames(c)
  BY <1>12 DEF FreeFrames, Do
<1>13. CASE SetUp(c)
  BY <1>13 DEF SetUp, Do
<1>14. CASE MaskIrqs(c)
  BY <1>14 DEF MaskIrqs, Do
<1>15. CASE Channels(c)
  BY <1>15 DEF Channels, Do
<1>. QED
  BY <1>1, <1>2, <1>3, <1>4, <1>5, <1>6, <1>7, <1>8, <1>9, <1>10, <1>11, <1>12, <1>13, <1>14,
     <1>15 DEF Step

\* The handlers of ISE and JSE boards (ise_get_bells, jse_get_bells) find only
\* bells that the board has pending, in every state of its configuration.
THEOREM GhostFree ==
  ASSUME Kinds \subseteq {"ise", "jse"}
  PROVE  Spec => NoGhostBells
<1>1. TypeOK /\ [Next]_vars => (woken' # woken => woken' \subseteq bells)
  <2>. SUFFICES ASSUME TypeOK, [Next]_vars, woken' # woken PROVE woken' \subseteq bells
    OBVIOUS
  <2>1. kind \in {"ise", "jse"}
    BY DEF TypeOK, BoardType
  <2>2. CASE Interrupt
    <3>1. woken' = get_bells
      BY <2>2 DEF Interrupt
    <3>2. CASE ~RegistersReached
      BY <2>1, <3>1, <3>2, OnesAreSilent
    <3>3. CASE RegistersReached
      BY <2>1, <3>1, <3>3
      DEF get_bells, ops_table, ise_get_bells, jse_get_bells, ReadBells
    <3>. QED BY <3>2, <3>3
  <2>3. ASSUME NEW c \in Callers, Step(c) PROVE FALSE
    BY <2>3, StepWakesNone
  <2>4. ASSUME NEW c \in Callers,
               \/ Reset(c) \/ Restart(c) \/ Run(c) \/ Remove(c) \/ Replace(c)
               \/ Diagnose(c) \/ Probe(c) \/ Unload(c) \/ Open(c) \/ Close(c)
        PROVE  FALSE
    BY <2>4 DEF Reset, Restart, Run, Remove, Replace, Diagnose, Probe, Unload, Open, Close,
       Start
  <2>5. CASE (\E c \in Callers : MakeFrame(c)) \/ BoardRings \/ BoardBoots \/ PowerOff \/ PowerOn
    BY <2>5 DEF MakeFrame, BoardRings, BoardBoots, PowerOff, PowerOn
  <2>. QED
    BY <2>2, <2>3, <2>4, <2>5 DEF Next, vars
<1>. QED
  BY <1>1, TypeCorrect, PTL DEF NoGhostBells, Spec

-----------------------------------------------------------------------------
(* Calls as lists of steps.                                                *)

\* The steps that read or write a configuration space, ...
ConfigSteps ==
  {"keep_device", "put_device_back", "restore_device", "device_off", "device_regions",
   "device_on", "bridge_off", "bridge_regions", "bridge_on"}
\* ... that set up what probe needs and unload takes down, ...
SetUpSteps == {"instance", "registers", "irq", "list", "free_irq", "clear_instance"}
\* ... that write or read a register of the board, ...
WriteSteps ==
  {"base", "resp", "mask", "unmask", "clear_bells", "clear_resp", "table", "look"}
\* ... and all steps there are.
StepNames ==
  ConfigSteps \cup SetUpSteps \cup WriteSteps \cup
  {"suspend", "save_device", "save_bridge", "hold", "release", "free_frames", "resume",
   "mask_irqs", "unmask_irqs", "ring_restart", "get_status", "run", "opened", "closed"}

\* s is a list of n steps.
Sized(s, n) == s \in Seq(StepNames) /\ Len(s) = n

\* t is what is left of the list S from its step p on.
From(t, S, p) ==
  /\ t \in Seq(StepNames) /\ Len(t) = Len(S) - p + 1
  /\ \A k \in 1 .. Len(t) : t[k] = S[p + k - 1]

\* Lists with the same steps are the same.
LEMMA SameSteps ==
  ASSUME NEW n \in Nat, NEW s, NEW t, Sized(s, n), Sized(t, n),
         \A i \in 1 .. n : s[i] = t[i]
  PROVE  s = t
BY DEF Sized

\* A call begins with all of its steps left, ...
LEMMA FromStart ==
  ASSUME NEW n \in Nat, NEW S, Sized(S, n)
  PROVE  From(S, S, 1)
BY DEF Sized, From

\* A list of no steps is the empty one.
LEMMA NoSteps ==
  ASSUME NEW t \in Seq(StepNames), Len(t) = 0
  PROVE  t = <<>>
OBVIOUS

\* ... does them one after the other, and is over after the last one.
LEMMA FromStep ==
  ASSUME NEW n \in Nat, NEW S, Sized(S, n), NEW p \in 1 .. n, NEW t, From(t, S, p)
  PROVE  /\ t # <<>> /\ Head(t) = S[p]
         /\ Tail(t) \in Seq(StepNames) /\ From(Tail(t), S, p + 1)
         /\ p = n => Tail(t) = <<>>
<1>1. t \in Seq(StepNames) /\ Len(t) = n - p + 1 /\ \A k \in 1 .. Len(t) : t[k] = S[p + k - 1]
  BY DEF Sized, From
<1>2. t # <<>> /\ Head(t) = S[p]
  BY <1>1
<1>3. /\ Tail(t) \in Seq(StepNames) /\ Len(Tail(t)) = n - p
      /\ \A k \in 1 .. Len(Tail(t)) : Tail(t)[k] = t[k + 1]
  BY <1>1
<1>4. Len(S) = n
  BY DEF Sized
<1>5. ASSUME NEW k \in 1 .. Len(Tail(t))
      PROVE  Tail(t)[k] = S[(p + 1) + k - 1]
  <2>1. k + 1 \in 1 .. Len(t) /\ k \in Int
    BY <1>1, <1>3
  <2>2. Tail(t)[k] = t[k + 1] /\ t[k + 1] = S[p + (k + 1) - 1]
    BY <1>1, <1>3, <2>1
  <2>3. p + (k + 1) - 1 = (p + 1) + k - 1
    BY <2>1
  <2>. QED BY <2>2, <2>3
<1>6. From(Tail(t), S, p + 1)
  <2>1. Len(Tail(t)) = Len(S) - (p + 1) + 1
    BY <1>3, <1>4
  <2>. QED BY <1>3, <1>5, <2>1 DEF From
<1>7. ASSUME p = n
      PROVE  Tail(t) = <<>>
  <2>1. Len(Tail(t)) = 0
    BY <1>3, <1>7
  <2>. QED BY <1>3, <2>1, NoSteps
<1>. QED BY <1>2, <1>3, <1>6, <1>7

\* A later step of the list is still to come.
LEMMA FromLater ==
  ASSUME NEW n \in Nat, NEW S, Sized(S, n), NEW p \in 1 .. n, NEW t, From(t, S, p),
         NEW q \in p + 1 .. n
  PROVE  \E i \in 2 .. Len(t) : t[i] = S[q]
<1>1. Len(t) = n - p + 1 /\ \A k \in 1 .. Len(t) : t[k] = S[p + k - 1]
  BY DEF Sized, From
<1>2. q - p + 1 \in 2 .. Len(t) /\ t[q - p + 1] = S[q]
  BY <1>1
<1>. QED BY <1>2

\* The action of a step is the one its name says.
LEMMA WhichStep ==
  ASSUME NEW c \in Callers, Step(c)
  PROVE  LET s == Head(todo[c]) IN
         /\ todo[c] # <<>>
         /\ s \in ConfigSteps => Config(c)
         /\ s = "suspend" => Suspend(c) \/ NoMemory(c)
         /\ s \in {"save_device", "save_bridge"} => Save(c)
         /\ s = "resume" => Resumed(c)
         /\ s = "hold" => Hold(c)
         /\ s = "release" => Release(c)
         /\ s \in WriteSteps => WriteRegister(c)
         /\ s = "ring_restart" => RingRestart(c)
         /\ s = "get_status" => GetStatus(c)
         /\ s = "run" => RunProgram(c)
         /\ s = "free_frames" => FreeFrames(c)
         /\ s \in SetUpSteps => SetUp(c)
         /\ s \in {"mask_irqs", "unmask_irqs"} => MaskIrqs(c)
         /\ s \in {"opened", "closed"} => Channels(c)
<1> DEFINE s == Head(todo[c])
<1>1. todo[c] # <<>>
  BY DEF Step, Config, Suspend, NoMemory, Save, Resumed, Hold, Release, WriteRegister,
     RingRestart, GetStatus, RunProgram, FreeFrames, SetUp, MaskIrqs, Channels, Do
<1>2. /\ Config(c) => s \in ConfigSteps
      /\ Suspend(c) \/ NoMemory(c) => s = "suspend"
      /\ Save(c) => s \in {"save_device", "save_bridge"}
      /\ Resumed(c) => s = "resume"
      /\ Hold(c) => s = "hold"
      /\ Release(c) => s = "release"
      /\ WriteRegister(c) => s \in WriteSteps
      /\ RingRestart(c) => s = "ring_restart"
      /\ GetStatus(c) => s = "get_status"
      /\ RunProgram(c) => s = "run"
      /\ FreeFrames(c) => s = "free_frames"
      /\ SetUp(c) => s \in SetUpSteps
      /\ MaskIrqs(c) => s \in {"mask_irqs", "unmask_irqs"}
      /\ Channels(c) => s \in {"opened", "closed"}
  BY DEF Config, Suspend, NoMemory, Save, Resumed, Hold, Release, WriteRegister,
     RingRestart, GetStatus, RunProgram, FreeFrames, SetUp, MaskIrqs, Channels, Do,
     ConfigSteps, WriteSteps, SetUpSteps
<1> HIDE DEF s
<1>3. QED
  BY <1>1, <1>2 DEF s, Step, ConfigSteps, WriteSteps, SetUpSteps

\* Every step but the ones that can fail goes on to the next step.
LEMMA StepAdvances ==
  ASSUME NEW c \in Callers, Step(c), Head(todo[c]) \notin {"suspend", "get_status"}
  PROVE  todo' = [todo EXCEPT ![c] = Tail(todo[c])] /\ UNCHANGED <<kind, op>>
  BY DEF Step, Config, Suspend, NoMemory, Save, Resumed, Hold, Release, WriteRegister,
     RingRestart, GetStatus, RunProgram, FreeFrames, SetUp, MaskIrqs, Channels, Do

\* The steps of each call, of an ISE or a JSE where they differ.
Steps ==
  [ise_reset |->
      <<"keep_device", "hold", "put_device_back", "clear_bells", "base", "resp",
        "unmask", "base", "resp", "free_frames", "keep_device", "release",
        "put_device_back">>,
   jse_reset |->
      <<"hold", "base", "resp", "unmask", "base", "resp", "free_frames", "release">>,
   ise_restart |->
      <<"ring_restart", "clear_bells", "base", "resp", "unmask", "free_frames">>,
   jse_restart |->
      <<"ring_restart", "base", "resp", "unmask", "free_frames">>,
   ise_remove |->
      <<"suspend", "save_device", "save_bridge", "hold", "free_frames">>,
   jse_remove |->
      <<"suspend", "save_device", "hold", "free_frames">>,
   ise_replace |->
      <<"bridge_off", "device_off", "bridge_regions", "hold", "bridge_on",
        "device_regions", "device_on", "clear_bells", "base", "resp", "unmask", "base",
        "resp", "resume", "release">>,
   jse_replace |->
      <<"hold", "restore_device", "release", "base", "resp", "unmask", "base", "resp",
        "resume", "release">>,
   ise_probe |->
      <<"instance", "registers", "irq", "clear_bells", "base", "resp", "unmask",
        "list">>,
   jse_probe |->
      <<"instance", "registers", "irq", "base", "resp", "unmask", "list">>,
   ise_unload |->
      <<"mask", "base", "resp", "free_irq", "clear_instance">>,
   jse_unload |->
      <<"base", "resp", "mask", "free_irq", "clear_instance">>,
   open |->
      <<"clear_resp", "table", "mask_irqs", "unmask_irqs", "opened">>,
   close |->
      <<"base", "mask_irqs", "unmask_irqs", "closed">>,
   diagnose |->
      <<"look">>]

\* How many steps each of them has.
Size ==
  [ise_reset |-> 13, jse_reset |-> 8, ise_restart |-> 6, jse_restart |-> 5,
   ise_remove |-> 5, jse_remove |-> 4, ise_replace |-> 15, jse_replace |-> 10,
   ise_probe |-> 8, jse_probe |-> 7, ise_unload |-> 5, jse_unload |-> 5, open |-> 5,
   close |-> 4, diagnose |-> 1]

\* The lists, by name.
Calls == {"ise_reset", "jse_reset", "ise_restart", "jse_restart", "ise_remove",
          "jse_remove", "ise_replace", "jse_replace", "ise_probe", "jse_probe",
          "ise_unload", "jse_unload", "open", "close", "diagnose"}

-----------------------------------------------------------------------------
(* What holds between calls, and before step p of each call.               *)

\* The driver has set up the board and its device files.
Installed == ready = {"instance", "registers", "irq"} /\ listed

\* A board without its driver: as the BIOS, or the driver before, left it.
NotInstalled ==
  ready = {} /\ ~listed /\ ~suspense /\ ~channels /\ RegistersReached /\ proc = "running"

\* A board in service: configured, running, doorbells open, a root table only for
\* its channels.
Serving ==
  /\ Installed /\ ~suspense /\ RegistersReached /\ proc = "running"
  /\ mask = {} /\ base = IF channels THEN "table" ELSE "zero"

\* A removed board: no frames, what a replacement puts back is saved, and it does
\* nothing.
Out ==
  /\ Installed /\ suspense /\ ~channels /\ ~frames
  /\ saved.device = Parts /\ (kind = "ise" => saved.bridge = Parts)
  /\ device = {} \/ proc = "held" \/ ~power

\* Whatever the calls have been, between them the board is in one of the three.
AtRest == NotInstalled \/ Serving \/ Out

\* What -EBUSY and the guards of UCRX_SOFT_RESET leave.
Taken == Installed /\ ~suspense /\ ~channels /\ power

\* A reset of an ISE clears its device and finds it kept; the mailbox is clean
\* before the processor is let go.
IseReset(c, p) ==
  /\ kind = "ise" /\ Taken /\ bridge = Parts
  /\ p # 3 => device = Parts
  /\ p \in {2, 3, 12, 13} => kept[c] = Parts
  /\ proc = IF p \in 3 .. 12 THEN "held" ELSE "running"
  /\ (p >= 6 => base = "zero") /\ (p >= 7 => resp = "zero") /\ (p >= 8 => mask = {})

\* A reset of a JSE does not touch its configuration.
JseReset(c, p) ==
  /\ kind = "jse" /\ Taken /\ device = Parts
  /\ proc = IF p \in 2 .. 8 THEN "held" ELSE "running"
  /\ (p >= 3 => base = "zero") /\ (p >= 4 => resp = "zero") /\ (p >= 5 => mask = {})

\* A restart does not take the board out of service.
Restarting(c) ==
  /\ op[c] = "restart" /\ Serving /\ ~channels

\* A removal saves both configuration spaces of an ISE, holds it and frees its
\* frames, in this order.
IseRemove(p) ==
  /\ kind = "ise" /\ Installed /\ ~channels /\ power /\ bridge = Parts
  /\ (p >= 2 => suspense) /\ (p < 2 => ~suspense)
  /\ (p >= 3 => saved.device = Parts) /\ (p >= 4 => saved.bridge = Parts)
  /\ (p <= 4 => device = Parts) /\ (p >= 5 => proc = "held") /\ (p >= 6 => ~frames)

\* A JSE has one configuration space; its removal can fail at the first step.
JseRemove(p) ==
  /\ kind = "jse" /\ Installed /\ ~channels /\ power /\ device = Parts
  /\ (p = 1 => Serving)
  /\ (p >= 2 => suspense) /\ (p < 2 => ~suspense)
  /\ (p >= 3 => saved.device = Parts)
  /\ (p >= 4 => proc = "held") /\ (p >= 5 => ~frames)

\* A replacement finds only the saved configuration: it brings up the bridge, and
\* behind it the device, and clears the mailbox of the held processor.
IseReplace(p) ==
  /\ kind = "ise" /\ Installed /\ ~channels /\ power /\ ~frames
  /\ (p <= 14 => suspense) /\ (p > 14 => ~suspense)
  /\ saved.device = Parts /\ saved.bridge = Parts
  /\ (p >= 4 => "regions" \in bridge) /\ (p >= 6 => bridge = Parts)
  /\ (p \in 5 .. 15 => proc = "held") /\ (p >= 16 => proc = "running")
  /\ (p >= 7 => "regions" \in device) /\ (p >= 8 => device = Parts)
  /\ (p >= 10 => base = "zero") /\ (p >= 11 => resp = "zero") /\ (p >= 12 => mask = {})

\* The same without a bridge; the processor runs before its mailbox is clean.
JseReplace(p) ==
  /\ kind = "jse" /\ Installed /\ ~channels /\ power /\ ~frames
  /\ (p <= 9 => suspense) /\ (p > 9 => ~suspense)
  /\ saved.device = Parts
  /\ (p >= 3 => device = Parts) /\ (p >= 4 => proc = "running")
  /\ (p >= 5 => base = "zero") /\ (p >= 6 => resp = "zero") /\ (p >= 7 => mask = {})

\* What ise_probe has set up before its step p.
Assembled(p) ==
  /\ (p = 1 => ready = {}) /\ (p = 2 => ready = {"instance"})
  /\ (p = 3 => ready = {"instance", "registers"})
  /\ (p >= 4 => ready = {"instance", "registers", "irq"})

\* The board runs and is reached while it is set up: the registers of an ISE, ...
IseProbe(p) ==
  /\ kind = "ise" /\ ~suspense /\ ~channels /\ RegistersReached /\ proc = "running"
  /\ Assembled(p) /\ (p >= 9 => listed) /\ (p < 9 => ~listed)
  /\ (p >= 6 => base = "zero") /\ (p >= 8 => mask = {})

\* ... and of a JSE.
JseProbe(p) ==
  /\ kind = "jse" /\ ~suspense /\ ~channels /\ RegistersReached /\ proc = "running"
  /\ Assembled(p) /\ (p >= 8 => listed) /\ (p < 8 => ~listed)
  /\ (p >= 5 => base = "zero") /\ (p >= 7 => mask = {})

\* The registers are cleared while all is set up; the handler goes first.
Unloading(p) ==
  /\ ~suspense /\ ~channels /\ RegistersReached /\ proc = "running"
  /\ (p <= 4 => Installed) /\ (p = 5 => ready = {"instance", "registers"})
  /\ (p >= 6 => ready = {} /\ ~listed)

\* The first channel: the doorbells are masked for a step and opened again.
Opening(c, p) ==
  /\ Installed /\ ~suspense /\ RegistersReached /\ proc = "running"
  /\ (p >= 6 => channels) /\ (p < 6 => ~channels)
  /\ base = IF p >= 3 THEN "table" ELSE "zero"
  /\ (p # 4 => mask = {}) /\ (p = 4 => old[c] = {})

\* The last channel, likewise.
Closing(c, p) ==
  /\ Installed /\ ~suspense /\ RegistersReached /\ proc = "running"
  /\ (p <= 4 => channels) /\ (p > 4 => ~channels)
  /\ base = IF p >= 2 THEN "zero" ELSE "table"
  /\ (p # 3 => mask = {}) /\ (p = 3 => old[c] = {})

\* What holds before step p of call k of caller c, and after its last step for
\* p = Size[k] + 1.
Facts(k, c, p) ==
  /\ kind \in {"ise", "jse"}
  /\ \/ k = "ise_reset" /\ IseReset(c, p)
     \/ k = "jse_reset" /\ JseReset(c, p)
     \/ k \in {"ise_restart", "jse_restart"} /\ Restarting(c)
     \/ k = "ise_remove" /\ IseRemove(p)
     \/ k = "jse_remove" /\ JseRemove(p)
     \/ k = "ise_replace" /\ IseReplace(p)
     \/ k = "jse_replace" /\ JseReplace(p)
     \/ k = "ise_probe" /\ IseProbe(p)
     \/ k = "jse_probe" /\ JseProbe(p)
     \/ k \in {"ise_unload", "jse_unload"} /\ Unloading(p)
     \/ k = "open" /\ Opening(c, p)
     \/ k = "close" /\ Closing(c, p)
     \/ k = "diagnose" /\ Serving

\* With the command register written last, a configuration space is whole.
LEMMA Enabled ==
  ASSUME NEW s, s \subseteq Parts, "regions" \in s
  PROVE  s \cup (Parts \cap {"command"}) = Parts
BY DEF Parts

\* What is left set up when the interrupt is freed.
LEMMA Freed == {"instance", "registers", "irq"} \ {"irq"} = {"instance", "registers"}
OBVIOUS

\* A reset of an ISE: each step leaves what the next one finds.
LEMMA IseResetStep ==
  ASSUME TypeOK, NEW c \in Callers, Step(c), NEW p \in 1 .. 13,
         Head(todo[c]) = Steps.ise_reset[p], Facts("ise_reset", c, p)
  PROVE  Facts("ise_reset", c, p + 1)'
<1> USE DEF Facts, IseReset, configVars, boardVars, regVars, driverVars, tmp, Do,
      Installed, Taken, Serving, RegistersReached, Parts
<1>1. CASE p \in {1, 3, 11, 13}
  <2>1. Config(c)
    BY <1>1, WhichStep DEF Steps, ConfigSteps, WriteSteps, SetUpSteps
  <2>2. CASE p = 1
    BY <2>1, <2>2 DEF Config, ReadDevice, DeviceConfigReached, Steps, TypeOK, RegisterType
  <2>3. CASE p = 3
    BY <2>1, <2>3 DEF Config, ReadDevice, DeviceConfigReached, Steps, TypeOK, RegisterType
  <2>4. CASE p = 11
    BY <2>1, <2>4 DEF Config, ReadDevice, DeviceConfigReached, Steps, TypeOK, RegisterType
  <2>5. CASE p = 13
    BY <2>1, <2>5 DEF Config, ReadDevice, DeviceConfigReached, Steps, TypeOK, RegisterType
  <2>. QED BY <1>1, <2>2, <2>3, <2>4, <2>5
<1>2. CASE p = 2
  <2>1. Hold(c)
    BY <1>2, WhichStep DEF Steps, ConfigSteps, WriteSteps, SetUpSteps
  <2>. QED
    BY <1>2, <2>1 DEF Hold, Anything, Steps
<1>3. CASE p \in {4, 5, 6, 7, 8, 9}
  <2>1. WriteRegister(c)
    BY <1>3, WhichStep DEF Steps, ConfigSteps, WriteSteps, SetUpSteps
  <2>. QED
    BY <1>3, <2>1, SMTT(30) DEF WriteRegister, Written, Steps
<1>4. CASE p = 10
  <2>1. FreeFrames(c)
    BY <1>4, WhichStep DEF Steps, ConfigSteps, WriteSteps, SetUpSteps
  <2>. QED
    BY <1>4, <2>1 DEF FreeFrames, Steps
<1>5. CASE p = 12
  <2>1. Release(c)
    BY <1>5, WhichStep DEF Steps, ConfigSteps, WriteSteps, SetUpSteps
  <2>. QED
    BY <1>5, <2>1 DEF Release, Steps
<1>. QED BY <1>1, <1>2, <1>3, <1>4, <1>5

\* A reset of a JSE: each step leaves what the next one finds.
LEMMA JseResetStep ==
  ASSUME TypeOK, NEW c \in Callers, Step(c), NEW p \in 1 .. 8,
         Head(todo[c]) = Steps.jse_reset[p], Facts("jse_reset", c, p)
  PROVE  Facts("jse_reset", c, p + 1)'
<1> USE DEF Facts, JseReset, configVars, boardVars, regVars, driverVars, tmp, Do,
      Installed, Taken, Serving, RegistersReached, Parts
<1>1. CASE p = 1
  <2>1. Hold(c)
    BY <1>1, WhichStep DEF Steps, ConfigSteps, WriteSteps, SetUpSteps
  <2>. QED
    BY <1>1, <2>1 DEF Hold, Anything, Steps
<1>2. CASE p \in {2, 3, 4, 5, 6}
  <2>1. WriteRegister(c)
    BY <1>2, WhichStep DEF Steps, ConfigSteps, WriteSteps, SetUpSteps
  <2>. QED
    BY <1>2, <2>1 DEF WriteRegister, Written, Steps
<1>3. CASE p = 7
  <2>1. FreeFrames(c)
    BY <1>3, WhichStep DEF Steps, ConfigSteps, WriteSteps, SetUpSteps
  <2>. QED
    BY <1>3, <2>1 DEF FreeFrames, Steps
<1>4. CASE p = 8
  <2>1. Release(c)
    BY <1>4, WhichStep DEF Steps, ConfigSteps, WriteSteps, SetUpSteps
  <2>. QED
    BY <1>4, <2>1 DEF Release, Steps
<1>. QED BY <1>1, <1>2, <1>3, <1>4

\* A restart of an ISE: each step leaves what the next one finds.
LEMMA IseRestartStep ==
  ASSUME TypeOK, NEW c \in Callers, Step(c), NEW p \in 1 .. 6,
         Head(todo[c]) = Steps.ise_restart[p], Facts("ise_restart", c, p)
  PROVE  Facts("ise_restart", c, p + 1)'
<1> USE DEF Facts, Restarting, configVars, boardVars, regVars, driverVars, tmp, Do,
      Installed, Taken, Serving, RegistersReached, Parts
<1>1. CASE p = 1
  <2>1. RingRestart(c)
    BY <1>1, WhichStep DEF Steps, ConfigSteps, WriteSteps, SetUpSteps
  <2>. QED
    BY <1>1, <2>1 DEF RingRestart, Steps
<1>2. CASE p \in {2, 3, 4, 5}
  <2>1. WriteRegister(c)
    BY <1>2, WhichStep DEF Steps, ConfigSteps, WriteSteps, SetUpSteps
  <2>. QED
    BY <1>2, <2>1 DEF WriteRegister, Written, Steps
<1>3. CASE p = 6
  <2>1. FreeFrames(c)
    BY <1>3, WhichStep DEF Steps, ConfigSteps, WriteSteps, SetUpSteps
  <2>. QED
    BY <1>3, <2>1 DEF FreeFrames, Steps
<1>. QED BY <1>1, <1>2, <1>3

\* A restart of a JSE: each step leaves what the next one finds.
LEMMA JseRestartStep ==
  ASSUME TypeOK, NEW c \in Callers, Step(c), NEW p \in 1 .. 5,
         Head(todo[c]) = Steps.jse_restart[p], Facts("jse_restart", c, p)
  PROVE  Facts("jse_restart", c, p + 1)'
<1> USE DEF Facts, Restarting, configVars, boardVars, regVars, driverVars, tmp, Do,
      Installed, Taken, Serving, RegistersReached, Parts
<1>1. CASE p = 1
  <2>1. RingRestart(c)
    BY <1>1, WhichStep DEF Steps, ConfigSteps, WriteSteps, SetUpSteps
  <2>. QED
    BY <1>1, <2>1 DEF RingRestart, Steps
<1>2. CASE p \in {2, 3, 4}
  <2>1. WriteRegister(c)
    BY <1>2, WhichStep DEF Steps, ConfigSteps, WriteSteps, SetUpSteps
  <2>. QED
    BY <1>2, <2>1 DEF WriteRegister, Written, Steps
<1>3. CASE p = 5
  <2>1. FreeFrames(c)
    BY <1>3, WhichStep DEF Steps, ConfigSteps, WriteSteps, SetUpSteps
  <2>. QED
    BY <1>3, <2>1 DEF FreeFrames, Steps
<1>. QED BY <1>1, <1>2, <1>3

\* The removal of an ISE: each step leaves what the next one finds.
LEMMA IseRemoveStep ==
  ASSUME TypeOK, NEW c \in Callers, Step(c), NEW p \in 1 .. 5,
         Head(todo[c]) = Steps.ise_remove[p], Facts("ise_remove", c, p)
  PROVE  Facts("ise_remove", c, p + 1)'
<1> USE DEF Facts, IseRemove, configVars, boardVars, regVars, driverVars, tmp, Do,
      Installed, Taken, Serving, RegistersReached, Parts
<1>1. CASE p = 1
  <2>1. Suspend(c)
    BY <1>1, WhichStep DEF Steps, ConfigSteps, WriteSteps, SetUpSteps, NoMemory
  <2>. QED
    BY <1>1, <2>1 DEF Suspend, Steps
<1>2. CASE p \in {2, 3}
  <2>1. Save(c)
    BY <1>2, WhichStep DEF Steps, ConfigSteps, WriteSteps, SetUpSteps
  <2>2. CASE p = 2
    BY <2>1, <2>2 DEF Save, ReadDevice, DeviceConfigReached, Steps
  <2>3. CASE p = 3
    BY <2>1, <2>3 DEF Save, ReadDevice, DeviceConfigReached, Steps
  <2>. QED BY <1>2, <2>2, <2>3
<1>3. CASE p = 4
  <2>1. Hold(c)
    BY <1>3, WhichStep DEF Steps, ConfigSteps, WriteSteps, SetUpSteps
  <2>. QED
    BY <1>3, <2>1 DEF Hold, Anything, Steps
<1>4. CASE p = 5
  <2>1. FreeFrames(c)
    BY <1>4, WhichStep DEF Steps, ConfigSteps, WriteSteps, SetUpSteps
  <2>. QED
    BY <1>4, <2>1 DEF FreeFrames, Steps
<1>. QED BY <1>1, <1>2, <1>3, <1>4

\* The removal of a JSE, unless it fails: each step leaves what the next one finds.
LEMMA JseRemoveStep ==
  ASSUME TypeOK, NEW c \in Callers, Step(c), NEW p \in 1 .. 4,
         Head(todo[c]) = Steps.jse_remove[p], Facts("jse_remove", c, p), ~NoMemory(c)
  PROVE  Facts("jse_remove", c, p + 1)'
<1> USE DEF Facts, JseRemove, configVars, boardVars, regVars, driverVars, tmp, Do,
      Installed, Taken, Serving, RegistersReached, Parts
<1>1. CASE p = 1
  <2>1. Suspend(c)
    BY <1>1, WhichStep DEF Steps, ConfigSteps, WriteSteps, SetUpSteps
  <2>. QED
    BY <1>1, <2>1 DEF Suspend, Steps
<1>2. CASE p = 2
  <2>1. Save(c)
    BY <1>2, WhichStep DEF Steps, ConfigSteps, WriteSteps, SetUpSteps
  <2>. QED
    BY <1>2, <2>1 DEF Save, ReadDevice, DeviceConfigReached, Steps
<1>3. CASE p = 3
  <2>1. Hold(c)
    BY <1>3, WhichStep DEF Steps, ConfigSteps, WriteSteps, SetUpSteps
  <2>. QED
    BY <1>3, <2>1 DEF Hold, Anything, Steps
<1>4. CASE p = 4
  <2>1. FreeFrames(c)
    BY <1>4, WhichStep DEF Steps, ConfigSteps, WriteSteps, SetUpSteps
  <2>. QED
    BY <1>4, <2>1 DEF FreeFrames, Steps
<1>. QED BY <1>1, <1>2, <1>3, <1>4

\* The replacement of an ISE: each step leaves what the next one finds.
LEMMA IseReplaceStep ==
  ASSUME TypeOK, NEW c \in Callers, Step(c), NEW p \in 1 .. 15,
         Head(todo[c]) = Steps.ise_replace[p], Facts("ise_replace", c, p)
  PROVE  Facts("ise_replace", c, p + 1)'
<1> USE DEF Facts, IseReplace, configVars, boardVars, regVars, driverVars, tmp, Do,
      Installed, Taken, Serving, RegistersReached, Parts
<1>1. CASE p \in {1, 2, 3, 5, 6, 7}
  <2>1. Config(c)
    BY <1>1, WhichStep DEF Steps, ConfigSteps, WriteSteps, SetUpSteps
  <2>2. CASE p = 1
    BY <2>1, <2>2 DEF Config, ReadDevice, DeviceConfigReached, Steps, TypeOK, RegisterType
  <2>3. CASE p = 2
    BY <2>1, <2>3 DEF Config, ReadDevice, DeviceConfigReached, Steps, TypeOK, RegisterType
  <2>4. CASE p = 3
    BY <2>1, <2>4 DEF Config, ReadDevice, DeviceConfigReached, Steps, TypeOK, RegisterType
  <2>5. CASE p = 5
    <3>1. bridge' = bridge \cup (Parts \cap {"command"})
      BY <2>1, <2>5 DEF Config, DeviceConfigReached, Steps
    <3>2. bridge \subseteq Parts /\ "regions" \in bridge
      BY <2>5 DEF TypeOK, BoardType
    <3>3. bridge' = Parts
      BY <3>1, <3>2, Enabled
    <3>. QED BY <2>1, <2>5, <3>3 DEF Config, Steps
  <2>6. CASE p = 6
    BY <2>1, <2>6 DEF Config, ReadDevice, DeviceConfigReached, Steps, TypeOK, RegisterType
  <2>7. CASE p = 7
    <3>1. device' = device \cup (Parts \cap {"command"})
      BY <2>1, <2>7 DEF Config, DeviceConfigReached, Steps
    <3>2. device \subseteq Parts /\ "regions" \in device
      BY <2>7 DEF TypeOK, BoardType
    <3>3. device' = Parts
      BY <3>1, <3>2, Enabled
    <3>. QED BY <2>1, <2>7, <3>3 DEF Config, Steps
  <2>. QED BY <1>1, <2>2, <2>3, <2>4, <2>5, <2>6, <2>7
<1>2. CASE p = 4
  <2>1. Hold(c)
    BY <1>2, WhichStep DEF Steps, ConfigSteps, WriteSteps, SetUpSteps
  <2>. QED
    BY <1>2, <2>1 DEF Hold, Anything, Steps
<1>3. CASE p \in {8, 9, 10, 11, 12, 13}
  <2>1. WriteRegister(c)
    BY <1>3, WhichStep DEF Steps, ConfigSteps, WriteSteps, SetUpSteps
  <2>. QED
    BY <1>3, <2>1, SMTT(30) DEF WriteRegister, Written, Steps
<1>4. CASE p = 14
  <2>1. Resumed(c)
    BY <1>4, WhichStep DEF Steps, ConfigSteps, WriteSteps, SetUpSteps
  <2>. QED
    BY <1>4, <2>1 DEF Resumed, Steps
<1>5. CASE p = 15
  <2>1. Release(c)
    BY <1>5, WhichStep DEF Steps, ConfigSteps, WriteSteps, SetUpSteps
  <2>. QED
    BY <1>5, <2>1 DEF Release, Steps
<1>. QED BY <1>1, <1>2, <1>3, <1>4, <1>5

\* The replacement of a JSE: each step leaves what the next one finds.
LEMMA JseReplaceStep ==
  ASSUME TypeOK, NEW c \in Callers, Step(c), NEW p \in 1 .. 10,
         Head(todo[c]) = Steps.jse_replace[p], Facts("jse_replace", c, p)
  PROVE  Facts("jse_replace", c, p + 1)'
<1> USE DEF Facts, JseReplace, configVars, boardVars, regVars, driverVars, tmp, Do,
      Installed, Taken, Serving, RegistersReached, Parts
<1>1. CASE p = 1
  <2>1. Hold(c)
    BY <1>1, WhichStep DEF Steps, ConfigSteps, WriteSteps, SetUpSteps
  <2>. QED
    BY <1>1, <2>1 DEF Hold, Anything, Steps
<1>2. CASE p = 2
  <2>1. Config(c)
    BY <1>2, WhichStep DEF Steps, ConfigSteps, WriteSteps, SetUpSteps
  <2>. QED
    BY <1>2, <2>1 DEF Config, ReadDevice, DeviceConfigReached, Steps, TypeOK, RegisterType
<1>3. CASE p \in {3, 10}
  <2>1. Release(c)
    BY <1>3, WhichStep DEF Steps, ConfigSteps, WriteSteps, SetUpSteps
  <2>2. CASE p = 3
    BY <2>1, <2>2 DEF Release, Steps
  <2>3. CASE p = 10
    BY <2>1, <2>3 DEF Release, Steps
  <2>. QED BY <1>3, <2>2, <2>3
<1>4. CASE p \in {4, 5, 6, 7, 8}
  <2>1. WriteRegister(c)
    BY <1>4, WhichStep DEF Steps, ConfigSteps, WriteSteps, SetUpSteps
  <2>. QED
    BY <1>4, <2>1 DEF WriteRegister, Written, Steps
<1>5. CASE p = 9
  <2>1. Resumed(c)
    BY <1>5, WhichStep DEF Steps, ConfigSteps, WriteSteps, SetUpSteps
  <2>. QED
    BY <1>5, <2>1 DEF Resumed, Steps
<1>. QED BY <1>1, <1>2, <1>3, <1>4, <1>5

\* The probe of an ISE: each step leaves what the next one finds.
LEMMA IseProbeStep ==
  ASSUME TypeOK, NEW c \in Callers, Step(c), NEW p \in 1 .. 8,
         Head(todo[c]) = Steps.ise_probe[p], Facts("ise_probe", c, p)
  PROVE  Facts("ise_probe", c, p + 1)'
<1> USE DEF Facts, IseProbe, configVars, boardVars, regVars, driverVars, tmp, Do,
      Installed, Taken, Serving, RegistersReached, Parts, Assembled
<1>1. CASE p \in {1, 2, 3, 8}
  <2>1. SetUp(c)
    BY <1>1, WhichStep DEF Steps, ConfigSteps, WriteSteps, SetUpSteps
  <2>2. CASE p = 1
    BY <2>1, <2>2 DEF SetUp, Steps
  <2>3. CASE p = 2
    BY <2>1, <2>3 DEF SetUp, Steps
  <2>4. CASE p = 3
    BY <2>1, <2>4 DEF SetUp, Steps
  <2>5. CASE p = 8
    BY <2>1, <2>5 DEF SetUp, Steps
  <2>. QED BY <1>1, <2>2, <2>3, <2>4, <2>5
<1>2. CASE p \in {4, 5, 6, 7}
  <2>1. WriteRegister(c)
    BY <1>2, WhichStep DEF Steps, ConfigSteps, WriteSteps, SetUpSteps
  <2>2. CASE p = 4
    BY <2>1, <2>2 DEF WriteRegister, Written, Steps
  <2>3. CASE p = 5
    BY <2>1, <2>3 DEF WriteRegister, Written, Steps
  <2>4. CASE p = 6
    BY <2>1, <2>4 DEF WriteRegister, Written, Steps
  <2>5. CASE p = 7
    BY <2>1, <2>5 DEF WriteRegister, Written, Steps
  <2>. QED BY <1>2, <2>2, <2>3, <2>4, <2>5
<1>. QED BY <1>1, <1>2

\* The probe of a JSE: each step leaves what the next one finds.
LEMMA JseProbeStep ==
  ASSUME TypeOK, NEW c \in Callers, Step(c), NEW p \in 1 .. 7,
         Head(todo[c]) = Steps.jse_probe[p], Facts("jse_probe", c, p)
  PROVE  Facts("jse_probe", c, p + 1)'
<1> USE DEF Facts, JseProbe, configVars, boardVars, regVars, driverVars, tmp, Do,
      Installed, Taken, Serving, RegistersReached, Parts, Assembled
<1>1. CASE p \in {1, 2, 3, 7}
  <2>1. SetUp(c)
    BY <1>1, WhichStep DEF Steps, ConfigSteps, WriteSteps, SetUpSteps
  <2>2. CASE p = 1
    BY <2>1, <2>2 DEF SetUp, Steps
  <2>3. CASE p = 2
    BY <2>1, <2>3 DEF SetUp, Steps
  <2>4. CASE p = 3
    BY <2>1, <2>4 DEF SetUp, Steps
  <2>5. CASE p = 7
    BY <2>1, <2>5 DEF SetUp, Steps
  <2>. QED BY <1>1, <2>2, <2>3, <2>4, <2>5
<1>2. CASE p \in {4, 5, 6}
  <2>1. WriteRegister(c)
    BY <1>2, WhichStep DEF Steps, ConfigSteps, WriteSteps, SetUpSteps
  <2>2. CASE p = 4
    BY <2>1, <2>2 DEF WriteRegister, Written, Steps
  <2>3. CASE p = 5
    BY <2>1, <2>3 DEF WriteRegister, Written, Steps
  <2>4. CASE p = 6
    BY <2>1, <2>4 DEF WriteRegister, Written, Steps
  <2>. QED BY <1>2, <2>2, <2>3, <2>4
<1>. QED BY <1>1, <1>2

\* The driver's way out of an ISE: each step leaves what the next one finds.
LEMMA IseUnloadStep ==
  ASSUME TypeOK, NEW c \in Callers, Step(c), NEW p \in 1 .. 5,
         Head(todo[c]) = Steps.ise_unload[p], Facts("ise_unload", c, p)
  PROVE  Facts("ise_unload", c, p + 1)'
<1> USE DEF Facts, Unloading, configVars, boardVars, regVars, driverVars, tmp, Do,
      Installed, Taken, Serving, RegistersReached, Parts
<1>1. CASE p \in {1, 2, 3}
  <2>1. WriteRegister(c)
    BY <1>1, WhichStep DEF Steps, ConfigSteps, WriteSteps, SetUpSteps
  <2>. QED
    BY <1>1, <2>1 DEF WriteRegister, Written, Steps
<1>2. CASE p \in {4, 5}
  <2>1. SetUp(c)
    BY <1>2, WhichStep DEF Steps, ConfigSteps, WriteSteps, SetUpSteps
  <2>2. CASE p = 4
    <3>1. Head(todo[c]) = "free_irq"
      BY <2>2 DEF Steps
    <3>2. ready' = ready \ {"irq"} /\ UNCHANGED <<kind, listed>>
      BY <2>1, <3>1 DEF SetUp
    <3>3. ready' = {"instance", "registers"}
      BY <2>2, <3>2, Freed
    <3>4. UNCHANGED <<kind, bridge, device, power, proc, suspense, channels>>
      BY <2>1 DEF SetUp
    <3>. QED BY <2>2, <3>3, <3>4
  <2>3. CASE p = 5
    BY <2>1, <2>3 DEF SetUp, Steps
  <2>. QED BY <1>2, <2>2, <2>3
<1>. QED BY <1>1, <1>2

\* The driver's way out of a JSE: each step leaves what the next one finds.
LEMMA JseUnloadStep ==
  ASSUME TypeOK, NEW c \in Callers, Step(c), NEW p \in 1 .. 5,
         Head(todo[c]) = Steps.jse_unload[p], Facts("jse_unload", c, p)
  PROVE  Facts("jse_unload", c, p + 1)'
<1> USE DEF Facts, Unloading, configVars, boardVars, regVars, driverVars, tmp, Do,
      Installed, Taken, Serving, RegistersReached, Parts
<1>1. CASE p \in {1, 2, 3}
  <2>1. WriteRegister(c)
    BY <1>1, WhichStep DEF Steps, ConfigSteps, WriteSteps, SetUpSteps
  <2>. QED
    BY <1>1, <2>1 DEF WriteRegister, Written, Steps
<1>2. CASE p \in {4, 5}
  <2>1. SetUp(c)
    BY <1>2, WhichStep DEF Steps, ConfigSteps, WriteSteps, SetUpSteps
  <2>2. CASE p = 4
    <3>1. Head(todo[c]) = "free_irq"
      BY <2>2 DEF Steps
    <3>2. ready' = ready \ {"irq"} /\ UNCHANGED <<kind, listed>>
      BY <2>1, <3>1 DEF SetUp
    <3>3. ready' = {"instance", "registers"}
      BY <2>2, <3>2, Freed
    <3>4. UNCHANGED <<kind, bridge, device, power, proc, suspense, channels>>
      BY <2>1 DEF SetUp
    <3>. QED BY <2>2, <3>3, <3>4
  <2>3. CASE p = 5
    BY <2>1, <2>3 DEF SetUp, Steps
  <2>. QED BY <1>2, <2>2, <2>3
<1>. QED BY <1>1, <1>2

\* The first open: each step leaves what the next one finds.
LEMMA OpenStep ==
  ASSUME TypeOK, NEW c \in Callers, Step(c), NEW p \in 1 .. 5,
         Head(todo[c]) = Steps.open[p], Facts("open", c, p)
  PROVE  Facts("open", c, p + 1)'
<1> USE DEF Facts, Opening, configVars, boardVars, regVars, driverVars, tmp, Do,
      Installed, Taken, Serving, RegistersReached, Parts
<1>1. CASE p \in {1, 2}
  <2>1. WriteRegister(c)
    BY <1>1, WhichStep DEF Steps, ConfigSteps, WriteSteps, SetUpSteps
  <2>. QED
    BY <1>1, <2>1 DEF WriteRegister, Written, Steps
<1>2. CASE p \in {3, 4}
  <2>1. MaskIrqs(c)
    BY <1>2, WhichStep DEF Steps, ConfigSteps, WriteSteps, SetUpSteps
  <2>2. CASE p = 3
    BY <2>1, <2>2 DEF MaskIrqs, Written, ops_table, ise_mask_irqs, jse_mask_irqs,
       ise_unmask_irqs, jse_unmask_irqs, ReadBells, Steps, TypeOK, RegisterType
  <2>3. CASE p = 4
    BY <2>1, <2>3 DEF MaskIrqs, Written, ops_table, ise_mask_irqs, jse_mask_irqs,
       ise_unmask_irqs, jse_unmask_irqs, ReadBells, Steps, TypeOK, RegisterType
  <2>. QED BY <1>2, <2>2, <2>3
<1>3. CASE p = 5
  <2>1. Channels(c)
    BY <1>3, WhichStep DEF Steps, ConfigSteps, WriteSteps, SetUpSteps
  <2>. QED
    BY <1>3, <2>1 DEF Channels, Steps
<1>. QED BY <1>1, <1>2, <1>3

\* The last close: each step leaves what the next one finds.
LEMMA CloseStep ==
  ASSUME TypeOK, NEW c \in Callers, Step(c), NEW p \in 1 .. 4,
         Head(todo[c]) = Steps.close[p], Facts("close", c, p)
  PROVE  Facts("close", c, p + 1)'
<1> USE DEF Facts, Closing, configVars, boardVars, regVars, driverVars, tmp, Do,
      Installed, Taken, Serving, RegistersReached, Parts
<1>1. CASE p = 1
  <2>1. WriteRegister(c)
    BY <1>1, WhichStep DEF Steps, ConfigSteps, WriteSteps, SetUpSteps
  <2>. QED
    BY <1>1, <2>1 DEF WriteRegister, Written, Steps
<1>2. CASE p \in {2, 3}
  <2>1. MaskIrqs(c)
    BY <1>2, WhichStep DEF Steps, ConfigSteps, WriteSteps, SetUpSteps
  <2>2. CASE p = 2
    BY <2>1, <2>2 DEF MaskIrqs, Written, ops_table, ise_mask_irqs, jse_mask_irqs,
       ise_unmask_irqs, jse_unmask_irqs, ReadBells, Steps, TypeOK, RegisterType
  <2>3. CASE p = 3
    BY <2>1, <2>3 DEF MaskIrqs, Written, ops_table, ise_mask_irqs, jse_mask_irqs,
       ise_unmask_irqs, jse_unmask_irqs, ReadBells, Steps, TypeOK, RegisterType
  <2>. QED BY <1>2, <2>2, <2>3
<1>3. CASE p = 4
  <2>1. Channels(c)
    BY <1>3, WhichStep DEF Steps, ConfigSteps, WriteSteps, SetUpSteps
  <2>. QED
    BY <1>3, <2>1 DEF Channels, Steps
<1>. QED BY <1>1, <1>2, <1>3

\* A diagnosis: each step leaves what the next one finds.
LEMMA DiagnoseStep ==
  ASSUME TypeOK, NEW c \in Callers, Step(c), NEW p \in 1 .. 1,
         Head(todo[c]) = Steps.diagnose[p], Facts("diagnose", c, p)
  PROVE  Facts("diagnose", c, p + 1)'
<1> USE DEF Facts, Serving, configVars, boardVars, regVars, driverVars, tmp, Do,
      Installed, Taken, Serving, RegistersReached, Parts
<1>1. CASE p = 1
  <2>1. WriteRegister(c)
    BY <1>1, WhichStep DEF Steps, ConfigSteps, WriteSteps, SetUpSteps
  <2>. QED
    BY <1>1, <2>1 DEF WriteRegister, Written, Steps
<1>. QED BY <1>1

-----------------------------------------------------------------------------
\* The lists have the sizes given for them.
LEMMA ListsSized == \A k \in Calls : Sized(Steps[k], Size[k]) /\ Size[k] \in Nat
<1> USE DEF Sized, Steps, Size, StepNames, ConfigSteps, SetUpSteps, WriteSteps
<1>1. Sized(Steps["ise_reset"], Size["ise_reset"]) /\ Size["ise_reset"] \in Nat
  OBVIOUS
<1>2. Sized(Steps["jse_reset"], Size["jse_reset"]) /\ Size["jse_reset"] \in Nat
  OBVIOUS
<1>3. Sized(Steps["ise_restart"], Size["ise_restart"]) /\ Size["ise_restart"] \in Nat
  OBVIOUS
<1>4. Sized(Steps["jse_restart"], Size["jse_restart"]) /\ Size["jse_restart"] \in Nat
  OBVIOUS
<1>5. Sized(Steps["ise_remove"], Size["ise_remove"]) /\ Size["ise_remove"] \in Nat
  OBVIOUS
<1>6. Sized(Steps["jse_remove"], Size["jse_remove"]) /\ Size["jse_remove"] \in Nat
  OBVIOUS
<1>7. Sized(Steps["ise_replace"], Size["ise_replace"]) /\ Size["ise_replace"] \in Nat
  OBVIOUS
<1>8. Sized(Steps["jse_replace"], Size["jse_replace"]) /\ Size["jse_replace"] \in Nat
  OBVIOUS
<1>9. Sized(Steps["ise_probe"], Size["ise_probe"]) /\ Size["ise_probe"] \in Nat
  OBVIOUS
<1>10. Sized(Steps["jse_probe"], Size["jse_probe"]) /\ Size["jse_probe"] \in Nat
  OBVIOUS
<1>11. Sized(Steps["ise_unload"], Size["ise_unload"]) /\ Size["ise_unload"] \in Nat
  OBVIOUS
<1>12. Sized(Steps["jse_unload"], Size["jse_unload"]) /\ Size["jse_unload"] \in Nat
  OBVIOUS
<1>13. Sized(Steps["open"], Size["open"]) /\ Size["open"] \in Nat
  OBVIOUS
<1>14. Sized(Steps["close"], Size["close"]) /\ Size["close"] \in Nat
  OBVIOUS
<1>15. Sized(Steps["diagnose"], Size["diagnose"]) /\ Size["diagnose"] \in Nat
  OBVIOUS
<1> HIDE DEF Sized, Steps, Size, StepNames, ConfigSteps, SetUpSteps, WriteSteps
<1>. QED BY <1>1, <1>2, <1>3, <1>4, <1>5, <1>6, <1>7, <1>8, <1>9, <1>10, <1>11, <1>12,
      <1>13, <1>14, <1>15 DEF Calls

\* The steps of reset an ISE.
LEMMA IseResetList ==
  ASSUME kind = "ise"
  PROVE  ucrx_reset_board = Steps.ise_reset
<1> DEFINE L == <<"keep_device", "hold", "put_device_back">>
                \o <<"clear_bells", "base", "resp", "unmask">> \o <<"base", "resp">>
                \o <<"free_frames">> \o <<"keep_device", "release", "put_device_back">>
<1>1. Sized(L, Size.ise_reset) /\ \A i \in 1 .. Size.ise_reset : L[i] = Steps.ise_reset[i]
  BY DEF Sized, Steps, Size, StepNames, ConfigSteps, SetUpSteps, WriteSteps
<1>2. L = Steps.ise_reset
  BY <1>1, ListsSized, SameSteps DEF Calls
<1>3. ucrx_reset_board = L
  BY DEF ucrx_reset_board, set_root_table, init_hardware, soft_reset, ise_init_hardware,
     ise_soft_reset, ops_table
<1>. QED BY <1>2, <1>3

\* The steps of reset a JSE.
LEMMA JseResetList ==
  ASSUME kind = "jse"
  PROVE  ucrx_reset_board = Steps.jse_reset
<1> DEFINE L == <<"hold">> \o <<"base", "resp", "unmask">> \o <<"base", "resp">>
                \o <<"free_frames">> \o <<"release">>
<1>1. Sized(L, Size.jse_reset) /\ \A i \in 1 .. Size.jse_reset : L[i] = Steps.jse_reset[i]
  BY DEF Sized, Steps, Size, StepNames, ConfigSteps, SetUpSteps, WriteSteps
<1>2. L = Steps.jse_reset
  BY <1>1, ListsSized, SameSteps DEF Calls
<1>3. ucrx_reset_board = L
  BY DEF ucrx_reset_board, set_root_table, init_hardware, soft_reset, jse_init_hardware,
     jse_soft_reset, ops_table
<1>. QED BY <1>2, <1>3

\* The steps of restart an ISE.
LEMMA IseRestartList ==
  ASSUME kind = "ise"
  PROVE  ucrx_restart_board = Steps.ise_restart
<1> DEFINE L == <<"ring_restart">> \o <<"clear_bells", "base", "resp", "unmask">>
                \o <<"free_frames">>
<1>1. Sized(L, Size.ise_restart) /\ \A i \in 1 .. Size.ise_restart : L[i] = Steps.ise_restart[i]
  BY DEF Sized, Steps, Size, StepNames, ConfigSteps, SetUpSteps, WriteSteps
<1>2. L = Steps.ise_restart
  BY <1>1, ListsSized, SameSteps DEF Calls
<1>3. ucrx_restart_board = L
  BY DEF ucrx_restart_board, init_hardware, ise_init_hardware, ops_table
<1>. QED BY <1>2, <1>3

\* The steps of restart a JSE.
LEMMA JseRestartList ==
  ASSUME kind = "jse"
  PROVE  ucrx_restart_board = Steps.jse_restart
<1> DEFINE L == <<"ring_restart">> \o <<"base", "resp", "unmask">> \o <<"free_frames">>
<1>1. Sized(L, Size.jse_restart) /\ \A i \in 1 .. Size.jse_restart : L[i] = Steps.jse_restart[i]
  BY DEF Sized, Steps, Size, StepNames, ConfigSteps, SetUpSteps, WriteSteps
<1>2. L = Steps.jse_restart
  BY <1>1, ListsSized, SameSteps DEF Calls
<1>3. ucrx_restart_board = L
  BY DEF ucrx_restart_board, init_hardware, jse_init_hardware, ops_table
<1>. QED BY <1>2, <1>3

\* The steps of remove an ISE.
LEMMA IseRemoveList ==
  ASSUME kind = "ise"
  PROVE  soft_remove = Steps.ise_remove
BY DEF soft_remove, isex_remove, ops_table, Steps

\* The steps of remove a JSE.
LEMMA JseRemoveList ==
  ASSUME kind = "jse"
  PROVE  soft_remove = Steps.jse_remove
<1> DEFINE L == <<"suspend", "save_device">> \o <<"hold">> \o <<"free_frames">>
<1>1. Sized(L, Size.jse_remove) /\ \A i \in 1 .. Size.jse_remove : L[i] = Steps.jse_remove[i]
  BY DEF Sized, Steps, Size, StepNames, ConfigSteps, SetUpSteps, WriteSteps
<1>2. L = Steps.jse_remove
  BY <1>1, ListsSized, SameSteps DEF Calls
<1>3. soft_remove = L
  BY DEF soft_remove, jsex_remove, jse_soft_reset, ops_table
<1>. QED BY <1>2, <1>3

\* The steps of replace an ISE.
LEMMA IseReplaceList ==
  ASSUME kind = "ise"
  PROVE  soft_replace = Steps.ise_replace
<1> DEFINE L == <<"bridge_off", "device_off", "bridge_regions", "hold", "bridge_on",
                  "device_regions", "device_on">>
                \o <<"clear_bells", "base", "resp", "unmask">> \o <<"base", "resp">>
                \o <<"resume", "release">>
<1>1. Sized(L, Size.ise_replace) /\ \A i \in 1 .. Size.ise_replace : L[i] = Steps.ise_replace[i]
  BY DEF Sized, Steps, Size, StepNames, ConfigSteps, SetUpSteps, WriteSteps
<1>2. L = Steps.ise_replace
  BY <1>1, ListsSized, SameSteps DEF Calls
<1>3. soft_replace = L
  BY DEF soft_replace, isex_replace, set_root_table, init_hardware, ise_init_hardware,
     ops_table
<1>. QED BY <1>2, <1>3

\* The steps of replace a JSE.
LEMMA JseReplaceList ==
  ASSUME kind = "jse"
  PROVE  soft_replace = Steps.jse_replace
<1> DEFINE L == <<"hold">> \o <<"restore_device">> \o <<"release">>
                \o <<"base", "resp", "unmask">> \o <<"base", "resp">> \o <<"resume">>
                \o <<"release">>
<1>1. Sized(L, Size.jse_replace) /\ \A i \in 1 .. Size.jse_replace : L[i] = Steps.jse_replace[i]
  BY DEF Sized, Steps, Size, StepNames, ConfigSteps, SetUpSteps, WriteSteps
<1>2. L = Steps.jse_replace
  BY <1>1, ListsSized, SameSteps DEF Calls
<1>3. soft_replace = L
  BY DEF soft_replace, jsex_replace, set_root_table, init_hardware, jse_init_hardware,
     jse_soft_reset, ops_table
<1>. QED BY <1>2, <1>3

\* The steps of probe an ISE.
LEMMA IseProbeList ==
  ASSUME kind = "ise"
  PROVE  ise_probe = Steps.ise_probe
<1> DEFINE L == <<"instance", "registers", "irq">>
                \o <<"clear_bells", "base", "resp", "unmask">> \o <<"list">>
<1>1. Sized(L, Size.ise_probe) /\ \A i \in 1 .. Size.ise_probe : L[i] = Steps.ise_probe[i]
  BY DEF Sized, Steps, Size, StepNames, ConfigSteps, SetUpSteps, WriteSteps
<1>2. L = Steps.ise_probe
  BY <1>1, ListsSized, SameSteps DEF Calls
<1>3. ise_probe = L
  BY DEF ise_probe, init_hardware, ise_init_hardware, ops_table
<1>. QED BY <1>2, <1>3

\* The steps of probe a JSE.
LEMMA JseProbeList ==
  ASSUME kind = "jse"
  PROVE  ise_probe = Steps.jse_probe
<1> DEFINE L == <<"instance", "registers", "irq">> \o <<"base", "resp", "unmask">>
                \o <<"list">>
<1>1. Sized(L, Size.jse_probe) /\ \A i \in 1 .. Size.jse_probe : L[i] = Steps.jse_probe[i]
  BY DEF Sized, Steps, Size, StepNames, ConfigSteps, SetUpSteps, WriteSteps
<1>2. L = Steps.jse_probe
  BY <1>1, ListsSized, SameSteps DEF Calls
<1>3. ise_probe = L
  BY DEF ise_probe, init_hardware, jse_init_hardware, ops_table
<1>. QED BY <1>2, <1>3

\* The steps of unload an ISE.
LEMMA IseUnloadList ==
  ASSUME kind = "ise"
  PROVE  ise_remove = Steps.ise_unload
<1> DEFINE L == <<"mask", "base", "resp">> \o <<"free_irq", "clear_instance">>
<1>1. Sized(L, Size.ise_unload) /\ \A i \in 1 .. Size.ise_unload : L[i] = Steps.ise_unload[i]
  BY DEF Sized, Steps, Size, StepNames, ConfigSteps, SetUpSteps, WriteSteps
<1>2. L = Steps.ise_unload
  BY <1>1, ListsSized, SameSteps DEF Calls
<1>3. ise_remove = L
  BY DEF ise_remove, clear_hardware, ise_clear_hardware, ops_table
<1>. QED BY <1>2, <1>3

\* The steps of unload a JSE.
LEMMA JseUnloadList ==
  ASSUME kind = "jse"
  PROVE  ise_remove = Steps.jse_unload
<1> DEFINE L == <<"base", "resp", "mask">> \o <<"free_irq", "clear_instance">>
<1>1. Sized(L, Size.jse_unload) /\ \A i \in 1 .. Size.jse_unload : L[i] = Steps.jse_unload[i]
  BY DEF Sized, Steps, Size, StepNames, ConfigSteps, SetUpSteps, WriteSteps
<1>2. L = Steps.jse_unload
  BY <1>1, ListsSized, SameSteps DEF Calls
<1>3. ise_remove = L
  BY DEF ise_remove, clear_hardware, jse_clear_hardware, ops_table
<1>. QED BY <1>2, <1>3

-----------------------------------------------------------------------------
\* A step of a call takes what holds before it to what holds before the next.
LEMMA FactsStep ==
  ASSUME TypeOK, NEW c \in Callers, Step(c), ~NoMemory(c), NEW k \in Calls,
         NEW p \in 1 .. Size[k], Head(todo[c]) = Steps[k][p], Facts(k, c, p)
  PROVE  Facts(k, c, p + 1)'
<1>1. CASE k = "ise_reset"
  <2>1. p \in 1 .. 13 /\ Head(todo[c]) = Steps.ise_reset[p] /\ Facts("ise_reset", c, p)
    BY <1>1 DEF Size
  <2>. QED BY <1>1, <2>1, IseResetStep
<1>2. CASE k = "jse_reset"
  <2>1. p \in 1 .. 8 /\ Head(todo[c]) = Steps.jse_reset[p] /\ Facts("jse_reset", c, p)
    BY <1>2 DEF Size
  <2>. QED BY <1>2, <2>1, JseResetStep
<1>3. CASE k = "ise_restart"
  <2>1. p \in 1 .. 6 /\ Head(todo[c]) = Steps.ise_restart[p] /\ Facts("ise_restart", c, p)
    BY <1>3 DEF Size
  <2>. QED BY <1>3, <2>1, IseRestartStep
<1>4. CASE k = "jse_restart"
  <2>1. p \in 1 .. 5 /\ Head(todo[c]) = Steps.jse_restart[p] /\ Facts("jse_restart", c, p)
    BY <1>4 DEF Size
  <2>. QED BY <1>4, <2>1, JseRestartStep
<1>5. CASE k = "ise_remove"
  <2>1. p \in 1 .. 5 /\ Head(todo[c]) = Steps.ise_remove[p] /\ Facts("ise_remove", c, p)
    BY <1>5 DEF Size
  <2>. QED BY <1>5, <2>1, IseRemoveStep
<1>6. CASE k = "jse_remove"
  <2>1. p \in 1 .. 4 /\ Head(todo[c]) = Steps.jse_remove[p] /\ Facts("jse_remove", c, p)
    BY <1>6 DEF Size
  <2>. QED BY <1>6, <2>1, JseRemoveStep
<1>7. CASE k = "ise_replace"
  <2>1. p \in 1 .. 15 /\ Head(todo[c]) = Steps.ise_replace[p] /\ Facts("ise_replace", c, p)
    BY <1>7 DEF Size
  <2>. QED BY <1>7, <2>1, IseReplaceStep
<1>8. CASE k = "jse_replace"
  <2>1. p \in 1 .. 10 /\ Head(todo[c]) = Steps.jse_replace[p] /\ Facts("jse_replace", c, p)
    BY <1>8 DEF Size
  <2>. QED BY <1>8, <2>1, JseReplaceStep
<1>9. CASE k = "ise_probe"
  <2>1. p \in 1 .. 8 /\ Head(todo[c]) = Steps.ise_probe[p] /\ Facts("ise_probe", c, p)
    BY <1>9 DEF Size
  <2>. QED BY <1>9, <2>1, IseProbeStep
<1>10. CASE k = "jse_probe"
  <2>1. p \in 1 .. 7 /\ Head(todo[c]) = Steps.jse_probe[p] /\ Facts("jse_probe", c, p)
    BY <1>10 DEF Size
  <2>. QED BY <1>10, <2>1, JseProbeStep
<1>11. CASE k = "ise_unload"
  <2>1. p \in 1 .. 5 /\ Head(todo[c]) = Steps.ise_unload[p] /\ Facts("ise_unload", c, p)
    BY <1>11 DEF Size
  <2>. QED BY <1>11, <2>1, IseUnloadStep
<1>12. CASE k = "jse_unload"
  <2>1. p \in 1 .. 5 /\ Head(todo[c]) = Steps.jse_unload[p] /\ Facts("jse_unload", c, p)
    BY <1>12 DEF Size
  <2>. QED BY <1>12, <2>1, JseUnloadStep
<1>13. CASE k = "open"
  <2>1. p \in 1 .. 5 /\ Head(todo[c]) = Steps.open[p] /\ Facts("open", c, p)
    BY <1>13 DEF Size
  <2>. QED BY <1>13, <2>1, OpenStep
<1>14. CASE k = "close"
  <2>1. p \in 1 .. 4 /\ Head(todo[c]) = Steps.close[p] /\ Facts("close", c, p)
    BY <1>14 DEF Size
  <2>. QED BY <1>14, <2>1, CloseStep
<1>15. CASE k = "diagnose"
  <2>1. p \in 1 .. 1 /\ Head(todo[c]) = Steps.diagnose[p] /\ Facts("diagnose", c, p)
    BY <1>15 DEF Size
  <2>. QED BY <1>15, <2>1, DiagnoseStep
<1>. QED
  BY <1>1, <1>2, <1>3, <1>4, <1>5, <1>6, <1>7, <1>8, <1>9, <1>10, <1>11, <1>12, <1>13,
     <1>14, <1>15 DEF Calls

\* After its last step a call leaves the board at rest.
LEMMA FactsEnd ==
  ASSUME NEW c \in Callers, NEW k \in Calls, Facts(k, c, Size[k] + 1)'
  PROVE  AtRest'
<1> USE DEF Facts, AtRest, Size
<1>1. CASE k = "ise_reset"
  BY <1>1 DEF IseReset, Taken, Serving, RegistersReached
<1>2. CASE k = "jse_reset"
  BY <1>2 DEF JseReset, Taken, Serving, RegistersReached
<1>3. CASE k = "ise_restart"
  BY <1>3 DEF Restarting
<1>4. CASE k = "jse_restart"
  BY <1>4 DEF Restarting
<1>5. CASE k = "ise_remove"
  BY <1>5 DEF IseRemove, Out
<1>6. CASE k = "jse_remove"
  BY <1>6 DEF JseRemove, Out
<1>7. CASE k = "ise_replace"
  BY <1>7 DEF IseReplace, Serving, RegistersReached
<1>8. CASE k = "jse_replace"
  BY <1>8 DEF JseReplace, Serving, RegistersReached
<1>9. CASE k = "ise_probe"
  BY <1>9 DEF IseProbe, Assembled, Serving, Installed
<1>10. CASE k = "jse_probe"
  BY <1>10 DEF JseProbe, Assembled, Serving, Installed
<1>11. CASE k = "ise_unload"
  BY <1>11 DEF Unloading, NotInstalled
<1>12. CASE k = "jse_unload"
  BY <1>12 DEF Unloading, NotInstalled
<1>13. CASE k = "open"
  BY <1>13 DEF Opening, Serving
<1>14. CASE k = "close"
  BY <1>14 DEF Closing, Serving
<1>15. CASE k = "diagnose"
  BY <1>15 DEF Serving
<1>. QED
  BY <1>1, <1>2, <1>3, <1>4, <1>5, <1>6, <1>7, <1>8, <1>9, <1>10, <1>11, <1>12, <1>13,
     <1>14, <1>15 DEF Calls

-----------------------------------------------------------------------------
(* The invariant.                                                          *)

\* Calls are made one after the other: no two callers are in one at a time.
OneCallAtATime == \A c, d \in Callers : Idle(c) \/ Idle(d) \/ c = d

\* A call is at one of its steps, and what holds there holds.  UCRX_RUN is a
\* list of its own, for its first step decides on the second.
Working(c) ==
  \/ \E k \in Calls : \E p \in 1 .. Size[k] : From(todo[c], Steps[k], p) /\ Facts(k, c, p)
  \/ todo[c] \in {<<"get_status">>, <<"run">>} /\ Serving

\* What a caller has called last.
CallNames ==
  {"none", "reset", "restart", "run", "remove", "replace", "diagnose", "probe", "unload",
   "open", "close"}

\* The inductive invariant: between calls the board is at rest, and during a call
\* what holds there holds.
Inv ==
  /\ todo \in [Callers -> Seq(StepNames)] /\ op \in [Callers -> CallNames]
  /\ kind \in {"ise", "jse"}
  /\ (\A c \in Callers : Idle(c)) => AtRest
  /\ \A c \in Callers : ~Idle(c) => Working(c)

\* A call with steps left is not idle, and its next step is that of its list.
LEMMA StepsLeft ==
  ASSUME NEW k \in Calls, NEW p \in 1 .. Size[k], NEW t, From(t, Steps[k], p)
  PROVE  t # <<>> /\ Head(t) = Steps[k][p]
<1>1. Sized(Steps[k], Size[k]) /\ Size[k] \in Nat
  BY ListsSized
<1>. QED BY <1>1, FromStep

\* So for the call a caller is in.
LEMMA AtStep ==
  ASSUME NEW c \in Callers, NEW k \in Calls, NEW p \in 1 .. Size[k],
         From(todo[c], Steps[k], p)
  PROVE  ~Idle(c) /\ Head(todo[c]) = Steps[k][p] /\ NextStep(c) = Steps[k][p]
BY StepsLeft DEF Idle, NextStep

\* Of the steps that can fail, "get_status" is in no list and "suspend" is the
\* first of a removal.
LEMMA FailingSteps ==
  ASSUME NEW k \in Calls, NEW p \in 1 .. Size[k]
  PROVE  /\ Steps[k][p] # "get_status"
         /\ Steps[k][p] = "suspend" => p = 1 /\ k \in {"ise_remove", "jse_remove"}
BY DEF Calls, Size, Steps

\* A step of a caller keeps the invariant while all others are idle.
LEMMA StepKeeps ==
  ASSUME TypeOK, Inv, OneCallAtATime, NEW c \in Callers, Step(c)
  PROVE  Inv'
<1>1. ~Idle(c) /\ Working(c) /\ \A d \in Callers \ {c} : Idle(d)
  BY WhichStep DEF Idle, Inv, OneCallAtATime
<1>2. ASSUME NEW t \in Seq(StepNames), todo' = [todo EXCEPT ![c] = t],
             UNCHANGED <<kind, op>>, t = <<>> => AtRest', t # <<>> => Working(c)'
      PROVE  Inv'
  <2>1. todo'[c] = t
    BY <1>2 DEF Inv
  <2>2. todo' \in [Callers -> Seq(StepNames)] /\ op' \in [Callers -> CallNames]
        /\ kind' \in {"ise", "jse"}
    BY <1>2 DEF Inv
  <2>3. \A d \in Callers \ {c} : Idle(d)'
    BY <1>1, <1>2 DEF Idle, Inv
  <2>4. (\A d \in Callers : Idle(d)') => AtRest'
    BY <1>2, <2>1 DEF Idle
  <2>5. \A d \in Callers : ~Idle(d)' => Working(d)'
    BY <1>2, <2>1, <2>3 DEF Idle
  <2>. QED BY <2>2, <2>4, <2>5 DEF Inv
<1>3. CASE todo[c] \in {<<"get_status">>, <<"run">>} /\ Serving
  <2>1. CASE todo[c] = <<"get_status">>
    <3>1. GetStatus(c)
      BY <2>1, WhichStep
    <3>2. Serving'
      BY <1>3, <3>1 DEF GetStatus, Serving, Installed, RegistersReached, configVars,
         boardVars, regVars, driverVars
    <3>3. /\ todo' = [todo EXCEPT ![c] = IF program = "boot" THEN <<>> ELSE <<"run">>]
          /\ UNCHANGED <<kind, op>>
      BY <3>1 DEF GetStatus
    <3>4. <<>> \in Seq(StepNames) /\ <<"run">> \in Seq(StepNames)
      BY DEF StepNames
    <3>5. CASE program = "boot"
      <4>1. todo' = [todo EXCEPT ![c] = <<>>]
        BY <3>3, <3>5
      <4>. QED BY <3>2, <3>3, <3>4, <4>1, <1>2 DEF AtRest
    <3>6. CASE program # "boot"
      <4>1. todo' = [todo EXCEPT ![c] = <<"run">>]
        BY <3>3, <3>6
      <4>2. Working(c)'
        BY <3>2, <4>1 DEF Working, Inv
      <4>3. <<"run">> # <<>>
        OBVIOUS
      <4>. QED BY <3>3, <3>4, <4>1, <4>2, <4>3, <1>2
    <3>. QED BY <3>5, <3>6
  <2>2. CASE todo[c] = <<"run">>
    <3>1. RunProgram(c) /\ Head(todo[c]) = "run" /\ Tail(todo[c]) = <<>>
      BY <2>2, WhichStep
    <3>2. Serving'
      BY <1>3, <3>1 DEF RunProgram, Do, Serving, Installed, RegistersReached, configVars,
         boardVars, regVars, driverVars
    <3>3. todo' = [todo EXCEPT ![c] = <<>>] /\ UNCHANGED <<kind, op>>
      BY <3>1, StepAdvances
    <3>4. <<>> \in Seq(StepNames)
      OBVIOUS
    <3>. QED BY <3>2, <3>3, <3>4, <1>2 DEF AtRest
  <2>. QED BY <1>3, <2>1, <2>2
<1>4. ASSUME NEW k \in Calls, NEW p \in 1 .. Size[k], From(todo[c], Steps[k], p),
             Facts(k, c, p)
      PROVE  Inv'
  <2>1. /\ Sized(Steps[k], Size[k]) /\ Size[k] \in Nat
        /\ Head(todo[c]) = Steps[k][p]
    BY <1>4, ListsSized, AtStep
  <2>2. CASE NoMemory(c)
    <3>1. k = "jse_remove" /\ p = 1
      BY <1>4, <2>1, <2>2, FailingSteps DEF NoMemory, Facts, IseRemove
    <3>2. Serving
      BY <1>4, <3>1 DEF Facts, JseRemove
    <3>3. Serving'
      BY <2>2, <3>2 DEF NoMemory, Serving, Installed, RegistersReached, configVars,
         boardVars, regVars, driverVars
    <3>4. todo' = [todo EXCEPT ![c] = <<>>] /\ UNCHANGED <<kind, op>>
      BY <2>2 DEF NoMemory
    <3>5. <<>> \in Seq(StepNames)
      OBVIOUS
    <3>. QED BY <3>3, <3>4, <3>5, <1>2 DEF AtRest
  <2>3. CASE ~NoMemory(c)
    <3>1. Facts(k, c, p + 1)'
      BY <1>4, <2>1, <2>3, FactsStep
    <3>2. todo' = [todo EXCEPT ![c] = Tail(todo[c])] /\ UNCHANGED <<kind, op>>
      <4>1. CASE Head(todo[c]) = "suspend"
        <5>1. Suspend(c)
          BY <2>3, <4>1, WhichStep
        <5>. QED BY <5>1 DEF Suspend, Do
      <4>2. CASE Head(todo[c]) # "suspend"
        BY <1>4, <2>1, <4>2, FailingSteps, StepAdvances
      <4>. QED BY <4>1, <4>2
    <3>3. /\ Tail(todo[c]) \in Seq(StepNames) /\ From(Tail(todo[c]), Steps[k], p + 1)
          /\ p = Size[k] => Tail(todo[c]) = <<>>
      BY <1>4, <2>1, FromStep
    <3>4. todo'[c] = Tail(todo[c])
      BY <3>2 DEF Inv
    <3>5. CASE p = Size[k]
      <4>1. AtRest'
        BY <3>1, <3>5, FactsEnd
      <4>. QED BY <3>2, <3>3, <3>4, <3>5, <4>1, <1>2
    <3>6. CASE p # Size[k]
      <4>1. p + 1 \in 1 .. Size[k]
        BY <2>1, <3>6
      <4>2. Working(c)'
        <5>1. From(todo'[c], Steps[k], p + 1)
          BY <3>3, <3>4
        <5>. QED BY <3>1, <4>1, <5>1 DEF Working
      <4>3. Tail(todo[c]) # <<>>
        BY <3>3, <4>1, StepsLeft
      <4>. QED BY <3>2, <3>3, <3>4, <4>2, <4>3, <1>2
    <3>. QED BY <3>5, <3>6
  <2>. QED BY <2>2, <2>3
<1>. QED BY <1>1, <1>3, <1>4 DEF Working

\* A call that starts finds the board at rest, and is at its first step.
LEMMA StartKeeps ==
  ASSUME Inv, OneCallAtATime', NEW c \in Callers, NEW name \in CallNames, NEW steps,
         Start(c, name, steps), steps # <<>>, steps \in Seq(StepNames),
         AtRest => Working(c)'
  PROVE  Inv'
<1>1. /\ todo' = [todo EXCEPT ![c] = steps] /\ op' = [op EXCEPT ![c] = name]
      /\ kind' = kind /\ Idle(c)
  BY DEF Start
<1>2. todo'[c] # <<>> /\ \A d \in Callers \ {c} : todo'[d] = todo[d]
  BY <1>1 DEF Inv
<1>3. \A d \in Callers \ {c} : todo'[d] = <<>>
  BY <1>2 DEF OneCallAtATime, Idle
<1>4. AtRest
  BY <1>1, <1>2, <1>3 DEF Inv, Idle
<1>5. todo' \in [Callers -> Seq(StepNames)] /\ op' \in [Callers -> CallNames]
  BY <1>1 DEF Inv
<1>. QED BY <1>1, <1>2, <1>3, <1>4, <1>5 DEF Inv, Idle

\* The same for a call that is one of the lists.
LEMMA ListStarts ==
  ASSUME Inv, OneCallAtATime', NEW c \in Callers, NEW name \in CallNames, NEW k \in Calls,
         Start(c, name, Steps[k]), AtRest => Facts(k, c, 1)'
  PROVE  Inv'
<1>1. Sized(Steps[k], Size[k]) /\ Size[k] \in Nat /\ 1 \in 1 .. Size[k]
  BY ListsSized DEF Calls, Size
<1>2. Steps[k] \in Seq(StepNames) /\ From(Steps[k], Steps[k], 1)
  BY <1>1, FromStart DEF Sized
<1>3. Steps[k] # <<>>
  BY <1>1, <1>2, FromStep
<1>4. todo'[c] = Steps[k]
  BY DEF Start, Inv
<1>5. AtRest => Working(c)'
  BY <1>1, <1>2, <1>4 DEF Working
<1>. QED BY <1>2, <1>3, <1>5, StartKeeps

-----------------------------------------------------------------------------
\* Reset starts with what its first step needs.
LEMMA ResetStarts ==
  ASSUME Inv, OneCallAtATime', NEW c \in Callers, Reset(c)
  PROVE  Inv'
<1>1. CASE kind = "ise"
  <2>1. Start(c, "reset", Steps["ise_reset"])
    BY <1>1, IseResetList DEF Reset
  <2>2. AtRest => Facts("ise_reset", c, 1)'
    BY <1>1, <2>1 DEF Reset, Free, Facts, IseReset, Taken, Start, AtRest, NotInstalled,
       Serving, Out, Installed, RegistersReached, configVars, boardVars, regVars,
       driverVars, tmp
  <2>. QED BY <2>1, <2>2, ListStarts DEF Calls, CallNames
<1>2. CASE kind = "jse"
  <2>1. Start(c, "reset", Steps["jse_reset"])
    BY <1>2, JseResetList DEF Reset
  <2>2. AtRest => Facts("jse_reset", c, 1)'
    BY <1>2, <2>1 DEF Reset, Free, Facts, JseReset, Taken, Start, AtRest, NotInstalled,
       Serving, Out, Installed, RegistersReached, configVars, boardVars, regVars,
       driverVars, tmp
  <2>. QED BY <2>1, <2>2, ListStarts DEF Calls, CallNames
<1>. QED BY <1>1, <1>2 DEF Inv

\* Restart starts with what its first step needs.
LEMMA RestartStarts ==
  ASSUME Inv, OneCallAtATime', NEW c \in Callers, Restart(c)
  PROVE  Inv'
<1>1. CASE kind = "ise"
  <2>1. Start(c, "restart", Steps["ise_restart"])
    BY <1>1, IseRestartList DEF Restart
  <2>2. op'[c] = "restart"
    BY <2>1 DEF Start, Inv
  <2>3. AtRest => Facts("ise_restart", c, 1)'
    BY <1>1, <2>1, <2>2 DEF Restart, Free, Facts, Restarting, Start, AtRest, NotInstalled,
       Serving, Out, Installed, RegistersReached, configVars, boardVars, regVars,
       driverVars, tmp
  <2>. QED BY <2>1, <2>3, ListStarts DEF Calls, CallNames
<1>2. CASE kind = "jse"
  <2>1. Start(c, "restart", Steps["jse_restart"])
    BY <1>2, JseRestartList DEF Restart
  <2>2. op'[c] = "restart"
    BY <2>1 DEF Start, Inv
  <2>3. AtRest => Facts("jse_restart", c, 1)'
    BY <1>2, <2>1, <2>2 DEF Restart, Free, Facts, Restarting, Start, AtRest, NotInstalled,
       Serving, Out, Installed, RegistersReached, configVars, boardVars, regVars,
       driverVars, tmp
  <2>. QED BY <2>1, <2>3, ListStarts DEF Calls, CallNames
<1>. QED BY <1>1, <1>2 DEF Inv

\* Remove starts with what its first step needs.
LEMMA RemoveStarts ==
  ASSUME Inv, OneCallAtATime', NEW c \in Callers, Remove(c)
  PROVE  Inv'
<1>1. CASE kind = "ise"
  <2>1. Start(c, "remove", Steps["ise_remove"])
    BY <1>1, IseRemoveList DEF Remove
  <2>2. AtRest => Facts("ise_remove", c, 1)'
    BY <1>1, <2>1 DEF Remove, Free, Facts, IseRemove, Start, AtRest, NotInstalled,
       Serving, Out, Installed, RegistersReached, configVars, boardVars, regVars,
       driverVars, tmp
  <2>. QED BY <2>1, <2>2, ListStarts DEF Calls, CallNames
<1>2. CASE kind = "jse"
  <2>1. Start(c, "remove", Steps["jse_remove"])
    BY <1>2, JseRemoveList DEF Remove
  <2>2. AtRest => Facts("jse_remove", c, 1)'
    BY <1>2, <2>1 DEF Remove, Free, Facts, JseRemove, Start, AtRest, NotInstalled,
       Serving, Out, Installed, RegistersReached, configVars, boardVars, regVars,
       driverVars, tmp
  <2>. QED BY <2>1, <2>2, ListStarts DEF Calls, CallNames
<1>. QED BY <1>1, <1>2 DEF Inv

\* Replace starts with what its first step needs.
LEMMA ReplaceStarts ==
  ASSUME Inv, OneCallAtATime', NEW c \in Callers, Replace(c)
  PROVE  Inv'
<1>1. CASE kind = "ise"
  <2>1. Start(c, "replace", Steps["ise_replace"])
    BY <1>1, IseReplaceList DEF Replace
  <2>2. AtRest => Facts("ise_replace", c, 1)'
    BY <1>1, <2>1 DEF Replace, Facts, IseReplace, Start, AtRest, NotInstalled, Serving,
       Out, Installed, RegistersReached, configVars, boardVars, regVars, driverVars, tmp
  <2>. QED BY <2>1, <2>2, ListStarts DEF Calls, CallNames
<1>2. CASE kind = "jse"
  <2>1. Start(c, "replace", Steps["jse_replace"])
    BY <1>2, JseReplaceList DEF Replace
  <2>2. AtRest => Facts("jse_replace", c, 1)'
    BY <1>2, <2>1 DEF Replace, Facts, JseReplace, Start, AtRest, NotInstalled, Serving,
       Out, Installed, RegistersReached, configVars, boardVars, regVars, driverVars, tmp
  <2>. QED BY <2>1, <2>2, ListStarts DEF Calls, CallNames
<1>. QED BY <1>1, <1>2 DEF Inv

\* Probe starts with what its first step needs.
LEMMA ProbeStarts ==
  ASSUME Inv, OneCallAtATime', NEW c \in Callers, Probe(c)
  PROVE  Inv'
<1>1. CASE kind = "ise"
  <2>1. Start(c, "probe", Steps["ise_probe"])
    BY <1>1, IseProbeList DEF Probe
  <2>2. AtRest => Facts("ise_probe", c, 1)'
    BY <1>1, <2>1 DEF Probe, Facts, IseProbe, Assembled, Start, AtRest, NotInstalled,
       Serving, Out, Installed, RegistersReached, configVars, boardVars, regVars,
       driverVars, tmp
  <2>. QED BY <2>1, <2>2, ListStarts DEF Calls, CallNames
<1>2. CASE kind = "jse"
  <2>1. Start(c, "probe", Steps["jse_probe"])
    BY <1>2, JseProbeList DEF Probe
  <2>2. AtRest => Facts("jse_probe", c, 1)'
    BY <1>2, <2>1 DEF Probe, Facts, JseProbe, Assembled, Start, AtRest, NotInstalled,
       Serving, Out, Installed, RegistersReached, configVars, boardVars, regVars,
       driverVars, tmp
  <2>. QED BY <2>1, <2>2, ListStarts DEF Calls, CallNames
<1>. QED BY <1>1, <1>2 DEF Inv

\* Unload starts with what its first step needs.
LEMMA UnloadStarts ==
  ASSUME Inv, OneCallAtATime', NEW c \in Callers, Unload(c)
  PROVE  Inv'
<1>1. CASE kind = "ise"
  <2>1. Start(c, "unload", Steps["ise_unload"])
    BY <1>1, IseUnloadList DEF Unload
  <2>2. AtRest => Facts("ise_unload", c, 1)'
    BY <1>1, <2>1 DEF Unload, Free, Facts, Unloading, Start, AtRest, NotInstalled,
       Serving, Out, Installed, RegistersReached, configVars, boardVars, regVars,
       driverVars, tmp
  <2>. QED BY <2>1, <2>2, ListStarts DEF Calls, CallNames
<1>2. CASE kind = "jse"
  <2>1. Start(c, "unload", Steps["jse_unload"])
    BY <1>2, JseUnloadList DEF Unload
  <2>2. AtRest => Facts("jse_unload", c, 1)'
    BY <1>2, <2>1 DEF Unload, Free, Facts, Unloading, Start, AtRest, NotInstalled,
       Serving, Out, Installed, RegistersReached, configVars, boardVars, regVars,
       driverVars, tmp
  <2>. QED BY <2>1, <2>2, ListStarts DEF Calls, CallNames
<1>. QED BY <1>1, <1>2 DEF Inv

\* Open starts with what its first step needs.
LEMMA OpenStarts ==
  ASSUME Inv, OneCallAtATime', NEW c \in Callers, Open(c)
  PROVE  Inv'
<1>1. Start(c, "open", Steps["open"])
  BY DEF Open, ucr_open, Steps
<1>2. AtRest => Facts("open", c, 1)'
  BY <1>1 DEF Open, Inv, Facts, Opening, Start, AtRest, NotInstalled, Serving, Out,
     Installed, RegistersReached, configVars, boardVars, regVars, driverVars, tmp
<1>. QED BY <1>1, <1>2, ListStarts DEF Calls, CallNames

\* Close starts with what its first step needs.
LEMMA CloseStarts ==
  ASSUME Inv, OneCallAtATime', NEW c \in Callers, Close(c)
  PROVE  Inv'
<1>1. Start(c, "close", Steps["close"])
  BY DEF Close, ucr_release, Steps
<1>2. AtRest => Facts("close", c, 1)'
  BY <1>1 DEF Close, Inv, Facts, Closing, Start, AtRest, NotInstalled, Serving, Out,
     Installed, RegistersReached, configVars, boardVars, regVars, driverVars, tmp
<1>. QED BY <1>1, <1>2, ListStarts DEF Calls, CallNames

\* Diagnose starts with what its first step needs.
LEMMA DiagnoseStarts ==
  ASSUME Inv, OneCallAtATime', NEW c \in Callers, Diagnose(c)
  PROVE  Inv'
<1>1. Start(c, "diagnose", Steps["diagnose"])
  BY DEF Diagnose, Steps
<1>2. AtRest => Facts("diagnose", c, 1)'
  BY <1>1 DEF Diagnose, Inv, Facts, Start, AtRest, NotInstalled, Serving, Out, Installed,
     RegistersReached, configVars, boardVars, regVars, driverVars, tmp
<1>. QED BY <1>1, <1>2, ListStarts DEF Calls, CallNames

\* UCRX_RUN starts with a board in service.
LEMMA RunStarts ==
  ASSUME Inv, OneCallAtATime', NEW c \in Callers, Run(c)
  PROVE  Inv'
<1>1. Start(c, "run", <<"get_status">>)
  BY DEF Run
<1>2. AtRest => Serving'
  BY <1>1 DEF Run, Free, Start, AtRest, NotInstalled, Serving, Out, Installed,
     RegistersReached, configVars, boardVars, regVars, driverVars, tmp
<1>3. todo'[c] = <<"get_status">>
  BY <1>1 DEF Start, Inv
<1>4. <<"get_status">> # <<>> /\ <<"get_status">> \in Seq(StepNames) /\ "run" \in CallNames
  BY DEF StepNames, CallNames
<1>5. AtRest => Working(c)'
  BY <1>2, <1>3 DEF Working
<1>. QED BY <1>1, <1>4, <1>5, StartKeeps

-----------------------------------------------------------------------------
\* All the invariant looks at.
invVars ==
  <<kind, bridge, device, power, proc, base, resp, mask, suspense, saved, channels, listed,
    ready, op, todo, kept, old>>

\* The facts of a call do not look at anything else.  Frames come only while
\* there are channels, and matter only while there are none.
LEMMA FactsKept ==
  ASSUME NEW c \in Callers, NEW k \in Calls, NEW p \in 1 .. Size[k], Facts(k, c, p),
         UNCHANGED invVars, frames' = frames \/ channels
  PROVE  Facts(k, c, p)'
<1> USE DEF invVars, Facts
<1>1. CASE k \in {"ise_reset", "jse_reset"}
  BY <1>1 DEF IseReset, JseReset, Taken, Installed
<1>2. CASE k \in {"ise_restart", "jse_restart", "diagnose"}
  BY <1>2 DEF Restarting, Serving, Installed, RegistersReached
<1>3. CASE k = "ise_remove"
  BY <1>3 DEF IseRemove, Installed
<1>4. CASE k = "jse_remove"
  BY <1>4 DEF JseRemove, Serving, Installed, RegistersReached
<1>5. CASE k = "ise_replace"
  BY <1>5 DEF IseReplace, Installed
<1>6. CASE k = "jse_replace"
  BY <1>6 DEF JseReplace, Installed
<1>7. CASE k \in {"ise_probe", "jse_probe"}
  BY <1>7 DEF IseProbe, JseProbe, Assembled, RegistersReached
<1>8. CASE k \in {"ise_unload", "jse_unload"}
  BY <1>8 DEF Unloading, Installed, RegistersReached
<1>9. CASE k \in {"open", "close"}
  BY <1>9 DEF Opening, Closing, Installed, RegistersReached
<1>. QED BY <1>1, <1>2, <1>3, <1>4, <1>5, <1>6, <1>7, <1>8, <1>9 DEF Calls

\* The board, the interrupt handler and a new frame change nothing of it.
LEMMA InvKept ==
  ASSUME Inv, UNCHANGED invVars, frames' = frames \/ channels
  PROVE  Inv'
<1>1. ASSUME NEW c \in Callers PROVE todo'[c] = todo[c] /\ (Idle(c)' <=> Idle(c))
  BY DEF invVars, Idle
<1>2. Serving => Serving'
  BY DEF Serving, Installed, RegistersReached, invVars
<1>3. AtRest => AtRest'
  <2>1. NotInstalled => NotInstalled'
    BY DEF NotInstalled, RegistersReached, invVars
  <2>2. Out => Out'
    BY DEF Out, Installed, invVars
  <2>. QED BY <1>2, <2>1, <2>2 DEF AtRest
<1>4. ASSUME NEW c \in Callers, Working(c) PROVE Working(c)'
  <2>1. CASE todo[c] \in {<<"get_status">>, <<"run">>} /\ Serving
    BY <1>1, <1>2, <2>1 DEF Working
  <2>2. ASSUME NEW k \in Calls, NEW p \in 1 .. Size[k], From(todo[c], Steps[k], p),
               Facts(k, c, p)
        PROVE  Working(c)'
    <3>1. Facts(k, c, p)' /\ From(todo'[c], Steps[k], p)
      BY <1>1, <2>2, FactsKept
    <3>. QED BY <3>1 DEF Working
  <2>. QED BY <1>4, <2>1, <2>2 DEF Working
<1>5. (\A c \in Callers : Idle(c)') => AtRest'
  BY <1>1, <1>3 DEF Inv
<1>6. \A c \in Callers : ~Idle(c)' => Working(c)'
  BY <1>1, <1>4 DEF Inv
<1>7. todo' \in [Callers -> Seq(StepNames)] /\ op' \in [Callers -> CallNames]
      /\ kind' \in {"ise", "jse"}
  BY DEF Inv, invVars
<1>. QED BY <1>5, <1>6, <1>7 DEF Inv

\* While a call is under way the board has power.
LEMMA WorkingPowered ==
  ASSUME NEW c \in Callers, Working(c)
  PROVE  power
<1>1. ASSUME NEW k \in Calls, NEW p \in 1 .. Size[k], Facts(k, c, p)
      PROVE  power
  BY <1>1 DEF Facts, Calls, IseReset, JseReset, Restarting, IseRemove, JseRemove,
     IseReplace, JseReplace, IseProbe, JseProbe, Unloading, Opening, Closing, Serving,
     Taken, RegistersReached
<1>. QED BY <1>1 DEF Working, Serving, RegistersReached

\* The slot loses its power only while the board is out, and then stays out.
LEMMA PowerKeeps ==
  ASSUME Inv, PowerOff \/ PowerOn
  PROVE  Inv'
<1>1. UNCHANGED <<kind, suspense, saved, channels, frames, listed, ready, op, todo>>
  BY DEF PowerOff, PowerOn, driverVars
<1>2. \A c \in Callers : Idle(c) /\ Idle(c)'
  <2>1. CASE PowerOff
    BY <1>1, <2>1 DEF PowerOff, Idle
  <2>2. CASE PowerOn
    BY <1>1, <2>2, WorkingPowered DEF PowerOn, Idle, Inv
  <2>. QED BY <2>1, <2>2
<1>3. Out /\ Out'
  <2>1. CASE PowerOff
    <3>1. suspense /\ AtRest /\ power' = FALSE
      BY <1>2, <2>1 DEF PowerOff, Inv
    <3>2. Out
      BY <3>1 DEF AtRest, NotInstalled, Serving
    <3>. QED BY <1>1, <3>1, <3>2 DEF Out, Installed
  <2>2. CASE PowerOn
    <3>1. ~power /\ AtRest /\ device' = {}
      BY <1>2, <2>2 DEF PowerOn, Inv
    <3>2. Out
      BY <3>1 DEF AtRest, NotInstalled, Serving, RegistersReached
    <3>. QED BY <1>1, <3>1, <3>2 DEF Out, Installed
  <2>. QED BY <2>1, <2>2
<1>4. todo' \in [Callers -> Seq(StepNames)] /\ op' \in [Callers -> CallNames]
      /\ kind' \in {"ise", "jse"}
  BY <1>1 DEF Inv
<1>. QED BY <1>2, <1>3, <1>4 DEF Inv, AtRest

\* The state the driver is loaded in.
LEMMA InvInit ==
  ASSUME Kinds \subseteq {"ise", "jse"}, Init
  PROVE  Inv
<1>1. NotInstalled
  BY DEF Init, NotInstalled, RegistersReached
<1>2. todo \in [Callers -> Seq(StepNames)]
  <2>1. <<>> \in Seq(StepNames) /\ todo = [c \in Callers |-> <<>>]
    BY DEF Init
  <2>. QED BY <2>1
<1>3. op \in [Callers -> CallNames]
  BY DEF Init, CallNames
<1>4. \A c \in Callers : Idle(c)
  BY DEF Init, Idle
<1>5. kind \in {"ise", "jse"}
  BY DEF Init
<1>. QED BY <1>1, <1>2, <1>3, <1>4, <1>5 DEF Inv, AtRest

\* Every step of the system keeps the invariant.
LEMMA InvNext ==
  ASSUME TypeOK, Inv, OneCallAtATime, OneCallAtATime', [Next]_vars
  PROVE  Inv'
<1>1. ASSUME NEW c \in Callers, Step(c) PROVE Inv'
  BY <1>1, StepKeeps
<1>2. ASSUME NEW c \in Callers,
             \/ Reset(c) \/ Restart(c) \/ Run(c) \/ Remove(c) \/ Replace(c) \/ Diagnose(c)
             \/ Probe(c) \/ Unload(c) \/ Open(c) \/ Close(c)
      PROVE  Inv'
  BY <1>2, ResetStarts, RestartStarts, RunStarts, RemoveStarts, ReplaceStarts,
     DiagnoseStarts, ProbeStarts, UnloadStarts, OpenStarts, CloseStarts
<1>3. ASSUME NEW c \in Callers, MakeFrame(c) PROVE Inv'
  <2>1. UNCHANGED invVars /\ channels
    BY <1>3 DEF MakeFrame, invVars, configVars, boardVars, regVars, tmp
  <2>. QED BY <2>1, InvKept
<1>4. CASE Interrupt \/ BoardRings \/ BoardBoots \/ UNCHANGED vars
  <2>1. UNCHANGED invVars /\ frames' = frames
    BY <1>4 DEF Interrupt, BoardRings, BoardBoots, vars, invVars, configVars, boardVars,
       regVars, driverVars, tmp
  <2>. QED BY <2>1, InvKept
<1>5. CASE PowerOff \/ PowerOn
  BY <1>5, PowerKeeps
<1>. QED BY <1>1, <1>2, <1>3, <1>4, <1>5 DEF Next

-----------------------------------------------------------------------------
(* What follows from the invariant.                                        *)

\* A call that accesses a register does so where the register is reached.
LEMMA CallReaches ==
  ASSUME NEW c \in Callers, NEW k \in Calls, NEW p \in 1 .. Size[k], Facts(k, c, p),
         Steps[k][p] \in RegisterSteps
  PROVE  RegistersReached
<1> USE DEF Facts, Steps, Size, RegisterSteps
<1>1. CASE k = "ise_reset"
  BY <1>1 DEF IseReset, Taken, RegistersReached
<1>2. CASE k = "jse_reset"
  BY <1>2 DEF JseReset, Taken, RegistersReached
<1>3. CASE k = "ise_restart"
  BY <1>3 DEF Restarting, Serving
<1>4. CASE k = "jse_restart"
  BY <1>4 DEF Restarting, Serving
<1>5. CASE k = "ise_remove"
  BY <1>5
<1>6. CASE k = "jse_remove"
  BY <1>6
<1>7. CASE k = "ise_replace"
  BY <1>7 DEF IseReplace, RegistersReached
<1>8. CASE k = "jse_replace"
  BY <1>8 DEF JseReplace, RegistersReached
<1>9. CASE k = "ise_probe"
  BY <1>9 DEF IseProbe
<1>10. CASE k = "jse_probe"
  BY <1>10 DEF JseProbe
<1>11. CASE k = "ise_unload"
  BY <1>11 DEF Unloading
<1>12. CASE k = "jse_unload"
  BY <1>12 DEF Unloading
<1>13. CASE k = "open"
  BY <1>13 DEF Opening
<1>14. CASE k = "close"
  BY <1>14 DEF Closing
<1>15. CASE k = "diagnose"
  BY <1>15 DEF Serving
<1>. QED
  BY <1>1, <1>2, <1>3, <1>4, <1>5, <1>6, <1>7, <1>8, <1>9, <1>10, <1>11, <1>12, <1>13,
     <1>14, <1>15 DEF Calls

\* A board that is asked for an interrupt has its instance and registers set up.
LEMMA CallHandlerReady ==
  ASSUME NEW c \in Callers, NEW k \in Calls, NEW p \in 1 .. Size[k], Facts(k, c, p)
  PROVE  HandlerReady
<1>1. ready \in {{}, {"instance"}, {"instance", "registers"}, {"instance", "registers", "irq"}}
  BY DEF Facts, Calls, IseReset, JseReset, Restarting, IseRemove, JseRemove, IseReplace,
     JseReplace, IseProbe, JseProbe, Assembled, Unloading, Opening, Closing, Serving,
     Taken, Installed, Size
<1>. QED BY <1>1 DEF HandlerReady

\* Accesses reach the registers in every state of the invariant.
LEMMA InvAccess ==
  ASSUME Inv, OneCallAtATime
  PROVE  AccessReaches
<1>1. ASSUME NEW c \in Callers, NextStep(c) \in RegisterSteps PROVE RegistersReached
  <2>1. ~Idle(c) /\ Working(c)
    BY <1>1 DEF NextStep, RegisterSteps, Inv
  <2>2. ASSUME NEW k \in Calls, NEW p \in 1 .. Size[k], From(todo[c], Steps[k], p),
               Facts(k, c, p)
        PROVE  RegistersReached
    BY <1>1, <2>2, AtStep, CallReaches
  <2>. QED BY <2>1, <2>2 DEF Working, Serving
<1>2. HandlerReady
  <2>1. CASE \A c \in Callers : Idle(c)
    BY <2>1 DEF Inv, AtRest, NotInstalled, Serving, Out, Installed, HandlerReady
  <2>2. ASSUME NEW c \in Callers, Working(c) PROVE HandlerReady
    <3>1. CASE Serving
      BY <3>1 DEF Serving, Installed, HandlerReady
    <3>. QED BY <2>2, <3>1, CallHandlerReady DEF Working
  <2>. QED BY <2>1, <2>2 DEF Inv
<1>. QED BY <1>1, <1>2 DEF AccessReaches, RegisterAccessReaches

\* Where the lists free frames, and where they release the processor.
LEMMA StepPlaces ==
  ASSUME NEW k \in Calls, NEW p \in 1 .. Size[k]
  PROVE  /\ Steps[k][p] = "free_frames" =>
              \/ (k = "ise_reset" /\ p = 10) \/ (k = "jse_reset" /\ p = 7)
              \/ (k = "ise_remove" /\ p = 5) \/ (k = "jse_remove" /\ p = 4)
              \/ k \in {"ise_restart", "jse_restart"}
         /\ Steps[k][p] = "release" =>
              \/ (k = "ise_reset" /\ p = 12) \/ (k = "jse_reset" /\ p = 8)
              \/ (k = "ise_replace" /\ p = 15) \/ (k = "jse_replace" /\ p \in {3, 10})
<1>1. CASE k = "ise_reset"
  <2>1. p \in 1 .. 13
    BY <1>1 DEF Size
  <2>2. /\ Steps[k][p] = "free_frames" => p = 10
        /\ Steps[k][p] = "release" => p = 12
    BY <1>1, <2>1 DEF Steps
  <2>. QED BY <1>1, <2>2
<1>2. CASE k = "jse_reset"
  <2>1. p \in 1 .. 8
    BY <1>2 DEF Size
  <2>2. /\ Steps[k][p] = "free_frames" => p = 7
        /\ Steps[k][p] = "release" => p = 8
    BY <1>2, <2>1 DEF Steps
  <2>. QED BY <1>2, <2>2
<1>3. CASE k = "ise_restart"
  <2>1. p \in 1 .. 6
    BY <1>3 DEF Size
  <2>2. /\ Steps[k][p] = "free_frames" => p = 6
        /\ Steps[k][p] = "release" => FALSE
    BY <1>3, <2>1 DEF Steps
  <2>. QED BY <1>3, <2>2
<1>4. CASE k = "jse_restart"
  <2>1. p \in 1 .. 5
    BY <1>4 DEF Size
  <2>2. /\ Steps[k][p] = "free_frames" => p = 5
        /\ Steps[k][p] = "release" => FALSE
    BY <1>4, <2>1 DEF Steps
  <2>. QED BY <1>4, <2>2
<1>5. CASE k = "ise_remove"
  <2>1. p \in 1 .. 5
    BY <1>5 DEF Size
  <2>2. /\ Steps[k][p] = "free_frames" => p = 5
        /\ Steps[k][p] = "release" => FALSE
    BY <1>5, <2>1 DEF Steps
  <2>. QED BY <1>5, <2>2
<1>6. CASE k = "jse_remove"
  <2>1. p \in 1 .. 4
    BY <1>6 DEF Size
  <2>2. /\ Steps[k][p] = "free_frames" => p = 4
        /\ Steps[k][p] = "release" => FALSE
    BY <1>6, <2>1 DEF Steps
  <2>. QED BY <1>6, <2>2
<1>7. CASE k = "ise_replace"
  <2>1. p \in 1 .. 15
    BY <1>7 DEF Size
  <2>2. /\ Steps[k][p] = "free_frames" => FALSE
        /\ Steps[k][p] = "release" => p = 15
    BY <1>7, <2>1 DEF Steps
  <2>. QED BY <1>7, <2>2
<1>8. CASE k = "jse_replace"
  <2>1. p \in 1 .. 10
    BY <1>8 DEF Size
  <2>2. /\ Steps[k][p] = "free_frames" => FALSE
        /\ Steps[k][p] = "release" => p \in {3, 10}
    BY <1>8, <2>1 DEF Steps
  <2>. QED BY <1>8, <2>2
<1>9. CASE k = "ise_probe"
  <2>1. p \in 1 .. 8
    BY <1>9 DEF Size
  <2>2. /\ Steps[k][p] = "free_frames" => FALSE
        /\ Steps[k][p] = "release" => FALSE
    BY <1>9, <2>1 DEF Steps
  <2>. QED BY <1>9, <2>2
<1>10. CASE k = "jse_probe"
  <2>1. p \in 1 .. 7
    BY <1>10 DEF Size
  <2>2. /\ Steps[k][p] = "free_frames" => FALSE
        /\ Steps[k][p] = "release" => FALSE
    BY <1>10, <2>1 DEF Steps
  <2>. QED BY <1>10, <2>2
<1>11. CASE k = "ise_unload"
  <2>1. p \in 1 .. 5
    BY <1>11 DEF Size
  <2>2. /\ Steps[k][p] = "free_frames" => FALSE
        /\ Steps[k][p] = "release" => FALSE
    BY <1>11, <2>1 DEF Steps
  <2>. QED BY <1>11, <2>2
<1>12. CASE k = "jse_unload"
  <2>1. p \in 1 .. 5
    BY <1>12 DEF Size
  <2>2. /\ Steps[k][p] = "free_frames" => FALSE
        /\ Steps[k][p] = "release" => FALSE
    BY <1>12, <2>1 DEF Steps
  <2>. QED BY <1>12, <2>2
<1>13. CASE k = "open"
  <2>1. p \in 1 .. 5
    BY <1>13 DEF Size
  <2>2. /\ Steps[k][p] = "free_frames" => FALSE
        /\ Steps[k][p] = "release" => FALSE
    BY <1>13, <2>1 DEF Steps
  <2>. QED BY <1>13, <2>2
<1>14. CASE k = "close"
  <2>1. p \in 1 .. 4
    BY <1>14 DEF Size
  <2>2. /\ Steps[k][p] = "free_frames" => FALSE
        /\ Steps[k][p] = "release" => FALSE
    BY <1>14, <2>1 DEF Steps
  <2>. QED BY <1>14, <2>2
<1>15. CASE k = "diagnose"
  <2>1. p \in 1 .. 1
    BY <1>15 DEF Size
  <2>2. /\ Steps[k][p] = "free_frames" => FALSE
        /\ Steps[k][p] = "release" => FALSE
    BY <1>15, <2>1 DEF Steps
  <2>. QED BY <1>15, <2>2
<1>. QED
  BY <1>1, <1>2, <1>3, <1>4, <1>5, <1>6, <1>7, <1>8, <1>9, <1>10, <1>11, <1>12, <1>13,
     <1>14, <1>15 DEF Calls

\* Of the calls that free frames a reset and a removal have the board held.
LEMMA CallFreesHeld ==
  ASSUME NEW c \in Callers, NEW k \in Calls, NEW p \in 1 .. Size[k], Facts(k, c, p),
         Steps[k][p] = "free_frames", op[c] \in {"reset", "remove"}
  PROVE  proc = "held"
<1>1. \/ (k = "ise_reset" /\ p = 10) \/ (k = "jse_reset" /\ p = 7)
      \/ (k = "ise_remove" /\ p = 5) \/ (k = "jse_remove" /\ p = 4)
      \/ k \in {"ise_restart", "jse_restart"}
  BY StepPlaces
<1>. QED
  BY <1>1 DEF Facts, IseReset, JseReset, Restarting, IseRemove, JseRemove

\* The last release of a call comes with the mailbox clean.
LEMMA CallReleasesClean ==
  ASSUME NEW c \in Callers, NEW k \in Calls, NEW p \in 1 .. Size[k], Facts(k, c, p),
         From(todo[c], Steps[k], p), Steps[k][p] = "release",
         \A i \in 2 .. Len(todo[c]) : todo[c][i] # "release"
  PROVE  base = "zero" /\ resp = "zero"
<1>1. \/ (k = "ise_reset" /\ p = 12) \/ (k = "jse_reset" /\ p = 8)
      \/ (k = "ise_replace" /\ p = 15) \/ (k = "jse_replace" /\ p \in {3, 10})
  BY StepPlaces
<1>2. ~(k = "jse_replace" /\ p = 3)
  <2>1. SUFFICES ASSUME k = "jse_replace", p = 3 PROVE FALSE
    OBVIOUS
  <2>2. Sized(Steps[k], 10) /\ Steps[k][10] = "release"
    BY <2>1, ListsSized DEF Size, Steps, Calls
  <2>3. \E i \in 2 .. Len(todo[c]) : todo[c][i] = "release"
    BY <2>1, <2>2, FromLater
  <2>. QED BY <2>3
<1>. QED BY <1>1, <1>2 DEF Facts, IseReset, JseReset, IseReplace, JseReplace

\* The processor is held when it has to be, in every state of the invariant.
LEMMA InvHeld ==
  ASSUME Inv
  PROVE  HeldWhenUnsafe
<1>1. ASSUME NEW c \in Callers, NextStep(c) \in {"free_frames", "release"}
      PROVE  \E k \in Calls : \E p \in 1 .. Size[k] :
               From(todo[c], Steps[k], p) /\ Facts(k, c, p) /\ NextStep(c) = Steps[k][p]
  <2>1. ~Idle(c) /\ Working(c)
    BY <1>1 DEF NextStep, Inv
  <2>2. todo[c] \notin {<<"get_status">>, <<"run">>}
    BY <1>1, <2>1 DEF NextStep
  <2>. QED BY <2>1, <2>2, AtStep DEF Working
<1>2. FreedWhenHeld
  BY <1>1, CallFreesHeld DEF FreedWhenHeld
<1>3. ReleasedClean
  BY <1>1, CallReleasesClean DEF ReleasedClean
<1>4. RemovedIsQuiet
  BY DEF RemovedIsQuiet, Inv, AtRest, NotInstalled, Serving, Out
<1>. QED BY <1>2, <1>3, <1>4 DEF HeldWhenUnsafe

\* A board that is not removed answers between calls.
LEMMA InvService ==
  ASSUME Inv
  PROVE  InService
BY DEF InService, Inv, AtRest, NotInstalled, Serving, Out

\* The invariant holds in every state of an ISE or a JSE whose calls are made
\* one after the other.
LEMMA Invariance ==
  ASSUME Kinds \subseteq {"ise", "jse"}
  PROVE  Spec /\ []OneCallAtATime => []Inv
<1>1. Init => Inv
  BY InvInit
<1>2. TypeOK /\ Inv /\ OneCallAtATime /\ OneCallAtATime' /\ [Next]_vars => Inv'
  BY InvNext
<1>. QED BY <1>1, <1>2, TypeCorrect, PTL DEF Spec

\* For any number of callers that make their calls one after the other: every
\* access of a call to a register finds bridge and device configured, and the
\* interrupt handler what it uses set up, through resets, removals, power
\* cycles and replacements of an ISE or a JSE.
THEOREM AccessesReach ==
  ASSUME Kinds \subseteq {"ise", "jse"}
  PROVE  Spec /\ []OneCallAtATime => []AccessReaches
<1>1. Inv /\ OneCallAtATime => AccessReaches
  BY InvAccess
<1>. QED BY <1>1, Invariance, PTL

\* Under the same conditions each call that ends with the board in its slot
\* leaves it configured, running, with its doorbells open, and with a root
\* table exactly while there are channels.
THEOREM ServiceRestored ==
  ASSUME Kinds \subseteq {"ise", "jse"}
  PROVE  Spec /\ []OneCallAtATime => []InService
<1>1. Inv => InService
  BY InvService
<1>. QED BY <1>1, Invariance, PTL

\* Under the same conditions the processor is held when its frames are taken
\* away by a reset or a removal, while the board is out, and until its mailbox
\* is clean.
THEOREM BoardHeld ==
  ASSUME Kinds \subseteq {"ise", "jse"}
  PROVE  Spec /\ []OneCallAtATime => []HeldWhenUnsafe
<1>1. Inv => HeldWhenUnsafe
  BY InvHeld
<1>. QED BY <1>1, Invariance, PTL
=============================================================================
