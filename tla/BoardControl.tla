---------------------------- MODULE BoardControl ----------------------------
(***************************************************************************)
(* One board and its control device: probe, reset, restart, run program,   *)
(* diagnose, removal and replacement of a board whose slot is powered off  *)
(* in between, and the driver's way out (sys-linux2.4/dev_ise.c,           *)
(* dev_jse.c, dev_ejse.c, ucrx.c and the PCI part of linux.c).  UcrRoot    *)
(* has these calls as one step each; here a step is one access to the      *)
(* hardware, or a few of the same kind that have the same effect, and each *)
(* call is the sequence of its steps.                                      *)
(*                                                                         *)
(* A configuration space is the set of its parts that hold what the BIOS   *)
(* put there: the regions (bus numbers, windows, base addresses, interrupt *)
(* line) and the command register that enables them.  An ISE is a device   *)
(* behind the bridge of its own board, an EJSE likewise; a JSE has no      *)
(* bridge the driver knows of.  A register of the device is reached when   *)
(* both spaces are whole; the read of one that is not reached returns all  *)
(* ones, and a write goes astray.  Hardware that was just reset or powered *)
(* on holds anything in its mailbox, which the driver expects as well      *)
(* (ucrx.c:51-54).                                                         *)
(*                                                                         *)
(* The interrupt handler is one step.                                      *)
(***************************************************************************)
EXTENDS Naturals, Sequences

CONSTANTS
  Kinds,    \* boards that may be in the slot: "ise", "jse", "ejse"
  Callers   \* processes with the control device open

ASSUME BoardAssumption == Kinds \subseteq {"ise", "jse", "ejse"}

Parts == {"regions", "command"}
Bells == {"root", "change"}

VARIABLES
  kind,           \* xsp->dev_ops
  bridge, device, \* configuration spaces
  power,          \* the slot has power
  proc,           \* the processor on the board: "off", "held", "running"
  program,        \* what it runs: "boot", "ready" (waits for RUN), "application"
  base, resp,     \* root table registers: "zero", "table" or "junk"
  mask, bells,    \* outbound doorbells: masked ones, pending ones
  suspense,       \* the board is removed
  saved,          \* RestartData, or what pci_save_state keeps
  channels,       \* some channel is open
  frames,         \* some frame exists
  listed,         \* minor < num_dev: the device files can be opened
  ready,          \* of "instance", "registers", "irq": what the driver has set up
  woken,          \* bells the last interrupt handler found
  op, todo,       \* a caller's call, its remaining steps
  kept, old       \* what a soft reset keeps of the device, and a sleep of the mask

configVars == <<bridge, device>>
boardVars  == <<power, proc, program>>
regVars    == <<base, resp, mask, bells>>
driverVars == <<suspense, saved, channels, frames, listed, ready>>
tmp        == <<kept, old>>
vars == <<kind, configVars, boardVars, regVars, driverVars, woken, op, todo, tmp>>

-----------------------------------------------------------------------------
(* What is reached.                                                        *)

DeviceConfigReached == power /\ (kind = "jse" \/ "regions" \in bridge)
RegistersReached == power /\ (kind = "jse" \/ bridge = Parts) /\ device = Parts

\* A read of the device's configuration space, or of a doorbell register.
ReadDevice  == IF DeviceConfigReached THEN device ELSE {}
ReadBells(r) == IF RegistersReached THEN r ELSE Bells

-----------------------------------------------------------------------------
(* The calls.                                                              *)

\* The table of operations: a board has those of its kind.
ops_table(ise, jse, ejse) ==
  IF kind = "ise" THEN ise ELSE IF kind = "jse" THEN jse ELSE ejse

ise_init_hardware  == <<"clear_bells", "base", "resp", "unmask">>
jse_init_hardware  == <<"base", "resp", "unmask">>
ejse_init_hardware == <<"base", "resp", "unmask">>
init_hardware == ops_table(ise_init_hardware, jse_init_hardware, ejse_init_hardware)

ise_clear_hardware  == <<"mask", "base", "resp">>
jse_clear_hardware  == <<"base", "resp", "mask">>
ejse_clear_hardware == <<"base", "resp", "mask">>
clear_hardware == ops_table(ise_clear_hardware, jse_clear_hardware, ejse_clear_hardware)

set_root_table == <<"base", "resp">>

\* Wrong: the configuration of the device is not saved around the reset.
ise_soft_reset_bare(flag) == <<flag>>

\* Nothing is done if bit 0x02 of the bridge's byte 0x40 is set.  It never is: the
\* driver writes 0x20 and 0x00 to that byte, a board comes up with the bit clear
\* (bound), and one without power, that would answer with all ones, is not reset.
\* Had the test been of the 0x20 that holds the board, it would not be let go.
ise_soft_reset(flag) == <<"keep_device", flag, "put_device_back">>
jse_soft_reset(flag) == <<flag>>
\* "not implemented"
ejse_soft_reset(flag) == <<>>
soft_reset(flag) == ops_table(ise_soft_reset(flag), jse_soft_reset(flag), ejse_soft_reset(flag))

ucrx_reset_board ==
  soft_reset("hold") \o init_hardware \o set_root_table
    \o <<"free_frames">> \o soft_reset("release")

ucrx_restart_board == <<"ring_restart">> \o init_hardware \o <<"free_frames">>

\* Wrong: the frames go before the processor is held.
isex_remove_early == <<"suspend", "save_device", "save_bridge", "free_frames", "hold">>

isex_remove  == <<"suspend", "save_device", "save_bridge", "hold", "free_frames">>

jsex_remove  == <<"suspend", "save_device">> \o jse_soft_reset("hold") \o <<"free_frames">>
ejsex_remove == <<"suspend", "save_device", "save_bridge", "free_frames">>
soft_remove == ops_table(isex_remove, jsex_remove, ejsex_remove)

\* Wrong: the device before its bridge.
isex_replace_reordered ==
  <<"bridge_off", "device_off", "hold", "device_regions", "device_on",
    "bridge_regions", "bridge_on">>
    \o init_hardware \o set_root_table \o <<"resume", "release">>

isex_replace ==
  <<"bridge_off", "device_off", "bridge_regions", "hold", "bridge_on",
    "device_regions", "device_on">>
    \o init_hardware \o set_root_table \o <<"resume", "release">>

\* The processor is let go before the registers are cleared, and once more.
jsex_replace ==
  jse_soft_reset("hold") \o <<"restore_device">> \o jse_soft_reset("release")
    \o init_hardware \o set_root_table \o <<"resume">> \o jse_soft_reset("release")

\* The calls of jse_soft_reset write to a register an EJSE does not have; the
\* bridge is saved where it should be restored.
ejsex_replace ==
  <<"restore_device", "save_bridge">> \o init_hardware \o set_root_table \o <<"resume">>

soft_replace == ops_table(isex_replace, jsex_replace, ejsex_replace)

ise_probe == <<"instance", "registers", "irq">> \o init_hardware \o <<"list">>

ise_remove == clear_hardware \o <<"free_irq", "clear_instance">>

\* ucr_open's first channel and the last ucr_release: root_to_board sends the
\* table, or none, and sleeps with the doorbells masked.
ucr_open == <<"clear_resp", "table", "mask_irqs", "unmask_irqs", "opened">>
ucr_release == <<"base", "mask_irqs", "unmask_irqs", "closed">>

RegisterSteps ==
  {"clear_bells", "base", "resp", "clear_resp", "table", "unmask", "mask", "mask_irqs",
   "unmask_irqs", "ring_restart", "get_status", "run", "look"}

-----------------------------------------------------------------------------
Idle(c) == todo[c] = <<>>

Start(c, name, steps) ==
  /\ Idle(c)
  /\ op' = [op EXCEPT ![c] = name]
  /\ todo' = [todo EXCEPT ![c] = steps]
  /\ UNCHANGED <<kind, configVars, boardVars, regVars, driverVars, woken, tmp>>

\* -EBUSY of the calls that take the board away from its channels.
Free == ready = {"instance", "registers", "irq"} /\ listed /\ ~suspense /\ ~channels

Reset(c)   == Free /\ Start(c, "reset", ucrx_reset_board)
Restart(c) == Free /\ Start(c, "restart", ucrx_restart_board)
Run(c)     == Free /\ Start(c, "run", <<"get_status">>)
Remove(c)  == Free /\ Start(c, "remove", soft_remove)
\* The operator puts the power back before he asks for the board.
Replace(c) == suspense /\ power /\ Start(c, "replace", soft_replace)
Diagnose(c) == listed /\ ~suspense /\ ready # {} /\ Start(c, "diagnose", <<"look">>)

\* init_ise_module, and cleanup_ise_module, for which no file may be open.
Probe(c) == ready = {} /\ ~listed /\ Start(c, "probe", ise_probe)
Unload(c) == Free /\ Start(c, "unload", ise_remove)

Do(c, s) ==
  /\ todo[c] # <<>>
  /\ Head(todo[c]) = s
  /\ todo' = [todo EXCEPT ![c] = Tail(@)]
  /\ UNCHANGED <<kind, op, woken>>

-----------------------------------------------------------------------------
(* Steps on the configuration spaces.                                      *)

Config(c) ==
  /\ UNCHANGED <<boardVars, regVars, driverVars>>
  /\ \/ Do(c, "keep_device") /\ kept' = [kept EXCEPT ![c] = ReadDevice]
        /\ UNCHANGED <<old, configVars>>
     \/ /\ UNCHANGED <<tmp, bridge>>
        /\ \/ Do(c, "device_off") /\ device' = device \ {"command"}
           \/ Do(c, "put_device_back")
              /\ device' = IF DeviceConfigReached THEN kept[c] ELSE device
           \/ Do(c, "restore_device")
              /\ device' = IF DeviceConfigReached THEN saved.device ELSE device
           \/ Do(c, "device_regions")
              /\ device' = IF DeviceConfigReached
                             THEN device \cup (saved.device \cap {"regions"}) ELSE device
           \/ Do(c, "device_on")
              /\ device' = IF DeviceConfigReached
                             THEN device \cup (saved.device \cap {"command"}) ELSE device
     \/ /\ UNCHANGED <<tmp, device>>
        /\ \/ Do(c, "bridge_off") /\ bridge' = bridge \ {"command"}
           \/ Do(c, "bridge_regions")
              /\ bridge' = bridge \cup (saved.bridge \cap {"regions"})
           \/ Do(c, "bridge_on")
              /\ bridge' = bridge \cup (saved.bridge \cap {"command"})

\* kmalloc; jsex_remove and ejsex_remove test it.
Suspend(c) ==
  /\ Do(c, "suspend")
  /\ suspense' = TRUE
  /\ UNCHANGED <<configVars, boardVars, regVars, saved, channels, frames, listed, ready, tmp>>

NoMemory(c) ==
  /\ todo[c] # <<>> /\ Head(todo[c]) = "suspend" /\ kind # "ise"
  /\ todo' = [todo EXCEPT ![c] = <<>>]
  /\ UNCHANGED <<kind, configVars, boardVars, regVars, driverVars, woken, op, tmp>>

Save(c) ==
  /\ \/ Do(c, "save_device") /\ saved' = [device |-> ReadDevice, bridge |-> saved.bridge]
     \/ Do(c, "save_bridge") /\ saved' = [device |-> saved.device, bridge |-> bridge]
  /\ UNCHANGED <<configVars, boardVars, regVars, suspense, channels, frames, listed, ready, tmp>>

Resumed(c) ==
  /\ Do(c, "resume")
  /\ suspense' = FALSE
  /\ UNCHANGED <<configVars, boardVars, regVars, saved, channels, frames, listed, ready, tmp>>

-----------------------------------------------------------------------------
(* Steps on the processor and the registers.                               *)

Anything ==
  /\ base' \in {"zero", "junk"} /\ resp' \in {"zero", "junk"}
  /\ mask' \in {{}, Bells} /\ bells' \in {{}, Bells}

\* The reset of an ISE is one of its internal bus and clears the device too.
Hold(c) ==
  /\ Do(c, "hold")
  /\ proc' = IF power THEN "held" ELSE proc
  /\ program' = "boot"
  /\ IF kind = "ise" THEN Anything /\ device' = {}
                     ELSE UNCHANGED <<regVars, device>>
  /\ UNCHANGED <<power, bridge, driverVars, tmp>>

Release(c) ==
  /\ Do(c, "release")
  /\ proc' = IF power THEN "running" ELSE proc
  /\ UNCHANGED <<power, program, configVars, regVars, driverVars, tmp>>

Written(was, new) == IF RegistersReached THEN new ELSE was

WriteRegister(c) ==
  /\ \/ Do(c, "base") /\ base' = Written(base, "zero") /\ UNCHANGED <<resp, mask, bells>>
     \/ Do(c, "resp") /\ resp' = Written(resp, "zero") /\ UNCHANGED <<base, mask, bells>>
     \/ Do(c, "mask") /\ mask' = Written(mask, Bells) /\ UNCHANGED <<base, resp, bells>>
     \/ Do(c, "unmask") /\ mask' = Written(mask, {}) /\ UNCHANGED <<base, resp, bells>>
     \/ Do(c, "clear_bells") /\ bells' = Written(bells, {}) /\ UNCHANGED <<base, resp, mask>>
     \/ Do(c, "clear_resp") /\ resp' = Written(resp, "zero") /\ UNCHANGED <<base, mask, bells>>
     \/ Do(c, "table") /\ base' = Written(base, "table") /\ UNCHANGED <<resp, mask, bells>>
     \/ Do(c, "look") /\ UNCHANGED regVars
  /\ UNCHANGED <<configVars, boardVars, driverVars, tmp>>

\* dev_mask_irqs returns what dev_unmask_irqs takes: the mask, or the enabled
\* bells.
ise_mask_irqs  == ReadBells(mask)
jse_mask_irqs  == ReadBells(mask)
ejse_mask_irqs == ReadBells(Bells \ mask)

\* Wrong: the bits that need to be cleared are not.
jse_unmask_irqs_set(bits) == mask \cup bits

ise_unmask_irqs(bits)  == bits
jse_unmask_irqs(bits)  == (mask \cup bits) \ (Bells \ bits)
ejse_unmask_irqs(bits) == (mask \ bits) \cup (Bells \ bits)

MaskIrqs(c) ==
  /\ \/ /\ Do(c, "mask_irqs")
        /\ old' = [old EXCEPT ![c] = ops_table(ise_mask_irqs, jse_mask_irqs, ejse_mask_irqs)]
        /\ mask' = Written(mask, Bells)
     \/ /\ Do(c, "unmask_irqs")
        /\ mask' = Written(mask, ops_table(ise_unmask_irqs(old[c]), jse_unmask_irqs(old[c]),
                                           ejse_unmask_irqs(old[c])))
        /\ UNCHANGED old
  /\ UNCHANGED <<kept, configVars, boardVars, base, resp, bells, driverVars>>

RingRestart(c) ==
  /\ Do(c, "ring_restart")
  /\ program' = IF RegistersReached /\ proc = "running" THEN "boot" ELSE program
  /\ UNCHANGED <<power, proc, configVars, regVars, driverVars, tmp>>

\* -EAGAIN until the boot program says that it is ready.
GetStatus(c) ==
  /\ todo[c] # <<>> /\ Head(todo[c]) = "get_status"
  /\ todo' = [todo EXCEPT ![c] = IF program = "boot" THEN <<>> ELSE <<"run">>]
  /\ UNCHANGED <<kind, configVars, boardVars, regVars, driverVars, woken, op, tmp>>

RunProgram(c) ==
  /\ Do(c, "run")
  /\ program' = IF RegistersReached /\ proc = "running" THEN "application" ELSE program
  /\ UNCHANGED <<power, proc, configVars, regVars, driverVars, tmp>>

FreeFrames(c) ==
  /\ Do(c, "free_frames")
  /\ frames' = FALSE
  /\ UNCHANGED <<configVars, boardVars, regVars, suspense, saved, channels, listed, ready, tmp>>

SetUp(c) ==
  /\ \/ \E r \in {"instance", "registers", "irq"} :
          Do(c, r) /\ ready' = ready \cup {r} /\ UNCHANGED <<listed, frames>>
     \/ Do(c, "list") /\ listed' = TRUE /\ UNCHANGED <<ready, frames>>
     \/ Do(c, "free_irq") /\ ready' = ready \ {"irq"} /\ UNCHANGED <<listed, frames>>
     \* ucr_clear_instance; with the module go all its variables.
     \/ Do(c, "clear_instance") /\ ready' = {} /\ frames' = FALSE /\ listed' = FALSE
  /\ UNCHANGED <<configVars, boardVars, regVars, suspense, saved, channels, tmp>>

-----------------------------------------------------------------------------
(* The rest of the driver, as far as it matters here.                      *)

\* The first channel, and the last; ucr_open refuses a removed board.
Open(c)  == listed /\ ~suspense /\ ~channels /\ Start(c, "open", ucr_open)
Close(c) == channels /\ Start(c, "close", ucr_release)

Channels(c) ==
  /\ \/ Do(c, "opened") /\ channels' = TRUE
     \/ Do(c, "closed") /\ channels' = FALSE
  /\ UNCHANGED <<configVars, boardVars, regVars, suspense, saved, frames, listed, ready, tmp>>

MakeFrame(c) ==
  /\ Idle(c) /\ channels
  /\ frames' = TRUE
  /\ UNCHANGED <<kind, configVars, boardVars, regVars, suspense, saved, channels, listed,
                 ready, woken, op, todo, tmp>>

Step(c) ==
  \/ Config(c) \/ Suspend(c) \/ NoMemory(c) \/ Save(c) \/ Resumed(c)
  \/ Hold(c) \/ Release(c) \/ WriteRegister(c) \/ RingRestart(c)
  \/ GetStatus(c) \/ RunProgram(c) \/ FreeFrames(c) \/ SetUp(c)
  \/ MaskIrqs(c) \/ Channels(c)

\* Wrong: the mask is not looked at.
ise_get_bells_unmasked == ReadBells(bells)

ise_get_bells  == IF ReadBells(mask) # {} THEN {} ELSE ReadBells(bells)

jse_get_bells  == ReadBells(bells) \ ReadBells(mask)
ejse_get_bells == ReadBells(bells) \cap ReadBells(Bells \ mask)
get_bells == ops_table(ise_get_bells, jse_get_bells, ejse_get_bells)

\* An interrupt on the line this board shares with others.
Interrupt ==
  /\ "irq" \in ready
  /\ woken' = get_bells
  /\ bells' = Written(bells, bells \ get_bells)
  /\ UNCHANGED <<kind, configVars, boardVars, base, resp, mask, driverVars, op, todo, tmp>>

-----------------------------------------------------------------------------
(* The board, and the operator at the slot.                                *)

BoardRings ==
  /\ proc = "running"
  /\ \E b \in Bells : bells' = bells \cup {b}
  /\ UNCHANGED <<kind, configVars, boardVars, base, resp, mask, driverVars, woken, op, todo, tmp>>

BoardBoots ==
  /\ proc = "running" /\ program = "boot" /\ base = "zero"
  /\ program' = "ready"
  /\ UNCHANGED <<kind, power, proc, configVars, regVars, driverVars, woken, op, todo, tmp>>

\* Only a board that UCRX_REMOVE has finished with.
PowerOff ==
  /\ power /\ suspense /\ \A c \in Callers : Idle(c)
  /\ power' = FALSE /\ proc' = "off" /\ program' = "boot"
  /\ bells' = {}
  /\ UNCHANGED <<kind, configVars, base, resp, mask, driverVars, woken, op, todo, tmp>>

PowerOn ==
  /\ ~power
  /\ power' = TRUE /\ proc' = "running"
  /\ bridge' = {} /\ device' = {}
  /\ Anything
  /\ UNCHANGED <<kind, program, driverVars, woken, op, todo, tmp>>

-----------------------------------------------------------------------------
Init ==
  /\ kind \in Kinds
  /\ bridge = Parts /\ device = Parts
  /\ power = TRUE /\ proc = "running" /\ program = "boot"
  /\ base \in {"zero", "junk"} /\ resp = base /\ mask \in {{}, Bells} /\ bells \in {{}, Bells}
  /\ suspense = FALSE /\ saved = [device |-> {}, bridge |-> {}]
  /\ channels = FALSE /\ frames = FALSE /\ listed = FALSE /\ ready = {}
  /\ woken = {}
  /\ op = [c \in Callers |-> "none"]
  /\ todo = [c \in Callers |-> <<>>]
  /\ kept = [c \in Callers |-> {}] /\ old = [c \in Callers |-> {}]

Next ==
  \/ \E c \in Callers :
       \/ Reset(c) \/ Restart(c) \/ Run(c) \/ Remove(c) \/ Replace(c) \/ Diagnose(c)
       \/ Probe(c) \/ Unload(c)
       \/ Step(c)
       \/ Open(c) \/ MakeFrame(c) \/ Close(c)
  \/ Interrupt
  \/ BoardRings \/ BoardBoots
  \/ PowerOff \/ PowerOn

Spec == Init /\ [][Next]_vars

-----------------------------------------------------------------------------
BoardType ==
  /\ kind \in Kinds
  /\ bridge \subseteq Parts /\ device \subseteq Parts
  /\ power \in BOOLEAN
  /\ proc \in {"off", "held", "running"}
  /\ program \in {"boot", "ready", "application"}

RegisterType ==
  /\ base \in {"zero", "table", "junk"} /\ resp \in {"zero", "table", "junk"}
  /\ mask \subseteq Bells /\ bells \subseteq Bells
  /\ woken \subseteq Bells
  /\ kept \in [Callers -> SUBSET Parts] /\ old \in [Callers -> SUBSET Bells]

DriverType ==
  /\ suspense \in BOOLEAN
  /\ saved \in [device : SUBSET Parts, bridge : SUBSET Parts]
  /\ channels \in BOOLEAN /\ frames \in BOOLEAN /\ listed \in BOOLEAN
  /\ ready \subseteq {"instance", "registers", "irq"}

TypeOK == BoardType /\ RegisterType /\ DriverType

NextStep(c) == IF Idle(c) THEN "none" ELSE Head(todo[c])

\* No access to a register goes astray while a call is at work on the board:
\* bridge and device are configured, in this order, before it.
RegisterAccessReaches ==
  \A c \in Callers : NextStep(c) \in RegisterSteps => RegistersReached

\* Between calls a board that is not removed answers, its processor runs, its
\* doorbells are open, and it has a root table only while there are channels:
\* in particular after a removal, a power cycle and a replacement.
InService ==
  (listed /\ ~suspense /\ \A c \in Callers : Idle(c)) =>
    /\ RegistersReached
    /\ proc = "running"
    /\ mask = {}
    /\ base = IF channels THEN "table" ELSE "zero"

\* Reset and removal free the frames "because we know that the ISE board is
\* held reset" (ucrx.c:59-61, dev_ise.c:299-301).
FreedWhenHeld ==
  \A c \in Callers :
    (NextStep(c) = "free_frames" /\ op[c] \in {"reset", "remove"}) => proc = "held"

\* A removed board does nothing until it is powered off or replaced.
RemovedIsQuiet ==
  (suspense /\ \A c \in Callers : Idle(c)) => ~frames /\ (device = {} \/ proc = "held" \/ ~power)

\* When a call lets the processor go for good ("All done", dev_ise.c:366), it
\* has cleaned its mailbox before.  (jsex_replace lets it go once too early.)
ReleasedClean ==
  \A c \in Callers :
    (NextStep(c) = "release" /\ \A i \in 2..Len(todo[c]) : todo[c][i] # "release") =>
      base = "zero" /\ resp = "zero"

\* An interrupt of another device never finds bells in a board that did not
\* ring them, whatever of the board is configured or powered at that moment.
NoGhostBells == [][woken' # woken => woken' \subseteq bells]_vars

\* The interrupt handler is registered only while all it uses is there.
HandlerReady == "irq" \in ready => {"instance", "registers"} \subseteq ready

\* Neither a call nor the interrupt handler works on what is not set up.
AccessReaches == RegisterAccessReaches /\ HandlerReady

\* The processor is held when the host takes memory away that it may write to,
\* as long as the board is out, and until its mailbox is clean.
HeldWhenUnsafe == FreedWhenHeld /\ RemovedIsQuiet /\ ReleasedClean
=============================================================================
