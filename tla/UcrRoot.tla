------------------------------ MODULE UcrRoot ------------------------------
(***************************************************************************)
(* The root table of one board, as the kernel driver manages it            *)
(* (sys-linux2.4/ucr.c, ucrx.c and the parts of linux.c and dev_ise.c they *)
(* call).                                                                  *)
(*                                                                         *)
(* The driver never edits the root table the board is using.  Every change *)
(* -- open, close, channel switch, make or free a frame -- duplicates the  *)
(* table into a fresh page, edits the copy, hands its bus address to the   *)
(* board (root_to_board), sleeps until the board echoes that address or    *)
(* ten seconds pass, and only then releases the old page.  What must never *)
(* go wrong is that the board is left with a pointer to memory the host    *)
(* has given back.                                                         *)
(*                                                                         *)
(* A caller is a thread inside the driver.  An action of a caller is the   *)
(* code between two points where it can sleep.  No lock in the driver      *)
(* serialises callers, so with several of them all interleavings are       *)
(* behaviours; with one caller the specification is the sequential use the *)
(* user library makes of the driver.                                       *)
(***************************************************************************)
EXTENDS Naturals

CONSTANTS
  Callers,     \* threads inside the driver
  Handles,     \* ChannelData objects, one for each open file
  ChanIds,     \* channel numbers, 0 among them
  Slots,       \* entries of channel_table_pool
  Frames,      \* frame numbers
  Tables,      \* memory for frame tables
  Pages,       \* memory for root tables
  MapIds,      \* bounds the number of mappings of a frame by one file
  None         \* the null pointer, and "no table in force"

ASSUME ConstantsAssumption ==
  /\ ChanIds \subseteq Nat /\ 0 \in ChanIds
  /\ None \notin Handles \cup Slots \cup Tables \cup Pages

VARIABLES
  \* struct Instance: what the driver knows about the board
  root,               \* page of the current root table
  channels,           \* the ring of open channels, as a set
  frame,              \* frame number -> frame table
  maps,               \* user mappings of frames; frame_ref counts them
  suspense,           \* the board has been removed by UCRX_REMOVE
  root_timeout_flag,  \* one flag for all callers of root_to_board
  \* struct ChannelData
  channel,            \* handle -> channel number
  table,              \* handle -> entry of the pool
  \* memory the board can read
  livePages,          \* root pages that are allocated
  liveSlots,          \* entries of the pool that are allocated
  rootChan,           \* root page -> channel number -> pool entry
  rootFrame,          \* root page -> frame number -> frame table
  \* local variables of the callers
  pc, xpd, arg, sent,
  timers,             \* callers whose ten second timer is armed
  \* the board
  imr0,               \* inbound register: root table base
  omr0,               \* outbound register: root table acknowledge
  bell0,              \* inbound root table bell is pending
  inforce,            \* the root table the board is using
  mode,               \* "up", "hung", "rebooting" or "off"
  bell30,             \* inbound restart bell is pending
  \* history, of the properties only
  stale               \* frames a control call freed under the root table's entry

driverVars == <<root, channels, frame, maps, suspense, stale>>
handleVars == <<channel, table>>
memoryVars == <<livePages, liveSlots, rootChan, rootFrame>>
callerVars == <<pc, xpd, arg, sent>>
waitVars   == <<root_timeout_flag, timers>>
boardVars  == <<imr0, omr0, bell0, inforce, mode, bell30>>
vars == <<driverVars, handleVars, memoryVars, callerVars, waitVars, boardVars>>

WaitPCs == {"connect", "open", "switch", "make", "free", "close", "detach"}
SwapPCs == {"open", "switch", "make", "free", "close"}
PCs     == WaitPCs \cup {"idle", "insert", "drain", "oops"}

Unused      == [i \in ChanIds |-> None]
NoFrames    == [f \in Frames |-> None]
FreePages   == Pages \ livePages
FreeSlots   == Slots \ liveSlots
FreeTables  == {t \in Tables : \A f \in Frames : frame[f] # t}
Mapped(f)   == \E m \in maps : m[2] = f
\* Wrong: channel_by_id misses channel 0, whose ring entry it skips.
TakenButZero(i) == {h \in channels : channel[h] = i /\ i # 0}
TakenBy(i)  == {h \in channels : channel[h] = i}
Waiting(p)  == pc[p] \in WaitPCs

\* No call on the open file h is in progress; the file is not being released.
Usable(p, h) == pc[p] = "idle" /\ h \in channels
                /\ \A q \in Callers : xpd[q] = h => pc[q] \notin {"open", "close"}

-----------------------------------------------------------------------------
(* root_to_board, up to its first sleep: clear the acknowledge register    *)
(* unless this is a disconnect, write the base register, ring bell 0, arm  *)
(* the timer.                                                              *)
\* Wrong: the acknowledge register keeps its last value.
SendUncleared(p, r) ==
  /\ sent' = [sent EXCEPT ![p] = r]
  /\ imr0' = r
  /\ bell0' = TRUE
  /\ root_timeout_flag' = FALSE
  /\ timers' = timers \cup {p}
  /\ UNCHANGED <<inforce, mode, omr0, bell30>>

Send(p, r) ==
  /\ sent' = [sent EXCEPT ![p] = r]
  /\ imr0' = r
  /\ omr0' = IF r = None THEN omr0 ELSE None
  /\ bell0' = TRUE
  /\ root_timeout_flag' = FALSE
  /\ timers' = timers \cup {p}
  /\ UNCHANGED <<inforce, mode, bell30>>

\* Wrong: root_to_board does not wait.
AnsweredAtOnce(p) == TRUE

\* The two ways out of root_to_board's loop; the result is 0 either way.
Answered(p) == omr0 = sent[p] \/ root_timeout_flag

\* root_to_board after its last sleep.
Resume(p, at) ==
  /\ pc[p] = at
  /\ Answered(p)

\* The tail of root_to_board of a caller that does not send again.
CancelTimer(p) ==
  /\ timers' = timers \ {p}
  /\ sent' = [sent EXCEPT ![p] = None]
  /\ UNCHANGED <<root_timeout_flag, boardVars>>

\* Wrong: the edits are made to no table.
DuplicateUnedited(p, ch, fr) ==
  \E new \in FreePages :
    /\ livePages' = livePages \cup {new}
    /\ rootChan' = [rootChan EXCEPT ![new] = rootChan[root]]
    /\ rootFrame' = [rootFrame EXCEPT ![new] = rootFrame[root]]
    /\ Send(p, new)

\* duplicate_root, the edits of the copy, and the first half of
\* root_to_board_free.
DuplicateAndSend(p, ch, fr) ==
  \E new \in FreePages :
    /\ livePages' = livePages \cup {new}
    /\ rootChan' = [rootChan EXCEPT ![new] = ch]
    /\ rootFrame' = [rootFrame EXCEPT ![new] = fr]
    /\ Send(p, new)

\* Wrong: the old page is never released.
SwapLeaks(p) ==
  /\ UNCHANGED <<livePages, rootChan, rootFrame>>
  /\ root' = sent[p]

\* The second half of root_to_board_free: release_root(xsp->root), whatever
\* page that is by now, and install the new one.  What a released page holds
\* is not followed any further: it is empty here.
SwapRoot(p) ==
  /\ livePages' = livePages \ {root}
  /\ rootChan' = [rootChan EXCEPT ![root] = Unused]
  /\ rootFrame' = [rootFrame EXCEPT ![root] = NoFrames]
  /\ root' = sent[p]

Goto(p, at) == pc' = [pc EXCEPT ![p] = at]

\* The call returns to user space.
Return(p) ==
  /\ Goto(p, "idle")
  /\ xpd' = [xpd EXCEPT ![p] = None]
  /\ arg' = [arg EXCEPT ![p] = None]

\* The call goes to sleep at `at`, working for handle h on channel or frame x.
Enter(p, at, h, x) ==
  /\ Goto(p, at)
  /\ xpd' = [xpd EXCEPT ![p] = h]
  /\ arg' = [arg EXCEPT ![p] = x]

-----------------------------------------------------------------------------
(* ucr_open *)

\* The first open connects the board to the table there is.
OpenConnect(p, h) ==
  /\ pc[p] = "idle" /\ h \notin channels /\ \A q \in Callers : xpd[q] # h
  /\ ~suspense
  /\ channels = {}
  /\ Send(p, root)
  /\ Enter(p, "connect", h, None)
  /\ UNCHANGED <<driverVars, handleVars, memoryVars>>

OpenNext(p, h) ==
  /\ pc[p] = "idle" /\ h \notin channels /\ \A q \in Callers : xpd[q] # h
  /\ ~suspense
  /\ channels # {}
  /\ Enter(p, "insert", h, None)
  /\ UNCHANGED <<driverVars, handleVars, memoryVars, waitVars, boardVars, sent>>

OpenConnected(p) ==
  /\ Resume(p, "connect")
  /\ CancelTimer(p)
  /\ Goto(p, "insert")
  /\ UNCHANGED <<driverVars, handleVars, memoryVars, xpd, arg>>

\* Channel 0 is taken: -EBUSY.
OpenBusy(p) ==
  /\ pc[p] = "insert"
  /\ TakenBy(0) # {}
  /\ Return(p)
  /\ UNCHANGED <<driverVars, handleVars, memoryVars, waitVars, boardVars, sent>>

OpenInsert(p) ==
  LET h == xpd[p] IN
  /\ pc[p] = "insert"
  /\ TakenBy(0) = {}
  /\ \E s \in FreeSlots :
       /\ liveSlots' = liveSlots \cup {s}
       /\ table' = [table EXCEPT ![h] = s]
       /\ DuplicateAndSend(p, [rootChan[root] EXCEPT ![0] = s], rootFrame[root])
  /\ channel' = [channel EXCEPT ![h] = 0]
  /\ channels' = channels \cup {h}
  /\ Goto(p, "open")
  /\ UNCHANGED <<root, frame, maps, suspense, stale, xpd, arg>>

\* allocate_channel_table returned 0 and its result is dereferenced.
OpenOops(p) ==
  /\ pc[p] = "insert"
  /\ TakenBy(0) = {}
  /\ FreeSlots = {}
  /\ Goto(p, "oops")
  /\ UNCHANGED <<driverVars, handleVars, memoryVars, waitVars, boardVars,
                 xpd, arg, sent>>

OpenDone(p) ==
  /\ Resume(p, "open")
  /\ SwapRoot(p)
  /\ CancelTimer(p)
  /\ Return(p)
  /\ UNCHANGED <<channels, frame, maps, suspense, stale, handleVars, liveSlots>>

-----------------------------------------------------------------------------
(* UCR_CHANNEL.  The number is tested first; flush_channel and              *)
(* sync_channel, which can both sleep, come before switch_channel.         *)

SwitchCheck(p, h, i) ==
  /\ Usable(p, h)
  /\ channel[h] # i
  /\ TakenBy(i) = {}
  /\ Enter(p, "drain", h, i)
  /\ UNCHANGED <<driverVars, handleVars, memoryVars, waitVars, boardVars, sent>>

SwitchChannel(p) ==
  LET h == xpd[p]  i == arg[p] IN
  /\ pc[p] = "drain"
  /\ DuplicateAndSend(p, [rootChan[root] EXCEPT ![i] = rootChan[root][channel[h]],
                                                ![channel[h]] = None],
                      rootFrame[root])
  /\ channel' = [channel EXCEPT ![h] = i]
  /\ Goto(p, "switch")
  /\ UNCHANGED <<driverVars, table, liveSlots, xpd, arg>>

\* switch_channel returned -ENOMEM, at any time; ucr_ioctl drops that and
\* returns 0.
SwitchNoMem(p) ==
  /\ pc[p] = "drain"
  /\ Return(p)
  /\ UNCHANGED <<driverVars, handleVars, memoryVars, waitVars, boardVars, sent>>

SwitchDone(p) ==
  /\ Resume(p, "switch")
  /\ SwapRoot(p)
  /\ CancelTimer(p)
  /\ Return(p)
  /\ UNCHANGED <<channels, frame, maps, suspense, stale, handleVars, liveSlots>>

-----------------------------------------------------------------------------
(* UCR_MAKE_FRAME, UCR_FREE_FRAME and the mappings.  A frame that exists is *)
(* "recycled" by UCR_MAKE_FRAME: success, and nothing changes.             *)

MakeFrame(p, h, f) ==
  /\ Usable(p, h)
  /\ frame[f] = None
  /\ \E t \in FreeTables :
       /\ frame' = [frame EXCEPT ![f] = t]
       /\ DuplicateAndSend(p, rootChan[root], [rootFrame[root] EXCEPT ![f] = t])
  /\ Enter(p, "make", h, f)
  /\ UNCHANGED <<root, channels, maps, suspense, stale, handleVars, liveSlots>>

MakeDone(p) ==
  /\ Resume(p, "make")
  /\ SwapRoot(p)
  /\ stale' = stale \ {arg[p]}
  /\ CancelTimer(p)
  /\ Return(p)
  /\ UNCHANGED <<channels, frame, maps, suspense, handleVars, liveSlots>>

\* Wrong: the frame's entry stays in the new table.
FreeKeepsEntry(p, h, f) ==
  /\ Usable(p, h)
  /\ frame[f] # None
  /\ DuplicateAndSend(p, rootChan[root], rootFrame[root])
  /\ Enter(p, "free", h, f)
  /\ UNCHANGED <<driverVars, handleVars, liveSlots>>

FreeFrame(p, h, f) ==
  /\ Usable(p, h)
  /\ frame[f] # None
  /\ DuplicateAndSend(p, rootChan[root], [rootFrame[root] EXCEPT ![f] = None])
  /\ Enter(p, "free", h, f)
  /\ UNCHANGED <<driverVars, handleVars, liveSlots>>

\* ucr_free_frame: -EBUSY, and no change, while the frame is mapped.
FreeDone(p) ==
  /\ Resume(p, "free")
  /\ SwapRoot(p)
  /\ frame' = IF Mapped(arg[p]) THEN frame ELSE [frame EXCEPT ![arg[p]] = None]
  /\ stale' = stale \ {arg[p]}
  /\ CancelTimer(p)
  /\ Return(p)
  /\ UNCHANGED <<channels, maps, suspense, handleVars, liveSlots>>

\* xxmmap, and xxvmopen when a process with a mapping forks.
MapFrame(p, h, f) ==
  /\ Usable(p, h)
  /\ frame[f] # None
  /\ \E k \in MapIds : <<h, f, k>> \notin maps /\ maps' = maps \cup {<<h, f, k>>}
  /\ UNCHANGED <<root, channels, frame, suspense, stale, handleVars, memoryVars,
                 callerVars, waitVars, boardVars>>

\* xxvmclose
UnmapFrame(m) ==
  /\ m \in maps
  /\ maps' = maps \ {m}
  /\ UNCHANGED <<root, channels, frame, suspense, stale, handleVars, memoryVars,
                 callerVars, waitVars, boardVars>>

-----------------------------------------------------------------------------
(* ucr_release.  The kernel calls it when no call on the file is in         *)
(* progress and no mapping of it is left.                                  *)

CloseStart(p, h) ==
  /\ Usable(p, h)
  /\ \A q \in Callers : xpd[q] # h
  /\ \A m \in maps : m[1] # h
  /\ DuplicateAndSend(p, [rootChan[root] EXCEPT ![channel[h]] = None],
                      rootFrame[root])
  /\ Enter(p, "close", h, None)
  /\ UNCHANGED <<driverVars, handleVars, liveSlots>>

\* What ucr_release does once the new table is installed; xxrelease then
\* frees the ChannelData object.
DropChannel(p) ==
  /\ channels' = channels \ {xpd[p]}
  /\ liveSlots' = liveSlots \ {table[xpd[p]]}
  /\ channel' = [channel EXCEPT ![xpd[p]] = 0]
  /\ table' = [table EXCEPT ![xpd[p]] = None]
  /\ UNCHANGED <<frame, maps, suspense, stale>>

CloseDone(p) ==
  /\ Resume(p, "close")
  /\ channels # {xpd[p]}
  /\ SwapRoot(p)
  /\ DropChannel(p)
  /\ CancelTimer(p)
  /\ Return(p)

\* The last channel is gone: root_to_board(xsp, 0).
CloseLast(p) ==
  /\ Resume(p, "close")
  /\ channels = {xpd[p]}
  /\ SwapRoot(p)
  /\ DropChannel(p)
  /\ Send(p, None)
  /\ Enter(p, "detach", xpd[p], None)

DetachDone(p) ==
  /\ Resume(p, "detach")
  /\ CancelTimer(p)
  /\ Return(p)
  /\ UNCHANGED <<driverVars, handleVars, memoryVars>>

-----------------------------------------------------------------------------
(* The control device: ucrx_ioctl *)

Control(p) ==
  /\ pc[p] = "idle"
  /\ channels = {}
  /\ UNCHANGED <<root, channels, maps, handleVars, memoryVars, callerVars, waitVars>>

\* The loop over ucr_free_frame in reset, restart and remove.  None of them
\* touches the frame entries of the root table, and frames outlive the last
\* close: an entry that is left names memory that has been freed.
FreeAllFrames ==
  /\ frame' = [f \in Frames |-> IF Mapped(f) THEN frame[f] ELSE None]
  /\ stale' = stale \cup {f \in Frames : rootFrame[root][f] # None /\ ~Mapped(f)}

\* dev_init_hardware
ClearRegisters == imr0' = None /\ omr0' = None

ResetBoard(p) ==
  /\ Control(p)
  /\ ~suspense
  /\ FreeAllFrames
  /\ ClearRegisters
  /\ bell0' = FALSE /\ bell30' = FALSE
  /\ inforce' = None
  /\ mode' = "up"
  /\ UNCHANGED suspense

RestartBoard(p) ==
  /\ Control(p)
  /\ ~suspense
  /\ bell30' = TRUE
  /\ FreeAllFrames
  /\ ClearRegisters
  /\ UNCHANGED <<suspense, bell0, inforce, mode>>

RemoveBoard(p) ==
  /\ Control(p)
  /\ ~suspense
  /\ suspense' = TRUE
  /\ FreeAllFrames
  /\ mode' = "off"
  /\ inforce' = None
  /\ bell0' = FALSE /\ bell30' = FALSE
  /\ UNCHANGED <<imr0, omr0>>

ReplaceBoard(p) ==
  /\ Control(p)
  /\ suspense
  /\ suspense' = FALSE
  /\ ClearRegisters
  /\ mode' = "up"
  /\ UNCHANGED <<frame, stale, bell0, inforce, bell30>>

-----------------------------------------------------------------------------
(* The timer and the board.  A board that is up answers bell 0 well before *)
(* the timer runs out, so the timer only fires when no answer is coming.   *)

\* Wrong: root_timeout does not set the flag.
TimerSilent(p) ==
  /\ p \in timers
  /\ mode # "up" \/ ~bell0
  /\ timers' = timers \ {p}
  /\ UNCHANGED <<driverVars, handleVars, memoryVars, callerVars, boardVars,
                 root_timeout_flag>>

TimerFires(p) ==
  /\ p \in timers
  /\ mode # "up" \/ ~bell0
  /\ timers' = timers \ {p}
  /\ root_timeout_flag' = TRUE
  /\ UNCHANGED <<driverVars, handleVars, memoryVars, callerVars, boardVars>>

BoardAcks ==
  /\ mode = "up"
  /\ bell0
  /\ bell0' = FALSE
  /\ inforce' = imr0
  /\ omr0' = imr0
  /\ UNCHANGED <<driverVars, handleVars, memoryVars, callerVars, waitVars,
                 imr0, mode, bell30>>

BoardHangs ==
  /\ mode = "up"
  /\ mode' = "hung"
  /\ UNCHANGED <<driverVars, handleVars, memoryVars, callerVars, waitVars,
                 imr0, omr0, bell0, inforce, bell30>>

\* The processor takes the restart bell and leaves the root table behind ...
BoardRestarts ==
  /\ mode \in {"up", "hung"}
  /\ bell30
  /\ bell30' = FALSE
  /\ inforce' = None
  /\ mode' = "rebooting"
  /\ UNCHANGED <<driverVars, handleVars, memoryVars, callerVars, waitVars,
                 imr0, omr0, bell0>>

\* ... and goes on with its reset once the base register is clear.
BoardBoots ==
  /\ mode = "rebooting"
  /\ imr0 = None
  /\ mode' = "up"
  /\ UNCHANGED <<driverVars, handleVars, memoryVars, callerVars, waitVars,
                 imr0, omr0, bell0, inforce, bell30>>

-----------------------------------------------------------------------------
Init ==
  /\ root \in Pages /\ livePages = {root}
  /\ channels = {} /\ maps = {} /\ frame = NoFrames /\ stale = {}
  /\ suspense = FALSE
  /\ root_timeout_flag = FALSE /\ timers = {}
  /\ channel = [h \in Handles |-> 0]
  /\ table = [h \in Handles |-> None]
  /\ liveSlots = {}
  /\ rootChan = [a \in Pages |-> Unused]
  /\ rootFrame = [a \in Pages |-> NoFrames]
  /\ pc = [p \in Callers |-> "idle"]
  /\ xpd = [p \in Callers |-> None]
  /\ arg = [p \in Callers |-> None]
  /\ sent = [p \in Callers |-> None]
  /\ imr0 = None /\ omr0 = None /\ inforce = None
  /\ bell0 = FALSE /\ bell30 = FALSE
  /\ mode = "up"

\* The second half of a call that sleeps in root_to_board.
Continue(p) ==
  \/ OpenConnected(p)
  \/ OpenBusy(p)
  \/ OpenInsert(p)
  \/ OpenOops(p)
  \/ OpenDone(p)
  \/ SwitchChannel(p)
  \/ SwitchNoMem(p)
  \/ SwitchDone(p)
  \/ MakeDone(p)
  \/ FreeDone(p)
  \/ CloseDone(p)
  \/ CloseLast(p)
  \/ DetachDone(p)

Call(p) ==
  \/ \E h \in Handles :
       \/ OpenConnect(p, h)
       \/ OpenNext(p, h)
       \/ CloseStart(p, h)
       \/ \E i \in ChanIds : SwitchCheck(p, h, i)
       \/ \E f \in Frames : MakeFrame(p, h, f) \/ FreeFrame(p, h, f) \/ MapFrame(p, h, f)
  \/ ResetBoard(p)
  \/ RestartBoard(p)
  \/ RemoveBoard(p)
  \/ ReplaceBoard(p)

Board == BoardAcks \/ BoardHangs \/ BoardRestarts \/ BoardBoots

Next ==
  \/ \E p \in Callers : Call(p) \/ Continue(p) \/ TimerFires(p)
  \/ \E m \in maps : UnmapFrame(m)
  \/ Board

Spec == Init /\ [][Next]_vars

\* The kernel runs every caller that can go on, timers expire, and a board
\* that is up answers bell 0 (protocol.txt: within 4 seconds).
Fairness ==
  /\ \A p \in Callers : WF_vars(Continue(p)) /\ WF_vars(TimerFires(p))
  /\ WF_vars(BoardAcks)

FairSpec == Spec /\ Fairness

-----------------------------------------------------------------------------
(* Properties *)

\* Type invariant.
TypeOK ==
  /\ root \in Pages /\ livePages \in SUBSET Pages /\ liveSlots \in SUBSET Slots
  /\ channels \in SUBSET Handles
  /\ frame \in [Frames -> Tables \cup {None}]
  /\ maps \in SUBSET (Handles \X Frames \X MapIds)
  /\ stale \in SUBSET Frames
  /\ suspense \in BOOLEAN /\ root_timeout_flag \in BOOLEAN
  /\ channel \in [Handles -> ChanIds]
  /\ table \in [Handles -> Slots \cup {None}]
  /\ rootChan \in [Pages -> [ChanIds -> Slots \cup {None}]]
  /\ rootFrame \in [Pages -> [Frames -> Tables \cup {None}]]
  /\ pc \in [Callers -> PCs]
  /\ xpd \in [Callers -> Handles \cup {None}]
  /\ arg \in [Callers -> ChanIds \cup Frames \cup {None}]
  /\ sent \in [Callers -> Pages \cup {None}]
  /\ timers \in SUBSET Callers
  /\ imr0 \in Pages \cup {None} /\ omr0 \in Pages \cup {None}
  /\ inforce \in Pages \cup {None}
  /\ bell0 \in BOOLEAN /\ bell30 \in BOOLEAN
  /\ mode \in {"up", "hung", "rebooting", "off"}

Idle == \A p \in Callers : pc[p] = "idle"

\* The root table at page r lists each channel of S under its own number,
\* and nothing else.
Lists(r, S) ==
  /\ \A h \in S : rootChan[r][channel[h]] = table[h]
  /\ \A i \in ChanIds : rootChan[r][i] # None =>
       \E h \in S : channel[h] = i /\ rootChan[r][i] = table[h]

\* A running board never holds a root table whose page has been released, nor
\* one with a pointer to a channel table that has gone back to the pool: its
\* next access to a channel would be to memory of someone else.
NoDanglingChannel ==
  mode = "up" /\ inforce # None =>
    /\ inforce \in livePages
    /\ \A i \in ChanIds : rootChan[inforce][i] \in liveSlots \cup {None}

\* Nor one with a pointer to a frame table that has been freed, unless a
\* reset, restart or removal of the board freed it and left the entry in the
\* root table, and nobody has made or freed that frame again: the one way to
\* it, which the code takes to be safe (ucrx.c:102-104).
NoDanglingFrame ==
  mode = "up" /\ inforce # None =>
    \A f \in Frames \ stale : rootFrame[inforce][f] \in {frame[f], None}

\* Between calls, a running board uses exactly the table the driver thinks it
\* uses, that table lists exactly the open channels, and with no channel
\* open the board is detached.
Synchronized ==
  Idle => /\ Lists(root, channels)
          /\ mode = "up" => inforce = IF channels = {} THEN None ELSE root

\* No two open files share a channel number.
ExclusiveChannels ==
  \A g, h \in channels : channel[g] = channel[h] => g = h

\* Between calls only the current root page is allocated: the swap neither
\* leaks a page nor frees one twice.
NoPageLeak == Idle => livePages = {root}

\* Opening a file never dereferences the null pointer.
NoOops == \A p \in Callers : pc[p] # "oops"

\* A frame that exists on the host while channels are open is one the board
\* has been told of.
FrameVisible ==
  Idle /\ channels # {} => \A f \in Frames : rootFrame[root][f] = frame[f]

\* The step that gives a frame's memory back -- UCR_FREE_FRAME, or a reset,
\* restart or removal of the board -- finds a running board that no longer has
\* the frame in the table it uses.
FreedFrameStaysAway ==
  [][\A f \in Frames : frame[f] # None /\ frame'[f] # frame[f] /\ mode' = "up"
       /\ inforce' # None => rootFrame[inforce'][f] # frame[f]]_vars

\* Every call that sleeps for the board returns, answered or timed out.
CallsReturn == \A p \in Callers : Waiting(p) ~> ~Waiting(p)

-----------------------------------------------------------------------------
(* Calls that do not overlap, and the inductive invariant of the driver     *)
(* used that way                                                            *)

\* A step that begins no call while another is in progress.  Frames may be
\* mapped and unmapped at any time.
SerialStep ==
  \/ \E p \in Callers :
       \/ Idle /\ Call(p)
       \/ \E h \in Handles, f \in Frames : MapFrame(p, h, f)
       \/ Continue(p)
       \/ TimerFires(p)
  \/ \E m \in maps : UnmapFrame(m)
  \/ Board

\* How one thread that waits for each call uses the driver; nothing in the
\* driver holds several threads to it.
OneAtATime == [][SerialStep]_vars

\* The other callers are outside the driver.
OthersIdle(p) == \A q \in Callers \ {p} : pc[q] = "idle"

\* At most one caller is inside.
AtMostOne == \A p \in Callers : pc[p] # "idle" => OthersIdle(p)

NobodyIn(S) == \A p \in Callers : pc[p] \notin S

\* What the local variables of a call mean at each place it can sleep.
CallerAt(p) ==
  /\ pc[p] \in {"idle"} <=> xpd[p] = None
  /\ pc[p] \in SwapPCs \cup {"drain"} => xpd[p] \in channels
  /\ pc[p] \in {"connect", "insert", "detach"} => xpd[p] \notin channels
  /\ pc[p] \in {"connect", "detach"} => channels = {}
  /\ pc[p] = "drain" => arg[p] \in ChanIds /\ TakenBy(arg[p]) = {}
  /\ pc[p] \in {"make", "free"} => arg[p] \in Frames
  /\ pc[p] = "connect" => sent[p] = root
  /\ pc[p] \in SwapPCs => sent[p] \in Pages /\ sent[p] # root

CallerInv == \A p \in Callers : CallerAt(p)

\* The root pages in use are the current one and the one being installed.
PageInv ==
  livePages = {root} \cup {sent[p] : p \in {q \in Callers : pc[q] \in SwapPCs}}

\* Each open channel has a pool entry and a number of its own.
SlotInv ==
  /\ liveSlots = {table[h] : h \in channels}
  /\ \A h \in channels : table[h] \in Slots
  /\ \A g, h \in channels : table[g] = table[h] => g = h
  /\ ExclusiveChannels

\* What the current root table and the one being installed list.
RootLists == \A i \in ChanIds : rootChan[root][i] \in liveSlots \cup {None}

TableAt(p) ==
  /\ pc[p] \in SwapPCs \ {"close"} => Lists(sent[p], channels)
  /\ pc[p] = "close" => Lists(sent[p], channels \ {xpd[p]})

TableInv ==
  /\ NobodyIn({"open", "switch"}) => Lists(root, channels)
  /\ RootLists
  /\ \A p \in Callers : TableAt(p)

\* While nobody waits, the base register holds the current root table, or
\* nothing when no channel is open, and a running board has followed it.
RegisterAt(p) ==
  /\ Waiting(p) => imr0 = IF pc[p] = "detach" THEN None ELSE sent[p]
  /\ pc[p] = "detach" => sent[p] = None

RegisterInv ==
  /\ \A p \in Callers : RegisterAt(p)
  /\ NobodyIn(WaitPCs) =>
       /\ imr0 = IF Idle /\ channels = {} THEN None ELSE root
       /\ mode = "up" => inforce = imr0

\* While a caller waits, a running board uses the old root table or the new
\* one, and the new one once there is a reason for the caller to go on.
BoardAt(p) ==
  Waiting(p) /\ mode = "up" =>
    /\ inforce \in {None, root, sent[p]}
    /\ root_timeout_flag \/ ~bell0 \/ omr0 = sent[p] =>
         inforce = sent[p] /\ (sent[p] # None => omr0 = sent[p])

NoTableAway == (mode \in {"rebooting", "off"} => inforce = None) /\ (suspense => mode = "off")

BoardInv == NoTableAway /\ \A p \in Callers : BoardAt(p)

IInv ==
  AtMostOne /\ CallerInv /\ PageInv /\ SlotInv /\ TableInv /\ RegisterInv /\ BoardInv

\* Frame tables: the entries of the current root table, and those of the one
\* being installed, in which the frame being made or freed has its new entry.
FrameInv ==
  /\ \A f \in Frames \ stale : rootFrame[root][f] \in {frame[f], None}
  /\ \A p \in Callers : pc[p] \in SwapPCs =>
       /\ \A f \in Frames \ stale : rootFrame[sent[p]][f] \in {frame[f], None}
       /\ pc[p] = "make" => rootFrame[sent[p]][arg[p]] \in {frame[arg[p]], None}
       /\ pc[p] = "free" => rootFrame[sent[p]][arg[p]] = None
=============================================================================
