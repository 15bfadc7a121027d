# ise-util: a verification project

ISE/SSE boards are computers on PCI cards.  A host talks to the program on a
board through up to 256 byte-stream *channels* and up to 16 shared-memory
*frames*, by way of a Linux kernel driver (`sys-linux2.4`, `sys-common`), a
user library (`libiseio`) and some tools.  These TLA+ modules model the parts
where the hard decisions are: what the driver and a board do to the memory
both of them use, at the same time, with no lock between them but a handful of
mailbox registers and doorbells; how the driver holds the memory of frames and
brings boards in and out of service; and how the library and its plug-ins turn
this into handles, lines and frames for programs.

## 1. Inventory

| Component | State it keeps | Operations | Talks to |
|---|---|---|---|
| Root table protocol (`ucr.c`, `ucrx.c`, parts of `linux.c`, `dev_ise.c`) | `struct Instance`: current root table, ring of open channels, frames and their mapping counts, `suspense`, `root_timeout_flag`; registers IMR0, OMR0 | `ucr_open`, `ucr_release`, `UCR_CHANNEL`, `UCR_MAKE_FRAME`, `UCR_FREE_FRAME`, `mmap`, reset, restart, remove, replace | board: root table register, bell 0, restart bell; kernel memory |
| Channel data path (`ucr.c`, `ucrx.c`) | `struct ChannelData` (channel number, `in_off`, `out_off`, read timeout) and the channel table: two rings of buffers | `ucr_read`, `ucr_write`, `UCR_FLUSH`, `UCR_SYNC`, `UCR_SEND_FILE_MARK`, `UCR_CHANNEL`, `UCRX_TIMEOUT` | board: rings and the change bells; signals |
| Sleeping and waking (`ucr.c`, `dev_ise.c`, `linux.c`) | wait queues `root_sync`, `dispatch_sync`; interrupt mask register; timers | `dev_mask_irqs`/`dev_unmask_irqs`, the four wait loops, `ucr_irq`, the timer handlers, `xxselect` | used by the two above |
| Frame memory (`linux.c`) | page tables of frames, `frame_ref`, a page count for all boards | `ucr_make_frame`, `ucr_free_frame`, `xxmmap`, `xxvmopen`, `xxvmclose`, page faults | root table protocol, processes |
| Board control (`dev_ise.c`, `dev_jse.c`, `dev_ejse.c`, `ucrx.c`, probing in `linux.c`) | PCI configuration spaces of bridge and device, saved copies of them, mailbox registers, `suspense`, which files can be opened | probe, reset, restart, run, diagnose, remove, replace, unload; the interrupt handler | PCI bus, a shared interrupt line, the operator's power switch |
| Console log (`isecons.c`) | a ring of text for all boards, static buffers of the read and write functions | `isecons_log`, read and write of `/proc/driver/isecons`, its two commands | the rest of the driver, processes |
| Kernel glue (rest of `linux.c`, `os.h`) | device tables | file operations, module parameters | forwards to the above |
| libiseio (`libiseio.c`, `ise.c`, `ipkg.c`), Linux and Windows | an `ise_handle`: control file, version, channels with line buffers, frames | bind, open, restart, channel, timeout, writeln, readln, make and delete frame, close | driver; the prom monitor and the program on the board |
| Plug-in loader and library (`lib_linux/plug.c`, `libiseio_plug`) | command socket, a socket per channel, 256 channels with buffer, mutex and condition, 16 frames with a lock | OPEN, CLOSE, FRAME, RUN; the main thread's select loop; `ise_plug_readln`, `writeln`, `frame_lock` of application threads | libiseio on one side, an application on the other |
| Tcl binding, ucrpipe, ise-panel, video_scope, ise-getenv/setenv, jpkg, prom_version | a few flags and threads | tools | libiseio or the driver |

What makes each of them correct, and what is hard about it:

* **Root table.**  The board follows pointers into host memory by itself.  The
  driver must not give back a page, a pool entry or a frame table before the
  board has taken a table without it, whatever the board does meanwhile:
  answer, hang, restart, be pulled out.  Driver and board must agree on the
  table between calls; a channel number has one owner.  Hard: every call
  sleeps in the middle, no lock serialises calls, a timeout looks like an
  answer.
* **Data path.**  Bytes and file marks arrive once and in order, on the channel
  they were written to; a sync means what it says; a program that writes a
  request and reads the reply does not wait for itself.  Hard: buffers that end
  in the middle of a call, rings with one unused slot, signals at every wait,
  two threads on one file, timeouts set or forced from another process.
* **Waiting.**  Nobody sleeps through the event it waits for, and whoever masks
  the doorbells unmasks them.  Hard: thread, timer, interrupt handler and board
  run in parallel.
* **Frame memory.**  Page count and page list are exact after a failure half
  way, with all boards on one limit; a mapping ends where its frame ends and
  keeps the frame there.  Hard: every page allocation sleeps, mappings are
  copied by fork and go in any order.
* **Board control.**  A board that comes back from a power cycle is configured
  in the right order before anything touches its registers; frames are freed
  when the processor is held; an absent board claims no interrupt.  Hard: each
  call is some twenty accesses, the handler of the shared line runs between
  any two, and the sequence differs for three kinds of board.
* **Console log.**  A reader sees log text once and in order while the driver
  logs and other processes read and write.  Hard: user copies sleep and the
  buffers are static.
* **Library.**  Handles are usable in every legal order of calls, beside other
  processes on the same board that may die in any call; a line is neither lost
  nor split by a timeout; nothing stays behind without a handle.
* **Plug-in.**  What is written on a channel reaches that channel, a waiting
  reader is woken, a command is answered.  Hard: two processes, several threads,
  locks that some paths skip, and file numbers that are used again.

`PROJECT.json` lists the hazards at the line where each of them bites, with the
properties that would catch it.

## 2. Modules

| Module | What it is |
|---|---|
| `UcrRoot` | the root table protocol: open, close, channel switch, frames, board control, the board, timeouts |
| `UcrRootProofs` | its theorems |
| `UcrChannel` | one open file: the rings, the calls that move data, timeouts, signals, the board's side of the rings |
| `ByteStream` | what a direction of a channel promises: a queue |
| `UcrChannelStream` | the refinement: each direction of `UcrChannel` implements `ByteStream` |
| `UcrChannelProofs` | theorems of all three |
| `UcrWait` | how threads sleep and are woken: masks, wait queues, interrupt, timers |
| `UcrWaitProofs` | its theorems |
| `FrameMemory` | the pages behind frames, for all boards; mappings |
| `FrameStore` | what frames promise to programs: whole or not there, and there while mapped |
| `FrameMemoryProofs` | theorems: pages and their count; mappings and page faults; `FrameMemory` implements `FrameStore` |
| `BoardControl` | one board in its slot: configuration spaces, power, processor, mailbox, the control calls access by access |
| `BoardControlProofs` | its theorems |
| `ConsLog` | the console: log ring, reads, writes, commands |
| `ConsLogProofs` | its theorems |
| `IseLib` | libiseio: handles of several processes on one board |
| `IseLibProofs` | its theorems |
| `Plug` | a host and a plug-in that stands in for a board |
| `PlugProofs` | its theorems |
| `MCFrameMemory`, `MCBoardControl`, `MCConsLog` | instances for TLC: symmetry sets, the refinement mapping of `FrameStore`, definitions too long for a cfg |

The modules are views of one system, cut where one side relies on little of the
other.  `UcrRoot` assumes that a sleeping caller goes on once its condition holds,
and `UcrChannel` that the doorbells are unmasked; `UcrWait` looks at just that and
shows where it is so and where it is not.  The sleep in the rings, which can miss
its wake-up, is in `UcrChannel` too.  `UcrChannel` treats a
channel switch as the moment the board takes the new number, which is what
`UcrRoot` makes of `switch_channel`.  `UcrRoot` has the frames of one board as
names in a root table and each control call as one step; `FrameMemory` gives the
frames pages, `BoardControl` the calls their accesses.  `IseLib` uses a system
call of the driver as one step, with the results those modules give it, refusals
included.  `Plug` replaces the driver below the library.

### UcrRoot

An action of a caller is the code between two points where it can sleep.
`OpenInsert` is `ucr_open` from the test of channel 0 to the sleep in
`root_to_board`; `OpenDone` is the rest.  `pc` names the place of the sleep, and
`xpd`, `arg` and `sent` are the locals that live across it.

* `root`, `channels`, `frame`, `maps`, `suspense`, `root_timeout_flag` are
  fields of `struct Instance`; the doubly linked ring of channels is a set,
  `frame_ref` is the number of mappings in `maps`.
* `rootChan` and `rootFrame` are the contents of root table pages, `livePages`
  the allocated ones.  A released page goes back to the kernel; what it then
  holds is not followed, and `NoDanglingChannel` forbids the board to hold one.
* `imr0`, `omr0`, `bell0`, `bell30` are registers; `inforce` is the table the
  board uses; `mode` is up, hung, rebooting (until the base register is clear)
  or off.
* `DuplicateAndSend`, `SwapRoot` are `duplicate_root` with the caller's edit and
  `root_to_board_free`, cut at the sleep.  `SwapRoot` releases `xsp->root`,
  *whatever that is by now*, as the code does.
* The loop over 16 frames is one step (`FreeAllFrames`): it does not sleep.
* The result of a timed-out `root_to_board` is the same as of an answered one.
* A failing `duplicate_root` is modelled in `switch_channel`, which tests for it.
  The other callers dereference the result; that crash is not modelled, and
  they are disabled while `FreePages` is empty.
* `CloseStart` requires that no call is in progress on the file and that no
  mapping of it is left: the kernel calls `release` only then.  Frames of the
  board stay when it closes, also when it is the last file.
* `stale` is a history variable: the frames that a reset, restart or removal of the
  board freed while the root table had an entry for them.  The entry stays in the
  table, and the next open hands it to the board.

### UcrChannel and ByteStream

An action of a thread is the choice of what to copy, the end of that copy, one
test of a ring with what follows it, or one step of a wait.  `copy_from_user` and
`copy_to_user` may sleep, so other threads and the board run between `Copy` and
`Copied`, `Fetch` and `Fetched`; `round` holds the locals of the loop.  `nap` is where a
thread is in the wait for a ring: at the test, between the test and
`set_current_state`, or asleep.  A place beyond the end of a buffer, which only two
threads on one half can come to, has its unsigned length wrap and ends in
`wild`.  Bytes are pairs of the channel number and a serial
number, a file mark is an item of its own; buffers are sequences of `PageSize`
items and keep stale contents as memory does.  `AfterFlush` says where each call
goes when its flush ends, also with an error: this is where `-EINTR` and
`-ERESTARTSYS` part.  `sent`, `taken`, `received` and `forced` are history
variables.

`UcrChannelStream` maps the rings to `ByteStream`'s queue: published buffers in
ring order and the part of the current one before `out_off` (`Held`), or filled
buffers less the first `in_off` bytes (`Ready`).  Every step must be a `Put`, a
`Take`, a `Reopen` or stutter.

### UcrWait

The loops of `root_to_board` and `sync_channel` in five steps (mask and mark
asleep; test; unmask; schedule; and out), those of the ring waits in four, the
timers, and the board in two steps (the register or index changes; the bell
rings).  `mask` is the local each masker keeps; `oimr` is the register.
The interrupt handler is two steps: take the bells, wake the queues.

### FrameMemory and FrameStore

`ucr_make_frame` is cut at its allocations, each of which can sleep: for the
table (`MakeFrame`, then `NoTable` or `GotTable`), for the array of kernel
addresses (`GotVirt`), for each page (`GotPage` or `NoPage`).  `NextPage` is the
head of the page loop, with the test of `ise_limit_frame_pages`; `RollBack` is
`no_mem`.  A failed page allocation leaves `phys` uninitialised, so its garbage is
zero or not (`stale`), and the rollback then frees a page it never had; `bogus`
counts these, and every statement about the count of pages has it as its slip.
`table` says whether a frame's table is null, allocated or filled; `held` is the
set of allocated pages.  `Free` is `ucr_free_frame` for one frame or for all.

Both device files of a board can be mapped (`file`).  `xxmmap` counts the mapping
on either; `xxvmopen` and `xxvmclose` take the minor number without stripping the
control flag and so count only those of the channel device (`Counted`).  Offsets
and lengths are in pages, and `Span` is the 256MB of one frame number.
`MapMissing` is the null dereference of `xxmmap` for a frame that is not there: it
kills that caller and leaves the rest.

A frame's table is visible while the pages are still being allocated, and `xxmmap`
does not know the difference: `early` collects the mappings made then, and the
copies of them that forks make.  They can lack pages and outlive the rollback (section
3); what is claimed of mappings is claimed of the others (`OfWhole`), whatever the
early ones do to frames and counts.

`FrameStore` has only a size for each frame and a set of pages for each mapping:
a frame gets its size in one step, a mapping lies inside it, and a frame goes
only when no mapping is on it.  The refinement mapping, `FrameSize` and `Mapped`,
is in `MCFrameMemory`: a frame has its size from the end of the page loop on, and an
early mapping has no counterpart.

### BoardControl

`ucrx_reset_board`, `isex_replace` and the others are written as they are in the
code, as sequences of accesses (`ise_soft_reset`, `init_hardware`, ...) picked by
`ops_table`; `todo` is what remains of a caller's call, and `Step` does its head:
one access, or a few of a kind that have the same effect.  A configuration space
is the set of its parts (`regions`, `command`) that hold what the BIOS put there;
a register is reached when bridge and device are whole and there is power.  What
is not reached reads all ones and takes no write.  The board boots, rings bells,
and loses everything with its power; the operator switches the power only of a
board that has been removed, and on again before he asks for its replacement.
`Interrupt` is the handler called for a bell of *any* device on the line.
`ise_soft_reset` does nothing if bit 0x02 of the bridge's byte 0x40 is set; the driver
only ever writes 0x20 and 0x00 there and a board comes up with the bit clear (an
assumption about the hardware), so the test always passes and is not in the model.

### ConsLog

Characters are numbered as they are logged, so a place in the ring tells which
one it holds.  What does not sleep is one step (`isecons_log`, `isecons_read`,
`isecons_write`); between two of them a process copies from or to its user, with
or without a fault, and others run.  `rbuf` and `wbuf` are the static buffers;
the ghost `crossed` notes that one of them was filled while another process
still used it, and `OwnText` claims order and completeness only without that.

### IseLib

A process has one handle; a step is what the library does up to its next system
call.  `ise_open` is eight of them (open and restart the control device, open
channel 254, say hello, wait for the prompt, ask for the version, close, restart
again), `ise_restart` eight to a hundred.  The board takes firmware from channel
0, answers on 254, and sends lines in pieces on the program's channels.  `Exit`
is the kernel's clean-up of a process that dies in any call.  The driver's
refusals because of another process put both into `hindered`; those because of the
caller's own channels do not.

On Linux a `Signalled` process can have any call of the driver that sleeps end with
an error (`Interrupted`), which the library mostly does not look at: `VersionFails`,
`SendFails`, `SyncFirmware`, `SwitchMonitor`, `NumberChannel`, `ReadFails`.  A prompt loop
whose read fails runs off the end of its buffer (`Astray`), and either finds a `>` in the
memory behind or kills the process (`Crash`, which also is the end of a process whose
frame was freed before it could map it).  A version got that way is not `sound`.  Windows
has no signals, and a `ReadFile` that fails is not modelled.  `ise_readln` has the length of
the caller's buffer (`BufLens`): the test comes after the next read, as in the code, and
what the line has more is written behind the buffer, which the model keeps as text.

`platform` selects the differences of the two libraries; they share the driver's
model, as the Windows driver is not in the repository.

### Plug

Host, main thread and application threads are state machines; `port` and `conns`
are the sockets, `fds` the plug-in's table of file numbers.  `Select` remembers
which files were ready, and `NextChannel` looks at that set after the commands have
been run, as `main` does.  `FindLine`, `SetFill` are the two halves of taking a
line out of the buffer; `WriteBegins` and `WriteEnds` of a blocking write.  OPEN and
CLOSE change `fds` and `chfd` without the channel's lock, and `crossed` marks the
calls they came across.  A `bind` that fails ends `channel_open_plug` before it has
written or changed anything: a stuttering step.  `Die` is an assertion or SIGPIPE.

## 3. Runs

| Run | Instance | Question, and answer |
|---|---|---|
| `root` | 1 caller, 3 files, 3 numbers, 2 pool entries, 1 frame with 2 places for its table, 3 pages; frames left behind, a pool that runs out | is the swap safe when calls come one at a time, with hang, restart, removal, and does every call return on any board?  Yes, but for entries of freed frames a control call leaves (`stale`); and `IInv`, which the proofs rest on, holds |
| `chan_signals` | 3 buffers each way, 4 items out and 3 in, signals, close and reopen | do signals at reads, writes, flushes and syncs lose or repeat anything?  No |
| `chan_live` | 3 and 2 buffers, all calls but close, no signals, a board that only has to read | is the output a stream on its channel; do senders return, requests arrive, timeouts end reads?  Yes, but for a missed wake-up |
| `wait_masked` | 1 thread in `root_to_board` with its timer, 1 in `sync_channel`, 1 reader | are masked waits safe and live when they overlap?  Nobody is left asleep; the bells stay masked only if one thread opened them inside the other's section |
| `frames` | 2 boards, a limit of 3 pages, 2 mappings | are count, limit and pages right after any failure, and is a frame whole and there while mapped?  Yes, with named slips, and but for mappings made while the frame was |
| `board_control` | 1 caller, ISE and JSE | does every control call configure before it touches, hold before it frees, and leave the shared interrupt alone?  Yes |
| `conslog` | 2 processes, ring and copies of 2 characters | does a reader see each character once, and a writer run its own commands?  Yes, unless the static buffers cross |
| `lib` | 2 processes, one mortal and with failing calls, Linux and Windows | are lines whole, is `ISE_OK` true, does nothing stay behind, do calls end?  Yes, but for lines that something cuts, and outside named collisions |
| `plug` | 1 application thread, 2 channels, 1 frame | lines, frames, answers, wake-ups between host and plug-in?  Yes, outside named overlaps |
| `wait_ring` | 1 reader | is its recheck "interrupt safe"?  No: a wake-up can be lost |
| `plug_open` | a host that opens, closes and opens | is every OPEN answered?  No: the main thread can block in a read of a file that was not ready |
| `chan_polling` | 1 reader that sets its timeout to 0 | does the read poll, as the header says?  No: it sleeps until data comes |

The last three are findings in `PROJECT.json`, with the sentence of the code or its
documents that they contradict.

Several properties carry a condition that names what the code fails at, so that
the rest can be claimed: `bogus` in `FrameMemory` (pages freed that were never
allocated), `crossed` in `ConsLog` and `Plug` (a static buffer or a file used by
two at once), `hindered` in `IseLib` (another process came across), `stale` in
`UcrRoot` (a frame freed under its entry), `torn` in `UcrWait` (bells opened inside
another thread's section), `early` in `FrameMemory` (a frame mapped while it is made).  The
conditions are set by the step that does it and by nothing else, and in every
instance both values are reached.  `Oversleeps` in `UcrChannel`, a thread asleep for what
has happened, is a predicate on the state, and the properties except it only when it lasts.

### Other disagreements met while modelling

They have no run of their own.  Those of the first table show when a run's
constants are changed; those of the second are visible in the action named or in
the code alone.

| Where | What | How to see it |
|---|---|---|
| `ucr.c:253` | two calls at once leave the board with a released root page, although `protocol.txt:105` has the host wait for the acknowledge before it reuses one | `NoDanglingChannel` in `root` with two `Callers` and four `Pages` |
| `ucrx.c:62` | after a reset (`ucrx.c:102-104`: no pointers are left) the frame entries of the root table remain and the next open sends them | `NoDanglingFrame` in `root`, for all `Frames` instead of `Frames \ stale` |
| `ucr.c:345` | `UCR_FREE_FRAME` of a mapped frame hides it from the board and then returns `-EBUSY`; `ucrif.h:150-153` | `FrameVisible` of `UcrRoot`, added to `root` |
| `ucr.c:491` | a signal in `UCR_SEND_FILE_MARK`: the flush returns `-ERESTARTSYS`, the test is for `-EINTR`, the mark overwrites the bytes; `ucr.c:882-885` | `WritesAreAStream` in `chan_signals` with `"mark"` in `Calls` |
| `dev_ise.c:178` | masked sections that overlap and do not nest leave the bells masked, against `dev_ise.c:172-176`; a `sync_channel` then sleeps on | `~LeftMasked` added to `wait_masked` |
| `ucr.c:593`, `ucr.c:922` | two callers can take the same channel number | `ExclusiveChannels` in `root` with two `Callers` |
| `ucr.c:187` | a caller clears the timeout flag another one's timer set, and that one sleeps for ever | `CallsReturn` in `root` with two `Callers`, four `Pages`, two `Handles` |
| `ucr.c:604` | an open without a free pool entry uses the null pointer | `NoOops`, added to `root` |
| `ucr.c:923` | a signal in `UCR_CHANNEL` moves unflushed bytes to the new channel | `OnItsChannel` in `chan_live` with `Signals` TRUE |
| `ucr.c:748` | a read's flush beside another thread's write publishes an empty buffer, a mark nobody sent | `WritesAreAStream` in `chan_signals` with two `Threads` |
| `ucr.c:778`, `ucr.c:854` | two threads that read, or write, at once copy at the same offset while the first one's copy sleeps, and both then move it: bytes repeated, lost or beyond the buffer | `TypeOK` in `chan_signals` with two `Threads` |
| `ucr.c:422` | the read timer's wake-up can be lost like the bell's | `RingWaitsEnd` in `wait_ring` with `TimedReads` TRUE |
| `linux.c:679` | another process can map a frame that is still being made and finds holes in it, or outlive its rollback | `MappedPagesHeld` in `frames`, for all mappings instead of `OfWhole` |
| `dev_ejse.c:195` | replacing an EJSE board saves the state of the bridge where it should restore it; `ucrif.h:318-319` | `InService` in `board_control` with `Kinds` `{"ejse"}` |
| `dev_ejse.c` | reset and removal of an EJSE do not hold its processor (`ejse_soft_reset` is empty) | `HeldWhenUnsafe`, same |
| `dev_ejse.c` | an EJSE that is not there claims every interrupt of its line | `NoGhostBells`, same |

| Where | What |
|---|---|
| `ucr.c:755` | a timeout forced on a read that is blocked in its flush is cleared before the wait for data (`Arm`, after `ForceTimeout`); `ucrif.h:295-297` has it end "any currently blocked reads" |
| `ucr.c:925` | `UCR_CHANNEL` reports success when `switch_channel` failed (`SwitchNoMem`) |
| `ucr.c:666` | close does not flush; `ucrif.h:65` says so, `ucrif.h:96-97` says the opposite (`Reopen`) |
| `linux.c:209-225` | a failed page allocation leaves `phys` as it was, and the rollback may free a page never allocated and take it off the count; the comment at `linux.c:243` has the count exact (`NoPage`) |
| `linux.c:198` | the limit is tested before an allocation that sleeps and the page is counted after it: boards that allocate at once pass it by one each (`LimitKept` states that) |
| `linux.c:478-514` | `xxvmopen`, `xxvmclose` take the minor number with the control flag in it: a mapping through the control device leaves `frame_ref` up for good (`Counted`) |
| `linux.c:174`, `192` | `vmalloc` is not checked; `frame_virt` is never freed |
| `linux.c:673`, `679` | a frame of 256MB cannot be mapped whole; `mmap` of a missing frame uses a null pointer (`MapMissing`) |
| `dev_jse.c:213-220` | replacing a JSE board releases its processor before its registers are clear |
| `dev_ise.c:275` | `isex_remove` does not check `kmalloc`; `ise_probe` ignores errors of its PCI calls; `ise_remove` does not lower `num_dev` |
| `ucrif.h:325-345` | `UCRX_BOARD_TYPE` is documented and not implemented |
| `isecons.c:231` | `<dump-root>` without a board uses a null pointer; `<bell0>` rings a board that has been removed |
| `isecons.c:258`, `282` | the static buffers of reads and writes are shared by all processes (`crossed`) |
| `libiseio.c:379-384` (Linux) | `ise_open` goes on with the null handle of a failed `ise_bind` |
| `libiseio.c` (Linux) | `ise_bind` does not connect, so `ise_timeout` fails on a bound handle that `libiseio.h` allows it on; a timeout of a read is never returned as `ISE_CHANNEL_TIMEOUT` |
| `libiseio.c` (both) | `ise_close` ignores that its restart was refused, though the header says the board is reset; the control file stays open |
| `libiseio.c:474` (Linux), `888-893` (Windows) | the second restart of `ise_open` can be refused and nobody looks; frames that others map, and on a refusal all that a dead process left, stay, against `libiseio.h:101-104` ("any open frames are cleared away") |
| `libiseio.c:414-465` (Linux) | a read of the monitor that fails sends the prompt loop past its buffer, or cuts the version short; the handle is returned all the same (`VersionFails`, `FindsPrompt`, `Crash`) |
| `libiseio.c:270-286` (Linux), `355-392` (Windows) | the loop that copies a line has no bound: what is longer than the caller's buffer is written behind it; the test comes after the next read, and the call fails then (`ReadMore`) |
| `ise.c:86-91` (Linux) | a refused `UCRX_RESTART_BOARD` in `ise_restart` is not noticed, also when it is the caller's own channel that is open: firmware is written to the running program, and `UCR_SYNC` waits for ever, against `libiseio.h:57-58` (`CallsEnd` excepts it) |
| `ise.c:161-166`, `224-230` (Linux) | errors of writes and syncs are dropped: an `ise_writeln` that was interrupted is ISE_OK |
| `ise.c:204`, `linux.c:679` | the result of `mmap` is not checked; of a frame that another process freed meanwhile it does not even return (`Crash`) |
| `libiseio.c` (Windows) | the filter of log lines fails after a timeout amid the line |
| `libiseio_plug`, `channel.c:65-66` | a timed `ise_plug_readln` never times out (`prc<0 && errno`), against its header |
| `libiseio_plug` | a channel the host has closed kills a plug-in that writes to it (SIGPIPE); the header says the data is dropped |
| `libiseio_plug`, `lib_main.c` | a command split across two reads is lost; after the host has closed the command socket the main thread spins; an OPEN leaves old text in the buffer; a line longer than the buffer never completes |
| `plug.c` | freeing a frame is not told to the plug-in |

### Bounds

* `UcrRoot`.  The swap needs two pages, a third one shows that a freed page is
  reused; three files show close in the middle of the ring and one file on a number
  another one wants; a third channel number gives a switch that is not an exchange; two pool
  entries let the pool run out.  A frame freed and made again gets the other of two `Tables`.
  `MapIds` bounds the mappings of a frame.  1,170,486 states.
* `UcrChannel`.  Rings of 2 and 3 buffers of 2 bytes wrap within the 3 or 4 items that are
  sent each way, and calls of up to 3 bytes end inside, at and beyond a buffer's end.
  `MaxSent` and `MaxMade` bound the histories in the guards of `Write`, `MarkCall` and
  `BoardMakes`; `Reopen` starts them again.  `chan_live` leaves out `Reopen`, which a progress
  property would have to except.  949,554 and 223,992 states.
* `FrameMemory`.  Frame 15 is the one at the edge of the address space.  Three pages
  with a limit of three let two boards run into the limit half way, and let both be past
  its test at once.  Two mappings of at most three pages: one can be the copy of the
  other, on the other device, or early.  `MaxRefs` and `MaxBogus` bound the slips.
  1,208,520 states.
* `BoardControl`.  One caller, because control calls have no lock and two of them on one
  board do what they like; interrupts and the board run between any two accesses.  32,132 states.
* `ConsLog`.  A ring of two characters with messages of one to three: it wraps, overflows
  and is overfull by one message; a page of two splits commands and reads.  287,867 states.
* `IseLib`.  Two processes, one channel each: a conflict needs no third.  One of them
  exchanges lines (`Talkers`) or none does; a line is two pieces, firmware two, the prompt is
  awaited twice.  A buffer of one is too short for the line, one of two is not.  One process
  has failing calls.  `Guests` could use the board beside the process that exchanges lines; in
  the run nobody does, since lines touch only their own channel.  The program answers only
  what was asked.  839,602 states.
* `Plug`.  Two channels, so that a file number moves from one to the other; one application
  thread, as two of them only meet at locks; buffers of three characters, lines of two;
  sockets hold one item, so that they fill.  773,919 states.

Symmetry is used in `frames` only, over boards and mappings, which the code only compares.

`CHECK_DEADLOCK FALSE` is used where the system does stop: after a null dereference
(`root`, `frames`), when the plug-in has died (`plug`), and in the three runs that look
for one violation.

### Fairness

* `UcrRoot`: `WF` of each caller's continuation and of its timer (the kernel schedules
  runnable threads and runs timers) and of the board's answer to bell 0 (`protocol.txt` gives it a
  deadline; a hung board never answers and none is assumed).  `TimerFires` fires only when
  no answer is on its way: ten seconds against the board's four.
* `UcrChannel`: the same of threads and timers, and of the board reading its ring, without
  which `SendersReturn` is not promised.  A thread asleep in a ring has no step of its own: only a
  bell, a timer or a signal wakes it, and one that missed its wake-up may sleep for ever; the
  properties except just that (`[]Oversleeps`), and `RingWaitsEnd` shows that it happens.
* `UcrWait`: `WF` of threads, doorbells and timers, and `SF` of the interrupt: the line is level-triggered, so
  a bell that is pending while threads mask and unmask is taken when the mask opens, however
  short that is.
* `IseLib`: `WF` of each process in a call and of the board (firmware runs, a program
  reads its channels and answers).  `CallsEnd` excepts calls that wait for what nobody sends.
* `Plug`: `WF` of the host, `SF` of the main thread and of application threads: they compete
  for mutexes, and a mutex is passed on.  `BoardControl`, `FrameMemory` and `ConsLog` check safety only.
* New calls, signals, data from the board, restarts, deaths and failures have no fairness.

## 4. Proofs

All checked by TLAPS, for every value of the constants that the assumptions admit: any number of
threads, files, channels, frames, processes, any sizes and limits.  TLC checks each property that a
theorem states on the runs of section 3; a hypothesis of a theorem beyond the constants' assumptions is
named here, with what TLC finds without it.

`UcrRootProofs`: `TypeCorrect`, for any number of callers.  The types alone are not inductive: a
caller uses its locals after a sleep, so `LocalOK` says what they hold at each place it can sleep.
The rest is under `OneAtATime`, for any number of callers: no call begins while another is in
progress (mappings may come and go at any time; section 3 says what happens when calls overlap).  With
one caller that is every behaviour (`SingleCaller`), which is what `root` checks:

* `Inductive`: `IInv`, in seven parts.  `AtMostOne`: one caller is inside.  `CallerInv`: what the locals
  mean at each place.  `PageInv`: the pages in use are the current one and the one being installed.
  `SlotInv`: open channels and pool entries correspond one to one.  `TableInv`: the current table lists the open channels, the next one
  those of after the call.  `RegisterInv`: what the base register holds.  `BoardInv`: a running board
  uses the old table or the new, and the new one as soon as there is *a reason for the caller to go
  on* -- acknowledge or timeout.  That last part is why a timeout is safe: the timer fires only when
  the bell has been taken, or when the board is not up and comes up again only without a table.
* From it: `DanglingSafe`, `AlwaysSynchronized`, `ChannelsExclusive`, `PagesReturned`.
* `FramesSafe` (`NoDanglingFrame`), with `FrameInv`, whoever leaves frames behind: every frame entry of
  the root table is null, `stale`, or the frame there is.  What it excludes is what the code gets wrong,
  and no more: the entries a control call leaves, until somebody makes or frees that frame again.
* `FramesFreedLast` (`FreedFrameStaysAway`, an action property) has no exception: the order inside
  `UCR_FREE_FRAME` is right by itself.

`UcrChannelProofs`, about one open file with rings and buffers of any size:

* A copy from or to a user can sleep between the choice of its place and the move of the offset, so
  two readers, or two writers, that meet there repeat bytes, lose them or run out of the buffer (`wild`).
  The theorems are for any number of threads of which one at a time is in that part of a read
  (`[]OneReader`), or in the part of a call that fills or publishes buffers (`[]OneSender`); the others may
  sleep, wait and do the other half.  Nothing in the driver keeps threads to it; a program with one
  reader and one writer on a file is still not safe, since a read that is about to block flushes.
* `TypeKept` (`TypeOK`), under both: what each local holds at each place, and that the read offset is below the
  length of the buffer it is in (`InType`), which the copy loop of `ucr_read` relies on.
* `ReadsStream`, under `[]OneReader`: the input side implements `ByteStream`.  `Taking`: a thread between
  the choice and the move finds the buffer and the offset as it left them.
* `WritesStream`, under `[]OneSender`: the output side does (`sent = taken \o Held` at every step), if
  `MarksSafe` (no signals, or no file marks).  `FlowInv` is what it rests on: a flush happens only with
  bytes in the buffer, a mark is put only into an empty one.  With signals in
  `UCR_SEND_FILE_MARK` TLC finds it violated: section 3.
* `SyncKept` (`SyncedMeansTaken`), if besides nobody sends while a thread waits in `UCR_SYNC` or `UCR_CHANNEL`
  (`[]SyncAlone`).  `SyncInv`: who waits there has flushed or has a signal.  All three are needed.
* `ChannelKept` (`OnItsChannel`), under `[]OneSender`, `[]SyncAlone` and `~Signals`.  `ChanInv`: board and driver differ about the
  channel only within `UCR_CHANNEL`, and then the driver holds nothing.
* What is held is a concatenation of the ring's buffers, `FlattenSeq`, a function defined by recursion.  Its
  lemmas (one buffer more at the end, one less at the front) are proved by well-founded induction on the
  set of lengths for which they hold (`SetInduction`).

`UcrWaitProofs`: `WaitTypeCorrect`; `NoneLeftAsleep`, for any number of threads of every kind, because a
masked wait tests after it has marked itself asleep (`WakeInv`) and stays on its queue (`QueueInv`); and
`BellsUnmasked` (`MaskRestored`), for any number of threads whose masked sections overlap as they like: as long
as nobody opens the bells inside the section of another, exactly one thread between mask and
unmask remembers them open, or none is there and they are open.  Sections that nest keep it so.

`FrameMemoryProofs`:

* `TypeCorrect`; `PagesCounted`, for any number of boards, frames and any limit: the inductive `FrameInv` is the
  count up to `bogus` (`CountBounds`), that each page belongs to a table which will free it (`NoPageLost`),
  what a caller counts on when an allocation wakes it (`MakerInv`), and the limit less the boards that are
  past its test (`BudgetInv`).  The last is needed because `LimitKept` alone does not say how many more
  pages are on their way.  `CounterExact`, `LimitHolds` and `PagesKept` follow.
* `MappingsKept`, the inductive `MappingInv`: a mapping on the channel device, early or not, is
  counted in `frame_ref` (`RefInv`), a frame that is not being made is whole (`WholeInv`), a mapping of a
  frame that was whole lies inside it, and the frame is not being made again (`SegmentInv`).
  `FaultsFindPages` follows: a page fault of such a mapping finds a page that is held.
* `FramesImplementStore`, `Spec => FramesAreWhole`.  Every step of the page loops is unseen
  but the last one, which shows the whole frame; every freeing step shows in the abstract store only
  frames nobody maps.

`BoardControlProofs`, for any number of callers:

* `TypeCorrect`; `GhostFree` (`NoGhostBells`), if no board is an EJSE: the handlers of ISE and JSE claim a bell
  only if one is pending, in every state of configuration and power, whatever the callers do.
* `AccessesReach` (`AccessReaches`), `ServiceRestored` (`InService`), `BoardHeld` (`HeldWhenUnsafe`), for ISE and
  JSE boards (an EJSE violates the last two) and in behaviours where calls do not overlap
  (`[]OneCallAtATime`; nothing in the driver keeps a second caller off, and two of them violate all three).
  The properties speak of moments -- the next access, the end of a call -- and are not inductive.  `Inv`
  is: a call has the end of a fixed list of steps left to do (`Steps`, `From`), and what holds before each
  step of each list holds (`Facts`: `IseReset`, `JseReplace` and so on, a table by place); between calls the
  board is `AtRest`, that is not installed, in service, or out with its configuration saved.
  Interrupts, the board and the power switch leave all of it as it is.

`ConsLogProofs`, for every size of ring, page and messages and any number of processes:

* `NewestKept` (`NewestText`): the arithmetic of the wrapped index.
* `TextKept` (`OwnText`).  The count of characters is inductive only with where they are: what has left the
  ring is older than what is in it (`GotInv`), the one process that copies has in the static buffer a
  piece that comes right after all that was copied (`CopyInv`), and a process's chunk stays in the other
  static buffer until somebody else writes (`ChunkInv`).  Each of these is claimed while `crossed` is FALSE.
* `TypesKept` (`TypeOK`).

`IseLibProofs`, for any number of processes on a board, mortal or not, and both platforms:

* `HeldWell` (`ResourcesHeld`).  `HoldInv` has for each process what its argument is at each place (`ArgInv`) and
  that it has a channel in its list or is at a place where it is just taking or giving one back
  (`OwnerInv`); for the board, that mappings, frames and orphans agree with the handles (`FrameInv`), that
  only the process in `ise_restart` has firmware on channel 0 and no more than there is (`SizeInv`), and
  the counts of lines (`CountInv`).
* `OKKept` (`OKMeansDone`).  `OKInv`: two processes that control the board at the same time are both in
  `hindered` (`ControlInv`); for a process that is not, the firmware on its way and that on the board are its
  own, as many pieces as it has sent (`FirmwareInv`); the prom speaks to the holder of channel 254 only,
  and it has heard what its place in `ise_open` says (`PromptInv`).
* `LinesKept` (`LinesAreWhole`).  `LineInv`: the text a program has, the line so far and the line buffer are
  three consecutive pieces of what the board sent, and the line so far has no newline.  So it is
  shorter than a line, which bounds what a call puts into a buffer that is long enough for one
  (`BuffersSuffice`).

`PlugProofs`, for any number of channels, frames, files and application threads, from one invariant of the two
processes (`ProcessInv`): at most one OPEN is underway and the host waits for it (`OpenInv`); a FRAME command
on its way carries the frame the host waits for (`FrameInv`); no two files are one connection, and the
file of a channel is a connection of that channel, but for the moment OPEN changes it (`FileInv`); the holder
of a lock is in a call that takes it (`LockInv`); the count of a buffer agrees with its text unless its
holder is between the two halves of taking a line (`BufInv`); and calls whose channel has an OPEN or CLOSE
ahead are `crossed` (`CrossInv`).

* `FramesKept` (`FramesAgree`, an invariant and an action property).
* `HarmKept` (`HarmOnlyCrossed`), with `AnswersInv`, the same of what threads have written.
* `OrderKept` (`LinesInOrder`), with `LinesInv`: what is on its way down a connection is the end of what was sent
  on it (`DownInv`), a new connection has not been read (`NewInv`), and what was read of a channel joins on
  to the buffer, and the buffer to what is on its way (`LineInv`).

Only model-checked: all liveness (`CallsReturn`, `MaskedWaitsEnd`, `SendersReturn`, `RequestsArrive`, `ReadsReturn`, `CallsEnd`,
  `CallsAnswered`, `ReadersWake`): reasoning about fairness and ENABLED is outside what the prover does.

## 5. Not modelled, and the plan

Not modelled, with reasons:

* `ucrpipe`, ise-panel, video_scope: their calls on the driver are actions of the modules above; what they
  add is a few flags, a window, or a board program that is not in the repository.
* Tcl binding, environment tools, flash tools, packaging: one pass over arguments or a file, nothing
  kept between calls.
* `ipkg.c`: a file format; `IseLib` uses its result, the pieces of the firmware.
* Kernel glue beyond what `FrameMemory` and `BoardControl` have: registration of devices, module
  parameters, `/proc` text.
* In `UcrRoot`: `UCRX_RUN_PROGRAM` and `UCRX_DIAGNOSE`, which change nothing of its state (they are in
  `BoardControl`); trace output; select's registration on a queue.
* In `IseLib`: `ISE_TIMEOUT_FORCE`, several threads on one handle, failing reads on Windows, and what a line
  longer than its buffer overwrites.  In `Plug`: a host that dies, commands
  longer than a read, an application thread that waits on several channels.

Next, in this order:

1. Both sides of `UcrChannel` for threads that read or send at once, stated with the slips they have (bytes
   read twice, an empty buffer published) as `FrameMemory` states its counts with `bogus`, and proved.
2. What of `IInv` survives calls that overlap in `UcrRoot`, stated with the slips they cause.
3. `ucrpipe`: two copying threads on one channel.
