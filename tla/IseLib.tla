------------------------------- MODULE IseLib -------------------------------
(***************************************************************************)
(* libiseio, the library of the host's programs (libiseio/lib_linux and    *)
(* libiseio/lib_windows): handles on a board that several processes use at *)
(* once.  A step is what the library does up to its next system call; what *)
(* a call of the driver does is modelled in UcrRoot, UcrChannel and        *)
(* FrameMemory, and is one step here.                                      *)
(*                                                                         *)
(* A process has one handle.  What other processes do to its board while a *)
(* call of it is on its way, and what the driver refuses because of them,  *)
(* is noted in `hindered`.  What the driver refuses because of the         *)
(* process's own channels is not.                                          *)
(***************************************************************************)
EXTENDS Naturals, Sequences, FiniteSets

CONSTANTS
  Handles,   \* processes
  Mortal,    \* those that may die
  Signalled, \* those that get signals (Linux)
  Cids,      \* channels that programs use, not 0 or 254
  Frames,    \* numbers of frames
  Pieces,    \* writes that a firmware file takes
  Retries,   \* of run_program (100 in the code)
  LineLen,   \* length of a line from the board, with its newline
  BufLens,   \* lengths of the buffers that programs read lines into
  MaxLines,  \* bound: lines asked for on a channel
  MaxOpen,   \* bound: channels that a process opens
  Talkers,   \* bound: in a behaviour one of these exchanges lines, or (None) no process
             \* does and they use frames
  Guests,    \* bound: those that use the board beside a process that exchanges lines
  LogLines,  \* numbers of the lines that begin with <\001>
  LineCid,   \* bound: the channel that is opened where lines are exchanged
  Platforms, \* "linux", "windows"
  None

ASSUME LibAssumption ==
  /\ Pieces \in Nat \ {0} /\ Retries \in Nat \ {0} /\ LineLen \in Nat \ {0}
  /\ MaxLines \in Nat /\ MaxOpen \in Nat /\ Talkers \subseteq Handles \cup {None}
  /\ LogLines \subseteq Nat /\ Cids \cap {0, 254} = {} /\ LineCid \in Cids
  /\ Platforms \subseteq {"linux", "windows"} /\ None \notin Handles
  /\ Mortal \subseteq Handles /\ Signalled \subseteq Handles /\ BufLens \subseteq Nat

VARIABLES
  platform,
  talker,             \* process that exchanges lines
  owner,              \* channel number -> process that has it open
  frames, mapped,     \* frames of the board; frame -> processes that map it
  orphans,            \* frames that a process left behind when it died
  fifo, image,        \* firmware on channel 0: written, taken by the board
  mode, running,      \* "prom", "loaded", "program"; the firmware that runs
  said,               \* what the prom monitor has said on channel 254
  asked, sent, taken, \* channel -> lines asked for, characters sent, read
  timed,              \* channels with a read timeout
  pc,                 \* process -> place in its call
  isex,               \* processes with the control device open
  version,            \* process -> version string, and whether no read of it failed
  clist,              \* process -> its channels, newest first
  base,               \* process -> frame -> "null", "good"
  arg,                \* process -> channel or frame of its call
  left,               \* process -> pieces or retries left, or length of the caller's buffer
  buf, acc,           \* channel -> read buffer; text of the line so far
  told, ends,         \* channel -> text returned; where a call returned a line
  hindered            \* processes whose call another process came across

boardVars == <<fifo, image, mode, running, said>>
frameVars == <<frames, mapped, orphans>>
lineVars  == <<asked, sent, taken, timed, buf, acc, told, ends>>
callVars  == <<pc, arg, left>>
vars == <<platform, talker, owner, frameVars, boardVars, lineVars, callVars, isex, version,
          clist, base, hindered>>

Channels == Cids \cup {0, 254}
Linux == platform = "linux"

Go(h, place) == pc' = [pc EXCEPT ![h] = place]

\* A call is over.
End(h, place) ==
  /\ Go(h, place)
  /\ arg' = [arg EXCEPT ![h] = 0] /\ left' = [left EXCEPT ![h] = 0]
  /\ hindered' = hindered \ {h}

Return(h) == End(h, "idle")

ControlCalls == {"restart1", "monitor", "switch", "hello", "prompt", "version",
                 "goodbye", "lost", "restart2", "opened", "reset", "open0", "send", "sync",
                 "close0", "run", "running", "last restart"}

\* Process h begins a call that controls the board, or takes something from others.
Meet(h) ==
  LET others == {g \in Handles \ {h} : pc[g] \in ControlCalls}
  IN  hindered' = (hindered \ {h}) \cup others \cup (IF others = {} THEN {} ELSE {h})

Hinder(h) == hindered' = hindered \cup {h}

\* A call of the driver that may sleep ends with an error.
Interrupted(h) == Linux /\ h \in Signalled

-----------------------------------------------------------------------------
(* The driver and the board                                                 *)

NoChannels == \A c \in Channels : owner[c] = None

\* UCRX_RESTART_BOARD: the board is back in its prom; frames that are not
\* mapped are freed.
RestartBoard ==
  /\ fifo' = <<>> /\ image' = <<>> /\ said' = <<>>
  /\ mode' = "prom" /\ running' = <<>>
  /\ frames' = {f \in frames : mapped[f] # {}}
  /\ orphans' = orphans \cap frames'
  /\ UNCHANGED mapped

\* Wrong: it is not done when the board is in its prom already.
restart_unless_prom ==
  IF NoChannels /\ mode = "program" THEN RestartBoard ELSE UNCHANGED <<boardVars, frameVars>>

\* -EBUSY while a channel is open.  Windows asks for UCRX_RESET_BOARD first.
restart_ise == IF NoChannels THEN RestartBoard ELSE UNCHANGED <<boardVars, frameVars>>

\* The prom takes firmware from channel 0, and is ready when it has it; it
\* makes nothing of more.
BoardTakes ==
  /\ mode # "program" /\ fifo # <<>>
  /\ image' = IF Len(image) < Pieces THEN Append(image, Head(fifo)) ELSE image
  /\ fifo' = Tail(fifo)
  /\ UNCHANGED <<platform, talker, owner, frameVars, mode, running, said, lineVars, callVars, isex,
                 version, clist, base, hindered>>

BoardLoads ==
  /\ mode = "prom" /\ Len(image) = Pieces
  /\ mode' = "loaded"
  /\ UNCHANGED <<platform, talker, owner, frameVars, fifo, image, running, said, lineVars, callVars,
                 isex, version, clist, base, hindered>>

\* The program answers on a channel.
BoardSends(c) ==
  /\ mode = "program" /\ sent[c] < LineLen * asked[c]
  /\ sent' = [sent EXCEPT ![c] = @ + 1]
  /\ UNCHANGED <<platform, talker, owner, frameVars, boardVars, asked, taken, timed, buf, acc, told,
                 ends, callVars, isex, version, clist, base, hindered>>

\* close of a channel: what the board has not taken is lost.
Closed(c) ==
  /\ owner' = [owner EXCEPT ![c] = None]
  /\ fifo' = IF c = 0 THEN <<>> ELSE fifo
  /\ said' = IF c = 254 THEN <<>> ELSE said

-----------------------------------------------------------------------------
(* ise_bind and ise_open                                                    *)

MayUse(h) == talker \in {None, h} \/ h \in Guests

\* Linux: the control device stays closed.
ise_bind(h) ==
  /\ pc[h] = "null" /\ Linux /\ MayUse(h)
  /\ Go(h, "idle")
  /\ UNCHANGED <<platform, talker, owner, frameVars, boardVars, lineVars, arg, left, isex,
                 version, clist, base, hindered>>

bind_windows(h) ==
  /\ pc[h] = "null" /\ ~Linux /\ MayUse(h)
  /\ Go(h, "idle")
  /\ isex' = isex \cup {h}
  /\ UNCHANGED <<platform, talker, owner, frameVars, boardVars, lineVars, arg, left, version,
                 clist, base, hindered>>

\* connect: without a control device the result is a null pointer.
ise_open(h) ==
  /\ pc[h] = "null" /\ MayUse(h)
  /\ isex' = isex \cup {h}
  /\ Go(h, "restart1")
  /\ Meet(h)
  /\ UNCHANGED <<platform, talker, owner, frameVars, boardVars, lineVars, arg, left, version,
                 clist, base>>

\* Windows: the handle is freed, and both control devices are closed.
OpenFails(h) == End(h, "null") /\ isex' = isex \ {h}

\* Linux: ise_open goes on with no file, and its reads fail.
OpenLost(h) == Go(h, "lost") /\ UNCHANGED <<isex, arg, left, hindered>>

OpenRefused(h) == IF Linux THEN OpenLost(h) ELSE OpenFails(h)

\* On Linux nobody looks at the result.
RestartFirst(h) ==
  /\ pc[h] = "restart1"
  /\ restart_ise
  /\ IF NoChannels THEN Go(h, "monitor") /\ UNCHANGED <<isex, arg, left, hindered>>
     ELSE IF Linux THEN Go(h, "monitor") /\ Hinder(h) /\ UNCHANGED <<isex, arg, left>>
     ELSE OpenFails(h)
  /\ UNCHANGED <<platform, talker, owner, lineVars, version, clist, base>>

\* open of the device takes channel 0 ...
OpenMonitor(h) ==
  /\ pc[h] = "monitor"
  /\ IF owner[0] = None
       THEN /\ owner' = [owner EXCEPT ![0] = h]
            /\ Go(h, "switch")
            /\ UNCHANGED <<isex, arg, left, hindered>>
       ELSE OpenRefused(h) /\ UNCHANGED owner
  /\ UNCHANGED <<platform, talker, frameVars, boardVars, lineVars, version, clist, base>>

\* ... and UCR_CHANNEL another number.
SwitchMonitor(h) ==
  /\ pc[h] = "switch"
  /\ \/ /\ owner[254] = None
        /\ owner' = [owner EXCEPT ![0] = None, ![254] = h]
        /\ Go(h, "hello")
        /\ UNCHANGED <<isex, arg, left, hindered>>
     \/ /\ owner[254] # None \/ Interrupted(h)
        /\ owner' = [owner EXCEPT ![0] = None]
        /\ OpenRefused(h)
  /\ UNCHANGED <<platform, talker, frameVars, boardVars, lineVars, version, clist, base>>

\* The monitor of the prom answers a line.
Answer(s) == said' = IF mode = "prom" THEN said \o s ELSE said

Hello(h) ==
  /\ pc[h] = "hello"
  /\ Answer(<<"banner", ">">>)
  /\ Go(h, "prompt")
  /\ UNCHANGED <<platform, talker, owner, frameVars, fifo, image, mode, running, lineVars, arg,
                 left, isex, version, clist, base, hindered>>

IsPrompt(word) == word = ">"

\* Up to the prompt, and then the "i" command.
Prompt(h) ==
  /\ pc[h] = "prompt" /\ said # <<>>
  /\ IF IsPrompt(Head(said))
       THEN /\ said' = Tail(said) \o <<"ident", ">">>
            /\ version' = [version EXCEPT ![h] = [text |-> <<>>, sound |-> TRUE]]
            /\ Go(h, "version")
       ELSE said' = Tail(said) /\ UNCHANGED <<pc, version>>
  /\ UNCHANGED <<platform, talker, owner, frameVars, fifo, image, mode, running, lineVars, arg,
                 left, isex, clist, base, hindered>>

Version(h) ==
  /\ pc[h] = "version" /\ said # <<>>
  /\ said' = Tail(said)
  /\ IF Head(said) = ">"
       THEN Go(h, "goodbye") /\ UNCHANGED version
       ELSE /\ version' = [version EXCEPT ![h] = [text |-> Append(@.text, Head(said)), sound |-> TRUE]]
            /\ UNCHANGED pc
  /\ UNCHANGED <<platform, talker, owner, frameVars, fifo, image, mode, running, lineVars, arg,
                 left, isex, clist, base, hindered>>

\* A version that has been cut short, or is what the memory held.
Junk == [text |-> <<"junk">>, sound |-> FALSE]

\* readbuf fails and leaves the buffer empty: the version ends there, and
\* nobody is told.
VersionFails(h) ==
  /\ pc[h] = "version" /\ Interrupted(h)
  /\ version' = [version EXCEPT ![h] = Junk]
  /\ Go(h, "goodbye")
  /\ UNCHANGED <<platform, talker, owner, frameVars, boardVars, lineVars, arg, left, isex, clist,
                 base, hindered>>

\* The search for the prompt runs off the end of the buffer when a read fails,
\* or there is no file to read.
Astray(h) == pc[h] = "lost" \/ (pc[h] = "prompt" /\ Interrupted(h))

\* It comes to a ">" in the memory behind, and takes its version from there ...
FindsPrompt(h) ==
  /\ Astray(h)
  /\ version' = [version EXCEPT ![h] = Junk]
  /\ Go(h, IF pc[h] = "lost" THEN "restart2" ELSE "goodbye")
  /\ UNCHANGED <<platform, talker, owner, frameVars, boardVars, lineVars, arg, left, isex, clist,
                 base, hindered>>

CloseMonitor(h) ==
  /\ pc[h] = "goodbye"
  /\ Closed(254)
  /\ Go(h, "restart2")
  /\ UNCHANGED <<platform, talker, frameVars, image, mode, running, lineVars, arg, left, isex,
                 version, clist, base, hindered>>

\* Nobody looks at the result, on Windows neither.
RestartAgain(h) ==
  /\ pc[h] = "restart2"
  /\ restart_ise
  /\ Go(h, "opened")
  /\ UNCHANGED <<platform, talker, owner, lineVars, arg, left, isex, version, clist, base, hindered>>

OpenReturns(h) ==
  /\ pc[h] = "opened"
  /\ Return(h)
  /\ UNCHANGED <<platform, talker, owner, frameVars, boardVars, lineVars, isex, version, clist, base>>

-----------------------------------------------------------------------------
(* ise_restart                                                              *)

\* Not for a handle of ise_bind: Windows refuses it, on Linux it is up to the
\* program.
ise_restart(h) ==
  /\ pc[h] = "idle" /\ version[h] # None
  /\ Go(h, "reset")
  /\ Meet(h)
  /\ UNCHANGED <<platform, talker, owner, frameVars, boardVars, lineVars, arg, left, isex,
                 version, clist, base>>

\* On Linux nobody looks at the result, whoever has the channel that is open.
ResetForFirmware(h) ==
  /\ pc[h] = "reset"
  /\ restart_ise
  /\ IF NoChannels \/ Linux
       THEN /\ Go(h, "open0")
            /\ IF \A c \in Channels : owner[c] \in {None, h} THEN UNCHANGED hindered ELSE Hinder(h)
            /\ UNCHANGED <<arg, left>>
       ELSE Return(h)
  /\ UNCHANGED <<platform, talker, owner, lineVars, isex, version, clist, base>>

OpenFirmware(h) ==
  /\ pc[h] = "open0"
  /\ IF owner[0] = None
       THEN /\ owner' = [owner EXCEPT ![0] = h]
            /\ Go(h, "send")
            /\ left' = [left EXCEPT ![h] = Pieces]
            /\ UNCHANGED <<arg, hindered>>
       ELSE Return(h) /\ UNCHANGED owner
  /\ UNCHANGED <<platform, talker, frameVars, boardVars, lineVars, isex, version, clist, base>>

\* ISE_NO_SCOF
NoFirmware(h) ==
  /\ pc[h] = "send" /\ left[h] = Pieces
  /\ Closed(0)
  /\ Return(h)
  /\ UNCHANGED <<platform, talker, frameVars, image, mode, running, lineVars, isex, version, clist, base>>

SendFirmware(h) ==
  /\ pc[h] = "send"
  /\ IF left[h] > 0
       THEN /\ fifo' = Append(fifo, h)
            /\ left' = [left EXCEPT ![h] = @ - 1]
            /\ UNCHANGED pc
       ELSE Go(h, "sync") /\ UNCHANGED <<fifo, left>>
  /\ UNCHANGED <<platform, talker, owner, frameVars, image, mode, running, said, lineVars, arg,
                 isex, version, clist, base, hindered>>

\* A write that is interrupted: its piece is not sent, and nobody is told.
SendFails(h) ==
  /\ pc[h] = "send" /\ left[h] > 0 /\ Interrupted(h)
  /\ left' = [left EXCEPT ![h] = @ - 1]
  /\ UNCHANGED <<platform, talker, owner, frameVars, boardVars, lineVars, pc, arg, isex, version,
                 clist, base, hindered>>

\* UCR_SYNC returns when the board has taken all, or with a signal; nobody
\* looks at the result.  A program that runs takes nothing from channel 0.
SyncFirmware(h) ==
  /\ pc[h] = "sync" /\ (fifo = <<>> \/ Interrupted(h))
  /\ Go(h, "close0")
  /\ UNCHANGED <<platform, talker, owner, frameVars, boardVars, lineVars, arg, left, isex,
                 version, clist, base, hindered>>

CloseFirmware(h) ==
  /\ pc[h] = "close0"
  /\ Closed(0)
  /\ Go(h, "run")
  /\ left' = [left EXCEPT ![h] = Retries]
  /\ UNCHANGED <<platform, talker, frameVars, image, mode, running, lineVars, arg, isex,
                 version, clist, base, hindered>>

\* Wrong: a retry that never counts.
RetryForever(h) == UNCHANGED <<pc, arg, left, hindered>>

Retry(h) ==
  IF left[h] = 1 THEN Return(h)
  ELSE left' = [left EXCEPT ![h] = @ - 1] /\ UNCHANGED <<pc, arg, hindered>>

\* UCRX_RUN_PROGRAM: -EBUSY while a channel is open, -EAGAIN until the prom
\* says that it is ready; both are tried again.  A program may have left the
\* ready flag as it was.
run_program(h) ==
  /\ pc[h] = "run"
  /\ \/ /\ NoChannels /\ mode \in {"loaded", "program"}
        /\ mode' = "program"
        /\ IF mode = "loaded" THEN running' = image /\ image' = <<>> ELSE UNCHANGED <<running, image>>
        /\ Go(h, "running")
        /\ UNCHANGED <<arg, left, hindered>>
     \/ /\ ~NoChannels \/ mode # "loaded"
        /\ Retry(h)
        /\ UNCHANGED <<mode, running, image>>
  /\ UNCHANGED <<platform, talker, owner, frameVars, fifo, said, lineVars, isex, version, clist, base>>

\* ISE_OK
RestartReturns(h) ==
  /\ pc[h] = "running"
  /\ Return(h)
  /\ UNCHANGED <<platform, talker, owner, frameVars, boardVars, lineVars, isex, version, clist, base>>

-----------------------------------------------------------------------------
(* ise_channel and ise_timeout                                              *)

ise_channel(h) ==
  /\ pc[h] = "idle" /\ Len(clist[h]) < MaxOpen
  /\ \E c \in Cids : (talker # None => c = LineCid) /\ arg' = [arg EXCEPT ![h] = c]
  /\ Go(h, "open")
  /\ UNCHANGED <<platform, talker, owner, frameVars, boardVars, lineVars, left, isex, version, clist,
                 base, hindered>>

OpenChannel(h) ==
  /\ pc[h] = "open"
  /\ IF owner[0] = None
       THEN /\ owner' = [owner EXCEPT ![0] = h]
            /\ Go(h, "number") /\ UNCHANGED <<arg, left, hindered>>
       ELSE Return(h) /\ UNCHANGED owner
  /\ UNCHANGED <<platform, talker, frameVars, boardVars, lineVars, isex, version, clist, base>>

\* ISE_CHANNEL_BUSY
NumberBusy(h) == owner' = [owner EXCEPT ![0] = None] /\ UNCHANGED clist

NumberChannel(h) ==
  LET c == arg[h] IN
  /\ pc[h] = "number"
  /\ \/ /\ owner[c] = None
        /\ owner' = [owner EXCEPT ![0] = None, ![c] = h]
        /\ clist' = [clist EXCEPT ![h] = <<c>> \o @]
     \/ /\ owner[c] # None \/ Interrupted(h)
        /\ NumberBusy(h)
  /\ Return(h)
  /\ UNCHANGED <<platform, talker, frameVars, boardVars, lineVars, isex, version, base>>

\* UCRX_TIMEOUT; fails without the control device, and for a channel that nobody
\* has open.
ise_timeout(h) ==
  /\ pc[h] = "idle" /\ h \in isex
  /\ \E c \in Cids : owner[c] \in Handles \cap {talker} /\ timed' = timed \cup {c}
  /\ UNCHANGED <<platform, talker, owner, frameVars, boardVars, asked, sent, taken, buf, acc, told, ends,
                 callVars, isex, version, clist, base, hindered>>

-----------------------------------------------------------------------------
(* ise_writeln and ise_readln                                               *)

\* Writes the line and its newline, and flushes; a line that a signal keeps from
\* the board is as one that was not written.  The prom leaves channels of
\* programs alone, so it is called when a program runs.
ise_writeln(h) ==
  /\ pc[h] = "idle" /\ h = talker /\ mode = "program"
  /\ \E c \in Cids :
       /\ owner[c] = h /\ asked[c] < MaxLines
       /\ asked' = [asked EXCEPT ![c] = @ + 1]
  /\ UNCHANGED <<platform, talker, owner, frameVars, boardVars, sent, taken, timed, buf, acc, told, ends,
                 callVars, isex, version, clist, base, hindered>>

IsNewline(n) == n % LineLen = 0
LineOf(n) == (n + LineLen - 1) \div LineLen

\* With a buffer of n characters.
ise_readln(h) ==
  /\ pc[h] = "idle" /\ h = talker
  /\ \E c \in Cids : owner[c] = h /\ arg' = [arg EXCEPT ![h] = c]
  /\ \E n \in BufLens : left' = [left EXCEPT ![h] = n]
  /\ Go(h, "readln")
  /\ UNCHANGED <<platform, talker, owner, frameVars, boardVars, lineVars, isex, version, clist,
                 base, hindered>>

\* Characters out of the buffer up to a newline.
Upto(s) ==
  LET at == {i \in DOMAIN s : IsNewline(s[i])}
  IN  IF at = {} THEN Len(s) ELSE CHOOSE i \in at : \A j \in at : i <= j

\* Wrong: the rest of the buffer is forgotten with the line.
RestForgotten(c, n) == <<>>

Rest(c, n) == SubSeq(buf[c], n + 1, Len(buf[c]))

\* The text of the line with what the buffer adds to it.
LineText(c) == acc[c] \o SubSeq(buf[c], 1, Upto(buf[c]))
LineDone(c) == IsNewline(buf[c][Upto(buf[c])])

\* Takes text from the buffer up to the end of a line, or of the buffer; what
\* the caller's buffer has no room for is written behind it.
TakeText(c) ==
  /\ buf[c] # <<>>
  /\ buf' = [buf EXCEPT ![c] = Rest(c, Upto(buf[c]))]
  /\ acc' = [acc EXCEPT ![c] = IF LineDone(c) THEN <<>> ELSE LineText(c)]
  /\ told' = IF LineDone(c) THEN [told EXCEPT ![c] = @ \o LineText(c)] ELSE told
  /\ UNCHANGED <<platform, talker, owner, frameVars, boardVars, asked, sent, taken, timed, isex,
                 version, clist, base>>

\* The call returns the line, or the library reads on.
GiveLine(h, whole) ==
  IF whole
    THEN /\ ends' = [ends EXCEPT ![arg[h]] = @ \cup {Len(told'[arg[h]])}]
         /\ Return(h)
    ELSE UNCHANGED <<ends, callVars, hindered>>

readln_linux(h) ==
  /\ pc[h] = "readln" /\ Linux
  /\ TakeText(arg[h])
  /\ GiveLine(h, LineDone(arg[h]))

\* A line that begins with <\001> goes to the log file.
IsLogLine(text) == LineOf(text[1]) \in LogLines /\ text[1] % LineLen = 1

readln_windows(h) ==
  /\ pc[h] = "readln" /\ ~Linux
  /\ TakeText(arg[h])
  /\ GiveLine(h, LineDone(arg[h]) /\ ~IsLogLine(LineText(arg[h])))

\* The call ends with an error, and the text so far is with the caller.
GiveUp(h) ==
  LET c == arg[h] IN
  /\ told' = [told EXCEPT ![c] = @ \o acc[c]]
  /\ acc' = [acc EXCEPT ![c] = <<>>]
  /\ Return(h)

\* readbuf: what the board has sent.  The overrun of the caller's buffer is
\* tested after it, and what it has read stays for the next call.
ReadMore(h) ==
  LET c == arg[h] IN
  /\ pc[h] = "readln" /\ buf[c] = <<>> /\ taken[c] < sent[c]
  /\ buf' = [buf EXCEPT ![c] = [i \in 1 .. sent[c] - taken[c] |-> taken[c] + i]]
  /\ taken' = [taken EXCEPT ![c] = sent[c]]
  /\ IF Len(acc[c]) < left[h] THEN UNCHANGED <<acc, told, callVars, hindered>> ELSE GiveUp(h)
  /\ UNCHANGED <<platform, talker, owner, frameVars, boardVars, asked, sent, timed, ends, isex,
                 version, clist, base>>

\* A read that timed out, or was interrupted.
ReadFails(h) ==
  /\ pc[h] = "readln" /\ buf[arg[h]] = <<>> /\ (arg[h] \in timed \/ Interrupted(h))
  /\ GiveUp(h)
  /\ UNCHANGED <<platform, talker, owner, frameVars, boardVars, asked, sent, taken, timed, buf, ends,
                 isex, version, clist, base>>

-----------------------------------------------------------------------------
(* ise_make_frame and ise_delete_frame                                      *)

restVars == <<platform, talker, owner, boardVars, lineVars, isex, version>>

\* UCR_MAKE_FRAME on the newest channel (one that fails changes nothing); without
\* a channel Linux follows a null pointer.  A frame that is there already is shared.
make_frame_ise(h, f) ==
  /\ pc[h] = "idle" /\ talker = None /\ Linux /\ clist[h] # <<>> /\ base[h][f] = "null"
  /\ frames' = frames \cup {f}
  /\ Go(h, "map")
  /\ arg' = [arg EXCEPT ![h] = f]
  /\ UNCHANGED <<restVars, mapped, orphans, left, clist, base, hindered>>

\* mmap.  Between the two calls another process may have freed the frame: the
\* driver follows a null pointer then (Crash).
MapFrame(h) ==
  LET f == arg[h] IN
  /\ pc[h] = "map" /\ f \in frames
  /\ mapped' = [mapped EXCEPT ![f] = @ \cup {h}]
  /\ base' = [base EXCEPT ![h][f] = "good"]
  /\ Return(h)
  /\ UNCHANGED <<restVars, frames, orphans, clist>>

\* Windows makes and maps in one call of the driver.
make_frame_windows(h, f) ==
  /\ pc[h] = "idle" /\ talker = None /\ ~Linux /\ clist[h] # <<>> /\ base[h][f] = "null"
  /\ frames' = frames \cup {f}
  /\ mapped' = [mapped EXCEPT ![f] = @ \cup {h}]
  /\ base' = [base EXCEPT ![h][f] = "good"]
  /\ UNCHANGED <<restVars, callVars, orphans, clist, hindered>>

Unmap(h, f) ==
  /\ mapped' = [mapped EXCEPT ![f] = @ \ {h}]
  /\ base' = [base EXCEPT ![h][f] = "null"]
  /\ arg' = [arg EXCEPT ![h] = f]

\* Wrong: the mapping goes after the call that needs it gone.
FreeMapped(f) ==
  /\ UNCHANGED frames
  /\ orphans' = orphans \cap frames'

\* UCR_FREE_FRAME: -EBUSY, which is printed, while another process maps it.
Free(f) ==
  /\ frames' = IF mapped[f] = {} THEN frames \ {f} ELSE frames
  /\ orphans' = orphans \cap frames'

delete_frame_ise(h, f) ==
  /\ pc[h] = "idle" /\ Linux /\ base[h][f] # "null"
  /\ Unmap(h, f)
  /\ Go(h, "free")
  /\ UNCHANGED <<restVars, frames, orphans, left, clist, hindered>>

FreeFrame(h) ==
  /\ pc[h] \in {"free", "free all"}
  /\ Free(arg[h])
  /\ End(h, IF pc[h] = "free" THEN "idle" ELSE "close")
  /\ UNCHANGED <<restVars, mapped, clist, base>>

FramesWithout(h, gone) ==
  /\ mapped' = [f \in Frames |-> IF f \in gone THEN mapped[f] \ {h} ELSE mapped[f]]
  /\ frames' = {f \in frames : f \notin gone \/ mapped'[f] # {}}
  /\ base' = [base EXCEPT ![h] = [f \in Frames |-> IF f \in gone THEN "null" ELSE @[f]]]
  /\ orphans' = orphans \cap frames'

delete_frame_windows(h, f) ==
  /\ pc[h] = "idle" /\ ~Linux /\ base[h][f] # "null"
  /\ FramesWithout(h, {f})
  /\ UNCHANGED <<restVars, callVars, clist, hindered>>

-----------------------------------------------------------------------------
(* ise_close, and the death of a process                                    *)

ise_close(h) ==
  /\ pc[h] = "idle"
  /\ Go(h, IF Linux THEN "close" ELSE "close channels")
  /\ UNCHANGED <<restVars, arg, left, frameVars, clist, base, hindered>>

FramesDone(h) == \A f \in Frames : base[h][f] = "null"

\* Linux: frame by frame, as delete_frame_ise ...
CloseFrames(h) ==
  /\ pc[h] = "close"
  /\ \E f \in Frames :
       base[h][f] # "null" /\ Unmap(h, f) /\ Go(h, "free all")
  /\ UNCHANGED <<restVars, frames, orphans, left, clist, hindered>>

\* The buffers of channels are gone, and what the driver had of them.
Freed(gone) ==
  LET clear(g, none) == [c \in Cids |-> IF c \in gone THEN none ELSE g[c]]
  IN  /\ asked' = clear(asked, 0) /\ sent' = clear(sent, 0) /\ taken' = clear(taken, 0)
      /\ buf' = clear(buf, <<>>) /\ acc' = clear(acc, <<>>)
      /\ told' = clear(told, <<>>) /\ ends' = clear(ends, {})
      /\ timed' = timed \ gone

CloseChannel(h) ==
  /\ clist[h] # <<>>
  /\ owner' = [owner EXCEPT ![Head(clist[h])] = None]
  /\ clist' = [clist EXCEPT ![h] = Tail(@)]
  /\ Freed({Head(clist[h])})
  /\ UNCHANGED <<platform, talker, frameVars, boardVars, callVars, isex, version, base, hindered>>

\* ... then the channels; a handle of ise_open resets the board.
CloseChannels(h) ==
  \/ pc[h] = "close" /\ FramesDone(h) /\ CloseChannel(h)
  \/ pc[h] = "close channels" /\ CloseChannel(h)

\* Windows: the channels first, and the control device for frames then frees
\* all frames at once.
CloseFrameDevice(h) ==
  /\ pc[h] = "close channels" /\ clist[h] = <<>>
  /\ FramesWithout(h, Frames)
  /\ Go(h, "close")
  /\ UNCHANGED <<restVars, arg, left, clist, hindered>>

\* free of the handle.  On Linux its control device stays open until the
\* process ends, and so it does on Windows for a handle of ise_bind.
Forget(h) ==
  /\ End(h, "null")
  /\ isex' = isex \ {h}
  /\ version' = [version EXCEPT ![h] = None]

LastStep(h) ==
  /\ pc[h] = "close" /\ FramesDone(h) /\ clist[h] = <<>>
  /\ IF version[h] # None
       THEN Go(h, "last restart") /\ Meet(h) /\ UNCHANGED <<isex, version, arg, left>>
       ELSE Forget(h)
  /\ UNCHANGED <<platform, talker, owner, frameVars, boardVars, lineVars, clist, base>>

LastRestart(h) ==
  /\ pc[h] = "last restart"
  /\ restart_ise
  /\ Forget(h)
  /\ UNCHANGED <<platform, talker, owner, lineVars, clist, base>>

Holds(h, f) == base[h][f] # "null" \/ (pc[h] \in {"map", "free", "free all"} /\ arg[h] = f)

\* The kernel closes its files and takes its mappings back; frames stay.
Die(h) ==
  /\ Forget(h)
  /\ owner' = [c \in Channels |-> IF owner[c] = h THEN None ELSE owner[c]]
  /\ fifo' = IF owner[0] = h THEN <<>> ELSE fifo
  /\ said' = IF owner[254] = h THEN <<>> ELSE said
  /\ mapped' = [f \in Frames |-> mapped[f] \ {h}]
  /\ clist' = [clist EXCEPT ![h] = <<>>]
  /\ base' = [base EXCEPT ![h] = [f \in Frames |-> "null"]]
  /\ orphans' = {f \in frames : \A g \in Handles \ {h} : ~Holds(g, f)}
  /\ Freed({c \in Cids : owner[c] = h})
  /\ UNCHANGED <<platform, talker, frames, image, mode, running>>

Exit(h) == h \in Mortal /\ pc[h] # "null" /\ Die(h)

\* The search for the prompt leaves the memory of the process, or the driver
\* follows a null pointer for it.
Crash(h) == (Astray(h) \/ (pc[h] = "map" /\ arg[h] \notin frames)) /\ Die(h)

-----------------------------------------------------------------------------
Init ==
  /\ platform \in Platforms
  /\ talker \in Talkers
  /\ owner = [c \in Channels |-> None]
  /\ frames = {} /\ mapped = [f \in Frames |-> {}] /\ orphans = {}
  /\ fifo = <<>> /\ image = <<>> /\ mode = "prom" /\ running = <<>> /\ said = <<>>
  /\ asked = [c \in Cids |-> 0] /\ sent = asked /\ taken = asked /\ timed = {}
  /\ pc = [h \in Handles |-> "null"]
  /\ isex = {} /\ version = [h \in Handles |-> None] /\ clist = [h \in Handles |-> <<>>]
  /\ base = [h \in Handles |-> [f \in Frames |-> "null"]]
  /\ arg = [h \in Handles |-> 0] /\ left = arg
  /\ buf = [c \in Cids |-> <<>>] /\ acc = buf /\ told = buf /\ ends = [c \in Cids |-> {}]
  /\ hindered = {}

\* A program calls the library.
Call(h) ==
  \/ ise_bind(h) \/ bind_windows(h) \/ ise_open(h) \/ ise_restart(h)
  \/ ise_channel(h) \/ ise_timeout(h) \/ ise_writeln(h) \/ ise_readln(h)
  \/ \E f \in Frames :
       \/ make_frame_ise(h, f) \/ make_frame_windows(h, f)
       \/ delete_frame_ise(h, f) \/ delete_frame_windows(h, f)
  \/ ise_close(h)

\* The library goes on with a call.
Step(h) ==
  \/ RestartFirst(h) \/ OpenMonitor(h) \/ SwitchMonitor(h) \/ Hello(h) \/ Prompt(h)
  \/ Version(h) \/ VersionFails(h) \/ FindsPrompt(h) \/ CloseMonitor(h) \/ RestartAgain(h)
  \/ OpenReturns(h)
  \/ ResetForFirmware(h) \/ OpenFirmware(h) \/ NoFirmware(h) \/ SendFirmware(h)
  \/ SendFails(h) \/ SyncFirmware(h) \/ CloseFirmware(h) \/ run_program(h) \/ RestartReturns(h)
  \/ OpenChannel(h) \/ NumberChannel(h)
  \/ readln_linux(h) \/ readln_windows(h) \/ ReadMore(h) \/ ReadFails(h)
  \/ MapFrame(h) \/ FreeFrame(h) \/ Crash(h)
  \/ CloseFrames(h) \/ CloseChannels(h) \/ CloseFrameDevice(h) \/ LastStep(h)
  \/ LastRestart(h)

Board == BoardTakes \/ BoardLoads \/ \E c \in Cids : BoardSends(c)

Next == Board \/ \E h \in Handles : Call(h) \/ Step(h) \/ Exit(h)

Spec == Init /\ [][Next]_vars

\* The board works, and a process that is in a call goes on with it.
FairSpec == Spec /\ WF_vars(Board) /\ \A h \in Handles : WF_vars(Step(h))

-----------------------------------------------------------------------------
(* Properties *)

\* Type invariant.
TypeOK ==
  /\ owner \in [Channels -> Handles \cup {None}]
  /\ frames \subseteq Frames /\ orphans \subseteq frames
  /\ mapped \in [Frames -> SUBSET Handles]
  /\ \A f \in Frames : mapped[f] # {} => f \in frames
  /\ Len(image) <= Pieces /\ Len(fifo) <= Pieces
  /\ mode \in {"prom", "loaded", "program"}
  /\ \A c \in Cids : taken[c] <= sent[c] /\ sent[c] <= LineLen * asked[c]
  /\ isex \subseteq Handles /\ hindered \subseteq Handles
  /\ left \in [Handles -> (0 .. Pieces + Retries) \cup BufLens]
  /\ \A h \in Handles : \A f \in Frames : base[h][f] = "good" <=> h \in mapped[f]

\* Whatever chunks the text comes in and wherever a read times out, no
\* character of a channel is lost, repeated or out of order.
CharactersInOrder ==
  \A c \in Cids : told[c] \o acc[c] \o buf[c] = [i \in 1 .. taken[c] |-> i]

\* A call of ise_readln that succeeds ends at a newline, and there is one for
\* each newline; on Windows lines for the log are swallowed.  A line that a
\* timeout, a signal or a buffer too short for it has cut comes in parts, the
\* last of them by a call that succeeds, and on Windows the last part of a line
\* for the log too.
OneCallPerLine ==
  \A c \in Cids :
    /\ \A n \in ends[c] : IsNewline(told[c][n])
    /\ \A n \in DOMAIN told[c] :
         IsNewline(told[c][n]) /\ (Linux \/ LineOf(told[c][n]) \notin LogLines)
           => n \in ends[c]

\* A buffer that is as long as the line, with its newline, is not overrun: text
\* of two lines is never put behind each other.
BuffersSuffice ==
  \A h \in Handles : pc[h] = "readln" /\ left[h] >= LineLen =>
    /\ Len(acc[arg[h]]) < left[h]
    /\ buf[arg[h]] # <<>> => Len(LineText(arg[h])) <= left[h]

\* So programs get whole lines, one with each call that succeeds, when nothing
\* cuts them.
LinesAreWhole == CharactersInOrder /\ OneCallPerLine /\ BuffersSuffice

\* A handle that ise_open returns carries the identity the prom gave, unless a
\* read of it failed, which ise_open on Linux does not look at.
Identified ==
  \A h \in Handles : pc[h] = "idle" /\ version[h] # None /\ version[h].sound =>
    version[h].text = <<"ident">>

\* When ise_open returns a handle, and no other process came across it, the
\* board is in its prom with no firmware, even if the second restart is refused.
OpenResets ==
  \A h \in Handles \ hindered :
    pc[h] = "opened" => mode = "prom" /\ image = <<>> /\ running = <<>>

\* When ise_restart returns ISE_OK, and no other process came across it, the
\* board runs the firmware that this call has sent, all of it, whatever call of
\* the driver failed that nobody looks at.
RestartRuns ==
  \A h \in Handles \ hindered :
    pc[h] = "running" => mode = "program" /\ running = [i \in 1 .. Pieces |-> h]

\* ISE_OK of ise_open and ise_restart means what the header says.
OKMeansDone == Identified /\ OpenResets /\ RestartRuns

\* Without a handle a process holds no channel and no frame, however its calls
\* ended.
NothingLeft ==
  \A h \in Handles : pc[h] = "null" =>
    (\A c \in Channels : owner[c] # h) /\ (\A f \in Frames : h \notin mapped[f])

\* A frame of the board is in some process's hands, or one died with it and
\* the board has not been reset since.
FramesAreHeld ==
  \A f \in frames \ orphans : \E h \in Handles : Holds(h, f)

\* assert(dev->clist) of delete_frame_ise: there is a channel to free a frame
\* on as long as there are frames.
ChannelForFrames ==
  Linux => \A h \in Handles : (\E f \in Frames : Holds(h, f)) => clist[h] # <<>>

\* Who holds what, whatever fails and whoever dies: nothing without a handle,
\* no frame without a holder, none without a channel to free it on.
ResourcesHeld == TypeOK /\ NothingLeft /\ FramesAreHeld /\ ChannelForFrames

\* A call that no other process comes across ends, but for a read of a channel
\* without a timeout, and for an ise_restart of a process that has a channel of
\* its own open: the program on the board is not stopped then, takes no
\* firmware, and UCR_SYNC waits for it.
CallsEnd ==
  \A h \in Handles :
    pc[h] \notin {"null", "idle"} ~>
      \/ pc[h] \in {"null", "idle"} \/ h \in hindered
      \/ pc[h] = "readln" /\ arg[h] \notin timed
      \/ pc[h] = "sync" /\ mode = "program" /\ clist[h] # <<>>
=============================================================================
