-------------------------------- MODULE Plug --------------------------------
(***************************************************************************)
(* A plug-in in place of a board: the host's side (lib_linux/plug.c of     *)
(* libiseio) and the library that plug-ins are linked with                 *)
(* (libiseio_plug/lib_linux).  The host and the plug-in are processes with *)
(* a socket for commands and one per channel; the plug-in has a main       *)
(* thread, which serves commands and collects data, and threads of the     *)
(* application.                                                            *)
(*                                                                         *)
(* File numbers are modelled because they are used again: the main thread  *)
(* opens and closes them without the locks that application threads hold.  *)
(***************************************************************************)
EXTENDS Integers, Sequences, FiniteSets, FiniteSetsExt, SequencesExt

CONSTANTS
  Chans,      \* channels; 254 is the monitor
  Frames,
  Apps,       \* threads of the application
  Delays,     \* udelay of ise_plug_readln: "none", "timed", "forever"
  BufMax,     \* size of a channel's buffer, without the last byte
  SockMax,    \* what a socket holds on the way to the host
  MaxMakes,   \* bound: connections and frames that the host makes, together
  MaxLines,   \* bound: lines that the host writes on a connection
  None

ASSUME PlugAssumption ==
  /\ Chans \subseteq Nat /\ BufMax \in Nat \ {0} /\ SockMax \in Nat \ {0}
  /\ MaxMakes \in Nat /\ MaxLines \in Nat /\ Delays \subseteq {"none", "timed", "forever"}
  /\ Apps \cap {"main", None} = {} /\ None # "main"
  /\ \A how \in {"overrun", "assert", "pipe"}, x \in BOOLEAN : None # [how |-> how, crossed |-> x]

VARIABLES
  port, replies,   \* commands to the plug-in; its answers
  conns,           \* connections of channels, in the order they were made
  fds,             \* the plug-in's file number -> connection, 0 when free
  chfd,            \* channel -> file number, 0 for -1
  cbuf, fill,      \* channel -> buffer up to its 0 byte; buf_fil
  lock,            \* channel -> thread that holds sync
  fbase, flock,    \* frame -> which make is mapped, 0 for none; lock
  hbase, makes,    \* the same at the host; makes so far
  main, host, app, \* threads
  told,            \* channel -> characters that were returned as lines
  dead             \* how the plug-in has died

sockVars  == <<port, replies, conns>>
chanVars  == <<fds, chfd, cbuf, fill, lock>>
frameVars == <<fbase, flock, hbase, makes>>
vars == <<sockVars, chanVars, frameVars, main, host, app, told, dead>>

Files == 1 .. MaxMakes + 1
Alive == dead = None

\* The connection of a channel, 0 if it has none.
ConnOf(c) == IF chfd[c] = 0 THEN 0 ELSE fds[chfd[c]]

\* A call on the channel that begins now runs into no OPEN or CLOSE of it.
Pending(c) ==
  \/ \E cmd \in Range(port) \cup Range(main.cmds) : cmd.op \in {"OPEN", "CLOSE"} /\ cmd.n = c
  \/ main.at \in {"open", "close"} /\ main.chan = c
  \/ host.at = "close" /\ conns[host.conn].chan = c
Settled(c) == ~Pending(c) /\ (chfd[c] = 0 \/ (ConnOf(c) # 0 /\ conns[ConnOf(c)].open))

\* Calls on the channel are crossed by an OPEN or CLOSE.
Cross(c) == app' = [a \in Apps |-> IF app[a].chan = c THEN [app[a] EXCEPT !.crossed = TRUE] ELSE app[a]]

Die(how, a) == dead' = [how |-> how, crossed |-> app[a].crossed]

-----------------------------------------------------------------------------
(* The host                                                                 *)

Command(op, n) == port' = Append(port, [op |-> op, n |-> n])
HostGoes(place, k) == host' = [at |-> place, conn |-> k]

connect_plug ==
  /\ host.at = "hello" /\ replies # <<>>
  /\ replies' = Tail(replies)
  /\ HostGoes("idle", 0)
  /\ UNCHANGED <<port, conns, chanVars, frameVars, main, app, told, dead>>

\* Up to accept.  A bind that fails, on a name that a dead host has left, ends
\* the call with ISE_ERROR before anything is written: a stuttering step.
channel_open_plug(c) ==
  /\ host.at = "idle" /\ Len(conns) + makes < MaxMakes
  /\ Command("OPEN", c)
  /\ HostGoes("accept", 0)
  /\ Cross(c)
  /\ UNCHANGED <<replies, conns, chanVars, frameVars, main, told, dead>>

Accept ==
  /\ host.at = "accept" /\ host.conn # 0
  /\ HostGoes("idle", 0)
  /\ UNCHANGED <<sockVars, chanVars, frameVars, main, app, told, dead>>

channel_close_plug(k) ==
  /\ host.at = "idle" /\ conns[k].open
  /\ Command("CLOSE", conns[k].chan)
  /\ HostGoes("close", k)
  /\ Cross(conns[k].chan)
  /\ UNCHANGED <<replies, conns, chanVars, frameVars, main, told, dead>>

CloseFile ==
  /\ host.at = "close"
  /\ conns' = [conns EXCEPT ![host.conn].open = FALSE, ![host.conn].up = <<>>]
  /\ HostGoes("idle", 0)
  /\ UNCHANGED <<port, replies, chanVars, frameVars, main, app, told, dead>>

\* Two writes, the text and the newline.  A write on a connection that the
\* plug-in has closed kills the host.
writeln_plug(k) ==
  /\ host = [at |-> "idle", conn |-> 0] \/ host = [at |-> "newline", conn |-> k]
  /\ conns[k].open /\ \E f \in Files : fds[f] = k
  /\ host.at = "idle" => conns[k].sent < 2 * MaxLines
  /\ conns' = [conns EXCEPT ![k].sent = @ + 1, ![k].down = Append(@, <<k, conns[k].sent + 1>>)]
  /\ IF host.at = "idle" THEN HostGoes("newline", k) ELSE HostGoes("idle", 0)
  /\ UNCHANGED <<port, replies, chanVars, frameVars, main, app, told, dead>>

\* read of all there is.
readbuf_plug(k) ==
  /\ host.at = "idle" /\ conns[k].open /\ conns[k].up # <<>>
  /\ conns' = [conns EXCEPT ![k].up = <<>>]
  /\ UNCHANGED <<port, replies, chanVars, frameVars, main, host, app, told, dead>>

\* The file is made and mapped, and the plug-in is told; up to its answer.
make_frame_plug(f) ==
  /\ host.at = "idle" /\ hbase[f] = 0 /\ Len(conns) + makes < MaxMakes
  /\ makes' = makes + 1
  /\ hbase' = [hbase EXCEPT ![f] = makes']
  /\ port' = Append(port, [op |-> "FRAME", n |-> f, make |-> makes'])
  /\ HostGoes("frame", 0)
  /\ UNCHANGED <<replies, conns, chanVars, fbase, flock, main, app, told, dead>>

FrameMade ==
  /\ host.at = "frame" /\ replies # <<>>
  /\ replies' = Tail(replies)
  /\ HostGoes("idle", 0)
  /\ UNCHANGED <<port, conns, chanVars, frameVars, main, app, told, dead>>

\* The plug-in is not told.
delete_frame_plug(f) ==
  /\ host.at = "idle" /\ hbase[f] # 0
  /\ hbase' = [hbase EXCEPT ![f] = 0]
  /\ UNCHANGED <<sockVars, chanVars, fbase, flock, makes, main, host, app, told, dead>>

\* Bound: as many times as there are threads.
run_program_plug ==
  /\ host.at = "idle"
  /\ Cardinality({a \in Apps : app[a].at = "absent"})
       > Cardinality({i \in DOMAIN (port \o main.cmds) : (port \o main.cmds)[i].op = "RUN"})
  /\ Command("RUN", 0)
  /\ UNCHANGED <<replies, conns, chanVars, frameVars, main, host, app, told, dead>>

-----------------------------------------------------------------------------
(* The main thread of the plug-in                                           *)

MainGoes(place) == main' = [main EXCEPT !.at = place]

\* HELLO
Begin ==
  /\ main.at = "begin"
  /\ replies' = Append(replies, "HELLO")
  /\ MainGoes("select")
  /\ UNCHANGED <<port, conns, chanVars, frameVars, host, app, told, dead>>

\* A read of the file would not block.
Readable(f) ==
  f # 0 /\ fds[f] # 0 /\ (conns[fds[f]].down # <<>> \/ ~conns[fds[f]].open)

Select ==
  LET ready == {chfd[c] : c \in {d \in Chans : Readable(chfd[d])}} IN
  /\ main.at = "select" /\ (ready # {} \/ port # <<>>)
  /\ main' = [main EXCEPT !.at = IF port # <<>> THEN "port" ELSE "channels",
                          !.ready = ready, !.todo = Chans]
  /\ UNCHANGED <<sockVars, chanVars, frameVars, host, app, told, dead>>

\* One read takes all the commands there are by now.
process_port ==
  /\ main.at = "port"
  /\ port' = <<>>
  /\ main' = [main EXCEPT !.at = "command", !.cmds = port]
  /\ UNCHANGED <<replies, conns, chanVars, frameVars, host, app, told, dead>>

NextCommand(op) == main.at = "command" /\ main.cmds # <<>> /\ Head(main.cmds).op = op
Done(place, c) == main' = [main EXCEPT !.at = place, !.cmds = Tail(@), !.chan = c]

\* Wrong: a channel that is open stays as it is.
NoChannelOrOpen(c) == c \notin 0 .. 255 \/ chfd[c] # 0

NoChannel(c) == c \notin 0 .. 255

\* The file gets the lowest free number; the one the channel had is closed ...
open_fun ==
  LET c == Head(main.cmds).n
      k == Len(conns) + 1
      f == Min({g \in Files : fds[g] = 0})
  IN  /\ NextCommand("OPEN")
      /\ IF NoChannel(c) THEN Done("command", 0) /\ UNCHANGED <<conns, host, fds>>
         ELSE /\ conns' = Append(conns, [chan |-> c, open |-> TRUE, sent |-> 0, down |-> <<>>, up |-> <<>>])
              /\ host' = [host EXCEPT !.conn = k]
              /\ fds' = [g \in Files |-> IF g = f THEN k ELSE IF g = chfd[c] THEN 0 ELSE fds[g]]
              /\ main' = [main EXCEPT !.at = "open", !.cmds = Tail(@), !.chan = c, !.file = f]
      /\ UNCHANGED <<port, replies, chfd, cbuf, fill, lock, frameVars, app, told, dead>>

\* Wrong: the buffer still counts what the last connection has sent.
NothingForgotten(c) == fill

ForgetText(c) == [fill EXCEPT ![c] = 0]

\* ... and the channel has the new one; its text stays in the buffer.
OpenDone ==
  /\ main.at = "open"
  /\ chfd' = [chfd EXCEPT ![main.chan] = main.file]
  /\ fill' = ForgetText(main.chan)
  /\ MainGoes("command")
  /\ UNCHANGED <<sockVars, fds, cbuf, lock, frameVars, host, app, told, dead>>

close_fun ==
  LET c == Head(main.cmds).n IN
  /\ NextCommand("CLOSE")
  /\ IF NoChannel(c) \/ chfd[c] = 0 THEN Done("command", 0) /\ UNCHANGED fds
     ELSE Done("close", c) /\ fds' = [fds EXCEPT ![chfd[c]] = 0]
  /\ UNCHANGED <<sockVars, chfd, cbuf, fill, lock, frameVars, host, app, told, dead>>

\* Wrong: the number is left in the channel.
NumberStays == chfd

NumberGone == [chfd EXCEPT ![main.chan] = 0]

CloseDone ==
  /\ main.at = "close"
  /\ chfd' = NumberGone
  /\ MainGoes("command")
  /\ UNCHANGED <<sockVars, fds, cbuf, fill, lock, frameVars, host, app, told, dead>>

\* Wrong: nobody is kept out.
FrameAnyTime(f) == TRUE

FrameFree(f) == flock[f] = None

\* munmap and mmap
Mapped(f, make) == [fbase EXCEPT ![f] = make]

frame_fun ==
  LET f == Head(main.cmds).n IN
  /\ NextCommand("FRAME") /\ FrameFree(f)
  /\ fbase' = Mapped(f, Head(main.cmds).make)
  /\ replies' = Append(replies, "FRAME")
  /\ Done("command", 0)
  /\ UNCHANGED <<port, conns, chanVars, flock, hbase, makes, host, app, told, dead>>

run_fun ==
  /\ NextCommand("RUN")
  /\ \E a \in Apps : app[a].at = "absent" /\ app' = [app EXCEPT ![a].at = "idle"]
  /\ Done("command", 0)
  /\ UNCHANGED <<sockVars, chanVars, frameVars, host, told, dead>>

PortDone ==
  /\ main.at = "command" /\ main.cmds = <<>>
  /\ MainGoes("channels")
  /\ UNCHANGED <<sockVars, chanVars, frameVars, host, app, told, dead>>

\* The channels whose file number select has returned, which may have become
\* that of another file.
NextChannel ==
  LET due == {c \in main.todo : chfd[c] # 0 /\ chfd[c] \in main.ready} IN
  /\ main.at = "channels"
  /\ IF due = {} THEN MainGoes("select") /\ UNCHANGED lock
     ELSE LET c == Min(due) IN
          /\ lock[c] = None
          /\ lock' = [lock EXCEPT ![c] = "main"]
          /\ main' = [main EXCEPT !.at = "collect", !.chan = c,
                                  !.todo = {d \in due : d > c}]
  /\ UNCHANGED <<sockVars, fds, chfd, cbuf, fill, frameVars, host, app, told, dead>>

\* Wrong: wakes the readers when there was nothing in the buffer.
WakeFirst(c, n) ==
  app' = [a \in Apps |-> IF n > 0 /\ fill[c] = 0 /\ app[a].at = "wait" /\ app[a].chan = c
                         THEN [app[a] EXCEPT !.at = "woken"] ELSE app[a]]

\* pthread_cond_broadcast
Wake(c, n) ==
  app' = [a \in Apps |-> IF n > 0 /\ app[a].at = "wait" /\ app[a].chan = c
                         THEN [app[a] EXCEPT !.at = "woken"] ELSE app[a]]

\* The read blocks, with the lock, if the number is that of another file.
collect_channel_data ==
  LET c == main.chan
      k == ConnOf(c)
      n == Min({Len(conns[k].down), BufMax - fill[c]})
  IN  /\ main.at = "collect"
      /\ Readable(chfd[c]) \/ BufMax = fill[c]
      /\ conns' = [conns EXCEPT ![k].down = SubSeq(@, n + 1, Len(@))]
      /\ cbuf' = IF n = 0 THEN cbuf
                 ELSE [cbuf EXCEPT ![c] = SubSeq(@, 1, fill[c]) \o SubSeq(conns[k].down, 1, n)]
      /\ fill' = [fill EXCEPT ![c] = @ + n]
      /\ Wake(c, n)
      /\ lock' = [lock EXCEPT ![c] = None]
      /\ MainGoes(IF c = 254 THEN "monitor" ELSE "channels")
      /\ UNCHANGED <<port, replies, fds, chfd, frameVars, host, told, dead>>

IsNewline(ch) == ch[2] % 2 = 0

\* Length of the first line, with its newline; 0 if there is none.
LineLen(c) ==
  LET at == {i \in DOMAIN cbuf[c] : IsNewline(cbuf[c][i])} IN IF at = {} THEN 0 ELSE Min(at)

Take(c, n) == told' = [told EXCEPT ![c] = @ \o SubSeq(cbuf[c], 1, n)]

\* The monitor answers each line, and kills the plug-in if the host has closed
\* the channel.
process_254 ==
  LET n == LineLen(254)
      k == ConnOf(254)
  IN  /\ main.at = "monitor"
      /\ IF n = 0 THEN MainGoes("channels") /\ UNCHANGED <<conns, cbuf, fill, told, dead>>
         ELSE IF ~conns[k].open
         THEN dead' = [how |-> "pipe", crossed |-> TRUE] /\ UNCHANGED <<conns, cbuf, fill, told, main>>
         ELSE /\ Len(conns[k].up) < SockMax
              /\ conns' = [conns EXCEPT ![k].up = Append(@, [chan |-> 254, crossed |-> FALSE])]
              /\ Take(254, n)
              /\ cbuf' = [cbuf EXCEPT ![254] = SubSeq(@, n + 1, Len(@))]
              /\ fill' = [fill EXCEPT ![254] = @ - n]
              /\ UNCHANGED <<main, dead>>
      /\ UNCHANGED <<port, replies, fds, chfd, lock, frameVars, host, app>>

-----------------------------------------------------------------------------
(* Threads of the application                                               *)

AppChans == Chans \ {254}

AppBegins(a, place, c, d) ==
  app' = [app EXCEPT ![a] = [at |-> place, chan |-> c, delay |-> d, n |-> 0, crossed |-> ~Settled(c)]]
AppEnds(a) ==
  app' = [app EXCEPT ![a] = [at |-> "idle", chan |-> -1, delay |-> "none", n |-> 0, crossed |-> FALSE]]
AppGoes(a, place) == app' = [app EXCEPT ![a].at = place]

ise_plug_readln(a, c, d) ==
  /\ app[a].at = "idle"
  /\ AppBegins(a, "readln", c, d)
  /\ UNCHANGED <<sockVars, chanVars, frameVars, main, host, told, dead>>

\* A line is taken out of the buffer; without one the thread returns or waits.
FindLine(a) ==
  LET c == app[a].chan
      n == LineLen(c)
  IN  /\ app[a].at \in {"readln", "woken"} /\ lock[c] = None
      /\ IF n > 0
           THEN /\ lock' = [lock EXCEPT ![c] = a]
                /\ Take(c, n)
                /\ cbuf' = [cbuf EXCEPT ![c] = IF n >= fill[c] THEN SubSeq(@, 1, n - 1)
                                               ELSE SubSeq(@, n + 1, Len(@))]
                /\ app' = [app EXCEPT ![a].at = "fill", ![a].n = IF n >= fill[c] THEN 0 ELSE n]
           ELSE /\ IF app[a].delay = "none" THEN AppEnds(a) ELSE AppGoes(a, "wait")
                /\ UNCHANGED <<lock, cbuf, told>>
      /\ UNCHANGED <<sockVars, fds, chfd, fill, frameVars, main, host, dead>>

\* buf_fil goes down, or to 0; below 0 the next read goes in front of the buffer.
SetFill(a) ==
  LET c == app[a].chan
      n == app[a].n
  IN  /\ app[a].at = "fill"
      /\ fill' = [fill EXCEPT ![c] = IF n = 0 THEN 0 ELSE @ - n]
      /\ IF fill'[c] < 0 THEN Die("overrun", a) ELSE UNCHANGED dead
      /\ lock' = [lock EXCEPT ![c] = None]
      /\ AppEnds(a)
      /\ UNCHANGED <<sockVars, fds, chfd, cbuf, frameVars, main, host, told>>

\* pthread_cond_timedwait returns ETIMEDOUT, not -1: the thread waits again.
TimesOut(a) ==
  /\ app[a].at = "wait" /\ app[a].delay = "timed"
  /\ AppGoes(a, "woken")
  /\ UNCHANGED <<sockVars, chanVars, frameVars, main, host, told, dead>>

Connected(c) == chfd[c] # 0

\* Without a connection the text is dropped.
ise_plug_writeln(a, c) ==
  /\ app[a].at = "idle" /\ lock[c] = None /\ Connected(c)
  /\ lock' = [lock EXCEPT ![c] = a]
  /\ AppBegins(a, "text", c, "none")
  /\ UNCHANGED <<sockVars, fds, chfd, cbuf, fill, frameVars, main, host, told, dead>>

Unlocked(a) == [lock EXCEPT ![app[a].chan] = None]

\* A write begins, of the text or of the newline: the number is that of a file
\* now.  assert(rc >= 0) is for the text only.
WriteBegins(a) ==
  LET k == ConnOf(app[a].chan) IN
  /\ app[a].at \in {"text", "newline"}
  /\ IF k # 0
       THEN /\ app' = [app EXCEPT ![a].at = IF @ = "text" THEN "write text" ELSE "write newline",
                                  ![a].n = k]
            /\ UNCHANGED <<lock, dead>>
     ELSE IF app[a].at = "text" THEN Die("assert", a) /\ UNCHANGED <<app, lock>>
     ELSE AppEnds(a) /\ lock' = Unlocked(a) /\ UNCHANGED dead
  /\ UNCHANGED <<sockVars, fds, chfd, cbuf, fill, frameVars, main, host, told>>

\* It ends when there is room; SIGPIPE if the host has closed the connection.
WriteEnds(a) ==
  LET k == app[a].n IN
  /\ app[a].at \in {"write text", "write newline"}
  /\ IF ~conns[k].open THEN Die("pipe", a) /\ UNCHANGED <<conns, app, lock>>
     ELSE /\ Len(conns[k].up) < SockMax
          /\ conns' = [conns EXCEPT ![k].up = Append(@, [chan |-> app[a].chan, crossed |-> app[a].crossed])]
          /\ IF app[a].at = "write text" THEN AppGoes(a, "newline") /\ UNCHANGED lock
             ELSE AppEnds(a) /\ lock' = Unlocked(a)
          /\ UNCHANGED dead
  /\ UNCHANGED <<port, replies, fds, chfd, cbuf, fill, frameVars, main, host, told>>

ise_plug_frame_lock(a, f) ==
  /\ app[a].at = "idle" /\ flock[f] = None
  /\ flock' = [flock EXCEPT ![f] = a]
  /\ AppGoes(a, "frame")
  /\ UNCHANGED <<sockVars, chanVars, fbase, hbase, makes, main, host, told, dead>>

ise_plug_frame_unlock(a) ==
  /\ app[a].at = "frame"
  /\ flock' = [f \in Frames |-> IF flock[f] = a THEN None ELSE flock[f]]
  /\ AppGoes(a, "idle")
  /\ UNCHANGED <<sockVars, chanVars, fbase, hbase, makes, main, host, told, dead>>

-----------------------------------------------------------------------------
Init ==
  /\ port = <<>> /\ replies = <<>> /\ conns = <<>>
  /\ fds = [f \in Files |-> 0] /\ chfd = [c \in Chans |-> 0]
  /\ cbuf = [c \in Chans |-> <<>>] /\ fill = chfd /\ lock = [c \in Chans |-> None]
  /\ fbase = [f \in Frames |-> 0] /\ flock = [f \in Frames |-> None] /\ hbase = fbase /\ makes = 0
  /\ main = [at |-> "begin", cmds |-> <<>>, ready |-> {}, todo |-> {}, chan |-> 0, file |-> 0]
  /\ host = [at |-> "hello", conn |-> 0]
  /\ app = [a \in Apps |-> [at |-> "absent", chan |-> -1, delay |-> "none", n |-> 0, crossed |-> FALSE]]
  /\ told = [c \in Chans |-> <<>>] /\ dead = None

HostCall ==
  \/ \E c \in Chans : channel_open_plug(c)
  \/ \E k \in DOMAIN conns :
       channel_close_plug(k) \/ writeln_plug(k) \/ readbuf_plug(k)
  \/ \E f \in Frames : make_frame_plug(f) \/ delete_frame_plug(f)
  \/ run_program_plug
HostStep == connect_plug \/ Accept \/ CloseFile \/ FrameMade

MainStep ==
  \/ Begin \/ Select \/ process_port \/ open_fun \/ OpenDone \/ close_fun \/ CloseDone
  \/ frame_fun \/ run_fun \/ PortDone \/ NextChannel \/ collect_channel_data \/ process_254

AppCall(a) ==
  \/ \E c \in AppChans : ise_plug_writeln(a, c) \/ \E d \in Delays : ise_plug_readln(a, c, d)
  \/ \E f \in Frames : ise_plug_frame_lock(a, f)
AppStep(a) ==
  \/ FindLine(a) \/ SetFill(a) \/ TimesOut(a) \/ WriteBegins(a) \/ WriteEnds(a)
  \/ ise_plug_frame_unlock(a)

Next ==
  /\ Alive
  /\ HostCall \/ HostStep \/ MainStep \/ \E a \in Apps : AppCall(a) \/ AppStep(a)

Spec == Init /\ [][Next]_vars

\* Threads run, get a lock in the end that is free again and again, and the
\* application gives frames back.
FairSpec ==
  /\ Spec /\ WF_vars(Alive /\ HostStep) /\ SF_vars(Alive /\ MainStep)
  /\ \A a \in Apps : SF_vars(Alive /\ AppStep(a))

-----------------------------------------------------------------------------
(* Properties *)

\* Type invariant: file numbers are used once, buffers hold what buf_fil says
\* unless a line or an OPEN has just emptied them, locks are held by threads that run.
TypeOK ==
  /\ \A k \in DOMAIN conns : Cardinality({f \in Files : fds[f] = k}) <= 1
  /\ \A c \in Chans : fill[c] <= BufMax /\ (Alive => fill[c] >= 0) /\ Len(cbuf[c]) <= BufMax
  /\ lock \in [Chans -> Apps \cup {"main", None}] /\ flock \in [Frames -> Apps \cup {None}]
  /\ \A c \in Chans : lock[c] \in Apps => app[lock[c]].chan = c
  /\ host.at \in {"hello", "idle", "accept", "close", "newline", "frame"}
  /\ Len(replies) <= 1

\* The lines of a channel are those the host wrote, in order and whole; of a
\* connection that is replaced a tail may be missing, and never parts of two
\* are put together.
LinesInOrder ==
  \A c \in Chans : \A i \in DOMAIN told[c] :
    LET ch == told[c][i] IN
    /\ conns[ch[1]].chan = c
    /\ ch[2] > 1 => i > 1 /\ told[c][i-1] = <<ch[1], ch[2] - 1>>
    /\ i > 1 /\ ch[2] = 1 => told[c][i-1][1] < ch[1] /\ IsNewline(told[c][i-1])

\* What is written on a channel goes to the host on that channel, unless the
\* host closed or opened it during the call.
WritesStayOnChannel ==
  \A k \in DOMAIN conns : \A i \in DOMAIN conns[k].up :
    conns[k].up[i].crossed \/ conns[k].up[i].chan = conns[k].chan

\* A call of the application kills the plug-in only if the host closes or opens
\* the channel at the same time.
DiesOnlyCrossed == ~Alive => dead.crossed

\* Files, buffers and locks are in order, and no call of the application does
\* harm that is not crossed by an OPEN or CLOSE of its channel.
HarmOnlyCrossed == TypeOK /\ WritesStayOnChannel /\ DiesOnlyCrossed

\* After ise_make_frame both sides have the same frame.
SameFrame ==
  \A f \in Frames : host.at = "idle" /\ hbase[f] # 0 => fbase[f] = hbase[f]

\* "The frame will not change while locked".
FrameIsStable == [][\A f \in Frames : flock[f] # None => fbase'[f] = fbase[f]]_vars

\* Host and plug-in see the same frame, and it stays under its lock.
FramesAgree == []SameFrame /\ FrameIsStable

\* The main thread reads a file that was not ready, under the number of one that was.
Stale == main.at = "collect" /\ ~Readable(chfd[main.chan])

\* A thread waits, with the lock of its channel, for the host to read.
Clogged ==
  \/ \E a \in Apps : /\ app[a].at \in {"write text", "write newline"}
                     /\ Len(conns[app[a].n].up) = SockMax
  \/ main.at = "monitor" /\ ConnOf(254) # 0 /\ Len(conns[ConnOf(254)].up) = SockMax

\* ise_open, ise_channel and ise_make_frame return, unless the plug-in dies or
\* waits for the host itself.
CallsAnswered == host.at \in {"hello", "accept", "frame"} ~> host.at = "idle" \/ ~Alive \/ Stale \/ Clogged

\* A thread that waits for a line goes on when there is one.
ReadersWake ==
  \A a \in Apps : app[a].at = "wait" /\ LineLen(app[a].chan) > 0 ~> app[a].at # "wait" \/ ~Alive

\* "The slave responds by connecting to the port": OPEN is answered.
OpensAnswered == host.at = "accept" ~> host.at # "accept" \/ ~Alive
=============================================================================
