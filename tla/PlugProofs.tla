----------------------------- MODULE PlugProofs -----------------------------
(***************************************************************************)
(* A host and its plug-in, for any number of channels, frames and threads: *)
(* the frames of both sides agree, calls do no harm that an OPEN or CLOSE  *)
(* of their channel does not cross, and lines come in order and whole.     *)
(***************************************************************************)
EXTENDS Plug, SequenceTheorems, FiniteSetTheorems, TLAPS

\* What the variables are.
Char == Nat \X Nat
Answered == [chan : Chans, crossed : BOOLEAN]
Conn == [chan : Chans, open : BOOLEAN, sent : Nat, down : Seq(Char), up : Seq(Answered)]
Cmd == [op : {"OPEN", "CLOSE"}, n : Chans] \cup [op : {"RUN"}, n : {0}]
         \cup [op : {"FRAME"}, n : Frames, make : Nat]
MainPlaces == {"begin", "select", "port", "command", "open", "close", "channels", "collect", "monitor"}
HostPlaces == {"hello", "idle", "accept", "close", "newline", "frame"}
Writing == {"text", "newline", "write text", "write newline"}
Reading == {"readln", "wait", "woken", "fill"}
Holding == Writing \cup {"fill"}
AppState == [at : {"absent", "idle", "frame"} \cup Writing \cup Reading, chan : AppChans \cup {-1},
             delay : {"none", "timed", "forever"}, n : Nat, crossed : BOOLEAN]

PipeKinds == port \in Seq(Cmd) /\ replies \in Seq({"HELLO", "FRAME"})
ConnKinds == conns \in Seq(Conn)
FileKinds == fds \in [Files -> Nat] /\ chfd \in [Chans -> {0} \cup Files]
TextKinds == /\ cbuf \in [Chans -> Seq(Char)] /\ fill \in [Chans -> Int] /\ told \in [Chans -> Seq(Char)]
             /\ lock \in [Chans -> Apps \cup {"main", None}]
FrameKinds == /\ fbase \in [Frames -> Nat] /\ hbase \in [Frames -> Nat] /\ makes \in Nat
              /\ flock \in [Frames -> Apps \cup {None}]
MainKinds ==
  /\ main \in [at : MainPlaces, cmds : Seq(Cmd), ready : SUBSET Files, todo : SUBSET Chans, chan : Nat, file : Nat]
  /\ main.at \notin {"command", "open", "close"} => main.cmds = <<>>
  /\ main.at \in {"open", "close", "collect", "monitor"} => main.chan \in Chans
  /\ main.at = "open" => main.file \in Files
HostKinds == host \in [at : HostPlaces, conn : Nat] /\ (host.at = "close" => host.conn \in DOMAIN conns)
AppKinds ==
  /\ app \in [Apps -> AppState]
  /\ \A a \in Apps : app[a].at \in Writing \cup Reading <=> app[a].chan # -1
Kinds == PipeKinds /\ ConnKinds /\ FileKinds /\ TextKinds /\ FrameKinds /\ MainKinds /\ HostKinds /\ AppKinds

\* Commands.
Has(s, op) == \E i \in 1 .. Len(s) : s[i].op = op
Once(s, op) == \A i, j \in 1 .. Len(s) : s[i].op = op /\ s[j].op = op => i = j
Underway(op) == Has(port, op) \/ Has(main.cmds, op)
OneUnderway(op) == Once(port, op) /\ Once(main.cmds, op) /\ ~(Has(port, op) /\ Has(main.cmds, op))

OpenInv ==
  /\ OneUnderway("OPEN")
  /\ Underway("OPEN") => host = [at |-> "accept", conn |-> 0]
  /\ Len(conns) + makes + (IF Underway("OPEN") THEN 1 ELSE 0) <= MaxMakes

AsSent(s) == \A i \in 1 .. Len(s) : s[i].op = "FRAME" =>
  /\ s[i].make = hbase[s[i].n]
  /\ \A f \in Frames \ {s[i].n} : hbase[f] # 0 => fbase[f] = hbase[f]

FrameInv ==
  /\ main.at = "begin" => host.at = "hello" /\ replies = <<>>
  /\ host.at \notin {"hello", "frame"} => replies = <<>>
  /\ Len(replies) <= 1
  /\ OneUnderway("FRAME")
  /\ Underway("FRAME") => host.at = "frame" /\ replies = <<>>
  /\ AsSent(port) /\ AsSent(main.cmds)
  /\ ~Underway("FRAME") => \A f \in Frames : hbase[f] # 0 => fbase[f] = hbase[f]

\* Files.
ChannelFile(c) ==
  chfd[c] # 0 /\ ~(main.at \in {"open", "close"} /\ main.chan = c)
    => ConnOf(c) # 0 /\ conns[ConnOf(c)].chan = c
FileInv ==
  /\ \A f \in Files : fds[f] <= Len(conns)
  /\ \A f, g \in Files : fds[f] # 0 /\ fds[f] = fds[g] => f = g
  /\ \A c \in Chans : ChannelFile(c)
  /\ main.at = "open" => fds[main.file] # 0 /\ conns[fds[main.file]].chan = main.chan
  /\ main.at \in {"open", "close"} => ConnOf(main.chan) = 0
  /\ main.at \in {"collect", "monitor"} => chfd[main.chan] # 0

\* Locks.
LockInv ==
  /\ \A a \in Apps : app[a].at \in Holding => lock[app[a].chan] = a
  /\ \A c \in Chans : lock[c] \in Apps => app[lock[c]].chan = c /\ app[lock[c]].at \in Holding
  /\ main.at = "collect" => lock[main.chan] = "main"
  /\ main.at = "monitor" => main.chan = 254

\* Buffers.
NoLine(c) == \A i \in 1 .. Len(cbuf[c]) : ~IsNewline(cbuf[c][i])
Filled(c) == lock[c] \in Apps /\ app[lock[c]].at = "fill"
BufInv ==
  /\ \A c \in Chans : fill[c] <= BufMax /\ Len(cbuf[c]) <= BufMax /\ (Alive => fill[c] >= 0)
  /\ Alive => \A c \in Chans : ~Filled(c) => fill[c] \in {0, Len(cbuf[c])}
  /\ Alive => \A a \in Apps : app[a].at = "fill" =>
       \/ app[a].n = 0 \/ fill[app[a].chan] = Len(cbuf[app[a].chan]) + app[a].n
       \/ fill[app[a].chan] = 0 /\ app[a].crossed
  /\ 254 \in Chans => (main.at # "monitor" => NoLine(254)) /\ (NoLine(254) \/ fill[254] = Len(cbuf[254]))

\* Crossed calls.
CrossInv ==
  /\ \A c \in Chans : Pending(c) => \A a \in Apps : app[a].chan = c => app[a].crossed
  /\ \A a \in Apps : app[a].at \in Writing /\ ~app[a].crossed =>
       ConnOf(app[a].chan) # 0 /\ conns[ConnOf(app[a].chan)].open
  /\ \A a \in Apps : app[a].at \in {"write text", "write newline"} =>
       app[a].n \in DOMAIN conns /\ (~app[a].crossed => app[a].n = ConnOf(app[a].chan))

\* Lines.
Follows(p, x) == IF x[2] > 1 THEN p = <<x[1], x[2] - 1>> ELSE p[1] < x[1] /\ IsNewline(p)
Chain(s) == \A i \in 1 .. Len(s) : s[i][2] > 0 /\ IF i = 1 THEN s[i][2] = 1 ELSE Follows(s[i-1], s[i])
Left(c) == IF Filled(c) THEN (IF app[lock[c]].n = 0 THEN 0 ELSE fill[c] - app[lock[c]].n) ELSE fill[c]
Read(k) == conns[k].sent - Len(conns[k].down)
LastIs(s, k, m) == s # <<>> /\ s[Len(s)] = <<k, m>>
Older(s, k) == \A i \in 1 .. Len(s) : s[i][1] < k
Plain(s) == \A i \in 1 .. Len(s) : ~IsNewline(s[i])
\* What came on connections of channel c.
Of(s, c, conn) == \A i \in 1 .. Len(s) : s[i][1] \in 1 .. Len(conn) /\ conn[s[i][1]].chan = c
\* Lines t and text b, of which l counts; the last that was read is r of connection k.
Whole(t, b, l, k, r) ==
  /\ Chain(t) /\ (t # <<>> => IsNewline(t[Len(t)]))
  /\ l >= 0 => Chain(t \o b) \/ (l = 0 /\ Plain(b))
  /\ l > 0 /\ k # 0 => LastIs(b, k, r)
  /\ l = 0 /\ k # 0 => \/ Plain(b) /\ LastIs(t, k, r)
                       \/ r = 0 /\ Older(t, k) /\ Older(b, k)
LineInv(c) ==
  /\ Of(told[c], c, conns) /\ Of(cbuf[c], c, conns)
  /\ Whole(told[c], cbuf[c], Left(c), ConnOf(c), Read(ConnOf(c)))
\* What is on its way down connection k is the end of the s characters that were sent.
Coming(k, d, s) == Len(d) <= s /\ \A i \in 1 .. Len(d) : d[i] = <<k, s - Len(d) + i>>
DownInv == \A k \in 1 .. Len(conns) : Coming(k, conns[k].down, conns[k].sent)
NewInv == main.at = "open" =>
  Read(fds[main.file]) = 0 /\ Older(told[main.chan], fds[main.file]) /\ Older(cbuf[main.chan], fds[main.file])
LinesInv == DownInv /\ NewInv /\ \A c \in Chans : LineInv(c)

-----------------------------------------------------------------------------
(* Sequences of commands and connections.                                   *)

LEMMA CmdsGrow ==
  ASSUME NEW s \in Seq(Cmd), NEW x \in Cmd
  PROVE  /\ Append(s, x) \in Seq(Cmd) /\ Len(Append(s, x)) = Len(s) + 1
         /\ \A i \in 1 .. Len(s) : Append(s, x)[i] = s[i]
         /\ Append(s, x)[Len(s) + 1] = x
BY AppendProperties

LEMMA CmdsShrink ==
  ASSUME NEW s \in Seq(Cmd), s # <<>>
  PROVE  /\ Head(s) \in Cmd /\ Head(s) = s[1] /\ Len(s) \in Nat \ {0}
         /\ Tail(s) \in Seq(Cmd) /\ Len(Tail(s)) = Len(s) - 1
         /\ \A i \in 1 .. Len(s) - 1 : Tail(s)[i] = s[i + 1]
BY HeadTailProperties, EmptySeq

\* A connection changes, but for its channel.
LEMMA ConnChanges ==
  ASSUME NEW s \in Seq(Conn), NEW k \in DOMAIN s, NEW x \in Conn, x.chan = s[k].chan
  PROVE  /\ [s EXCEPT ![k] = x] \in Seq(Conn) /\ Len([s EXCEPT ![k] = x]) = Len(s)
         /\ \A i \in 1 .. Len(s) : [s EXCEPT ![k] = x][i] = IF i = k THEN x ELSE s[i]
         /\ \A i \in 1 .. Len(s) : [s EXCEPT ![k] = x][i].chan = s[i].chan
<1>1. k \in 1 .. Len(s)
  BY LenProperties
<1>. QED BY <1>1, ExceptSeq

\* A new connection.
LEMMA ConnComes ==
  ASSUME NEW s \in Seq(Conn), NEW x \in Conn
  PROVE  /\ Append(s, x) \in Seq(Conn) /\ Len(Append(s, x)) = Len(s) + 1
         /\ \A i \in 1 .. Len(s) : Append(s, x)[i] = s[i]
         /\ Append(s, x)[Len(s) + 1] = x
BY AppendProperties

LEMMA PipeStep ==
  ASSUME Kinds, Next
  PROVE  PipeKinds'
<1>0. /\ port \in Seq(Cmd) /\ replies \in Seq({"HELLO", "FRAME"}) /\ main.cmds \in Seq(Cmd) /\ Chans \subseteq Nat
      /\ makes \in Nat /\ \A k \in DOMAIN conns : conns[k].chan \in Chans
  <2>1. \A k \in DOMAIN conns : conns[k] \in Conn
    BY LenProperties DEF Kinds, ConnKinds
  <2>. QED BY <2>1, PlugAssumption DEF Kinds, PipeKinds, MainKinds, FrameKinds, Conn
<1>1. ASSUME UNCHANGED <<port, replies>> PROVE PipeKinds'
  BY <1>0, <1>1 DEF PipeKinds
<1>2. ASSUME NEW x \in Cmd, port' = Append(port, x), replies' = replies PROVE PipeKinds'
  BY <1>0, <1>2, CmdsGrow DEF PipeKinds
<1>3. ASSUME NEW x \in {"HELLO", "FRAME"}, replies' = Append(replies, x), port' = port PROVE PipeKinds'
  BY <1>0, <1>3, AppendProperties DEF PipeKinds
<1>4. ASSUME replies # <<>>, replies' = Tail(replies), port' = port PROVE PipeKinds'
  BY <1>0, <1>4, HeadTailProperties DEF PipeKinds
<1>5. ASSUME \/ Accept \/ CloseFile \/ Select \/ open_fun \/ OpenDone \/ close_fun \/ CloseDone \/ run_fun
             \/ PortDone \/ NextChannel \/ collect_channel_data \/ process_254
             \/ \E k \in DOMAIN conns : writeln_plug(k) \/ readbuf_plug(k)
             \/ \E f \in Frames : delete_frame_plug(f)
             \/ \E a \in Apps : FindLine(a) \/ SetFill(a) \/ TimesOut(a) \/ WriteBegins(a) \/ WriteEnds(a)
             \/ \E a \in Apps : ise_plug_frame_unlock(a)
             \/ \E a \in Apps, c \in AppChans : ise_plug_writeln(a, c)
             \/ \E a \in Apps, c \in AppChans, d \in Delays : ise_plug_readln(a, c, d)
             \/ \E a \in Apps, f \in Frames : ise_plug_frame_lock(a, f)
      PROVE  PipeKinds'
  BY <1>1, <1>5 DEF Accept, CloseFile, writeln_plug, readbuf_plug, delete_frame_plug, Select,
       open_fun, OpenDone, close_fun, CloseDone, run_fun, PortDone, NextChannel,
       collect_channel_data, process_254, FindLine, SetFill, TimesOut, WriteBegins, WriteEnds,
       ise_plug_frame_unlock, ise_plug_writeln, ise_plug_readln, ise_plug_frame_lock, sockVars,
       chanVars, frameVars
<1>6. ASSUME NEW c \in Chans, channel_open_plug(c) PROVE PipeKinds'
  <2>1. [op |-> "OPEN", n |-> c] \in Cmd
    BY <1>0 DEF Cmd
  <2>. QED BY <1>2, <1>6, <2>1 DEF channel_open_plug, Command
<1>7. ASSUME NEW k \in DOMAIN conns, channel_close_plug(k) PROVE PipeKinds'
  <2>1. [op |-> "CLOSE", n |-> conns[k].chan] \in Cmd
    BY <1>0 DEF Cmd
  <2>. QED BY <1>2, <1>7, <2>1 DEF channel_close_plug, Command
<1>8. ASSUME NEW f \in Frames, make_frame_plug(f) PROVE PipeKinds'
  <2>1. [op |-> "FRAME", n |-> f, make |-> makes'] \in Cmd
    BY <1>0, <1>8 DEF Cmd, make_frame_plug
  <2>. QED BY <1>2, <1>8, <2>1 DEF make_frame_plug
<1>9. CASE run_program_plug
  <2>1. [op |-> "RUN", n |-> 0] \in Cmd
    BY DEF Cmd
  <2>. QED BY <1>2, <1>9, <2>1 DEF run_program_plug, Command
<1>10. CASE connect_plug \/ FrameMade
  BY <1>4, <1>10 DEF connect_plug, FrameMade
<1>11. ASSUME Begin \/ frame_fun PROVE PipeKinds'
  <2>2. CASE Begin
    BY <1>3, <2>2 DEF Begin
  <2>3. CASE frame_fun
    BY <1>3, <2>3 DEF frame_fun
  <2>. QED BY <1>11, <2>2, <2>3
<1>12. CASE process_port
  BY <1>0, <1>12, EmptySeq DEF process_port, PipeKinds
<1>. QED BY <1>5, <1>6, <1>7, <1>8, <1>9, <1>10, <1>11, <1>12
     DEF Next, HostCall, HostStep, MainStep, AppCall, AppStep

-----------------------------------------------------------------------------
(* How connections and texts change.                                        *)

ProcessInv == OpenInv /\ FrameInv /\ FileInv /\ LockInv /\ BufInv /\ CrossInv

\* A set of numbers has a least.
LEMMA LeastOf ==
  ASSUME NEW T, T \subseteq Nat, T # {}
  PROVE  Min(T) \in T /\ \A j \in T : Min(T) <= j
<1> DEFINE less == {ss \in Nat \X Nat : ss[1] < ss[2]}
<1>1. IsWellFoundedOn(less, Nat)
  BY NatLessThanWellFounded DEF OpToRel
<1>2. PICK i \in T : \A j \in T : ~ (<<j, i>> \in less)
  <2> HIDE DEF less
  <2>. QED BY <1>1, WFMin
<1>3. ASSUME NEW j \in T PROVE i <= j
  <2>1. i \in Nat /\ j \in Nat /\ ~ (<<j, i>> \in less)
    BY <1>2
  <2>2. ~(j < i)
    BY <2>1
  <2>. QED BY <2>1, <2>2
<1>4. \E x \in T : \A j \in T : x <= j
  BY <1>3
<1>. QED BY <1>4 DEF Min

LEMMA LeastOfTwo ==
  ASSUME NEW a \in Int, NEW b \in Int
  PROVE  Min({a, b}) \in {a, b} /\ Min({a, b}) <= a /\ Min({a, b}) <= b
<1>1. \E x \in {a, b} : \A j \in {a, b} : x <= j
  BY a <= b \/ b <= a
<1>. QED BY <1>1 DEF Min

\* Connection k has new contents; the others stay.
Changed(k, open, sent, down, up) ==
  /\ conns' \in Seq(Conn) /\ Len(conns') = Len(conns)
  /\ \A i \in 1 .. Len(conns) : i # k => conns'[i] = conns[i]
  /\ conns'[k].chan = conns[k].chan /\ conns'[k].open = open /\ conns'[k].sent = sent
  /\ conns'[k].down = down /\ conns'[k].up = up

LEMMA ConnIs ==
  ASSUME Kinds, NEW k \in 1 .. Len(conns)
  PROVE  /\ conns[k] \in Conn /\ conns[k].chan \in Chans /\ conns[k].open \in BOOLEAN /\ conns[k].sent \in Nat
         /\ conns[k].down \in Seq(Char) /\ conns[k].up \in Seq(Answered)
<1>1. conns[k] \in Conn
  BY LenProperties DEF Kinds, ConnKinds
<1>. QED BY <1>1 DEF Conn

LEMMA ConnsAre ==
  ASSUME Kinds
  PROVE  conns \in Seq(Conn) /\ Len(conns) \in Nat /\ DOMAIN conns = 1 .. Len(conns)
BY LenProperties DEF Kinds, ConnKinds

LEMMA ChangeConn ==
  ASSUME Kinds, NEW k \in 1 .. Len(conns), NEW x \in Conn, x.chan = conns[k].chan, conns' = [conns EXCEPT ![k] = x]
  PROVE  Changed(k, x.open, x.sent, x.down, x.up)
<1>1. conns \in Seq(Conn) /\ k \in DOMAIN conns
  BY ConnsAre
<1>. QED BY <1>1, ConnChanges DEF Changed

\* The fields of a connection that is changed.
LEMMA FieldsRead ==
  ASSUME NEW r \in Conn, NEW down \in Seq(Char), NEW x, x = [r EXCEPT !.down = down]
  PROVE  x \in Conn /\ x.chan = r.chan /\ x.open = r.open /\ x.sent = r.sent /\ x.down = down /\ x.up = r.up
BY DEF Conn

LEMMA FieldsAnswered ==
  ASSUME NEW r \in Conn, NEW up \in Seq(Answered), NEW x, x = [r EXCEPT !.up = up]
  PROVE  x \in Conn /\ x.chan = r.chan /\ x.open = r.open /\ x.sent = r.sent /\ x.down = r.down /\ x.up = up
BY DEF Conn

LEMMA CloseFileConns ==
  ASSUME Kinds, CloseFile
  PROVE  LET k == host.conn IN k \in 1 .. Len(conns) /\ Changed(k, FALSE, conns[k].sent, conns[k].down, <<>>)
<1> DEFINE k == host.conn
<1>1. k \in 1 .. Len(conns) /\ conns' = [conns EXCEPT ![k].open = FALSE, ![k].up = <<>>]
  BY ConnsAre DEF Kinds, HostKinds, CloseFile
<1>2. <<>> \in Seq(Answered)
  OBVIOUS
<1> HIDE DEF k
<1>3. PICK r \in Conn : r = conns[k]
  BY <1>1, ConnIs
<1>4. conns' = [conns EXCEPT ![k] = [r EXCEPT !.open = FALSE, !.up = <<>>]]
  BY <1>1, <1>3, ConnsAre
<1>5. PICK x : x = [r EXCEPT !.open = FALSE, !.up = <<>>]
  OBVIOUS
<1>6. Changed(k, FALSE, conns[k].sent, conns[k].down, <<>>)
  <2>1. x \in Conn /\ x.chan = r.chan /\ x.open = FALSE /\ x.sent = r.sent /\ x.down = r.down /\ x.up = <<>>
    <3>1. PICK u \in Seq(Answered) : u = <<>>
      BY <1>2
    <3>2. x = [r EXCEPT !.open = FALSE, !.up = u]
      BY <1>5, <3>1
    <3>3. u \in Seq(Answered)
      BY <3>1
    <3>4. x \in Conn /\ x.chan = r.chan /\ x.open = FALSE /\ x.sent = r.sent /\ x.down = r.down /\ x.up = u
      BY <3>2, <3>3 DEF Conn
    <3>. QED BY <3>1, <3>4
  <2>2. Changed(k, x.open, x.sent, x.down, x.up)
    BY <1>1, <1>3, <1>4, <1>5, <2>1, ChangeConn
  <2>. QED BY <1>3, <2>1, <2>2
<1>. QED BY <1>1, <1>6 DEF k

LEMMA WritelnConns ==
  ASSUME Kinds, NEW k \in DOMAIN conns, writeln_plug(k)
  PROVE  /\ k \in 1 .. Len(conns)
         /\ Changed(k, conns[k].open, conns[k].sent + 1, Append(conns[k].down, <<k, conns[k].sent + 1>>), conns[k].up)
<1>1. k \in 1 .. Len(conns) /\ k \in Nat
  BY ConnsAre
<1>2. PICK r \in Conn : r = conns[k]
  BY <1>1, ConnIs
<1> DEFINE d == Append(r.down, <<k, r.sent + 1>>)
<1>3. conns' = [conns EXCEPT ![k] = [r EXCEPT !.sent = r.sent + 1, !.down = d]]
  BY <1>1, <1>2, ConnsAre DEF writeln_plug
<1>4. r.sent + 1 \in Nat /\ <<k, r.sent + 1>> \in Char /\ r.down \in Seq(Char) /\ r.up \in Seq(Answered)
  BY <1>1 DEF Conn, Char
<1>5. d \in Seq(Char)
  BY <1>4, AppendProperties
<1> HIDE DEF d
<1>6. PICK x : x = [r EXCEPT !.sent = r.sent + 1, !.down = d]
  OBVIOUS
<1>7. Changed(k, r.open, r.sent + 1, d, r.up)
  <2>1. x \in Conn /\ x.chan = r.chan /\ x.open = r.open /\ x.sent = r.sent + 1 /\ x.down = d /\ x.up = r.up
    <3>1. PICK s \in Nat : s = r.sent + 1
      BY <1>4
    <3>2. x = [r EXCEPT !.sent = s, !.down = d]
      BY <1>6, <3>1
    <3>3. s \in Nat
      BY <3>1
    <3>4. x \in Conn /\ x.chan = r.chan /\ x.open = r.open /\ x.sent = s /\ x.down = d /\ x.up = r.up
      BY <1>5, <3>2, <3>3 DEF Conn
    <3>. QED BY <3>1, <3>4
  <2>2. Changed(k, x.open, x.sent, x.down, x.up)
    BY <1>1, <1>2, <1>3, <1>6, <2>1, ChangeConn
  <2>. QED BY <2>1, <2>2
<1>. QED BY <1>1, <1>2, <1>7 DEF d

LEMMA ReadbufConns ==
  ASSUME Kinds, NEW k \in DOMAIN conns, readbuf_plug(k)
  PROVE  k \in 1 .. Len(conns) /\ Changed(k, conns[k].open, conns[k].sent, conns[k].down, <<>>)
<1>1. k \in 1 .. Len(conns) /\ <<>> \in Seq(Answered)
  BY ConnsAre
<1>2. PICK r \in Conn : r = conns[k]
  BY <1>1, ConnIs
<1>3. conns' = [conns EXCEPT ![k] = [r EXCEPT !.up = <<>>]]
  BY <1>1, <1>2, ConnsAre DEF readbuf_plug
<1>4. PICK x : x = [r EXCEPT !.up = <<>>]
  OBVIOUS
<1>5. x \in Conn /\ x.chan = r.chan /\ x.open = r.open /\ x.sent = r.sent /\ x.down = r.down /\ x.up = <<>>
  <2>1. PICK u \in Seq(Answered) : u = <<>>
    BY <1>1
  <2>2. x = [r EXCEPT !.up = u]
    BY <1>4, <2>1
  <2>3. u \in Seq(Answered)
    BY <2>1
  <2>4. x \in Conn /\ x.chan = r.chan /\ x.open = r.open /\ x.sent = r.sent /\ x.down = r.down /\ x.up = u
    BY <2>2, <2>3, FieldsAnswered
  <2>. QED BY <2>1, <2>4
<1>6. Changed(k, x.open, x.sent, x.down, x.up)
  BY <1>1, <1>2, <1>3, <1>4, <1>5, ChangeConn
<1>. QED BY <1>1, <1>2, <1>5, <1>6

\* An answer goes to the host.
LEMMA AnswerConns ==
  ASSUME Kinds, NEW k \in 1 .. Len(conns), NEW y \in Answered, conns' = [conns EXCEPT ![k].up = Append(@, y)]
  PROVE  Changed(k, conns[k].open, conns[k].sent, conns[k].down, Append(conns[k].up, y))
<1>1. PICK r \in Conn : r = conns[k]
  BY ConnIs
<1> DEFINE u == Append(r.up, y)
<1>2. conns' = [conns EXCEPT ![k] = [r EXCEPT !.up = u]]
  BY <1>1, ConnsAre
<1>3. u \in Seq(Answered)
  BY AppendProperties DEF Conn
<1> HIDE DEF u
<1>4. PICK x : x = [r EXCEPT !.up = u]
  OBVIOUS
<1>5. Changed(k, r.open, r.sent, r.down, u)
  <2>1. x \in Conn /\ x.chan = r.chan /\ x.open = r.open /\ x.sent = r.sent /\ x.down = r.down /\ x.up = u
    BY <1>3, <1>4, FieldsAnswered
  <2>2. Changed(k, x.open, x.sent, x.down, x.up)
    BY <1>1, <1>2, <1>4, <2>1, ChangeConn
  <2>. QED BY <2>1, <2>2
<1>. QED BY <1>1, <1>5 DEF u

\* The connection of the channel that is collected or answered.
LEMMA ChannelConn ==
  ASSUME Kinds, FileInv, NEW c \in Chans, chfd[c] # 0, main.at \notin {"open", "close"} \/ main.chan # c
  PROVE  /\ chfd[c] \in Files /\ ConnOf(c) = fds[chfd[c]] /\ ConnOf(c) \in 1 .. Len(conns)
         /\ conns[ConnOf(c)].chan = c
<1>1. chfd[c] \in Files /\ ConnOf(c) = fds[chfd[c]]
  BY DEF Kinds, FileKinds, ConnOf
<1>2. fds[chfd[c]] \in Nat /\ fds[chfd[c]] <= Len(conns) /\ ConnOf(c) # 0 /\ conns[ConnOf(c)].chan = c
  BY <1>1 DEF Kinds, FileKinds, FileInv, ChannelFile
<1>. QED BY <1>1, <1>2, ConnsAre

LEMMA CollectConns ==
  ASSUME Kinds, ProcessInv, Alive, collect_channel_data
  PROVE  LET c == main.chan
             k == ConnOf(c)
             d == conns[k].down
             n == Min({Len(d), BufMax - fill[c]})
         IN  /\ c \in Chans /\ k \in 1 .. Len(conns) /\ conns[k].chan = c
             /\ d \in Seq(Char) /\ n \in 0 .. Len(d) /\ n <= BufMax - fill[c]
             /\ Changed(k, conns[k].open, conns[k].sent, SubSeq(d, n + 1, Len(d)), conns[k].up)
<1> DEFINE c == main.chan
           k == ConnOf(c)
           d == conns[k].down
           n == Min({Len(d), BufMax - fill[c]})
<1>1. c \in Chans /\ chfd[c] # 0 /\ main.at = "collect"
  BY DEF collect_channel_data, Kinds, MainKinds, ProcessInv, FileInv
<1>2. k \in 1 .. Len(conns) /\ conns[k].chan = c
  BY <1>1, ChannelConn DEF ProcessInv
<1>3. conns' = [conns EXCEPT ![k].down = SubSeq(@, n + 1, Len(@))]
  BY DEF collect_channel_data
<1>4. d \in Seq(Char) /\ Len(d) \in Nat
  BY <1>2, ConnIs, LenProperties
<1>5. fill[c] \in Int /\ 0 <= fill[c] /\ fill[c] <= BufMax
  BY <1>1 DEF Kinds, TextKinds, ProcessInv, BufInv
<1>6. n \in 0 .. Len(d) /\ n <= BufMax - fill[c]
  <2> HIDE DEF c, k, d
  <2>1. PICK p \in Nat, q \in Nat : p = Len(d) /\ q = BufMax - fill[c]
    BY <1>4, <1>5, PlugAssumption
  <2>2. Min({p, q}) \in 0 .. p /\ Min({p, q}) <= q
    <3>1. p \in Int /\ q \in Int
      OBVIOUS
    <3>2. Min({p, q}) \in {p, q} /\ Min({p, q}) <= p /\ Min({p, q}) <= q
      BY <3>1, LeastOfTwo
    <3>. QED BY <3>2
  <2>. QED BY <2>1, <2>2
<1> HIDE DEF c, k, n
<1>7. SubSeq(d, n + 1, Len(d)) \in Seq(Char)
  <2> HIDE DEF d
  <2>1. \A i \in n + 1 .. Len(d) : d[i] \in Char
    BY <1>4, <1>6, LenProperties
  <2>. QED BY <1>4, <1>6, <2>1, SubSeqProperties
<1>8. PICK r \in Conn : r = conns[k]
  BY <1>2, ConnIs
<1> DEFINE rest == SubSeq(d, n + 1, Len(d))
<1>9. conns' = [conns EXCEPT ![k] = [r EXCEPT !.down = rest]]
  BY <1>2, <1>3, <1>8, ConnsAre
<1> HIDE DEF rest
<1>10. PICK x : x = [r EXCEPT !.down = rest]
  OBVIOUS
<1>11. Changed(k, conns[k].open, conns[k].sent, rest, conns[k].up)
  <2>0. rest \in Seq(Char)
    BY <1>7 DEF rest
  <2>1. x \in Conn /\ x.chan = r.chan /\ x.open = r.open /\ x.sent = r.sent /\ x.down = rest /\ x.up = r.up
    BY <1>10, <2>0, FieldsRead
  <2>2. Changed(k, x.open, x.sent, x.down, x.up)
    BY <1>2, <1>8, <1>9, <1>10, <2>1, ChangeConn
  <2>. QED BY <1>8, <2>1, <2>2
<1>. QED BY <1>1, <1>2, <1>4, <1>6, <1>11 DEF c, k, n, rest

\* Connections come, and keep their channel.
ConnsGrow ==
  /\ conns' \in Seq(Conn) /\ Len(conns) \in Nat /\ Len(conns') \in Nat /\ Len(conns) <= Len(conns')
  /\ \A k \in 1 .. Len(conns) : conns'[k].chan = conns[k].chan

\* A connection comes when an OPEN is served.
OpenedConn(c) ==
  /\ conns' \in Seq(Conn) /\ Len(conns') = Len(conns) + 1
  /\ \A k \in 1 .. Len(conns) : conns'[k] = conns[k]
  /\ conns'[Len(conns) + 1] = [chan |-> c, open |-> TRUE, sent |-> 0, down |-> <<>>, up |-> <<>>]

LEMMA CommandHead ==
  ASSUME Kinds, NEW op, NextCommand(op)
  PROVE  /\ main.at = "command" /\ main.cmds \in Seq(Cmd) /\ main.cmds # <<>>
         /\ Head(main.cmds) \in Cmd /\ Head(main.cmds) = main.cmds[1] /\ Head(main.cmds).op = op
         /\ Len(main.cmds) \in Nat /\ 1 \in 1 .. Len(main.cmds)
         /\ Tail(main.cmds) \in Seq(Cmd)
<1>1. main.cmds \in Seq(Cmd) /\ main.cmds # <<>> /\ main.at = "command" /\ Head(main.cmds).op = op
  BY DEF Kinds, MainKinds, NextCommand
<1> DEFINE s == main.cmds
<1> HIDE DEF s
<1>2. s \in Seq(Cmd) /\ s # <<>>
  BY <1>1 DEF s
<1>3. Head(s) \in Cmd /\ Head(s) = s[1] /\ Len(s) \in Nat \ {0} /\ Tail(s) \in Seq(Cmd)
  BY <1>2, CmdsShrink
<1>. QED BY <1>1, <1>3 DEF s

LEMMA OpenConns ==
  ASSUME Kinds, open_fun, ~NoChannel(Head(main.cmds).n)
  PROVE  Head(main.cmds).n \in Chans /\ OpenedConn(Head(main.cmds).n)
<1> DEFINE c == Head(main.cmds).n
           x == [chan |-> c, open |-> TRUE, sent |-> 0, down |-> <<>>, up |-> <<>>]
<1>1. Head(main.cmds) \in Cmd /\ Head(main.cmds).op = "OPEN"
  BY CommandHead DEF open_fun
<1>2. c \in Chans
  BY <1>1 DEF Cmd
<1>3. conns' = Append(conns, x)
  BY DEF open_fun
<1> HIDE DEF c
<1>4. x \in Conn
  BY <1>2 DEF Conn
<1>5. OpenedConn(c) <=>
        /\ conns' \in Seq(Conn) /\ Len(conns') = Len(conns) + 1
        /\ \A k \in 1 .. Len(conns) : conns'[k] = conns[k]
        /\ conns'[Len(conns) + 1] = x
  BY DEF OpenedConn
<1> HIDE DEF x
<1>6. OpenedConn(c)
  BY <1>3, <1>4, <1>5, ConnsAre, ConnComes
<1>. QED BY <1>2, <1>6 DEF c

\* The monitor's answer.
LEMMA MonitorConns ==
  ASSUME Kinds, ProcessInv, process_254
  PROVE  LET k == ConnOf(254)
         IN  /\ main.chan = 254 /\ 254 \in Chans /\ k \in 1 .. Len(conns) /\ conns[k].chan = 254
             /\ \/ UNCHANGED conns
                \/ Changed(k, conns[k].open, conns[k].sent, conns[k].down,
                           Append(conns[k].up, [chan |-> 254, crossed |-> FALSE]))
<1> DEFINE k == ConnOf(254)
<1>1. main.at = "monitor" /\ main.chan = 254 /\ 254 \in Chans /\ chfd[254] # 0
  BY DEF process_254, Kinds, MainKinds, ProcessInv, FileInv, LockInv
<1>2. k \in 1 .. Len(conns) /\ conns[k].chan = 254
  BY <1>1, ChannelConn DEF ProcessInv
<1>3. PICK y \in Answered : y = [chan |-> 254, crossed |-> FALSE]
  <2>1. [chan |-> 254, crossed |-> FALSE] \in Answered
    BY <1>1 DEF Answered
  <2>. QED BY <2>1
<1>4. UNCHANGED conns \/ conns' = [conns EXCEPT ![k].up = Append(@, y)]
  BY <1>3 DEF process_254
<1> HIDE DEF k
<1>5. UNCHANGED conns \/ Changed(k, conns[k].open, conns[k].sent, conns[k].down, Append(conns[k].up, y))
  BY <1>2, <1>4, AnswerConns
<1>. QED BY <1>1, <1>2, <1>3, <1>5 DEF k

LEMMA WriteEndsConns ==
  ASSUME Kinds, ProcessInv, NEW a \in Apps, WriteEnds(a)
  PROVE  LET k == app[a].n
         IN  /\ app[a].at \in {"write text", "write newline"} /\ k \in 1 .. Len(conns)
             /\ \/ ~conns[k].open /\ UNCHANGED conns
                \/ conns[k].open /\ Changed(k, conns[k].open, conns[k].sent, conns[k].down,
                           Append(conns[k].up, [chan |-> app[a].chan, crossed |-> app[a].crossed]))
<1> DEFINE k == app[a].n
<1>1. app[a].at \in {"write text", "write newline"} /\ k \in 1 .. Len(conns)
  BY ConnsAre DEF WriteEnds, ProcessInv, CrossInv
<1>2. app[a] \in AppState /\ app[a].chan # -1
  BY <1>1 DEF Kinds, AppKinds, Writing
<1>3. PICK y \in Answered : y = [chan |-> app[a].chan, crossed |-> app[a].crossed]
  BY <1>2 DEF Answered, AppState, AppChans
<1>4. \/ ~conns[k].open /\ UNCHANGED conns
      \/ conns[k].open /\ conns' = [conns EXCEPT ![k].up = Append(@, y)]
  BY <1>3 DEF WriteEnds
<1> HIDE DEF k
<1>5. \/ ~conns[k].open /\ UNCHANGED conns
      \/ conns[k].open /\ Changed(k, conns[k].open, conns[k].sent, conns[k].down, Append(conns[k].up, y))
  BY <1>1, <1>4, AnswerConns
<1>. QED BY <1>1, <1>3, <1>5 DEF k

LEMMA ConnStep ==
  ASSUME Kinds, ProcessInv, Next
  PROVE  ConnsGrow
<1>0. conns \in Seq(Conn) /\ Len(conns) \in Nat /\ DOMAIN conns = 1 .. Len(conns)
  BY ConnsAre
<1>1. ASSUME UNCHANGED conns PROVE ConnsGrow
  BY <1>0, <1>1 DEF ConnsGrow
<1>2. ASSUME NEW k \in 1 .. Len(conns), NEW o, NEW s, NEW d, NEW u, Changed(k, o, s, d, u) PROVE ConnsGrow
  BY <1>0, <1>2 DEF ConnsGrow, Changed
<1>3. ASSUME \/ connect_plug \/ Accept \/ FrameMade \/ run_program_plug \/ Begin \/ Select \/ process_port
             \/ OpenDone \/ close_fun \/ CloseDone \/ frame_fun \/ run_fun \/ PortDone \/ NextChannel
             \/ \E c \in Chans : channel_open_plug(c)
             \/ \E k \in DOMAIN conns : channel_close_plug(k)
             \/ \E f \in Frames : make_frame_plug(f) \/ delete_frame_plug(f)
             \/ \E a \in Apps : FindLine(a) \/ SetFill(a) \/ TimesOut(a) \/ WriteBegins(a)
             \/ \E a \in Apps : ise_plug_frame_unlock(a)
             \/ \E a \in Apps, c \in AppChans : ise_plug_writeln(a, c)
             \/ \E a \in Apps, c \in AppChans, d \in Delays : ise_plug_readln(a, c, d)
             \/ \E a \in Apps, f \in Frames : ise_plug_frame_lock(a, f)
      PROVE  ConnsGrow
  BY <1>1, <1>3 DEF connect_plug, Accept, FrameMade, run_program_plug, channel_open_plug,
       channel_close_plug, make_frame_plug, delete_frame_plug, Begin, Select, process_port,
       OpenDone, close_fun, CloseDone, frame_fun, run_fun, PortDone, NextChannel, FindLine,
       SetFill, TimesOut, WriteBegins, ise_plug_frame_unlock, ise_plug_writeln, ise_plug_readln,
       ise_plug_frame_lock, sockVars, chanVars, frameVars
<1>4. CASE CloseFile
  BY <1>2, <1>4, CloseFileConns
<1>5. ASSUME NEW k \in DOMAIN conns, writeln_plug(k) PROVE ConnsGrow
  BY <1>2, <1>5, WritelnConns
<1>6. ASSUME NEW k \in DOMAIN conns, readbuf_plug(k) PROVE ConnsGrow
  BY <1>2, <1>6, ReadbufConns
<1>7. CASE open_fun
  <2>1. CASE NoChannel(Head(main.cmds).n)
    BY <1>1, <1>7, <2>1 DEF open_fun
  <2>2. CASE ~NoChannel(Head(main.cmds).n)
    BY <1>0, <1>7, <2>2, OpenConns DEF OpenedConn, ConnsGrow
  <2>. QED BY <2>1, <2>2
<1>8. CASE collect_channel_data
  <2>1. Alive
    BY DEF Next
  <2>. QED BY <1>2, <1>8, <2>1, CollectConns
<1>9. CASE process_254
  BY <1>1, <1>2, <1>9, MonitorConns
<1>10. ASSUME NEW a \in Apps, WriteEnds(a) PROVE ConnsGrow
  BY <1>1, <1>2, <1>10, WriteEndsConns
<1>. QED BY <1>3, <1>4, <1>5, <1>6, <1>7, <1>8, <1>9, <1>10
     DEF Next, HostCall, HostStep, MainStep, AppCall, AppStep

\* How many numbers there are up to n.
LEMMA UpToSize ==
  ASSUME NEW n \in Nat
  PROVE  IsFiniteSet(1 .. n) /\ Cardinality(1 .. n) = n
<1>1. 1 \in Int /\ n \in Int
  OBVIOUS
<1>2. IsFiniteSet(1 .. n) /\ Cardinality(1 .. n) = IF 1 > n THEN 0 ELSE n - 1 + 1
  BY <1>1, FS_Interval, SMTT(20)
<1>. QED BY <1>2

\* A file is free for the connection that comes.
LEMMA FreeFile ==
  ASSUME Kinds, OpenInv, FileInv, NextCommand("OPEN")
  PROVE  LET f == Min({g \in Files : fds[g] = 0}) IN f \in Files /\ fds[f] = 0
<1>0. MaxMakes \in Nat /\ Len(conns) \in Nat /\ makes \in Nat /\ fds \in [Files -> Nat]
  BY PlugAssumption, ConnsAre DEF Kinds, FrameKinds, FileKinds
<1>1. Len(conns) + makes + 1 <= MaxMakes
  <2>1. Underway("OPEN")
    BY CommandHead DEF Underway, Has
  <2>. QED BY <2>1 DEF OpenInv
<1>2. {g \in Files : fds[g] = 0} # {}
  <2> SUFFICES ASSUME \A g \in Files : fds[g] # 0 PROVE FALSE
    OBVIOUS
  <2> DEFINE T == 1 .. Len(conns)
  <2>1. fds \in [Files -> T]
    BY <1>0 DEF FileInv
  <2>2. IsFiniteSet(Files) /\ Cardinality(Files) = MaxMakes + 1
    <3>1. MaxMakes + 1 \in Nat
      BY <1>0
    <3>. QED BY <3>1, UpToSize DEF Files
  <2>3. IsFiniteSet(T) /\ Cardinality(T) = Len(conns)
    BY <1>0, UpToSize
  <2>4. Cardinality(T) < Cardinality(Files)
    BY <1>0, <1>1, <2>2, <2>3
  <2> HIDE DEF T
  <2>5. \E x, y \in Files : x # y /\ fds[x] = fds[y]
    BY <2>1, <2>2, <2>3, <2>4, FS_PigeonHole
  <2>. QED BY <2>5 DEF FileInv
<1>3. {g \in Files : fds[g] = 0} \subseteq Nat
  BY DEF Files
<1>. QED BY <1>2, <1>3, LeastOf

\* The first line of a buffer.
LEMMA LineLenIs ==
  ASSUME Kinds, NEW c \in Chans
  PROVE  /\ LineLen(c) \in 0 .. Len(cbuf[c])
         /\ LineLen(c) = 0 <=> NoLine(c)
         /\ LineLen(c) > 0 => IsNewline(cbuf[c][LineLen(c)])
         /\ \A i \in 1 .. LineLen(c) - 1 : ~IsNewline(cbuf[c][i])
<1> DEFINE s == cbuf[c]
           at == {i \in DOMAIN s : IsNewline(s[i])}
<1>1. s \in Seq(Char) /\ Len(s) \in Nat /\ DOMAIN s = 1 .. Len(s)
  BY LenProperties DEF Kinds, TextKinds
<1>2. LineLen(c) = IF at = {} THEN 0 ELSE Min(at)
  BY DEF LineLen
<1>3. NoLine(c) <=> at = {}
  BY <1>1 DEF NoLine
<1>4. at \subseteq Nat /\ at \subseteq 1 .. Len(s) /\ \A i \in 1 .. Len(s) : i \in at <=> IsNewline(s[i])
  BY <1>1
<1> HIDE DEF at
<1>5. CASE at = {}
  BY <1>1, <1>2, <1>3, <1>5
<1>6. CASE at # {}
  <2>1. LineLen(c) \in at /\ \A j \in at : LineLen(c) <= j
    BY <1>2, <1>4, <1>6, LeastOf
  <2>2. LineLen(c) \in 1 .. Len(s) /\ IsNewline(s[LineLen(c)])
    BY <1>4, <2>1
  <2>3. ASSUME NEW i \in 1 .. LineLen(c) - 1 PROVE ~IsNewline(s[i])
    <3>1. i \in 1 .. Len(s) /\ ~(LineLen(c) <= i)
      BY <1>1, <2>2
    <3>. QED BY <1>4, <2>1, <3>1
  <2>. QED BY <1>1, <1>3, <1>6, <2>2, <2>3
<1>. QED BY <1>5, <1>6

\* Parts of a text.
LEMMA PartKinds ==
  ASSUME NEW s \in Seq(Char), NEW n \in 0 .. Len(s)
  PROVE  /\ SubSeq(s, 1, n) \in Seq(Char) /\ Len(SubSeq(s, 1, n)) = n
         /\ \A i \in 1 .. n : SubSeq(s, 1, n)[i] = s[i]
         /\ SubSeq(s, n + 1, Len(s)) \in Seq(Char) /\ Len(SubSeq(s, n + 1, Len(s))) = Len(s) - n
         /\ \A i \in 1 .. Len(s) - n : SubSeq(s, n + 1, Len(s))[i] = s[n + i]
<1>1. Len(s) \in Nat /\ \A i \in 1 .. Len(s) : s[i] \in Char
  BY LenProperties
<1>2. /\ SubSeq(s, 1, n) \in Seq(Char) /\ Len(SubSeq(s, 1, n)) = IF 1 <= n THEN n - 1 + 1 ELSE 0
      /\ \A i \in 1 .. n - 1 + 1 : SubSeq(s, 1, n)[i] = s[1 + i - 1]
  <2>1. \A i \in 1 .. n : s[i] \in Char
    BY <1>1
  <2>. QED BY <1>1, <2>1, SubSeqProperties
<1>3. /\ SubSeq(s, n + 1, Len(s)) \in Seq(Char)
      /\ Len(SubSeq(s, n + 1, Len(s))) = IF n + 1 <= Len(s) THEN Len(s) - (n + 1) + 1 ELSE 0
      /\ \A i \in 1 .. Len(s) - (n + 1) + 1 : SubSeq(s, n + 1, Len(s))[i] = s[(n + 1) + i - 1]
  <2>1. \A i \in n + 1 .. Len(s) : s[i] \in Char
    BY <1>1
  <2>. QED BY <1>1, <2>1, SubSeqProperties
<1>. QED BY <1>1, <1>2, <1>3

\* A thread that is reading or writing has a channel.
LEMMA AppHas ==
  ASSUME Kinds, NEW a \in Apps
  PROVE  /\ app[a] \in AppState /\ app[a].n \in Nat /\ app[a].crossed \in BOOLEAN
         /\ app[a].at \in {"absent", "idle", "frame"} \cup Writing \cup Reading
         /\ app[a].chan \in AppChans \cup {-1}
         /\ app[a].at \in Writing \cup Reading => app[a].chan \in AppChans /\ app[a].chan \in Chans /\ app[a].chan # 254
BY DEF Kinds, AppKinds, AppState, AppChans

LEMMA FileStep ==
  ASSUME Kinds, ProcessInv, Next
  PROVE  FileKinds'
<1>0. fds \in [Files -> Nat] /\ chfd \in [Chans -> {0} \cup Files] /\ Len(conns) \in Nat
  BY ConnsAre DEF Kinds, FileKinds
<1>1. ASSUME UNCHANGED <<fds, chfd>> PROVE FileKinds'
  BY <1>0, <1>1 DEF FileKinds
<1>2. ASSUME \/ connect_plug \/ Accept \/ CloseFile \/ FrameMade \/ run_program_plug \/ Begin \/ Select
             \/ process_port \/ frame_fun \/ run_fun \/ PortDone \/ NextChannel \/ collect_channel_data
             \/ process_254
             \/ \E c \in Chans : channel_open_plug(c)
             \/ \E k \in DOMAIN conns : channel_close_plug(k) \/ writeln_plug(k) \/ readbuf_plug(k)
             \/ \E f \in Frames : make_frame_plug(f) \/ delete_frame_plug(f)
             \/ \E a \in Apps : FindLine(a) \/ SetFill(a) \/ TimesOut(a) \/ WriteBegins(a) \/ WriteEnds(a)
             \/ \E a \in Apps : ise_plug_frame_unlock(a)
             \/ \E a \in Apps, c \in AppChans : ise_plug_writeln(a, c)
             \/ \E a \in Apps, c \in AppChans, d \in Delays : ise_plug_readln(a, c, d)
             \/ \E a \in Apps, f \in Frames : ise_plug_frame_lock(a, f)
      PROVE  FileKinds'
  BY <1>1, <1>2 DEF connect_plug, Accept, CloseFile, FrameMade, run_program_plug,
       channel_open_plug, channel_close_plug, writeln_plug, readbuf_plug, make_frame_plug,
       delete_frame_plug, Begin, Select, process_port, frame_fun, run_fun, PortDone, NextChannel,
       collect_channel_data, process_254, FindLine, SetFill, TimesOut, WriteBegins, WriteEnds,
       ise_plug_frame_unlock, ise_plug_writeln, ise_plug_readln, ise_plug_frame_lock, sockVars,
       chanVars, frameVars
<1>3. CASE open_fun
  <2> DEFINE f == Min({g \in Files : fds[g] = 0})
  <2>1. PICK k \in Nat : k = Len(conns) + 1
    BY <1>0
  <2>2. /\ chfd' = chfd
        /\ \/ UNCHANGED fds
           \/ fds' = [g \in Files |-> IF g = f THEN k ELSE IF g = chfd[Head(main.cmds).n] THEN 0 ELSE fds[g]]
    BY <1>3, <2>1 DEF open_fun
  <2> HIDE DEF f
  <2>. QED BY <1>0, <2>2 DEF FileKinds
<1>4. CASE OpenDone
  BY <1>0, <1>4 DEF OpenDone, FileKinds, Kinds, MainKinds
<1>5. CASE close_fun
  BY <1>0, <1>5 DEF close_fun, FileKinds
<1>6. CASE CloseDone
  BY <1>0, <1>6 DEF CloseDone, NumberGone, FileKinds
<1>. QED BY <1>2, <1>3, <1>4, <1>5, <1>6
     DEF Next, HostCall, HostStep, MainStep, AppCall, AppStep

LEMMA FrameTableStep ==
  ASSUME Kinds, Next
  PROVE  FrameKinds'
<1>0. /\ fbase \in [Frames -> Nat] /\ hbase \in [Frames -> Nat] /\ makes \in Nat
      /\ flock \in [Frames -> Apps \cup {None}]
  BY DEF Kinds, FrameKinds
<1>1. ASSUME UNCHANGED frameVars PROVE FrameKinds'
  BY <1>0, <1>1 DEF FrameKinds, frameVars
<1>2. ASSUME \/ connect_plug \/ Accept \/ CloseFile \/ FrameMade \/ run_program_plug \/ Begin \/ Select
             \/ process_port \/ open_fun \/ OpenDone \/ close_fun \/ CloseDone \/ run_fun \/ PortDone
             \/ NextChannel \/ collect_channel_data \/ process_254
             \/ \E c \in Chans : channel_open_plug(c)
             \/ \E k \in DOMAIN conns : channel_close_plug(k) \/ writeln_plug(k) \/ readbuf_plug(k)
             \/ \E a \in Apps : FindLine(a) \/ SetFill(a) \/ TimesOut(a) \/ WriteBegins(a) \/ WriteEnds(a)
             \/ \E a \in Apps, c \in AppChans : ise_plug_writeln(a, c)
             \/ \E a \in Apps, c \in AppChans, d \in Delays : ise_plug_readln(a, c, d)
      PROVE  FrameKinds'
  BY <1>1, <1>2 DEF connect_plug, Accept, CloseFile, FrameMade, run_program_plug,
       channel_open_plug, channel_close_plug, writeln_plug, readbuf_plug, Begin, Select,
       process_port, open_fun, OpenDone, close_fun, CloseDone, run_fun, PortDone, NextChannel,
       collect_channel_data, process_254, FindLine, SetFill, TimesOut, WriteBegins, WriteEnds,
       ise_plug_writeln, ise_plug_readln, sockVars, chanVars, frameVars
<1>3. ASSUME NEW f \in Frames, make_frame_plug(f) \/ delete_frame_plug(f) PROVE FrameKinds'
  <2>1. makes' \in Nat /\ fbase' = fbase /\ flock' = flock
    BY <1>0, <1>3 DEF make_frame_plug, delete_frame_plug
  <2>2. hbase' = [hbase EXCEPT ![f] = makes'] \/ hbase' = [hbase EXCEPT ![f] = 0]
    BY <1>3 DEF make_frame_plug, delete_frame_plug
  <2>. QED BY <1>0, <2>1, <2>2 DEF FrameKinds
<1>4. CASE frame_fun
  <2>1. Head(main.cmds) \in Cmd /\ Head(main.cmds).op = "FRAME"
    BY <1>4, CommandHead DEF frame_fun
  <2>2. Head(main.cmds).make \in Nat
    BY <2>1 DEF Cmd
  <2>. QED BY <1>0, <1>4, <2>2 DEF frame_fun, Mapped, FrameKinds
<1>5. ASSUME NEW a \in Apps, ise_plug_frame_unlock(a) \/ \E f \in Frames : ise_plug_frame_lock(a, f) PROVE FrameKinds'
  BY <1>0, <1>5 DEF ise_plug_frame_lock, ise_plug_frame_unlock, FrameKinds
<1>. QED BY <1>2, <1>3, <1>4, <1>5
     DEF Next, HostCall, HostStep, MainStep, AppCall, AppStep

LEMMA HostStepKinds ==
  ASSUME Kinds, ProcessInv, Next
  PROVE  HostKinds'
<1>0. /\ host \in [at : HostPlaces, conn : Nat] /\ (host.at = "close" => host.conn \in DOMAIN conns)
      /\ Len(conns) \in Nat /\ DOMAIN conns = 1 .. Len(conns)
  BY ConnsAre DEF Kinds, HostKinds
<1>1. DOMAIN conns' = 1 .. Len(conns') /\ DOMAIN conns \subseteq DOMAIN conns'
  <2>1. conns' \in Seq(Conn) /\ Len(conns') \in Nat /\ Len(conns) <= Len(conns')
    BY ConnStep DEF ConnsGrow
  <2>2. DOMAIN conns' = 1 .. Len(conns')
    BY <2>1, LenProperties
  <2>. QED BY <1>0, <2>1, <2>2
<1>2. ASSUME UNCHANGED host PROVE HostKinds'
  BY <1>0, <1>1, <1>2 DEF HostKinds
<1>3. ASSUME NEW place \in HostPlaces, NEW k \in Nat, HostGoes(place, k), place = "close" => k \in DOMAIN conns
      PROVE  HostKinds'
  BY <1>1, <1>3 DEF HostKinds, HostGoes
<1>4. ASSUME \/ run_program_plug \/ Begin \/ Select \/ process_port \/ OpenDone \/ close_fun \/ CloseDone
             \/ frame_fun \/ run_fun \/ PortDone \/ NextChannel \/ collect_channel_data \/ process_254
             \/ \E k \in DOMAIN conns : readbuf_plug(k)
             \/ \E f \in Frames : delete_frame_plug(f)
             \/ \E a \in Apps : FindLine(a) \/ SetFill(a) \/ TimesOut(a) \/ WriteBegins(a) \/ WriteEnds(a)
             \/ \E a \in Apps : ise_plug_frame_unlock(a)
             \/ \E a \in Apps, c \in AppChans : ise_plug_writeln(a, c)
             \/ \E a \in Apps, c \in AppChans, d \in Delays : ise_plug_readln(a, c, d)
             \/ \E a \in Apps, f \in Frames : ise_plug_frame_lock(a, f)
      PROVE  HostKinds'
  BY <1>2, <1>4 DEF run_program_plug, readbuf_plug, delete_frame_plug, Begin, Select, process_port,
       OpenDone, close_fun, CloseDone, frame_fun, run_fun, PortDone, NextChannel,
       collect_channel_data, process_254, FindLine, SetFill, TimesOut, WriteBegins, WriteEnds,
       ise_plug_frame_unlock, ise_plug_writeln, ise_plug_readln, ise_plug_frame_lock, sockVars,
       chanVars, frameVars
<1>5. CASE connect_plug \/ Accept \/ CloseFile \/ FrameMade
  <2>1. HostGoes("idle", 0)
    BY <1>5 DEF connect_plug, Accept, CloseFile, FrameMade
  <2>. QED BY <1>3, <2>1 DEF HostPlaces
<1>6. ASSUME NEW c \in Chans, channel_open_plug(c) PROVE HostKinds'
  <2>1. HostGoes("accept", 0)
    BY <1>6 DEF channel_open_plug
  <2>. QED BY <1>3, <2>1 DEF HostPlaces
<1>7. ASSUME NEW k \in DOMAIN conns, channel_close_plug(k) PROVE HostKinds'
  BY <1>0, <1>3, <1>7 DEF channel_close_plug, HostPlaces
<1>8. ASSUME NEW k \in DOMAIN conns, writeln_plug(k) PROVE HostKinds'
  BY <1>0, <1>3, <1>8 DEF writeln_plug, HostPlaces
<1>9. ASSUME NEW f \in Frames, make_frame_plug(f) PROVE HostKinds'
  <2>1. HostGoes("frame", 0)
    BY <1>9 DEF make_frame_plug
  <2>. QED BY <1>3, <2>1 DEF HostPlaces
<1>10. CASE open_fun
  <2>1. CASE UNCHANGED host
    BY <1>2, <2>1
  <2>2. CASE host' = [host EXCEPT !.conn = Len(conns) + 1]
    <3>1. Underway("OPEN")
      BY <1>10, CommandHead DEF Underway, Has, open_fun
    <3>2. host.at # "close"
      BY <3>1 DEF ProcessInv, OpenInv
    <3>. QED BY <1>0, <2>2, <3>2 DEF HostKinds
  <2>. QED BY <1>10, <2>1, <2>2 DEF open_fun
<1>. QED BY <1>4, <1>5, <1>6, <1>7, <1>8, <1>9, <1>10
     DEF Next, HostCall, HostStep, MainStep, AppCall, AppStep

LEMMA MainStepKinds ==
  ASSUME Kinds, ProcessInv, Next
  PROVE  MainKinds'
<1> DEFINE Main == [at : MainPlaces, cmds : Seq(Cmd), ready : SUBSET Files, todo : SUBSET Chans, chan : Nat, file : Nat]
<1>0. /\ main \in Main /\ Chans \subseteq Nat /\ Files \subseteq Nat /\ port \in Seq(Cmd)
      /\ main.at \notin {"command", "open", "close"} => main.cmds = <<>>
      /\ main.at \in {"open", "close", "collect", "monitor"} => main.chan \in Chans
      /\ main.at = "open" => main.file \in Files
      /\ chfd \in [Chans -> {0} \cup Files]
  BY PlugAssumption DEF Kinds, MainKinds, PipeKinds, FileKinds, Files
<1>1. ASSUME UNCHANGED main PROVE MainKinds'
  BY <1>0, <1>1 DEF MainKinds
<1>2. ASSUME \/ connect_plug \/ Accept \/ CloseFile \/ FrameMade \/ run_program_plug
             \/ \E c \in Chans : channel_open_plug(c)
             \/ \E k \in DOMAIN conns : channel_close_plug(k) \/ writeln_plug(k) \/ readbuf_plug(k)
             \/ \E f \in Frames : make_frame_plug(f) \/ delete_frame_plug(f)
             \/ \E a \in Apps : FindLine(a) \/ SetFill(a) \/ TimesOut(a) \/ WriteBegins(a) \/ WriteEnds(a)
             \/ \E a \in Apps : ise_plug_frame_unlock(a)
             \/ \E a \in Apps, c \in AppChans : ise_plug_writeln(a, c)
             \/ \E a \in Apps, c \in AppChans, d \in Delays : ise_plug_readln(a, c, d)
             \/ \E a \in Apps, f \in Frames : ise_plug_frame_lock(a, f)
      PROVE  MainKinds'
  BY <1>1, <1>2 DEF connect_plug, Accept, CloseFile, FrameMade, run_program_plug,
       channel_open_plug, channel_close_plug, writeln_plug, readbuf_plug, make_frame_plug,
       delete_frame_plug, FindLine, SetFill, TimesOut, WriteBegins, WriteEnds,
       ise_plug_frame_unlock, ise_plug_writeln, ise_plug_readln, ise_plug_frame_lock, sockVars,
       chanVars, frameVars
<1>3. CASE Begin \/ OpenDone \/ CloseDone \/ PortDone
  BY <1>0, <1>3 DEF Begin, OpenDone, CloseDone, PortDone, MainGoes, MainKinds, MainPlaces
<1>4. CASE Select
  <2>1. {chfd[c] : c \in {d \in Chans : Readable(chfd[d])}} \subseteq Files
    BY <1>0 DEF Readable
  <2>. QED BY <1>0, <1>4, <2>1 DEF Select, MainKinds, MainPlaces
<1>5. CASE process_port
  BY <1>0, <1>5 DEF process_port, MainKinds, MainPlaces
<1>6. ASSUME Tail(main.cmds) \in Seq(Cmd), Done("command", 0) PROVE MainKinds'
  BY <1>0, <1>6 DEF Done, MainKinds, MainPlaces
<1>7. CASE open_fun
  <2>1. NextCommand("OPEN") /\ Head(main.cmds) \in Cmd /\ Head(main.cmds).op = "OPEN" /\ Tail(main.cmds) \in Seq(Cmd)
    BY <1>7, CommandHead DEF open_fun
  <2>2. Head(main.cmds).n \in Chans
    BY <2>1 DEF Cmd
  <2> DEFINE f == Min({g \in Files : fds[g] = 0})
  <2>3. f \in Files
    BY <2>1, FreeFile DEF ProcessInv
  <2>4. \/ Done("command", 0)
        \/ main' = [main EXCEPT !.at = "open", !.cmds = Tail(main.cmds), !.chan = Head(main.cmds).n, !.file = f]
    BY <1>7 DEF open_fun
  <2> HIDE DEF f
  <2>5. CASE Done("command", 0)
    BY <1>6, <2>1, <2>5
  <2>6. CASE main' = [main EXCEPT !.at = "open", !.cmds = Tail(main.cmds), !.chan = Head(main.cmds).n, !.file = f]
    <3>1. main' \in Main
      BY <1>0, <2>1, <2>2, <2>3, <2>6 DEF MainPlaces
    <3>2. main'.at = "open" /\ main'.chan = Head(main.cmds).n /\ main'.file = f
      BY <1>0, <2>6
    <3>. QED BY <2>2, <2>3, <3>1, <3>2 DEF MainKinds
  <2>. QED BY <2>4, <2>5, <2>6
<1>8. CASE close_fun
  <2>1. NextCommand("CLOSE") /\ Head(main.cmds) \in Cmd /\ Head(main.cmds).op = "CLOSE"
    BY <1>8, CommandHead DEF close_fun
  <2>2. Head(main.cmds).n \in Chans
    BY <2>1 DEF Cmd
  <2>3. Done("command", 0) \/ Done("close", Head(main.cmds).n)
    BY <1>8 DEF close_fun
  <2>4. Tail(main.cmds) \in Seq(Cmd)
    BY <2>1, CommandHead
  <2>5. CASE Done("close", Head(main.cmds).n)
    <3>1. main' = [main EXCEPT !.at = "close", !.cmds = Tail(main.cmds), !.chan = Head(main.cmds).n]
      BY <2>5 DEF Done
    <3>2. main' \in Main
      BY <1>0, <2>2, <2>4, <3>1 DEF MainPlaces
    <3>3. main'.at = "close" /\ main'.chan = Head(main.cmds).n
      BY <1>0, <3>1
    <3>. QED BY <2>2, <3>2, <3>3 DEF MainKinds
  <2>. QED BY <1>6, <2>3, <2>4, <2>5
<1>9. CASE frame_fun \/ run_fun
  <2>1. Done("command", 0) /\ (NextCommand("FRAME") \/ NextCommand("RUN"))
    BY <1>9 DEF frame_fun, run_fun
  <2>2. Tail(main.cmds) \in Seq(Cmd)
    BY <2>1, CommandHead
  <2>. QED BY <1>6, <2>1, <2>2
<1>10. CASE NextChannel
  <2> DEFINE due == {c \in main.todo : chfd[c] # 0 /\ chfd[c] \in main.ready}
  <2>1. CASE due = {}
    BY <1>0, <1>10, <2>1 DEF NextChannel, MainGoes, MainKinds, MainPlaces
  <2>2. CASE due # {}
    <3>1. Min(due) \in due /\ due \subseteq Chans
      <4>1. due \subseteq Chans /\ due \subseteq Nat
        BY <1>0
      <4>. QED BY <2>2, <4>1, LeastOf
    <3>2. /\ main' = [main EXCEPT !.at = "collect", !.chan = Min(due), !.todo = {d \in due : d > Min(due)}]
          /\ main.at = "channels"
      BY <1>10, <2>2 DEF NextChannel
    <3>3. {d \in due : d > Min(due)} \subseteq Chans /\ Min(due) \in Chans
      BY <3>1
    <3> HIDE DEF due
    <3>4. main' \in Main
      BY <1>0, <3>2, <3>3 DEF MainPlaces
    <3>5. main'.at = "collect" /\ main'.chan = Min(due) /\ main'.cmds = main.cmds
      BY <1>0, <3>2
    <3>. QED BY <1>0, <3>2, <3>3, <3>4, <3>5 DEF MainKinds
  <2>. QED BY <2>1, <2>2
<1>11. CASE collect_channel_data
  BY <1>0, <1>11 DEF collect_channel_data, MainGoes, MainKinds, MainPlaces
<1>12. CASE process_254
  BY <1>0, <1>1, <1>12, SMTT(30) DEF process_254, MainGoes, MainKinds, MainPlaces
<1>. QED BY <1>2, <1>3, <1>4, <1>5, <1>7, <1>8, <1>9, <1>10, <1>11, <1>12
     DEF Next, HostCall, HostStep, MainStep, AppCall, AppStep

-----------------------------------------------------------------------------
(* How threads of the application move.                                     *)

\* Thread a alone moves.
Moves(a, at, chan, n, crossed) ==
  /\ app' \in [Apps -> AppState] /\ \A b \in Apps \ {a} : app'[b] = app[b]
  /\ app'[a].at = at /\ app'[a].chan = chan /\ app'[a].n = n /\ app'[a].crossed = crossed

AppPlaces == {"absent", "idle", "frame"} \cup Writing \cup Reading

LEMMA GoesMoves ==
  ASSUME Kinds, NEW a \in Apps, NEW place \in AppPlaces, app' = [app EXCEPT ![a].at = place]
  PROVE  Moves(a, place, app[a].chan, app[a].n, app[a].crossed)
<1>1. app \in [Apps -> AppState]
  BY DEF Kinds, AppKinds
<1>2. PICK r \in AppState : r = app[a]
  BY <1>1
<1>3. PICK x : x = [r EXCEPT !.at = place]
  OBVIOUS
<1>4. x \in AppState /\ x.at = place /\ x.chan = r.chan /\ x.n = r.n /\ x.crossed = r.crossed
  <2>1. place \in {"absent", "idle", "frame"} \cup Writing \cup Reading
    BY DEF AppPlaces
  <2>. QED BY <1>3, <2>1 DEF AppState
<1>5. app' = [app EXCEPT ![a] = x]
  BY <1>1, <1>2, <1>3
<1>. QED BY <1>1, <1>2, <1>4, <1>5 DEF Moves

LEMMA FillMoves ==
  ASSUME Kinds, NEW a \in Apps, NEW place \in AppPlaces, NEW n \in Nat, app' = [app EXCEPT ![a].at = place, ![a].n = n]
  PROVE  Moves(a, place, app[a].chan, n, app[a].crossed)
<1>1. app \in [Apps -> AppState]
  BY DEF Kinds, AppKinds
<1>2. PICK r \in AppState : r = app[a]
  BY <1>1
<1>3. PICK x : x = [r EXCEPT !.at = place, !.n = n]
  OBVIOUS
<1>4. x \in AppState /\ x.at = place /\ x.chan = r.chan /\ x.n = n /\ x.crossed = r.crossed
  <2>1. place \in {"absent", "idle", "frame"} \cup Writing \cup Reading
    BY DEF AppPlaces
  <2>. QED BY <1>3, <2>1 DEF AppState
<1>5. app' = [app EXCEPT ![a] = x]
  BY <1>1, <1>2, <1>3
<1>. QED BY <1>1, <1>2, <1>4, <1>5 DEF Moves

LEMMA EndsMoves ==
  ASSUME Kinds, NEW a \in Apps, AppEnds(a)
  PROVE  Moves(a, "idle", -1, 0, FALSE)
<1>1. app \in [Apps -> AppState]
  BY DEF Kinds, AppKinds
<1>2. [at |-> "idle", chan |-> -1, delay |-> "none", n |-> 0, crossed |-> FALSE] \in AppState
  BY DEF AppState
<1>. QED BY <1>1, <1>2 DEF AppEnds, Moves

LEMMA BeginsMoves ==
  ASSUME Kinds, NEW a \in Apps, NEW place \in AppPlaces, NEW c \in AppChans, NEW d \in {"none", "timed", "forever"},
         AppBegins(a, place, c, d)
  PROVE  Moves(a, place, c, 0, ~Settled(c))
<1>1. app \in [Apps -> AppState]
  BY DEF Kinds, AppKinds
<1>2. PICK x \in BOOLEAN : x = ~Settled(c)
  OBVIOUS
<1>3. [at |-> place, chan |-> c, delay |-> d, n |-> 0, crossed |-> x] \in AppState
  BY DEF AppState, AppPlaces
<1>. QED BY <1>1, <1>2, <1>3 DEF AppBegins, Moves

\* Calls on a channel are crossed.
LEMMA CrossMoves ==
  ASSUME Kinds, NEW c \in Chans, Cross(c)
  PROVE  /\ app' \in [Apps -> AppState]
         /\ \A a \in Apps : /\ app'[a].at = app[a].at /\ app'[a].chan = app[a].chan /\ app'[a].n = app[a].n
                            /\ app[a].crossed => app'[a].crossed
                            /\ app[a].chan = c => app'[a].crossed
<1>1. app \in [Apps -> AppState]
  BY DEF Kinds, AppKinds
<1>2. ASSUME NEW r \in AppState, NEW x, x = [r EXCEPT !.crossed = TRUE]
      PROVE  x \in AppState /\ x.at = r.at /\ x.chan = r.chan /\ x.n = r.n /\ x.crossed = TRUE
  BY <1>2 DEF AppState
<1>3. ASSUME NEW a \in Apps
      PROVE  /\ app'[a] \in AppState /\ app'[a].at = app[a].at /\ app'[a].chan = app[a].chan /\ app'[a].n = app[a].n
             /\ app[a].crossed => app'[a].crossed
             /\ app[a].chan = c => app'[a].crossed
  <2>1. app[a] \in AppState
    BY <1>1
  <2>2. CASE app[a].chan = c
    <3>1. app'[a] = [app[a] EXCEPT !.crossed = TRUE]
      BY <2>2 DEF Cross
    <3>. QED BY <1>2, <2>1, <3>1
  <2>3. CASE app[a].chan # c
    BY <2>1, <2>3 DEF Cross
  <2>. QED BY <2>2, <2>3
<1>4. app' = [a \in Apps |-> app'[a]]
  BY DEF Cross
<1>. QED BY <1>3, <1>4

\* Threads that wait are woken.
LEMMA WakeMoves ==
  ASSUME Kinds, NEW c, NEW n, Wake(c, n)
  PROVE  /\ app' \in [Apps -> AppState]
         /\ \A a \in Apps : /\ app'[a].chan = app[a].chan /\ app'[a].n = app[a].n /\ app'[a].crossed = app[a].crossed
                            /\ app'[a].at = app[a].at \/ (app[a].at = "wait" /\ app'[a].at = "woken")
<1>1. app \in [Apps -> AppState]
  BY DEF Kinds, AppKinds
<1>2. ASSUME NEW r \in AppState, NEW x, x = [r EXCEPT !.at = "woken"]
      PROVE  x \in AppState /\ x.at = "woken" /\ x.chan = r.chan /\ x.n = r.n /\ x.crossed = r.crossed
  BY <1>2 DEF AppState, Reading
<1>3. ASSUME NEW a \in Apps
      PROVE  /\ app'[a] \in AppState /\ app'[a].chan = app[a].chan /\ app'[a].n = app[a].n
             /\ app'[a].crossed = app[a].crossed
             /\ app'[a].at = app[a].at \/ (app[a].at = "wait" /\ app'[a].at = "woken")
  <2>1. app[a] \in AppState
    BY <1>1
  <2>2. CASE n > 0 /\ app[a].at = "wait" /\ app[a].chan = c
    <3>1. app'[a] = [app[a] EXCEPT !.at = "woken"]
      BY <2>2 DEF Wake
    <3>. QED BY <1>2, <2>1, <2>2, <3>1
  <2>3. CASE ~(n > 0 /\ app[a].at = "wait" /\ app[a].chan = c)
    BY <2>1, <2>3 DEF Wake
  <2>. QED BY <2>2, <2>3
<1>4. app' = [a \in Apps |-> app'[a]]
  BY DEF Wake
<1>. QED BY <1>3, <1>4

\* What FindLine does: a line is found, or there is none.
Finds(a, c, n) ==
  /\ n \in 1 .. Len(cbuf[c]) /\ n = LineLen(c)
  /\ lock' = [lock EXCEPT ![c] = a]
  /\ told' = [told EXCEPT ![c] = @ \o SubSeq(cbuf[c], 1, n)]
  /\ cbuf' = [cbuf EXCEPT ![c] = IF n >= fill[c] THEN SubSeq(@, 1, n - 1) ELSE SubSeq(@, n + 1, Len(@))]
  /\ Moves(a, "fill", c, IF n >= fill[c] THEN 0 ELSE n, app[a].crossed)

FindsNone(a, c) ==
  /\ LineLen(c) = 0 /\ UNCHANGED <<lock, told, cbuf>>
  /\ Moves(a, "idle", -1, 0, FALSE) \/ Moves(a, "wait", c, app[a].n, app[a].crossed)

LEMMA FindLineMoves ==
  ASSUME Kinds, NEW a \in Apps, FindLine(a)
  PROVE  LET c == app[a].chan
         IN  /\ app[a].at \in {"readln", "woken"} /\ c \in AppChans /\ c \in Chans /\ lock[c] = None
             /\ Finds(a, c, LineLen(c)) \/ FindsNone(a, c)
             /\ UNCHANGED <<fill, chfd, fds, conns, main, host, dead>>
<1> DEFINE c == app[a].chan
<1>1. app[a].at \in {"readln", "woken"} /\ lock[c] = None /\ UNCHANGED <<fill, chfd, fds, conns, main, host, dead>>
  BY DEF FindLine, sockVars
<1>2. c \in AppChans /\ c \in Chans
  BY <1>1, AppHas DEF Reading
<1>3. LineLen(c) \in 0 .. Len(cbuf[c]) /\ fill[c] \in Int /\ Len(cbuf[c]) \in Nat
  BY <1>2, LineLenIs, LenProperties DEF Kinds, TextKinds
<1>4. PICK n \in Nat : n = LineLen(c)
  BY <1>3
<1>5. CASE n > 0
  <2>1. app' = [app EXCEPT ![a].at = "fill", ![a].n = IF n >= fill[c] THEN 0 ELSE n]
    BY <1>4, <1>5 DEF FindLine
  <2>2. "fill" \in AppPlaces /\ (IF n >= fill[c] THEN 0 ELSE n) \in Nat
    BY DEF AppPlaces, Reading
  <2>3. Moves(a, "fill", c, IF n >= fill[c] THEN 0 ELSE n, app[a].crossed)
    BY <2>1, <2>2, FillMoves
  <2>4. /\ lock' = [lock EXCEPT ![c] = a]
        /\ told' = [told EXCEPT ![c] = @ \o SubSeq(cbuf[c], 1, n)]
        /\ cbuf' = [cbuf EXCEPT ![c] = IF n >= fill[c] THEN SubSeq(@, 1, n - 1) ELSE SubSeq(@, n + 1, Len(@))]
    BY <1>4, <1>5 DEF FindLine, Take
  <2>. QED BY <1>1, <1>2, <1>3, <1>4, <1>5, <2>3, <2>4 DEF Finds
<1>6. CASE n = 0
  <2>1. UNCHANGED <<lock, told, cbuf>> /\ (AppEnds(a) \/ AppGoes(a, "wait"))
    BY <1>4, <1>6 DEF FindLine
  <2>2. AppGoes(a, "wait") => Moves(a, "wait", c, app[a].n, app[a].crossed)
    BY GoesMoves DEF AppGoes, AppPlaces, Reading
  <2>. QED BY <1>1, <1>2, <1>4, <1>6, <2>1, <2>2, EndsMoves DEF FindsNone
<1>. QED BY <1>4, <1>5, <1>6

LEMMA WriteBeginsMoves ==
  ASSUME Kinds, ProcessInv, NEW a \in Apps, WriteBegins(a)
  PROVE  LET c == app[a].chan
             k == ConnOf(c)
         IN  /\ app[a].at \in {"text", "newline"} /\ c \in AppChans /\ c \in Chans
             /\ UNCHANGED <<fill, chfd, fds, conns, main, host, told, cbuf>>
             /\ \/ /\ k \in 1 .. Len(conns) /\ UNCHANGED <<lock, dead>>
                   /\ Moves(a, IF app[a].at = "text" THEN "write text" ELSE "write newline", c, k, app[a].crossed)
                \/ k = 0 /\ app[a].at = "text" /\ Die("assert", a) /\ UNCHANGED <<app, lock>>
                \/ /\ k = 0 /\ app[a].at = "newline" /\ lock' = [lock EXCEPT ![c] = None] /\ UNCHANGED dead
                   /\ Moves(a, "idle", -1, 0, FALSE)
<1> DEFINE c == app[a].chan
           k == ConnOf(c)
<1>1. app[a].at \in {"text", "newline"} /\ UNCHANGED <<fill, chfd, fds, conns, main, host, told, cbuf>>
  BY DEF WriteBegins, sockVars
<1>2. c \in AppChans /\ c \in Chans
  BY <1>1, AppHas DEF Writing
<1>3. k \in 0 .. Len(conns)
  <2>1. chfd[c] # 0 => chfd[c] \in Files /\ fds[chfd[c]] \in Nat /\ fds[chfd[c]] <= Len(conns)
    BY <1>2 DEF Kinds, FileKinds, ProcessInv, FileInv
  <2>. QED BY <2>1, ConnsAre DEF ConnOf
<1>4. CASE k # 0
  <2>5. UNCHANGED <<lock, dead>>
    BY <1>4 DEF WriteBegins
  <2>1. PICK place \in AppPlaces : place = IF app[a].at = "text" THEN "write text" ELSE "write newline"
    BY DEF AppPlaces, Writing
  <2>2. app' = [app EXCEPT ![a].at = place, ![a].n = k]
    BY <1>4, <2>1 DEF WriteBegins
  <2> HIDE DEF k
  <2>0. k \in Nat
    BY <1>3, ConnsAre
  <2>3. Moves(a, place, app[a].chan, k, app[a].crossed)
    BY <2>0, <2>1, <2>2, FillMoves
  <2>4. k \in 1 .. Len(conns)
    BY <1>3, <1>4, ConnsAre
  <2>. QED BY <1>1, <1>2, <2>1, <2>3, <2>4, <2>5 DEF k
<1>5. CASE k = 0 /\ app[a].at = "text"
  BY <1>1, <1>2, <1>5 DEF WriteBegins
<1>6. CASE k = 0 /\ app[a].at = "newline"
  BY <1>1, <1>2, <1>6, EndsMoves DEF WriteBegins, Unlocked
<1>. QED BY <1>1, <1>4, <1>5, <1>6

LEMMA WriteEndsMoves ==
  ASSUME Kinds, NEW a \in Apps, WriteEnds(a)
  PROVE  LET c == app[a].chan
             k == app[a].n
         IN  /\ app[a].at \in {"write text", "write newline"} /\ c \in AppChans /\ c \in Chans
             /\ UNCHANGED <<fill, chfd, fds, main, host, told, cbuf>>
             /\ \/ ~conns[k].open /\ Die("pipe", a) /\ UNCHANGED <<app, lock>>
                \/ /\ conns[k].open /\ app[a].at = "write text" /\ UNCHANGED <<lock, dead>>
                   /\ Moves(a, "newline", c, k, app[a].crossed)
                \/ /\ conns[k].open /\ app[a].at = "write newline" /\ lock' = [lock EXCEPT ![c] = None]
                   /\ UNCHANGED dead /\ Moves(a, "idle", -1, 0, FALSE)
<1> DEFINE c == app[a].chan
           k == app[a].n
<1>1. app[a].at \in {"write text", "write newline"} /\ UNCHANGED <<fill, chfd, fds, main, host, told, cbuf>>
  BY DEF WriteEnds
<1>2. c \in AppChans /\ c \in Chans
  BY <1>1, AppHas DEF Writing
<1>3. CASE ~conns[k].open
  BY <1>1, <1>2, <1>3 DEF WriteEnds
<1>4. CASE conns[k].open /\ app[a].at = "write text"
  <2>1. app' = [app EXCEPT ![a].at = "newline"] /\ UNCHANGED <<lock, dead>>
    BY <1>4 DEF WriteEnds, AppGoes
  <2>2. "newline" \in AppPlaces
    BY DEF AppPlaces, Writing
  <2>3. Moves(a, "newline", c, k, app[a].crossed)
    BY <2>1, <2>2, GoesMoves
  <2>. QED BY <1>1, <1>2, <1>4, <2>1, <2>3
<1>5. CASE conns[k].open /\ app[a].at = "write newline"
  <2>1. AppEnds(a) /\ lock' = [lock EXCEPT ![c] = None] /\ UNCHANGED dead
    BY <1>5 DEF WriteEnds, Unlocked
  <2>. QED BY <1>1, <1>2, <1>5, <2>1, EndsMoves
<1>. QED BY <1>1, <1>3, <1>4, <1>5

LEMMA SetFillMoves ==
  ASSUME Kinds, NEW a \in Apps, SetFill(a)
  PROVE  LET c == app[a].chan
             n == app[a].n
         IN  /\ app[a].at = "fill" /\ c \in AppChans /\ c \in Chans /\ n \in Nat
             /\ UNCHANGED <<chfd, fds, conns, main, host, told, cbuf>>
             /\ fill' = [fill EXCEPT ![c] = IF n = 0 THEN 0 ELSE @ - n]
             /\ (fill'[c] < 0 /\ Die("overrun", a)) \/ (~(fill'[c] < 0) /\ UNCHANGED dead)
             /\ lock' = [lock EXCEPT ![c] = None] /\ Moves(a, "idle", -1, 0, FALSE)
<1>1. app[a].at = "fill" /\ app[a].chan \in AppChans /\ app[a].chan \in Chans /\ app[a].n \in Nat
  BY AppHas DEF SetFill, Reading
<1>. QED BY <1>1, EndsMoves DEF SetFill, sockVars

-----------------------------------------------------------------------------
(* How texts and locks of a channel change.                                 *)

\* Channel c has a new text, count, lines and holder; the others stay.
Texts(c, text, count, lines, holder) ==
  /\ TextKinds'
  /\ \A d \in Chans \ {c} : cbuf'[d] = cbuf[d] /\ fill'[d] = fill[d] /\ told'[d] = told[d] /\ lock'[d] = lock[d]
  /\ cbuf'[c] = text /\ fill'[c] = count /\ told'[c] = lines /\ lock'[c] = holder

LEMMA TextIs ==
  ASSUME Kinds, NEW c \in Chans
  PROVE  /\ cbuf[c] \in Seq(Char) /\ Len(cbuf[c]) \in Nat /\ fill[c] \in Int
         /\ told[c] \in Seq(Char) /\ Len(told[c]) \in Nat
         /\ lock[c] \in Apps \cup {"main", None}
BY LenProperties DEF Kinds, TextKinds

LEMMA SameTexts ==
  ASSUME Kinds, UNCHANGED <<cbuf, fill, told, lock>>
  PROVE  /\ TextKinds' /\ \A d \in Chans : cbuf'[d] = cbuf[d] /\ fill'[d] = fill[d] /\ told'[d] = told[d] /\ lock'[d] = lock[d]
         /\ \A c \in Chans : Texts(c, cbuf[c], fill[c], told[c], lock[c])
BY DEF Kinds, TextKinds, Texts

LEMMA LockTexts ==
  ASSUME Kinds, NEW c \in Chans, NEW h \in Apps \cup {"main", None},
         lock' = [lock EXCEPT ![c] = h], UNCHANGED <<cbuf, fill, told>>
  PROVE  Texts(c, cbuf[c], fill[c], told[c], h)
BY DEF Kinds, TextKinds, Texts

LEMMA OpenTexts ==
  ASSUME Kinds, OpenDone
  PROVE  main.chan \in Chans /\ Texts(main.chan, cbuf[main.chan], 0, told[main.chan], lock[main.chan])
<1>1. main.chan \in Chans
  BY DEF Kinds, MainKinds, OpenDone
<1>2. fill' = [fill EXCEPT ![main.chan] = 0] /\ UNCHANGED <<cbuf, told, lock>>
  BY DEF OpenDone, ForgetText
<1>. QED BY <1>1, <1>2 DEF Kinds, TextKinds, Texts

LEMMA NextTexts ==
  ASSUME Kinds, NextChannel
  PROVE  /\ main.at = "channels" /\ UNCHANGED <<fds, chfd, conns, app, host, dead, port, replies>>
         /\ \/ main'.at = "select" /\ main'.cmds = main.cmds /\ UNCHANGED <<cbuf, fill, told, lock>>
            \/ /\ main'.at = "collect" /\ main'.cmds = main.cmds /\ main'.chan \in Chans /\ chfd[main'.chan] # 0
               /\ lock[main'.chan] = None
               /\ Texts(main'.chan, cbuf[main'.chan], fill[main'.chan], told[main'.chan], "main")
<1> DEFINE due == {c \in main.todo : chfd[c] # 0 /\ chfd[c] \in main.ready}
<1>0. /\ main \in [at : MainPlaces, cmds : Seq(Cmd), ready : SUBSET Files, todo : SUBSET Chans, chan : Nat, file : Nat]
      /\ Chans \subseteq Nat
  BY PlugAssumption DEF Kinds, MainKinds
<1>1. main.at = "channels" /\ UNCHANGED <<fds, chfd, conns, app, host, dead, port, replies, cbuf, fill, told>>
  BY DEF NextChannel, sockVars
<1>2. CASE due = {}
  <2>1. main' = [main EXCEPT !.at = "select"] /\ UNCHANGED lock
    BY <1>2 DEF NextChannel, MainGoes
  <2>2. main'.at = "select" /\ main'.cmds = main.cmds
    BY <1>0, <2>1
  <2>. QED BY <1>1, <2>1, <2>2
<1>3. CASE due # {}
  <2>1. PICK c \in due : c = Min(due)
    <3>1. due \subseteq Nat
      BY <1>0
    <3>. QED BY <1>3, <3>1, LeastOf
  <2>2. /\ lock[c] = None /\ lock' = [lock EXCEPT ![c] = "main"]
        /\ main' = [main EXCEPT !.at = "collect", !.chan = c, !.todo = {d \in due : d > c}]
    BY <1>3, <2>1 DEF NextChannel
  <2>3. c \in Chans /\ chfd[c] # 0
    BY <1>0
  <2> HIDE DEF due
  <2>4. main'.at = "collect" /\ main'.chan = c /\ main'.cmds = main.cmds
    BY <1>0, <2>2
  <2>5. Texts(c, cbuf[c], fill[c], told[c], "main")
    BY <1>1, <2>2, <2>3, LockTexts
  <2>. QED BY <1>1, <2>2, <2>3, <2>4, <2>5
<1>. QED BY <1>2, <1>3

\* What is collected comes after the count, which is that of the whole text or 0.
LEMMA CollectTexts ==
  ASSUME Kinds, ProcessInv, Alive, collect_channel_data
  PROVE  LET c == main.chan
             k == ConnOf(c)
             d == conns[k].down
             n == Min({Len(d), BufMax - fill[c]})
             t == IF n = 0 THEN cbuf[c] ELSE SubSeq(cbuf[c], 1, fill[c]) \o SubSeq(d, 1, n)
         IN  /\ lock[c] = "main" /\ fill[c] \in {0, Len(cbuf[c])}
             /\ Texts(c, t, fill[c] + n, told[c], None)
             /\ n # 0 => Len(t) = fill[c] + n
<1> DEFINE c == main.chan
           k == ConnOf(c)
           d == conns[k].down
           n == Min({Len(d), BufMax - fill[c]})
           t == IF n = 0 THEN cbuf[c] ELSE SubSeq(cbuf[c], 1, fill[c]) \o SubSeq(d, 1, n)
<1>1. c \in Chans /\ d \in Seq(Char) /\ n \in 0 .. Len(d)
  BY CollectConns
<1>2. lock[c] = "main" /\ fill[c] \in {0, Len(cbuf[c])}
  <2>1. lock[c] = "main"
    BY DEF ProcessInv, LockInv, collect_channel_data
  <2>2. ~Filled(c)
    BY <2>1, PlugAssumption DEF Filled
  <2>. QED BY <1>1, <2>1, <2>2 DEF ProcessInv, BufInv
<1>3. /\ cbuf' = IF n = 0 THEN cbuf ELSE [cbuf EXCEPT ![c] = t] 
      /\ fill' = [fill EXCEPT ![c] = fill[c] + n] /\ lock' = [lock EXCEPT ![c] = None] /\ told' = told
  BY <1>1, TextIs DEF collect_channel_data, Kinds, TextKinds
<1>4. cbuf[c] \in Seq(Char) /\ Len(cbuf[c]) \in Nat /\ fill[c] \in 0 .. Len(cbuf[c])
  BY <1>1, <1>2, TextIs
<1> HIDE DEF d, n
<1>5. t \in Seq(Char) /\ (n # 0 => Len(t) = fill[c] + n)
  <2>1. SubSeq(cbuf[c], 1, fill[c]) \in Seq(Char) /\ Len(SubSeq(cbuf[c], 1, fill[c])) = fill[c]
    BY <1>4, PartKinds
  <2>2. SubSeq(d, 1, n) \in Seq(Char) /\ Len(SubSeq(d, 1, n)) = n
    BY <1>1, PartKinds
  <2>. QED BY <1>4, <2>1, <2>2, ConcatProperties
<1> HIDE DEF t
<1>6. n \in Int
  BY <1>1, LenProperties
<1>7. Texts(c, t, fill[c] + n, told[c], None)
  <2>1. CASE n = 0
    <3>1. t = cbuf[c]
      BY <2>1 DEF t
    <3>. QED BY <1>1, <1>3, <1>4, <1>6, <2>1, <3>1 DEF Texts, Kinds, TextKinds
  <2>2. CASE n # 0
    BY <1>1, <1>3, <1>4, <1>5, <1>6, <2>2 DEF Texts, Kinds, TextKinds
  <2>. QED BY <2>1, <2>2
<1>. QED BY <1>1, <1>2, <1>5, <1>7 DEF t, n, d

LEMMA MonitorTexts ==
  ASSUME Kinds, ProcessInv, process_254
  PROVE  LET n == LineLen(254)
             s == cbuf[254]
         IN  /\ main.at = "monitor" /\ 254 \in Chans
             /\ \/ /\ n = 0 /\ main' = [main EXCEPT !.at = "channels"]
                   /\ UNCHANGED <<cbuf, fill, told, lock, conns, dead>>
                \/ /\ n # 0 /\ dead' = [how |-> "pipe", crossed |-> TRUE]
                   /\ UNCHANGED <<cbuf, fill, told, lock, conns, main>>
                \/ /\ n \in 1 .. Len(s) /\ UNCHANGED <<main, dead>>
                   /\ Texts(254, SubSeq(s, n + 1, Len(s)), fill[254] - n, told[254] \o SubSeq(s, 1, n), lock[254])
<1> DEFINE n == LineLen(254)
           s == cbuf[254]
<1>1. main.at = "monitor" /\ 254 \in Chans /\ UNCHANGED lock
  BY MonitorConns DEF process_254
<1>2. n \in 0 .. Len(s) /\ s \in Seq(Char) /\ Len(s) \in Nat /\ told[254] \in Seq(Char) /\ fill[254] \in Int
  BY <1>1, LineLenIs, TextIs
<1>3. \/ /\ n = 0 /\ main' = [main EXCEPT !.at = "channels"]
         /\ UNCHANGED <<cbuf, fill, told, conns, dead>>
      \/ /\ n # 0 /\ dead' = [how |-> "pipe", crossed |-> TRUE]
         /\ UNCHANGED <<cbuf, fill, told, conns, main>>
      \/ /\ n # 0 /\ UNCHANGED <<main, dead>>
         /\ told' = [told EXCEPT ![254] = told[254] \o SubSeq(s, 1, n)]
         /\ cbuf' = [cbuf EXCEPT ![254] = SubSeq(s, n + 1, Len(s))]
         /\ fill' = [fill EXCEPT ![254] = fill[254] - n]
  <2>1. CASE n = 0
    BY <2>1 DEF process_254, MainGoes
  <2>2. CASE n # 0 /\ ~conns[ConnOf(254)].open
    BY <2>2 DEF process_254
  <2>3. CASE n # 0 /\ conns[ConnOf(254)].open
    <3>1. /\ UNCHANGED <<main, dead>> /\ Take(254, n)
          /\ cbuf' = [cbuf EXCEPT ![254] = SubSeq(s, n + 1, Len(s))]
          /\ fill' = [fill EXCEPT ![254] = fill[254] - n]
      BY <2>3 DEF process_254
    <3>. QED BY <2>3, <3>1 DEF Take
  <2>. QED BY <2>1, <2>2, <2>3
<1> HIDE DEF n
<1>4. ASSUME /\ n # 0 /\ UNCHANGED <<main, dead>>
             /\ told' = [told EXCEPT ![254] = told[254] \o SubSeq(s, 1, n)]
             /\ cbuf' = [cbuf EXCEPT ![254] = SubSeq(s, n + 1, Len(s))]
             /\ fill' = [fill EXCEPT ![254] = fill[254] - n]
      PROVE  Texts(254, SubSeq(s, n + 1, Len(s)), fill[254] - n, told[254] \o SubSeq(s, 1, n), lock[254])
  <2>1. SubSeq(s, n + 1, Len(s)) \in Seq(Char) /\ SubSeq(s, 1, n) \in Seq(Char)
    BY <1>2, PartKinds
  <2>2. told[254] \o SubSeq(s, 1, n) \in Seq(Char)
    BY <1>2, <2>1, ConcatProperties
  <2>3. fill[254] - n \in Int
    BY <1>2
  <2> DEFINE t == SubSeq(s, n + 1, Len(s))
             u == told[254] \o SubSeq(s, 1, n)
             m == fill[254] - n
  <2>4. t \in Seq(Char) /\ u \in Seq(Char) /\ m \in Int
    BY <2>1, <2>2, <2>3
  <2>5. told' = [told EXCEPT ![254] = u] /\ cbuf' = [cbuf EXCEPT ![254] = t] /\ fill' = [fill EXCEPT ![254] = m]
    BY <1>4
  <2> HIDE DEF t, u, m
  <2>6. Texts(254, t, m, u, lock[254])
    BY <1>1, <2>4, <2>5 DEF Texts, Kinds, TextKinds
  <2>. QED BY <2>6 DEF t, u, m
<1>5. n # 0 => n \in 1 .. Len(s)
  BY <1>2
<1>6. \/ /\ n = 0 /\ main' = [main EXCEPT !.at = "channels"]
         /\ UNCHANGED <<cbuf, fill, told, lock, conns, dead>>
      \/ /\ n # 0 /\ dead' = [how |-> "pipe", crossed |-> TRUE]
         /\ UNCHANGED <<cbuf, fill, told, lock, conns, main>>
      \/ /\ n \in 1 .. Len(s) /\ UNCHANGED <<main, dead>>
         /\ Texts(254, SubSeq(s, n + 1, Len(s)), fill[254] - n, told[254] \o SubSeq(s, 1, n), lock[254])
  <2> DEFINE Takes == Texts(254, SubSeq(s, n + 1, Len(s)), fill[254] - n, told[254] \o SubSeq(s, 1, n), lock[254])
  <2>1. ASSUME /\ n # 0 /\ UNCHANGED <<main, dead>>
               /\ told' = [told EXCEPT ![254] = told[254] \o SubSeq(s, 1, n)]
               /\ cbuf' = [cbuf EXCEPT ![254] = SubSeq(s, n + 1, Len(s))]
               /\ fill' = [fill EXCEPT ![254] = fill[254] - n]
        PROVE  n \in 1 .. Len(s) /\ UNCHANGED <<main, dead>> /\ Takes
    BY <2>1, <1>4, <1>5
  <2> HIDE DEF Takes
  <2>2. ASSUME n = 0 /\ main' = [main EXCEPT !.at = "channels"] /\ UNCHANGED <<cbuf, fill, told, conns, dead>>
        PROVE  UNCHANGED <<cbuf, fill, told, lock, conns, dead>>
    BY <1>1, <2>2
  <2>3. ASSUME UNCHANGED <<cbuf, fill, told, conns, main>>
        PROVE  UNCHANGED <<cbuf, fill, told, lock, conns, main>>
    BY <1>1, <2>3
  <2>4. \/ n = 0 /\ main' = [main EXCEPT !.at = "channels"] /\ UNCHANGED <<cbuf, fill, told, lock, conns, dead>>
        \/ /\ n # 0 /\ dead' = [how |-> "pipe", crossed |-> TRUE]
           /\ UNCHANGED <<cbuf, fill, told, lock, conns, main>>
        \/ n \in 1 .. Len(s) /\ UNCHANGED <<main, dead>> /\ Takes
    BY <1>3, <2>1, <2>2, <2>3
  <2>. QED BY <2>4 DEF Takes
<1>. QED BY <1>1, <1>6 DEF n

LEMMA FindTexts ==
  ASSUME Kinds, NEW a \in Apps, NEW c \in Chans, NEW n, Finds(a, c, n), UNCHANGED fill
  PROVE  LET s == cbuf[c]
         IN Texts(c, IF n >= fill[c] THEN SubSeq(s, 1, n - 1) ELSE SubSeq(s, n + 1, Len(s)), fill[c],
               told[c] \o SubSeq(s, 1, n), a)
<1> DEFINE s == cbuf[c]
           t == IF n >= fill[c] THEN SubSeq(s, 1, n - 1) ELSE SubSeq(s, n + 1, Len(s))
           u == told[c] \o SubSeq(s, 1, n)
<1>1. n \in 1 .. Len(s) /\ s \in Seq(Char) /\ Len(s) \in Nat /\ told[c] \in Seq(Char)
  BY TextIs DEF Finds
<1>2. lock' = [lock EXCEPT ![c] = a] /\ told' = [told EXCEPT ![c] = u] /\ cbuf' = [cbuf EXCEPT ![c] = t]
  BY DEF Finds, Kinds, TextKinds
<1>3. SubSeq(s, n + 1, Len(s)) \in Seq(Char) /\ SubSeq(s, 1, n) \in Seq(Char)
  BY <1>1, PartKinds
<1>4. SubSeq(s, 1, n - 1) \in Seq(Char)
  <2>1. n - 1 \in 0 .. Len(s)
    BY <1>1
  <2>. QED BY <1>1, <2>1, PartKinds
<1>5. t \in Seq(Char) /\ u \in Seq(Char)
  BY <1>1, <1>3, <1>4, ConcatProperties
<1> HIDE DEF t, u
<1>6. Texts(c, t, fill[c], u, a)
  BY <1>2, <1>5 DEF Texts, Kinds, TextKinds
<1>. QED BY <1>6 DEF t, u

LEMMA SetFillTexts ==
  ASSUME Kinds, NEW a \in Apps, SetFill(a)
  PROVE  LET c == app[a].chan
             n == app[a].n
         IN  Texts(c, cbuf[c], IF n = 0 THEN 0 ELSE fill[c] - n, told[c], None)
<1> DEFINE c == app[a].chan
           n == app[a].n
<1>1. /\ c \in Chans /\ n \in Nat /\ UNCHANGED <<cbuf, told>> /\ lock' = [lock EXCEPT ![c] = None]
      /\ fill' = [fill EXCEPT ![c] = IF n = 0 THEN 0 ELSE @ - n]
  BY SetFillMoves
<1> HIDE DEF c, n
<1>2. (IF n = 0 THEN 0 ELSE fill[c] - n) \in Int
  BY <1>1, TextIs
<1>3. Texts(c, cbuf[c], IF n = 0 THEN 0 ELSE fill[c] - n, told[c], None)
  BY <1>1, <1>2 DEF Texts, Kinds, TextKinds
<1>. QED BY <1>3 DEF c, n

LEMMA TextStep ==
  ASSUME Kinds, ProcessInv, Next
  PROVE  TextKinds'
<1>1. ASSUME UNCHANGED <<cbuf, fill, told, lock>> PROVE TextKinds'
  BY <1>1, SameTexts
<1>2. ASSUME NEW c, NEW t, NEW n, NEW s, NEW h, Texts(c, t, n, s, h) PROVE TextKinds'
  BY <1>2 DEF Texts
<1>3. ASSUME \/ connect_plug \/ Accept \/ CloseFile \/ FrameMade \/ run_program_plug \/ Begin \/ Select
             \/ process_port \/ open_fun \/ close_fun \/ CloseDone \/ frame_fun \/ run_fun \/ PortDone
             \/ \E c \in Chans : channel_open_plug(c)
             \/ \E k \in DOMAIN conns : channel_close_plug(k) \/ writeln_plug(k) \/ readbuf_plug(k)
             \/ \E f \in Frames : make_frame_plug(f) \/ delete_frame_plug(f)
             \/ \E a \in Apps : TimesOut(a) \/ ise_plug_frame_unlock(a)
             \/ \E a \in Apps, c \in AppChans, d \in Delays : ise_plug_readln(a, c, d)
             \/ \E a \in Apps, f \in Frames : ise_plug_frame_lock(a, f)
      PROVE  TextKinds'
  BY <1>1, <1>3 DEF connect_plug, Accept, CloseFile, FrameMade, run_program_plug,
       channel_open_plug, channel_close_plug, writeln_plug, readbuf_plug, make_frame_plug,
       delete_frame_plug, Begin, Select, process_port, open_fun, close_fun, CloseDone, frame_fun,
       run_fun, PortDone, TimesOut, ise_plug_frame_unlock, ise_plug_readln, ise_plug_frame_lock,
       sockVars, chanVars, frameVars
<1>4. CASE OpenDone
  BY <1>2, <1>4, OpenTexts
<1>5. CASE NextChannel
  BY <1>1, <1>2, <1>5, NextTexts
<1>6. CASE collect_channel_data
  <2>1. Alive
    BY DEF Next
  <2>. QED BY <1>2, <1>6, <2>1, CollectTexts
<1>7. CASE process_254
  BY <1>1, <1>2, <1>7, MonitorTexts
<1>8. ASSUME NEW a \in Apps, FindLine(a) PROVE TextKinds'
  <2>1. PICK c \in Chans : (Finds(a, c, LineLen(c)) \/ FindsNone(a, c)) /\ UNCHANGED fill
    BY <1>8, FindLineMoves
  <2>2. CASE Finds(a, c, LineLen(c))
    BY <1>2, <2>1, <2>2, FindTexts
  <2>. QED BY <1>1, <2>1, <2>2 DEF FindsNone
<1>9. ASSUME NEW a \in Apps, SetFill(a) PROVE TextKinds'
  BY <1>2, <1>9, SetFillTexts
<1>10. ASSUME NEW a \in Apps, NEW c \in Chans, lock' = lock \/ lock' = [lock EXCEPT ![c] = None], UNCHANGED <<cbuf, fill, told>>
       PROVE  TextKinds'
  BY <1>1, <1>2, <1>10, LockTexts
<1>11. ASSUME NEW a \in Apps, WriteBegins(a) PROVE TextKinds'
  BY <1>10, <1>11, WriteBeginsMoves
<1>12. ASSUME NEW a \in Apps, WriteEnds(a) PROVE TextKinds'
  BY <1>10, <1>12, WriteEndsMoves
<1>13. ASSUME NEW a \in Apps, NEW c \in AppChans, ise_plug_writeln(a, c) PROVE TextKinds'
  BY <1>2, <1>13, LockTexts DEF ise_plug_writeln, AppChans
<1>. QED BY <1>3, <1>4, <1>5, <1>6, <1>7, <1>8, <1>9, <1>11, <1>12, <1>13
     DEF Next, HostCall, HostStep, MainStep, AppCall, AppStep

\* Threads keep their channel, but for those that wait and are woken.
SamePlaces ==
  /\ app' \in [Apps -> AppState]
  /\ \A a \in Apps : /\ app'[a].chan = app[a].chan /\ app'[a].n = app[a].n
                     /\ app[a].crossed => app'[a].crossed
                     /\ app'[a].at = app[a].at \/ (app[a].at \in {"wait", "woken"} /\ app'[a].at \in {"wait", "woken"})

LEMMA AppStepKinds ==
  ASSUME Kinds, ProcessInv, Next
  PROVE  AppKinds'
<1>0. app \in [Apps -> AppState] /\ \A a \in Apps : app[a].at \in Writing \cup Reading <=> app[a].chan # -1
  BY DEF Kinds, AppKinds
<1>1. ASSUME UNCHANGED app PROVE AppKinds'
  BY <1>0, <1>1 DEF AppKinds
<1>2. ASSUME NEW a \in Apps, NEW place, NEW c, NEW n, NEW x, Moves(a, place, c, n, x),
             place \in Writing \cup Reading <=> c # -1
      PROVE  AppKinds'
  <2>1. app' \in [Apps -> AppState] /\ \A b \in Apps \ {a} : app'[b] = app[b]
    BY <1>2 DEF Moves
  <2>2. app'[a].at \in Writing \cup Reading <=> app'[a].chan # -1
    BY <1>2 DEF Moves
  <2>. QED BY <1>0, <2>1, <2>2 DEF AppKinds
<1>3. ASSUME SamePlaces PROVE AppKinds'
  <2>1. "wait" \in Reading /\ "woken" \in Reading
    BY DEF Reading
  <2>2. ASSUME NEW a \in Apps PROVE app'[a].at \in Writing \cup Reading <=> app'[a].chan # -1
    <3>1. /\ app'[a].chan = app[a].chan /\ (app[a].at \in Writing \cup Reading <=> app[a].chan # -1)
          /\ app'[a].at = app[a].at \/ (app[a].at \in {"wait", "woken"} /\ app'[a].at \in {"wait", "woken"})
      BY <1>0, <1>3 DEF SamePlaces
    <3>2. CASE app'[a].at = app[a].at
      BY <3>1, <3>2
    <3>3. CASE app[a].at \in {"wait", "woken"} /\ app'[a].at \in {"wait", "woken"}
      <4>1. app[a].at \in Reading /\ app'[a].at \in Reading
        BY <2>1, <3>3
      <4>. QED BY <3>1, <4>1
    <3>. QED BY <3>1, <3>2, <3>3
  <2>. QED BY <1>3, <2>2 DEF AppKinds, SamePlaces
<1>4. "idle" \notin Writing \cup Reading /\ "frame" \notin Writing \cup Reading /\ Writing \cup Reading \subseteq AppPlaces
      /\ "idle" \in AppPlaces /\ "frame" \in AppPlaces /\ Writing \cap Reading = {}
  BY DEF Writing, Reading, AppPlaces
<1>5. ASSUME NEW a \in Apps PROVE app[a].at \in {"absent", "idle", "frame"} => app[a].chan = -1
  BY <1>0, <1>5 DEF Writing, Reading
<1>6. ASSUME \/ connect_plug \/ Accept \/ CloseFile \/ FrameMade \/ run_program_plug \/ Begin \/ Select
             \/ process_port \/ open_fun \/ OpenDone \/ close_fun \/ CloseDone \/ frame_fun \/ PortDone
             \/ NextChannel \/ process_254
             \/ \E k \in DOMAIN conns : writeln_plug(k) \/ readbuf_plug(k)
             \/ \E f \in Frames : make_frame_plug(f) \/ delete_frame_plug(f)
      PROVE  AppKinds'
  BY <1>1, <1>6 DEF connect_plug, Accept, CloseFile, FrameMade, run_program_plug, writeln_plug,
       readbuf_plug, make_frame_plug, delete_frame_plug, Begin, Select, process_port, open_fun,
       OpenDone, close_fun, CloseDone, frame_fun, PortDone, NextChannel, process_254, sockVars,
       chanVars, frameVars
<1>7. ASSUME NEW c \in Chans, channel_open_plug(c) PROVE AppKinds'
  BY <1>3, <1>7, CrossMoves DEF channel_open_plug, SamePlaces
<1>8. ASSUME NEW k \in DOMAIN conns, channel_close_plug(k) PROVE AppKinds'
  <2>1. conns[k].chan \in Chans
    BY ConnsAre, ConnIs
  <2>. QED BY <1>3, <1>8, <2>1, CrossMoves DEF channel_close_plug, SamePlaces
<1>9. CASE run_fun
  <2>1. PICK a \in Apps : app[a].at = "absent" /\ app' = [app EXCEPT ![a].at = "idle"]
    BY <1>9 DEF run_fun
  <2>. QED BY <1>2, <1>4, <1>5, <2>1, GoesMoves
<1>10. CASE collect_channel_data
  <2>1. Wake(main.chan, Min({Len(conns[ConnOf(main.chan)].down), BufMax - fill[main.chan]}))
    BY <1>10 DEF collect_channel_data
  <2>. QED BY <1>3, <2>1, WakeMoves DEF SamePlaces
<1>11. ASSUME NEW a \in Apps, NEW c \in AppChans, NEW d \in {"none", "timed", "forever"},
              AppBegins(a, "readln", c, d) \/ AppBegins(a, "text", c, d)
       PROVE  AppKinds'
  <2>1. c # -1
    BY PlugAssumption DEF AppChans
  <2>2. "readln" \in Reading /\ "text" \in Writing
    BY DEF Reading, Writing
  <2>. QED BY <1>2, <1>4, <1>11, <2>1, <2>2, BeginsMoves
<1>12. ASSUME NEW a \in Apps, NEW c \in AppChans, ise_plug_writeln(a, c) PROVE AppKinds'
  BY <1>11, <1>12 DEF ise_plug_writeln
<1>13. ASSUME NEW a \in Apps, NEW c \in AppChans, NEW d \in Delays, ise_plug_readln(a, c, d) PROVE AppKinds'
  BY <1>11, <1>13, PlugAssumption DEF ise_plug_readln
<1>14. \A c \in AppChans : c # -1
  BY PlugAssumption DEF AppChans
<1>15. ASSUME NEW a \in Apps, FindLine(a) PROVE AppKinds'
  <2>1. PICK c \in AppChans : Finds(a, c, LineLen(c)) \/ FindsNone(a, c)
    BY <1>15, FindLineMoves
  <2>2. "fill" \in Reading /\ "wait" \in Reading
    BY DEF Reading
  <2>. QED BY <1>2, <1>4, <1>14, <2>1, <2>2 DEF Finds, FindsNone
<1>16. ASSUME NEW a \in Apps, SetFill(a) PROVE AppKinds'
  BY <1>2, <1>4, <1>16, SetFillMoves
<1>17. ASSUME NEW a \in Apps, TimesOut(a) PROVE AppKinds'
  <2>1. app[a].at \in Reading /\ "woken" \in Reading
    BY <1>17 DEF TimesOut, Reading
  <2>2. Moves(a, "woken", app[a].chan, app[a].n, app[a].crossed)
    BY <1>4, <1>17, <2>1, GoesMoves DEF TimesOut, AppGoes
  <2>. QED BY <1>0, <1>2, <2>1, <2>2
<1>18. ASSUME NEW a \in Apps, WriteBegins(a) PROVE AppKinds'
  <2>1. PICK c \in AppChans :
          \/ UNCHANGED app
          \/ \E k, place : place \in {"write text", "write newline"} /\ Moves(a, place, c, k, app[a].crossed)
          \/ Moves(a, "idle", -1, 0, FALSE)
    BY <1>18, WriteBeginsMoves
  <2>. QED BY <1>1, <1>2, <1>4, <1>14, <2>1 DEF Writing
<1>19. ASSUME NEW a \in Apps, WriteEnds(a) PROVE AppKinds'
  <2>1. "newline" \in Writing
    BY DEF Writing
  <2>. QED BY <1>1, <1>2, <1>4, <1>14, <1>19, <2>1, WriteEndsMoves
<1>20. ASSUME NEW a \in Apps, ise_plug_frame_unlock(a) \/ \E f \in Frames : ise_plug_frame_lock(a, f) PROVE AppKinds'
  <2>1. app[a].at \in {"idle", "frame"} /\ (AppGoes(a, "idle") \/ AppGoes(a, "frame"))
    BY <1>20 DEF ise_plug_frame_lock, ise_plug_frame_unlock
  <2>2. Moves(a, "idle", -1, app[a].n, app[a].crossed) \/ Moves(a, "frame", -1, app[a].n, app[a].crossed)
    BY <1>4, <1>5, <2>1, GoesMoves DEF AppGoes
  <2>. QED BY <1>2, <1>4, <2>2
<1>. QED BY <1>6, <1>7, <1>8, <1>9, <1>10, <1>12, <1>13, <1>15, <1>16, <1>17, <1>18, <1>19, <1>20
     DEF Next, HostCall, HostStep, MainStep, AppCall, AppStep

LEMMA KindsStep ==
  ASSUME Kinds, ProcessInv, Next
  PROVE  Kinds'
<1>1. ConnKinds'
  BY ConnStep DEF ConnsGrow, ConnKinds
<1>. QED BY <1>1, PipeStep, FileStep, TextStep, FrameTableStep, MainStepKinds, HostStepKinds, AppStepKinds DEF Kinds

-----------------------------------------------------------------------------
(* Commands on their way: at most one OPEN and one FRAME, and what the host *)
(* has counted and mapped.                                                  *)

LEMMA CmdsAre ==
  ASSUME Kinds
  PROVE  /\ port \in Seq(Cmd) /\ Len(port) \in Nat /\ main.cmds \in Seq(Cmd) /\ Len(main.cmds) \in Nat
         /\ main.at \notin {"command", "open", "close"} => main.cmds = <<>> /\ Len(main.cmds) = 0
BY LenProperties, EmptySeq DEF Kinds, PipeKinds, MainKinds

SameCmds == port' = port /\ main'.cmds = main.cmds

LEMMA CmdsStay ==
  ASSUME SameCmds, NEW op
  PROVE  /\ OneUnderway(op)' <=> OneUnderway(op)
         /\ Underway(op)' <=> Underway(op)
<1>1. (Has(port, op)' <=> Has(port, op)) /\ (Has(main.cmds, op)' <=> Has(main.cmds, op))
  BY DEF SameCmds, Has
<1>2. (Once(port, op)' <=> Once(port, op)) /\ (Once(main.cmds, op)' <=> Once(main.cmds, op))
  BY DEF SameCmds, Once
<1>. QED BY <1>1, <1>2 DEF Underway, OneUnderway

\* The host sends a command.
LEMMA CmdSent ==
  ASSUME Kinds, NEW x \in Cmd, port' = Append(port, x), main'.cmds = main.cmds, NEW op
  PROVE  /\ Len(port') = Len(port) + 1 /\ port'[Len(port) + 1] = x /\ \A i \in 1 .. Len(port) : port'[i] = port[i]
         /\ x.op # op /\ OneUnderway(op) => OneUnderway(op)'
         /\ ~Underway(op) => OneUnderway(op)'
         /\ Underway(op)' <=> Underway(op) \/ x.op = op
<1>1. /\ Len(port) \in Nat /\ Len(port') = Len(port) + 1 /\ port'[Len(port) + 1] = x
      /\ \A i \in 1 .. Len(port) : port'[i] = port[i]
  BY CmdsAre, CmdsGrow
<1>2. (Has(main.cmds, op)' <=> Has(main.cmds, op)) /\ (Once(main.cmds, op)' <=> Once(main.cmds, op))
  BY DEF Has, Once
<1>3. Has(port, op)' <=> Has(port, op) \/ x.op = op
  <2>1. ASSUME NEW i \in 1 .. Len(port'), port'[i].op = op PROVE Has(port, op) \/ x.op = op
    BY <1>1, <2>1 DEF Has
  <2>2. Has(port, op) => Has(port, op)'
    BY <1>1 DEF Has
  <2>3. x.op = op => Has(port, op)'
    <3>1. Len(port) + 1 \in 1 .. Len(port')
      BY <1>1
    <3>. QED BY <1>1, <3>1 DEF Has
  <2>. QED BY <2>1, <2>2, <2>3 DEF Has
<1>4. Once(port, op) /\ (x.op # op \/ ~Has(port, op)) => Once(port, op)'
  BY <1>1 DEF Once, Has
<1>5. ~Has(port, op) => Once(port, op)
  BY DEF Once, Has
<1>6. ~Has(main.cmds, op) => Once(main.cmds, op)
  BY DEF Once, Has
<1>. QED BY <1>1, <1>2, <1>3, <1>4, <1>5, <1>6 DEF Underway, OneUnderway

\* The plug-in takes all of them.
LEMMA CmdsTaken ==
  ASSUME Kinds, process_port
  PROVE  /\ port' = <<>> /\ Len(port') = 0 /\ main'.cmds = port /\ main'.at = "command" /\ main.at = "port"
         /\ \A op : (OneUnderway(op) => OneUnderway(op)') /\ (Underway(op)' <=> Underway(op))
<1>1. port' = <<>> /\ Len(port') = 0 /\ main'.cmds = port /\ main'.at = "command" /\ main.at = "port"
  BY EmptySeq DEF process_port, Kinds, MainKinds
<1>2. Len(main.cmds) = 0
  BY <1>1, CmdsAre
<1>3. ASSUME NEW op
      PROVE  (Has(main.cmds, op)' <=> Has(port, op)) /\ (Once(main.cmds, op)' <=> Once(port, op))
  BY <1>1 DEF Has, Once
<1>4. ASSUME NEW op
      PROVE  ~Has(main.cmds, op) /\ ~Has(port, op)' /\ Once(port, op)'
  BY <1>1, <1>2 DEF Has, Once
<1>. QED BY <1>1, <1>3, <1>4 DEF Underway, OneUnderway

\* It serves one.
LEMMA CmdServed ==
  ASSUME Kinds, NEW o, NextCommand(o), port' = port, main'.cmds = Tail(main.cmds), NEW op
  PROVE  /\ Len(main'.cmds) \in Nat
         /\ \A i \in 1 .. Len(main'.cmds) : i + 1 \in 1 .. Len(main.cmds) /\ main'.cmds[i] = main.cmds[i + 1]
         /\ main.cmds[1].op = o /\ Underway(o)
         /\ OneUnderway(op) => OneUnderway(op)'
         /\ o # op => (Underway(op)' <=> Underway(op))
         /\ OneUnderway(o) => ~Underway(o)'
<1> DEFINE s == main.cmds
           t == main'.cmds
<1>1. /\ Len(s) \in Nat \ {0} /\ s[1].op = o /\ Len(t) = Len(s) - 1
      /\ \A i \in 1 .. Len(s) - 1 : t[i] = s[i + 1]
  <2>1. s \in Seq(Cmd) /\ s # <<>> /\ Head(s) = s[1] /\ Head(s).op = o
    BY CommandHead
  <2>. QED BY <2>1, CmdsShrink
<1>2. \A i \in 1 .. Len(t) : i + 1 \in 1 .. Len(s) /\ t[i] = s[i + 1]
  BY <1>1
<1>3. 1 \in 1 .. Len(s) /\ Len(t) \in Nat
  BY <1>1
<1>4. ASSUME NEW q
      PROVE  /\ (Has(port, q)' <=> Has(port, q)) /\ (Once(port, q)' <=> Once(port, q))
             /\ Has(main.cmds, q)' => Has(main.cmds, q)
             /\ Once(main.cmds, q) => Once(main.cmds, q)'
  <2>1. (Has(port, q)' <=> Has(port, q)) /\ (Once(port, q)' <=> Once(port, q))
    BY DEF Has, Once
  <2>2. Has(main.cmds, q)' => Has(main.cmds, q)
    BY <1>2 DEF Has
  <2>3. ASSUME Once(main.cmds, q), NEW i \in 1 .. Len(t), NEW j \in 1 .. Len(t), t[i].op = q, t[j].op = q PROVE i = j
    <3>1. i + 1 = j + 1
      BY <1>2, <2>3 DEF Once
    <3>. QED BY <3>1
  <2>4. Once(main.cmds, q) => Once(main.cmds, q)'
    BY <2>3 DEF Once
  <2>. QED BY <2>1, <2>2, <2>4
<1>5. Has(main.cmds, o)
  BY <1>1, <1>3 DEF Has
<1>6. ASSUME o # op, Has(main.cmds, op) PROVE Has(main.cmds, op)'
  <2>1. PICK i \in 1 .. Len(s) : s[i].op = op
    BY <1>6 DEF Has
  <2>2. i # 1
    BY <1>1, <1>6, <2>1
  <2>3. i - 1 \in 1 .. Len(t) /\ t[i - 1] = s[i]
    BY <1>1, <2>2
  <2>. QED BY <2>1, <2>3 DEF Has
<1>7. ASSUME Once(main.cmds, o) PROVE ~Has(main.cmds, o)'
  <2> SUFFICES ASSUME NEW i \in 1 .. Len(t), t[i].op = o PROVE FALSE
    BY DEF Has
  <2>1. i + 1 = 1
    BY <1>1, <1>2, <1>3, <1>7 DEF Once
  <2>. QED BY <2>1
<1>8. /\ (Has(port, op)' <=> Has(port, op)) /\ (Once(port, op)' <=> Once(port, op))
      /\ Has(main.cmds, op)' => Has(main.cmds, op)
      /\ Once(main.cmds, op) => Once(main.cmds, op)'
      /\ (Has(port, o)' <=> Has(port, o))
  BY <1>4
<1>. QED BY <1>1, <1>2, <1>3, <1>5, <1>6, <1>7, <1>8 DEF Underway, OneUnderway

\* Which actions leave commands as they are.
LEMMA NoCmds ==
  ASSUME Kinds, Next
  PROVE  \/ SameCmds
         \/ \E c \in Chans : channel_open_plug(c)
         \/ \E k \in DOMAIN conns : channel_close_plug(k)
         \/ \E f \in Frames : make_frame_plug(f)
         \/ run_program_plug \/ process_port \/ open_fun \/ close_fun \/ frame_fun \/ run_fun
<1>0. main \in [at : MainPlaces, cmds : Seq(Cmd), ready : SUBSET Files, todo : SUBSET Chans, chan : Nat, file : Nat]
  BY DEF Kinds, MainKinds
<1>1. ASSUME port' = port, main' = main PROVE SameCmds
  BY <1>1 DEF SameCmds
<1>2. ASSUME port' = port, NEW p, MainGoes(p) PROVE SameCmds
  BY <1>0, <1>2 DEF SameCmds, MainGoes
<1>3. ASSUME \/ connect_plug \/ Accept \/ CloseFile \/ FrameMade
             \/ \E k \in DOMAIN conns : writeln_plug(k) \/ readbuf_plug(k)
             \/ \E f \in Frames : delete_frame_plug(f)
             \/ \E a \in Apps : FindLine(a) \/ SetFill(a) \/ TimesOut(a) \/ WriteBegins(a) \/ WriteEnds(a)
             \/ \E a \in Apps : ise_plug_frame_unlock(a)
             \/ \E a \in Apps, c \in AppChans : ise_plug_writeln(a, c)
             \/ \E a \in Apps, c \in AppChans, d \in Delays : ise_plug_readln(a, c, d)
             \/ \E a \in Apps, f \in Frames : ise_plug_frame_lock(a, f)
      PROVE  SameCmds
  BY <1>1, <1>3 DEF connect_plug, Accept, CloseFile, FrameMade, writeln_plug, readbuf_plug,
       delete_frame_plug, FindLine, SetFill, TimesOut, WriteBegins, WriteEnds,
       ise_plug_frame_unlock, ise_plug_writeln, ise_plug_readln, ise_plug_frame_lock, sockVars,
       chanVars, frameVars
<1>4. CASE Begin \/ OpenDone \/ CloseDone \/ PortDone \/ collect_channel_data
  <2>1. port' = port /\ \E p : MainGoes(p)
    BY <1>4 DEF Begin, OpenDone, CloseDone, PortDone, collect_channel_data, sockVars
  <2>. QED BY <1>2, <2>1
<1>5. CASE Select
  BY <1>0, <1>5 DEF Select, SameCmds, sockVars
<1>6. CASE NextChannel
  BY <1>6, NextTexts DEF SameCmds
<1>7. CASE process_254
  BY <1>1, <1>2, <1>7 DEF process_254
<1>. QED BY <1>3, <1>4, <1>5, <1>6, <1>7
     DEF Next, HostCall, HostStep, MainStep, AppCall, AppStep

LEMMA ConnCount ==
  ASSUME Kinds, ProcessInv, Next
  PROVE  open_fun \/ Len(conns') = Len(conns)
<1> DEFINE Goal == open_fun \/ Len(conns') = Len(conns)
<1>1. ASSUME UNCHANGED conns PROVE Goal
  BY <1>1
<1>2. ASSUME NEW k, NEW o, NEW s, NEW d, NEW u, Changed(k, o, s, d, u) PROVE Goal
  BY <1>2 DEF Changed
<1>3. ASSUME \/ connect_plug \/ Accept \/ FrameMade \/ run_program_plug \/ Begin \/ Select \/ process_port
             \/ OpenDone \/ close_fun \/ CloseDone \/ frame_fun \/ run_fun \/ PortDone \/ NextChannel
             \/ \E c \in Chans : channel_open_plug(c)
             \/ \E k \in DOMAIN conns : channel_close_plug(k)
             \/ \E f \in Frames : make_frame_plug(f) \/ delete_frame_plug(f)
             \/ \E a \in Apps : FindLine(a) \/ SetFill(a) \/ TimesOut(a) \/ WriteBegins(a)
             \/ \E a \in Apps : ise_plug_frame_unlock(a)
             \/ \E a \in Apps, c \in AppChans : ise_plug_writeln(a, c)
             \/ \E a \in Apps, c \in AppChans, d \in Delays : ise_plug_readln(a, c, d)
             \/ \E a \in Apps, f \in Frames : ise_plug_frame_lock(a, f)
      PROVE  Goal
  BY <1>1, <1>3 DEF connect_plug, Accept, FrameMade, run_program_plug, channel_open_plug,
       channel_close_plug, make_frame_plug, delete_frame_plug, Begin, Select, process_port,
       OpenDone, close_fun, CloseDone, frame_fun, run_fun, PortDone, NextChannel, FindLine,
       SetFill, TimesOut, WriteBegins, ise_plug_frame_unlock, ise_plug_writeln, ise_plug_readln,
       ise_plug_frame_lock, sockVars, chanVars, frameVars
<1>4. CASE CloseFile
  BY <1>2, <1>4, CloseFileConns
<1>5. ASSUME NEW k \in DOMAIN conns, writeln_plug(k) PROVE Goal
  BY <1>2, <1>5, WritelnConns
<1>6. ASSUME NEW k \in DOMAIN conns, readbuf_plug(k) PROVE Goal
  BY <1>2, <1>6, ReadbufConns
<1>7. CASE open_fun
  BY <1>7
<1>8. CASE collect_channel_data
  <2>1. Alive
    BY DEF Next
  <2>. QED BY <1>2, <1>8, <2>1, CollectConns
<1>9. CASE process_254
  BY <1>1, <1>2, <1>9, MonitorConns
<1>10. ASSUME NEW a \in Apps, WriteEnds(a) PROVE Goal
  BY <1>1, <1>2, <1>10, WriteEndsConns
<1>. QED BY <1>3, <1>4, <1>5, <1>6, <1>7, <1>8, <1>9, <1>10
     DEF Next, HostCall, HostStep, MainStep, AppCall, AppStep

\* The host that waits for a channel or a frame goes on when it is answered.
Waits == host = [at |-> "accept", conn |-> 0]

LEMMA HostWaits ==
  ASSUME Kinds, Next
  PROVE  \/ makes' = makes /\ (host' = host \/ ~Waits)
         \/ \E c \in Chans : channel_open_plug(c)
         \/ \E f \in Frames : make_frame_plug(f)
         \/ open_fun
<1>1. ASSUME UNCHANGED <<makes, host>> PROVE makes' = makes /\ (host' = host \/ ~Waits)
  BY <1>1
<1>2. ASSUME makes' = makes, host.at # "accept" \/ host.conn # 0 PROVE makes' = makes /\ (host' = host \/ ~Waits)
  BY <1>2 DEF Waits
<1>3. ASSUME \/ run_program_plug \/ Begin \/ Select \/ process_port \/ OpenDone \/ close_fun \/ CloseDone
             \/ frame_fun \/ run_fun \/ PortDone \/ NextChannel \/ collect_channel_data \/ process_254
             \/ \E k \in DOMAIN conns : readbuf_plug(k)
             \/ \E f \in Frames : delete_frame_plug(f)
             \/ \E a \in Apps : FindLine(a) \/ SetFill(a) \/ TimesOut(a) \/ WriteBegins(a) \/ WriteEnds(a)
             \/ \E a \in Apps : ise_plug_frame_unlock(a)
             \/ \E a \in Apps, c \in AppChans : ise_plug_writeln(a, c)
             \/ \E a \in Apps, c \in AppChans, d \in Delays : ise_plug_readln(a, c, d)
             \/ \E a \in Apps, f \in Frames : ise_plug_frame_lock(a, f)
      PROVE  makes' = makes /\ (host' = host \/ ~Waits)
  BY <1>1, <1>3 DEF run_program_plug, readbuf_plug, delete_frame_plug, Begin, Select, process_port,
       OpenDone, close_fun, CloseDone, frame_fun, run_fun, PortDone, NextChannel,
       collect_channel_data, process_254, FindLine, SetFill, TimesOut, WriteBegins, WriteEnds,
       ise_plug_frame_unlock, ise_plug_writeln, ise_plug_readln, ise_plug_frame_lock, sockVars,
       chanVars, frameVars
<1>4. CASE connect_plug \/ Accept \/ CloseFile \/ FrameMade
  BY <1>2, <1>4 DEF connect_plug, Accept, CloseFile, FrameMade, frameVars
<1>5. ASSUME NEW k \in DOMAIN conns, channel_close_plug(k) PROVE makes' = makes /\ (host' = host \/ ~Waits)
  BY <1>2, <1>5 DEF channel_close_plug, frameVars
<1>6. ASSUME NEW k \in DOMAIN conns, writeln_plug(k) PROVE makes' = makes /\ (host' = host \/ ~Waits)
  <2>1. makes' = makes /\ (host = [at |-> "idle", conn |-> 0] \/ host = [at |-> "newline", conn |-> k])
    BY <1>6 DEF writeln_plug, frameVars
  <2>2. host.at # "accept"
    BY <2>1
  <2>. QED BY <1>2, <2>1, <2>2
<1>. QED BY <1>3, <1>4, <1>5, <1>6
     DEF Next, HostCall, HostStep, MainStep, AppCall, AppStep

LEMMA OpenStep ==
  ASSUME Kinds, ProcessInv, Next
  PROVE  OpenInv'
<1> DEFINE U == IF Underway("OPEN") THEN 1 ELSE 0
<1>0. /\ Len(conns) \in Nat /\ makes \in Nat /\ MaxMakes \in Nat
      /\ OneUnderway("OPEN") /\ (Underway("OPEN") => Waits) /\ Len(conns) + makes + U <= MaxMakes
  BY ConnsAre, PlugAssumption DEF Kinds, FrameKinds, ProcessInv, OpenInv, Waits
<1>1. ASSUME OneUnderway("OPEN")', Underway("OPEN")' <=> Underway("OPEN"), Underway("OPEN") => host' = host,
             Len(conns') + makes' <= Len(conns) + makes \/ (~Underway("OPEN") /\ Len(conns') + makes' <= MaxMakes)
      PROVE  OpenInv'
  <2>1. Len(conns') + makes' \in Int
    <3>1. Len(conns') \in Nat
      BY ConnStep DEF ConnsGrow
    <3>2. makes' \in Nat
      BY FrameTableStep DEF FrameKinds
    <3>. QED BY <3>1, <3>2
  <2>2. CASE Underway("OPEN")
    BY <1>0, <1>1, <2>1, <2>2 DEF OpenInv, Waits
  <2>3. CASE ~Underway("OPEN")
    BY <1>0, <1>1, <2>1, <2>3 DEF OpenInv, Waits
  <2>. QED BY <2>2, <2>3
<1>2. ASSUME makes' = makes, ~open_fun PROVE Len(conns') + makes' <= Len(conns) + makes
  BY <1>0, <1>2, ConnCount
<1>3. ASSUME NEW c \in Chans, channel_open_plug(c) PROVE OpenInv'
  <2>1. PICK x \in Cmd : x = [op |-> "OPEN", n |-> c]
    <3>1. [op |-> "OPEN", n |-> c] \in Cmd
      BY DEF Cmd
    <3>. QED BY <3>1
  <2>2. /\ port' = Append(port, x) /\ main'.cmds = main.cmds /\ host' = [at |-> "accept", conn |-> 0] /\ host.at = "idle"
        /\ Len(conns) + makes < MaxMakes /\ makes' = makes /\ conns' = conns
    BY <1>3, <2>1 DEF channel_open_plug, Command, HostGoes, frameVars
  <2>3. ~Underway("OPEN")
    BY <1>0, <2>2 DEF Waits
  <2>4. OneUnderway("OPEN")' /\ Underway("OPEN")'
    BY <2>1, <2>2, <2>3, CmdSent
  <2>. QED BY <1>0, <2>2, <2>4 DEF OpenInv
<1>4. ASSUME NEW x \in Cmd, x.op # "OPEN", port' = Append(port, x), main' = main, host.at = "idle",
             makes' = makes \/ Len(conns) + makes' <= MaxMakes, conns' = conns
      PROVE  OpenInv'
  <2>1. ~Underway("OPEN")
    BY <1>0, <1>4 DEF Waits
  <2>2. OneUnderway("OPEN")' /\ ~Underway("OPEN")'
    BY <1>4, <2>1, CmdSent
  <2>. QED BY <1>0, <1>1, <1>4, <2>1, <2>2
<1>5. ASSUME NEW k \in DOMAIN conns, channel_close_plug(k) PROVE OpenInv'
  <2>1. PICK x \in Cmd : x = [op |-> "CLOSE", n |-> conns[k].chan]
    <3>1. conns[k].chan \in Chans
      BY ConnsAre, ConnIs
    <3>2. [op |-> "CLOSE", n |-> conns[k].chan] \in Cmd
      BY <3>1 DEF Cmd
    <3>. QED BY <3>2
  <2>. QED BY <1>4, <1>5, <2>1 DEF channel_close_plug, Command, frameVars
<1>6. ASSUME NEW f \in Frames, make_frame_plug(f) PROVE OpenInv'
  <2>1. PICK x \in Cmd : x = [op |-> "FRAME", n |-> f, make |-> makes']
    <3>1. [op |-> "FRAME", n |-> f, make |-> makes'] \in Cmd
      BY <1>0, <1>6 DEF Cmd, make_frame_plug
    <3>. QED BY <3>1
  <2>2. Len(conns) + makes' <= MaxMakes
    BY <1>0, <1>6 DEF make_frame_plug
  <2>. QED BY <1>4, <1>6, <2>1, <2>2 DEF make_frame_plug
<1>7. CASE run_program_plug
  <2>1. PICK x \in Cmd : x = [op |-> "RUN", n |-> 0]
    <3>1. [op |-> "RUN", n |-> 0] \in Cmd
      BY DEF Cmd
    <3>. QED BY <3>1
  <2>. QED BY <1>4, <1>7, <2>1 DEF run_program_plug, Command, frameVars
<1>8. CASE process_port
  <2>1. host' = host /\ makes' = makes /\ conns' = conns
    BY <1>8 DEF process_port, frameVars
  <2>2. OneUnderway("OPEN")' /\ (Underway("OPEN")' <=> Underway("OPEN"))
    BY <1>0, <1>8, CmdsTaken
  <2>. QED BY <1>0, <1>1, <2>1, <2>2
<1>9. CASE open_fun
  <2>1. NextCommand("OPEN") /\ port' = port /\ makes' = makes
    BY <1>9 DEF open_fun, frameVars
  <2>2. main'.cmds = Tail(main.cmds)
    BY <1>9 DEF open_fun, Done, Kinds, MainKinds
  <2>3. Underway("OPEN") /\ OneUnderway("OPEN")' /\ ~Underway("OPEN")'
    BY <1>0, <2>1, <2>2, CmdServed
  <2>4. Len(conns') <= Len(conns) + 1 /\ Len(conns') \in Nat
    <3>1. CASE NoChannel(Head(main.cmds).n)
      BY <1>0, <1>9, <3>1 DEF open_fun
    <3>2. CASE ~NoChannel(Head(main.cmds).n)
      BY <1>0, <1>9, <3>2, OpenConns DEF OpenedConn
    <3>. QED BY <3>1, <3>2
  <2>. QED BY <1>0, <2>1, <2>3, <2>4 DEF OpenInv
<1>10. CASE close_fun \/ frame_fun \/ run_fun
  <2>1. /\ NextCommand("CLOSE") \/ NextCommand("FRAME") \/ NextCommand("RUN")
        /\ port' = port /\ makes' = makes /\ host' = host /\ conns' = conns
    BY <1>10 DEF close_fun, frame_fun, run_fun, frameVars, sockVars
  <2>2. main'.cmds = Tail(main.cmds)
    BY <1>10 DEF close_fun, frame_fun, run_fun, Done, Kinds, MainKinds
  <2>3. OneUnderway("OPEN")' /\ (Underway("OPEN")' <=> Underway("OPEN"))
    BY <1>0, <2>1, <2>2, CmdServed
  <2>. QED BY <1>0, <1>1, <2>1, <2>3
<1>11. ASSUME SameCmds, makes' = makes, host' = host \/ ~Waits, ~open_fun PROVE OpenInv'
  <2>1. OneUnderway("OPEN")' /\ (Underway("OPEN")' <=> Underway("OPEN"))
    BY <1>0, <1>11, CmdsStay
  <2>. QED BY <1>0, <1>1, <1>2, <1>11, <2>1
<1>. QED BY <1>3, <1>5, <1>6, <1>7, <1>8, <1>9, <1>10, <1>11, NoCmds, HostWaits

\* Frames that are sent are those that the host has, while both sides keep theirs.
LEMMA SentStays ==
  ASSUME UNCHANGED <<fbase, hbase>>
  PROVE  /\ (\A i \in 1 .. Len(port') : port'[i].op = "FRAME" => \E j \in 1 .. Len(port) : port'[i] = port[j])
              /\ AsSent(port) => AsSent(port)'
         /\ (\A i \in 1 .. Len(main'.cmds) :
               main'.cmds[i].op = "FRAME" => \E j \in 1 .. Len(main.cmds) : main'.cmds[i] = main.cmds[j])
              /\ AsSent(main.cmds) => AsSent(main.cmds)'
         /\ (\A i \in 1 .. Len(main'.cmds) :
               main'.cmds[i].op = "FRAME" => \E j \in 1 .. Len(port) : main'.cmds[i] = port[j])
              /\ AsSent(port) => AsSent(main.cmds)'
BY DEF AsSent

LEMMA FrameStep ==
  ASSUME Kinds, ProcessInv, Next
  PROVE  FrameInv'
<1> DEFINE Both == \A f \in Frames : hbase[f] # 0 => fbase[f] = hbase[f]
           Under == Underway("FRAME")
<1>0. /\ main.at = "begin" => host.at = "hello" /\ replies = <<>>
      /\ host.at \notin {"hello", "frame"} => replies = <<>>
      /\ Len(replies) <= 1 /\ OneUnderway("FRAME") /\ (Under => host.at = "frame" /\ replies = <<>>)
      /\ AsSent(port) /\ AsSent(main.cmds) /\ (~Under => Both)
  BY DEF ProcessInv, FrameInv
<1>1. /\ main \in [at : MainPlaces, cmds : Seq(Cmd), ready : SUBSET Files, todo : SUBSET Chans, chan : Nat, file : Nat]
      /\ replies \in Seq({"HELLO", "FRAME"}) /\ Len(replies) \in Nat /\ (Len(replies) = 0 => replies = <<>>)
      /\ replies # <<>> => Len(Tail(replies)) = Len(replies) - 1 /\ Tail(replies) \in Seq({"HELLO", "FRAME"})
      /\ Len(<<>>) = 0 /\ \A x : Len(Append(<<>>, x)) = 1
      /\ \A s \in Seq({"HELLO", "FRAME"}) : Len(s) \in Nat /\ (Len(s) = 0 => s = <<>>)
  <2>1. \A s \in Seq({"HELLO", "FRAME"}) : Len(s) \in Nat /\ (Len(s) = 0 => s = <<>>)
    BY EmptySeq, LenProperties
  <2>2. replies \in Seq({"HELLO", "FRAME"})
    BY DEF Kinds, PipeKinds
  <2>3. replies # <<>> => Len(Tail(replies)) = Len(replies) - 1 /\ Tail(replies) \in Seq({"HELLO", "FRAME"})
    BY <2>2, HeadTailProperties
  <2>4. ASSUME NEW x PROVE Len(Append(<<>>, x)) = 1
    <3>1. Append(<<>>, x) = <<x>>
      OBVIOUS
    <3>. QED BY <3>1
  <2>5. Len(<<>>) = 0
    OBVIOUS
  <2>. QED BY <2>1, <2>2, <2>3, <2>4, <2>5 DEF Kinds, MainKinds
\* Nothing is sent or served.
<1>2. ASSUME SameCmds, UNCHANGED <<replies, fbase, hbase>>, main'.at = "begin" => main.at = "begin",
             host'.at = host.at \/ {host.at, host'.at} \cap {"hello", "frame"} = {}
      PROVE  FrameInv'
  <2>1. (OneUnderway("FRAME")' <=> OneUnderway("FRAME")) /\ (Underway("FRAME")' <=> Underway("FRAME"))
    BY <1>2, CmdsStay
  <2>2. AsSent(port)' /\ AsSent(main.cmds)'
    BY <1>0, <1>2 DEF AsSent, SameCmds
  <2>. QED BY <1>0, <1>2, <2>1, <2>2 DEF FrameInv
\* A command is sent that is not FRAME.
<1>3. ASSUME NEW x \in Cmd, x.op # "FRAME", port' = Append(port, x), UNCHANGED <<replies, main, fbase, hbase>>,
             host.at = "idle", host'.at \notin {"hello", "frame"}
      PROVE  FrameInv'
  <2>1. /\ OneUnderway("FRAME")' /\ (Underway("FRAME")' <=> Underway("FRAME"))
        /\ Len(port') = Len(port) + 1 /\ port'[Len(port) + 1] = x /\ \A i \in 1 .. Len(port) : port'[i] = port[i]
    BY <1>0, <1>3, CmdSent
  <2>2. ASSUME NEW i \in 1 .. Len(port'), port'[i].op = "FRAME" PROVE \E j \in 1 .. Len(port) : port'[i] = port[j]
    <3>1. Len(port) \in Nat
      BY CmdsAre
    <3>2. i \in 1 .. Len(port) \/ i = Len(port) + 1
      BY <2>1, <3>1
    <3>. QED BY <1>3, <2>1, <2>2, <3>2
  <2>3. AsSent(port)' /\ AsSent(main.cmds)'
    <3>1. AsSent(port)'
      BY <1>0, <1>3, <2>2, SentStays
    <3>2. AsSent(main.cmds)'
      BY <1>0, <1>3 DEF AsSent
    <3>. QED BY <3>1, <3>2
  <2>. QED BY <1>0, <1>3, <2>1, <2>3 DEF FrameInv
\* A command is served that is not FRAME.
<1>4. ASSUME NEW o, o # "FRAME", NextCommand(o), port' = port, main'.cmds = Tail(main.cmds), main'.at # "begin",
             UNCHANGED <<replies, fbase, hbase>>, host'.at = host.at
      PROVE  FrameInv'
  <2>1. /\ OneUnderway("FRAME")' /\ (Underway("FRAME")' <=> Underway("FRAME"))
        /\ \A i \in 1 .. Len(main'.cmds) : i + 1 \in 1 .. Len(main.cmds) /\ main'.cmds[i] = main.cmds[i + 1]
    BY <1>0, <1>4, CmdServed
  <2>2. AsSent(port)' /\ AsSent(main.cmds)'
    <3>1. AsSent(port)'
      BY <1>0, <1>4 DEF AsSent
    <3>2. AsSent(main.cmds)'
      BY <1>0, <1>4, <2>1, SentStays
    <3>. QED BY <3>1, <3>2
  <2>. QED BY <1>0, <1>4, <2>1, <2>2 DEF FrameInv
<1>5. ASSUME UNCHANGED <<port, replies, fbase, hbase, main, host>> PROVE FrameInv'
  BY <1>2, <1>5 DEF SameCmds
<1>6. ASSUME \/ \E k \in DOMAIN conns : readbuf_plug(k)
             \/ \E a \in Apps : FindLine(a) \/ SetFill(a) \/ TimesOut(a) \/ WriteBegins(a) \/ WriteEnds(a)
             \/ \E a \in Apps : ise_plug_frame_unlock(a)
             \/ \E a \in Apps, c \in AppChans : ise_plug_writeln(a, c)
             \/ \E a \in Apps, c \in AppChans, d \in Delays : ise_plug_readln(a, c, d)
             \/ \E a \in Apps, f \in Frames : ise_plug_frame_lock(a, f)
      PROVE  FrameInv'
  BY <1>5, <1>6 DEF readbuf_plug, FindLine, SetFill, TimesOut, WriteBegins, WriteEnds,
       ise_plug_frame_unlock, ise_plug_writeln, ise_plug_readln, ise_plug_frame_lock, sockVars,
       chanVars, frameVars
<1>7. ASSUME UNCHANGED <<port, replies, fbase, hbase, main>>, {host.at, host'.at} \cap {"hello", "frame"} = {} PROVE FrameInv'
  BY <1>2, <1>7 DEF SameCmds
<1>8. CASE Accept \/ CloseFile
  <2>1. UNCHANGED <<port, replies, fbase, hbase, main>> /\ host.at \in {"accept", "close"} /\ host'.at = "idle"
    BY <1>8 DEF Accept, CloseFile, HostGoes, sockVars, frameVars
  <2>. QED BY <1>7, <2>1
<1>9. ASSUME NEW k \in DOMAIN conns, writeln_plug(k) PROVE FrameInv'
  <2>1. UNCHANGED <<port, replies, fbase, hbase, main>> /\ host.at \in {"idle", "newline"} /\ host'.at \in {"idle", "newline"}
    BY <1>9 DEF writeln_plug, HostGoes, frameVars
  <2>. QED BY <1>7, <2>1
\* The main thread goes on.
<1>10. ASSUME UNCHANGED <<port, replies, fbase, hbase, host>>, main'.cmds = main.cmds, main'.at # "begin" PROVE FrameInv'
  BY <1>2, <1>10 DEF SameCmds
<1>11. ASSUME NEW p, p # "begin", MainGoes(p) PROVE main'.cmds = main.cmds /\ main'.at # "begin"
  BY <1>1, <1>11 DEF MainGoes
<1>12. CASE OpenDone \/ CloseDone \/ PortDone \/ collect_channel_data
  <2>1. UNCHANGED <<port, replies, fbase, hbase, host>> /\ (MainGoes("command") \/ MainGoes("channels") \/ MainGoes("monitor"))
    BY <1>12 DEF OpenDone, CloseDone, PortDone, collect_channel_data, sockVars, frameVars
  <2>. QED BY <1>10, <1>11, <2>1
<1>13. CASE Select
  BY <1>1, <1>10, <1>13 DEF Select, sockVars, frameVars
<1>14. CASE NextChannel
  BY <1>10, <1>14, NextTexts DEF NextChannel, frameVars
<1>15. CASE process_254
  <2>1. UNCHANGED <<port, replies, fbase, hbase, host>> /\ main.at = "monitor" /\ (main' = main \/ MainGoes("channels"))
    BY <1>15 DEF process_254, frameVars
  <2>. QED BY <1>10, <1>11, <2>1
\* Answers.
<1>16. CASE connect_plug \/ FrameMade
  <2>1. /\ replies # <<>> /\ replies' = Tail(replies) /\ host.at \in {"hello", "frame"} /\ host'.at = "idle"
        /\ UNCHANGED <<port, fbase, hbase, main>>
    BY <1>16 DEF connect_plug, FrameMade, HostGoes, frameVars
  <2>2. replies' = <<>> /\ Len(replies') = 0
    <3>0. Len(replies) \in Nat /\ Len(replies) # 0 /\ Len(replies) <= 1
      BY <1>0, <1>1, <2>1
    <3>1. Len(replies) = 1
      <4>1. PICK m \in Nat : m = Len(replies)
        BY <3>0
      <4>2. m # 0 /\ m <= 1
        BY <3>0, <4>1
      <4>3. m = 1
        BY <4>2
      <4>. QED BY <4>1, <4>3
    <3>2. Len(Tail(replies)) = 0 /\ Tail(replies) \in Seq({"HELLO", "FRAME"})
      BY <1>1, <2>1, <3>1
    <3>. QED BY <1>1, <2>1, <3>2
  <2>3. ~Under /\ main.at # "begin"
    BY <1>0, <2>1
  <2>4. (OneUnderway("FRAME")' <=> OneUnderway("FRAME")) /\ (Underway("FRAME")' <=> Underway("FRAME"))
    BY <2>1, CmdsStay DEF SameCmds
  <2>5. AsSent(port)' /\ AsSent(main.cmds)'
    BY <1>0, <2>1 DEF AsSent
  <2>. QED BY <1>0, <2>1, <2>2, <2>3, <2>4, <2>5 DEF FrameInv
<1>17. CASE Begin
  <2>1. /\ main.at = "begin" /\ replies' = Append(replies, "HELLO") /\ MainGoes("select")
        /\ UNCHANGED <<port, fbase, hbase, host>>
    BY <1>17 DEF Begin, frameVars
  <2>2. host.at = "hello" /\ replies' = Append(<<>>, "HELLO") /\ ~Under
    BY <1>0, <2>1
  <2>3. main'.at = "select" /\ main'.cmds = main.cmds /\ Len(replies') = 1
    BY <1>1, <2>1, <2>2 DEF MainGoes
  <2>4. (OneUnderway("FRAME")' <=> OneUnderway("FRAME")) /\ (Underway("FRAME")' <=> Underway("FRAME"))
    BY <2>1, <2>3, CmdsStay DEF SameCmds
  <2>5. AsSent(port)' /\ AsSent(main.cmds)'
    BY <1>0, <2>1, <2>3 DEF AsSent
  <2>. QED BY <1>0, <2>1, <2>2, <2>3, <2>4, <2>5 DEF FrameInv
\* Commands of the host.
<1>18. ASSUME NEW c \in Chans, channel_open_plug(c) PROVE FrameInv'
  <2>1. PICK x \in Cmd : x = [op |-> "OPEN", n |-> c]
    <3>1. [op |-> "OPEN", n |-> c] \in Cmd
      BY DEF Cmd
    <3>. QED BY <3>1
  <2>2. /\ port' = Append(port, x) /\ UNCHANGED <<replies, main, fbase, hbase>> /\ host.at = "idle"
        /\ host'.at = "accept"
    BY <1>18, <2>1 DEF channel_open_plug, Command, HostGoes, frameVars
  <2>. QED BY <1>3, <2>1, <2>2
<1>19. ASSUME NEW k \in DOMAIN conns, channel_close_plug(k) PROVE FrameInv'
  <2>1. PICK x \in Cmd : x = [op |-> "CLOSE", n |-> conns[k].chan]
    <3>1. conns[k].chan \in Chans
      BY ConnsAre, ConnIs
    <3>2. [op |-> "CLOSE", n |-> conns[k].chan] \in Cmd
      BY <3>1 DEF Cmd
    <3>. QED BY <3>2
  <2>2. /\ port' = Append(port, x) /\ UNCHANGED <<replies, main, fbase, hbase>> /\ host.at = "idle"
        /\ host'.at = "close"
    BY <1>19, <2>1 DEF channel_close_plug, Command, HostGoes, frameVars
  <2>. QED BY <1>3, <2>1, <2>2
<1>20. CASE run_program_plug
  <2>1. PICK x \in Cmd : x = [op |-> "RUN", n |-> 0]
    <3>1. [op |-> "RUN", n |-> 0] \in Cmd
      BY DEF Cmd
    <3>. QED BY <3>1
  <2>2. port' = Append(port, x) /\ UNCHANGED <<replies, main, fbase, hbase, host>> /\ host.at = "idle"
    BY <1>20, <2>1 DEF run_program_plug, Command, frameVars
  <2>. QED BY <1>3, <2>1, <2>2
<1>21. ASSUME NEW f \in Frames, make_frame_plug(f) PROVE FrameInv'
  <2>0. PICK m \in Nat : m = makes'
    BY <1>21 DEF make_frame_plug, Kinds, FrameKinds
  <2>1. PICK x \in Cmd : x = [op |-> "FRAME", n |-> f, make |-> m]
    <3>1. [op |-> "FRAME", n |-> f, make |-> m] \in Cmd
      BY DEF Cmd
    <3>. QED BY <3>1
  <2>2. /\ port' = Append(port, x) /\ UNCHANGED <<replies, main, fbase>> /\ host.at = "idle" /\ host'.at = "frame"
        /\ hbase' = [hbase EXCEPT ![f] = m]
    BY <1>21, <2>0, <2>1 DEF make_frame_plug, HostGoes
  <2>3. x.op = "FRAME" /\ x.n = f /\ x.make = m
    BY <2>1
  <2>4. ~Under
    BY <1>0, <2>2
  <2>5. /\ OneUnderway("FRAME")' /\ Underway("FRAME")'
        /\ Len(port') = Len(port) + 1 /\ port'[Len(port) + 1] = x /\ \A i \in 1 .. Len(port) : port'[i] = port[i]
    BY <2>2, <2>3, <2>4, CmdSent
  <2>6. hbase'[f] = m /\ \A g \in Frames \ {f} : hbase'[g] # 0 => fbase'[g] = hbase'[g]
    BY <1>0, <2>2, <2>4 DEF Kinds, FrameKinds
  <2>7. ASSUME NEW i \in 1 .. Len(port'), port'[i].op = "FRAME" PROVE port'[i] = x
    <3>1. Len(port) \in Nat
      BY CmdsAre
    <3>2. i \in 1 .. Len(port) => port[i].op # "FRAME"
      BY <2>4 DEF Underway, Has
    <3>. QED BY <2>5, <2>7, <3>1, <3>2
  <2>8. AsSent(port)'
    BY <2>3, <2>6, <2>7 DEF AsSent
  <2>9. AsSent(main.cmds)'
    BY <2>2, <2>4 DEF AsSent, Underway, Has
  <2>. QED BY <1>0, <2>2, <2>5, <2>8, <2>9 DEF FrameInv
<1>22. ASSUME NEW f \in Frames, delete_frame_plug(f) PROVE FrameInv'
  <2>1. UNCHANGED <<port, replies, main, fbase, host>> /\ host.at = "idle" /\ hbase' = [hbase EXCEPT ![f] = 0]
    BY <1>22 DEF delete_frame_plug, sockVars
  <2>2. ~Under
    BY <1>0, <2>1
  <2>3. (OneUnderway("FRAME")' <=> OneUnderway("FRAME")) /\ (Underway("FRAME")' <=> Underway("FRAME"))
    BY <2>1, CmdsStay DEF SameCmds
  <2>4. \A g \in Frames : hbase'[g] # 0 => fbase'[g] = hbase'[g]
    BY <1>0, <2>1, <2>2 DEF Kinds, FrameKinds
  <2>5. AsSent(port)' /\ AsSent(main.cmds)'
    BY <2>1, <2>2 DEF AsSent, Underway, Has
  <2>. QED BY <1>0, <2>1, <2>2, <2>3, <2>4, <2>5 DEF FrameInv
\* Commands that are taken and served.
<1>23. CASE process_port
  <2>1. /\ port' = <<>> /\ Len(port') = 0 /\ main'.cmds = port /\ main'.at = "command"
        /\ OneUnderway("FRAME")' /\ (Underway("FRAME")' <=> Underway("FRAME"))
    BY <1>0, <1>23, CmdsTaken
  <2>2. UNCHANGED <<replies, fbase, hbase, host>>
    BY <1>23 DEF process_port, frameVars
  <2>3. AsSent(port)' /\ AsSent(main.cmds)'
    BY <1>0, <2>1, <2>2 DEF AsSent
  <2>. QED BY <1>0, <2>1, <2>2, <2>3 DEF FrameInv
<1>24. CASE open_fun \/ close_fun \/ run_fun
  <2>1. /\ \E o \in {"OPEN", "CLOSE", "RUN"} : NextCommand(o)
        /\ port' = port /\ UNCHANGED <<replies, fbase, hbase>>
    BY <1>24 DEF open_fun, close_fun, run_fun, frameVars, sockVars
  <2>2. main'.cmds = Tail(main.cmds) /\ main'.at # "begin"
    BY <1>1, <1>24 DEF open_fun, close_fun, run_fun, Done
  <2>3. host'.at = host.at
    BY <1>24 DEF open_fun, close_fun, run_fun, Kinds, HostKinds
  <2>. QED BY <1>4, <2>1, <2>2, <2>3
<1>25. CASE frame_fun
  <2> DEFINE x == main.cmds[1]
  <2>1. NextCommand("FRAME") /\ main.cmds[1] = Head(main.cmds) /\ 1 \in 1 .. Len(main.cmds) /\ x \in Cmd /\ x.op = "FRAME"
    BY <1>25, CommandHead DEF frame_fun
  <2>2. /\ port' = port /\ hbase' = hbase /\ host' = host /\ replies' = Append(replies, "FRAME")
        /\ fbase' = [fbase EXCEPT ![x.n] = x.make]
        /\ main' = [main EXCEPT !.at = "command", !.cmds = Tail(@), !.chan = 0]
    BY <1>25, <2>1 DEF frame_fun, Mapped, Done
  <2>3. main'.cmds = Tail(main.cmds) /\ main'.at = "command"
    BY <1>1, <2>2
  <2>4. Under /\ OneUnderway("FRAME")' /\ ~Underway("FRAME")'
    BY <1>0, <2>1, <2>2, <2>3, CmdServed
  <2>5. host.at = "frame" /\ replies' = Append(<<>>, "FRAME") /\ Len(replies') = 1
    BY <1>0, <1>1, <2>2, <2>4
  <2>6. x.n \in Frames /\ x.make = hbase[x.n] /\ \A g \in Frames \ {x.n} : hbase[g] # 0 => fbase[g] = hbase[g]
    <3>1. x.n \in Frames
      BY <2>1 DEF Cmd
    <3>. QED BY <1>0, <2>1, <3>1 DEF AsSent
  <2>7. \A g \in Frames : hbase'[g] # 0 => fbase'[g] = hbase'[g]
    BY <2>2, <2>6 DEF Kinds, FrameKinds
  <2>8. AsSent(port)' /\ AsSent(main.cmds)'
    BY <2>4 DEF AsSent, Underway, Has
  <2>. QED BY <2>2, <2>3, <2>4, <2>5, <2>7, <2>8 DEF FrameInv
<1>. QED BY <1>6, <1>8, <1>9, <1>12, <1>13, <1>14, <1>15, <1>16, <1>17, <1>18, <1>19, <1>20, <1>21, <1>22, <1>23, <1>24, <1>25
     DEF Next, HostCall, HostStep, MainStep, AppCall, AppStep

-----------------------------------------------------------------------------
(* Files: each is that of one connection, which is of the channel's own     *)
(* unless the main thread is about to change it.                            *)

LEMMA FileInvStep ==
  ASSUME Kinds, ProcessInv, Next
  PROVE  FileInv'
<1> DEFINE At(m, c) == m.at \in {"open", "close"} /\ m.chan = c
<1>0. /\ fds \in [Files -> Nat] /\ chfd \in [Chans -> {0} \cup Files] /\ 0 \notin Files
      /\ main \in [at : MainPlaces, cmds : Seq(Cmd), ready : SUBSET Files, todo : SUBSET Chans, chan : Nat, file : Nat]
      /\ main.at \in {"open", "close", "collect", "monitor"} => main.chan \in Chans
      /\ main.at = "open" => main.file \in Files
      /\ \A f \in Files : fds[f] <= Len(conns)
      /\ \A f, g \in Files : fds[f] # 0 /\ fds[f] = fds[g] => f = g
      /\ \A c \in Chans : ChannelFile(c)
      /\ main.at = "open" => fds[main.file] # 0 /\ conns[fds[main.file]].chan = main.chan
      /\ main.at \in {"open", "close"} => ConnOf(main.chan) = 0
      /\ main.at \in {"collect", "monitor"} => chfd[main.chan] # 0
  <2>1. fds \in [Files -> Nat] /\ chfd \in [Chans -> {0} \cup Files]
    BY DEF Kinds, FileKinds
  <2>2. 0 \notin Files
    BY PlugAssumption DEF Files
  <2>3. /\ main \in [at : MainPlaces, cmds : Seq(Cmd), ready : SUBSET Files, todo : SUBSET Chans, chan : Nat, file : Nat]
        /\ main.at \in {"open", "close", "collect", "monitor"} => main.chan \in Chans
        /\ main.at = "open" => main.file \in Files
    BY DEF Kinds, MainKinds
  <2>4. /\ \A f \in Files : fds[f] <= Len(conns)
        /\ \A f, g \in Files : fds[f] # 0 /\ fds[f] = fds[g] => f = g
        /\ \A c \in Chans : ChannelFile(c)
        /\ main.at = "open" => fds[main.file] # 0 /\ conns[fds[main.file]].chan = main.chan
        /\ main.at \in {"open", "close"} => ConnOf(main.chan) = 0
        /\ main.at \in {"collect", "monitor"} => chfd[main.chan] # 0
    BY DEF ProcessInv, FileInv
  <2>. QED BY <2>1, <2>2, <2>3, <2>4
<1>1. /\ Len(conns) \in Nat /\ Len(conns') \in Nat /\ Len(conns) <= Len(conns')
      /\ \A k \in 1 .. Len(conns) : conns'[k].chan = conns[k].chan
  BY ConnStep DEF ConnsGrow
\* The files and the channels that have them stay.
<1>2. ASSUME UNCHANGED <<fds, chfd>>
      PROVE  /\ \A f \in Files : fds'[f] <= Len(conns')
             /\ \A f, g \in Files : fds'[f] # 0 /\ fds'[f] = fds'[g] => f = g
             /\ \A c \in Chans : ConnOf(c)' = ConnOf(c)
             /\ \A f \in Files : fds[f] # 0 => conns'[fds'[f]].chan = conns[fds[f]].chan
             /\ \A c \in Chans : ConnOf(c) # 0 => conns'[ConnOf(c)'].chan = conns[ConnOf(c)].chan
             /\ main'.chan = main.chan => ConnOf(main.chan)' = ConnOf(main.chan)
  <2>1. ASSUME NEW f \in Files PROVE fds'[f] <= Len(conns') /\ (fds[f] # 0 => fds[f] \in 1 .. Len(conns))
    BY <1>0, <1>1, <1>2
  <2>2. \A c \in Chans : ConnOf(c)' = ConnOf(c)
    BY <1>2 DEF ConnOf
  <2>3. ASSUME NEW c \in Chans, ConnOf(c) # 0 PROVE chfd[c] \in Files /\ ConnOf(c) = fds[chfd[c]]
    BY <1>0, <2>3 DEF ConnOf
  <2>4. \A f, g \in Files : fds'[f] # 0 /\ fds'[f] = fds'[g] => f = g
    BY <1>0, <1>2
  <2>5. \A f \in Files : fds[f] # 0 => conns'[fds'[f]].chan = conns[fds[f]].chan
    BY <1>1, <1>2, <2>1
  <2>6. main'.chan = main.chan => ConnOf(main.chan)' = ConnOf(main.chan)
    BY <1>2 DEF ConnOf
  <2>7. ASSUME NEW c \in Chans, ConnOf(c) # 0 PROVE conns'[ConnOf(c)'].chan = conns[ConnOf(c)].chan
    BY <1>1, <2>1, <2>2, <2>3, <2>7
  <2>. QED BY <2>1, <2>2, <2>4, <2>5, <2>6, <2>7
<1>3. ASSUME UNCHANGED <<fds, chfd>>,
             \/ main'.at = main.at /\ main'.chan = main.chan /\ main'.file = main.file
             \/ main'.at \notin {"open", "close", "collect", "monitor"} /\ main.at \notin {"open", "close"}
             \/ main'.at \in {"collect", "monitor"} /\ chfd[main'.chan] # 0 /\ main.at \notin {"open", "close"}
      PROVE  FileInv'
  <2>1. ASSUME NEW c \in Chans PROVE ChannelFile(c)'
    <3>1. ~At(main', c) => ~At(main, c)
      BY <1>3
    <3>. QED BY <1>0, <1>2, <1>3, <3>1 DEF ChannelFile
  <2>2. /\ main'.at = "open" => fds'[main'.file] # 0 /\ conns'[fds'[main'.file]].chan = main'.chan
        /\ main'.at \in {"open", "close"} => ConnOf(main.chan)' = 0
        /\ main'.at \in {"collect", "monitor"} => chfd'[main'.chan] # 0
    BY <1>0, <1>2, <1>3
  <2>. QED BY <1>2, <1>3, <2>1, <2>2 DEF FileInv
<1>4. ASSUME UNCHANGED <<fds, chfd, main>> PROVE FileInv'
  BY <1>3, <1>4
<1>5. ASSUME \/ connect_plug \/ Accept \/ CloseFile \/ FrameMade \/ run_program_plug
             \/ \E c \in Chans : channel_open_plug(c)
             \/ \E k \in DOMAIN conns : channel_close_plug(k) \/ writeln_plug(k) \/ readbuf_plug(k)
             \/ \E f \in Frames : make_frame_plug(f) \/ delete_frame_plug(f)
             \/ \E a \in Apps : FindLine(a) \/ SetFill(a) \/ TimesOut(a) \/ WriteBegins(a) \/ WriteEnds(a)
             \/ \E a \in Apps : ise_plug_frame_unlock(a)
             \/ \E a \in Apps, c \in AppChans : ise_plug_writeln(a, c)
             \/ \E a \in Apps, c \in AppChans, d \in Delays : ise_plug_readln(a, c, d)
             \/ \E a \in Apps, f \in Frames : ise_plug_frame_lock(a, f)
      PROVE  FileInv'
  BY <1>4, <1>5 DEF connect_plug, Accept, CloseFile, FrameMade, run_program_plug,
       channel_open_plug, channel_close_plug, writeln_plug, readbuf_plug, make_frame_plug,
       delete_frame_plug, FindLine, SetFill, TimesOut, WriteBegins, WriteEnds,
       ise_plug_frame_unlock, ise_plug_writeln, ise_plug_readln, ise_plug_frame_lock, sockVars,
       chanVars, frameVars
<1>6. ASSUME NEW p, p \notin {"open", "close", "collect", "monitor"}, main.at \notin {"open", "close"}, main'.at = p,
             UNCHANGED <<fds, chfd>>
      PROVE  FileInv'
  BY <1>3, <1>6
<1>7. CASE Begin \/ Select \/ process_port \/ PortDone \/ frame_fun \/ run_fun
  <2>1. UNCHANGED <<fds, chfd>> /\ main.at \in {"begin", "select", "port", "command"}
    BY <1>7 DEF Begin, Select, process_port, PortDone, frame_fun, run_fun, NextCommand, chanVars
  <2>2. main'.at \in {"select", "port", "channels", "command"}
    BY <1>0, <1>7 DEF Begin, Select, process_port, PortDone, frame_fun, run_fun, Done, MainGoes
  <2>. QED BY <1>6, <2>1, <2>2
<1>8. CASE NextChannel
  <2>1. UNCHANGED <<fds, chfd>> /\ main.at = "channels"
    BY <1>8, NextTexts
  <2>2. main'.at = "select" \/ (main'.at = "collect" /\ chfd[main'.chan] # 0)
    BY <1>8, NextTexts
  <2>. QED BY <1>3, <2>1, <2>2
<1>9. CASE collect_channel_data
  <2>1. UNCHANGED <<fds, chfd>> /\ main.at = "collect" /\ main' = [main EXCEPT !.at = IF main.chan = 254 THEN "monitor" ELSE "channels"]
    BY <1>9 DEF collect_channel_data, MainGoes
  <2>2. main'.chan = main.chan /\ main'.at \in {"monitor", "channels"}
    BY <1>0, <2>1
  <2>. QED BY <1>0, <1>3, <2>1, <2>2
<1>10. CASE process_254
  <2>1. UNCHANGED <<fds, chfd>> /\ main.at = "monitor" /\ (main' = main \/ main' = [main EXCEPT !.at = "channels"])
    BY <1>10 DEF process_254, MainGoes
  <2>2. main' = main \/ main'.at = "channels"
    BY <1>0, <2>1
  <2>. QED BY <1>3, <2>1, <2>2
<1>11. CASE open_fun
  <2> DEFINE f == Min({g \in Files : fds[g] = 0})
  <2>1. NextCommand("OPEN") /\ main.at = "command"
    BY <1>11, CommandHead DEF open_fun
  <2>0. PICK c \in Chans : c = Head(main.cmds).n
    <3>1. Head(main.cmds) \in Cmd /\ Head(main.cmds).op = "OPEN"
      BY <2>1, CommandHead
    <3>. QED BY <3>1 DEF Cmd
  <2>2. CASE NoChannel(c)
    <3>1. UNCHANGED <<fds, chfd>> /\ main' = [main EXCEPT !.at = "command", !.cmds = Tail(@), !.chan = 0]
      BY <1>11, <2>0, <2>2 DEF open_fun, Done
    <3>2. main'.at = "command"
      BY <1>0, <3>1
    <3>. QED BY <1>6, <2>1, <3>1, <3>2
  <2>3. CASE ~NoChannel(c)
    <3>1. f \in Files /\ fds[f] = 0
      BY <2>1, FreeFile DEF ProcessInv
    <3>2. c \in Chans /\ OpenedConn(c)
      BY <1>11, <2>0, <2>3, OpenConns
    <3>3. PICK k \in Nat : k = Len(conns) + 1
      BY <1>1
    <3>4. /\ chfd' = chfd
          /\ fds' = [g \in Files |-> IF g = f THEN k ELSE IF g = chfd[c] THEN 0 ELSE fds[g]]
          /\ main' = [main EXCEPT !.at = "open", !.cmds = Tail(@), !.chan = c, !.file = f]
      BY <1>11, <2>0, <2>3, <3>3 DEF open_fun
    <3> HIDE DEF f
    <3>5. main'.at = "open" /\ main'.chan = c /\ main'.file = f
      BY <1>0, <3>4
    <3>6. Len(conns') = k /\ conns'[k].chan = c /\ \A i \in 1 .. Len(conns) : conns'[i] = conns[i]
      BY <3>2, <3>3 DEF OpenedConn
    <3>7. /\ fds'[f] = k /\ k > Len(conns)
          /\ \A g \in Files \ {f} : fds'[g] = IF g = chfd[c] THEN 0 ELSE fds[g]
      BY <1>1, <3>1, <3>3, <3>4
    <3>8. \A g \in Files : fds'[g] <= Len(conns')
      BY <1>0, <1>1, <3>3, <3>6, <3>7
    <3>9. ASSUME NEW g \in Files, NEW h \in Files, fds'[g] # 0, fds'[g] = fds'[h] PROVE g = h
      <4>1. \A j \in Files \ {f} : fds'[j] # 0 => fds'[j] = fds[j] /\ fds'[j] # k
        BY <1>0, <1>1, <3>3, <3>7
      <4>2. CASE g = f \/ h = f
        BY <3>7, <3>9, <4>1, <4>2
      <4>3. CASE g # f /\ h # f
        BY <1>0, <3>9, <4>1, <4>3
      <4>. QED BY <4>2, <4>3
    <3>10. ASSUME NEW d \in Chans, d # c, chfd'[d] # 0 PROVE ConnOf(d)' # 0 /\ conns'[ConnOf(d)'].chan = d
      <4>1. chfd[d] \in Files /\ ConnOf(d) # 0 /\ conns[ConnOf(d)].chan = d /\ ConnOf(d) = fds[chfd[d]]
        BY <1>0, <2>1, <3>4, <3>10 DEF ChannelFile, ConnOf
      <4>2. ConnOf(d) \in 1 .. Len(conns)
        BY <1>0, <1>1, <4>1
      <4>3. chfd[d] # f
        BY <3>1, <4>1
      <4>4. chfd[d] # chfd[c]
        <5> SUFFICES ASSUME chfd[d] = chfd[c] PROVE FALSE
          OBVIOUS
        <5>1. chfd[c] # 0 /\ ConnOf(c) = ConnOf(d)
          BY <1>0, <4>1 DEF ConnOf
        <5>2. conns[ConnOf(c)].chan = c
          BY <1>0, <2>1, <3>2, <5>1 DEF ChannelFile
        <5>. QED BY <3>10, <4>1, <5>1, <5>2
      <4>5. fds'[chfd'[d]] = fds[chfd[d]]
        BY <3>4, <3>7, <4>1, <4>3, <4>4
      <4>6. ConnOf(d)' = ConnOf(d)
        BY <3>10, <4>1, <4>5 DEF ConnOf
      <4>. QED BY <3>6, <4>1, <4>2, <4>6
    <3>11. \A d \in Chans : ChannelFile(d)'
      BY <3>5, <3>10 DEF ChannelFile
    <3>12. ConnOf(c)' = 0
      <4>1. CASE chfd[c] = 0
        BY <3>4, <4>1 DEF ConnOf
      <4>2. CASE chfd[c] # 0
        <5>1. chfd[c] \in Files /\ ConnOf(c) = fds[chfd[c]] /\ ConnOf(c) # 0
          BY <1>0, <2>1, <4>2 DEF ConnOf, ChannelFile
        <5>2. fds'[chfd[c]] = 0
          BY <3>1, <3>7, <5>1
        <5>. QED BY <3>4, <4>2, <5>2 DEF ConnOf
      <4>. QED BY <4>1, <4>2
    <3>13. ConnOf(main.chan)' = 0
      BY <3>5, <3>12 DEF ConnOf
    <3>14. fds'[main'.file] # 0 /\ conns'[fds'[main'.file]].chan = main'.chan
      BY <1>1, <3>3, <3>5, <3>6, <3>7
    <3>. QED BY <3>5, <3>8, <3>9, <3>11, <3>13, <3>14 DEF FileInv
  <2>. QED BY <2>2, <2>3
<1>12. CASE OpenDone
  <2> DEFINE c == main.chan
             f == main.file
  <2>1. /\ main.at = "open" /\ fds' = fds /\ conns' = conns /\ chfd' = [chfd EXCEPT ![c] = f]
        /\ main' = [main EXCEPT !.at = "command"]
    BY <1>12 DEF OpenDone, MainGoes, sockVars
  <2>2. main'.at = "command" /\ c \in Chans /\ f \in Files /\ fds[f] # 0 /\ conns[fds[f]].chan = c
    BY <1>0, <2>1
  <2>3. ASSUME NEW d \in Chans, chfd'[d] # 0 PROVE ConnOf(d)' # 0 /\ conns'[ConnOf(d)'].chan = d
    <3>1. CASE d = c
      BY <1>0, <2>1, <2>2, <3>1 DEF ConnOf
    <3>2. CASE d # c
      BY <1>0, <2>1, <2>2, <2>3, <3>2 DEF ConnOf, ChannelFile
    <3>. QED BY <3>1, <3>2
  <2>. QED BY <1>0, <2>1, <2>2, <2>3 DEF FileInv, ChannelFile
<1>13. CASE close_fun
  <2> DEFINE c == Head(main.cmds).n
  <2>1. NextCommand("CLOSE") /\ main.at = "command" /\ chfd' = chfd /\ conns' = conns
    BY <1>13, CommandHead DEF close_fun, sockVars
  <2>2. c \in Chans
    <3>1. Head(main.cmds) \in Cmd /\ Head(main.cmds).op = "CLOSE"
      BY <2>1, CommandHead
    <3>. QED BY <3>1 DEF Cmd
  <2>3. CASE NoChannel(c) \/ chfd[c] = 0
    <3>1. fds' = fds /\ main' = [main EXCEPT !.at = "command", !.cmds = Tail(@), !.chan = 0]
      BY <1>13, <2>3 DEF close_fun, Done
    <3>2. main'.at = "command"
      BY <1>0, <3>1
    <3>. QED BY <1>6, <2>1, <3>1, <3>2
  <2>4. CASE ~(NoChannel(c) \/ chfd[c] = 0)
    <3>1. fds' = [fds EXCEPT ![chfd[c]] = 0] /\ main' = [main EXCEPT !.at = "close", !.cmds = Tail(@), !.chan = c]
      BY <1>13, <2>4 DEF close_fun, Done
    <3> HIDE DEF c
    <3>2. main'.at = "close" /\ main'.chan = c
      BY <1>0, <3>1
    <3>3. chfd[c] \in Files /\ fds'[chfd[c]] = 0 /\ \A g \in Files \ {chfd[c]} : fds'[g] = fds[g]
      BY <1>0, <2>2, <2>4, <3>1
    <3>4. ASSUME NEW d \in Chans, d # c, chfd'[d] # 0 PROVE ConnOf(d)' # 0 /\ conns'[ConnOf(d)'].chan = d
      <4>1. chfd[d] \in Files /\ ConnOf(d) # 0 /\ conns[ConnOf(d)].chan = d /\ ConnOf(d) = fds[chfd[d]]
        BY <1>0, <2>1, <3>4 DEF ChannelFile, ConnOf
      <4>2. chfd[d] # chfd[c]
        <5> SUFFICES ASSUME chfd[d] = chfd[c] PROVE FALSE
          OBVIOUS
        <5>1. chfd[c] # 0 /\ ConnOf(c) = ConnOf(d)
          BY <1>0, <4>1 DEF ConnOf
        <5>2. conns[ConnOf(c)].chan = c
          BY <1>0, <2>1, <2>2, <5>1 DEF ChannelFile
        <5>. QED BY <3>4, <4>1, <5>1, <5>2
      <4>. QED BY <2>1, <3>3, <3>4, <4>1, <4>2 DEF ConnOf
    <3>5. \A d \in Chans : ChannelFile(d)'
      BY <3>2, <3>4 DEF ChannelFile
    <3>6. ConnOf(main.chan)' = 0
      BY <2>1, <3>2, <3>3 DEF ConnOf
    <3>7. \A g \in Files : fds'[g] <= Len(conns')
      BY <1>0, <1>1, <2>1, <3>3
    <3>8. \A g, h \in Files : fds'[g] # 0 /\ fds'[g] = fds'[h] => g = h
      BY <1>0, <3>3
    <3>. QED BY <3>2, <3>5, <3>6, <3>7, <3>8 DEF FileInv
  <2>. QED BY <2>3, <2>4
<1>14. CASE CloseDone
  <2> DEFINE c == main.chan
  <2>1. /\ main.at = "close" /\ fds' = fds /\ conns' = conns /\ chfd' = [chfd EXCEPT ![c] = 0]
        /\ main' = [main EXCEPT !.at = "command"]
    BY <1>14 DEF CloseDone, NumberGone, MainGoes, sockVars
  <2>2. main'.at = "command" /\ c \in Chans
    BY <1>0, <2>1
  <2>3. ASSUME NEW d \in Chans, chfd'[d] # 0 PROVE ConnOf(d)' # 0 /\ conns'[ConnOf(d)'].chan = d
    <3>1. d # c /\ chfd'[d] = chfd[d]
      BY <1>0, <2>1, <2>2, <2>3
    <3>. QED BY <1>0, <2>1, <2>3, <3>1 DEF ConnOf, ChannelFile
  <2>. QED BY <1>0, <2>1, <2>2, <2>3 DEF FileInv, ChannelFile
<1>. QED BY <1>5, <1>7, <1>8, <1>9, <1>10, <1>11, <1>12, <1>13, <1>14
     DEF Next, HostCall, HostStep, MainStep, AppCall, AppStep

-----------------------------------------------------------------------------
(* Locks: a thread that holds one is at work on its channel.                *)

\* How the main thread goes on, but for the channels that are read.
LEMMA MainPlace ==
  ASSUME Kinds
  PROVE  /\ Begin => main.at = "begin" /\ main'.at = "select"
         /\ Select => main.at = "select" /\ main'.at \in {"port", "channels"}
         /\ process_port => main.at = "port" /\ main'.at = "command"
         /\ open_fun => main.at = "command" /\ main'.at \in {"command", "open"}
         /\ OpenDone => main.at = "open" /\ main'.at = "command"
         /\ close_fun => main.at = "command" /\ main'.at \in {"command", "close"}
         /\ CloseDone => main.at = "close" /\ main'.at = "command"
         /\ frame_fun \/ run_fun => main.at = "command" /\ main'.at = "command"
         /\ PortDone => main.at = "command" /\ main'.at = "channels"
<1>0. main \in [at : MainPlaces, cmds : Seq(Cmd), ready : SUBSET Files, todo : SUBSET Chans, chan : Nat, file : Nat]
  BY DEF Kinds, MainKinds
<1>1. ASSUME NEW p, MainGoes(p) PROVE main'.at = p
  BY <1>0, <1>1 DEF MainGoes
<1>2. ASSUME NEW p, NEW c, Done(p, c) PROVE main'.at = p
  BY <1>0, <1>2 DEF Done
<1>3. Begin => main.at = "begin" /\ main'.at = "select"
  BY <1>1 DEF Begin
<1>4. Select => main.at = "select" /\ main'.at \in {"port", "channels"}
  BY <1>0 DEF Select
<1>5. process_port => main.at = "port" /\ main'.at = "command"
  BY <1>0 DEF process_port
<1>6. open_fun => main.at = "command" /\ main'.at \in {"command", "open"}
  <2> SUFFICES ASSUME open_fun PROVE main.at = "command" /\ main'.at \in {"command", "open"}
    OBVIOUS
  <2>1. main.at = "command"
    BY DEF open_fun, NextCommand
  <2>2. CASE NoChannel(Head(main.cmds).n)
    BY <1>2, <2>1, <2>2 DEF open_fun
  <2>3. CASE ~NoChannel(Head(main.cmds).n)
    <3>1. \E c, f : main' = [main EXCEPT !.at = "open", !.cmds = Tail(main.cmds), !.chan = c, !.file = f]
      BY <2>3 DEF open_fun
    <3>. QED BY <1>0, <2>1, <3>1
  <2>. QED BY <2>2, <2>3
<1>7. OpenDone => main.at = "open" /\ main'.at = "command"
  BY <1>1 DEF OpenDone
<1>8. close_fun => main.at = "command" /\ main'.at \in {"command", "close"}
  BY <1>2 DEF close_fun, NextCommand
<1>9. CloseDone => main.at = "close" /\ main'.at = "command"
  BY <1>1 DEF CloseDone
<1>10. frame_fun \/ run_fun => main.at = "command" /\ main'.at = "command"
  BY <1>2 DEF frame_fun, run_fun, NextCommand
<1>11. PortDone => main.at = "command" /\ main'.at = "channels"
  BY <1>1 DEF PortDone
<1>. QED BY <1>3, <1>4, <1>5, <1>6, <1>7, <1>8, <1>9, <1>10, <1>11

LEMMA LockStep ==
  ASSUME Kinds, ProcessInv, Next
  PROVE  LockInv'
<1>0. /\ lock \in [Chans -> Apps \cup {"main", None}] /\ "main" \notin Apps /\ None \notin Apps /\ None # "main"
      /\ main \in [at : MainPlaces, cmds : Seq(Cmd), ready : SUBSET Files, todo : SUBSET Chans, chan : Nat, file : Nat]
      /\ main.at \in {"collect", "monitor"} => main.chan \in Chans
      /\ \A a \in Apps : app[a].at \in Holding => app[a].chan \in Chans /\ lock[app[a].chan] = a
      /\ \A c \in Chans : lock[c] \in Apps => app[lock[c]].chan = c /\ app[lock[c]].at \in Holding
      /\ main.at = "collect" => lock[main.chan] = "main"
      /\ main.at = "monitor" => main.chan = 254
  <2>1. \A a \in Apps : app[a].at \in Holding => app[a].chan \in Chans
    BY AppHas DEF Holding, Reading
  <2>. QED BY <2>1, PlugAssumption DEF Kinds, TextKinds, MainKinds, ProcessInv, LockInv
<1>1. {"absent", "idle", "frame", "readln", "wait", "woken"} \cap Holding = {} /\ Writing \cup {"fill"} = Holding
  BY DEF Holding, Writing
\* No lock is taken or given back.
<1>2. ASSUME UNCHANGED lock,
             \A a \in Apps : /\ app'[a].at \in Holding <=> app[a].at \in Holding
                             /\ app[a].at \in Holding => app'[a].chan = app[a].chan,
             main' = main \/ main'.at \notin {"collect", "monitor"}
      PROVE  LockInv'
  <2>1. \A a \in Apps : app'[a].at \in Holding => lock'[app'[a].chan] = a
    BY <1>0, <1>2
  <2>2. \A c \in Chans : lock'[c] \in Apps => app'[lock'[c]].chan = c /\ app'[lock'[c]].at \in Holding
    BY <1>0, <1>2
  <2>3. (main'.at = "collect" => lock'[main'.chan] = "main") /\ (main'.at = "monitor" => main'.chan = 254)
    BY <1>0, <1>2
  <2>. QED BY <2>1, <2>2, <2>3 DEF LockInv
<1>3. ASSUME UNCHANGED lock, NEW a \in Apps, NEW place, NEW c, NEW n, NEW x, Moves(a, place, c, n, x), main' = main,
             place \in Holding <=> app[a].at \in Holding, place \in Holding => c = app[a].chan
      PROVE  LockInv'
  BY <1>2, <1>3 DEF Moves
\* A thread takes the lock of c.
<1>4. ASSUME NEW c \in Chans, lock[c] = None, NEW a \in Apps, lock' = [lock EXCEPT ![c] = a], app[a].at \notin Holding,
             NEW place \in Holding, NEW n, NEW x, Moves(a, place, c, n, x), main' = main
      PROVE  LockInv'
  <2>1. /\ \A b \in Apps \ {a} : app'[b] = app[b]
        /\ app'[a].chan = c /\ app'[a].at = place
    BY <1>4 DEF Moves
  <2>2. ASSUME NEW b \in Apps, app'[b].at \in Holding PROVE lock'[app'[b].chan] = b
    <3>1. CASE b = a
      BY <1>0, <1>4, <2>1, <3>1
    <3>2. CASE b # a
      BY <1>0, <1>4, <2>1, <2>2, <3>2
    <3>. QED BY <3>1, <3>2
  <2>3. ASSUME NEW d \in Chans, lock'[d] \in Apps PROVE app'[lock'[d]].chan = d /\ app'[lock'[d]].at \in Holding
    <3>1. CASE d = c
      BY <1>0, <1>4, <2>1, <3>1
    <3>2. CASE d # c
      BY <1>0, <1>4, <2>1, <2>3, <3>2
    <3>. QED BY <3>1, <3>2
  <2>4. (main'.at = "collect" => lock'[main'.chan] = "main") /\ (main'.at = "monitor" => main'.chan = 254)
    BY <1>0, <1>4
  <2>. QED BY <2>2, <2>3, <2>4 DEF LockInv
\* A thread gives the lock of its channel back.
<1>5. ASSUME NEW a \in Apps, app[a].at \in Holding, lock' = [lock EXCEPT ![app[a].chan] = None],
             NEW n, NEW x, Moves(a, "idle", -1, n, x), main' = main
      PROVE  LockInv'
  <2>0. PICK c \in Chans : c = app[a].chan
    BY <1>0, <1>5
  <2>1. /\ \A b \in Apps \ {a} : app'[b] = app[b]
        /\ app'[a].at \notin Holding /\ lock[c] = a /\ lock' = [lock EXCEPT ![c] = None]
    BY <1>0, <1>1, <1>5, <2>0 DEF Moves
  <2>2. ASSUME NEW b \in Apps, app'[b].at \in Holding PROVE lock'[app'[b].chan] = b
    BY <1>0, <2>1, <2>2
  <2>3. ASSUME NEW d \in Chans, lock'[d] \in Apps PROVE app'[lock'[d]].chan = d /\ app'[lock'[d]].at \in Holding
    <3>1. d # c /\ lock'[d] = lock[d]
      BY <1>0, <2>1, <2>3
    <3>2. lock[d] # a
      BY <1>0, <1>5, <2>0, <2>3, <3>1
    <3>. QED BY <1>0, <2>1, <2>3, <3>1, <3>2
  <2>4. (main'.at = "collect" => lock'[main'.chan] = "main") /\ (main'.at = "monitor" => main'.chan = 254)
    BY <1>0, <1>5, <2>1
  <2>. QED BY <2>2, <2>3, <2>4 DEF LockInv
<1>6. ASSUME UNCHANGED <<lock, app, main>> PROVE LockInv'
  BY <1>2, <1>6
<1>7. ASSUME \/ connect_plug \/ Accept \/ CloseFile \/ FrameMade \/ run_program_plug
             \/ \E k \in DOMAIN conns : writeln_plug(k) \/ readbuf_plug(k)
             \/ \E f \in Frames : make_frame_plug(f) \/ delete_frame_plug(f)
      PROVE  LockInv'
  BY <1>6, <1>7 DEF connect_plug, Accept, CloseFile, FrameMade, run_program_plug, writeln_plug,
       readbuf_plug, make_frame_plug, delete_frame_plug, sockVars, chanVars, frameVars
<1>8. ASSUME NEW c \in Chans, Cross(c), UNCHANGED <<lock, main>> PROVE LockInv'
  BY <1>2, <1>8, CrossMoves
<1>9. ASSUME NEW c \in Chans, channel_open_plug(c) PROVE LockInv'
  BY <1>8, <1>9 DEF channel_open_plug, chanVars
<1>10. ASSUME NEW k \in DOMAIN conns, channel_close_plug(k) PROVE LockInv'
  <2>1. conns[k].chan \in Chans
    BY ConnsAre, ConnIs
  <2>. QED BY <1>8, <1>10, <2>1 DEF channel_close_plug, chanVars
\* The main thread.
<1>11. CASE Begin \/ Select \/ process_port \/ open_fun \/ OpenDone \/ close_fun \/ CloseDone \/ frame_fun \/ PortDone
  <2>1. UNCHANGED <<lock, app>>
    BY <1>11 DEF Begin, Select, process_port, open_fun, OpenDone, close_fun, CloseDone, frame_fun, PortDone, chanVars
  <2>2. main'.at \notin {"collect", "monitor"}
    BY <1>11, MainPlace
  <2>. QED BY <1>2, <2>1, <2>2
<1>12. CASE run_fun
  <2>1. PICK a \in Apps : app[a].at = "absent" /\ app' = [app EXCEPT ![a].at = "idle"]
    BY <1>12 DEF run_fun
  <2>2. UNCHANGED lock /\ main'.at = "command"
    BY <1>0, <1>12 DEF run_fun, Done, chanVars
  <2>3. Moves(a, "idle", app[a].chan, app[a].n, app[a].crossed)
    <3>1. "idle" \in AppPlaces
      BY DEF AppPlaces
    <3>. QED BY <2>1, <3>1, GoesMoves
  <2>4. \A b \in Apps : /\ app'[b].at \in Holding <=> app[b].at \in Holding
                        /\ app[b].at \in Holding => app'[b].chan = app[b].chan
    BY <1>1, <2>1, <2>3 DEF Moves
  <2>. QED BY <1>2, <2>2, <2>4
<1>13. CASE NextChannel
  <2>1. CASE main'.at = "select" /\ UNCHANGED lock
    BY <1>2, <1>13, <2>1, NextTexts
  <2>2. ASSUME main'.at = "collect", main'.chan \in Chans, lock[main'.chan] = None,
               Texts(main'.chan, cbuf[main'.chan], fill[main'.chan], told[main'.chan], "main")
        PROVE  LockInv'
    <3>1. PICK c \in Chans : c = main'.chan
      BY <2>2
    <3>2. lock[c] = None /\ lock'[c] = "main" /\ (\A d \in Chans \ {c} : lock'[d] = lock[d]) /\ app' = app
      BY <1>13, <2>2, <3>1, NextTexts DEF Texts
    <3>3. \A a \in Apps : app'[a].at \in Holding => lock'[app'[a].chan] = a
      BY <1>0, <3>2
    <3>4. ASSUME NEW d \in Chans, lock'[d] \in Apps PROVE app'[lock'[d]].chan = d /\ app'[lock'[d]].at \in Holding
      BY <1>0, <3>2, <3>4
    <3>. QED BY <2>2, <3>1, <3>2, <3>3, <3>4 DEF LockInv
  <2>. QED BY <1>13, <2>1, <2>2, NextTexts
<1>14. CASE collect_channel_data
  <2>1. PICK c \in Chans : c = main.chan
    BY <1>0, <1>14 DEF collect_channel_data
  <2>2. /\ lock[c] = "main" /\ lock' = [lock EXCEPT ![c] = None]
        /\ main' = [main EXCEPT !.at = IF c = 254 THEN "monitor" ELSE "channels"]
    BY <1>0, <1>14, <2>1 DEF collect_channel_data, MainGoes
  <2>3. main'.chan = c /\ main'.at # "collect" /\ (main'.at = "monitor" => c = 254)
    BY <1>0, <2>1, <2>2
  <2>4. Wake(main.chan, Min({Len(conns[ConnOf(main.chan)].down), BufMax - fill[main.chan]}))
    BY <1>14 DEF collect_channel_data
  <2>5. ASSUME NEW a \in Apps
        PROVE  app'[a].chan = app[a].chan /\ (app'[a].at \in Holding <=> app[a].at \in Holding)
    BY <1>1, <2>4, WakeMoves
  <2>6. \A a \in Apps : app'[a].at \in Holding => lock'[app'[a].chan] = a
    BY <1>0, <2>2, <2>5
  <2>7. \A d \in Chans : lock'[d] \in Apps => app'[lock'[d]].chan = d /\ app'[lock'[d]].at \in Holding
    BY <1>0, <2>2, <2>5
  <2>. QED BY <2>3, <2>6, <2>7 DEF LockInv
<1>15. CASE process_254
  <2>1. UNCHANGED <<lock, app>> /\ (main' = main \/ main' = [main EXCEPT !.at = "channels"])
    BY <1>15 DEF process_254, MainGoes
  <2>2. main' = main \/ main'.at = "channels"
    BY <1>0, <2>1
  <2>. QED BY <1>2, <2>1, <2>2
\* Threads of the application.
<1>16. ASSUME NEW a \in Apps, FindLine(a) PROVE LockInv'
  <2>1. PICK c \in Chans : /\ c = app[a].chan /\ lock[c] = None /\ app[a].at \in {"readln", "woken"} /\ UNCHANGED main
                           /\ Finds(a, c, LineLen(c)) \/ FindsNone(a, c)
    BY <1>16, FindLineMoves
  <2>2. CASE Finds(a, c, LineLen(c))
    BY <1>1, <1>4, <2>1, <2>2 DEF Finds
  <2>3. CASE FindsNone(a, c)
    BY <1>1, <1>3, <2>1, <2>3 DEF FindsNone
  <2>. QED BY <2>1, <2>2, <2>3
<1>17. ASSUME NEW a \in Apps, SetFill(a) PROVE LockInv'
  BY <1>1, <1>5, <1>17, SetFillMoves
<1>18. ASSUME NEW a \in Apps, TimesOut(a) PROVE LockInv'
  <2>1. app[a].at = "wait" /\ app' = [app EXCEPT ![a].at = "woken"] /\ UNCHANGED <<lock, main>>
    BY <1>18 DEF TimesOut, AppGoes, chanVars
  <2>2. "woken" \in AppPlaces
    BY DEF AppPlaces, Reading
  <2>3. Moves(a, "woken", app[a].chan, app[a].n, app[a].crossed)
    BY <2>1, <2>2, GoesMoves
  <2>. QED BY <1>1, <1>3, <2>1, <2>3
<1>19. ASSUME NEW a \in Apps, WriteBegins(a) PROVE LockInv'
  <2>0. app[a].at \in Holding /\ UNCHANGED main
    BY <1>19, WriteBeginsMoves DEF Holding, Writing
  <2>1. "write text" \in Holding /\ "write newline" \in Holding
    BY DEF Holding, Writing
  <2>2. \/ UNCHANGED <<lock, app>>
        \/ UNCHANGED lock /\ \E k : Moves(a, "write text", app[a].chan, k, app[a].crossed)
        \/ UNCHANGED lock /\ \E k : Moves(a, "write newline", app[a].chan, k, app[a].crossed)
        \/ lock' = [lock EXCEPT ![app[a].chan] = None] /\ Moves(a, "idle", -1, 0, FALSE)
    BY <1>19, WriteBeginsMoves
  <2>. QED BY <1>3, <1>5, <1>6, <2>0, <2>1, <2>2
<1>20. ASSUME NEW a \in Apps, WriteEnds(a) PROVE LockInv'
  <2>0. app[a].at \in Holding /\ UNCHANGED main
    BY <1>20, WriteEndsMoves DEF Holding, Writing
  <2>1. "newline" \in Holding
    BY DEF Holding, Writing
  <2>2. \/ UNCHANGED <<lock, app>>
        \/ UNCHANGED lock /\ Moves(a, "newline", app[a].chan, app[a].n, app[a].crossed)
        \/ lock' = [lock EXCEPT ![app[a].chan] = None] /\ Moves(a, "idle", -1, 0, FALSE)
    BY <1>20, WriteEndsMoves
  <2>. QED BY <1>3, <1>5, <1>6, <2>0, <2>1, <2>2
<1>21. ASSUME NEW a \in Apps, NEW c \in AppChans, ise_plug_writeln(a, c) PROVE LockInv'
  <2>1. /\ app[a].at = "idle" /\ lock[c] = None /\ c \in Chans /\ lock' = [lock EXCEPT ![c] = a] /\ UNCHANGED main
        /\ AppBegins(a, "text", c, "none")
    BY <1>21 DEF ise_plug_writeln, AppChans
  <2>2. "text" \in AppPlaces /\ "text" \in Holding
    BY DEF AppPlaces, Holding, Writing
  <2>3. Moves(a, "text", c, 0, ~Settled(c))
    BY <2>1, <2>2, BeginsMoves
  <2>. QED BY <1>1, <1>4, <2>1, <2>2, <2>3
<1>22. ASSUME NEW a \in Apps, NEW c \in AppChans, NEW d \in Delays, ise_plug_readln(a, c, d) PROVE LockInv'
  <2>1. app[a].at = "idle" /\ UNCHANGED <<lock, main>> /\ AppBegins(a, "readln", c, d) /\ d \in {"none", "timed", "forever"}
    BY <1>22, PlugAssumption DEF ise_plug_readln, chanVars
  <2>2. "readln" \in AppPlaces
    BY DEF AppPlaces, Reading
  <2>3. Moves(a, "readln", c, 0, ~Settled(c))
    BY <2>1, <2>2, BeginsMoves
  <2>. QED BY <1>1, <1>3, <2>1, <2>3
<1>23. ASSUME NEW a \in Apps, ise_plug_frame_unlock(a) \/ \E f \in Frames : ise_plug_frame_lock(a, f) PROVE LockInv'
  <2>1. app[a].at \in {"idle", "frame"} /\ (AppGoes(a, "idle") \/ AppGoes(a, "frame")) /\ UNCHANGED <<lock, main>>
    BY <1>23 DEF ise_plug_frame_lock, ise_plug_frame_unlock, chanVars
  <2>2. "idle" \in AppPlaces /\ "frame" \in AppPlaces
    BY DEF AppPlaces
  <2>3. \/ Moves(a, "idle", app[a].chan, app[a].n, app[a].crossed)
        \/ Moves(a, "frame", app[a].chan, app[a].n, app[a].crossed)
    BY <2>1, <2>2, GoesMoves DEF AppGoes
  <2>. QED BY <1>1, <1>3, <2>1, <2>3
<1>. QED BY <1>7, <1>9, <1>10, <1>11, <1>12, <1>13, <1>14, <1>15, <1>16, <1>17, <1>18, <1>19, <1>20, <1>21, <1>22, <1>23
     DEF Next, HostCall, HostStep, MainStep, AppCall, AppStep

-----------------------------------------------------------------------------
(* Buffers: the count is that of the whole text, or 0, but while a line is  *)
(* taken.                                                                   *)

LEMMA BufStep ==
  ASSUME Kinds, ProcessInv, Next
  PROVE  BufInv'
<1>0. /\ lock \in [Chans -> Apps \cup {"main", None}] /\ "main" \notin Apps /\ None \notin Apps /\ None # "main"
      /\ fill \in [Chans -> Int] /\ BufMax \in Nat \ {0} /\ Alive
      /\ \A c \in Chans : fill[c] \in Int /\ Len(cbuf[c]) \in Nat /\ fill[c] <= BufMax /\ Len(cbuf[c]) <= BufMax /\ fill[c] >= 0
      /\ \A c \in Chans : ~Filled(c) => fill[c] \in {0, Len(cbuf[c])}
      /\ \A a \in Apps : app[a].at = "fill" => /\ app[a].chan \in Chans /\ lock[app[a].chan] = a /\ app[a].n \in Nat
                                               /\ app[a].chan # 254
                                               /\ \/ app[a].n = 0
                                                  \/ fill[app[a].chan] = Len(cbuf[app[a].chan]) + app[a].n
                                                  \/ fill[app[a].chan] = 0 /\ app[a].crossed
      /\ 254 \in Chans => (main.at # "monitor" => NoLine(254)) /\ (NoLine(254) \/ fill[254] = Len(cbuf[254]))
      /\ \A c \in Chans : lock[c] \in Apps => app[lock[c]].chan = c
  <2>1. \A c \in Chans : fill[c] \in Int /\ Len(cbuf[c]) \in Nat
    BY TextIs
  <2>2. \A a \in Apps : app[a].at = "fill" => /\ app[a].chan \in Chans /\ lock[app[a].chan] = a /\ app[a].n \in Nat
                                              /\ app[a].chan # 254
    BY AppHas DEF Reading, Holding, ProcessInv, LockInv
  <2>3. Alive
    BY DEF Next
  <2>4. BufInv
    BY DEF ProcessInv
  <2>5. /\ \A c \in Chans : fill[c] <= BufMax /\ Len(cbuf[c]) <= BufMax /\ fill[c] >= 0
        /\ \A c \in Chans : ~Filled(c) => fill[c] \in {0, Len(cbuf[c])}
        /\ \A a \in Apps : app[a].at = "fill" => \/ app[a].n = 0
                                                 \/ fill[app[a].chan] = Len(cbuf[app[a].chan]) + app[a].n
                                                 \/ fill[app[a].chan] = 0 /\ app[a].crossed
        /\ 254 \in Chans => (main.at # "monitor" => NoLine(254)) /\ (NoLine(254) \/ fill[254] = Len(cbuf[254]))
    BY <2>3, <2>4 DEF BufInv
  <2>6. \A c \in Chans : lock[c] \in Apps => app[lock[c]].chan = c
    BY DEF ProcessInv, LockInv
  <2>. QED BY <2>1, <2>2, <2>3, <2>5, <2>6, PlugAssumption DEF Kinds, TextKinds
<1> DEFINE Stays(a) == /\ app'[a].n = app[a].n /\ app'[a].chan = app[a].chan
                       /\ app[a].crossed => app'[a].crossed
\* The text stays, and nobody begins or ends to take a line.
<1>1. ASSUME UNCHANGED <<cbuf, fill>>, \A c \in Chans : Filled(c)' <=> Filled(c),
             \A a \in Apps : app'[a].at = "fill" => app[a].at = "fill" /\ Stays(a),
             main'.at = main.at \/ (254 \in Chans => NoLine(254))
      PROVE  BufInv'
  <2>1. \A c \in Chans : fill'[c] <= BufMax /\ Len(cbuf'[c]) <= BufMax /\ fill'[c] >= 0
    BY <1>0, <1>1
  <2>2. \A c \in Chans : ~Filled(c)' => fill'[c] \in {0, Len(cbuf'[c])}
    BY <1>0, <1>1
  <2>3. ASSUME NEW a \in Apps, app'[a].at = "fill"
        PROVE  \/ app'[a].n = 0 \/ fill'[app'[a].chan] = Len(cbuf'[app'[a].chan]) + app'[a].n
               \/ fill'[app'[a].chan] = 0 /\ app'[a].crossed
    BY <1>0, <1>1, <2>3
  <2>4. NoLine(254)' <=> NoLine(254)
    BY <1>1 DEF NoLine
  <2>5. 254 \in Chans => (main'.at # "monitor" => NoLine(254)') /\ (NoLine(254)' \/ fill'[254] = Len(cbuf'[254]))
    BY <1>0, <1>1, <2>4
  <2>. QED BY <2>1, <2>2, <2>3, <2>5 DEF BufInv
<1>2. ASSUME UNCHANGED <<cbuf, fill, lock>>,
             \A a \in Apps : /\ app'[a].at = "fill" <=> app[a].at = "fill"
                             /\ app[a].at = "fill" => Stays(a),
             main'.at = main.at \/ (254 \in Chans => NoLine(254))
      PROVE  BufInv'
  <2>1. \A c \in Chans : Filled(c)' <=> Filled(c)
    BY <1>2 DEF Filled
  <2>. QED BY <1>1, <1>2, <2>1
<1>3. ASSUME UNCHANGED <<cbuf, fill, lock, main>>, NEW a \in Apps, app[a].at # "fill",
             NEW place, place # "fill", NEW c, NEW n, NEW x, Moves(a, place, c, n, x)
      PROVE  BufInv'
  BY <1>2, <1>3 DEF Moves
\* The text stays, and a lock is taken or given back by one who takes no line.
<1>4. ASSUME UNCHANGED <<cbuf, fill>>, NEW c \in Chans, ~Filled(c), NEW h, lock' = [lock EXCEPT ![c] = h],
             h \in Apps => app'[h].at # "fill",
             \A a \in Apps : /\ app'[a].at = "fill" <=> app[a].at = "fill"
                             /\ app[a].at = "fill" => Stays(a),
             main'.at = main.at \/ (254 \in Chans => NoLine(254))
      PROVE  BufInv'
  <2>1. ASSUME NEW d \in Chans PROVE Filled(d)' <=> Filled(d)
    <3>1. CASE d = c
      BY <1>0, <1>4, <3>1 DEF Filled
    <3>2. CASE d # c
      BY <1>0, <1>4, <3>2 DEF Filled
    <3>. QED BY <3>1, <3>2
  <2>. QED BY <1>1, <1>4, <2>1
<1>5. ASSUME UNCHANGED <<cbuf, fill, main>>, NEW c \in Chans, ~Filled(c), NEW h, lock' = [lock EXCEPT ![c] = h],
             NEW a \in Apps, app[a].at # "fill", h \in {a, None},
             NEW place, place # "fill", NEW d, NEW n, NEW x, Moves(a, place, d, n, x)
      PROVE  BufInv'
  <2>1. \A b \in Apps : /\ app'[b].at = "fill" <=> app[b].at = "fill"
                        /\ app[b].at = "fill" => Stays(b)
    BY <1>5 DEF Moves
  <2>2. h \in Apps => app'[h].at # "fill"
    BY <1>0, <1>5 DEF Moves
  <2>. QED BY <1>4, <1>5, <2>1, <2>2
<1>6. ASSUME UNCHANGED <<cbuf, fill, lock, app, main>> PROVE BufInv'
  BY <1>2, <1>6
<1>7. ASSUME \/ connect_plug \/ Accept \/ CloseFile \/ FrameMade \/ run_program_plug
             \/ \E k \in DOMAIN conns : writeln_plug(k) \/ readbuf_plug(k)
             \/ \E f \in Frames : make_frame_plug(f) \/ delete_frame_plug(f)
      PROVE  BufInv'
  BY <1>6, <1>7 DEF connect_plug, Accept, CloseFile, FrameMade, run_program_plug, writeln_plug,
       readbuf_plug, make_frame_plug, delete_frame_plug, sockVars, chanVars, frameVars
<1>8. ASSUME NEW c \in Chans, Cross(c), UNCHANGED <<cbuf, fill, lock, main>> PROVE BufInv'
  BY <1>2, <1>8, CrossMoves
<1>9. ASSUME NEW c \in Chans, channel_open_plug(c) PROVE BufInv'
  BY <1>8, <1>9 DEF channel_open_plug, chanVars
<1>10. ASSUME NEW k \in DOMAIN conns, channel_close_plug(k) PROVE BufInv'
  <2>1. conns[k].chan \in Chans
    BY ConnsAre, ConnIs
  <2>. QED BY <1>8, <1>10, <2>1 DEF channel_close_plug, chanVars
\* The main thread.
<1>11. CASE Begin \/ Select \/ process_port \/ open_fun \/ close_fun \/ CloseDone \/ frame_fun \/ PortDone
  <2>1. UNCHANGED <<cbuf, fill, lock, app>>
    BY <1>11 DEF Begin, Select, process_port, open_fun, close_fun, CloseDone, frame_fun, PortDone, chanVars
  <2>2. main.at # "monitor"
    BY <1>11, MainPlace
  <2>. QED BY <1>0, <1>2, <2>1, <2>2
<1>12. CASE run_fun
  <2>1. PICK a \in Apps : app[a].at = "absent" /\ app' = [app EXCEPT ![a].at = "idle"]
    BY <1>12 DEF run_fun
  <2>2. UNCHANGED <<cbuf, fill, lock>> /\ main.at # "monitor"
    BY <1>12, MainPlace DEF run_fun, chanVars
  <2>3. Moves(a, "idle", app[a].chan, app[a].n, app[a].crossed)
    <3>1. "idle" \in AppPlaces
      BY DEF AppPlaces
    <3>. QED BY <2>1, <3>1, GoesMoves
  <2>4. \A b \in Apps : /\ app'[b].at = "fill" <=> app[b].at = "fill"
                        /\ app[b].at = "fill" => Stays(b)
    BY <2>1, <2>3 DEF Moves
  <2>. QED BY <1>0, <1>2, <2>2, <2>4
<1>13. CASE OpenDone
  <2>1. PICK c \in Chans : c = main.chan
    BY <1>13, OpenTexts
  <2>2. /\ main.at = "open" /\ UNCHANGED <<cbuf, lock, app>> /\ fill'[c] = 0 /\ \A d \in Chans \ {c} : fill'[d] = fill[d]
    BY <1>13, <2>1, OpenTexts DEF OpenDone, Texts
  <2>3. \A a \in Apps : app[a].chan = c => app[a].crossed
    BY <2>1, <2>2 DEF ProcessInv, CrossInv, Pending
  <2>4. \A d \in Chans : fill'[d] <= BufMax /\ Len(cbuf'[d]) <= BufMax /\ fill'[d] >= 0
    BY <1>0, <2>2
  <2>5. ASSUME NEW d \in Chans, ~Filled(d)' PROVE fill'[d] \in {0, Len(cbuf'[d])}
    <3>1. ~Filled(d)
      BY <2>2, <2>5 DEF Filled
    <3>. QED BY <1>0, <2>2, <3>1
  <2>6. ASSUME NEW a \in Apps, app'[a].at = "fill"
        PROVE  \/ app'[a].n = 0 \/ fill'[app'[a].chan] = Len(cbuf'[app'[a].chan]) + app'[a].n
               \/ fill'[app'[a].chan] = 0 /\ app'[a].crossed
    <3>1. app' = app /\ app[a].at = "fill" /\ cbuf' = cbuf
      BY <2>2, <2>6
    <3>2. CASE app[a].chan = c
      BY <2>2, <2>3, <3>1, <3>2
    <3>3. CASE app[a].chan # c
      BY <1>0, <2>2, <3>1, <3>3
    <3>. QED BY <3>2, <3>3
  <2>7. 254 \in Chans => NoLine(254)'
    BY <1>0, <2>2 DEF NoLine
  <2>. QED BY <2>4, <2>5, <2>6, <2>7 DEF BufInv
<1>14. CASE NextChannel
  <2>1. UNCHANGED <<cbuf, fill, app>> /\ main.at = "channels"
    BY <1>14, NextTexts DEF NextChannel
  <2>2. CASE UNCHANGED lock
    BY <1>0, <1>2, <2>1, <2>2
  <2>3. ASSUME NEW c \in Chans, lock[c] = None, lock' = [lock EXCEPT ![c] = "main"] PROVE BufInv'
    <3>1. ~Filled(c)
      BY <1>0, <2>3 DEF Filled
    <3>2. "main" \notin Apps
      BY PlugAssumption
    <3>3. main'.at = main.at \/ (254 \in Chans => NoLine(254))
      BY <1>0, <2>1
    <3>4. /\ UNCHANGED <<cbuf, fill>>
          /\ \A a \in Apps : /\ app'[a].at = "fill" <=> app[a].at = "fill"
                             /\ app[a].at = "fill" => Stays(a)
      BY <2>1
    <3>. QED BY <1>4, <2>3, <3>1, <3>2, <3>3, <3>4
  <2>4. UNCHANGED lock \/ \E c \in Chans : lock[c] = None /\ lock' = [lock EXCEPT ![c] = "main"]
    <3>1. CASE main'.at = "select" /\ UNCHANGED lock
      BY <3>1
    <3>2. ASSUME main'.chan \in Chans, lock[main'.chan] = None,
                 Texts(main'.chan, cbuf[main'.chan], fill[main'.chan], told[main'.chan], "main")
          PROVE  \E c \in Chans : lock[c] = None /\ lock' = [lock EXCEPT ![c] = "main"]
      <4>1. PICK c \in Chans : c = main'.chan
        BY <3>2
      <4>2. lock' \in [Chans -> Apps \cup {"main", None}] /\ lock'[c] = "main" /\ \A d \in Chans \ {c} : lock'[d] = lock[d]
        BY <3>2, <4>1 DEF Texts, TextKinds
      <4>3. lock' = [lock EXCEPT ![c] = "main"]
        BY <1>0, <4>2
      <4>. QED BY <3>2, <4>1, <4>3
    <3>. QED BY <1>14, <3>1, <3>2, NextTexts
  <2>. QED BY <2>2, <2>3, <2>4
<1>15. CASE collect_channel_data
  <2>1. PICK c \in Chans, n \in Nat : /\ c = main.chan
                                      /\ n = Min({Len(conns[ConnOf(main.chan)].down), BufMax - fill[main.chan]})
    BY <1>0, <1>15, CollectConns
  <2>2. PICK t : t = IF n = 0 THEN cbuf[c] ELSE SubSeq(cbuf[c], 1, fill[c]) \o SubSeq(conns[ConnOf(c)].down, 1, n)
    OBVIOUS
  <2>3. /\ lock[c] = "main" /\ fill[c] \in {0, Len(cbuf[c])} /\ Texts(c, t, fill[c] + n, told[c], None)
        /\ n # 0 => Len(t) = fill[c] + n
    BY <1>0, <1>15, <2>1, <2>2, CollectTexts
  <2>4. n <= BufMax - fill[c] /\ main.at = "collect"
    BY <1>0, <1>15, <2>1, CollectConns DEF collect_channel_data
  <2>5. /\ cbuf'[c] = t /\ fill'[c] = fill[c] + n /\ lock'[c] = None
        /\ \A d \in Chans \ {c} : cbuf'[d] = cbuf[d] /\ fill'[d] = fill[d] /\ lock'[d] = lock[d]
    BY <2>3 DEF Texts
  <2>6. fill[c] + n <= BufMax /\ fill[c] + n >= 0 /\ fill[c] + n \in Int
    BY <1>0, <2>4
  <2>7. fill'[c] \in {0, Len(cbuf'[c])} /\ Len(cbuf'[c]) <= BufMax
    <3>1. CASE n = 0
      BY <1>0, <2>2, <2>3, <2>5, <3>1
    <3>2. CASE n # 0
      BY <2>3, <2>5, <2>6, <3>2
    <3>. QED BY <3>1, <3>2
  <2>8. Wake(main.chan, Min({Len(conns[ConnOf(main.chan)].down), BufMax - fill[main.chan]}))
    BY <1>15 DEF collect_channel_data
  <2>9. ASSUME NEW a \in Apps
        PROVE  (app'[a].at = "fill" <=> app[a].at = "fill") /\ Stays(a)
    BY <2>8, WakeMoves
  <2>10. \A d \in Chans : fill'[d] <= BufMax /\ Len(cbuf'[d]) <= BufMax /\ fill'[d] >= 0
    BY <1>0, <2>5, <2>6, <2>7
  <2>11. ASSUME NEW d \in Chans, ~Filled(d)' PROVE fill'[d] \in {0, Len(cbuf'[d])}
    <3>1. CASE d = c
      BY <2>7, <3>1
    <3>2. CASE d # c
      <4>1. ~Filled(d)
        BY <2>5, <2>9, <2>11, <3>2 DEF Filled
      <4>. QED BY <1>0, <2>5, <3>2, <4>1
    <3>. QED BY <3>1, <3>2
  <2>12. ASSUME NEW a \in Apps, app'[a].at = "fill"
         PROVE  \/ app'[a].n = 0 \/ fill'[app'[a].chan] = Len(cbuf'[app'[a].chan]) + app'[a].n
                \/ fill'[app'[a].chan] = 0 /\ app'[a].crossed
    <3>1. app[a].at = "fill" /\ Stays(a)
      BY <2>9, <2>12
    <3>2. app[a].chan # c
      BY <1>0, <2>3, <3>1
    <3>. QED BY <1>0, <2>5, <3>1, <3>2
  <2>13. main' = [main EXCEPT !.at = IF c = 254 THEN "monitor" ELSE "channels"]
    BY <1>15, <2>1 DEF collect_channel_data, MainGoes
  <2>14. main'.at = IF c = 254 THEN "monitor" ELSE "channels"
    BY <2>13 DEF Kinds, MainKinds
  <2>15. ASSUME 254 \in Chans
         PROVE  (main'.at # "monitor" => NoLine(254)') /\ (NoLine(254)' \/ fill'[254] = Len(cbuf'[254]))
    <3>1. NoLine(254)
      BY <1>0, <2>4, <2>15
    <3>2. CASE c = 254
      <4>1. CASE n = 0
        <5>1. cbuf'[254] = cbuf[254]
          BY <2>2, <2>5, <3>2, <4>1
        <5>. QED BY <2>14, <3>1, <3>2, <5>1 DEF NoLine
      <4>2. CASE n # 0
        BY <2>3, <2>5, <2>14, <3>2, <4>2
      <4>. QED BY <4>1, <4>2
    <3>3. CASE c # 254
      <4>1. cbuf'[254] = cbuf[254]
        BY <2>5, <2>15, <3>3
      <4>. QED BY <3>1, <4>1 DEF NoLine
    <3>. QED BY <3>2, <3>3
  <2>. QED BY <2>10, <2>11, <2>12, <2>15 DEF BufInv
<1>16. CASE process_254
  <2>1. main.at = "monitor" /\ 254 \in Chans /\ UNCHANGED <<app, lock>>
    BY <1>16, MonitorTexts DEF process_254
  <2>2. ASSUME LineLen(254) = 0, main' = [main EXCEPT !.at = "channels"], UNCHANGED <<cbuf, fill>> PROVE BufInv'
    <3>1. NoLine(254)
      BY <2>1, <2>2, LineLenIs
    <3>. QED BY <1>2, <2>1, <2>2, <3>1
  <2>3. ASSUME UNCHANGED <<cbuf, fill, main>> PROVE BufInv'
    BY <1>6, <2>1, <2>3
  <2>4. ASSUME NEW n \in Nat, n = LineLen(254), n \in 1 .. Len(cbuf[254]), UNCHANGED main,
               Texts(254, SubSeq(cbuf[254], n + 1, Len(cbuf[254])), fill[254] - n, told[254] \o SubSeq(cbuf[254], 1, n), lock[254])
        PROVE  BufInv'
    <3>1. ~Filled(254)
      BY <1>0, <2>1 DEF Filled
    <3>2. ~NoLine(254)
      BY <2>1, <2>4, LineLenIs
    <3>3. fill[254] = Len(cbuf[254])
      BY <1>0, <2>1, <3>2
    <3>4. Len(SubSeq(cbuf[254], n + 1, Len(cbuf[254]))) = Len(cbuf[254]) - n
      <4>1. cbuf[254] \in Seq(Char) /\ n \in 0 .. Len(cbuf[254])
        BY <2>1, <2>4, TextIs
      <4>. QED BY <4>1, PartKinds
    <3>5. /\ Len(cbuf'[254]) = Len(cbuf[254]) - n /\ fill'[254] = Len(cbuf[254]) - n
          /\ \A d \in Chans \ {254} : cbuf'[d] = cbuf[d] /\ fill'[d] = fill[d]
      BY <2>4, <3>3, <3>4 DEF Texts
    <3>6. \A d \in Chans : fill'[d] <= BufMax /\ Len(cbuf'[d]) <= BufMax /\ fill'[d] >= 0
      BY <1>0, <2>4, <3>5
    <3>7. ASSUME NEW d \in Chans, ~Filled(d)' PROVE fill'[d] \in {0, Len(cbuf'[d])}
      <4>1. ~Filled(d)
        BY <2>1, <3>7 DEF Filled
      <4>. QED BY <1>0, <3>5, <4>1
    <3>8. ASSUME NEW a \in Apps, app'[a].at = "fill"
          PROVE  \/ app'[a].n = 0 \/ fill'[app'[a].chan] = Len(cbuf'[app'[a].chan]) + app'[a].n
                 \/ fill'[app'[a].chan] = 0 /\ app'[a].crossed
      <4>1. app' = app /\ app[a].at = "fill" /\ app[a].chan \in Chans \ {254}
        BY <1>0, <2>1, <3>8
      <4>. QED BY <1>0, <3>5, <4>1
    <3>9. main'.at = "monitor" /\ fill'[254] = Len(cbuf'[254])
      BY <2>1, <2>4, <3>5
    <3>. QED BY <3>6, <3>7, <3>8, <3>9 DEF BufInv
  <2>5. LineLen(254) \in Nat
    BY <2>1, LineLenIs
  <2>. QED BY <1>16, <2>2, <2>3, <2>4, <2>5, MonitorTexts
\* Threads of the application.
<1>17. ASSUME NEW a \in Apps, FindLine(a) PROVE BufInv'
  <2>1. PICK c \in Chans : /\ c = app[a].chan /\ lock[c] = None /\ app[a].at \in {"readln", "woken"} /\ UNCHANGED <<main, fill>>
                           /\ Finds(a, c, LineLen(c)) \/ FindsNone(a, c)
    BY <1>17, FindLineMoves
  <2>2. CASE Finds(a, c, LineLen(c))
    <3>1. PICK n \in Nat : n = LineLen(c)
      BY LineLenIs
    <3>2. n \in 1 .. Len(cbuf[c]) /\ Moves(a, "fill", c, IF n >= fill[c] THEN 0 ELSE n, app[a].crossed)
      BY <2>2, <3>1 DEF Finds
    <3>3. PICK t : t = IF n >= fill[c] THEN SubSeq(cbuf[c], 1, n - 1) ELSE SubSeq(cbuf[c], n + 1, Len(cbuf[c]))
      OBVIOUS
    <3>4. cbuf'[c] = t /\ lock'[c] = a /\ \A d \in Chans \ {c} : cbuf'[d] = cbuf[d] /\ lock'[d] = lock[d]
      BY <2>1, <2>2, <3>1, <3>3, FindTexts DEF Texts
    <3>5. Len(t) = IF n >= fill[c] THEN n - 1 ELSE Len(cbuf[c]) - n
      <4>1. cbuf[c] \in Seq(Char) /\ n \in 0 .. Len(cbuf[c]) /\ n - 1 \in 0 .. Len(cbuf[c])
        BY <3>2, TextIs
      <4>2. Len(SubSeq(cbuf[c], 1, n - 1)) = n - 1
        BY <4>1, PartKinds
      <4>3. Len(SubSeq(cbuf[c], n + 1, Len(cbuf[c]))) = Len(cbuf[c]) - n
        BY <4>1, PartKinds
      <4>. QED BY <3>3, <4>2, <4>3
    <3>6. /\ app'[a].at = "fill" /\ app'[a].chan = c /\ app'[a].n = IF n >= fill[c] THEN 0 ELSE n
          /\ \A b \in Apps \ {a} : app'[b] = app[b]
      BY <3>2 DEF Moves
    <3>7. ~Filled(c) /\ Filled(c)'
      BY <1>0, <2>1, <3>4, <3>6 DEF Filled
    <3>8. fill[c] \in {0, Len(cbuf[c])} /\ Len(t) <= BufMax
      BY <1>0, <3>2, <3>5, <3>7
    <3>9. \A d \in Chans : fill'[d] <= BufMax /\ Len(cbuf'[d]) <= BufMax /\ fill'[d] >= 0
      BY <1>0, <2>1, <3>4, <3>8
    <3>10. ASSUME NEW d \in Chans, ~Filled(d)' PROVE fill'[d] \in {0, Len(cbuf'[d])}
      <4>1. d # c
        BY <3>7, <3>10
      <4>2. Filled(d)' <=> Filled(d)
        BY <1>0, <2>1, <3>4, <3>6, <4>1 DEF Filled
      <4>. QED BY <1>0, <2>1, <3>4, <3>10, <4>1, <4>2
    <3>11. ASSUME NEW b \in Apps, app'[b].at = "fill"
           PROVE  \/ app'[b].n = 0 \/ fill'[app'[b].chan] = Len(cbuf'[app'[b].chan]) + app'[b].n
                  \/ fill'[app'[b].chan] = 0 /\ app'[b].crossed
      <4>1. CASE b = a
        <5>1. n >= fill[c] => app'[b].n = 0
          BY <3>6, <4>1
        <5>2. ~(n >= fill[c]) => fill[c] = Len(t) + n
          BY <1>0, <3>2, <3>5, <3>8
        <5>. QED BY <2>1, <3>4, <3>6, <4>1, <5>1, <5>2
      <4>2. CASE b # a
        <5>1. app'[b] = app[b] /\ app[b].chan # c
          BY <1>0, <2>1, <3>6, <3>11, <4>2
        <5>. QED BY <1>0, <2>1, <3>4, <3>11, <5>1
      <4>. QED BY <4>1, <4>2
    <3>12. c # 254
      BY <2>1, AppHas DEF Reading
    <3>13. 254 \in Chans => (main'.at # "monitor" => NoLine(254)') /\ (NoLine(254)' \/ fill'[254] = Len(cbuf'[254]))
      <4> SUFFICES ASSUME 254 \in Chans
                   PROVE  (main'.at # "monitor" => NoLine(254)') /\ (NoLine(254)' \/ fill'[254] = Len(cbuf'[254]))
        OBVIOUS
      <4>1. main' = main /\ cbuf'[254] = cbuf[254] /\ fill'[254] = fill[254]
        BY <2>1, <3>4, <3>12
      <4>2. NoLine(254)' <=> NoLine(254)
        BY <4>1 DEF NoLine
      <4>. QED BY <1>0, <4>1, <4>2
    <3>. QED BY <3>9, <3>10, <3>11, <3>13 DEF BufInv
  <2>3. CASE FindsNone(a, c)
    BY <1>3, <2>1, <2>3 DEF FindsNone
  <2>. QED BY <2>1, <2>2, <2>3
<1>18. ASSUME NEW a \in Apps, SetFill(a) PROVE BufInv'
  <2>1. PICK c \in Chans, n \in Nat : c = app[a].chan /\ n = app[a].n
    BY <1>18, SetFillMoves
  <2>2. /\ app[a].at = "fill" /\ c # 254 /\ UNCHANGED <<main, cbuf>> /\ Moves(a, "idle", -1, 0, FALSE)
        /\ fill'[c] = (IF n = 0 THEN 0 ELSE fill[c] - n) /\ lock'[c] = None
        /\ \A d \in Chans \ {c} : fill'[d] = fill[d] /\ lock'[d] = lock[d]
        /\ (fill'[c] < 0 /\ Die("overrun", a)) \/ (~(fill'[c] < 0) /\ UNCHANGED dead)
    <3>1. /\ app[a].at = "fill" /\ UNCHANGED <<main, cbuf>> /\ Moves(a, "idle", -1, 0, FALSE)
          /\ (fill'[app[a].chan] < 0 /\ Die("overrun", a)) \/ (~(fill'[app[a].chan] < 0) /\ UNCHANGED dead)
      BY <1>18, SetFillMoves
    <3>2. c # 254
      BY <1>0, <2>1, <3>1
    <3>3. Texts(c, cbuf[c], IF n = 0 THEN 0 ELSE fill[c] - n, told[c], None)
      BY <1>18, <2>1, SetFillTexts
    <3>4. /\ fill'[c] = (IF n = 0 THEN 0 ELSE fill[c] - n) /\ lock'[c] = None
          /\ \A d \in Chans \ {c} : fill'[d] = fill[d] /\ lock'[d] = lock[d]
      BY <3>3 DEF Texts
    <3>. QED BY <2>1, <3>1, <3>2, <3>4
  <2>3. \A b \in Apps \ {a} : app'[b] = app[b]
    BY <2>2 DEF Moves
  <2>4. app'[a].at = "idle"
    BY <2>2 DEF Moves
  <2>5. fill'[c] <= BufMax /\ fill'[c] \in Int
    BY <1>0, <2>2
  <2>6. Alive' => fill'[c] >= 0
    <3>1. \A how \in {"overrun", "assert", "pipe"}, x \in BOOLEAN : None # [how |-> how, crossed |-> x]
      BY PlugAssumption
    <3>2. app[a].crossed \in BOOLEAN
      BY AppHas
    <3>3. Die("overrun", a) => ~Alive'
      BY <3>1, <3>2 DEF Die, Alive
    <3>. QED BY <2>2, <2>5, <3>3
  <2>7. \A d \in Chans : fill'[d] <= BufMax /\ Len(cbuf'[d]) <= BufMax /\ (Alive' => fill'[d] >= 0)
    BY <1>0, <2>2, <2>5, <2>6
  <2>8. ASSUME Alive', NEW d \in Chans, ~Filled(d)' PROVE fill'[d] \in {0, Len(cbuf'[d])}
    <3>1. CASE d = c
      BY <1>0, <2>1, <2>2, <2>6, <2>8, <3>1
    <3>2. CASE d # c
      <4>1. lock'[d] = lock[d] /\ lock[d] # a
        BY <1>0, <2>1, <2>2, <3>2
      <4>2. ~Filled(d)
        BY <1>0, <2>3, <2>8, <4>1 DEF Filled
      <4>. QED BY <1>0, <2>2, <3>2, <4>2
    <3>. QED BY <3>1, <3>2
  <2>9. ASSUME NEW b \in Apps, app'[b].at = "fill"
        PROVE  \/ app'[b].n = 0 \/ fill'[app'[b].chan] = Len(cbuf'[app'[b].chan]) + app'[b].n
               \/ fill'[app'[b].chan] = 0 /\ app'[b].crossed
    <3>1. b # a /\ app'[b] = app[b]
      BY <2>3, <2>4, <2>9
    <3>2. app[b].chan # c
      BY <1>0, <2>1, <2>2, <2>9, <3>1
    <3>. QED BY <1>0, <2>2, <2>9, <3>1, <3>2
  <2>10. 254 \in Chans => (main'.at # "monitor" => NoLine(254)') /\ (NoLine(254)' \/ fill'[254] = Len(cbuf'[254]))
    BY <1>0, <2>2 DEF NoLine
  <2>. QED BY <2>7, <2>8, <2>9, <2>10 DEF BufInv
<1>19. ASSUME NEW a \in Apps, TimesOut(a) PROVE BufInv'
  <2>1. app[a].at = "wait" /\ app' = [app EXCEPT ![a].at = "woken"] /\ UNCHANGED <<lock, main, cbuf, fill>>
    BY <1>19 DEF TimesOut, AppGoes, chanVars
  <2>2. "woken" \in AppPlaces
    BY DEF AppPlaces, Reading
  <2>3. Moves(a, "woken", app[a].chan, app[a].n, app[a].crossed)
    BY <2>1, <2>2, GoesMoves
  <2>. QED BY <1>3, <2>1, <2>3
<1>20. ASSUME NEW a \in Apps, app[a].at \in Writing PROVE app[a].at # "fill" /\ app[a].chan \in Chans /\ ~Filled(app[a].chan)
  <2>1. app[a].at # "fill" /\ app[a].chan \in Chans
    BY <1>20, AppHas DEF Writing
  <2>2. lock[app[a].chan] = a
    BY <1>20 DEF ProcessInv, LockInv, Holding
  <2>. QED BY <2>1, <2>2 DEF Filled
<1>21. ASSUME NEW a \in Apps, WriteBegins(a) PROVE BufInv'
  <2>0. app[a].at \in Writing /\ UNCHANGED <<main, cbuf, fill>>
    BY <1>21, WriteBeginsMoves DEF Writing
  <2>2. \/ UNCHANGED <<lock, app>>
        \/ UNCHANGED lock /\ \E k : Moves(a, "write text", app[a].chan, k, app[a].crossed)
        \/ UNCHANGED lock /\ \E k : Moves(a, "write newline", app[a].chan, k, app[a].crossed)
        \/ lock' = [lock EXCEPT ![app[a].chan] = None] /\ Moves(a, "idle", -1, 0, FALSE)
    BY <1>21, WriteBeginsMoves
  <2>. QED BY <1>3, <1>5, <1>6, <1>20, <2>0, <2>2
<1>22. ASSUME NEW a \in Apps, WriteEnds(a) PROVE BufInv'
  <2>0. app[a].at \in Writing /\ UNCHANGED <<main, cbuf, fill>>
    BY <1>22, WriteEndsMoves DEF Writing
  <2>2. \/ UNCHANGED <<lock, app>>
        \/ UNCHANGED lock /\ Moves(a, "newline", app[a].chan, app[a].n, app[a].crossed)
        \/ lock' = [lock EXCEPT ![app[a].chan] = None] /\ Moves(a, "idle", -1, 0, FALSE)
    BY <1>22, WriteEndsMoves
  <2>. QED BY <1>3, <1>5, <1>6, <1>20, <2>0, <2>2
<1>23. ASSUME NEW a \in Apps, NEW c \in AppChans, ise_plug_writeln(a, c) PROVE BufInv'
  <2>1. /\ app[a].at = "idle" /\ lock[c] = None /\ c \in Chans /\ lock' = [lock EXCEPT ![c] = a] /\ UNCHANGED <<main, cbuf, fill>>
        /\ AppBegins(a, "text", c, "none")
    BY <1>23 DEF ise_plug_writeln, AppChans
  <2>2. "text" \in AppPlaces
    BY DEF AppPlaces, Writing
  <2>3. Moves(a, "text", c, 0, ~Settled(c))
    BY <2>1, <2>2, BeginsMoves
  <2>4. ~Filled(c)
    BY <1>0, <2>1 DEF Filled
  <2>. QED BY <1>5, <2>1, <2>3, <2>4
<1>24. ASSUME NEW a \in Apps, NEW c \in AppChans, NEW d \in Delays, ise_plug_readln(a, c, d) PROVE BufInv'
  <2>1. app[a].at = "idle" /\ UNCHANGED <<lock, main, cbuf, fill>> /\ AppBegins(a, "readln", c, d) /\ d \in {"none", "timed", "forever"}
    BY <1>24, PlugAssumption DEF ise_plug_readln, chanVars
  <2>2. "readln" \in AppPlaces
    BY DEF AppPlaces, Reading
  <2>3. Moves(a, "readln", c, 0, ~Settled(c))
    BY <2>1, <2>2, BeginsMoves
  <2>. QED BY <1>3, <2>1, <2>3
<1>25. ASSUME NEW a \in Apps, ise_plug_frame_unlock(a) \/ \E f \in Frames : ise_plug_frame_lock(a, f) PROVE BufInv'
  <2>1. app[a].at \in {"idle", "frame"} /\ (AppGoes(a, "idle") \/ AppGoes(a, "frame")) /\ UNCHANGED <<lock, main, cbuf, fill>>
    BY <1>25 DEF ise_plug_frame_lock, ise_plug_frame_unlock, chanVars
  <2>2. "idle" \in AppPlaces /\ "frame" \in AppPlaces
    BY DEF AppPlaces
  <2>3. \/ Moves(a, "idle", app[a].chan, app[a].n, app[a].crossed)
        \/ Moves(a, "frame", app[a].chan, app[a].n, app[a].crossed)
    BY <2>1, <2>2, GoesMoves DEF AppGoes
  <2>. QED BY <1>3, <2>1, <2>3
<1>. QED BY <1>7, <1>9, <1>10, <1>11, <1>12, <1>13, <1>14, <1>15, <1>16, <1>17, <1>18, <1>19, <1>21, <1>22, <1>23, <1>24, <1>25
     DEF Next, HostCall, HostStep, MainStep, AppCall, AppStep

-----------------------------------------------------------------------------
(* Crossed calls: while an OPEN or CLOSE of a channel is underway, all calls *)
(* on it are crossed; the others have an open connection that stays.        *)

Turns(s, c) == \E i \in 1 .. Len(s) : s[i].op \in {"OPEN", "CLOSE"} /\ s[i].n = c

LEMMA TurnsIs ==
  ASSUME NEW s \in Seq(Cmd), NEW c
  PROVE  (\E cmd \in Range(s) : cmd.op \in {"OPEN", "CLOSE"} /\ cmd.n = c) <=> Turns(s, c)
<1>1. DOMAIN s = 1 .. Len(s)
  BY LenProperties
<1>2. Range(s) = {s[i] : i \in 1 .. Len(s)}
  BY <1>1 DEF Range
<1>. QED BY <1>2 DEF Turns

\* Who is changing channel c.
Changes(c, m, h, s) == (m.at \in {"open", "close"} /\ m.chan = c) \/ (h.at = "close" /\ s[h.conn].chan = c)

LEMMA PendingIs ==
  ASSUME Kinds, Kinds', NEW c
  PROVE  /\ Pending(c) <=> Turns(port, c) \/ Turns(main.cmds, c) \/ Changes(c, main, host, conns)
         /\ Pending(c)' <=> Turns(port', c) \/ Turns(main'.cmds, c) \/ Changes(c, main', host', conns')
<1>1. port \in Seq(Cmd) /\ main.cmds \in Seq(Cmd) /\ port' \in Seq(Cmd) /\ main'.cmds \in Seq(Cmd)
  BY DEF Kinds, PipeKinds, MainKinds
<1>2. /\ (\E cmd \in Range(port) : cmd.op \in {"OPEN", "CLOSE"} /\ cmd.n = c) <=> Turns(port, c)
      /\ (\E cmd \in Range(main.cmds) : cmd.op \in {"OPEN", "CLOSE"} /\ cmd.n = c) <=> Turns(main.cmds, c)
      /\ (\E cmd \in Range(port') : cmd.op \in {"OPEN", "CLOSE"} /\ cmd.n = c) <=> Turns(port', c)
      /\ (\E cmd \in Range(main'.cmds) : cmd.op \in {"OPEN", "CLOSE"} /\ cmd.n = c) <=> Turns(main'.cmds, c)
  BY <1>1, TurnsIs
<1>3. Pending(c) <=> \/ \E cmd \in Range(port) : cmd.op \in {"OPEN", "CLOSE"} /\ cmd.n = c
                     \/ \E cmd \in Range(main.cmds) : cmd.op \in {"OPEN", "CLOSE"} /\ cmd.n = c
                     \/ Changes(c, main, host, conns)
  BY DEF Pending, Changes
<1>4. Pending(c)' <=> \/ \E cmd \in Range(port') : cmd.op \in {"OPEN", "CLOSE"} /\ cmd.n = c
                      \/ \E cmd \in Range(main'.cmds) : cmd.op \in {"OPEN", "CLOSE"} /\ cmd.n = c
                      \/ Changes(c, main', host', conns')
  BY DEF Pending, Changes
<1>. QED BY <1>2, <1>3, <1>4

\* A connection is closed by the host that is closing it.
LEMMA OpenStays ==
  ASSUME Kinds, ProcessInv, Next, NEW j \in 1 .. Len(conns)
  PROVE  conns'[j].open = conns[j].open \/ (host.at = "close" /\ host.conn = j)
<1> DEFINE Goal == conns'[j].open = conns[j].open \/ (host.at = "close" /\ host.conn = j)
<1>1. ASSUME UNCHANGED conns PROVE Goal
  BY <1>1
<1>2. ASSUME NEW i, NEW s, NEW d, NEW u, Changed(i, conns[i].open, s, d, u) PROVE Goal
  BY <1>2 DEF Changed
<1>3. ASSUME \/ connect_plug \/ Accept \/ FrameMade \/ run_program_plug \/ Begin \/ Select \/ process_port
             \/ OpenDone \/ close_fun \/ CloseDone \/ frame_fun \/ run_fun \/ PortDone \/ NextChannel
             \/ \E c \in Chans : channel_open_plug(c)
             \/ \E k \in DOMAIN conns : channel_close_plug(k)
             \/ \E f \in Frames : make_frame_plug(f) \/ delete_frame_plug(f)
             \/ \E a \in Apps : FindLine(a) \/ SetFill(a) \/ TimesOut(a) \/ WriteBegins(a)
             \/ \E a \in Apps : ise_plug_frame_unlock(a)
             \/ \E a \in Apps, c \in AppChans : ise_plug_writeln(a, c)
             \/ \E a \in Apps, c \in AppChans, d \in Delays : ise_plug_readln(a, c, d)
             \/ \E a \in Apps, f \in Frames : ise_plug_frame_lock(a, f)
      PROVE  Goal
  BY <1>1, <1>3 DEF connect_plug, Accept, FrameMade, run_program_plug, channel_open_plug,
       channel_close_plug, make_frame_plug, delete_frame_plug, Begin, Select, process_port,
       OpenDone, close_fun, CloseDone, frame_fun, run_fun, PortDone, NextChannel, FindLine,
       SetFill, TimesOut, WriteBegins, ise_plug_frame_unlock, ise_plug_writeln, ise_plug_readln,
       ise_plug_frame_lock, sockVars, chanVars, frameVars
<1>4. CASE CloseFile
  <2>1. host.at = "close" /\ Changed(host.conn, FALSE, conns[host.conn].sent, conns[host.conn].down, <<>>)
    BY <1>4, CloseFileConns DEF CloseFile
  <2>. QED BY <2>1 DEF Changed
<1>5. ASSUME NEW i \in DOMAIN conns, writeln_plug(i) PROVE Goal
  BY <1>2, <1>5, WritelnConns
<1>6. ASSUME NEW i \in DOMAIN conns, readbuf_plug(i) PROVE Goal
  BY <1>2, <1>6, ReadbufConns
<1>7. CASE open_fun
  <2>1. CASE NoChannel(Head(main.cmds).n)
    BY <1>1, <1>7, <2>1 DEF open_fun
  <2>2. CASE ~NoChannel(Head(main.cmds).n)
    BY <1>7, <2>2, OpenConns DEF OpenedConn
  <2>. QED BY <2>1, <2>2
<1>8. CASE collect_channel_data
  <2>1. Alive
    BY DEF Next
  <2>. QED BY <1>2, <1>8, <2>1, CollectConns
<1>9. CASE process_254
  <2>1. UNCHANGED conns \/ \E i, s, d, u : Changed(i, conns[i].open, s, d, u)
    BY <1>9, MonitorConns
  <2>. QED BY <1>1, <1>2, <2>1
<1>10. ASSUME NEW a \in Apps, WriteEnds(a) PROVE Goal
  BY <1>1, <1>2, <1>10, WriteEndsConns
<1>. QED BY <1>3, <1>4, <1>5, <1>6, <1>7, <1>8, <1>9, <1>10
     DEF Next, HostCall, HostStep, MainStep, AppCall, AppStep

\* A channel begins to be changed when the host sends an OPEN or CLOSE.
LEMMA PendingComes ==
  ASSUME Kinds, Kinds', ProcessInv, Next, NEW e \in Chans, Pending(e)'
  PROVE  Pending(e) \/ channel_open_plug(e) \/ \E k \in DOMAIN conns : channel_close_plug(k) /\ conns[k].chan = e
<1> DEFINE Goal == Pending(e) \/ channel_open_plug(e) \/ \E k \in DOMAIN conns : channel_close_plug(k) /\ conns[k].chan = e
<1>0. /\ host \in [at : HostPlaces, conn : Nat] /\ (host.at = "close" => host.conn \in DOMAIN conns)
      /\ main \in [at : MainPlaces, cmds : Seq(Cmd), ready : SUBSET Files, todo : SUBSET Chans, chan : Nat, file : Nat]
  BY DEF Kinds, HostKinds, MainKinds
<1>1. DOMAIN conns = 1 .. Len(conns) /\ \A k \in 1 .. Len(conns) : conns'[k].chan = conns[k].chan
  BY ConnsAre, ConnStep DEF ConnsGrow
<1>2. /\ Pending(e) <=> Turns(port, e) \/ Turns(main.cmds, e) \/ Changes(e, main, host, conns)
      /\ Turns(port', e) \/ Turns(main'.cmds, e) \/ Changes(e, main', host', conns')
  BY PendingIs
\* The host is not about to close a file, or the same.
<1>3. ASSUME host' = host \/ host'.at # "close" \/ (host'.at = "close" /\ host.at = "close" /\ host'.conn = host.conn),
             host'.at = "close", conns'[host'.conn].chan = e
      PROVE  Pending(e)
  BY <1>0, <1>1, <1>2, <1>3 DEF Changes
<1>4. ASSUME SameCmds, main'.at \notin {"open", "close"} \/ (main'.at = main.at /\ main'.chan = main.chan),
             host' = host \/ host'.at # "close"
      PROVE  Goal
  <2>1. CASE Turns(port', e) \/ Turns(main'.cmds, e)
    BY <1>2, <1>4, <2>1 DEF SameCmds
  <2>2. CASE main'.at \in {"open", "close"} /\ main'.chan = e
    BY <1>2, <1>4, <2>2 DEF Changes
  <2>3. CASE host'.at = "close" /\ conns'[host'.conn].chan = e
    BY <1>3, <1>4, <2>3
  <2>. QED BY <1>2, <2>1, <2>2, <2>3 DEF Changes
<1>5. ASSUME UNCHANGED <<port, main, host>> PROVE Goal
  BY <1>4, <1>5 DEF SameCmds
<1>6. ASSUME \/ \E k \in DOMAIN conns : readbuf_plug(k)
             \/ \E f \in Frames : delete_frame_plug(f)
             \/ \E a \in Apps : FindLine(a) \/ SetFill(a) \/ TimesOut(a) \/ WriteBegins(a) \/ WriteEnds(a)
             \/ \E a \in Apps : ise_plug_frame_unlock(a)
             \/ \E a \in Apps, c \in AppChans : ise_plug_writeln(a, c)
             \/ \E a \in Apps, c \in AppChans, d \in Delays : ise_plug_readln(a, c, d)
             \/ \E a \in Apps, f \in Frames : ise_plug_frame_lock(a, f)
      PROVE  Goal
  BY <1>5, <1>6 DEF readbuf_plug, delete_frame_plug, FindLine, SetFill, TimesOut, WriteBegins,
       WriteEnds, ise_plug_frame_unlock, ise_plug_writeln, ise_plug_readln, ise_plug_frame_lock,
       sockVars, chanVars, frameVars
<1>7. ASSUME NEW x, NEW y, HostGoes(x, y) PROVE host'.at = x /\ host'.conn = y
  BY <1>7 DEF HostGoes
<1>8. CASE connect_plug \/ Accept \/ CloseFile \/ FrameMade
  <2>1. HostGoes("idle", 0) /\ UNCHANGED <<port, main>>
    BY <1>8 DEF connect_plug, Accept, CloseFile, FrameMade, sockVars
  <2>. QED BY <1>4, <1>7, <2>1 DEF SameCmds
<1>9. ASSUME NEW k \in DOMAIN conns, writeln_plug(k) PROVE Goal
  <2>1. (HostGoes("idle", 0) \/ HostGoes("newline", k)) /\ UNCHANGED <<port, main>>
    BY <1>9 DEF writeln_plug
  <2>. QED BY <1>4, <1>7, <2>1 DEF SameCmds
\* A command is sent.
<1>10. ASSUME NEW x \in Cmd, port' = Append(port, x), main' = main,
              x.op \notin {"OPEN", "CLOSE"} \/ x.n # e, host' = host \/ host'.at # "close" \/ conns'[host'.conn].chan # e
       PROVE  Goal
  <2>1. /\ Len(port) \in Nat /\ Len(port') = Len(port) + 1 /\ port'[Len(port) + 1] = x
        /\ \A i \in 1 .. Len(port) : port'[i] = port[i]
    BY <1>10, CmdsAre, CmdsGrow
  <2>2. Turns(port', e) => Turns(port, e)
    <3> SUFFICES ASSUME NEW i \in 1 .. Len(port'), port'[i].op \in {"OPEN", "CLOSE"}, port'[i].n = e PROVE Turns(port, e)
      BY DEF Turns
    <3>1. i # Len(port) + 1
      BY <1>10, <2>1
    <3>2. i \in 1 .. Len(port) /\ port'[i] = port[i]
      BY <2>1, <3>1
    <3>. QED BY <3>2 DEF Turns
  <2>3. CASE main'.at \in {"open", "close"} /\ main'.chan = e
    BY <1>2, <1>10, <2>3 DEF Changes
  <2>4. CASE host'.at = "close" /\ conns'[host'.conn].chan = e
    BY <1>3, <1>10, <2>4
  <2>. QED BY <1>2, <1>10, <2>2, <2>3, <2>4 DEF Changes
<1>11. ASSUME NEW d \in Chans, channel_open_plug(d) PROVE Goal
  <2>1. PICK x \in Cmd : x = [op |-> "OPEN", n |-> d]
    <3>1. [op |-> "OPEN", n |-> d] \in Cmd
      BY DEF Cmd
    <3>. QED BY <3>1
  <2>2. port' = Append(port, x) /\ main' = main /\ host'.at # "close"
    BY <1>7, <1>11, <2>1 DEF channel_open_plug, Command
  <2>. QED BY <1>10, <1>11, <2>1, <2>2
<1>12. ASSUME NEW k \in DOMAIN conns, channel_close_plug(k) PROVE Goal
  <2>0. conns[k].chan \in Chans
    BY ConnsAre, ConnIs
  <2>1. PICK x \in Cmd : x = [op |-> "CLOSE", n |-> conns[k].chan]
    <3>1. [op |-> "CLOSE", n |-> conns[k].chan] \in Cmd
      BY <2>0 DEF Cmd
    <3>. QED BY <3>1
  <2>2. port' = Append(port, x) /\ main' = main /\ host'.conn = k /\ conns' = conns
    BY <1>7, <1>12, <2>1 DEF channel_close_plug, Command
  <2>3. CASE conns[k].chan = e
    BY <1>12, <2>3
  <2>4. CASE conns[k].chan # e
    BY <1>10, <2>1, <2>2, <2>4
  <2>. QED BY <2>3, <2>4
<1>13. ASSUME NEW f \in Frames, make_frame_plug(f) PROVE Goal
  <2>0. PICK m \in Nat : m = makes'
    BY <1>13 DEF make_frame_plug, Kinds, FrameKinds
  <2>1. PICK x \in Cmd : x = [op |-> "FRAME", n |-> f, make |-> m]
    <3>1. [op |-> "FRAME", n |-> f, make |-> m] \in Cmd
      BY DEF Cmd
    <3>. QED BY <3>1
  <2>2. port' = Append(port, x) /\ main' = main /\ host'.at # "close"
    BY <1>7, <1>13, <2>0, <2>1 DEF make_frame_plug
  <2>. QED BY <1>10, <2>1, <2>2
<1>14. CASE run_program_plug
  <2>1. PICK x \in Cmd : x = [op |-> "RUN", n |-> 0]
    <3>1. [op |-> "RUN", n |-> 0] \in Cmd
      BY DEF Cmd
    <3>. QED BY <3>1
  <2>2. port' = Append(port, x) /\ main' = main /\ host' = host
    BY <1>14, <2>1 DEF run_program_plug, Command
  <2>. QED BY <1>10, <2>1, <2>2
\* The main thread.
<1>15. CASE Begin \/ Select \/ OpenDone \/ CloseDone \/ PortDone
  <2>1. UNCHANGED <<port, host>> /\ main'.cmds = main.cmds
    BY <1>0, <1>15 DEF Begin, Select, OpenDone, CloseDone, PortDone, MainGoes, sockVars
  <2>2. main'.at \notin {"open", "close"}
    BY <1>15, MainPlace
  <2>. QED BY <1>4, <2>1, <2>2 DEF SameCmds
<1>16. CASE NextChannel
  <2>1. UNCHANGED <<port, host>> /\ main'.cmds = main.cmds /\ main'.at \in {"select", "collect"}
    BY <1>16, NextTexts
  <2>. QED BY <1>4, <2>1 DEF SameCmds
<1>17. CASE collect_channel_data
  <2>1. UNCHANGED <<port, host>> /\ main' = [main EXCEPT !.at = IF main.chan = 254 THEN "monitor" ELSE "channels"]
    BY <1>17 DEF collect_channel_data, MainGoes
  <2>2. main'.cmds = main.cmds /\ main'.at \in {"monitor", "channels"}
    BY <1>0, <2>1
  <2>. QED BY <1>4, <2>1, <2>2 DEF SameCmds
<1>18. CASE process_254
  <2>1. UNCHANGED <<port, host>> /\ (main' = main \/ main' = [main EXCEPT !.at = "channels"])
    BY <1>18 DEF process_254, MainGoes
  <2>2. main' = main \/ (main'.cmds = main.cmds /\ main'.at = "channels")
    BY <1>0, <2>1
  <2>. QED BY <1>4, <1>5, <2>1, <2>2 DEF SameCmds
<1>19. CASE process_port
  <2>1. port' = <<>> /\ Len(port') = 0 /\ main'.cmds = port /\ main'.at = "command"
    BY <1>19, CmdsTaken
  <2>2. UNCHANGED host
    BY <1>19 DEF process_port
  <2>3. ~Turns(port', e) /\ (Turns(main'.cmds, e) => Turns(port, e))
    BY <2>1 DEF Turns
  <2>4. CASE host'.at = "close" /\ conns'[host'.conn].chan = e
    BY <1>3, <2>2, <2>4
  <2>. QED BY <1>2, <2>1, <2>3, <2>4 DEF Changes
\* A command is served.
<1>20. ASSUME NEW o, NextCommand(o), port' = port, main'.cmds = Tail(main.cmds), 
              main'.at = "command" \/ (o \in {"OPEN", "CLOSE"} /\ main'.chan = Head(main.cmds).n),
              host' = host \/ host'.at # "close"
       PROVE  Goal
  <2>1. /\ Len(main'.cmds) \in Nat
        /\ \A i \in 1 .. Len(main'.cmds) : i + 1 \in 1 .. Len(main.cmds) /\ main'.cmds[i] = main.cmds[i + 1]
    BY <1>20, CmdServed
  <2>2. Turns(main'.cmds, e) => Turns(main.cmds, e)
    BY <2>1 DEF Turns
  <2>3. CASE main'.at \in {"open", "close"} /\ main'.chan = e
    <3>1. o \in {"OPEN", "CLOSE"} /\ Head(main.cmds).n = e
      BY <1>20, <2>3
    <3>2. Head(main.cmds) = main.cmds[1] /\ Head(main.cmds).op = o /\ 1 \in 1 .. Len(main.cmds)
      BY <1>20, CommandHead
    <3>3. Turns(main.cmds, e)
      BY <3>1, <3>2 DEF Turns
    <3>. QED BY <1>2, <3>3
  <2>4. CASE host'.at = "close" /\ conns'[host'.conn].chan = e
    BY <1>3, <1>20, <2>4
  <2>. QED BY <1>2, <1>20, <2>2, <2>3, <2>4 DEF Changes
<1>21. ASSUME NEW p, NEW d, Done(p, d) PROVE main'.cmds = Tail(main.cmds) /\ main'.at = p /\ main'.chan = d
  BY <1>0, <1>21 DEF Done
<1>22. CASE open_fun
  <2>1. NextCommand("OPEN") /\ port' = port
    BY <1>22 DEF open_fun
  <2>2. CASE NoChannel(Head(main.cmds).n)
    BY <1>20, <1>21, <1>22, <2>1, <2>2 DEF open_fun
  <2>3. CASE ~NoChannel(Head(main.cmds).n)
    <3>1. /\ host' = [host EXCEPT !.conn = Len(conns) + 1]
          /\ \E f : main' = [main EXCEPT !.at = "open", !.cmds = Tail(main.cmds), !.chan = Head(main.cmds).n, !.file = f]
      BY <1>22, <2>3 DEF open_fun
    <3>2. main'.cmds = Tail(main.cmds) /\ main'.chan = Head(main.cmds).n
      BY <1>0, <3>1
    <3>3. host'.at # "close"
      <4>1. Underway("OPEN")
        BY <2>1, CommandHead DEF Underway, Has
      <4>2. host.at = "accept"
        BY <4>1 DEF ProcessInv, OpenInv
      <4>. QED BY <1>0, <3>1, <4>2
    <3>. QED BY <1>20, <2>1, <3>2, <3>3
  <2>. QED BY <2>2, <2>3
<1>23. CASE close_fun
  <2>1. NextCommand("CLOSE") /\ port' = port /\ host' = host /\ (Done("command", 0) \/ Done("close", Head(main.cmds).n))
    BY <1>23 DEF close_fun, sockVars
  <2>. QED BY <1>20, <1>21, <2>1
<1>24. CASE frame_fun \/ run_fun
  <2>1. (NextCommand("FRAME") \/ NextCommand("RUN")) /\ port' = port /\ host' = host /\ Done("command", 0)
    BY <1>24 DEF frame_fun, run_fun, sockVars
  <2>. QED BY <1>20, <1>21, <2>1
<1>. QED BY <1>6, <1>8, <1>9, <1>11, <1>12, <1>13, <1>14, <1>15, <1>16, <1>17, <1>18, <1>19, <1>22, <1>23, <1>24
     DEF Next, HostCall, HostStep, MainStep, AppCall, AppStep

\* A channel that is not being changed keeps its connection.
LEMMA ConnOfStays ==
  ASSUME Kinds, Kinds', ProcessInv, Next, NEW e \in Chans, ~Pending(e)
  PROVE  chfd'[e] = chfd[e] /\ ConnOf(e)' = ConnOf(e)
<1> DEFINE Goal == chfd'[e] = chfd[e] /\ ConnOf(e)' = ConnOf(e)
<1>0. /\ fds \in [Files -> Nat] /\ chfd \in [Chans -> {0} \cup Files] /\ 0 \notin Files
      /\ ~Turns(main.cmds, e) /\ ~(main.at \in {"open", "close"} /\ main.chan = e)
  <2>1. 0 \notin Files
    BY DEF Files
  <2>2. ~Turns(main.cmds, e) /\ ~Changes(e, main, host, conns)
    BY PendingIs
  <2>. QED BY <2>1, <2>2 DEF Changes, Kinds, FileKinds
<1>1. ASSUME UNCHANGED <<fds, chfd>> PROVE Goal
  BY <1>1 DEF ConnOf
<1>2. ASSUME \/ connect_plug \/ Accept \/ CloseFile \/ FrameMade \/ run_program_plug \/ Begin \/ Select
             \/ process_port \/ frame_fun \/ run_fun \/ PortDone \/ NextChannel \/ collect_channel_data
             \/ process_254
             \/ \E c \in Chans : channel_open_plug(c)
             \/ \E k \in DOMAIN conns : channel_close_plug(k) \/ writeln_plug(k) \/ readbuf_plug(k)
             \/ \E f \in Frames : make_frame_plug(f) \/ delete_frame_plug(f)
             \/ \E a \in Apps : FindLine(a) \/ SetFill(a) \/ TimesOut(a) \/ WriteBegins(a) \/ WriteEnds(a)
             \/ \E a \in Apps : ise_plug_frame_unlock(a)
             \/ \E a \in Apps, c \in AppChans : ise_plug_writeln(a, c)
             \/ \E a \in Apps, c \in AppChans, d \in Delays : ise_plug_readln(a, c, d)
             \/ \E a \in Apps, f \in Frames : ise_plug_frame_lock(a, f)
      PROVE  Goal
  BY <1>1, <1>2 DEF connect_plug, Accept, CloseFile, FrameMade, run_program_plug,
       channel_open_plug, channel_close_plug, writeln_plug, readbuf_plug, make_frame_plug,
       delete_frame_plug, Begin, Select, process_port, frame_fun, run_fun, PortDone, NextChannel,
       collect_channel_data, process_254, FindLine, SetFill, TimesOut, WriteBegins, WriteEnds,
       ise_plug_frame_unlock, ise_plug_writeln, ise_plug_readln, ise_plug_frame_lock, sockVars,
       chanVars, frameVars
<1>3. chfd[e] # 0 => chfd[e] \in Files /\ ConnOf(e) = fds[chfd[e]] /\ ConnOf(e) # 0 /\ conns[ConnOf(e)].chan = e
  BY <1>0, ChannelConn DEF ProcessInv, FileInv, ChannelFile, ConnOf
<1>4. ASSUME NEW o, o \in {"OPEN", "CLOSE"}, NextCommand(o), main.chan = main.chan
      PROVE  Head(main.cmds).n # e /\ Head(main.cmds).n \in Chans /\ main.at = "command"
  <2>1. /\ Head(main.cmds) \in Cmd /\ Head(main.cmds) = main.cmds[1] /\ Head(main.cmds).op = o
        /\ 1 \in 1 .. Len(main.cmds) /\ main.at = "command"
    BY <1>4, CommandHead
  <2>2. Head(main.cmds).n \in Chans
    BY <1>4, <2>1 DEF Cmd
  <2>3. Head(main.cmds).n # e
    BY <1>0, <1>4, <2>1 DEF Turns
  <2>. QED BY <2>1, <2>2, <2>3
<1>5. ASSUME NEW c \in Chans, c # e, main.at = "command", chfd[e] # 0 PROVE chfd[c] # chfd[e]
  <2> SUFFICES ASSUME chfd[c] = chfd[e] PROVE FALSE
    OBVIOUS
  <2>1. ConnOf(c) = ConnOf(e) /\ chfd[c] # 0
    BY <1>5 DEF ConnOf
  <2>2. conns[ConnOf(c)].chan = c
    BY <1>5, <2>1 DEF ProcessInv, FileInv, ChannelFile
  <2>. QED BY <1>3, <1>5, <2>1, <2>2
<1>6. CASE open_fun
  <2>0. NextCommand("OPEN") /\ chfd' = chfd
    BY <1>6 DEF open_fun
  <2>1. PICK c \in Chans : c = Head(main.cmds).n /\ c # e /\ main.at = "command"
    BY <1>4, <2>0
  <2>2. CASE NoChannel(c)
    BY <1>1, <1>6, <2>0, <2>1, <2>2 DEF open_fun
  <2>3. CASE ~NoChannel(c)
    <3>1. PICK f \in Files : f = Min({g \in Files : fds[g] = 0}) /\ fds[f] = 0
      BY <2>0, FreeFile DEF ProcessInv
    <3>2. PICK k \in Nat : k = Len(conns) + 1
      BY ConnsAre
    <3>3. fds' = [g \in Files |-> IF g = f THEN k ELSE IF g = chfd[c] THEN 0 ELSE fds[g]]
      BY <1>6, <2>1, <2>3, <3>1, <3>2 DEF open_fun
    <3>4. CASE chfd[e] = 0
      BY <2>0, <3>4 DEF ConnOf
    <3>5. CASE chfd[e] # 0
      <4>1. chfd[e] # f /\ chfd[e] # chfd[c]
        BY <1>3, <1>5, <2>1, <3>1, <3>5
      <4>2. fds'[chfd[e]] = fds[chfd[e]]
        BY <1>3, <3>3, <3>5, <4>1
      <4>. QED BY <2>0, <4>2 DEF ConnOf
    <3>. QED BY <3>4, <3>5
  <2>. QED BY <2>2, <2>3
<1>7. CASE OpenDone
  <2>1. main.at = "open" /\ fds' = fds /\ chfd' = [chfd EXCEPT ![main.chan] = main.file]
    BY <1>7 DEF OpenDone
  <2>2. main.chan # e
    BY <1>0, <2>1
  <2>3. chfd'[e] = chfd[e]
    BY <1>0, <2>1, <2>2
  <2>. QED BY <2>1, <2>3 DEF ConnOf
<1>8. CASE close_fun
  <2>0. NextCommand("CLOSE") /\ chfd' = chfd
    BY <1>8 DEF close_fun
  <2>1. PICK c \in Chans : c = Head(main.cmds).n /\ c # e /\ main.at = "command"
    BY <1>4, <2>0
  <2>2. fds' = fds \/ fds' = [fds EXCEPT ![chfd[c]] = 0]
    BY <1>8, <2>1 DEF close_fun
  <2>3. CASE chfd[e] = 0
    BY <2>0, <2>3 DEF ConnOf
  <2>4. CASE chfd[e] # 0
    <3>1. fds'[chfd[e]] = fds[chfd[e]]
      BY <1>0, <1>3, <1>5, <2>1, <2>2, <2>4
    <3>. QED BY <2>0, <3>1 DEF ConnOf
  <2>. QED BY <2>3, <2>4
<1>9. CASE CloseDone
  <2>1. main.at = "close" /\ fds' = fds /\ chfd' = [chfd EXCEPT ![main.chan] = 0]
    BY <1>9 DEF CloseDone, NumberGone
  <2>2. main.chan # e
    BY <1>0, <2>1
  <2>3. chfd'[e] = chfd[e]
    BY <1>0, <2>1, <2>2
  <2>. QED BY <2>1, <2>3 DEF ConnOf
<1>. QED BY <1>2, <1>6, <1>7, <1>8, <1>9
     DEF Next, HostCall, HostStep, MainStep, AppCall, AppStep

\* Thread a stays on its channel, or leaves it, and writes where its channel is connected.
Keeps(a) ==
  /\ app'[a].chan \in Chans => app'[a].chan = app[a].chan /\ (app[a].crossed => app'[a].crossed)
  /\ app'[a].at \in Writing => app[a].at \in Writing /\ app'[a].chan = app[a].chan /\ (app[a].crossed => app'[a].crossed)
  /\ app'[a].at \in {"write text", "write newline"} =>
       \/ app[a].at \in {"write text", "write newline"} /\ app'[a].n = app[a].n
       \/ app'[a].n = ConnOf(app[a].chan) /\ app'[a].n \in 1 .. Len(conns)

LEMMA AppKeeps ==
  ASSUME Kinds, ProcessInv, Next, NEW a \in Apps
  PROVE  \/ Keeps(a)
         \/ \E c \in AppChans : ise_plug_writeln(a, c) \/ \E d \in Delays : ise_plug_readln(a, c, d)
<1> DEFINE Goal == \/ Keeps(a)
                   \/ \E c \in AppChans : ise_plug_writeln(a, c) \/ \E d \in Delays : ise_plug_readln(a, c, d)
<1>0. Chans \subseteq Nat /\ {"absent", "idle", "frame", "readln", "wait", "woken", "fill"} \cap Writing = {}
      /\ {"write text", "write newline"} \subseteq Writing /\ -1 \notin Chans
      /\ "text" \in Writing /\ "newline" \in Writing
  BY PlugAssumption DEF Writing
<1>1. ASSUME app'[a] = app[a] PROVE Keeps(a)
  BY <1>0, <1>1 DEF Keeps
<1>2. ASSUME SamePlaces PROVE Keeps(a)
  <2>1. CASE app'[a].at = app[a].at
    BY <1>0, <1>2, <2>1 DEF Keeps, SamePlaces
  <2>2. CASE app'[a].at \in {"wait", "woken"}
    BY <1>0, <1>2, <2>2 DEF Keeps, SamePlaces
  <2>. QED BY <1>2, <2>1, <2>2 DEF SamePlaces
<1>3. ASSUME NEW b \in Apps, NEW place, NEW c, NEW n, NEW x, Moves(b, place, c, n, x), 
             b = a => Keeps(a)
      PROVE  Keeps(a)
  BY <1>1, <1>3 DEF Moves
<1>4. ASSUME NEW place, place \notin Writing, NEW c, c = app[a].chan \/ c = -1, NEW n, Moves(a, place, c, n, app[a].crossed) \/ (c = -1 /\ Moves(a, place, c, n, FALSE))
      PROVE  Keeps(a)
  BY <1>0, <1>4 DEF Keeps, Moves
<1>5. ASSUME UNCHANGED app PROVE Goal
  BY <1>1, <1>5
<1>6. ASSUME \/ connect_plug \/ Accept \/ CloseFile \/ FrameMade \/ run_program_plug \/ Begin \/ Select
             \/ process_port \/ open_fun \/ OpenDone \/ close_fun \/ CloseDone \/ frame_fun \/ PortDone
             \/ NextChannel \/ process_254
             \/ \E k \in DOMAIN conns : writeln_plug(k) \/ readbuf_plug(k)
             \/ \E f \in Frames : make_frame_plug(f) \/ delete_frame_plug(f)
      PROVE  Goal
  BY <1>5, <1>6 DEF connect_plug, Accept, CloseFile, FrameMade, run_program_plug, writeln_plug,
       readbuf_plug, make_frame_plug, delete_frame_plug, Begin, Select, process_port, open_fun,
       OpenDone, close_fun, CloseDone, frame_fun, PortDone, NextChannel, process_254, sockVars,
       chanVars, frameVars
<1>7. ASSUME NEW c \in Chans, Cross(c) PROVE Keeps(a)
  BY <1>2, <1>7, CrossMoves DEF SamePlaces
<1>8. ASSUME NEW c \in Chans, channel_open_plug(c) PROVE Goal
  BY <1>7, <1>8 DEF channel_open_plug
<1>9. ASSUME NEW k \in DOMAIN conns, channel_close_plug(k) PROVE Goal
  <2>1. conns[k].chan \in Chans
    BY ConnsAre, ConnIs
  <2>. QED BY <1>7, <1>9, <2>1 DEF channel_close_plug
<1>10. CASE collect_channel_data
  <2>1. Wake(main.chan, Min({Len(conns[ConnOf(main.chan)].down), BufMax - fill[main.chan]}))
    BY <1>10 DEF collect_channel_data
  <2>. QED BY <1>2, <2>1, WakeMoves DEF SamePlaces
<1>11. ASSUME NEW b \in Apps, NEW place \in AppPlaces \ Writing, app' = [app EXCEPT ![b].at = place] PROVE Keeps(a)
  <2>1. Moves(b, place, app[b].chan, app[b].n, app[b].crossed)
    BY <1>11, GoesMoves
  <2>2. b = a => Keeps(a)
    BY <1>4, <2>1
  <2>. QED BY <1>3, <2>1, <2>2
<1>12. "idle" \in AppPlaces /\ "frame" \in AppPlaces /\ "woken" \in AppPlaces
  BY DEF AppPlaces, Reading
<1>13. CASE run_fun
  <2>1. \E b \in Apps : app' = [app EXCEPT ![b].at = "idle"]
    BY <1>13 DEF run_fun
  <2>. QED BY <1>0, <1>11, <1>12, <2>1
<1>14. ASSUME NEW b \in Apps, TimesOut(b) \/ ise_plug_frame_unlock(b) \/ \E f \in Frames : ise_plug_frame_lock(b, f) PROVE Goal
  <2>1. AppGoes(b, "woken") \/ AppGoes(b, "idle") \/ AppGoes(b, "frame")
    BY <1>14 DEF TimesOut, ise_plug_frame_lock, ise_plug_frame_unlock
  <2>. QED BY <1>0, <1>11, <1>12, <2>1 DEF AppGoes
<1>15. ASSUME NEW b \in Apps, FindLine(b) PROVE Goal
  <2>1. PICK c \in Chans : c = app[b].chan /\ (Finds(b, c, LineLen(c)) \/ FindsNone(b, c))
    BY <1>15, FindLineMoves
  <2>2. \/ \E n : Moves(b, "fill", c, n, app[b].crossed)
        \/ Moves(b, "wait", c, app[b].n, app[b].crossed)
        \/ Moves(b, "idle", -1, 0, FALSE)
    BY <2>1 DEF Finds, FindsNone
  <2>3. b = a => Keeps(a)
    BY <1>0, <1>4, <2>1, <2>2
  <2>. QED BY <1>3, <2>2, <2>3
<1>16. ASSUME NEW b \in Apps, SetFill(b) PROVE Goal
  <2>1. Moves(b, "idle", -1, 0, FALSE)
    BY <1>16, SetFillMoves
  <2>2. b = a => Keeps(a)
    BY <1>0, <1>4, <2>1
  <2>. QED BY <1>3, <2>1, <2>2
<1>17. ASSUME NEW b \in Apps, WriteBegins(b) PROVE Goal
  <2>1. app[b].at \in Writing
    BY <1>0, <1>17, WriteBeginsMoves
  <2>2. CASE Moves(b, "idle", -1, 0, FALSE)
    BY <1>0, <1>3, <1>4, <2>2
  <2>3. ASSUME NEW k \in 1 .. Len(conns), NEW place \in {"write text", "write newline"}, k = ConnOf(app[b].chan),
               Moves(b, place, app[b].chan, k, app[b].crossed)
        PROVE  Keeps(a)
    <3>1. b = a => Keeps(a)
      BY <1>0, <2>1, <2>3 DEF Keeps, Moves
    <3>. QED BY <1>3, <2>3, <3>1
  <2>4. UNCHANGED app => Keeps(a)
    BY <1>1
  <2>. QED BY <1>17, <2>2, <2>3, <2>4, WriteBeginsMoves
<1>18. ASSUME NEW b \in Apps, WriteEnds(b) PROVE Goal
  <2>1. app[b].at \in Writing
    BY <1>0, <1>18, WriteEndsMoves
  <2>2. CASE Moves(b, "idle", -1, 0, FALSE)
    BY <1>0, <1>3, <1>4, <2>2
  <2>3. CASE Moves(b, "newline", app[b].chan, app[b].n, app[b].crossed)
    <3>1. b = a => Keeps(a)
      BY <1>0, <2>1, <2>3 DEF Keeps, Moves
    <3>. QED BY <1>3, <2>3, <3>1
  <2>4. UNCHANGED app => Keeps(a)
    BY <1>1
  <2>. QED BY <1>18, <2>2, <2>3, <2>4, WriteEndsMoves
<1>19. ASSUME NEW b \in Apps, NEW c \in AppChans, ise_plug_writeln(b, c) PROVE Goal
  <2>1. app' = [app EXCEPT ![b] = [at |-> "text", chan |-> c, delay |-> "none", n |-> 0, crossed |-> ~Settled(c)]]
    BY <1>19 DEF ise_plug_writeln, AppBegins
  <2>2. b # a => app'[a] = app[a]
    BY <2>1 DEF Kinds, AppKinds
  <2>. QED BY <1>1, <1>19, <2>2
<1>20. ASSUME NEW b \in Apps, NEW c \in AppChans, NEW d \in Delays, ise_plug_readln(b, c, d) PROVE Goal
  <2>1. app' = [app EXCEPT ![b] = [at |-> "readln", chan |-> c, delay |-> d, n |-> 0, crossed |-> ~Settled(c)]]
    BY <1>20 DEF ise_plug_readln, AppBegins
  <2>2. b # a => app'[a] = app[a]
    BY <2>1 DEF Kinds, AppKinds
  <2>. QED BY <1>1, <1>20, <2>2
<1>. QED BY <1>6, <1>8, <1>9, <1>10, <1>13, <1>14, <1>15, <1>16, <1>17, <1>18, <1>19, <1>20
     DEF Next, HostCall, HostStep, MainStep, AppCall, AppStep

LEMMA CrossStep ==
  ASSUME Kinds, Kinds', ProcessInv, Next
  PROVE  CrossInv'
<1>0. /\ Chans \subseteq Nat /\ DOMAIN conns = 1 .. Len(conns) /\ DOMAIN conns' = 1 .. Len(conns')
      /\ Len(conns) \in Nat /\ Len(conns') \in Nat /\ Len(conns) <= Len(conns')
      /\ \A k \in 1 .. Len(conns) : conns'[k].chan = conns[k].chan
  <2>1. conns' \in Seq(Conn)
    BY DEF Kinds, ConnKinds
  <2>. QED BY <2>1, PlugAssumption, ConnsAre, ConnStep, LenProperties DEF ConnsGrow
<1>1. /\ \A c \in Chans : Pending(c) => \A a \in Apps : app[a].chan = c => app[a].crossed
      /\ \A a \in Apps : app[a].at \in Writing /\ ~app[a].crossed =>
           ConnOf(app[a].chan) # 0 /\ conns[ConnOf(app[a].chan)].open
      /\ \A a \in Apps : app[a].at \in {"write text", "write newline"} =>
           app[a].n \in DOMAIN conns /\ (~app[a].crossed => app[a].n = ConnOf(app[a].chan))
  BY DEF ProcessInv, CrossInv
\* A call that begins.
<1>2. ASSUME NEW a \in Apps, NEW c \in AppChans, ise_plug_writeln(a, c) \/ \E d \in Delays : ise_plug_readln(a, c, d)
      PROVE  /\ app'[a].chan = c /\ c \in Chans /\ app'[a].crossed = ~Settled(c) /\ conns' = conns
             /\ app'[a].at = "readln" \/ (app'[a].at = "text" /\ chfd[c] # 0)
  <2>0. c \in Chans /\ conns' = conns
    BY <1>2 DEF AppChans, ise_plug_writeln, ise_plug_readln, sockVars
  <2>1. CASE ise_plug_writeln(a, c)
    <3>1. AppBegins(a, "text", c, "none") /\ chfd[c] # 0
      BY <2>1 DEF ise_plug_writeln, Connected
    <3>2. "text" \in AppPlaces
      BY DEF AppPlaces, Writing
    <3>3. Moves(a, "text", c, 0, ~Settled(c))
      BY <3>1, <3>2, BeginsMoves
    <3>. QED BY <2>0, <3>1, <3>3 DEF Moves
  <2>2. ASSUME NEW d \in Delays, ise_plug_readln(a, c, d) PROVE Moves(a, "readln", c, 0, ~Settled(c))
    <3>1. AppBegins(a, "readln", c, d) /\ d \in {"none", "timed", "forever"}
      BY <2>2, PlugAssumption DEF ise_plug_readln
    <3>2. "readln" \in AppPlaces
      BY DEF AppPlaces, Reading
    <3>. QED BY <3>1, <3>2, BeginsMoves
  <2>. QED BY <1>2, <2>0, <2>1, <2>2 DEF Moves
\* While a channel is changed, its calls are crossed.
<1>3. ASSUME NEW c \in Chans, Pending(c)', NEW a \in Apps, app'[a].chan = c PROVE app'[a].crossed
  <2>1. ASSUME Cross(c) PROVE app'[a].crossed
    BY <1>3, <2>1, CrossMoves
  <2>2. ASSUME NEW k \in DOMAIN conns, channel_close_plug(k), conns[k].chan = c PROVE app'[a].crossed
    BY <2>1, <2>2 DEF channel_close_plug
  <2>3. CASE channel_open_plug(c)
    BY <2>1, <2>3 DEF channel_open_plug
  <2>4. CASE Pending(c)
    <3>1. CASE Keeps(a)
      BY <1>1, <1>3, <2>4, <3>1 DEF Keeps
    <3>2. ASSUME NEW d \in AppChans, ise_plug_writeln(a, d) \/ \E e \in Delays : ise_plug_readln(a, d, e) PROVE app'[a].crossed
      <4>1. app'[a].chan = d /\ app'[a].crossed = ~Settled(d)
        BY <1>2, <3>2
      <4>. QED BY <1>3, <2>4, <4>1 DEF Settled
    <3>. QED BY <3>1, <3>2, AppKeeps
  <2>. QED BY <1>3, <2>2, <2>3, <2>4, PendingComes
\* A call that is not crossed keeps its connection.
<1>4. ASSUME NEW a \in Apps, Keeps(a), app'[a].at \in Writing, ~app'[a].crossed
      PROVE  /\ app'[a].chan = app[a].chan /\ app[a].chan \in Chans /\ app[a].at \in Writing /\ ~app[a].crossed
             /\ ConnOf(app[a].chan) \in 1 .. Len(conns) /\ conns'[ConnOf(app[a].chan)].open
             /\ \A e \in Chans : e = app[a].chan => ConnOf(e)' = ConnOf(e)
  <2>1. /\ app'[a].chan = app[a].chan /\ app[a].chan \in Chans /\ app[a].at \in Writing /\ ~app[a].crossed
    BY <1>4, AppHas DEF Keeps
  <2>2. PICK e \in Chans : e = app[a].chan
    BY <2>1
  <2>3. ~Pending(e) /\ ConnOf(e) # 0 /\ conns[ConnOf(e)].open
    BY <1>1, <2>1, <2>2
  <2>4. ConnOf(e)' = ConnOf(e)
    BY <2>3, ConnOfStays
  <2>5. chfd[e] # 0
    BY <2>3 DEF ConnOf
  <2>6. ~Changes(e, main, host, conns)
    BY <2>3, PendingIs
  <2>7. ConnOf(e) \in 1 .. Len(conns) /\ conns[ConnOf(e)].chan = e
    BY <2>5, <2>6, ChannelConn DEF Changes, ProcessInv
  <2>8. ~(host.at = "close" /\ host.conn = ConnOf(e))
    BY <2>6, <2>7 DEF Changes
  <2>9. conns'[ConnOf(e)].open
    BY <2>3, <2>7, <2>8, OpenStays
  <2>. QED BY <2>1, <2>2, <2>4, <2>7, <2>9
<1>5. ASSUME NEW a \in Apps, app'[a].at \in Writing, ~app'[a].crossed
      PROVE  \A e \in Chans : e = app'[a].chan => ConnOf(e)' # 0 /\ conns'[ConnOf(e)'].open
  <2>1. CASE Keeps(a)
    BY <1>4, <1>5, <2>1
  <2>2. ASSUME NEW c \in AppChans, ise_plug_writeln(a, c) \/ \E d \in Delays : ise_plug_readln(a, c, d)
        PROVE  \A e \in Chans : e = app'[a].chan => ConnOf(e)' # 0 /\ conns'[ConnOf(e)'].open
    <3>1. app'[a].chan = c /\ c \in Chans /\ Settled(c) /\ conns' = conns /\ chfd[c] # 0
      BY <1>2, <1>5, <2>2 DEF Writing
    <3>2. ~Pending(c) /\ ConnOf(c) # 0 /\ conns[ConnOf(c)].open
      BY <3>1 DEF Settled
    <3>3. ConnOf(c)' = ConnOf(c)
      BY <3>1, <3>2, ConnOfStays
    <3>. QED BY <3>1, <3>2, <3>3
  <2>. QED BY <2>1, <2>2, AppKeeps
<1>6. ASSUME NEW a \in Apps, app'[a].at \in {"write text", "write newline"}
      PROVE  /\ app'[a].n \in DOMAIN conns'
             /\ \A e \in Chans : e = app'[a].chan => (~app'[a].crossed => app'[a].n = ConnOf(e)')
  <2>1. Keeps(a) /\ app'[a].at \in Writing
    <3>1. ASSUME NEW c \in AppChans, ise_plug_writeln(a, c) \/ \E d \in Delays : ise_plug_readln(a, c, d) PROVE FALSE
      BY <1>2, <1>6, <3>1
    <3>. QED BY <1>6, <3>1, AppKeeps DEF Writing
  <2>2. \/ app[a].at \in {"write text", "write newline"} /\ app'[a].n = app[a].n
        \/ app'[a].n = ConnOf(app[a].chan) /\ app'[a].n \in 1 .. Len(conns)
    BY <1>6, <2>1 DEF Keeps
  <2>3. app'[a].n \in 1 .. Len(conns)
    BY <1>0, <1>1, <2>2
  <2>4. app'[a].n \in DOMAIN conns'
    BY <1>0, <2>3
  <2>5. ASSUME ~app'[a].crossed, NEW e \in Chans, e = app'[a].chan PROVE app'[a].n = ConnOf(e)'
    <3>1. e = app[a].chan /\ ~app[a].crossed /\ ConnOf(e)' = ConnOf(e)
      BY <1>4, <2>1, <2>5
    <3>. QED BY <1>1, <2>2, <3>1
  <2>. QED BY <2>4, <2>5
<1>7. \A a \in Apps : app'[a].at \in Writing => app'[a].chan \in Chans
  <2>1. \A a \in Apps : app'[a].at \in Writing => app'[a].chan \in AppChans \cup {-1} /\ app'[a].chan # -1
    BY DEF Kinds, AppKinds, AppState
  <2>. QED BY <2>1 DEF AppChans
<1>8. {"write text", "write newline"} \subseteq Writing
  BY DEF Writing
<1>9. ASSUME NEW a \in Apps, app'[a].at \in Writing, ~app'[a].crossed
      PROVE  ConnOf(app[a].chan)' # 0 /\ conns'[ConnOf(app[a].chan)'].open
  <2>1. PICK e \in Chans : e = app'[a].chan
    BY <1>7, <1>9
  <2>2. ConnOf(app[a].chan)' = ConnOf(e)'
    BY <2>1 DEF ConnOf
  <2>. QED BY <1>5, <1>9, <2>1, <2>2
<1>10. ASSUME NEW a \in Apps, app'[a].at \in {"write text", "write newline"}
       PROVE  app'[a].n \in DOMAIN conns' /\ (~app'[a].crossed => app'[a].n = ConnOf(app[a].chan)')
  <2>1. PICK e \in Chans : e = app'[a].chan
    BY <1>7, <1>8, <1>10
  <2>2. ConnOf(app[a].chan)' = ConnOf(e)'
    BY <2>1 DEF ConnOf
  <2>. QED BY <1>6, <1>10, <2>1, <2>2
<1>. QED BY <1>3, <1>9, <1>10 DEF CrossInv

-----------------------------------------------------------------------------
(* The invariant of the processes. *)

LEMMA KindsInit ==
  Init => Kinds
<1> SUFFICES ASSUME Init PROVE Kinds
  OBVIOUS
<1>0. /\ <<>> \in Seq(Cmd) /\ <<>> \in Seq({"HELLO", "FRAME"}) /\ <<>> \in Seq(Conn) /\ <<>> \in Seq(Char)
      /\ MaxMakes \in Nat
  BY PlugAssumption
<1>1. PipeKinds /\ ConnKinds
  BY <1>0 DEF Init, PipeKinds, ConnKinds
<1>2. FileKinds
  BY <1>0 DEF Init, FileKinds, Files
<1>3. TextKinds
  BY <1>0 DEF Init, TextKinds
<1>4. FrameKinds
  BY DEF Init, FrameKinds
<1>5. MainKinds
  BY <1>0 DEF Init, MainKinds, MainPlaces
<1>6. HostKinds
  BY DEF Init, HostKinds, HostPlaces
<1>7. AppKinds
  BY DEF Init, AppKinds, AppState, Writing, Reading
<1>. QED BY <1>1, <1>2, <1>3, <1>4, <1>5, <1>6, <1>7 DEF Kinds

LEMMA ProcessInit ==
  Init => ProcessInv
<1> SUFFICES ASSUME Init PROVE ProcessInv
  OBVIOUS
<1>0. /\ port = <<>> /\ main.cmds = <<>> /\ main.at = "begin" /\ replies = <<>> /\ conns = <<>>
      /\ host = [at |-> "hello", conn |-> 0] /\ makes = 0 /\ MaxMakes \in Nat /\ BufMax \in Nat
      /\ Len(<<>>) = 0 /\ Range(<<>>) = {}
  BY PlugAssumption, EmptySeq DEF Init, Range
<1>1. \A op \in {"OPEN", "FRAME"} : ~Underway(op) /\ OneUnderway(op)
  BY <1>0 DEF Underway, OneUnderway, Has, Once
<1>2. OpenInv
  BY <1>0, <1>1 DEF OpenInv
<1>3. FrameInv
  <2>1. \A f \in Frames : hbase[f] = 0
    BY DEF Init
  <2>. QED BY <1>0, <1>1, <2>1 DEF FrameInv, AsSent
<1>4. FileInv
  <2>1. (\A f \in Files : fds[f] = 0) /\ (\A c \in Chans : chfd[c] = 0)
    BY DEF Init
  <2>. QED BY <1>0, <2>1 DEF FileInv, ChannelFile
<1>5. \A a \in Apps : app[a].at = "absent" /\ app[a].chan = -1
  BY DEF Init
<1>6. \A c \in Chans : lock[c] = None /\ fill[c] = 0 /\ cbuf[c] = <<>>
  BY DEF Init
<1>7. LockInv
  BY <1>0, <1>5, <1>6, PlugAssumption DEF LockInv, Holding, Writing
<1>8. BufInv
  BY <1>0, <1>5, <1>6 DEF BufInv, NoLine, Filled
<1>9. CrossInv
  <2>1. \A c \in Chans : ~Pending(c)
    BY <1>0 DEF Pending
  <2>. QED BY <1>5, <2>1 DEF CrossInv, Writing
<1>. QED BY <1>2, <1>3, <1>4, <1>7, <1>8, <1>9 DEF ProcessInv

LEMMA ProcessStutters ==
  ASSUME Kinds, ProcessInv, UNCHANGED vars
  PROVE  Kinds' /\ ProcessInv'
<1>0. /\ port' = port /\ replies' = replies /\ conns' = conns /\ fds' = fds /\ chfd' = chfd /\ cbuf' = cbuf
      /\ fill' = fill /\ lock' = lock /\ fbase' = fbase /\ flock' = flock /\ hbase' = hbase /\ makes' = makes
      /\ main' = main /\ host' = host /\ app' = app /\ told' = told /\ dead' = dead
  BY DEF vars, sockVars, chanVars, frameVars
<1>1. Kinds'
  BY <1>0 DEF Kinds, PipeKinds, ConnKinds, FileKinds, TextKinds, FrameKinds, MainKinds, HostKinds, AppKinds
<1>2. OpenInv' /\ FrameInv'
  BY <1>0 DEF ProcessInv, OpenInv, FrameInv, OneUnderway, Underway, Has, Once, AsSent
<1>3. FileInv' /\ LockInv'
  BY <1>0 DEF ProcessInv, FileInv, ChannelFile, ConnOf, LockInv
<1>4. BufInv'
  BY <1>0 DEF ProcessInv, BufInv, Filled, NoLine, Alive
<1>5. CrossInv'
  BY <1>0 DEF ProcessInv, CrossInv, Pending, ConnOf
<1>. QED BY <1>1, <1>2, <1>3, <1>4, <1>5 DEF ProcessInv

LEMMA ProcessKept ==
  Spec => [](Kinds /\ ProcessInv)
<1>1. ASSUME Kinds, ProcessInv, Next PROVE Kinds' /\ ProcessInv'
  <2>1. Kinds'
    BY <1>1, KindsStep
  <2>2. OpenInv' /\ FrameInv'
    BY <1>1, OpenStep, FrameStep
  <2>3. FileInv' /\ LockInv'
    BY <1>1, FileInvStep, LockStep
  <2>4. BufInv' /\ CrossInv'
    BY <1>1, <2>1, BufStep, CrossStep
  <2>. QED BY <2>1, <2>2, <2>3, <2>4 DEF ProcessInv
<1>2. Kinds /\ ProcessInv /\ [Next]_vars => Kinds' /\ ProcessInv'
  BY <1>1, ProcessStutters
<1>. QED BY <1>2, KindsInit, ProcessInit, PTL DEF Spec

-----------------------------------------------------------------------------
(* Frames. *)

\* Only frame_fun changes the plug-in's frames.
LEMMA FrameHeld ==
  ASSUME Kinds, Next
  PROVE  \A f \in Frames : flock[f] # None => fbase'[f] = fbase[f]
<1> DEFINE Stays == \A f \in Frames : flock[f] # None => fbase'[f] = fbase[f]
<1>1. ASSUME UNCHANGED fbase PROVE Stays
  BY <1>1
<1>2. ASSUME \/ connect_plug \/ Accept \/ CloseFile \/ FrameMade \/ run_program_plug \/ Begin \/ Select
             \/ process_port \/ open_fun \/ OpenDone \/ close_fun \/ CloseDone \/ run_fun \/ PortDone
             \/ NextChannel \/ collect_channel_data \/ process_254
             \/ \E c \in Chans : channel_open_plug(c)
             \/ \E k \in DOMAIN conns : channel_close_plug(k) \/ writeln_plug(k) \/ readbuf_plug(k)
             \/ \E f \in Frames : make_frame_plug(f) \/ delete_frame_plug(f)
             \/ \E a \in Apps : FindLine(a) \/ SetFill(a) \/ TimesOut(a) \/ WriteBegins(a) \/ WriteEnds(a)
             \/ \E a \in Apps : ise_plug_frame_unlock(a)
             \/ \E a \in Apps, c \in AppChans : ise_plug_writeln(a, c)
             \/ \E a \in Apps, c \in AppChans, d \in Delays : ise_plug_readln(a, c, d)
             \/ \E a \in Apps, f \in Frames : ise_plug_frame_lock(a, f)
      PROVE  Stays
  BY <1>1, <1>2 DEF connect_plug, Accept, CloseFile, FrameMade, run_program_plug,
       channel_open_plug, channel_close_plug, writeln_plug, readbuf_plug, make_frame_plug,
       delete_frame_plug, Begin, Select, process_port, open_fun, OpenDone, close_fun, CloseDone,
       run_fun, PortDone, NextChannel, collect_channel_data, process_254, FindLine, SetFill,
       TimesOut, WriteBegins, WriteEnds, ise_plug_frame_unlock, ise_plug_writeln, ise_plug_readln,
       ise_plug_frame_lock, sockVars, chanVars, frameVars
<1>3. CASE frame_fun
  <2>1. fbase \in [Frames -> Nat] /\ \E e, m : flock[e] = None /\ fbase' = [fbase EXCEPT ![e] = m]
    BY <1>3 DEF frame_fun, FrameFree, Mapped, Kinds, FrameKinds
  <2>. QED BY <2>1
<1>. QED BY <1>2, <1>3
     DEF Next, HostCall, HostStep, MainStep, AppCall, AppStep

\* After ise_make_frame and until ise_delete_frame host and plug-in have the same
\* frame (make_frame_plug waits for the answer of frame_fun), and the plug-in's
\* stays the same while a thread holds its lock, which frame_fun takes first.
THEOREM FramesKept ==
  Spec => FramesAgree
<1>1. Kinds /\ ProcessInv => SameFrame
  <2> SUFFICES ASSUME Kinds, ProcessInv PROVE SameFrame
    OBVIOUS
  <2>1. host.at = "idle" => ~Underway("FRAME")
    BY DEF ProcessInv, FrameInv
  <2>. QED BY <2>1 DEF SameFrame, ProcessInv, FrameInv
<1>2. Kinds /\ [Next]_vars => [\A f \in Frames : flock[f] # None => fbase'[f] = fbase[f]]_vars
  BY FrameHeld
<1>. QED BY <1>1, <1>2, ProcessKept, PTL DEF Spec, FramesAgree, FrameIsStable

-----------------------------------------------------------------------------
(* Calls do no harm that an OPEN or CLOSE of their channel does not cross. *)

AnswersInv ==
  \A k \in 1 .. Len(conns) : \A i \in 1 .. Len(conns[k].up) :
    conns[k].up[i].crossed \/ conns[k].up[i].chan = conns[k].chan

\* An answer that is written is crossed, or is on the connection of its channel.
LEMMA AnswersStep ==
  ASSUME Kinds, ProcessInv, AnswersInv, Next
  PROVE  AnswersInv'
<1>0. Len(conns) \in Nat /\ \A k \in 1 .. Len(conns) : conns[k].up \in Seq(Answered)
  BY ConnsAre, ConnIs
<1>1. ASSUME UNCHANGED conns PROVE AnswersInv'
  BY <1>1 DEF AnswersInv
<1>2. ASSUME NEW k \in 1 .. Len(conns), NEW o, NEW s, NEW d, NEW u, Changed(k, o, s, d, u),
             u = <<>> \/ u = conns[k].up
                \/ \E y : u = Append(conns[k].up, y) /\ y \in Answered /\ (y.crossed \/ y.chan = conns[k].chan)
      PROVE  AnswersInv'
  <2>1. Len(conns') = Len(conns) /\ \A j \in 1 .. Len(conns) : j # k => conns'[j] = conns[j]
    BY <1>2 DEF Changed
  <2>2. conns'[k].chan = conns[k].chan /\ conns'[k].up = u
    BY <1>2 DEF Changed
  <2>3. PICK w \in Seq(Answered) : w = conns[k].up /\ \A i \in 1 .. Len(w) : w[i].crossed \/ w[i].chan = conns[k].chan
    BY <1>0 DEF AnswersInv
  <2>4. \A i \in 1 .. Len(u) : u[i].crossed \/ u[i].chan = conns[k].chan
    <3>1. CASE u = <<>>
      BY <3>1
    <3>2. CASE u = w
      BY <2>3, <3>2
    <3>3. ASSUME NEW y \in Answered, u = Append(w, y), y.crossed \/ y.chan = conns[k].chan
          PROVE  \A i \in 1 .. Len(u) : u[i].crossed \/ u[i].chan = conns[k].chan
      <4>1. Len(w) \in Nat /\ Len(u) = Len(w) + 1 /\ u[Len(w) + 1] = y /\ \A i \in 1 .. Len(w) : u[i] = w[i]
        BY <3>3, AppendProperties, LenProperties
      <4>. QED BY <2>3, <3>3, <4>1
    <3>. QED BY <1>2, <2>3, <3>1, <3>2, <3>3
  <2>. QED BY <2>1, <2>2, <2>4 DEF AnswersInv
<1>3. ASSUME \/ connect_plug \/ Accept \/ FrameMade \/ run_program_plug \/ Begin \/ Select \/ process_port
             \/ OpenDone \/ close_fun \/ CloseDone \/ frame_fun \/ run_fun \/ PortDone \/ NextChannel
             \/ \E c \in Chans : channel_open_plug(c)
             \/ \E k \in DOMAIN conns : channel_close_plug(k)
             \/ \E f \in Frames : make_frame_plug(f) \/ delete_frame_plug(f)
             \/ \E a \in Apps : FindLine(a) \/ SetFill(a) \/ TimesOut(a) \/ WriteBegins(a)
             \/ \E a \in Apps : ise_plug_frame_unlock(a)
             \/ \E a \in Apps, c \in AppChans : ise_plug_writeln(a, c)
             \/ \E a \in Apps, c \in AppChans, d \in Delays : ise_plug_readln(a, c, d)
             \/ \E a \in Apps, f \in Frames : ise_plug_frame_lock(a, f)
      PROVE  AnswersInv'
  BY <1>1, <1>3 DEF connect_plug, Accept, FrameMade, run_program_plug, channel_open_plug,
       channel_close_plug, make_frame_plug, delete_frame_plug, Begin, Select, process_port,
       OpenDone, close_fun, CloseDone, frame_fun, run_fun, PortDone, NextChannel, FindLine,
       SetFill, TimesOut, WriteBegins, ise_plug_frame_unlock, ise_plug_writeln, ise_plug_readln,
       ise_plug_frame_lock, sockVars, chanVars, frameVars
<1>4. CASE CloseFile
  BY <1>2, <1>4, CloseFileConns
<1>5. ASSUME NEW k \in DOMAIN conns, writeln_plug(k) PROVE AnswersInv'
  BY <1>2, <1>5, WritelnConns
<1>6. ASSUME NEW k \in DOMAIN conns, readbuf_plug(k) PROVE AnswersInv'
  BY <1>2, <1>6, ReadbufConns
<1>7. CASE open_fun
  <2>1. CASE NoChannel(Head(main.cmds).n)
    BY <1>1, <1>7, <2>1 DEF open_fun
  <2>2. CASE ~NoChannel(Head(main.cmds).n)
    <3>1. /\ Len(conns') = Len(conns) + 1 /\ \A k \in 1 .. Len(conns) : conns'[k] = conns[k]
          /\ conns'[Len(conns) + 1].up = <<>>
      BY <1>7, <2>2, OpenConns DEF OpenedConn
    <3>. QED BY <1>0, <3>1 DEF AnswersInv
  <2>. QED BY <2>1, <2>2
<1>8. CASE collect_channel_data
  <2>1. Alive
    BY DEF Next
  <2>. QED BY <1>2, <1>8, <2>1, CollectConns
<1>9. CASE process_254
  <2>1. PICK y : y = [chan |-> 254, crossed |-> FALSE]
    OBVIOUS
  <2>2. PICK k : /\ k \in 1 .. Len(conns) /\ conns[k].chan = 254 /\ 254 \in Chans
                 /\ UNCHANGED conns \/ Changed(k, conns[k].open, conns[k].sent, conns[k].down, Append(conns[k].up, y))
    BY <1>9, <2>1, MonitorConns
  <2>3. y \in Answered /\ y.chan = 254
    BY <2>1, <2>2 DEF Answered
  <2>4. CASE UNCHANGED conns
    BY <1>1, <2>4
  <2>5. CASE Changed(k, conns[k].open, conns[k].sent, conns[k].down, Append(conns[k].up, y))
    <3>1. y \in Answered /\ (y.crossed \/ y.chan = conns[k].chan) /\ k \in 1 .. Len(conns)
      BY <2>2, <2>3
    <3>. QED BY <1>2, <2>5, <3>1
  <2>. QED BY <2>2, <2>4, <2>5
<1>10. ASSUME NEW a \in Apps, WriteEnds(a) PROVE AnswersInv'
  <2>1. PICK y : y = [chan |-> app[a].chan, crossed |-> app[a].crossed]
    OBVIOUS
  <2>2. /\ app[a].at \in {"write text", "write newline"} /\ app[a].n \in 1 .. Len(conns)
        /\ \/ UNCHANGED conns
           \/ Changed(app[a].n, conns[app[a].n].open, conns[app[a].n].sent, conns[app[a].n].down,
                      Append(conns[app[a].n].up, y))
    BY <1>10, <2>1, WriteEndsConns
  <2>3. /\ app[a].at \in Writing /\ app[a].chan \in Chans /\ app[a].crossed \in BOOLEAN
        /\ y \in Answered /\ y.chan = app[a].chan /\ y.crossed = app[a].crossed
    <3>1. app[a].at \in Writing
      BY <2>2 DEF Writing
    <3>. QED BY <2>1, <3>1, AppHas DEF Answered
  <2>4. ~app[a].crossed => conns[app[a].n].chan = app[a].chan
    <3> SUFFICES ASSUME ~app[a].crossed PROVE conns[app[a].n].chan = app[a].chan
      OBVIOUS
    <3>1. app[a].n = ConnOf(app[a].chan) /\ ConnOf(app[a].chan) # 0 /\ ~Pending(app[a].chan)
      BY <2>2, <2>3 DEF ProcessInv, CrossInv
    <3>2. chfd[app[a].chan] # 0 /\ (main.at \notin {"open", "close"} \/ main.chan # app[a].chan)
      BY <3>1 DEF ConnOf, Pending
    <3>. QED BY <2>3, <3>1, <3>2, ChannelConn DEF ProcessInv
  <2>. QED BY <1>1, <1>2, <2>2, <2>3, <2>4
<1>. QED BY <1>3, <1>4, <1>5, <1>6, <1>7, <1>8, <1>9, <1>10
     DEF Next, HostCall, HostStep, MainStep, AppCall, AppStep

LEMMA DeathStep ==
  ASSUME Kinds, ProcessInv, Next
  PROVE  DiesOnlyCrossed'
<1>0. Alive
  BY DEF Next
<1>1. ASSUME UNCHANGED dead PROVE DiesOnlyCrossed'
  BY <1>0, <1>1 DEF DiesOnlyCrossed, Alive
<1>2. ASSUME NEW a \in Apps, NEW how, Die(how, a), app[a].crossed PROVE DiesOnlyCrossed'
  BY <1>2 DEF DiesOnlyCrossed, Die
<1>3. ASSUME \/ connect_plug \/ Accept \/ CloseFile \/ FrameMade \/ run_program_plug \/ Begin \/ Select
             \/ process_port \/ open_fun \/ OpenDone \/ close_fun \/ CloseDone \/ frame_fun \/ run_fun
             \/ PortDone \/ NextChannel \/ collect_channel_data
             \/ \E c \in Chans : channel_open_plug(c)
             \/ \E k \in DOMAIN conns : channel_close_plug(k) \/ writeln_plug(k) \/ readbuf_plug(k)
             \/ \E f \in Frames : make_frame_plug(f) \/ delete_frame_plug(f)
             \/ \E a \in Apps : FindLine(a) \/ TimesOut(a) \/ ise_plug_frame_unlock(a)
             \/ \E a \in Apps, c \in AppChans : ise_plug_writeln(a, c)
             \/ \E a \in Apps, c \in AppChans, d \in Delays : ise_plug_readln(a, c, d)
             \/ \E a \in Apps, f \in Frames : ise_plug_frame_lock(a, f)
      PROVE  DiesOnlyCrossed'
  BY <1>1, <1>3 DEF connect_plug, Accept, CloseFile, FrameMade, run_program_plug,
       channel_open_plug, channel_close_plug, writeln_plug, readbuf_plug, make_frame_plug,
       delete_frame_plug, Begin, Select, process_port, open_fun, OpenDone, close_fun, CloseDone,
       frame_fun, run_fun, PortDone, NextChannel, collect_channel_data, FindLine, TimesOut,
       ise_plug_frame_unlock, ise_plug_writeln, ise_plug_readln, ise_plug_frame_lock, sockVars,
       chanVars, frameVars
<1>4. CASE process_254
  <2>1. UNCHANGED dead \/ dead' = [how |-> "pipe", crossed |-> TRUE]
    BY <1>4, MonitorTexts
  <2>. QED BY <1>1, <2>1 DEF DiesOnlyCrossed
<1>5. ASSUME NEW a \in Apps, SetFill(a) PROVE DiesOnlyCrossed'
  <2>1. PICK c \in Chans, n \in Nat : c = app[a].chan /\ n = app[a].n
    BY <1>5, SetFillMoves
  <2>2. /\ app[a].at = "fill" /\ fill' = [fill EXCEPT ![c] = IF n = 0 THEN 0 ELSE @ - n]
        /\ (fill'[c] < 0 /\ Die("overrun", a)) \/ (~(fill'[c] < 0) /\ UNCHANGED dead)
    BY <1>5, <2>1, SetFillMoves
  <2>3. CASE fill'[c] < 0
    <3>1. fill \in [Chans -> Int] /\ Len(cbuf[c]) \in Nat
      BY TextIs DEF Kinds, TextKinds
    <3>2. n # 0 /\ fill[c] < n
      BY <2>2, <2>3, <3>1
    <3>3. app[a].crossed
      BY <1>0, <2>1, <2>2, <3>1, <3>2 DEF ProcessInv, BufInv
    <3>. QED BY <1>2, <2>2, <2>3, <3>3
  <2>4. CASE ~(fill'[c] < 0)
    BY <1>1, <2>2, <2>4
  <2>. QED BY <2>3, <2>4
<1>6. ASSUME NEW a \in Apps, WriteBegins(a) PROVE DiesOnlyCrossed'
  <2>1. /\ app[a].at \in Writing
        /\ UNCHANGED dead \/ (ConnOf(app[a].chan) = 0 /\ Die("assert", a))
    BY <1>6, WriteBeginsMoves DEF Writing
  <2>2. ConnOf(app[a].chan) = 0 => app[a].crossed
    BY <2>1 DEF ProcessInv, CrossInv
  <2>. QED BY <1>1, <1>2, <2>1, <2>2
<1>7. ASSUME NEW a \in Apps, WriteEnds(a) PROVE DiesOnlyCrossed'
  <2>1. /\ app[a].at \in {"write text", "write newline"}
        /\ UNCHANGED dead \/ (~conns[app[a].n].open /\ Die("pipe", a))
    BY <1>7, WriteEndsMoves
  <2>2. app[a].at \in Writing
    BY <2>1 DEF Writing
  <2>3. ~conns[app[a].n].open => app[a].crossed
    BY <2>1, <2>2 DEF ProcessInv, CrossInv
  <2>. QED BY <1>1, <1>2, <2>1, <2>3
<1>. QED BY <1>3, <1>4, <1>5, <1>6, <1>7
     DEF Next, HostCall, HostStep, MainStep, AppCall, AppStep

\* The invariant's parts say what the type invariant does.
LEMMA ProcessTypes ==
  Kinds /\ ProcessInv => TypeOK
<1> SUFFICES ASSUME Kinds, ProcessInv PROVE TypeOK
  OBVIOUS
<1>1. ASSUME NEW k \in DOMAIN conns PROVE Cardinality({f \in Files : fds[f] = k}) <= 1
  <2> DEFINE S == {f \in Files : fds[f] = k}
  <2>1. k # 0
    BY ConnsAre
  <2>2. \A f, g \in S : f = g
    BY <2>1 DEF ProcessInv, FileInv
  <2>3. CASE S = {}
    BY <2>3, FS_EmptySet
  <2>4. CASE S # {}
    <3>1. PICK f \in S : S = {f}
      BY <2>2, <2>4
    <3>2. Cardinality({f}) = 1
      BY FS_Singleton
    <3>3. Cardinality(S) = 1
      BY <3>1, <3>2
    <3>. QED BY <3>3
  <2>. QED BY <2>3, <2>4
<1>2. \A c \in Chans : fill[c] <= BufMax /\ (Alive => fill[c] >= 0) /\ Len(cbuf[c]) <= BufMax
  BY DEF ProcessInv, BufInv
<1>3. lock \in [Chans -> Apps \cup {"main", None}] /\ flock \in [Frames -> Apps \cup {None}]
  BY DEF Kinds, TextKinds, FrameKinds
<1>4. \A c \in Chans : lock[c] \in Apps => app[lock[c]].chan = c
  BY DEF ProcessInv, LockInv
<1>5. host.at \in {"hello", "idle", "accept", "close", "newline", "frame"}
  BY DEF Kinds, HostKinds, HostPlaces
<1>6. Len(replies) <= 1
  BY DEF ProcessInv, FrameInv
<1>. QED BY <1>1, <1>2, <1>3, <1>4, <1>5, <1>6 DEF TypeOK

\* Files, buffers and locks are in order; what a call writes comes to the host on
\* the channel of the call, and no call kills the plug-in, by assert (ise_plug_writeln),
\* SIGPIPE or a buf_fil below 0 (ise_plug_readln), unless the host opens or closes
\* the channel during the call.
THEOREM HarmKept ==
  Spec => []HarmOnlyCrossed
<1> DEFINE Inv == AnswersInv /\ DiesOnlyCrossed
<1>1. Init => Inv
  <2> SUFFICES ASSUME Init PROVE Inv
    OBVIOUS
  <2>1. conns = <<>> /\ Len(<<>>) = 0 /\ dead = None
    BY EmptySeq DEF Init
  <2>. QED BY <2>1 DEF AnswersInv, DiesOnlyCrossed, Alive
<1>2. Kinds /\ ProcessInv /\ Inv /\ [Next]_vars => Inv'
  <2>1. ASSUME Kinds, ProcessInv, Inv, Next PROVE Inv'
    BY <2>1, AnswersStep, DeathStep
  <2>2. ASSUME Inv, UNCHANGED vars PROVE Inv'
    <3>1. conns' = conns /\ dead' = dead
      BY <2>2 DEF vars, sockVars
    <3>. QED BY <2>2, <3>1 DEF AnswersInv, DiesOnlyCrossed, Alive
  <2>. QED BY <2>1, <2>2
<1>3. Kinds /\ ProcessInv /\ Inv => HarmOnlyCrossed
  <2>1. ASSUME Kinds, ProcessInv, Inv PROVE WritesStayOnChannel
    <3>1. DOMAIN conns = 1 .. Len(conns) /\ \A k \in 1 .. Len(conns) : DOMAIN conns[k].up = 1 .. Len(conns[k].up)
      BY <2>1, ConnsAre, ConnIs, LenProperties
    <3>. QED BY <2>1, <3>1 DEF WritesStayOnChannel, AnswersInv
  <2>. QED BY <2>1, ProcessTypes DEF HarmOnlyCrossed
<1> HIDE DEF Inv
<1>. QED BY <1>1, <1>2, <1>3, ProcessKept, PTL DEF Spec

-----------------------------------------------------------------------------
(* Texts: lines are taken from the front and characters come at the end. *)

LEMMA CharIs ==
  ASSUME NEW s \in Seq(Char), NEW i \in 1 .. Len(s)
  PROVE  s[i] \in Char /\ s[i][1] \in Nat /\ s[i][2] \in Nat /\ s[i] = <<s[i][1], s[i][2]>>
<1>1. s[i] \in Char
  BY LenProperties
<1>. QED BY <1>1 DEF Char

\* Two texts, one after the other.
IsJoin(s, t, u) ==
  /\ u \in Seq(Char) /\ Len(u) = Len(s) + Len(t) /\ Len(s) \in Nat /\ Len(t) \in Nat /\ Len(u) \in Nat
  /\ \A i \in 1 .. Len(s) : u[i] = s[i]
  /\ \A i \in 1 .. Len(t) : u[Len(s) + i] = t[i]

LEMMA Joined ==
  ASSUME NEW s \in Seq(Char), NEW t \in Seq(Char)
  PROVE  IsJoin(s, t, s \o t)
<1>1. Len(s) \in Nat /\ Len(t) \in Nat
  BY LenProperties
<1>2. PICK u : u = s \o t
  OBVIOUS
<1>3. /\ u \in Seq(Char) /\ Len(u) = Len(s) + Len(t)
      /\ \A i \in 1 .. Len(s) + Len(t) : u[i] = IF i <= Len(s) THEN s[i] ELSE t[i - Len(s)]
  BY <1>2, ConcatProperties
<1>4. ASSUME NEW i \in 1 .. Len(t) PROVE u[Len(s) + i] = t[i]
  <2>1. Len(s) + i \in 1 .. Len(s) + Len(t) /\ ~(Len(s) + i <= Len(s)) /\ Len(s) + i - Len(s) = i
    BY <1>1
  <2>. QED BY <1>3, <2>1
<1>5. ASSUME NEW i \in 1 .. Len(s) PROVE u[i] = s[i]
  BY <1>1, <1>3
<1>6. IsJoin(s, t, u)
  BY <1>1, <1>3, <1>4, <1>5 DEF IsJoin
<1>. QED BY <1>2, <1>6

\* A text that begins as a chain does is one.
LEMMA ChainBegins ==
  ASSUME NEW s \in Seq(Char), NEW u \in Seq(Char), Chain(s), Len(u) <= Len(s), \A i \in 1 .. Len(u) : u[i] = s[i]
  PROVE  Chain(u)
<1>0. Len(s) \in Nat /\ Len(u) \in Nat
  BY LenProperties
<1>1. ASSUME NEW i \in 1 .. Len(u) PROVE u[i][2] > 0 /\ IF i = 1 THEN u[i][2] = 1 ELSE Follows(u[i-1], u[i])
  <2>1. i \in 1 .. Len(s) /\ u[i] = s[i] /\ (i # 1 => u[i-1] = s[i-1])
    BY <1>0
  <2>. QED BY <2>1 DEF Chain
<1>. QED BY <1>1 DEF Chain

\* The first n characters of b go to t: u is the one text then, v the other.
Shifted(t, b, n, u, v) ==
  /\ u \in Seq(Char) /\ v \in Seq(Char) /\ Len(u) = Len(t) + n /\ Len(v) = Len(b) - n
  /\ Len(t) \in Nat /\ Len(b) \in Nat /\ Len(u) \in Nat /\ Len(v) \in Nat
  /\ \A i \in 1 .. Len(t) : u[i] = t[i]
  /\ \A i \in 1 .. n : u[Len(t) + i] = b[i]
  /\ \A i \in 1 .. Len(b) - n : v[i] = b[n + i]

LEMMA TakeParts ==
  ASSUME NEW t \in Seq(Char), NEW b \in Seq(Char), NEW n \in 0 .. Len(b)
  PROVE  Shifted(t, b, n, t \o SubSeq(b, 1, n), SubSeq(b, n + 1, Len(b)))
<1>1. Len(t) \in Nat /\ Len(b) \in Nat
  BY LenProperties
<1>2. /\ SubSeq(b, 1, n) \in Seq(Char) /\ Len(SubSeq(b, 1, n)) = n
      /\ \A i \in 1 .. n : SubSeq(b, 1, n)[i] = b[i]
      /\ SubSeq(b, n + 1, Len(b)) \in Seq(Char) /\ Len(SubSeq(b, n + 1, Len(b))) = Len(b) - n
      /\ \A i \in 1 .. Len(b) - n : SubSeq(b, n + 1, Len(b))[i] = b[n + i]
  BY PartKinds
<1> DEFINE x == SubSeq(b, 1, n)
           v == SubSeq(b, n + 1, Len(b))
<1>3. x \in Seq(Char) /\ Len(x) = n /\ \A i \in 1 .. n : x[i] = b[i]
  BY <1>2
<1>4. v \in Seq(Char) /\ Len(v) = Len(b) - n /\ \A i \in 1 .. Len(b) - n : v[i] = b[n + i]
  BY <1>2
<1> HIDE DEF x, v
<1>5. PICK u : u = t \o x
  OBVIOUS
<1>9. IsJoin(t, x, u)
  BY <1>3, <1>5, Joined
<1>6. /\ u \in Seq(Char) /\ Len(u) = Len(t) + Len(x) /\ Len(u) \in Nat
      /\ \A i \in 1 .. Len(t) : u[i] = t[i]
      /\ \A i \in 1 .. Len(x) : u[Len(t) + i] = x[i]
  BY <1>9 DEF IsJoin
<1>7. Len(v) \in Nat
  BY <1>1, <1>4
<1>8. Shifted(t, b, n, u, v)
  BY <1>1, <1>3, <1>4, <1>6, <1>7 DEF Shifted
<1>. QED BY <1>5, <1>8 DEF x, v

\* The whole text stays as it is.
LEMMA ShiftChain ==
  ASSUME NEW t \in Seq(Char), NEW b \in Seq(Char), NEW n \in 0 .. Len(b), NEW u, NEW v, Shifted(t, b, n, u, v), Chain(t \o b)
  PROVE  Chain(u) /\ Chain(u \o v)
<1>0. /\ u \in Seq(Char) /\ v \in Seq(Char) /\ Len(u) = Len(t) + n /\ Len(v) = Len(b) - n
      /\ Len(t) \in Nat /\ Len(b) \in Nat /\ Len(u) \in Nat /\ Len(v) \in Nat /\ n \in Nat /\ n <= Len(b)
      /\ \A i \in 1 .. Len(t) : u[i] = t[i]
      /\ \A i \in 1 .. n : u[Len(t) + i] = b[i]
      /\ \A i \in 1 .. Len(b) - n : v[i] = b[n + i]
  BY DEF Shifted
<1>1. PICK w : w = t \o b
  OBVIOUS
<1>11. IsJoin(t, b, w)
  BY <1>1, Joined
<1>2. /\ w \in Seq(Char) /\ Len(w) = Len(t) + Len(b) /\ Len(w) \in Nat
      /\ \A i \in 1 .. Len(t) : w[i] = t[i]
      /\ \A i \in 1 .. Len(b) : w[Len(t) + i] = b[i]
  BY <1>11 DEF IsJoin
<1>3. PICK z : z = u \o v
  OBVIOUS
<1>12. IsJoin(u, v, z)
  BY <1>0, <1>3, Joined
<1>4. /\ z \in Seq(Char) /\ Len(z) = Len(u) + Len(v) /\ Len(z) \in Nat
      /\ \A i \in 1 .. Len(u) : z[i] = u[i]
      /\ \A i \in 1 .. Len(v) : z[Len(u) + i] = v[i]
  BY <1>12 DEF IsJoin
<1>5. ASSUME NEW i \in 1 .. Len(u) PROVE u[i] = w[i]
  <2>1. CASE i <= Len(t)
    BY <1>0, <1>2, <2>1
  <2>2. CASE ~(i <= Len(t))
    <3>1. PICK j \in 1 .. n : i = Len(t) + j
      <4>1. i - Len(t) \in 1 .. n /\ i = Len(t) + (i - Len(t))
        BY <1>0, <2>2
      <4>. QED BY <4>1
    <3>2. j \in 1 .. Len(b)
      BY <1>0
    <3>. QED BY <1>0, <1>2, <3>1, <3>2
  <2>. QED BY <2>1, <2>2
<1>6. ASSUME NEW i \in 1 .. Len(z) PROVE z[i] = w[i]
  <2>1. CASE i <= Len(u)
    <3>1. i \in 1 .. Len(u)
      BY <1>0, <1>4, <2>1
    <3>. QED BY <1>4, <1>5, <3>1
  <2>2. CASE ~(i <= Len(u))
    <3>1. PICK j \in 1 .. Len(v) : i = Len(u) + j
      <4>1. i - Len(u) \in 1 .. Len(v) /\ i = Len(u) + (i - Len(u))
        BY <1>0, <1>4, <2>2
      <4>. QED BY <4>1
    <3>2. n + j \in 1 .. Len(b) /\ i = Len(t) + (n + j) /\ j \in 1 .. Len(b) - n
      BY <1>0, <3>1
    <3>3. z[i] = v[j]
      BY <1>4, <3>1
    <3>4. v[j] = b[n + j]
      BY <1>0, <3>2
    <3>5. w[i] = b[n + j]
      BY <1>2, <3>2
    <3>. QED BY <3>3, <3>4, <3>5
  <2>. QED BY <2>1, <2>2
<1>7. Len(u) <= Len(w) /\ Len(z) <= Len(w)
  BY <1>0, <1>2, <1>4
<1>8. Chain(w)
  BY <1>1
<1>9. Chain(u)
  BY <1>0, <1>2, <1>5, <1>7, <1>8, ChainBegins
<1>10. Chain(z)
  BY <1>2, <1>4, <1>6, <1>7, <1>8, ChainBegins
<1>. QED BY <1>3, <1>9, <1>10

\* Nothing is in s that is in neither t nor b.
Among(s, t, b) ==
  \A i \in 1 .. Len(s) : (\E j \in 1 .. Len(t) : s[i] = t[j]) \/ (\E j \in 1 .. Len(b) : s[i] = b[j])

LEMMA TakeAmong ==
  ASSUME NEW t \in Seq(Char), NEW b \in Seq(Char), NEW n \in 0 .. Len(b), NEW u, NEW v, Shifted(t, b, n, u, v)
  PROVE  Among(u, t, b) /\ Among(v, t, b)
<1>0. /\ Len(u) = Len(t) + n /\ Len(v) = Len(b) - n
      /\ Len(t) \in Nat /\ Len(b) \in Nat /\ Len(u) \in Nat /\ Len(v) \in Nat /\ n \in Nat /\ n <= Len(b)
      /\ \A i \in 1 .. Len(t) : u[i] = t[i]
      /\ \A i \in 1 .. n : u[Len(t) + i] = b[i]
      /\ \A i \in 1 .. Len(b) - n : v[i] = b[n + i]
  BY DEF Shifted
<1>1. ASSUME NEW i \in 1 .. Len(u)
      PROVE  (\E j \in 1 .. Len(t) : u[i] = t[j]) \/ (\E j \in 1 .. Len(b) : u[i] = b[j])
  <2>1. CASE i <= Len(t)
    <3>1. i \in 1 .. Len(t) /\ u[i] = t[i]
      BY <1>0, <2>1
    <3>. QED BY <3>1
  <2>2. CASE ~(i <= Len(t))
    <3>1. PICK j \in 1 .. n : i = Len(t) + j
      <4>1. i - Len(t) \in 1 .. n /\ i = Len(t) + (i - Len(t))
        BY <1>0, <2>2
      <4>. QED BY <4>1
    <3>2. j \in 1 .. Len(b) /\ u[i] = b[j]
      BY <1>0, <3>1
    <3>. QED BY <3>2
  <2>. QED BY <2>1, <2>2
<1>2. ASSUME NEW i \in 1 .. Len(v) PROVE \E j \in 1 .. Len(b) : v[i] = b[j]
  <2>2. i \in 1 .. Len(b) - n /\ n + i \in 1 .. Len(b)
    BY <1>0
  <2>1. n + i \in 1 .. Len(b) /\ v[i] = b[n + i]
    BY <1>0, <2>2
  <2>. QED BY <2>1
<1>. QED BY <1>1, <1>2 DEF Among

\* What is taken and what is left is as old as it was, and of the same channel.
LEMMA AmongOlder ==
  ASSUME NEW s, NEW t, NEW b, Among(s, t, b), NEW k, Older(t, k), Older(b, k)
  PROVE  Older(s, k)
BY DEF Among, Older

LEMMA AmongOf ==
  ASSUME NEW s, NEW t, NEW b, Among(s, t, b), NEW c, NEW conn, Of(t, c, conn), Of(b, c, conn)
  PROVE  Of(s, c, conn)
BY DEF Among, Of

\* Connections come, and what is of a channel stays so.
LEMMA OfStays ==
  ASSUME ConnsGrow, NEW s, NEW c, Of(s, c, conns)
  PROVE  Of(s, c, conns')
BY DEF ConnsGrow, Of

\* A line is taken, and the count is that of the rest.
LEMMA TakeWhole ==
  ASSUME NEW t \in Seq(Char), NEW b \in Seq(Char), NEW n \in 1 .. Len(b), NEW k, NEW r, NEW u, NEW v,
         Shifted(t, b, n, u, v), IsNewline(b[n]), Whole(t, b, Len(b), k, r)
  PROVE  Whole(u, v, Len(b) - n, k, r)
<1>2. /\ u \in Seq(Char) /\ v \in Seq(Char) /\ Len(u) = Len(t) + n /\ Len(v) = Len(b) - n
      /\ Len(t) \in Nat /\ Len(b) \in Nat /\ Len(u) \in Nat /\ Len(v) \in Nat /\ n \in Nat /\ n <= Len(b) /\ n > 0
      /\ \A i \in 1 .. n : u[Len(t) + i] = b[i]
      /\ \A i \in 1 .. Len(b) - n : v[i] = b[n + i]
  BY DEF Shifted
<1>3. Chain(u) /\ Chain(u \o v)
  <2>1. Chain(t \o b)
    BY <1>2 DEF Whole
  <2>2. n \in 0 .. Len(b)
    BY <1>2
  <2>. QED BY <2>1, <2>2, ShiftChain
<1>4. u[Len(u)] = b[n] /\ u # <<>>
  <2>1. n \in 1 .. n /\ Len(u) # 0
    BY <1>2
  <2>2. u[Len(t) + n] = b[n]
    BY <1>2, <2>1
  <2>. QED BY <1>2, <2>1, <2>2, EmptySeq
<1>5. k # 0 => LastIs(b, k, r)
  BY <1>2 DEF Whole
<1>6. Len(b) - n > 0 /\ k # 0 => LastIs(v, k, r)
  <2> SUFFICES ASSUME Len(b) - n > 0, k # 0 PROVE LastIs(v, k, r)
    OBVIOUS
  <2>0. PICK p \in Nat, q \in Nat : p = Len(v) /\ q = Len(b)
    BY <1>2
  <2>4. p = q - n /\ p > 0
    BY <1>2, <2>0
  <2>5. p \in 1 .. q - n /\ n + p = q /\ p # 0
    BY <1>2, <2>4
  <2>1. Len(v) \in 1 .. Len(b) - n /\ n + Len(v) = Len(b) /\ Len(v) # 0
    BY <2>0, <2>5
  <2>2. v[Len(v)] = b[n + Len(v)]
    BY <1>2, <2>1
  <2>3. v # <<>>
    BY <2>1, EmptySeq
  <2>. QED BY <1>5, <2>1, <2>2, <2>3 DEF LastIs
<1>7. Len(b) - n = 0 /\ k # 0 => Plain(v) /\ LastIs(u, k, r)
  <2>1. Len(b) - n = 0 => Len(v) = 0 /\ n = Len(b)
    BY <1>2
  <2>. QED BY <1>4, <1>5, <2>1 DEF LastIs, Plain
<1>8. IsNewline(u[Len(u)])
  BY <1>4
<1>. QED BY <1>3, <1>6, <1>7, <1>8 DEF Whole

\* The last line that counts is taken, the text ends before its newline and the count is 0.
LEMMA TakeLast ==
  ASSUME NEW t \in Seq(Char), NEW b \in Seq(Char), NEW n \in 1 .. Len(b), NEW l \in {0, Len(b)}, NEW k, NEW r,
         NEW u, NEW v \in Seq(Char), NEW w, Shifted(t, b, n, u, w),
         Len(v) = n - 1, \A i \in 1 .. n - 1 : v[i] = b[i],
         n >= l, IsNewline(b[n]), \A i \in 1 .. n - 1 : ~IsNewline(b[i]), Whole(t, b, l, k, r)
  PROVE  Whole(u, v, 0, k, r)
<1>2. /\ u \in Seq(Char) /\ Len(u) = Len(t) + n
      /\ Len(t) \in Nat /\ Len(b) \in Nat /\ Len(u) \in Nat /\ n \in Nat /\ n <= Len(b) /\ n > 0
      /\ \A i \in 1 .. n : u[Len(t) + i] = b[i]
  BY DEF Shifted
<1>3. Plain(v)
  BY DEF Plain
<1>4. ~Plain(b)
  BY DEF Plain
<1>5. Chain(u)
  <2>1. Chain(t \o b)
    BY <1>2, <1>4 DEF Whole
  <2>2. n \in 0 .. Len(b)
    BY <1>2
  <2>. QED BY <2>1, <2>2, ShiftChain
<1>6. u # <<>> /\ u[Len(u)] = b[n]
  <2>1. n \in 1 .. n /\ Len(u) # 0
    BY <1>2
  <2>2. u[Len(t) + n] = b[n]
    BY <1>2, <2>1
  <2>. QED BY <1>2, <2>1, <2>2, EmptySeq
<1>7. k # 0 => LastIs(u, k, r) \/ (r = 0 /\ Older(u, k) /\ Older(v, k))
  <2>1. CASE l > 0
    <3>1. l = Len(b) /\ n = Len(b)
      BY <1>2, <2>1
    <3>2. k # 0 => b[Len(b)] = <<k, r>>
      BY <2>1 DEF Whole, LastIs
    <3>. QED BY <1>6, <3>1, <3>2 DEF LastIs
  <2>2. CASE l = 0
    <3>1. k # 0 => r = 0 /\ Older(t, k) /\ Older(b, k)
      BY <1>4, <2>2 DEF Whole
    <3>2. n \in 0 .. Len(b)
      BY <1>2
    <3>3. Older(t, k) /\ Older(b, k) => Older(u, k)
      BY <3>2, TakeAmong, AmongOlder
    <3>4. ASSUME Older(b, k) PROVE Older(v, k)
      <4>1. ASSUME NEW i \in 1 .. Len(v) PROVE v[i][1] < k
        <5>1. i \in 1 .. n - 1 /\ i \in 1 .. Len(b)
          BY <1>2
        <5>2. v[i] = b[i]
          BY <5>1
        <5>. QED BY <3>4, <5>1, <5>2 DEF Older
      <4>. QED BY <4>1 DEF Older
    <3>. QED BY <3>1, <3>3, <3>4
  <2>. QED BY <1>2, <2>1, <2>2
<1>8. IsNewline(u[Len(u)])
  BY <1>6
<1>. QED BY <1>3, <1>5, <1>7, <1>8 DEF Whole

LEMMA Counts ==
  ASSUME NEW n \in Nat, NEW r \in Nat, NEW i \in 1 .. n
  PROVE  r + i > 0 /\ i \in Nat
OBVIOUS

\* Characters that follow come after what counts.
LEMMA ComeWhole ==
  ASSUME NEW t \in Seq(Char), NEW b \in Seq(Char), NEW l \in {0, Len(b)}, NEW k \in Nat \ {0}, NEW r \in Nat,
         NEW n \in Nat \ {0}, NEW x \in Seq(Char), NEW y \in Seq(Char), NEW v, v = x \o y,
         Len(x) = l, \A i \in 1 .. l : x[i] = b[i],
         Len(y) = n, \A i \in 1 .. n : y[i] = <<k, r + i>>,
         Whole(t, b, l, k, r)
  PROVE  Whole(t, v, l + n, k, r + n)
<1>0. Len(t) \in Nat /\ Len(b) \in Nat /\ l \in Nat
  BY LenProperties
<1>16. IsJoin(x, y, v)
  BY Joined
<1>4. /\ v \in Seq(Char) /\ Len(v) = l + n /\ Len(v) \in Nat
      /\ \A i \in 1 .. l : v[i] = x[i]
      /\ \A i \in 1 .. n : v[l + i] = y[i]
  BY <1>16 DEF IsJoin
<1>5. PICK s : s = t \o x
  OBVIOUS
<1>17. IsJoin(t, x, s)
  BY <1>5, Joined
<1>6. /\ s \in Seq(Char) /\ Len(s) = Len(t) + l /\ Len(s) \in Nat
      /\ \A i \in 1 .. Len(t) : s[i] = t[i]
      /\ \A i \in 1 .. l : s[Len(t) + i] = x[i]
  BY <1>17 DEF IsJoin
<1>13. s # <<>> <=> Len(s) # 0
  BY <1>6, EmptySeq
<1>7. /\ Chain(s)
      /\ \/ s = <<>> /\ r = 0
         \/ s # <<>> /\ s[Len(s)] = <<k, r>>
         \/ s # <<>> /\ r = 0 /\ s[Len(s)][1] < k /\ IsNewline(s[Len(s)])
  <2>1. CASE l > 0
    <3>2. l = Len(b) /\ Chain(t \o b) /\ b[Len(b)] = <<k, r>>
      BY <1>0, <2>1 DEF Whole, LastIs
    <3>3. x = b
      BY <3>2, SeqEqual
    <3>5. l \in 1 .. l
      BY <1>0, <2>1
    <3>4. s[Len(s)] = b[Len(b)] /\ Len(s) # 0
      BY <1>0, <1>6, <2>1, <3>2, <3>3, <3>5
    <3>. QED BY <1>5, <1>13, <3>2, <3>3, <3>4
  <2>2. CASE l = 0
    <3>0. Len(s) = Len(t) /\ \A i \in 1 .. Len(s) : s[i] = t[i]
      BY <1>0, <1>6, <2>2
    <3>1. s = t
      BY <1>6, <3>0, SeqEqual
    <3>2. LastIs(t, k, r) \/ (r = 0 /\ Older(t, k))
      BY <2>2 DEF Whole
    <3>3. Chain(t) /\ (t # <<>> => IsNewline(t[Len(t)]))
      BY DEF Whole
    <3>4. t # <<>> => Len(t) \in 1 .. Len(t)
      BY <1>0, EmptySeq
    <3>. QED BY <3>1, <3>2, <3>3, <3>4 DEF LastIs, Older
  <2>. QED BY <1>0, <2>1, <2>2
<1>15. PICK z : z = s \o y
  OBVIOUS
<1>18. IsJoin(s, y, z)
  BY <1>6, <1>15, Joined
<1>8. /\ z \in Seq(Char) /\ Len(z) = Len(s) + n /\ Len(z) \in Nat
      /\ \A i \in 1 .. Len(s) : z[i] = s[i]
      /\ \A i \in 1 .. n : z[Len(s) + i] = y[i]
  BY <1>18 DEF IsJoin
<1>9. Chain(z)
  <2> DEFINE Link(i) == z[i][2] > 0 /\ IF i = 1 THEN z[i][2] = 1 ELSE Follows(z[i-1], z[i])
  <2>1. ASSUME NEW i \in 1 .. Len(s) PROVE Link(i)
    <3>0. Len(s) \in Nat
      BY <1>6
    <3>2. i # 1 => i - 1 \in 1 .. Len(s)
      BY <3>0
    <3>1. z[i] = s[i] /\ (i # 1 => z[i-1] = s[i-1])
      BY <1>8, <3>2
    <3>. QED BY <1>7, <3>1 DEF Chain
  <2>2. PICK m \in Nat : m = Len(s)
    BY <1>6
  <2>3. ASSUME NEW j \in 1 .. n PROVE z[m + j][1] = k /\ z[m + j][2] = r + j /\ z[m + j] = <<k, r + j>>
    <3>1. z[m + j] = y[j] /\ y[j] = <<k, r + j>>
      BY <1>8, <2>2
    <3>. QED BY <3>1
  <2>4. ASSUME NEW j \in 1 .. n
        PROVE  Link(m + j)
    <3>5. z[m + j][1] = k /\ z[m + j][2] = r + j
      BY <2>3
    <3>6. r + j > 0 /\ j \in Nat
      BY Counts
    <3>0. z[m + j][1] = k /\ z[m + j][2] = r + j /\ r + j > 0 /\ j \in Nat
      BY <3>5, <3>6
    <3>1. CASE j > 1
      <4>1. j - 1 \in 1 .. n /\ m + j # 1 /\ m + j - 1 = m + (j - 1) /\ r + j > 1 /\ r + j - 1 = r + (j - 1)
        BY <2>2, <3>0, <3>1
      <4>2. z[m + (j - 1)] = <<k, r + (j - 1)>>
        BY <2>3, <4>1
      <4>3. z[m + j - 1] = <<z[m + j][1], z[m + j][2] - 1>>
        BY <3>0, <4>1, <4>2
      <4>4. Follows(z[m + j - 1], z[m + j])
        <5>1. z[m + j][2] > 1
          BY <3>0, <4>1
        <5>. QED BY <4>3, <5>1 DEF Follows
      <4>. QED BY <3>0, <4>1, <4>4
    <3>2. CASE j = 1 /\ s = <<>>
      BY <1>7, <1>13, <2>2, <3>0, <3>2
    <3>3. CASE j = 1 /\ s # <<>>
      <4>1. m # 0 /\ m + j # 1 /\ m + j - 1 = m /\ m \in 1 .. Len(s)
        <5>1. m # 0
          BY <1>13, <2>2, <3>3
        <5>. QED BY <2>2, <3>3, <5>1, SMTT(30)
      <4>2. z[m + j - 1] = s[m]
        BY <1>8, <4>1
      <4>3. CASE s[m] = <<k, r>>
        <5>1. r > 0
          <6>1. s[m][2] > 0
            BY <1>7, <4>1 DEF Chain
          <6>. QED BY <4>3, <6>1
        <5>5. r + 1 > 1 /\ (r + 1) - 1 = r
          BY <5>1
        <5>3. z[m + j][1] = k /\ z[m + j][2] = r + 1 /\ r + 1 > 1 /\ (r + 1) - 1 = r
          BY <3>5, <3>3, <5>5
        <5>2. z[m + j - 1] = <<z[m + j][1], z[m + j][2] - 1>> /\ z[m + j][2] > 1
          BY <4>2, <4>3, <5>3
        <5>4. Follows(z[m + j - 1], z[m + j])
          BY <5>2 DEF Follows
        <5>. QED BY <3>0, <4>1, <5>4
      <4>4. CASE r = 0 /\ s[m][1] < k /\ IsNewline(s[m])
        <5>1. ~(z[m + j][2] > 1)
          BY <3>0, <3>3, <4>4
        <5>. QED BY <3>0, <4>1, <4>2, <4>4, <5>1 DEF Follows
      <4>. QED BY <1>7, <2>2, <3>3, <4>3, <4>4
    <3>. QED BY <3>0, <3>1, <3>2, <3>3
  <2>5. ASSUME NEW i \in 1 .. Len(z) PROVE i \in 1 .. Len(s) \/ \E j \in 1 .. n : i = m + j
    <3>1. ~(i \in 1 .. Len(s)) => i - m \in 1 .. n /\ i = m + (i - m)
      BY <1>8, <2>2
    <3>. QED BY <3>1
  <2> HIDE DEF Link
  <2>6. \A i \in 1 .. Len(z) : Link(i)
    BY <2>1, <2>4, <2>5
  <2>. QED BY <2>6 DEF Chain, Link
<1>10. Chain(t \o v)
  <2>0. PICK w : w = t \o v
    OBVIOUS
  <2>5. IsJoin(t, v, w)
    BY <1>4, <2>0, Joined
  <2>1. /\ w \in Seq(Char) /\ Len(w) = Len(t) + Len(v) /\ Len(w) \in Nat
        /\ \A i \in 1 .. Len(t) : w[i] = t[i]
        /\ \A i \in 1 .. Len(v) : w[Len(t) + i] = v[i]
    BY <2>5 DEF IsJoin
  <2>2. Len(w) <= Len(z)
    BY <1>0, <1>4, <1>6, <1>8, <2>1
  <2>3. ASSUME NEW i \in 1 .. Len(w) PROVE w[i] = z[i]
    <3>1. CASE i <= Len(t)
      <4>1. i \in 1 .. Len(t) /\ i \in 1 .. Len(s)
        BY <1>0, <1>6, <3>1
      <4>. QED BY <1>6, <1>8, <2>1, <4>1
    <3>2. ASSUME NEW j \in 1 .. l, i = Len(t) + j PROVE w[i] = z[i]
      <4>1. j \in 1 .. Len(v) /\ i \in 1 .. Len(s)
        BY <1>0, <1>4, <1>6, <3>2
      <4>2. w[i] = v[j] /\ v[j] = x[j]
        BY <1>4, <2>1, <3>2, <4>1
      <4>3. z[i] = s[i] /\ s[i] = x[j]
        BY <1>6, <1>8, <3>2, <4>1
      <4>. QED BY <4>2, <4>3
    <3>3. ASSUME NEW j \in 1 .. n, i = Len(t) + (l + j) PROVE w[i] = z[i]
      <4>1. l + j \in 1 .. Len(v) /\ i = Len(s) + j
        BY <1>0, <1>4, <1>6, <3>3
      <4>2. w[i] = v[l + j] /\ v[l + j] = y[j]
        BY <1>4, <2>1, <3>3, <4>1
      <4>3. z[i] = y[j]
        BY <1>8, <4>1
      <4>. QED BY <4>2, <4>3
    <3>4. i <= Len(t) \/ (\E j \in 1 .. l : i = Len(t) + j) \/ (\E j \in 1 .. n : i = Len(t) + (l + j))
      <4>1. CASE i > Len(t) /\ i <= Len(t) + l
        <5>1. i - Len(t) \in 1 .. l /\ i = Len(t) + (i - Len(t))
          BY <1>0, <2>1, <4>1
        <5>. QED BY <5>1
      <4>2. CASE i > Len(t) + l
        <5>1. i - Len(t) - l \in 1 .. n /\ i = Len(t) + (l + (i - Len(t) - l))
          BY <1>0, <1>4, <2>1, <4>2
        <5>. QED BY <5>1
      <4>. QED BY <1>0, <2>1, <4>1, <4>2
    <3>. QED BY <3>1, <3>2, <3>3, <3>4
  <2>4. Chain(w)
    BY <1>8, <1>9, <2>1, <2>2, <2>3, ChainBegins
  <2>. QED BY <2>0, <2>4
<1>11. v # <<>> /\ v[Len(v)] = <<k, r + n>>
  <2>1. n \in 1 .. n /\ Len(v) # 0
    BY <1>0, <1>4
  <2>2. v[l + n] = y[n] /\ y[n] = <<k, r + n>>
    BY <1>4, <2>1
  <2>. QED BY <1>4, <2>1, <2>2, EmptySeq
<1>12. Chain(t) /\ (t # <<>> => IsNewline(t[Len(t)]))
  BY DEF Whole
<1>14. l + n > 0
  BY <1>0
<1>. QED BY <1>10, <1>11, <1>12, <1>14 DEF Whole, LastIs

-----------------------------------------------------------------------------
(* What is on its way down a connection. *)

LEMMA ComingMore ==
  ASSUME NEW k \in Nat, NEW d \in Seq(Char), NEW s \in Nat, Coming(k, d, s),
         NEW x, x = <<k, s + 1>>, NEW u, u = Append(d, x)
  PROVE  Coming(k, u, s + 1) /\ Len(u) = Len(d) + 1
<1>1. x \in Char
  BY DEF Char
<1>2. PICK m \in Nat : m = Len(d)
  BY LenProperties
<1>3. Len(u) = m + 1 /\ u[m + 1] = x /\ \A i \in 1 .. m : u[i] = d[i]
  BY <1>1, <1>2, AppendProperties
<1>4. m <= s /\ \A i \in 1 .. m : d[i] = <<k, s - m + i>>
  BY <1>2 DEF Coming
<1>5. ASSUME NEW i \in 1 .. m + 1 PROVE u[i] = <<k, (s + 1) - (m + 1) + i>>
  <2>1. CASE i = m + 1
    BY <1>1, <1>3, <2>1
  <2>2. CASE i \in 1 .. m
    <3>1. u[i] = <<k, s - m + i>> /\ (s + 1) - (m + 1) + i = s - m + i
      BY <1>3, <1>4, <2>2
    <3>. QED BY <3>1
  <2>. QED BY <1>2, <2>1, <2>2
<1>6. m + 1 <= s + 1 /\ (s + 1) - (m + 1) = s - m
  BY <1>4
<1>. QED BY <1>2, <1>3, <1>5, <1>6 DEF Coming

LEMMA ComingRead ==
  ASSUME NEW k \in Nat, NEW d \in Seq(Char), NEW s \in Nat, Coming(k, d, s), NEW n \in 0 .. Len(d),
         NEW u, u = SubSeq(d, n + 1, Len(d))
  PROVE  Coming(k, u, s) /\ s - Len(u) = (s - Len(d)) + n
<1>1. PICK m \in Nat : m = Len(d)
  BY LenProperties
<1>2. n \in 0 .. m
  BY <1>1
<1>3. Len(u) = m - n /\ \A i \in 1 .. m - n : u[i] = d[n + i]
  BY <1>1, PartKinds
<1>4. m <= s /\ \A i \in 1 .. m : d[i] = <<k, s - m + i>>
  BY <1>1 DEF Coming
<1>5. ASSUME NEW i \in 1 .. m - n PROVE u[i] = <<k, s - (m - n) + i>>
  <2>1. n + i \in 1 .. m /\ s - m + (n + i) = s - (m - n) + i
    BY <1>2, <1>4
  <2>. QED BY <1>3, <1>4, <2>1
<1>6. m - n <= s /\ s - (m - n) = (s - m) + n
  BY <1>2, <1>4
<1>. QED BY <1>1, <1>3, <1>5, <1>6 DEF Coming

\* What has been read of a connection changes only when it is collected.
LEMMA ReadStep ==
  ASSUME Kinds, ProcessInv, DownInv, Next
  PROVE  /\ DownInv'
         /\ \A j \in 1 .. Len(conns) : Read(j)' = Read(j) \/ (collect_channel_data /\ j = ConnOf(main.chan))
<1> DEFINE Goal == /\ DownInv'
                   /\ \A j \in 1 .. Len(conns) :
                        Read(j)' = Read(j) \/ (collect_channel_data /\ j = ConnOf(main.chan))
<1>0. Len(conns) \in Nat /\ \A j \in 1 .. Len(conns) : j \in Nat /\ conns[j].sent \in Nat /\ conns[j].down \in Seq(Char)
  BY ConnsAre, ConnIs
<1>1. ASSUME UNCHANGED conns PROVE Goal
  BY <1>1 DEF DownInv, Read
<1>2. ASSUME NEW k \in 1 .. Len(conns), NEW o, NEW s, NEW d, NEW u, Changed(k, o, s, d, u), Coming(k, d, s),
             s - Len(d) = conns[k].sent - Len(conns[k].down) \/ (collect_channel_data /\ k = ConnOf(main.chan))
      PROVE  Goal
  <2>1. /\ Len(conns') = Len(conns) /\ conns'[k].sent = s /\ conns'[k].down = d
        /\ \A j \in 1 .. Len(conns) : j # k => conns'[j] = conns[j]
    BY <1>2 DEF Changed
  <2>2. DownInv'
    BY <1>2, <2>1 DEF DownInv
  <2>3. \A j \in 1 .. Len(conns) : Read(j)' = Read(j) \/ (collect_channel_data /\ j = ConnOf(main.chan))
    BY <1>2, <2>1 DEF Read
  <2>. QED BY <2>2, <2>3
<1>3. ASSUME NEW k \in 1 .. Len(conns), NEW o, NEW u, Changed(k, o, conns[k].sent, conns[k].down, u) PROVE Goal
  <2>1. Coming(k, conns[k].down, conns[k].sent)
    BY DEF DownInv
  <2>. QED BY <1>2, <1>3, <2>1
<1>4. ASSUME \/ connect_plug \/ Accept \/ FrameMade \/ run_program_plug \/ Begin \/ Select \/ process_port
             \/ OpenDone \/ close_fun \/ CloseDone \/ frame_fun \/ run_fun \/ PortDone \/ NextChannel
             \/ \E c \in Chans : channel_open_plug(c)
             \/ \E k \in DOMAIN conns : channel_close_plug(k)
             \/ \E f \in Frames : make_frame_plug(f) \/ delete_frame_plug(f)
             \/ \E a \in Apps : FindLine(a) \/ SetFill(a) \/ TimesOut(a) \/ WriteBegins(a)
             \/ \E a \in Apps : ise_plug_frame_unlock(a)
             \/ \E a \in Apps, c \in AppChans : ise_plug_writeln(a, c)
             \/ \E a \in Apps, c \in AppChans, d \in Delays : ise_plug_readln(a, c, d)
             \/ \E a \in Apps, f \in Frames : ise_plug_frame_lock(a, f)
      PROVE  Goal
  BY <1>1, <1>4 DEF connect_plug, Accept, FrameMade, run_program_plug, channel_open_plug,
       channel_close_plug, make_frame_plug, delete_frame_plug, Begin, Select, process_port,
       OpenDone, close_fun, CloseDone, frame_fun, run_fun, PortDone, NextChannel, FindLine,
       SetFill, TimesOut, WriteBegins, ise_plug_frame_unlock, ise_plug_writeln, ise_plug_readln,
       ise_plug_frame_lock, sockVars, chanVars, frameVars
<1>5. CASE CloseFile
  BY <1>3, <1>5, CloseFileConns
<1>6. ASSUME NEW k \in DOMAIN conns, writeln_plug(k) PROVE Goal
  <2>1. PICK u : u = Append(conns[k].down, <<k, conns[k].sent + 1>>)
    OBVIOUS
  <2>2. k \in 1 .. Len(conns) /\ Changed(k, conns[k].open, conns[k].sent + 1, u, conns[k].up)
    BY <1>6, <2>1, WritelnConns
  <2>3. Coming(k, conns[k].down, conns[k].sent)
    BY <2>2 DEF DownInv
  <2>4. Coming(k, u, conns[k].sent + 1) /\ (conns[k].sent + 1) - Len(u) = conns[k].sent - Len(conns[k].down)
    <3>1. PICK d \in Seq(Char), s \in Nat, j \in Nat : d = conns[k].down /\ s = conns[k].sent /\ j = k
      BY <1>0, <2>2
    <3>2. PICK x : x = <<j, s + 1>>
      OBVIOUS
    <3>3. Coming(j, d, s)
      BY <2>3, <3>1
    <3>4. u = Append(d, x)
      BY <2>1, <3>1, <3>2
    <3>5. Coming(j, u, s + 1)
      BY <3>1, <3>2, <3>3, <3>4, ComingMore
    <3>6. Len(u) = Len(d) + 1
      BY <3>1, <3>2, <3>3, <3>4, ComingMore
    <3>7. Len(d) \in Nat
      BY <3>1, LenProperties
    <3>. QED BY <3>1, <3>5, <3>6, <3>7
  <2>. QED BY <1>2, <2>2, <2>4
<1>7. ASSUME NEW k \in DOMAIN conns, readbuf_plug(k) PROVE Goal
  BY <1>3, <1>7, ReadbufConns
<1>8. CASE open_fun
  <2>1. CASE NoChannel(Head(main.cmds).n)
    BY <1>1, <1>8, <2>1 DEF open_fun
  <2>2. CASE ~NoChannel(Head(main.cmds).n)
    <3>1. PICK m \in Nat : m = Len(conns)
      BY <1>0
    <3>2. /\ Len(conns') = m + 1 /\ \A j \in 1 .. m : conns'[j] = conns[j]
          /\ conns'[m + 1].sent = 0 /\ conns'[m + 1].down = <<>>
      BY <1>8, <2>2, <3>1, OpenConns DEF OpenedConn
    <3>3. Coming(m + 1, <<>>, 0)
      BY EmptySeq DEF Coming
    <3>4. DownInv'
      BY <3>1, <3>2, <3>3 DEF DownInv
    <3>. QED BY <3>1, <3>2, <3>4 DEF Read
  <2>. QED BY <2>1, <2>2
<1>9. CASE collect_channel_data
  <2>0. Alive
    BY DEF Next
  <2>1. PICK k, d, n, u :
          /\ k = ConnOf(main.chan) /\ k \in 1 .. Len(conns) /\ d = conns[k].down /\ d \in Seq(Char) /\ n \in 0 .. Len(d)
          /\ u = SubSeq(d, n + 1, Len(d)) /\ Changed(k, conns[k].open, conns[k].sent, u, conns[k].up)
    BY <1>9, <2>0, CollectConns
  <2>2. Coming(k, d, conns[k].sent)
    BY <2>1 DEF DownInv
  <2>3. Coming(k, u, conns[k].sent)
    BY <1>0, <2>1, <2>2, ComingRead
  <2>. QED BY <1>2, <1>9, <2>1, <2>3
<1>10. CASE process_254
  BY <1>1, <1>3, <1>10, MonitorConns
<1>11. ASSUME NEW a \in Apps, WriteEnds(a) PROVE Goal
  BY <1>1, <1>3, <1>11, WriteEndsConns
<1>. QED BY <1>4, <1>5, <1>6, <1>7, <1>8, <1>9, <1>10, <1>11
     DEF Next, HostCall, HostStep, MainStep, AppCall, AppStep

\* A channel keeps its connection, loses it, or gets the one that has come.
LEMMA ConnOfStep ==
  ASSUME Kinds, ProcessInv, Next, NEW e \in Chans
  PROVE  ConnOf(e)' = ConnOf(e) \/ ConnOf(e)' = 0 \/ (OpenDone /\ e = main.chan /\ ConnOf(e)' = fds[main.file])
<1> DEFINE Goal == ConnOf(e)' = ConnOf(e) \/ ConnOf(e)' = 0 \/ (OpenDone /\ e = main.chan /\ ConnOf(e)' = fds[main.file])
<1>0. fds \in [Files -> Nat] /\ chfd \in [Chans -> {0} \cup Files] /\ 0 \notin Files
  BY DEF Kinds, FileKinds, Files
<1>1. ASSUME UNCHANGED <<fds, chfd>> PROVE Goal
  BY <1>1 DEF ConnOf
<1>2. ASSUME \/ connect_plug \/ Accept \/ CloseFile \/ FrameMade \/ run_program_plug \/ Begin \/ Select
             \/ process_port \/ frame_fun \/ run_fun \/ PortDone \/ NextChannel \/ collect_channel_data
             \/ process_254
             \/ \E c \in Chans : channel_open_plug(c)
             \/ \E k \in DOMAIN conns : channel_close_plug(k) \/ writeln_plug(k) \/ readbuf_plug(k)
             \/ \E f \in Frames : make_frame_plug(f) \/ delete_frame_plug(f)
             \/ \E a \in Apps : FindLine(a) \/ SetFill(a) \/ TimesOut(a) \/ WriteBegins(a) \/ WriteEnds(a)
             \/ \E a \in Apps : ise_plug_frame_unlock(a)
             \/ \E a \in Apps, c \in AppChans : ise_plug_writeln(a, c)
             \/ \E a \in Apps, c \in AppChans, d \in Delays : ise_plug_readln(a, c, d)
             \/ \E a \in Apps, f \in Frames : ise_plug_frame_lock(a, f)
      PROVE  Goal
  BY <1>1, <1>2 DEF connect_plug, Accept, CloseFile, FrameMade, run_program_plug,
       channel_open_plug, channel_close_plug, writeln_plug, readbuf_plug, make_frame_plug,
       delete_frame_plug, Begin, Select, process_port, frame_fun, run_fun, PortDone, NextChannel,
       collect_channel_data, process_254, FindLine, SetFill, TimesOut, WriteBegins, WriteEnds,
       ise_plug_frame_unlock, ise_plug_writeln, ise_plug_readln, ise_plug_frame_lock, sockVars,
       chanVars, frameVars
<1>3. CASE open_fun
  <2> DEFINE f == Min({g \in Files : fds[g] = 0})
  <2>1. NextCommand("OPEN") /\ main.at = "command" /\ chfd' = chfd
    BY <1>3, CommandHead DEF open_fun
  <2>2. f \in Files /\ fds[f] = 0
    BY <2>1, FreeFile DEF ProcessInv
  <2>6. PICK k, h : k = Len(conns) + 1 /\ h = chfd[Head(main.cmds).n]
    OBVIOUS
  <2>3. UNCHANGED fds \/ fds' = [g \in Files |-> IF g = f THEN k ELSE IF g = h THEN 0 ELSE fds[g]]
    BY <1>3, <2>6 DEF open_fun
  <2> HIDE DEF f
  <2>4. chfd[e] # 0 => chfd[e] \in Files /\ fds[chfd[e]] # 0
    BY <1>0, <2>1 DEF ProcessInv, FileInv, ChannelFile, ConnOf
  <2>5. chfd[e] # 0 => fds'[chfd[e]] \in {0, fds[chfd[e]]}
    BY <1>0, <2>2, <2>3, <2>4
  <2>. QED BY <2>1, <2>5 DEF ConnOf
<1>4. CASE OpenDone
  <2>1. fds' = fds /\ chfd' = [chfd EXCEPT ![main.chan] = main.file] /\ main.file \in Files /\ main.at = "open"
    BY <1>4 DEF OpenDone, Kinds, MainKinds
  <2>. QED BY <1>0, <1>4, <2>1 DEF ConnOf
<1>5. CASE close_fun
  <2>1. chfd' = chfd /\ (UNCHANGED fds \/ \E h : fds' = [fds EXCEPT ![h] = 0])
    BY <1>5 DEF close_fun
  <2>2. \A h \in Files : fds'[h] \in {0, fds[h]}
    BY <1>0, <2>1
  <2>. QED BY <1>0, <2>1, <2>2 DEF ConnOf
<1>6. CASE CloseDone
  <2>1. fds' = fds /\ chfd' = [chfd EXCEPT ![main.chan] = 0]
    BY <1>6 DEF CloseDone, NumberGone
  <2>. QED BY <1>0, <2>1 DEF ConnOf
<1>. QED BY <1>2, <1>3, <1>4, <1>5, <1>6
     DEF Next, HostCall, HostStep, MainStep, AppCall, AppStep

-----------------------------------------------------------------------------
(* Most steps leave the text of a channel, its lines and what counts alone. *)

Quiet(e) == told'[e] = told[e] /\ cbuf'[e] = cbuf[e] /\ Left(e)' = Left(e)

LEMMA QuietStep ==
  ASSUME Kinds, ProcessInv, Next, NEW e \in Chans
  PROVE  \/ Quiet(e)
         \/ \E a \in Apps : FindLine(a) /\ app[a].chan = e /\ Finds(a, e, LineLen(e))
         \/ OpenDone /\ main.chan = e
         \/ collect_channel_data /\ main.chan = e
         \/ process_254 /\ e = 254
<1> DEFINE Goal == \/ Quiet(e)
                   \/ \E a \in Apps : FindLine(a) /\ app[a].chan = e /\ Finds(a, e, LineLen(e))
                   \/ OpenDone /\ main.chan = e
                   \/ collect_channel_data /\ main.chan = e
                   \/ process_254 /\ e = 254
<1>0. /\ lock \in [Chans -> Apps \cup {"main", None}] /\ "main" \notin Apps /\ None \notin Apps
      /\ \A c \in Chans : lock[c] \in Apps => app[lock[c]].chan = c /\ app[lock[c]].at \in Holding
      /\ \A b \in Apps : app[b].at \in Holding => lock[app[b].chan] = b
      /\ Alive
  BY PlugAssumption DEF Kinds, TextKinds, ProcessInv, LockInv, Next
<1> DEFINE Same == told'[e] = told[e] /\ cbuf'[e] = cbuf[e] /\ fill'[e] = fill[e]
           Stays(b) == (app'[b].at = "fill" <=> app[b].at = "fill") /\ (app[b].at = "fill" => app'[b].n = app[b].n)
<1>1. ASSUME Same, lock'[e] = lock[e], lock[e] \in Apps => Stays(lock[e]) PROVE Quiet(e)
  BY <1>1 DEF Quiet, Left, Filled
<1>2. ASSUME Same, ~Filled(e), ~Filled(e)' PROVE Quiet(e)
  BY <1>2 DEF Quiet, Left
<1>3. ASSUME Same, lock'[e] = lock[e], NEW b \in Apps, lock[e] # b, NEW place, NEW d, NEW n, NEW x,
             Moves(b, place, d, n, x)
      PROVE  Quiet(e)
  BY <1>1, <1>3 DEF Moves
<1>4. ASSUME Same, lock'[e] = lock[e], NEW b \in Apps, app[b].at # "fill",
             NEW place, place # "fill", NEW d, NEW n, NEW x, Moves(b, place, d, n, x)
      PROVE  Quiet(e)
  BY <1>1, <1>4 DEF Moves
\* A lock is taken or given back by one who takes no line.
<1>5. ASSUME UNCHANGED <<told, cbuf, fill>>, NEW c \in Chans, ~Filled(c), NEW b \in Apps, app[b].at # "fill",
             NEW h \in {b, None}, lock' = [lock EXCEPT ![c] = h],
             NEW place, place # "fill", NEW d, NEW n, NEW x, Moves(b, place, d, n, x)
      PROVE  Quiet(e)
  <2>1. CASE e = c
    <3>1. lock'[e] = h /\ (h \in Apps => app'[h].at # "fill")
      BY <1>0, <1>5, <2>1 DEF Moves
    <3>2. ~Filled(e)'
      BY <3>1 DEF Filled
    <3>. QED BY <1>2, <1>5, <2>1, <3>2
  <2>2. CASE e # c
    BY <1>0, <1>4, <1>5, <2>2
  <2>. QED BY <2>1, <2>2
<1>6. ASSUME UNCHANGED <<told, cbuf, fill, lock, app>> PROVE Goal
  BY <1>1, <1>6
<1>7. ASSUME \/ connect_plug \/ Accept \/ CloseFile \/ FrameMade \/ run_program_plug \/ Begin \/ Select
             \/ process_port \/ open_fun \/ close_fun \/ CloseDone \/ frame_fun \/ PortDone
             \/ \E k \in DOMAIN conns : writeln_plug(k) \/ readbuf_plug(k)
             \/ \E f \in Frames : make_frame_plug(f) \/ delete_frame_plug(f)
      PROVE  Goal
  BY <1>6, <1>7 DEF connect_plug, Accept, CloseFile, FrameMade, run_program_plug, writeln_plug,
       readbuf_plug, make_frame_plug, delete_frame_plug, Begin, Select, process_port, open_fun,
       close_fun, CloseDone, frame_fun, PortDone, sockVars, chanVars, frameVars
<1>8. ASSUME NEW c \in Chans, Cross(c), UNCHANGED <<told, cbuf, fill, lock>> PROVE Goal
  BY <1>1, <1>8, CrossMoves
<1>9. ASSUME NEW c \in Chans, channel_open_plug(c) PROVE Goal
  BY <1>8, <1>9 DEF channel_open_plug, chanVars
<1>10. ASSUME NEW k \in DOMAIN conns, channel_close_plug(k) PROVE Goal
  <2>1. conns[k].chan \in Chans
    BY ConnsAre, ConnIs
  <2>. QED BY <1>8, <1>10, <2>1 DEF channel_close_plug, chanVars
\* The main thread.
<1>11. CASE run_fun
  <2>1. PICK b \in Apps : app[b].at = "absent" /\ app' = [app EXCEPT ![b].at = "idle"]
    BY <1>11 DEF run_fun
  <2>2. UNCHANGED <<told, cbuf, fill, lock>>
    BY <1>11 DEF run_fun, chanVars
  <2>3. "idle" \in AppPlaces
    BY DEF AppPlaces
  <2>4. Moves(b, "idle", app[b].chan, app[b].n, app[b].crossed)
    BY <2>1, <2>3, GoesMoves
  <2>. QED BY <1>4, <2>1, <2>2, <2>4
<1>12. CASE OpenDone
  <2>1. app' = app /\ lock' = lock
    BY <1>12 DEF OpenDone
  <2>2. main.chan # e => Same
    BY <1>12, OpenTexts DEF Texts
  <2>. QED BY <1>1, <1>12, <2>1, <2>2
<1>13. CASE NextChannel
  <2>1. app' = app
    BY <1>13, NextTexts
  <2>2. CASE UNCHANGED <<cbuf, fill, told, lock>>
    BY <1>6, <2>1, <2>2
  <2>3. ASSUME NEW c \in Chans, lock[c] = None, Texts(c, cbuf[c], fill[c], told[c], "main") PROVE Goal
    <3>1. Same
      BY <2>3 DEF Texts
    <3>2. CASE e = c
      <4>1. ~Filled(e) /\ ~Filled(e)'
        BY <1>0, <2>3, <3>2 DEF Filled, Texts
      <4>. QED BY <1>2, <3>1, <4>1
    <3>3. CASE e # c
      BY <1>1, <2>1, <2>3, <3>1, <3>3 DEF Texts
    <3>. QED BY <3>2, <3>3
  <2>. QED BY <1>13, <2>2, <2>3, NextTexts
<1>14. CASE collect_channel_data
  <2>1. CASE main.chan = e
    BY <1>14, <2>1
  <2>2. CASE main.chan # e
    <3>1. Same /\ lock'[e] = lock[e]
      BY <1>0, <1>14, <2>2, CollectTexts DEF Texts
    <3>2. Wake(main.chan, Min({Len(conns[ConnOf(main.chan)].down), BufMax - fill[main.chan]}))
      BY <1>14 DEF collect_channel_data
    <3>3. \A b \in Apps : Stays(b)
      BY <3>2, WakeMoves
    <3>. QED BY <1>1, <3>1, <3>3
  <2>. QED BY <2>1, <2>2
<1>15. CASE process_254
  <2>1. CASE e = 254
    BY <1>15, <2>1
  <2>2. CASE e # 254
    <3>1. Same /\ lock'[e] = lock[e]
      BY <1>15, <2>2, MonitorTexts DEF Texts
    <3>2. app' = app
      BY <1>15 DEF process_254
    <3>. QED BY <1>1, <3>1, <3>2
  <2>. QED BY <2>1, <2>2
\* Threads of the application.
<1>16. ASSUME NEW a \in Apps, FindLine(a) PROVE Goal
  <2>1. PICK c \in Chans : /\ c = app[a].chan /\ lock[c] = None /\ app[a].at \in {"readln", "woken"} /\ UNCHANGED fill
                           /\ Finds(a, c, LineLen(c)) \/ FindsNone(a, c)
    BY <1>16, FindLineMoves
  <2>2. CASE FindsNone(a, c)
    <3>1. UNCHANGED <<lock, told, cbuf>> /\ app[a].at # "fill"
      BY <2>1, <2>2 DEF FindsNone
    <3>2. Moves(a, "idle", -1, 0, FALSE) \/ Moves(a, "wait", c, app[a].n, app[a].crossed)
      BY <2>2 DEF FindsNone
    <3>. QED BY <1>4, <2>1, <3>1, <3>2
  <2>3. CASE Finds(a, c, LineLen(c)) /\ c = e
    BY <1>16, <2>1, <2>3
  <2>4. CASE Finds(a, c, LineLen(c)) /\ c # e
    <3>1. Same /\ lock'[e] = lock[e]
      BY <2>1, <2>4, FindTexts DEF Texts
    <3>2. lock[e] # a
      <4>1. lock[e] = a => app[a].at \in Holding
        BY <1>0
      <4>2. app[a].at \notin Holding
        BY <2>1 DEF Holding, Writing
      <4>. QED BY <4>1, <4>2
    <3>3. \E n : Moves(a, "fill", c, n, app[a].crossed)
      BY <2>4 DEF Finds
    <3>. QED BY <1>3, <3>1, <3>2, <3>3
  <2>. QED BY <2>1, <2>2, <2>3, <2>4
<1>17. ASSUME NEW a \in Apps, SetFill(a) PROVE Goal
  <2>1. PICK c \in Chans, n \in Nat : c = app[a].chan /\ n = app[a].n
    BY <1>17, SetFillMoves
  <2>2. app[a].at = "fill" /\ Moves(a, "idle", -1, 0, FALSE)
    BY <1>17, SetFillMoves
  <2>3. Texts(c, cbuf[c], IF n = 0 THEN 0 ELSE fill[c] - n, told[c], None)
    BY <1>17, <2>1, SetFillTexts
  <2>4. lock[c] = a
    BY <1>0, <2>1, <2>2 DEF Holding
  <2>5. CASE e = c
    <3>1. Filled(e) /\ Left(e) = IF n = 0 THEN 0 ELSE fill[c] - n
      BY <2>1, <2>2, <2>4, <2>5 DEF Left, Filled
    <3>2. ~Filled(e)'
      BY <1>0, <2>3, <2>5 DEF Filled, Texts
    <3>3. Left(e)' = Left(e)
      BY <2>3, <2>5, <3>1, <3>2 DEF Left, Texts
    <3>. QED BY <2>3, <2>5, <3>3 DEF Quiet, Texts
  <2>6. CASE e # c
    <3>1. Same /\ lock'[e] = lock[e]
      BY <2>3, <2>6 DEF Texts
    <3>2. lock[e] # a
      BY <1>0, <2>1, <2>6
    <3>. QED BY <1>3, <2>2, <3>1, <3>2
  <2>. QED BY <2>5, <2>6
<1>18. ASSUME NEW a \in Apps, TimesOut(a) PROVE Goal
  <2>1. app[a].at = "wait" /\ app' = [app EXCEPT ![a].at = "woken"] /\ UNCHANGED <<lock, told, cbuf, fill>>
    BY <1>18 DEF TimesOut, AppGoes, chanVars
  <2>2. "woken" \in AppPlaces
    BY DEF AppPlaces, Reading
  <2>3. Moves(a, "woken", app[a].chan, app[a].n, app[a].crossed)
    BY <2>1, <2>2, GoesMoves
  <2>. QED BY <1>4, <2>1, <2>3
<1>19. ASSUME NEW a \in Apps, app[a].at \in Writing PROVE app[a].at # "fill" /\ app[a].chan \in Chans /\ ~Filled(app[a].chan)
  <2>1. app[a].at # "fill" /\ app[a].chan \in Chans
    BY <1>19, AppHas DEF Writing
  <2>2. lock[app[a].chan] = a
    BY <1>0, <1>19 DEF Holding
  <2>. QED BY <2>1, <2>2 DEF Filled
<1>20. ASSUME NEW a \in Apps, WriteBegins(a) PROVE Goal
  <2>0. app[a].at \in Writing /\ UNCHANGED <<told, cbuf, fill>>
    BY <1>20, WriteBeginsMoves DEF Writing
  <2>2. \/ UNCHANGED <<lock, app>>
        \/ UNCHANGED lock /\ \E k : Moves(a, "write text", app[a].chan, k, app[a].crossed)
        \/ UNCHANGED lock /\ \E k : Moves(a, "write newline", app[a].chan, k, app[a].crossed)
        \/ lock' = [lock EXCEPT ![app[a].chan] = None] /\ Moves(a, "idle", -1, 0, FALSE)
    BY <1>20, WriteBeginsMoves
  <2>. QED BY <1>4, <1>5, <1>6, <1>19, <2>0, <2>2
<1>21. ASSUME NEW a \in Apps, WriteEnds(a) PROVE Goal
  <2>0. app[a].at \in Writing /\ UNCHANGED <<told, cbuf, fill>>
    BY <1>21, WriteEndsMoves DEF Writing
  <2>2. \/ UNCHANGED <<lock, app>>
        \/ UNCHANGED lock /\ Moves(a, "newline", app[a].chan, app[a].n, app[a].crossed)
        \/ lock' = [lock EXCEPT ![app[a].chan] = None] /\ Moves(a, "idle", -1, 0, FALSE)
    BY <1>21, WriteEndsMoves
  <2>. QED BY <1>4, <1>5, <1>6, <1>19, <2>0, <2>2
<1>22. ASSUME NEW a \in Apps, NEW c \in AppChans, ise_plug_writeln(a, c) PROVE Goal
  <2>1. /\ app[a].at = "idle" /\ lock[c] = None /\ c \in Chans /\ lock' = [lock EXCEPT ![c] = a] /\ UNCHANGED <<told, cbuf, fill>>
        /\ AppBegins(a, "text", c, "none")
    BY <1>22 DEF ise_plug_writeln, AppChans
  <2>2. "text" \in AppPlaces
    BY DEF AppPlaces, Writing
  <2>3. Moves(a, "text", c, 0, ~Settled(c))
    BY <2>1, <2>2, BeginsMoves
  <2>4. ~Filled(c)
    BY <1>0, <2>1 DEF Filled
  <2>. QED BY <1>5, <2>1, <2>3, <2>4
<1>23. ASSUME NEW a \in Apps, NEW c \in AppChans, NEW d \in Delays, ise_plug_readln(a, c, d) PROVE Goal
  <2>1. app[a].at = "idle" /\ UNCHANGED <<lock, told, cbuf, fill>> /\ AppBegins(a, "readln", c, d) /\ d \in {"none", "timed", "forever"}
    BY <1>23, PlugAssumption DEF ise_plug_readln, chanVars
  <2>2. "readln" \in AppPlaces
    BY DEF AppPlaces, Reading
  <2>3. Moves(a, "readln", c, 0, ~Settled(c))
    BY <2>1, <2>2, BeginsMoves
  <2>. QED BY <1>4, <2>1, <2>3
<1>24. ASSUME NEW a \in Apps, ise_plug_frame_unlock(a) \/ \E f \in Frames : ise_plug_frame_lock(a, f) PROVE Goal
  <2>1. app[a].at \in {"idle", "frame"} /\ (AppGoes(a, "idle") \/ AppGoes(a, "frame")) /\ UNCHANGED <<lock, told, cbuf, fill>>
    BY <1>24 DEF ise_plug_frame_lock, ise_plug_frame_unlock, chanVars
  <2>2. "idle" \in AppPlaces /\ "frame" \in AppPlaces
    BY DEF AppPlaces
  <2>3. \/ Moves(a, "idle", app[a].chan, app[a].n, app[a].crossed)
        \/ Moves(a, "frame", app[a].chan, app[a].n, app[a].crossed)
    BY <2>1, <2>2, GoesMoves DEF AppGoes
  <2>. QED BY <1>4, <2>1, <2>3
<1>. QED BY <1>7, <1>9, <1>10, <1>11, <1>12, <1>13, <1>14, <1>15, <1>16, <1>17, <1>18, <1>20, <1>21, <1>22, <1>23, <1>24
     DEF Next, HostCall, HostStep, MainStep, AppCall, AppStep

-----------------------------------------------------------------------------
(* The lines of a channel, step by step.                                    *)

\* A channel that is not opened or read keeps its connection and what was read of it, or loses it.
LEMMA ConnReads ==
  ASSUME Kinds, ProcessInv, DownInv, Next, NEW e \in Chans, ~(OpenDone /\ main.chan = e),
         ~(collect_channel_data /\ main.chan = e)
  PROVE  ConnOf(e)' = 0 \/ (ConnOf(e)' = ConnOf(e) /\ Read(ConnOf(e))' = Read(ConnOf(e)))
<1> SUFFICES ASSUME ConnOf(e)' # 0 PROVE ConnOf(e)' = ConnOf(e) /\ Read(ConnOf(e))' = Read(ConnOf(e))
  OBVIOUS
<1>1. ConnOf(e)' = ConnOf(e) /\ ConnOf(e) # 0
  BY ConnOfStep
<1>2. PICK j : j = ConnOf(e)
  OBVIOUS
<1>3. j \in 1 .. Len(conns)
  <2>1. chfd[e] \in Files /\ j = fds[chfd[e]] /\ j # 0 /\ fds[chfd[e]] \in Nat
    BY <1>1, <1>2 DEF ConnOf, Kinds, FileKinds
  <2>2. fds[chfd[e]] <= Len(conns) /\ Len(conns) \in Nat
    BY <2>1, ConnsAre DEF ProcessInv, FileInv
  <2>. QED BY <2>1, <2>2
<1>4. ~(collect_channel_data /\ j = ConnOf(main.chan))
  <2> SUFFICES ASSUME collect_channel_data, j = ConnOf(main.chan) PROVE FALSE
    OBVIOUS
  <2>1. main.at = "collect" /\ main.chan \in Chans /\ chfd[main.chan] # 0 /\ chfd[e] # 0
    BY <1>1 DEF collect_channel_data, Kinds, MainKinds, ProcessInv, FileInv, ConnOf
  <2>2. conns[j].chan = main.chan
    BY <2>1, ChannelConn DEF ProcessInv
  <2>3. conns[j].chan = e
    BY <1>2, <2>1, ChannelConn DEF ProcessInv
  <2>. QED BY <2>2, <2>3
<1>5. Read(j)' = Read(j)
  BY <1>3, <1>4, ReadStep
<1>. QED BY <1>1, <1>2, <1>5 DEF Read

\* A line that is taken.
LEMMA FindParts ==
  ASSUME Kinds, NEW a \in Apps, NEW c \in Chans, NEW n \in Nat, Finds(a, c, n), UNCHANGED fill
  PROVE  /\ n \in 1 .. Len(cbuf[c]) /\ n = LineLen(c) /\ app'[a].at = "fill" /\ lock'[c] = a
         /\ fill'[c] = fill[c] /\ app'[a].n = IF n >= fill[c] THEN 0 ELSE n
         /\ cbuf'[c] \in Seq(Char)
         /\ \E w : /\ Shifted(told[c], cbuf[c], n, told'[c], w)
                   /\ ~(n >= fill[c]) => cbuf'[c] = w
                   /\ n >= fill[c] => Len(cbuf'[c]) = n - 1 /\ \A i \in 1 .. n - 1 : cbuf'[c][i] = cbuf[c][i]
<1>1. n \in 1 .. Len(cbuf[c]) /\ n = LineLen(c) /\ app'[a].at = "fill" /\ app'[a].n = IF n >= fill[c] THEN 0 ELSE n
  BY DEF Finds, Moves
<1>2. PICK t, b, w, v : /\ t = told[c] /\ b = cbuf[c] /\ w = SubSeq(b, n + 1, Len(b)) /\ v = SubSeq(b, 1, n - 1)
  OBVIOUS
<1>3. t \in Seq(Char) /\ b \in Seq(Char) /\ n \in 0 .. Len(b) /\ n - 1 \in 0 .. Len(b)
  BY <1>1, <1>2, TextIs
<1>4. PICK u : u = t \o SubSeq(b, 1, n)
  OBVIOUS
<1>5. /\ told'[c] = u /\ cbuf'[c] = (IF n >= fill[c] THEN v ELSE w) /\ fill'[c] = fill[c] /\ lock'[c] = a
  <2>1. Texts(c, IF n >= fill[c] THEN SubSeq(cbuf[c], 1, n - 1) ELSE SubSeq(cbuf[c], n + 1, Len(cbuf[c])), fill[c],
              told[c] \o SubSeq(cbuf[c], 1, n), a)
    BY FindTexts
  <2>2. /\ told'[c] = told[c] \o SubSeq(cbuf[c], 1, n)
        /\ cbuf'[c] = IF n >= fill[c] THEN SubSeq(cbuf[c], 1, n - 1) ELSE SubSeq(cbuf[c], n + 1, Len(cbuf[c]))
        /\ fill'[c] = fill[c] /\ lock'[c] = a
    BY <2>1 DEF Texts
  <2>. QED BY <1>2, <1>4, <2>2
<1>6. Shifted(t, b, n, u, w)
  BY <1>2, <1>3, <1>4, TakeParts
<1>7. v \in Seq(Char) /\ Len(v) = n - 1 /\ \A i \in 1 .. n - 1 : v[i] = b[i]
  BY <1>2, <1>3, PartKinds
<1>8. w \in Seq(Char)
  BY <1>6 DEF Shifted
<1>. QED BY <1>1, <1>2, <1>5, <1>6, <1>7, <1>8

LEMMA FindAmong ==
  ASSUME Kinds, NEW a \in Apps, NEW c \in Chans, NEW n \in Nat, Finds(a, c, n), UNCHANGED fill
  PROVE  Among(told'[c], told[c], cbuf[c]) /\ Among(cbuf'[c], told[c], cbuf[c])
<1>1. PICK w : /\ Shifted(told[c], cbuf[c], n, told'[c], w)
               /\ ~(n >= fill[c]) => cbuf'[c] = w
               /\ n >= fill[c] => Len(cbuf'[c]) = n - 1 /\ \A i \in 1 .. n - 1 : cbuf'[c][i] = cbuf[c][i]
  BY FindParts
<1>2. told[c] \in Seq(Char) /\ cbuf[c] \in Seq(Char) /\ n \in 0 .. Len(cbuf[c]) /\ Len(cbuf[c]) \in Nat /\ fill[c] \in Int
  BY FindParts, TextIs
<1>3. Among(told'[c], told[c], cbuf[c]) /\ Among(w, told[c], cbuf[c])
  BY <1>1, <1>2, TakeAmong
<1>4. CASE n >= fill[c]
  <2>1. ASSUME NEW i \in 1 .. Len(cbuf'[c]) PROVE \E j \in 1 .. Len(cbuf[c]) : cbuf'[c][i] = cbuf[c][j]
    <3>1. i \in 1 .. n - 1 /\ i \in 1 .. Len(cbuf[c])
      BY <1>1, <1>2, <1>4
    <3>. QED BY <1>1, <1>4, <3>1
  <2>2. Among(cbuf'[c], told[c], cbuf[c])
    BY <2>1 DEF Among
  <2>. QED BY <1>3, <2>2
<1>5. CASE ~(n >= fill[c])
  BY <1>1, <1>3, <1>5
<1>. QED BY <1>4, <1>5

\* What counts and what does not, before a line is taken.
LEMMA LeftIs ==
  ASSUME Kinds, ProcessInv, Alive, NEW e \in Chans, ~Filled(e)
  PROVE  Left(e) = fill[e] /\ fill[e] \in {0, Len(cbuf[e])}
BY DEF Left, ProcessInv, BufInv

\* A line without a connection is as whole as with one.
LEMMA WholeAlone ==
  ASSUME NEW t, NEW b, NEW l, NEW k, NEW r, NEW j, NEW s, Whole(t, b, l, k, r), j = 0 \/ (j = k /\ s = r)
  PROVE  Whole(t, b, l, j, s)
BY DEF Whole

LEMMA FindWhole ==
  ASSUME Kinds, Kinds', ProcessInv, LinesInv, Next, NEW a \in Apps, NEW e \in Chans,
         FindLine(a), app[a].chan = e, Finds(a, e, LineLen(e))
  PROVE  LineInv(e)'
<1>0. Alive /\ LineInv(e) /\ ConnsGrow
  BY ConnStep DEF Next, LinesInv
<1>1. lock[e] = None /\ UNCHANGED <<fill, chfd, fds, conns>>
  BY FindLineMoves
<1>2. PICK n \in Nat : n = LineLen(e)
  BY LineLenIs
<1>3. PICK w : /\ Shifted(told[e], cbuf[e], n, told'[e], w)
               /\ ~(n >= fill[e]) => cbuf'[e] = w
               /\ n >= fill[e] => Len(cbuf'[e]) = n - 1 /\ \A i \in 1 .. n - 1 : cbuf'[e][i] = cbuf[e][i]
  BY <1>1, <1>2, FindParts
<1>4. /\ n \in 1 .. Len(cbuf[e]) /\ app'[a].at = "fill" /\ lock'[e] = a
      /\ fill'[e] = fill[e] /\ app'[a].n = IF n >= fill[e] THEN 0 ELSE n
      /\ cbuf'[e] \in Seq(Char)
  BY <1>1, <1>2, FindParts
<1>5. IsNewline(cbuf[e][n]) /\ \A i \in 1 .. n - 1 : ~IsNewline(cbuf[e][i])
  BY <1>2, <1>4, LineLenIs
<1>6. Left(e) = fill[e] /\ fill[e] \in {0, Len(cbuf[e])}
  <2>1. ~Filled(e)
    BY <1>1, PlugAssumption DEF Filled
  <2>. QED BY <1>0, <2>1, LeftIs
<1>7. Left(e)' = IF n >= fill[e] THEN 0 ELSE fill[e] - n
  <2>1. Filled(e)'
    BY <1>4 DEF Filled
  <2>2. n # 0
    BY <1>4
  <2>. QED BY <1>4, <2>1, <2>2 DEF Left
<1>8. PICK k, r, t, b, l : k = ConnOf(e) /\ r = Read(ConnOf(e)) /\ t = told[e] /\ b = cbuf[e] /\ l = fill[e]
  OBVIOUS
<1>9. ConnOf(e)' = k /\ Read(ConnOf(e))' = r
  BY <1>1, <1>8 DEF ConnOf, Read
<1>10. t \in Seq(Char) /\ b \in Seq(Char) /\ Len(b) \in Nat
  BY <1>8, TextIs
<1>11. PICK u, v : u = told'[e] /\ v = cbuf'[e]
  OBVIOUS
<1>12. Whole(t, b, l, k, r)
  BY <1>0, <1>6, <1>8 DEF LineInv
<1>13. Whole(u, v, IF n >= l THEN 0 ELSE l - n, k, r)
  <2>1. Shifted(t, b, n, u, w) /\ n \in 1 .. Len(b) /\ l \in {0, Len(b)} /\ IsNewline(b[n]) /\ v \in Seq(Char)
    BY <1>3, <1>4, <1>5, <1>6, <1>8, <1>11
  <2>2. CASE n >= l
    <3>1. Len(v) = n - 1 /\ (\A i \in 1 .. n - 1 : v[i] = b[i]) /\ \A i \in 1 .. n - 1 : ~IsNewline(b[i])
      BY <1>3, <1>5, <1>8, <1>11, <2>2
    <3>2. Whole(u, v, 0, k, r)
      BY <1>10, <1>12, <2>1, <2>2, <3>1, TakeLast
    <3>. QED BY <2>2, <3>2
  <2>3. CASE ~(n >= l)
    <3>1. l = Len(b) /\ v = w
      BY <1>3, <1>8, <1>11, <2>1, <2>3
    <3>2. Whole(u, v, Len(b) - n, k, r)
      BY <1>10, <1>12, <2>1, <3>1, TakeWhole
    <3>. QED BY <2>3, <3>1, <3>2
  <2>. QED BY <2>2, <2>3
<1>14. Of(told'[e], e, conns') /\ Of(cbuf'[e], e, conns')
  <2>1. Among(told'[e], told[e], cbuf[e]) /\ Among(cbuf'[e], told[e], cbuf[e])
    BY <1>1, <1>2, FindAmong
  <2>2. Of(told[e], e, conns) /\ Of(cbuf[e], e, conns)
    BY <1>0 DEF LineInv
  <2>. QED BY <1>1, <2>1, <2>2, AmongOf
<1>15. Whole(told'[e], cbuf'[e], Left(e)', k, r)
  BY <1>7, <1>8, <1>11, <1>13
<1>. QED BY <1>9, <1>14, <1>15 DEF LineInv

LEMMA MonitorWhole ==
  ASSUME Kinds, Kinds', ProcessInv, LinesInv, Next, 254 \in Chans, process_254, ~Quiet(254)
  PROVE  LineInv(254)'
<1>0. Alive /\ LineInv(254) /\ DownInv /\ ConnsGrow
  BY ConnStep DEF Next, LinesInv
<1>1. main.at = "monitor" /\ UNCHANGED <<app, lock, fds, chfd>>
  BY DEF process_254
<1>2. PICK n, t, b : n = LineLen(254) /\ t = told[254] /\ b = cbuf[254]
  OBVIOUS
<1>3. UNCHANGED <<cbuf, fill, told, lock>> => Quiet(254)
  BY <1>1 DEF Quiet, Left, Filled
<1>4. n \in 1 .. Len(b) /\ Texts(254, SubSeq(b, n + 1, Len(b)), fill[254] - n, t \o SubSeq(b, 1, n), lock[254])
  BY <1>2, <1>3, MonitorTexts
<1>5. t \in Seq(Char) /\ b \in Seq(Char) /\ Len(b) \in Nat /\ n \in 0 .. Len(b)
  <2>1. t \in Seq(Char) /\ b \in Seq(Char) /\ Len(b) \in Nat
    BY <1>2, TextIs
  <2>. QED BY <1>4, <2>1
<1>6. PICK u, v : u = t \o SubSeq(b, 1, n) /\ v = SubSeq(b, n + 1, Len(b))
  OBVIOUS
<1>7. told'[254] = u /\ cbuf'[254] = v /\ fill'[254] = fill[254] - n
  BY <1>4, <1>6 DEF Texts
<1>8. Shifted(t, b, n, u, v)
  BY <1>5, <1>6, TakeParts
<1>9. ~Filled(254) /\ ~Filled(254)'
  <2>1. ~Filled(254)
    <3>1. lock[254] \in Apps => app[lock[254]].chan = 254
      BY DEF ProcessInv, LockInv
    <3>2. \A a \in Apps : app[a].at = "fill" => app[a].chan # 254
      BY AppHas DEF Reading
    <3>. QED BY <3>1, <3>2 DEF Filled
  <2>. QED BY <1>1, <2>1 DEF Filled
<1>10. Left(254) = fill[254] /\ fill[254] = Len(b) /\ Left(254)' = Len(b) - n
  <2>1. Left(254) = fill[254]
    BY <1>9 DEF Left
  <2>2. ~NoLine(254)
    BY <1>2, <1>4, <1>5, LineLenIs
  <2>3. fill[254] = Len(b)
    BY <1>2, <2>2 DEF ProcessInv, BufInv
  <2>. QED BY <1>7, <1>9, <2>1, <2>3 DEF Left
<1>11. IsNewline(b[n])
  BY <1>2, <1>4, <1>5, LineLenIs
<1>12. PICK k, r : k = ConnOf(254) /\ r = Read(ConnOf(254))
  OBVIOUS
<1>13. Whole(t, b, Len(b), k, r)
  BY <1>0, <1>2, <1>10, <1>12 DEF LineInv
<1>14. Whole(u, v, Len(b) - n, k, r)
  BY <1>4, <1>5, <1>8, <1>11, <1>13, TakeWhole
<1>15. ConnOf(254)' = 0 \/ (ConnOf(254)' = k /\ Read(ConnOf(254))' = r)
  <2>1. ~OpenDone /\ ~collect_channel_data
    BY <1>1 DEF OpenDone, collect_channel_data
  <2>. QED BY <1>0, <1>12, <2>1, ConnReads
<1>16. PICK j, s : j = ConnOf(254)' /\ s = Read(ConnOf(254))'
  OBVIOUS
<1>17. Whole(u, v, Len(b) - n, j, s)
  BY <1>14, <1>15, <1>16, WholeAlone
<1>18. Of(u, 254, conns') /\ Of(v, 254, conns')
  <2>1. Among(u, t, b) /\ Among(v, t, b)
    BY <1>5, <1>8, TakeAmong
  <2>2. Of(t, 254, conns) /\ Of(b, 254, conns)
    BY <1>0, <1>2 DEF LineInv
  <2>3. Of(t, 254, conns') /\ Of(b, 254, conns')
    BY <1>0, <2>2, OfStays
  <2>. QED BY <2>1, <2>3, AmongOf
<1>. QED BY <1>7, <1>10, <1>16, <1>17, <1>18 DEF LineInv

\* What comes down a connection of the channel is of the channel.
LEMMA ComeOf ==
  ASSUME NEW x \in Seq(Char), NEW y \in Seq(Char), NEW v, v = x \o y, NEW b, NEW c, NEW conn, Of(b, c, conn),
         \A i \in 1 .. Len(x) : i \in 1 .. Len(b) /\ x[i] = b[i],
         NEW k \in 1 .. Len(conn), conn[k].chan = c, \A i \in 1 .. Len(y) : y[i][1] = k
  PROVE  Of(v, c, conn)
<1>1. IsJoin(x, y, v)
  BY Joined
<1>2. /\ Len(v) = Len(x) + Len(y) /\ Len(x) \in Nat /\ Len(y) \in Nat
      /\ \A i \in 1 .. Len(x) : v[i] = x[i]
      /\ \A i \in 1 .. Len(y) : v[Len(x) + i] = y[i]
  BY <1>1 DEF IsJoin
<1>3. ASSUME NEW i \in 1 .. Len(v) PROVE v[i][1] \in 1 .. Len(conn) /\ conn[v[i][1]].chan = c
  <2>1. CASE i <= Len(x)
    <3>1. i \in 1 .. Len(x)
      BY <1>2, <2>1
    <3>2. v[i] = b[i] /\ i \in 1 .. Len(b)
      BY <1>2, <3>1
    <3>. QED BY <3>2 DEF Of
  <2>2. CASE ~(i <= Len(x))
    <3>1. i - Len(x) \in 1 .. Len(y) /\ i = Len(x) + (i - Len(x))
      BY <1>2, <2>2
    <3>2. v[i][1] = k
      BY <1>2, <3>1
    <3>. QED BY <3>2
  <2>. QED BY <2>1, <2>2
<1>. QED BY <1>3 DEF Of

LEMMA CollectWhole ==
  ASSUME Kinds, Kinds', ProcessInv, LinesInv, Next, NEW e \in Chans, collect_channel_data, main.chan = e
  PROVE  LineInv(e)'
<1>0. Alive /\ LineInv(e) /\ DownInv /\ ConnsGrow
  BY ConnStep DEF Next, LinesInv
<1>1. PICK k, d, n, u :
        /\ k = ConnOf(e) /\ k \in 1 .. Len(conns) /\ conns[k].chan = e
        /\ d = conns[k].down /\ d \in Seq(Char) /\ n = Min({Len(d), BufMax - fill[e]}) /\ n \in 0 .. Len(d)
        /\ u = SubSeq(d, n + 1, Len(d)) /\ Changed(k, conns[k].open, conns[k].sent, u, conns[k].up)
  BY <1>0, CollectConns
<1>2. PICK b, t, l : b = cbuf[e] /\ t = told[e] /\ l = fill[e]
  OBVIOUS
<1>3. PICK v : v = IF n = 0 THEN b ELSE SubSeq(b, 1, l) \o SubSeq(d, 1, n)
  OBVIOUS
<1>4. lock[e] = "main" /\ l \in {0, Len(b)} /\ Texts(e, v, l + n, t, None)
  BY <1>0, <1>1, <1>2, <1>3, CollectTexts
<1>5. told'[e] = t /\ cbuf'[e] = v /\ fill'[e] = l + n /\ lock'[e] = None
  BY <1>4 DEF Texts
<1>6. Left(e) = l /\ Left(e)' = l + n
  <2>1. ~Filled(e) /\ ~Filled(e)'
    BY <1>4, <1>5, PlugAssumption DEF Filled
  <2>. QED BY <1>2, <1>5, <2>1 DEF Left
<1>7. PICK r, s : r = Read(k) /\ s = conns[k].sent
  OBVIOUS
<1>8. Len(d) \in Nat /\ s \in Nat /\ t \in Seq(Char) /\ b \in Seq(Char) /\ Len(b) \in Nat /\ Len(conns) \in Nat /\ k \in Nat \ {0}
  <2>1. Len(d) \in Nat
    BY <1>1, LenProperties
  <2>2. s \in Nat
    BY <1>1, <1>7, ConnIs
  <2>3. t \in Seq(Char) /\ b \in Seq(Char) /\ Len(b) \in Nat
    BY <1>2, TextIs
  <2>. QED BY <1>1, <2>1, <2>2, <2>3, ConnsAre
<1>9. Coming(k, d, s)
  BY <1>0, <1>1, <1>7 DEF DownInv
<1>10. r = s - Len(d) /\ r \in Nat
  <2>1. Len(d) <= s
    BY <1>9 DEF Coming
  <2>2. r = s - Len(d)
    BY <1>1, <1>7 DEF Read
  <2>. QED BY <1>8, <2>1, <2>2
<1>11. ConnOf(e)' = k /\ Read(k)' = r + n
  <2>1. UNCHANGED <<fds, chfd>>
    BY DEF collect_channel_data
  <2>2. conns'[k].sent = s /\ conns'[k].down = u
    BY <1>1, <1>7 DEF Changed
  <2>3. Len(u) = Len(d) - n
    BY <1>1, PartKinds
  <2>4. Read(k)' = s - (Len(d) - n)
    BY <2>2, <2>3 DEF Read
  <2>5. s - (Len(d) - n) = r + n
    BY <1>1, <1>8, <1>10
  <2>. QED BY <1>1, <2>1, <2>4, <2>5 DEF ConnOf
<1>12. Whole(t, b, l, k, r)
  BY <1>0, <1>1, <1>2, <1>6, <1>7 DEF LineInv
<1>13. Of(t, e, conns) /\ Of(b, e, conns)
  BY <1>0, <1>2 DEF LineInv
<1>14. Whole(t, v, l + n, k, r + n) /\ Of(v, e, conns)
  <2>1. CASE n = 0
    <3>1. v = b /\ l + n = l /\ r + n = r
      BY <1>3, <1>4, <1>8, <1>10, <2>1
    <3>. QED BY <1>12, <1>13, <3>1
  <2>2. CASE n # 0
    <3>1. PICK x, y : x = SubSeq(b, 1, l) /\ y = SubSeq(d, 1, n)
      OBVIOUS
    <3>2. v = x \o y
      BY <1>3, <2>2, <3>1
    <3>3. l \in 0 .. Len(b) /\ n \in Nat \ {0}
      BY <1>1, <1>4, <1>8, <2>2
    <3>4. x \in Seq(Char) /\ Len(x) = l /\ \A i \in 1 .. l : x[i] = b[i]
      BY <1>8, <3>1, <3>3, PartKinds
    <3>5. y \in Seq(Char) /\ Len(y) = n /\ \A i \in 1 .. n : y[i] = d[i]
      <4>1. d \in Seq(Char) /\ n \in 0 .. Len(d)
        BY <1>1
      <4>. QED BY <3>1, <4>1, PartKinds
    <3>6. ASSUME NEW i \in 1 .. n PROVE y[i] = <<k, r + i>>
      <4>1. i \in 1 .. Len(d)
        BY <1>1, <1>8
      <4>2. d[i] = <<k, s - Len(d) + i>>
        BY <1>9, <4>1 DEF Coming
      <4>. QED BY <1>10, <3>5, <4>2
    <3>7. Whole(t, v, l + n, k, r + n)
      BY <1>4, <1>8, <1>10, <1>12, <3>2, <3>3, <3>4, <3>5, <3>6, ComeWhole
    <3>8. Of(v, e, conns)
      <4>1. \A i \in 1 .. Len(x) : i \in 1 .. Len(b) /\ x[i] = b[i]
        BY <1>8, <3>3, <3>4
      <4>2. \A i \in 1 .. Len(y) : y[i][1] = k
        BY <3>5, <3>6
      <4>3. x \in Seq(Char) /\ y \in Seq(Char) /\ k \in 1 .. Len(conns) /\ conns[k].chan = e /\ Of(b, e, conns)
        BY <1>1, <1>13, <3>4, <3>5
      <4>. QED BY <3>2, <4>1, <4>2, <4>3, ComeOf
    <3>. QED BY <3>7, <3>8
  <2>. QED BY <2>1, <2>2
<1>15. Of(t, e, conns') /\ Of(v, e, conns')
  BY <1>0, <1>13, <1>14, OfStays
<1>16. Read(ConnOf(e))' = r + n
  BY <1>11 DEF Read
<1>. QED BY <1>5, <1>6, <1>11, <1>14, <1>15, <1>16 DEF LineInv

LEMMA OpenedWhole ==
  ASSUME Kinds, Kinds', ProcessInv, LinesInv, Next, NEW e \in Chans, OpenDone, main.chan = e
  PROVE  LineInv(e)'
<1>0. Alive /\ LineInv(e) /\ NewInv
  BY DEF Next, LinesInv
<1>1. /\ main.at = "open" /\ UNCHANGED <<app, lock, conns, fds>> /\ chfd' = [chfd EXCEPT ![e] = main.file]
      /\ main.file \in Files /\ 0 \notin Files
  BY DEF OpenDone, sockVars, Kinds, MainKinds, Files
<1>2. told'[e] = told[e] /\ cbuf'[e] = cbuf[e] /\ fill'[e] = 0
  BY OpenTexts DEF Texts
<1>3. PICK t, b, l, k, r : t = told[e] /\ b = cbuf[e] /\ l = Left(e) /\ k = fds[main.file] /\ r = Read(k)
  OBVIOUS
<1>4. ConnOf(e)' = k /\ Read(ConnOf(e))' = 0
  <2>1. ConnOf(e)' = k
    BY <1>1, <1>3 DEF ConnOf, Kinds, FileKinds
  <2>2. Read(k)' = Read(k)
    BY <1>1 DEF Read
  <2>3. Read(k) = 0
    BY <1>0, <1>1, <1>3 DEF NewInv
  <2>. QED BY <2>1, <2>2, <2>3 DEF Read
<1>5. Older(t, k) /\ Older(b, k)
  BY <1>0, <1>1, <1>3 DEF NewInv
<1>6. Whole(t, b, l, ConnOf(e), Read(ConnOf(e))) /\ Of(t, e, conns) /\ Of(b, e, conns)
  BY <1>0, <1>3 DEF LineInv
<1>7. PICK m : m = Left(e)'
  OBVIOUS
<1>8. m = 0 \/ (m \in Int /\ ~(m >= 0))
  <2>1. CASE ~Filled(e)
    <3>1. ~Filled(e)'
      BY <1>1, <2>1 DEF Filled
    <3>. QED BY <1>2, <1>7, <3>1 DEF Left
  <2>2. CASE Filled(e)
    <3>1. Filled(e)' /\ app'[lock'[e]].n = app[lock[e]].n /\ app[lock[e]].n \in Nat
      BY <1>1, <2>2, AppHas DEF Filled
    <3>2. m = 0 \/ (m = 0 - app[lock[e]].n /\ app[lock[e]].n # 0)
      BY <1>2, <1>7, <3>1 DEF Left
    <3>. QED BY <3>1, <3>2
  <2>. QED BY <2>1, <2>2
<1>9. m = 0 => l >= 0
  <2>1. CASE ~Filled(e)
    <3>1. l = fill[e]
      BY <1>3, <2>1 DEF Left
    <3>2. fill[e] >= 0
      BY <1>0 DEF ProcessInv, BufInv
    <3>. QED BY <3>1, <3>2
  <2>2. CASE Filled(e)
    <3>1. Filled(e)' /\ app'[lock'[e]].n = app[lock[e]].n /\ app[lock[e]].n \in Nat
      BY <1>1, <2>2, AppHas DEF Filled
    <3>2. m = 0 => app[lock[e]].n = 0
      BY <1>2, <1>7, <3>1 DEF Left
    <3>3. app[lock[e]].n = 0 => l = 0
      BY <1>3, <2>2 DEF Left
    <3>. QED BY <3>2, <3>3
  <2>. QED BY <2>1, <2>2
<1>10. Whole(t, b, m, k, 0)
  <2>1. m >= 0 => Chain(t \o b) \/ (m = 0 /\ Plain(b))
    BY <1>6, <1>8, <1>9 DEF Whole
  <2>2. ~(m > 0)
    BY <1>8
  <2>. QED BY <1>5, <1>6, <2>1, <2>2 DEF Whole
<1>. QED BY <1>1, <1>2, <1>3, <1>4, <1>6, <1>7, <1>10 DEF LineInv

LEMMA LineStep ==
  ASSUME Kinds, Kinds', ProcessInv, LinesInv, Next, NEW e \in Chans
  PROVE  LineInv(e)'
<1>0. LineInv(e) /\ DownInv /\ ConnsGrow
  BY ConnStep DEF Next, LinesInv
<1>1. CASE Quiet(e) /\ ~(OpenDone /\ main.chan = e) /\ ~(collect_channel_data /\ main.chan = e)
  <2>1. ConnOf(e)' = 0 \/ (ConnOf(e)' = ConnOf(e) /\ Read(ConnOf(e))' = Read(ConnOf(e)))
    BY <1>0, <1>1, ConnReads
  <2>2. PICK t, b, l, k, r, j, s : /\ t = told[e] /\ b = cbuf[e] /\ l = Left(e)
                                   /\ k = ConnOf(e) /\ r = Read(ConnOf(e)) /\ j = ConnOf(e)' /\ s = Read(ConnOf(e))'
    OBVIOUS
  <2>3. told'[e] = t /\ cbuf'[e] = b /\ Left(e)' = l
    BY <1>1, <2>2 DEF Quiet
  <2>4. Whole(t, b, l, k, r)
    BY <1>0, <2>2 DEF LineInv
  <2>5. Whole(t, b, l, j, s)
    BY <2>1, <2>2, <2>4, WholeAlone
  <2>6. Of(t, e, conns) /\ Of(b, e, conns)
    BY <1>0, <2>2 DEF LineInv
  <2>7. Of(t, e, conns') /\ Of(b, e, conns')
    BY <1>0, <2>6, OfStays
  <2>. QED BY <2>2, <2>3, <2>5, <2>7 DEF LineInv
<1>2. CASE OpenDone /\ main.chan = e
  BY <1>2, OpenedWhole
<1>3. CASE collect_channel_data /\ main.chan = e
  BY <1>3, CollectWhole
<1>4. CASE process_254 /\ e = 254 /\ ~Quiet(e)
  BY <1>4, MonitorWhole
<1>5. ASSUME NEW a \in Apps, FindLine(a), app[a].chan = e, Finds(a, e, LineLen(e)) PROVE LineInv(e)'
  BY <1>5, FindWhole
<1>. QED BY <1>1, <1>2, <1>3, <1>4, <1>5, QuietStep

-----------------------------------------------------------------------------
(* A connection that has come for a channel is newer than all its text.     *)

LEMMA MainRests ==
  ASSUME Kinds, Next, main'.at = "open"
  PROVE  open_fun \/ (UNCHANGED <<main, fds>> /\ main.at = "open")
<1> DEFINE Goal == open_fun \/ UNCHANGED main
<1>1. ASSUME UNCHANGED main PROVE Goal
  BY <1>1
<1>2. ASSUME \/ connect_plug \/ Accept \/ CloseFile \/ FrameMade \/ run_program_plug
             \/ \E c \in Chans : channel_open_plug(c)
             \/ \E k \in DOMAIN conns : channel_close_plug(k) \/ writeln_plug(k) \/ readbuf_plug(k)
             \/ \E f \in Frames : make_frame_plug(f) \/ delete_frame_plug(f)
             \/ \E a \in Apps : FindLine(a) \/ SetFill(a) \/ TimesOut(a) \/ WriteBegins(a) \/ WriteEnds(a)
             \/ \E a \in Apps : ise_plug_frame_unlock(a)
             \/ \E a \in Apps, c \in AppChans : ise_plug_writeln(a, c)
             \/ \E a \in Apps, c \in AppChans, d \in Delays : ise_plug_readln(a, c, d)
             \/ \E a \in Apps, f \in Frames : ise_plug_frame_lock(a, f)
      PROVE  Goal
  BY <1>1, <1>2 DEF connect_plug, Accept, CloseFile, FrameMade, run_program_plug,
       channel_open_plug, channel_close_plug, writeln_plug, readbuf_plug, make_frame_plug,
       delete_frame_plug, FindLine, SetFill, TimesOut, WriteBegins, WriteEnds,
       ise_plug_frame_unlock, ise_plug_writeln, ise_plug_readln, ise_plug_frame_lock, sockVars,
       chanVars, frameVars
<1>3. ~(Begin \/ Select \/ process_port \/ OpenDone \/ close_fun \/ CloseDone \/ frame_fun \/ run_fun \/ PortDone)
  BY MainPlace
<1>4. ~NextChannel
  BY NextTexts
<1>5. CASE collect_channel_data
  <2>1. main' = [main EXCEPT !.at = IF main.chan = 254 THEN "monitor" ELSE "channels"]
    BY <1>5 DEF collect_channel_data, MainGoes
  <2>2. main'.at \in {"monitor", "channels"}
    BY <2>1 DEF Kinds, MainKinds
  <2>. QED BY <2>2
<1>6. CASE process_254
  <2>1. main.at = "monitor" /\ (main' = main \/ main' = [main EXCEPT !.at = "channels"])
    BY <1>6 DEF process_254, MainGoes
  <2>2. main'.at \in {"monitor", "channels"}
    BY <2>1 DEF Kinds, MainKinds
  <2>. QED BY <2>2
<1>7. CASE open_fun
  BY <1>7
<1>8. open_fun \/ UNCHANGED main
  BY <1>2, <1>3, <1>4, <1>5, <1>6, <1>7
     DEF Next, HostCall, HostStep, MainStep, AppCall, AppStep
<1>9. ASSUME UNCHANGED fds PROVE open_fun \/ close_fun \/ UNCHANGED fds
  BY <1>9
<1>10. ASSUME \/ connect_plug \/ Accept \/ CloseFile \/ FrameMade \/ run_program_plug \/ Begin \/ Select
              \/ process_port \/ OpenDone \/ CloseDone \/ frame_fun \/ run_fun \/ PortDone \/ NextChannel
              \/ collect_channel_data \/ process_254
              \/ \E c \in Chans : channel_open_plug(c)
              \/ \E k \in DOMAIN conns : channel_close_plug(k) \/ writeln_plug(k) \/ readbuf_plug(k)
              \/ \E f \in Frames : make_frame_plug(f) \/ delete_frame_plug(f)
              \/ \E a \in Apps : FindLine(a) \/ SetFill(a) \/ TimesOut(a) \/ WriteBegins(a) \/ WriteEnds(a)
              \/ \E a \in Apps : ise_plug_frame_unlock(a)
              \/ \E a \in Apps, c \in AppChans : ise_plug_writeln(a, c)
              \/ \E a \in Apps, c \in AppChans, d \in Delays : ise_plug_readln(a, c, d)
              \/ \E a \in Apps, f \in Frames : ise_plug_frame_lock(a, f)
       PROVE  open_fun \/ close_fun \/ UNCHANGED fds
  BY <1>9, <1>10 DEF connect_plug, Accept, CloseFile, FrameMade, run_program_plug,
       channel_open_plug, channel_close_plug, writeln_plug, readbuf_plug, make_frame_plug,
       delete_frame_plug, Begin, Select, process_port, OpenDone, CloseDone, frame_fun, run_fun,
       PortDone, NextChannel, collect_channel_data, process_254, FindLine, SetFill, TimesOut,
       WriteBegins, WriteEnds, ise_plug_frame_unlock, ise_plug_writeln, ise_plug_readln,
       ise_plug_frame_lock, sockVars, chanVars, frameVars
<1>11. open_fun \/ close_fun \/ UNCHANGED fds
  BY <1>10 DEF Next, HostCall, HostStep, MainStep, AppCall, AppStep
<1>. QED BY <1>3, <1>8, <1>11

LEMMA NewStep ==
  ASSUME Kinds, Kinds', ProcessInv, LinesInv, Next
  PROVE  NewInv'
<1> SUFFICES ASSUME main'.at = "open"
             PROVE  /\ Read(fds[main.file])' = 0
                    /\ Older(told'[main'.chan], fds'[main'.file]) /\ Older(cbuf'[main'.chan], fds'[main'.file])
  BY DEF NewInv
<1>0. Alive /\ NewInv /\ DownInv /\ \A c \in Chans : LineInv(c)
  BY DEF Next, LinesInv
<1>1. CASE open_fun
  <2> DEFINE f == Min({g \in Files : fds[g] = 0})
  <2>1. NextCommand("OPEN") /\ main.at = "command" /\ UNCHANGED <<told, cbuf>>
    BY <1>1, CommandHead DEF open_fun
  <2>2. PICK c : c = Head(main.cmds).n
    OBVIOUS
  <2>3. ~NoChannel(c)
    <3>1. NoChannel(c) => main' = [main EXCEPT !.at = "command", !.cmds = Tail(@), !.chan = 0]
      BY <1>1, <2>2 DEF open_fun, Done
    <3>2. NoChannel(c) => main'.at = "command"
      BY <3>1 DEF Kinds, MainKinds
    <3>. QED BY <3>2
  <2>4. c \in Chans /\ OpenedConn(c)
    BY <1>1, <2>2, <2>3, OpenConns
  <2>5. f \in Files /\ fds[f] = 0
    BY <2>1, FreeFile DEF ProcessInv
  <2>6. PICK k \in Nat : k = Len(conns) + 1
    BY ConnsAre
  <2>7. /\ fds' = [g \in Files |-> IF g = f THEN k ELSE IF g = chfd[c] THEN 0 ELSE fds[g]]
        /\ main' = [main EXCEPT !.at = "open", !.cmds = Tail(@), !.chan = c, !.file = f]
    BY <1>1, <2>2, <2>3, <2>6 DEF open_fun
  <2> HIDE DEF f
  <2>8. main'.chan = c /\ main'.file = f /\ fds'[f] = k
    BY <2>5, <2>7 DEF Kinds, MainKinds
  <2>9. conns'[k].sent = 0 /\ conns'[k].down = <<>>
    BY <2>4, <2>6 DEF OpenedConn
  <2>10. Read(k)' = 0
    <3>1. Len(conns'[k].down) = 0
      BY <2>9, EmptySeq
    <3>2. Read(k)' = conns'[k].sent - Len(conns'[k].down)
      BY DEF Read
    <3>3. conns'[k].sent = 0
      BY <2>9
    <3>. QED BY <3>1, <3>2, <3>3
  <2>11. Of(told[c], c, conns) /\ Of(cbuf[c], c, conns)
    BY <1>0, <2>4 DEF LineInv
  <2>12. ASSUME NEW s, Of(s, c, conns) PROVE Older(s, k)
    <3>1. ASSUME NEW i \in 1 .. Len(s) PROVE s[i][1] < k
      <4>1. s[i][1] \in 1 .. Len(conns) /\ Len(conns) \in Nat
        BY <2>12, ConnsAre DEF Of
      <4>. QED BY <2>6, <4>1
    <3>. QED BY <3>1 DEF Older
  <2>13. Older(told[c], k) /\ Older(cbuf[c], k)
    BY <2>11, <2>12
  <2>. QED BY <2>1, <2>8, <2>10, <2>13 DEF Read
<1>2. CASE UNCHANGED <<main, fds>> /\ main.at = "open"
  <2>1. PICK c, k : c = main.chan /\ c \in Chans /\ k = fds[main.file]
    BY <1>2 DEF Kinds, MainKinds
  <2>2. k \in 1 .. Len(conns)
    <3>1. main.file \in Files /\ k \in Nat /\ k # 0 /\ k <= Len(conns) /\ Len(conns) \in Nat
      BY <1>2, <2>1, ConnsAre DEF Kinds, MainKinds, FileKinds, ProcessInv, FileInv
    <3>. QED BY <3>1
  <2>3. Read(k) = 0 /\ Older(told[c], k) /\ Older(cbuf[c], k)
    BY <1>0, <1>2, <2>1 DEF NewInv
  <2>4. ~OpenDone /\ ~collect_channel_data /\ ~process_254
    <3>1. OpenDone => main'.at = "command"
      BY MainPlace
    <3>. QED BY <1>2, <3>1 DEF collect_channel_data, process_254
  <2>5. Read(k)' = 0
    <3>1. Read(k)' = Read(k)
      BY <1>0, <2>2, <2>4, ReadStep
    <3>. QED BY <2>3, <3>1
  <2>6. Older(told'[c], k) /\ Older(cbuf'[c], k)
    <3>1. CASE Quiet(c)
      BY <2>3, <3>1 DEF Quiet
    <3>2. ASSUME NEW a \in Apps, FindLine(a), app[a].chan = c, Finds(a, c, LineLen(c))
          PROVE  Older(told'[c], k) /\ Older(cbuf'[c], k)
      <4>1. PICK n \in Nat : n = LineLen(c)
        BY <2>1, LineLenIs
      <4>2. UNCHANGED fill
        BY <3>2 DEF FindLine
      <4>3. Among(told'[c], told[c], cbuf[c]) /\ Among(cbuf'[c], told[c], cbuf[c])
        BY <2>1, <3>2, <4>1, <4>2, FindAmong
      <4>. QED BY <2>3, <4>3, AmongOlder
    <3>. QED BY <2>1, <2>4, <3>1, <3>2, QuietStep
  <2>. QED BY <1>2, <2>1, <2>5, <2>6 DEF Read
<1>. QED BY <1>1, <1>2, MainRests

LEMMA LinesStep ==
  ASSUME Kinds, Kinds', ProcessInv, LinesInv, Next
  PROVE  LinesInv'
<1>1. DownInv'
  BY ReadStep DEF LinesInv
<1>2. NewInv'
  BY NewStep
<1>3. \A c \in Chans : LineInv(c)'
  BY LineStep
<1>. QED BY <1>1, <1>2, <1>3 DEF LinesInv

LEMMA ToldInOrder ==
  ASSUME Kinds, LinesInv
  PROVE  LinesInOrder
<1> SUFFICES ASSUME NEW c \in Chans, NEW i \in DOMAIN told[c]
             PROVE  /\ conns[told[c][i][1]].chan = c
                    /\ told[c][i][2] > 1 => i > 1 /\ told[c][i-1] = <<told[c][i][1], told[c][i][2] - 1>>
                    /\ i > 1 /\ told[c][i][2] = 1 => told[c][i-1][1] < told[c][i][1] /\ IsNewline(told[c][i-1])
  BY DEF LinesInOrder
<1>1. PICK t : t = told[c]
  OBVIOUS
<1>2. t \in Seq(Char) /\ i \in 1 .. Len(t) /\ i \in Nat
  <2>1. t \in Seq(Char)
    BY <1>1, TextIs
  <2>2. DOMAIN t = 1 .. Len(t) /\ Len(t) \in Nat
    BY <2>1, LenProperties
  <2>. QED BY <1>1, <2>1, <2>2
<1>3. Of(t, c, conns) /\ Chain(t)
  BY <1>1 DEF LinesInv, LineInv, Whole
<1>4. conns[t[i][1]].chan = c
  BY <1>2, <1>3 DEF Of
<1>5. IF i = 1 THEN t[i][2] = 1 ELSE Follows(t[i-1], t[i])
  BY <1>2, <1>3 DEF Chain
<1>6. CASE i = 1
  BY <1>1, <1>4, <1>5, <1>6
<1>7. CASE i # 1
  <2>1. i > 1 /\ Follows(t[i-1], t[i])
    BY <1>2, <1>5, <1>7
  <2>2. t[i][2] > 1 => t[i-1] = <<t[i][1], t[i][2] - 1>>
    BY <2>1 DEF Follows
  <2>3. t[i][2] = 1 => t[i-1][1] < t[i][1] /\ IsNewline(t[i-1])
    BY <2>1 DEF Follows
  <2>. QED BY <1>1, <1>4, <2>1, <2>2, <2>3
<1>. QED BY <1>6, <1>7

LEMMA LinesInit ==
  Init => LinesInv
<1> SUFFICES ASSUME Init PROVE LinesInv
  OBVIOUS
<1>1. Len(conns) = 0 /\ main.at = "begin"
  BY EmptySeq DEF Init
<1>2. DownInv /\ NewInv
  BY <1>1 DEF DownInv, NewInv
<1>3. ASSUME NEW c \in Chans PROVE LineInv(c)
  <2>1. told[c] = <<>> /\ cbuf[c] = <<>> /\ lock[c] = None /\ fill[c] = 0 /\ chfd[c] = 0
    BY <1>3 DEF Init
  <2>2. Left(c) = 0
    <3>1. ~Filled(c)
      BY <2>1, PlugAssumption DEF Filled
    <3>. QED BY <2>1, <3>1 DEF Left
  <2>3. ConnOf(c) = 0
    BY <2>1 DEF ConnOf
  <2>4. Of(<<>>, c, conns) /\ Chain(<<>>) /\ Plain(<<>>)
    BY EmptySeq DEF Of, Chain, Plain
  <2>5. \A r : Whole(<<>>, <<>>, 0, 0, r)
    BY <2>4 DEF Whole
  <2>. QED BY <2>1, <2>2, <2>3, <2>4, <2>5 DEF LineInv
<1>. QED BY <1>2, <1>3 DEF LinesInv

LEMMA LinesStutter ==
  ASSUME LinesInv, UNCHANGED vars
  PROVE  LinesInv'
<1>1. UNCHANGED <<conns, fds, chfd, cbuf, fill, lock, main, app, told>>
  BY DEF vars, sockVars, chanVars, frameVars
<1>2. DownInv' /\ NewInv'
  BY <1>1 DEF LinesInv, DownInv, NewInv, Read
<1>3. ASSUME NEW c \in Chans PROVE LineInv(c)'
  BY <1>1, <1>3 DEF LinesInv, LineInv, Left, Filled, ConnOf, Read
<1>. QED BY <1>2, <1>3 DEF LinesInv

\* The lines that the application gets from a channel are those that the host wrote, whole and
\* in order, and never parts of the text of two connections put together, however OPEN, CLOSE
\* and the application's own calls are interleaved with the main thread's collecting.
THEOREM OrderKept ==
  Spec => []LinesInOrder
<1>1. Init => LinesInv
  BY LinesInit
<1>2. Kinds /\ Kinds' /\ ProcessInv /\ LinesInv /\ [Next]_vars => LinesInv'
  BY LinesStep, LinesStutter
<1>3. Kinds /\ LinesInv => LinesInOrder
  BY ToldInOrder
<1>. QED BY <1>1, <1>2, <1>3, ProcessKept, PTL DEF Spec

=============================================================================
